---------------------------- MODULE CompanyTree ----------------------------
(***************************************************************************)
(* The company hierarchy: app/services/company.py as the handlers of       *)
(* app/api/v1/companies.py call it, over the table `companies`.            *)
(*                                                                         *)
(* A request finds the company it works in active (the context), then      *)
(* reads the subtree of that company (one recursive SELECT), decides on    *)
(* what it read, and commits. No lock is taken and the session keeps the   *)
(* rows it loaded first, so the decision of a request is as old as its     *)
(* reads: every read and the commit are actions of their own.              *)
(*                                                                         *)
(* Abstracted: names (the metadata updates write no column of this model), *)
(* the roles and memberships created with a company in the same            *)
(* transaction, permissions.                                               *)
(***************************************************************************)
EXTENDS Naturals

CONSTANTS
  Companies,  \* the ids the sequence will draw
  Root,       \* the company the installation created
  Workers,    \* requests that can be in flight together
  None        \* no company

ASSUME RootAssumption == Root \in Companies
ASSUME NoneAssumption == None \notin Companies

VARIABLES
  exists,  \* the rows of the table
  parent,  \* parent_id
  active,  \* the companies with is_active
  req,     \* the request each worker is running
  raced    \* history: companies last written by a request that was overtaken

vars == <<exists, parent, active, req, raced>>

-----------------------------------------------------------------------------
(* The hierarchy *)

Children(c) == {d \in exists : parent[d] = c}

(* get_company_subtree: the least set of companies that contains c and the   *)
(* children of its members.                                                  *)
Subtree(c) ==
  LET closed == {S \in SUBSET exists : /\ c \in S
                                       /\ \A d \in exists : parent[d] \in S => d \in S}
  IN  {d \in exists : \A S \in closed : d \in S}

OnCycle(c) == parent[c] # None /\ parent[c] \in Subtree(c)

(* The recursive query is a UNION ALL: from a company on a cycle it never    *)
(* ends. (A company has one parent, so a cycle below it contains it.)        *)
Terminates(c) == ~OnCycle(c)

(* Variant for mutation: only the direct parent is looked at. *)
WouldCycleDirectly(c, p) == p = c \/ parent[p] = c

(* _validate_parent_change walks from p to the top and must not meet c. *)
WouldCycle(c, p) == p \in Subtree(c)

(* That walk ends unless the companies above lead into a cycle. *)
WalkEnds(p) == \A c \in exists : p \in Subtree(c) => ~OnCycle(c)

-----------------------------------------------------------------------------
(* Requests *)

Pcs == {"idle", "context", "create", "move", "on", "cascade", "off"}

Requests == [pc : Pcs, company : Companies \cup {None}, parent : Companies \cup {None},
             ids : SUBSET Companies, overtaken : BOOLEAN]

Idle == [pc |-> "idle", company |-> None, parent |-> None, ids |-> {}, overtaken |-> FALSE]

At(w, pc) == req[w].pc = pc

Begin(w, r) ==
  /\ req' = [req EXCEPT ![w] = r]
  /\ UNCHANGED <<exists, parent, active, raced>>

(* The commit of w ends its request and overtakes the others in flight. *)
Commit(w) ==
  req' = [v \in Workers |-> IF v = w THEN Idle
                            ELSE [req[v] EXCEPT !.overtaken = req[v].pc # "idle"]]

(* get_current_company_context: the company named in the header is active.   *)
Enter(w, root) ==
  /\ At(w, "idle")
  /\ root \in active
  /\ Begin(w, [Idle EXCEPT !.pc = "context", !.company = root])

(* The company a request works in. *)
Context(w) == req[w].company

(* The companies that are active as far as the session knows when it reads:  *)
(* the row of the context is not loaded again.                               *)
SeenActive(w) == active \cup {Context(w)}

(* Variant for mutation: the company is found by its id, in no tree. *)
ById(w, c) == c \in exists

(* The subtree of the context is read, and c is in it. *)
InTree(w, c) == Terminates(Context(w)) /\ c \in Subtree(Context(w))

Init ==
  /\ exists = {Root}
  /\ parent = [c \in Companies |-> None]
  /\ active = {Root}
  /\ req = [w \in Workers |-> Idle]
  /\ raced = {}

-----------------------------------------------------------------------------
(* Creation *)

(* create_child_company_with_administrator_within_tree: the parent is in the *)
(* tree and active. Below the context itself, .../{company_id}/children      *)
(* creates without a look at the tree.                                       *)
CreateRead(w, p) ==
  /\ At(w, "context")
  /\ p \in SeenActive(w)
  /\ p # Context(w) => InTree(w, p)
  /\ Begin(w, [req[w] EXCEPT !.pc = "create", !.company = None, !.parent = p])

(* _create_company_with_administrator: one transaction. *)
CreateCommit(w, c) ==
  /\ At(w, "create")
  /\ c \notin exists
  /\ exists' = exists \cup {c}
  /\ parent' = [parent EXCEPT ![c] = req[w].parent]
  /\ active' = active \cup {c}
  /\ raced' = IF req[w].overtaken THEN raced \cup {c} ELSE raced
  /\ Commit(w)

(* create_root_company_with_administrator reads nothing it depends on. *)
CreateRoot(w, c) ==
  /\ At(w, "idle")
  /\ c \notin exists
  /\ exists' = exists \cup {c}
  /\ parent' = [parent EXCEPT ![c] = None]
  /\ active' = active \cup {c}
  /\ Commit(w)
  /\ UNCHANGED raced

-----------------------------------------------------------------------------
(* Moving *)

(* move_company_within_tree: every check is made on the rows of one read. *)
MoveRead(w, c, p) ==
  /\ At(w, "context")
  /\ c # Context(w)
  /\ parent[c] # p
  /\ c \in active => p \in SeenActive(w)
  /\ InTree(w, c)
  /\ InTree(w, p)
  /\ WalkEnds(p)
  /\ ~WouldCycle(c, p)
  /\ Begin(w, [req[w] EXCEPT !.pc = "move", !.company = c, !.parent = p])

MoveCommit(w) ==
  /\ At(w, "move")
  /\ parent' = [parent EXCEPT ![req[w].company] = req[w].parent]
  /\ raced' = IF req[w].overtaken THEN raced \cup {req[w].company} ELSE raced
  /\ Commit(w)
  /\ UNCHANGED <<exists, active>>

-----------------------------------------------------------------------------
(* set_company_active_state_within_tree *)

(* Reactivation: the parent must be active; an active company is left alone. *)
ActivateRead(w, c) ==
  /\ At(w, "context")
  /\ c # Context(w)
  /\ c \notin active
  /\ parent[c] \in SeenActive(w)
  /\ InTree(w, c)
  /\ Begin(w, [req[w] EXCEPT !.pc = "on", !.company = c])

ActivateCommit(w) ==
  /\ At(w, "on")
  /\ active' = active \cup {req[w].company}
  /\ raced' = IF req[w].overtaken THEN raced \cup {req[w].company}
                                  ELSE raced \ {req[w].company}
  /\ Commit(w)
  /\ UNCHANGED <<exists, parent>>

(* Deactivation: the context itself is refused. `ids` are the rows the       *)
(* session now holds as inactive: the ORM writes no column it thinks is set. *)
DeactivateRead(w, c) ==
  /\ At(w, "context")
  /\ c # Context(w)
  /\ InTree(w, c)
  /\ Begin(w, [req[w] EXCEPT !.pc = "cascade", !.company = c,
                             !.ids = Subtree(Context(w)) \ SeenActive(w)])

(* Variant for mutation: the cascade stops at the children. *)
CascadeChildren(c) == {c} \cup Children(c)

(* The companies the cascade reaches. *)
Cascade(c) == Subtree(c)

(* The second read, of the subtree that goes. A row it brings in for the     *)
(* first time, and as inactive already, is counted among the written ones.   *)
CascadeRead(w) ==
  /\ At(w, "cascade")
  /\ Terminates(req[w].company)
  /\ Begin(w, [req[w] EXCEPT !.pc = "off", !.ids = Cascade(req[w].company) \ req[w].ids])

(* The UPDATEs, in the order of the ids, and the commit. *)
CascadeCommit(w) ==
  /\ At(w, "off")
  /\ active' = active \ req[w].ids
  /\ raced' = IF req[w].overtaken THEN raced \cup req[w].ids ELSE raced \ req[w].ids
  /\ Commit(w)
  /\ UNCHANGED <<exists, parent>>

-----------------------------------------------------------------------------

(* A request is cut off, or its transaction fails: rolled back. *)
CutOff(w) ==
  /\ ~At(w, "idle")
  /\ Begin(w, Idle)

Step(w) ==
  \/ \E root \in exists : Enter(w, root)
  \/ \E p \in exists : CreateRead(w, p)
  \/ \E c \in Companies : CreateCommit(w, c) \/ CreateRoot(w, c)
  \/ \E c, p \in exists : MoveRead(w, c, p)
  \/ MoveCommit(w)
  \/ \E c \in exists : ActivateRead(w, c) \/ DeactivateRead(w, c)
  \/ ActivateCommit(w)
  \/ CascadeRead(w)
  \/ CascadeCommit(w)
  \/ CutOff(w)

Next == \E w \in Workers : Step(w)

Spec == Init /\ [][Next]_vars

-----------------------------------------------------------------------------
(* Properties *)

(* Types: only rows of the table are active or are the parent of a company. *)
TypeOK ==
  /\ exists \in SUBSET Companies
  /\ active \in SUBSET exists
  /\ parent \in [Companies -> exists \cup {None}]
  /\ req \in [Workers -> Requests]
  /\ raced \in SUBSET Companies

(* An active company whose parent is not. *)
Inverted(c) == c \in active /\ parent[c] # None /\ parent[c] \notin active

(* "Deactivation always cascades", a company comes back only under an active *)
(* parent, and an active company never moves under an inactive one           *)
(* (services/company.py): so an active company under an inactive one is the  *)
(* work of a request that another one overtook between its read and its      *)
(* commit; requests that do not overlap keep the rule.                       *)
InversionsOnlyByOverlap ==
  \A c \in exists : Inverted(c) => c \in raced \/ parent[c] \in raced

(* Likewise a cycle: one of its companies was moved by an overtaken request. *)
CyclesOnlyByOverlap ==
  \A c \in exists : OnCycle(c) => \E d \in raced : d \in Subtree(c) /\ c \in Subtree(d)

(* The inductive invariant behind InversionsOnlyByOverlap: what a request     *)
(* that was not overtaken has read is still so.                              *)
ReadOK(w) ==
  LET r == req[w]
  IN  /\ r.pc \in {"context", "move", "on", "cascade", "off"} => r.company \in exists
      /\ r.pc \in {"create", "move"} => r.parent \in exists
      /\ r.pc \in {"cascade", "off"} => r.ids \subseteq exists
      /\ ~r.overtaken =>
           /\ r.pc = "context" => r.company \in active
           /\ r.pc = "create" => r.parent \in active
           /\ r.pc = "move" => (r.company \in active => r.parent \in active)
           /\ r.pc = "on" => parent[r.company] \in active
           /\ r.pc = "cascade" => r.ids \cap active = {}
           /\ r.pc = "off" => \A c \in active : parent[c] \in r.ids => c \in r.ids

(* Types, faithful reads, and no inversion without an overlap.                *)
HierarchyInductive ==
  /\ TypeOK
  /\ \A w \in Workers : ReadOK(w)
  /\ InversionsOnlyByOverlap

(* What a request that was not overtaken knows about cycles: the query for    *)
(* the tree it works in has ended, so the company it found there is on none,  *)
(* nor is any company it is about to switch off; and the new parent of a      *)
(* company it moves is not below that company.                                *)
OffCycles(w) ==
  LET r == req[w]
  IN  ~r.overtaken =>
        /\ r.pc = "move" => r.parent \notin Subtree(r.company)
        /\ r.pc \in {"move", "on"} => ~OnCycle(r.company)
        /\ r.pc = "off" => \A c \in r.ids : ~OnCycle(c)

(* HierarchyInductive, and the same for cycles. `raced` forgets a company     *)
(* that a request wrote without being overtaken; OffCycles is what keeps that *)
(* request from taking the only witness of a cycle away.                      *)
CyclesInductive ==
  /\ HierarchyInductive
  /\ CyclesOnlyByOverlap
  /\ \A w \in Workers : OffCycles(w)

(* Companies on a cycle stay there: a request only finds a company through   *)
(* the subtree it belongs to, and that query never ends for them, so only a  *)
(* move that had read the tree before can take one of them out again.        *)
CyclesAreForever ==
  [][\A c \in exists : OnCycle(c) /\ ~OnCycle(c)' =>
       \E w \in Workers : req[w].overtaken /\ At(w, "move")]_vars
=============================================================================
