-------------------------- MODULE PermissionCache --------------------------
(***************************************************************************)
(* The authorization cache: app/services/authorization.py, the queries of  *)
(* app/repositories/authorization.py, and every handler that changes what  *)
(* the cache was computed from.                                            *)
(*                                                                         *)
(* PostgreSQL holds the truth; Redis holds, per membership, what           *)
(* get_effective_permissions computed from it. A reader that misses runs   *)
(* two SELECTs (each with a READ COMMITTED snapshot of its own) and a SET; *)
(* a writer commits and then runs a DEL. Nothing orders the two, so every  *)
(* command of either is an action of its own.                              *)
(*                                                                         *)
(* Abstracted: one company (its id is part of every key and every join),   *)
(* and one permission (codes never interact). A scope is the set of ranks  *)
(* it covers, 1 .. n: the broader of two scopes is their union and the     *)
(* absence of the permission is {}.                                        *)
(***************************************************************************)
EXTENDS Naturals, Memberships

CONSTANTS
  SystemRole,  \* the administrator role, which no handler may change
  Admins,      \* the memberships of system administrators
  MaxScope,    \* the rank of the broadest scope, 4 in the code (COMPANY)
  MaxCommits,  \* bound on the commits of a run
  Deny         \* an override with effect "deny"

Ranks == 1 .. MaxScope

Scopes == {1 .. n : n \in 0 .. MaxScope}

(* PermissionScope.COMPANY *)
Company == Ranks

(* A cached scope, or no key. *)
KeyValues == {None} \cup SUBSET Ranks

Overrides == (Scopes \ {{}}) \cup {Deny, None}

ASSUME SystemAssumption == SystemRole \in Roles /\ Admins \subseteq Members
ASSUME ScopeAssumption == MaxScope \in Nat \ {0}
ASSUME BoundAssumption == MaxCommits \in Nat
ASSUME ValuesAssumption ==
  /\ None \notin Members \cup Roles \cup Scopes \cup {Deny}
  /\ Deny \notin Scopes
  /\ \A ranks \in SUBSET Ranks : ranks # None

VARIABLES
  enabled,   \* memberships with is_active
  grant,     \* role_permissions: the scope each role gives the permission
  override,  \* membership_permission_overrides, per membership
  cache,     \* authz:permissions:{company}:{membership}
  commits,   \* commits so far
  late,      \* history: keys that were SET after a commit overtook the SELECTs
  cut        \* history: keys whose DEL was cut off after its commit

accessTables == <<enabled, usable, held, grant, override>>
cacheVars == <<enabled, usable, held, grant, override, cache, req, commits, late, cut>>

-----------------------------------------------------------------------------
(* Effective permissions *)

(* The first SELECT: the broadest scope among the usable roles. *)
RoleScope(m) ==
  IF m \in enabled THEN UNION {grant[r] : r \in held[m] \cap usable} ELSE {}

(* Variant for mutation: a DENY leaves what the roles give. *)
MergeDenyIgnored(scope, o) == IF o \in {Deny, None} THEN scope ELSE scope \cup o

(* The loop over the overrides: DENY removes, ALLOW broadens. *)
Merge(scope, o) ==
  CASE o = Deny -> {}
    [] o = None -> scope
    [] OTHER -> scope \cup o

(* The second SELECT sees no override of an inactive membership. *)
OverrideOf(m) == IF m \in enabled THEN override[m] ELSE None

(* What the tables say the membership may do. *)
Effective(m) == Merge(RoleScope(m), OverrideOf(m))

-----------------------------------------------------------------------------
(* Requests *)

CacheSteps == {"idle", "roles", "overrides", "set", "flush", "members", "del"}

CacheRequests ==
  [pc : CacheSteps, member : Members \cup {None}, role : Roles \cup {None},
   scope : SUBSET Ranks, old : Overrides, new : Overrides,
   ids : SUBSET Members, overtaken : BOOLEAN]

AtRest ==
  [pc |-> "idle", member |-> None, role |-> None, scope |-> {}, old |-> None,
   new |-> None, ids |-> {}, overtaken |-> FALSE]

(* A commit of w goes on with `next`; it overtakes every fill of a key of     *)
(* `touched` that is between its first SELECT and its SET.                    *)
CommitAnd(w, next, touched) ==
  /\ commits < MaxCommits
  /\ commits' = commits + 1
  /\ req' = [v \in Workers |->
               IF v = w THEN next
               ELSE [req[v] EXCEPT !.overtaken =
                       @ \/ /\ req[v].pc \in {"overrides", "set"}
                            /\ req[v].member \in touched]]
  /\ UNCHANGED <<cache, late, cut>>

InvalidateMember(m) == [AtRest EXCEPT !.pc = "del", !.ids = {m}]

InvalidateRole(r) == [AtRest EXCEPT !.pc = "members", !.role = r]

(* The process starts on tables that earlier processes left, with the system *)
(* role in order and the cache cleared.                                      *)
CacheInit ==
  /\ enabled \in {on \in SUBSET Members : Admins \subseteq on}
  /\ usable \in {on \in SUBSET Roles : SystemRole \in on}
  /\ held \in {h \in [Members -> SUBSET Roles] : \A m \in Admins : SystemRole \in h[m]}
  /\ grant \in {g \in [Roles -> Scopes] : g[SystemRole] = Company}
  /\ override \in [Members -> Overrides]
  /\ cache = [m \in Members |-> None]
  /\ req = [w \in Workers |-> AtRest]
  /\ commits = 0
  /\ late = {}
  /\ cut = {}

-----------------------------------------------------------------------------
(* require_permission: get_current_company_context has read the membership,  *)
(* and get_effective_permissions runs. A hit decides the request at once and *)
(* changes nothing, so only the miss is a step.                              *)

CacheMiss(w, m) ==
  /\ At(w, "idle")
  /\ m \in enabled
  /\ cache[m] = None
  /\ req' = [req EXCEPT ![w] = [AtRest EXCEPT !.pc = "roles", !.member = m]]
  /\ UNCHANGED <<accessTables, cache, commits, late, cut>>

SelectRoles(w) ==
  /\ At(w, "roles")
  /\ req' = [req EXCEPT ![w] = [@ EXCEPT !.pc = "overrides",
                                         !.scope = RoleScope(req[w].member)]]
  /\ UNCHANGED <<accessTables, cache, commits, late, cut>>

SelectOverrides(w) ==
  /\ At(w, "overrides")
  /\ req' = [req EXCEPT ![w] = [@ EXCEPT !.pc = "set",
               !.scope = Merge(req[w].scope, OverrideOf(req[w].member))]]
  /\ UNCHANGED <<accessTables, cache, commits, late, cut>>

(* SET key EX 900 *)
CacheSet(w) ==
  /\ At(w, "set")
  /\ LET m == req[w].member
     IN  /\ cache' = [cache EXCEPT ![m] = req[w].scope]
         /\ late' = IF req[w].overtaken THEN late \cup {m} ELSE late \ {m}
         /\ cut' = cut \ {m}
  /\ req' = [req EXCEPT ![w] = AtRest]
  /\ UNCHANGED <<accessTables, commits>>

-----------------------------------------------------------------------------
(* The handlers that change the tables.                                      *)

(* replace_role_permissions: the scope of the permission in a role. *)
ReplaceRolePermissions(w, r, scope) ==
  /\ At(w, "idle")
  /\ r # SystemRole
  /\ grant' = [grant EXCEPT ![r] = scope]
  /\ CommitAnd(w, InvalidateRole(r), Holders(r))
  /\ UNCHANGED <<enabled, usable, held, override>>

(* update_role with is_active. *)
SwitchRole(w, r, on) ==
  /\ At(w, "idle")
  /\ r # SystemRole
  /\ usable' = IF on THEN usable \cup {r} ELSE usable \ {r}
  /\ CommitAnd(w, InvalidateRole(r), Holders(r))
  /\ UNCHANGED <<enabled, held, grant, override>>

(* _persist_membership_roles: inactive roles only if they are held already. *)
ReplaceMembershipRoles(w, m, roles) ==
  /\ At(w, "idle")
  /\ m \in enabled
  /\ roles \subseteq usable \cup held[m]
  /\ roles # held[m]
  /\ held' = [held EXCEPT ![m] = roles]
  /\ CommitAnd(w, InvalidateMember(m), {m})
  /\ UNCHANGED <<enabled, usable, grant, override>>

(* update_company_membership, scoped or not. *)
UpdateMembership(w, m, on) ==
  /\ At(w, "idle")
  /\ enabled' = IF on THEN enabled \cup {m} ELSE enabled \ {m}
  /\ CommitAnd(w, InvalidateMember(m), {m})
  /\ UNCHANGED <<usable, held, grant, override>>

(* set_membership_permission_override reads the row and returns when it is   *)
(* what was asked for; delete_... answers 404 when there is none.            *)
OverrideRead(w, m, new) ==
  /\ At(w, "idle")
  /\ m \in enabled
  /\ new # override[m]
  /\ req' = [req EXCEPT ![w] = [AtRest EXCEPT !.pc = "flush", !.member = m,
                                            !.old = override[m], !.new = new]]
  /\ UNCHANGED <<accessTables, cache, commits, late, cut>>

(* What the constraints let the INSERT or UPDATE do to the row as it is now: *)
(* no second row, no row that vanished, and not the scope alone on a DENY    *)
(* (the ORM updates the columns that differ from the row it read).           *)
FlushAllowed(old, new, row) ==
  \/ new = None
  \/ old = None /\ row = None
  \/ old # None /\ row # None /\ ~(old \in Scopes /\ new \in Scopes /\ row = Deny)

OverrideFlush(w) ==
  /\ At(w, "flush")
  /\ LET m == req[w].member
         new == req[w].new
     IN  \/ /\ FlushAllowed(req[w].old, new, override[m])
            /\ override' = [override EXCEPT ![m] = new]
            /\ CommitAnd(w, InvalidateMember(m), {m})
         \/ /\ ~FlushAllowed(req[w].old, new, override[m])
            /\ req' = [req EXCEPT ![w] = AtRest]
            /\ UNCHANGED <<override, cache, commits, late, cut>>
  /\ UNCHANGED <<enabled, usable, held, grant>>

-----------------------------------------------------------------------------
(* Invalidation, after the commit.                                           *)

(* Variant for mutation: a role that was just disabled has no memberships. *)
InvalidatedUsable(r) == IF r \in usable THEN Holders(r) ELSE {}

(* get_membership_ids_by_role *)
Invalidated(r) == Holders(r)

(* invalidate_role_permissions reads the memberships of the role. *)
ReadMembers(w) ==
  /\ At(w, "members")
  /\ LET ids == Invalidated(req[w].role)
     IN  req' = [req EXCEPT ![w] =
                   IF ids = {} THEN AtRest ELSE [AtRest EXCEPT !.pc = "del", !.ids = ids]]
  /\ UNCHANGED <<accessTables, cache, commits, late, cut>>

(* DEL of the keys *)
CacheDel(w) ==
  /\ At(w, "del")
  /\ cache' = [m \in Members |-> IF m \in req[w].ids THEN None ELSE cache[m]]
  /\ late' = late \ req[w].ids
  /\ cut' = cut \ req[w].ids
  /\ req' = [req EXCEPT ![w] = AtRest]
  /\ UNCHANGED <<accessTables, commits>>

-----------------------------------------------------------------------------
(* The environment *)

(* Variant for mutation: SET without a TTL. *)
ExpireNever(m) == FALSE /\ UNCHANGED <<accessTables, req, commits, cache, late, cut>>

(* The TTL of a key is over. *)
Expire(m) ==
  /\ cache[m] # None
  /\ cache' = [cache EXCEPT ![m] = None]
  /\ late' = late \ {m}
  /\ cut' = cut \ {m}
  /\ UNCHANGED <<accessTables, req, commits>>

(* A request is cut off: a cancelled task, or Redis out of reach. *)
CutShort(w) ==
  /\ ~At(w, "idle")
  /\ cut' = cut \cup CASE At(w, "members") -> Holders(req[w].role)
                       [] At(w, "del") -> req[w].ids
                       [] OTHER -> {}
  /\ req' = [req EXCEPT ![w] = AtRest]
  /\ UNCHANGED <<accessTables, cache, commits, late>>

(* The process dies and starts again: lifespan repairs the system role and   *)
(* the memberships of system administrators, commits, and clears the cache   *)
(* before the first request.                                                 *)
Restart ==
  /\ usable' = usable \cup {SystemRole}
  /\ grant' = [grant EXCEPT ![SystemRole] = Company]
  /\ enabled' = enabled \cup Admins
  /\ held' = [m \in Members |-> IF m \in Admins THEN held[m] \cup {SystemRole} ELSE held[m]]
  /\ cache' = [m \in Members |-> None]
  /\ req' = [w \in Workers |-> AtRest]
  /\ late' = {}
  /\ cut' = {}
  /\ UNCHANGED <<override, commits>>

Read(w) ==
  \/ \E m \in Members : CacheMiss(w, m)
  \/ SelectRoles(w)
  \/ SelectOverrides(w)
  \/ CacheSet(w)

Write(w) ==
  \/ \E r \in Roles, scope \in Scopes : ReplaceRolePermissions(w, r, scope)
  \/ \E r \in Roles, on \in BOOLEAN : SwitchRole(w, r, on)
  \/ \E m \in Members, roles \in SUBSET Roles : ReplaceMembershipRoles(w, m, roles)
  \/ \E m \in Members, on \in BOOLEAN : UpdateMembership(w, m, on)
  \/ \E m \in Members, new \in Overrides : OverrideRead(w, m, new)
  \/ OverrideFlush(w)
  \/ ReadMembers(w)
  \/ CacheDel(w)

CacheNext ==
  \/ \E w \in Workers : Read(w) \/ Write(w) \/ CutShort(w)
  \/ \E m \in Members : Expire(m)
  \/ Restart

(* Redis removes every key whose time is over; nothing else is owed. *)
Fairness == \A m \in Members : WF_cacheVars(Expire(m))

CacheSpec == CacheInit /\ [][CacheNext]_cacheVars

FairSpec == CacheSpec /\ Fairness

-----------------------------------------------------------------------------
(* Properties *)

(* Types; the bound on commits holds. *)
CacheTypeOK ==
  /\ enabled \in SUBSET Members
  /\ usable \in SUBSET Roles
  /\ held \in [Members -> SUBSET Roles]
  /\ grant \in [Roles -> Scopes]
  /\ override \in [Members -> Overrides]
  /\ cache \in [Members -> KeyValues]
  /\ req \in [Workers -> CacheRequests]
  /\ commits \in 0 .. MaxCommits
  /\ late \in SUBSET Members
  /\ cut \in SUBSET Members

(* A key that disagrees with the tables is about to be deleted by the writer  *)
(* that made it disagree, or it was filled by a reader that a commit overtook *)
(* between its SELECTs and its SET, or the writer was cut off between COMMIT  *)
(* and DEL. No handler forgets a key: in particular the members of a role     *)
(* are looked up after the commit, when others may have joined or left it.    *)
StaleOnlyByRace ==
  \A m \in Members :
    cache[m] \notin {None, Effective(m)} =>
      \/ m \in late \cup cut
      \/ \E w \in Workers : \/ At(w, "members") /\ m \in Holders(req[w].role)
                            \/ At(w, "del") /\ m \in req[w].ids

(* A DENY wins: a request that found the permission in a key nobody owes a    *)
(* correction had no DENY that was in force when the key was filled.          *)
DenyHonoured ==
  \A m \in Members :
    /\ m \in enabled /\ override[m] = Deny
    /\ m \notin late \cup cut
    /\ ~\E w \in Workers : At(w, "members") \/ At(w, "del")
    => cache[m] \in {None, {}}

(* Whatever raced and whoever was cut off, once the tables stay as they are   *)
(* every key agrees with them for good: a hit does not prolong a key's life,  *)
(* and a fill that a commit overtook is the last of its kind.                 *)
EventuallyFresh ==
  \A m \in Members : <>[](cache[m] \in {None, Effective(m)})

-----------------------------------------------------------------------------
(* The inductive invariant behind StaleOnlyByRace.                           *)

(* Part: a fill that no commit overtook holds what the tables say. *)
FillOK(w) ==
  LET r == req[w]
  IN  /\ r.pc \in {"roles", "overrides", "set", "flush"} => r.member \in Members
      /\ r.pc = "members" => r.role \in Roles
      /\ r.pc \notin {"overrides", "set"} => ~r.overtaken
      /\ r.pc = "overrides" /\ ~r.overtaken => r.scope = RoleScope(r.member)
      /\ r.pc = "set" /\ ~r.overtaken => r.scope = Effective(r.member)

(* Part: handlers leave the system role to the startup synchronisation. *)
SystemRoleKept == SystemRole \in usable /\ grant[SystemRole] = Company

(* Fills and system role as they should be, and nothing else stale: the       *)
(* conjunction every step of the program preserves.                          *)
CacheInductive ==
  /\ CacheTypeOK
  /\ SystemRoleKept
  /\ \A w \in Workers : FillOK(w)
  /\ StaleOnlyByRace
=============================================================================
