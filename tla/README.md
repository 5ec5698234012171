# Verification of XarionixERP

TLA+ models of the backend in `src/app/` (FastAPI, SQLAlchemy, PostgreSQL, Redis), checked with
TLC on small instances and, where it matters most, proved with TLAPS for every instance.
Paths below are relative to `src/`.

1. [The system](#1-the-system)
2. [Inventory](#2-inventory)
3. [Modules and the code they stand for](#3-modules-and-the-code-they-stand-for)
4. [Runs](#4-runs)
5. [Fairness](#5-fairness)
6. [Proofs](#6-proofs)
7. [Findings](#7-findings)
8. [Only model-checked, and not modelled](#8-only-model-checked-and-not-modelled)
9. [Plan](#9-plan)

## 1. The system

One uvicorn process (`Dockerfile`) serves the API. Its event loop interleaves requests at every
`await`; there are no threads in the core. A request gets one SQLAlchemy session
(`app/database/session.py`: `expire_on_commit=False`, `autoflush=False`) on PostgreSQL at its
default isolation, READ COMMITTED: *every statement has a snapshot of its own*, an UPDATE, DELETE
or SELECT ... FOR UPDATE waits for the transactions that have its rows open, an INSERT for those
that have its unique key open. The session keeps the objects it loaded first and writes only the
columns that differ from them. Redis holds login sessions and the cache of permissions; one
command, or one MULTI block, is atomic, and an `await` precedes each.

These facts decide what an action of a model is: one Redis command, one SQL statement or the
commit of a transaction, with the code up to the next `await` that touches shared state. Two
statements are one action only where no statement of anybody else can make a difference between
them, and the module says so.

Failure is modelled wherever it can be seen: a request is cut off between any two of its actions
(killed process, lost connection, cancelled task), which rolls its transaction back and leaves
Redis as it is. Keys expire. Replies get lost after a commit. Redis runs with
`appendfsync everysec` (`docker-compose.yml`); losing its last second of writes is not modelled.

## 2. Inventory

| Component | State | Operations | What is hard | What makes it correct |
|---|---|---|---|---|
| Login sessions (`services/sessions.py`, `api/v1/auth.py`, `dependencies/auth.py`) | Redis: a JSON value with a TTL per session, a set of session ids per user; the cookies at the clients | login, refresh (WATCH/MULTI, three attempts), authenticate, logout, logout-all, remove one, list | the same token presented twice; a logout between the steps of a refresh; SET and SADD are two commands; expiry between two commands | a refresh token is exchanged once; a closed session stays closed; only one's own sessions are ended; a session missing from the index has a race to blame |
| Effective permissions (`services/authorization.py`, `repositories/authorization.py`) | tables of memberships, roles, role permissions, overrides; one Redis key per membership | compute and cache; every handler that changes an input deletes keys after its commit; startup clears the cache | fill and invalidation race; DEL lost after COMMIT; members of a role looked up after the commit | a stale key has a pending DEL, an overtaken fill or a cut-off writer behind it, and does not outlive its TTL; DENY wins |
| Company hierarchy (`services/company.py`) | `companies`: parent, is_active | create, move, (de)activate with cascade | decisions on rows read without a lock | no cycle; no active company under an inactive one |
| Invitations (`services/invitations.py`) | `company_invitations`, users, memberships | issue, accept (new or existing user), revoke | two acceptances, acceptance against revocation, expiry in between, lost replies | one membership per invitation; what a client was told stays true |
| Role assignment and delegation (`services/membership_roles.py`, `role_assignment_policy.py`, `role_delegations.py`) | `membership_roles`, `role_delegations`, role state | replace the roles of a membership, replace the delegations of a role | policy checked on reads, then DELETE of everything there | nobody gives or takes a role they were not delegated |
| Installation and startup (`services/installation.py`, `api/v1/setup.py`, `core/lifespan.py`, `services/system_admin_access.py`) | all tables; an advisory lock | status, initialize, startup synchronisation | two installers; a status out of four SELECTs; restart at any time | one installation; a truthful status; the system administrator is back after startup |
| Company memberships (`services/company_memberships.py`) | `company_memberships` | add, switch is_active, list by scope | see invitations, cache, installation | one membership per user and company |
| Organizational units and unit memberships (`services/organizational_units.py`, `unit_memberships.py`, `scopes.py`) | unit tree, memberships of units, one primary | create, move, (de)activate; assign, make primary, leave | parent walk without a lock; two primaries at once | a forest; at most one active primary unit; scopes are subtrees |
| Address catalogue (`services/addresses.py`, `address_hierarchy.py`, `address_types.py`) | address objects, buildings, entrances, locations, types | create, change, delete under parent rules | validation without locks, deletions under the lock of one row, a recursive query that cannot leave a cycle, halves of a location patched apart | parent rules hold unless requests overlap; a deletion found safe stays safe; the entrance of a location belongs to its building |
| Map graph (`services/map_connections.py`, `map_markers.py`, `map_route_objects.py`, `building_coordinates.py`) | markers, connections, route objects, versions | create, split a connection, move, delete | advisory lock of the company, optimistic versions, several tables per change | route objects stay on their connection; a split loses nothing; no lost update |
| Map workspace: layers, passports, preferences (`services/map_layers.py`, `map_passports.py`, `map_preferences.py`) | layer tree, members, passports, settings, each with a version | create, save, move, delete with lift of children, membership; passport and settings saved over what the client saw; splits hand memberships on | clients work for minutes on what they loaded; writers that are no writers of layers (splits, lifts, demolitions) change what others have loaded | a forest of bounded depth; a version never stands for two contents; who names a version does not save over words they have not seen |
| Personal marker styles (`services/map_connections.py`) | one row per style | list, save, delete | nothing refers to them | - |
| Map proxy, schemas, listings, configuration | none of their own | - | - | - |

How they interact: authentication (sessions) precedes every handler; `dependencies/company.py` and
`dependencies/authorization.py` then read the membership, the company and the cached permissions.
Handlers of roles, overrides, memberships and role permissions call back into
`services/authorization.py` to delete keys after their commit. Company creation and startup call
`system_admin_access`, invitations create memberships, installation does all of it in one
transaction. `PROJECT.json` lists the components with their status and, under `hazards`, every
place where one of the above can go wrong without a test noticing, at its line.

## 3. Modules and the code they stand for

| Module | Stands for |
|---|---|
| `SessionContract` | What the session service promises, without Redis or requests: a session opens once, has one current secret, exchanges it, closes for good. |
| `AuthSessions` | `services/sessions.py` and the handlers of `/auth`, one action per Redis command. |
| `PermissionCache` | Cache fill (two SELECTs, SET), all handlers that invalidate, startup. |
| `CompanyTree` | The context of a request, its reads and its commit: create, move, activate, deactivate. |
| `InvitationContract` | What invitations promise: issued, then taken by one user or revoked, for good, and taking it is one step with account and membership. |
| `Invitations` | `services/invitations.py`: row lock, check, insert, commit. |
| `Handlers` | What models of request handlers share: the workers and what each is doing. |
| `Memberships` | What models of roles and permissions share: rows of `membership_roles`, the state of roles. |
| `RoleDelegation` | `replace_membership_roles_with_delegation`: four reads, DELETE, INSERT, commit; delegations and role state beside it. |
| `Installation` | `/setup`, startup and shutdown, and the handlers that create companies and memberships or take access away. |
| `UnitMemberships` | Assigning a member to units, the primary mark, leaving and rejoining: one action per SQL statement, with row locks, unique index entries and deadlocks. |
| `OrganizationalUnits` | Creating and moving units under a permission scope: the recursive query for the scope, the walk to the top row by row, the commit. |
| `MapGraph` | The writers of markers, connections and route objects, and the two of houses that touch them, with the lock of the company, rows of houses and rows of markers. |
| `OptimisticStore` | What versions promise: a record is saved only over what the client looked at, unless it saves blindly, and what a save does to other records is to put them elsewhere. |
| `MapWorkspace` | Layers, memberships, passports and settings of one company, the clients that look and save, and what marker updates, splits and demolitions do to them. |
| `Addresses` | Types, address objects, buildings, entrances and locations: every handler that creates, moves or deletes one. |
| `MC...` | The instance of a module that TLC checks. |
| `...Proofs` | The theorems about a module; `MembershipsProofs` those about `UnitMemberships`, `RoleDelegation` and `PermissionCache`, `TreesProofs` those about `OrganizationalUnits` and `Addresses`. |

Conventions. `req[w]` is what request `w` knows and where it is (`pc`: the name of its next
step); `Workers` is the number of requests in flight, not a thread pool. A request that ended is
`Idle`, and its worker may run another. Variables and constants marked *history* record what
happened for the sake of a property and are read by no guard. Operators introduced by "Variant
for mutation" are not part of the model: each is a wrong version of the definition that follows
it, used to see that a property notices.

**AuthSessions.** `sess[sid]` is the key `auth:session:{sid}`, `index[u]` the set
`auth:user-sessions:{uid}`, `watch[w]` the key whose WATCH is unbroken, `delivered` the tokens
that reached a client. A rotation is `RotateWatch`, `RotateGet` (comparing the hash), `RotateTtl`,
`RotateExec`, with `RotateRetry` after a broken WATCH up to `MaxTries`. A key expires at any time
(`Expire`); in its last half second TTL answers 0 (`Fade`), which the code turns into the refusal
`PositiveTtl` stands for. `users.is_active` is switched from outside (`ToggleUser`): nothing in the
application writes it. Two things turned out to be unreachable: the refusal at the end of the
retry loop is never the one that matters, because a refresh that lost its WATCH never gets past
the comparison again (`RetryNeverRotates`); and `get_user_sessions` is called by no handler (it is
modelled nevertheless, being the one operation that repairs the index).

**PermissionCache.** One company, one permission: codes never interact, and the company is part of
every key. A scope is the set of ranks it covers, so "the broader of two" is a union. A reader goes
`roles`, `overrides`, `set`; a writer commits in one action and then deletes in another (`del`), or
looks up the members of a changed role first (`members`).

**CompanyTree.** A request finds its context active (`Enter`), reads in a second action and commits in a
third; a deactivation has two reads (the tree of its context, then the subtree). The row of the context
stays in the session and is not loaded again, so a request goes on believing it active (`SeenActive`).
Creating a child of the context itself (`POST /companies/{id}/children`) reads no tree; the other operations do
not get past a tree that does not end (`InTree`). `overtaken` says that another request committed since the
context was read; `raced` remembers the companies that such a request wrote. `update_company` appears
nowhere: its endpoint refuses `parent_id` and `is_active` (`restricted_fields`), so it writes only
names.

**Invitations.** `locks[i]` is the row lock of SELECT ... FOR UPDATE, held from the check to the
commit; `Insert` waits for and fails on unique keys; `said` is what the client was told. Password
hashing sits between check and insert, so the company may be switched off and the invitation expire
there: the model has these steps, and the code does not look again.

**RoleDelegation.** A request reads the roles of its target, the roles asked for, the roles of its
actor and their delegations; DELETE has two steps, because it finds its rows when it begins
(`DeleteBegin`) and gets them when nobody else has them open (`DeleteEnd`). Rows another
transaction inserts meanwhile are invisible to it; rows another one deleted are gone when its turn
comes. `granted` collects the roles somebody could assign when giving them.

**Installation.** `Order` is the order of the four SELECTs of a status, `StateFrom` the conclusion.
`Install` is the single commit. `Startup` stands for everything up to the `yield` of `lifespan`:
its earlier transactions (permission catalogue, role templates) write nothing this model has, the
last one gives the system administrator membership and role in every company. `during[w]` is the
set of states the installation went through while `w` ran.

**UnitMemberships.** The rows of one company membership; nothing a request does involves two. A request
(`op`) is a POST or one of the effects a PATCH body can have. The primary mark moves in two
statements: `clear_primary_unit_memberships` takes its snapshot (`ClearBegin`) and changes the rows it
found when it gets them (`ClearEnd`); then the row itself is written at the flush before the commit
(`LockRow`, `Index`). The session writes only columns that differ from the loaded row (`was`), so a
row changed by somebody else in between keeps what this request did not touch. `Blockers` is what a
statement waits for, `Deadlock` a set of transactions that wait for each other, of which PostgreSQL
fails one (`Victim`).

**OrganizationalUnits.** The first action of a request stands for its reads up to the walk: the scope,
the unit ids behind it (`Reach`), the unit and its parent. From there every round of
`_validate_parent_change` is an action (`Walk`), because each round is a SELECT with a snapshot of its
own. `home` is the requester's primary unit. A request with scope OWN_UNIT_TREE whose unit is on
a cycle is `hung`: `get_unit_tree_ids` is a UNION ALL, which never runs out of rows there; it leaves by
`UnitCutOff` only.

**MapGraph.** One company's map over the houses all companies share. A request is four actions: it gets
the company lock and reads (`Begin`), locks houses (`LockHouses`), locks markers and decides (`Decide`),
commits; `move` and `demolish` are the handlers of the address catalogue, which never take the company
lock. Geometry is a line: a place is a number and a connection covers what lies between its ends, so
"the object is on the line" and "the part before the cut" mean what they mean in `core/map_routes.py`
without its floating point. A connection with intermediate vertices behaves like one without: the ends
are all that others move. The geometry token is the pair of places. The version of a connection is
compared under the company lock, which every writer of connections holds, so a stale one is refused at
once and changes nothing; `expected_version` of a marker is optional, so no invariant can rest on it,
and the requests here send none. An update of a marker may leave its point out, give one, or empty it: latitude
and longitude may both be null in the body (`schemas/map_markers.py:104`, `:125`), which only a new marker is
refused (`services/map_markers.py:183`), and the table accepts (`ClearBody`).
`stale` is what changed since the request began: it stands for the versions in the binding token the
client sends back. `late` (changed since the request decided) and `skewed` (a line whose two ends were
moved by overlapping requests) are history.

**MapWorkspace.** A request begins with the client: `Look` loads what the form shows (`seen`) and
decides on the change; `Begin` is the handler up to its last check, under the company lock and against
the versions of `seen`; the third action commits. An update of a marker has one action more: its version is
compared, and its columns are copied, at `services/map_markers.py:100-105`, and only then are the house and the
marker locked (`LockRows`, `:118-123`), so that a demolition may come between; nothing is compared
again, but for a client that rebinds the marker, whose token names the version (`RowsPermit`). Who updates or
erases a marker, or erases a line, may name no version at all (`versioned`; `core/map_domain.py:26` lets it pass,
and `docs/map-workspace.md:109` keeps it for old clients). Layers, passports and settings require one. The rows to be written are computed when the handler reads
(`Rows`), as in the code, so a handler that did not hold the lock would write stale rows; the sibling order,
the version of a layer and the children of a deleted group are what such a handler would get wrong. `Demolish` is
the deletion of a house in the address catalogue: it takes no company lock, and meets the handlers only
at rows of houses and markers and at the foreign key of a member. Ids come from a sequence and are never used
twice; that is why a version together with an id names one content. Rules of dynamic layers, the fields
of a passport and names are one `text`.

**OptimisticStore.** The state a client can see, without versions or locks. It promises what the code does and
no more: a `blind` copy, of a client that named no version, is saved over whatever there is, and a client that was
right about a marker when its house ended (`End`, `caught`) is taken to be right about a marker without a
house. That is the only way a versioned save replaces what was not looked at, and only the place is concerned: what the
marker says is still what the client saw. `MapWorkspace` implements it with
`Stored` and `Copied`: body is what a record says, place where it is (parent and order of a layer, house of a
marker). Members of a layer are in neither, because a client loads them apart; `VersionsNameContent` covers them.
Houses are shared by companies and may end on their own.

**Addresses.** A request is three actions: `Load` (its row; deletions and the update of a building lock it),
`Validate`, and the commit. What is below an object is the least set that is closed under children
(`Below`), which is what the recursive query collects when it ends. `was` and `wasAt` are the row as loaded: the session writes only the columns that
differ from it. Foreign keys are guards of the commit (`KeysHold`), and a row that somebody has locked makes
those wait who refer to it (`Needed`). `Hang` is the query for the descendants of an object on a cycle. Lists
of buildings join paths that begin at the roots, so that below a cycle there are none (`ListedBuildings`).
`raced` and `adrift` are history: what an overtaken request wrote, and what was moved or retyped while no root
was above it.

## 4. Runs

| Run | Instance | States | What it shows |
|---|---|---|---|
| `sessions` | 2 users, 2 sessions, 3 secrets, 2 requests, 3 attempts | 241,433 | Single use of refresh secrets; hopeless retries; every unindexed session has a race or a cut-off behind it; a client is locked out only by a reply that was lost; a request ends its own user's sessions only; refinement of `SessionContract`. |
| `permission_cache` | administrator and member, 2 roles, 2 requests, 2 commits | 548,659 | Stale keys have a cause; DENY wins in keys nobody owes a correction; all keys agree with the tables in the end. |
| `company_tree` | 4 companies, 2 requests | 230,638 | Rules are broken only by overlapping requests; a cycle, once made, is out of reach of every later request. |
| `invitations` | 1 company, 2 users, 2 invitations, 2 requests | 79,926 | One membership per invitation; answers stay true; refinement of `InvitationContract`. |
| `role_delegation` | 2 members, 2 roles, 2 requests, 3 commits | 915,187 | No role out of nothing; a request that was not overtaken commits what it was checked for. |
| `installation` | 2 users, 2 companies, 2 requests, 2 changes, any number of restarts | 62,802 | Installers never collide; the status was true at some moment of its request; only handlers take the administrator's access away; every request ends. |
| `unit_memberships` | 1 member, 2 units, 2 requests | 679,633 | One primary unit at most; only scope COMPANY takes the last one away; the mark is taken within reach, and units used are open, unless overtaken; so too deadlocks. |
| `organizational_units` | 3 units, 2 requests | 366,840 | A forest until an overtaken decision is committed; a unit scope keeps its tree; the walk up ends. |
| `map_graph` | 2 houses, 3 markers, 2 connections, 4 places, 2 requests, from four maps in use | 159,483 | The graph stays sound without the help of a constraint; objects stay on their line unless both its ends move at once; a point goes only with a save that asks for it or that a demolition overtook; no deadlock. |
| `map_graph_point` | the same | violation | The finding of section 7. |
| `map_workspace` | 4 of 5 layers, 3 levels, 1 house, 2 markers, 2 lines, 1 user, 2 texts, 2 clients, 2 requests, from a workspace in use | 163,177 | Layers stay a forest within its limits, filters find all of a group, versions name contents, who names a version saves over what they have seen, but for a marker whose house was demolished between the check and the lock (refinement of `OptimisticStore`). |
| `addresses` | 3 types, 4 objects, 2 buildings, 2 entrances, 1 location, 2 requests, from five catalogues | 52,689 | Rules are broken only by overlap or below a cycle; locked deletions are final; locations stay together; how a cycle ends. |

States are distinct states, up to symmetry where a configuration declares it (never in a run with a
liveness property). Every property has a mutant in `PROJECT.json`: a plausible wrong version of one
definition under which TLC finds the property violated in the same instance.

Why the instances are big enough. Two requests: every hazard of the inventory is a pair of
requests, one overtaking the other, and the invariants speak about one request and the tables; the
proofs of section 6 remove the bound where they reach. Three secrets: a session, its successor, and
one more for a rival or a second session. Four companies: a parent and a child under each of two
subtrees that are moved or switched against each other. Three units make a tree of depth three and a
cycle that is not the parent's own; two unit memberships are the row that has the primary mark and the
one that gets it. Four places are two ends, an object and a
place to cut; the four maps `map_graph` starts from are what a few requests in a row leave (a map without
lines, a line with an object, a line from a marker, a split), because two requests cannot build them and
collide on them as well. The same holds for the five catalogues of `addresses` (empty, a city with territories,
areas within areas, two inhabited houses, and a knot: two territories that overlapping moves have put under each
other) and for the layer tree of `map_workspace`, which has one level to spare and one layer to its limit. Three commits of role changes: one that
gives, one that takes away, one that overlaps both. `MaxCommits` and `MaxChanges` bound counters
that exist only for TLC; they appear in guards, and the proofs hold for any value. Stopping is
allowed nowhere: all runs check for deadlock.

## 5. Fairness

Fairness is given to single steps, never to `Next`.

- `PermissionCache`: weak fairness of `Expire`. The key is SET with `EX 900`, and a hit does not
  prolong it. Nothing is assumed of requests: a request may stop forever and its key is still
  corrected.
- `Installation`: weak fairness of the steps that never wait, because the event loop runs a task that
  is ready; strong fairness of the one that waits for the advisory lock, because PostgreSQL queues
  waiters and hands the lock on.
- `OrganizationalUnits`: weak fairness of the statements of a request that has begun (`Goes`); none of
  them waits for anybody. The commits of other requests can move the rows of a walk under its feet;
  what ends it is the set of rows it has visited.
- Nothing is assumed of clients, of `CutOff`, of the clock or of the administration.

The other runs state no liveness property. In `map_workspace` handlers hold one lock and wait for nobody
while they do. In `addresses` they wait for rows whose owner waits for none. In `sessions` and `company_tree` requests wait for nobody. In
`invitations`, `role_delegation` and `unit_memberships` they wait for rows and keys, in `map_graph` for
locks; that they never wait for each other is an invariant of `map_graph` (`NoDeadlock`), and in
`unit_memberships`, where they can, `DeadlockOnlyByOvertaking` says when.

## 6. Proofs

All proofs are checked by TLAPS for arbitrary sets of users, companies, requests and so on; the
assumptions are the named `ASSUME`s of the module (model values are distinct from what they stand
for the absence of, bounds are natural numbers). Each module has one inductive invariant, which TLC
found to hold before it was proved, one lemma per step of a request, and short theorems that follow from
it. The runs check what follows; the inductive invariants are left to the proofs.

- `AuthSessionsProofs`. `SessionsInductive`: a live session accepts a secret of its own that nobody
  has exchanged (`SessionInv`), indices contain sessions of their user (`IndexInv`), and while a WATCH is
  unbroken the hash that was compared is the stored one, while a broken one means the presented
  secret is worthless for good (`WatchOK`). The last part is what makes single use inductive: EXEC
  succeeds only with a hash nobody has spent. Theorems: `SessionsInvariant`, `SessionTypes`,
  `SingleUse`, `RetryIsHopeless`, `EndsOwn`. On top of it, `ListedUnlessRaced` (why a session may be
  missing from the index of its user: each request that sweeps the index removes what it has read, and a
  session is written before it is listed) and `NoSilentLockout` (where the current secret of a session
  is). `KeepsContract` is the refinement of `SessionContract`: initial states map to initial states, every
  Redis command to one step of the contract or to none.
- `CompanyTreeProofs`. `HierarchyInductive`: what a request that was not overtaken has read is still
  so, and the set a cascade switches off is closed under children. Theorems: `HierarchyInvariant`,
  `HierarchyTypes`, `InversionNeedsOverlap`. `CyclesInductive` adds that a move that was not overtaken
  moves neither off nor onto a cycle (`OffCycles`): the subtree it has read is the least set that is closed
  under children, so the new parent, which is outside, is not below the company, and an induction over the
  length of paths is not needed. Theorems: `CyclesInvariant`, `CycleNeedsOverlap`, `CyclesStay`.
- `InvitationsProofs`. `InvitationsInductive`: past the row lock a request sees an invitation that is
  neither taken nor revoked; `AnswersInductive` adds that an answer, once given, is about final
  facts. Theorems: `InvitationsInvariant`, `SingleMembership`, `AnswersAreFinal`, and `KeepsContract`,
  the refinement: initial states map to initial states and every step to a step of the contract or a
  stutter.
- `InstallationProofs`. `InstallationInductive`: rows of users, companies and memberships are never
  deleted, so what a status found is still there; an installer past the check holds the lock and
  faces empty tables. Theorems: `InstallationInvariant`, `NoCollision`, `StatusOfSomeMoment`,
  `AccessKept`, `InconsistentIfTaken`.
- `MembershipsProofs`, three specifications side by side. Units: `UnitsInductive`: there is one primary row at most, and it is active
  (`OnePrimary`, `TypeOK`); open transactions have no row in common, and one that is about to commit a
  promotion has cleared what there is (`Exclusive`); what a request was allowed is what it still does
  unless it was overtaken (`Decided`). `Exclusive` is needed because the unique index is looked at
  before the commit: between the two no other transaction may get there. Theorems: `UnitsInvariant`,
  `SinglePrimary`, `PrimaryStays`, `TakenFromReach`, `ActivatedWhereOpen`, `NoDeadlockInOrder`.
  Roles: `DelegationInductive`: roles read were granted and, unless the request was
  overtaken, are still there (`ReadOK`); no two transactions have the same row open (`Disjoint`), so
  no commit takes away a row another one counts on. Theorems: `DelegationInvariant`, `HeldGranted`,
  `Checked`. Permissions: `CacheInductive`: a fill that was not overtaken carries what the tables say
  (`FillOK`), and every key is right or excused. Each commit must be shown to owe a deletion to every
  key it makes wrong, including through a role whose members are looked up later. Theorems:
  `CacheInvariant`, `StaleByRace`, `DenyWins`.
- `TreesProofs`, two specifications side by side. Units: `TreeInductive`: the rows a walk that was not
  overtaken has read are a path up from the new parent without the unit (`Faithful`), so at the top the
  parent is known not to be below the unit, and the move keeps the forest a forest. `Subtree` is the
  least set closed under children, so that this needs no induction over data. Theorems: `TreeInvariant`,
  `CyclesNeedOverlap`, `ScopedMovesStayInside`.
  Addresses: `CatalogueInvariant`. A request that nobody overtook writes what it validated, because the
  tables are still those it read (`Current`); of the others it is only known what their bodies name (`Shaped`).
  `LocksApart` and the locks of foreign keys give `DeletionsFinal`: whoever would put something below a row that a
  deletion has locked and found bare needs that very row. The hierarchy rules are shown of the one row
  a commit writes and of what refers to it; what an overtaken request wrote is in `raced` for as long as the row
  is there. The hard rule is that of cycles. Two facts carry it, both about least closed sets: a cycle
  above an object is the cycle it is on (`SameCycle`), and a write of a row off the cycle leaves the cycle as it
  was (`CycleKept`). Hence a cycle that a step closes goes through the row it wrote, which a request that was
  not overtaken would have seen (`MovedOnNoCycle`); a cycle that is there keeps its member in `raced`; and a
  step that breaks a cycle writes a row on it, where the query for the descendants has not come back
  unless the object became a root (`CycleStep`). Theorems: `CatalogueStaysSound`, `RulesNeedOverlap`, `DeletionsAreFinal`,
  `LocationsStayTogether`, `CyclesStayKnotted`.
- `MapGraphProofs`. `MapInductive`: besides `GraphSound` and `ObjectsOnLine`, every request under way asks
  for what still makes sense (`AsksWell`), remembers its marker as it is unless the house it was bound to has
  gone (`Remembers`), has the rows it needs (`Holds`), and, about to commit, is permitted what it was
  permitted (`StillPermits`); no two requests have a lock in common (`Apart`). The lock of the company keeps
  lines, roles and bindings still for those that have it; buildings move without it, so a guard that was
  evaluated on the other end of a line only holds where that end has not moved since (`StillGuarded`, with
  `late` for the ends that have). Two lemmas say what a commit leaves to the other requests, one for those
  under the company lock (`MapCommit`) and one for houses (`HouseCommit`), so that each operation is
  only asked what it does to the tables. Theorems: `MapInvariant`, `MapStaysSound`, `ObjectsStayOnLine`,
  `NoWaitingCircle` (for any set of requests: the locks are taken in one order), `PointsStay`.
- `MapWorkspaceProofs`. `WorkspaceInductive`: besides `LayersSound`, a version of 0 stands for no row and
  rows that are gone say nothing (`RowsSound`); a client that finds the version it saw finds what it saw, the
  passport of a marker or a line included (`Remembers`: a row is what it was or has a later version); what a
  request that has the lock was permitted is permitted still, and the rows it computed are those it would compute
  now (`StillPermits`), because only one request has the lock and `Demolish` meets none of the rows it
  counts on. For a marker update that has not locked its row this is less (`UpdateHolds`): what the marker says
  is what the client saw, the house it was at may have gone. Every handler that writes, and `Demolish`, is shown to be one sort of step of the tables
  (`Step`): sound tables, no version taken back, no row or member changed behind its version. Trees are
  bounded walks here, as in the code: after the children of a deleted group are lifted every walk is one
  step shorter (`Shorter`, an induction over `MaxDepth` steps carried out by a least counterexample, since the induction
  theorem of the library is out of reach). Theorems: `WorkspaceInvariant`, `LayersStaySound`,
  `ExpansionStaysComplete`, `VersionsKeepContent`, and `KeepsStore`, the refinement of `OptimisticStore`.
  The copy a client holds needs a version of the object to vouch for its passport as well, which is
  why a save of a passport must write both.

## 7. Findings

One disagreement between the documentation and the code is a run that TLC must find violated:

*A marker loses its point* (`map_graph_point`). `_save_marker` copies the columns of the marker, and
compares its version, before it has the row; the deletion of its house, which takes no company lock,
detaches the marker in between and gives it the point of the house. The save then finds a marker that
no longer represents anything and writes back the empty coordinates it copied. The documentation
(`docs/map-address-bugfix.md:75`) promises the opposite. `PointsKept` (proved) shows that there is no other way, but for a client that empties the point on purpose
by sending null for latitude and longitude, which an update may do. The same window is why `ImplementsStore` lets
a versioned update go through over a marker whose house was demolished meanwhile.

Four more are consequences of deciding under READ COMMITTED on rows read without a lock. The tests of
the repository and the answers of the API state the rules without the condition; the properties that
hold say exactly when a rule can fail.

1. *Two moves make a cycle of companies.* Each passes the check of `app/services/company.py:378`; together they
   close a cycle (`CyclesOnlyByOverlap`, proved). `get_company_subtree` is a recursive UNION ALL, so it
   does not end on such companies, and no request can repair them (`CyclesAreForever`, proved).
2. *A role is taken away by somebody who may not assign it.* The change that
   is checked is between what was read and what was asked for; the DELETE removes what is there. A
   role given in between by somebody entitled is removed, or one taken away in between comes back.
   What holds: roles never come from nowhere (`HeldWereGranted`), and without overlap the change is
   the one that was checked (`CommitsAsChecked`), both proved.
3. *Deactivation does not always cascade* (`app/services/company.py:475`), in the same manner;
   `InversionsOnlyByOverlap`, proved, says when.
4. *Two moves make a cycle of address objects.* `RulesBrokenOnlyByOverlap` says that it takes an overlap, and
   `CyclesBrokenOnlyAtRoot` that it stays (both proved): a move whose new parent is another object asks for the descendants,
   and that query does not end. Until an object of the cycle gets a type that may be a root, addresses below
   the cycle have no path: lists leave their buildings out, creating one there commits and then fails
   on its own answer, and a change of type that forbids buildings goes through in spite of them
   (`adrift`), although `app/services/address_hierarchy.py:114` says that only territories contain buildings.

## 8. Only model-checked, and not modelled

Every invariant and every action property of a passing run is a theorem, and so are the three
refinements. Only model-checked are the three liveness properties, because liveness under fairness, with the
ENABLED in it, is out of the prover's reach: `EventuallyFresh` (the keys of permissions agree with the tables in
the end), `EveryRequestEnds` (requests around installation) and `EveryWalkEnds` (the walk up the units).

Not modelled, with the reasons:

- the contents of permissions, role templates, employee details, session metadata, names: no
  property tells them apart;
- JWT signing and password hashing: functions without state;
- listings, schemas, configuration and database bootstrap: read-only or one-shot;
- the map tile proxy and signed URLs: I/O without state of its own;
- a new role template whose name is already used by a company's own role, which aborts a startup;
- loss of Redis's last second of writes when Redis itself crashes;
- an IntegrityError of the index on `is_primary` is answered as "already assigned" by POST and not at
  all by PATCH: the model has the refusal, not its wording;
- floating-point geometry, visibility of private objects and style presets of the map: its graph does
  not depend on them;
- that every acceptance of an invitation ends: its transactions wait for rows and keys in one order, but
  no run states it;
- which objects the rules of a dynamic layer match, and the fields of passports: one SQL predicate, and
  validation of shapes;
- the equipment that keeps a location from being deleted, which no code creates; text search; the unique
  indexes on names and numbers in the catalogue (a write they refuse is a request cut off);
- updates of types, entrances and names, which write no column the catalogue's rules depend on;
- personal marker styles: one row each, under its lock, that nothing refers to.

## 9. Plan

Done, in the order of the plan: `SessionContract`, `AuthSessions`; `PermissionCache`;
`CompanyTree`; `InvitationContract`, `Invitations`; `RoleDelegation`; `Installation`; `UnitMemberships`,
`OrganizationalUnits`; their MC modules and proofs; `MapGraph`; `OptimisticStore`, `MapWorkspace`; `Addresses`.

Next, most important first:

1. Composition of `UnitMemberships` with `OrganizationalUnits`: one requester whose primary unit moves
   while their scope is read.
