---------------------------- MODULE AuthSessions ----------------------------
(***************************************************************************)
(* Login sessions and refresh tokens: app/services/sessions.py as the      *)
(* handlers of app/api/v1/auth.py and app/dependencies/auth.py use it.     *)
(*                                                                         *)
(* Sessions live in Redis. A request is a sequence of Redis commands with  *)
(* an await before each one; Redis runs one command, or one MULTI block,   *)
(* at a time. So every action below is one command (with the code up to    *)
(* the next await), and the requests of the Workers interleave between     *)
(* them. A worker may be cut off between any two of its commands: a killed *)
(* process, a dropped connection, a cancelled request.                     *)
(*                                                                         *)
(* Abstracted: timestamps, addresses and user agents of a session; hashing *)
(* (a stored hash is written as the secret it is the hash of); JWTs (a     *)
(* client owns an access token of each session it has a cookie of, and an  *)
(* expired one only disables steps); tokens nobody issued (refused by the  *)
(* first GET without a state change).                                      *)
(***************************************************************************)
EXTENDS Naturals

CONSTANTS
  Users,     \* rows of the users table
  Sids,      \* the uuid4 values that will be drawn as session ids
  Secrets,   \* the refresh secrets that will be drawn
  Workers,   \* requests that can be in flight together
  MaxTries,  \* attempts of rotate_refresh_token, 3 in the code
  None

Sessions == [user : Users, hash : Secrets]

ASSUME NoneAssumption == None \notin Users \cup Sids \cup Secrets \cup Sessions
ASSUME MaxTriesAssumption == MaxTries \in Nat \ {0}

VARIABLES
  sess,       \* auth:session:{sid}: the stored JSON, None when the key is absent
  fading,     \* the sessions whose remaining time TTL rounds to 0
  index,      \* auth:user-sessions:{uid}: a set of session ids without a TTL
  active,     \* the users whose is_active is set
  req,        \* the request each worker is running
  watch,      \* the session key whose WATCH is still unbroken, per worker
  delivered,  \* the refresh tokens that reached a client in a cookie
  owner,      \* history: the user each session id was created for
  home,       \* history: the session each secret was generated for
  parent,     \* history: the secret each secret was exchanged for
  lost,       \* history: secrets that were stored but whose reply never came
  strays      \* history: sessions a race or a cut-off request left unindexed

redis == <<sess, fading, index, watch>>
history == <<owner, home, parent, lost, strays>>
vars == <<sess, fading, index, active, req, watch, delivered,
          owner, home, parent, lost, strays>>

-----------------------------------------------------------------------------
(* Requests *)

Pcs == {"idle", "sadd", "reply", "watch", "get", "ttl", "exec", "user",
        "delete", "lookup", "members", "purge", "probe", "trim"}

Requests == [pc : Pcs, user : Users \cup {None}, sid : Sids \cup {None},
             secret : Secrets \cup {None}, ids : SUBSET Sids, tries : 0 .. MaxTries]

Idle == [pc |-> "idle", user |-> None, sid |-> None, secret |-> None,
         ids |-> {}, tries |-> 0]

At(w, pc) == req[w].pc = pc

(* The request of w is over. *)
Finish(w) == req' = [req EXCEPT ![w] = Idle]

(* The request of w goes on at pc. *)
Goto(w, pc) == req' = [req EXCEPT ![w].pc = pc]

(* Leaving the `async with pipeline` block forgets the WATCH. *)
Unwatch(w) == watch' = [watch EXCEPT ![w] = None]

(* Variant for mutation: every write breaks every WATCH. *)
BrokenAll(sids) == [w \in Workers |-> IF sids = {} THEN watch[w] ELSE None]

(* A key that is written, deleted or expires breaks every WATCH on it. *)
Broken(sids) == [w \in Workers |-> IF watch[w] \in sids THEN None ELSE watch[w]]

Without(sids) == [sid \in Sids |-> IF sid \in sids THEN None ELSE sess[sid]]

Live(sid) == sess[sid] # None

Fresh(sid, secret) == owner[sid] = None /\ home[secret] = None

(* A client has an access token of every session it has a cookie of. *)
HasAccessToken(sid) == \E secret \in delivered : home[secret] = sid

Init ==
  /\ sess = [sid \in Sids |-> None]
  /\ fading = {}
  /\ index = [u \in Users |-> {}]
  /\ active = Users
  /\ req = [w \in Workers |-> Idle]
  /\ watch = [w \in Workers |-> None]
  /\ delivered = {}
  /\ owner = [sid \in Sids |-> None]
  /\ home = [secret \in Secrets |-> None]
  /\ parent = [secret \in Secrets |-> None]
  /\ lost = {}
  /\ strays = {}

-----------------------------------------------------------------------------
(* POST /auth/login: authenticate_user, then create_session's SET and SADD,  *)
(* then the response with the cookie.                                        *)

LoginSet(w, u, sid, secret) ==
  /\ At(w, "idle")
  /\ u \in active
  /\ Fresh(sid, secret)
  /\ sess' = [sess EXCEPT ![sid] = [user |-> u, hash |-> secret]]
  /\ owner' = [owner EXCEPT ![sid] = u]
  /\ home' = [home EXCEPT ![secret] = sid]
  /\ req' = [req EXCEPT ![w] = [Idle EXCEPT !.pc = "sadd", !.user = u,
                                            !.sid = sid, !.secret = secret]]
  /\ UNCHANGED <<fading, index, active, watch, delivered, parent, lost, strays>>

LoginIndex(w) ==
  /\ At(w, "sadd")
  /\ index' = [index EXCEPT ![req[w].user] = @ \cup {req[w].sid}]
  /\ Goto(w, "reply")
  /\ UNCHANGED <<sess, fading, active, watch, delivered, history>>

(* The client receives Set-Cookie. *)
Reply(w) ==
  /\ At(w, "reply")
  /\ delivered' = delivered \cup {req[w].secret}
  /\ Finish(w)
  /\ UNCHANGED <<redis, active, history>>

-----------------------------------------------------------------------------
(* POST /auth/refresh: rotate_refresh_token and then the handler.            *)

(* Any token a client ever received may be presented again: a second tab, a  *)
(* retry after a lost reply, an old copy.                                    *)
RefreshStart(w, secret) ==
  /\ At(w, "idle")
  /\ secret \in delivered
  /\ req' = [req EXCEPT ![w] = [Idle EXCEPT !.pc = "watch", !.secret = secret,
                                            !.sid = home[secret]]]
  /\ UNCHANGED <<redis, active, delivered, history>>

RotateWatch(w) ==
  /\ At(w, "watch")
  /\ watch' = [watch EXCEPT ![w] = req[w].sid]
  /\ Goto(w, "get")
  /\ UNCHANGED <<sess, fading, index, active, delivered, history>>

(* Variant for mutation: the stored hash is not compared. *)
AcceptedAnyHash(w) == Live(req[w].sid)

(* The secret a request presents is the one its session accepts now. *)
Accepted(w) == Live(req[w].sid) /\ sess[req[w].sid].hash = req[w].secret

RotateGet(w) ==
  /\ At(w, "get")
  /\ \/ /\ Accepted(w)
        /\ req' = [req EXCEPT ![w] = [@ EXCEPT !.pc = "ttl", !.user = sess[req[w].sid].user]]
        /\ UNCHANGED watch
     \/ /\ ~Accepted(w)
        /\ Finish(w)
        /\ Unwatch(w)
  /\ UNCHANGED <<sess, fading, index, active, delivered, history>>

(* TTL is -2 for an absent key and 0 in the last half second of a key. *)
PositiveTtl(sid) == Live(sid) /\ sid \notin fading

RotateTtl(w) ==
  /\ At(w, "ttl")
  /\ \/ /\ PositiveTtl(req[w].sid)
        /\ Goto(w, "exec")
        /\ UNCHANGED watch
     \/ /\ ~PositiveTtl(req[w].sid)
        /\ Finish(w)
        /\ Unwatch(w)
  /\ UNCHANGED <<sess, fading, index, active, delivered, history>>

(* Variant for mutation: no WATCH. *)
WatchIgnored(w) == At(w, "exec")

(* EXEC runs the queued SET only when the WATCH is unbroken. *)
WatchHolds(w) == watch[w] = req[w].sid

(* MULTI, SET EX ttl, EXEC: the JSON read by RotateGet, with the new hash. *)
RotateExec(w, new) ==
  /\ At(w, "exec")
  /\ WatchHolds(w)
  /\ home[new] = None
  /\ sess' = [sess EXCEPT ![req[w].sid] = [user |-> req[w].user, hash |-> new]]
  /\ fading' = fading \ {req[w].sid}
  /\ watch' = Broken({req[w].sid})
  /\ home' = [home EXCEPT ![new] = req[w].sid]
  /\ parent' = [parent EXCEPT ![new] = req[w].secret]
  /\ req' = [req EXCEPT ![w] = [@ EXCEPT !.pc = "user", !.secret = new]]
  /\ UNCHANGED <<index, active, delivered, owner, lost, strays>>

(* WatchError: another round of the loop, or InvalidRefreshTokenError. *)
RotateRetry(w) ==
  /\ At(w, "exec")
  /\ ~WatchHolds(w)
  /\ \/ /\ req[w].tries + 1 < MaxTries
        /\ req' = [req EXCEPT ![w] = [@ EXCEPT !.pc = "watch", !.tries = req[w].tries + 1]]
     \/ /\ req[w].tries + 1 >= MaxTries
        /\ Finish(w)
  /\ Unwatch(w)
  /\ UNCHANGED <<sess, fading, index, active, delivered, history>>

(* Variant for mutation: the response does not set the new cookie. *)
RefreshUserNoCookie(w) ==
  /\ At(w, "user")
  /\ Finish(w)
  /\ UNCHANGED <<redis, active, delivered, history>>

(* The handler looks the user up after the rotation: a missing or disabled   *)
(* user gets 401 without a cookie, and the new secret is nobody's.           *)
RefreshUser(w) ==
  /\ At(w, "user")
  /\ \/ /\ req[w].user \in active
        /\ delivered' = delivered \cup {req[w].secret}
        /\ UNCHANGED lost
     \/ /\ req[w].user \notin active
        /\ lost' = lost \cup {req[w].secret}
        /\ UNCHANGED delivered
  /\ Finish(w)
  /\ UNCHANGED <<redis, active, owner, home, parent, strays>>

-----------------------------------------------------------------------------
(* The handlers behind get_current_auth.                                     *)

(* Variant for mutation: the owner is not compared. *)
OwnedByAnyone(sid, u) == Live(sid) /\ u \in Users

(* The stored session exists and is of user u. *)
Owned(sid, u) == Live(sid) /\ sess[sid].user = u

(* get_current_auth: GET of the token's session, owner check, user check.    *)
(* The checks read nothing the request uses later but the ids it had.        *)
Authenticate(w, sid, pc) ==
  /\ At(w, "idle")
  /\ HasAccessToken(sid)
  /\ Owned(sid, owner[sid])
  /\ owner[sid] \in active
  /\ req' = [req EXCEPT ![w] = [Idle EXCEPT !.pc = pc, !.user = owner[sid],
                                            !.sid = sid]]
  /\ UNCHANGED <<redis, active, delivered, history>>

(* DELETE /auth/sessions/{session_id}: delete_user_session's GET and check. *)
RemoveLookup(w, target) ==
  /\ At(w, "lookup")
  /\ \/ /\ Owned(target, req[w].user)
        /\ req' = [req EXCEPT ![w] = [@ EXCEPT !.pc = "delete", !.sid = target]]
     \/ /\ ~Owned(target, req[w].user)
        /\ Finish(w)
  /\ UNCHANGED <<redis, active, delivered, history>>

(* delete_session: one MULTI block with DEL and SREM; logout and removal. *)
DeleteExec(w) ==
  /\ At(w, "delete")
  /\ sess' = Without({req[w].sid})
  /\ fading' = fading \ {req[w].sid}
  /\ watch' = Broken({req[w].sid})
  /\ index' = [index EXCEPT ![req[w].user] = @ \ {req[w].sid}]
  /\ Finish(w)
  /\ UNCHANGED <<active, delivered, history>>

(* delete_all_user_sessions: SMEMBERS; an empty answer ends it. *)
PurgeRead(w) ==
  /\ At(w, "members")
  /\ \/ /\ index[req[w].user] # {}
        /\ req' = [req EXCEPT ![w] = [@ EXCEPT !.pc = "purge", !.ids = index[req[w].user]]]
     \/ /\ index[req[w].user] = {}
        /\ Finish(w)
  /\ UNCHANGED <<redis, active, delivered, history>>

(* One MULTI block: DEL of every session read before, DEL of the whole index. *)
PurgeExec(w) ==
  /\ At(w, "purge")
  /\ sess' = Without(req[w].ids)
  /\ fading' = fading \ req[w].ids
  /\ watch' = Broken(req[w].ids)
  /\ index' = [index EXCEPT ![req[w].user] = {}]
  /\ strays' = strays \cup (index[req[w].user] \ req[w].ids)
  /\ Finish(w)
  /\ UNCHANGED <<active, delivered, owner, home, parent, lost>>

-----------------------------------------------------------------------------
(* get_user_sessions: SMEMBERS, a MULTI block of GETs, SREM of stale ids.    *)

ListRead(w, u) ==
  /\ At(w, "idle")
  /\ index[u] # {}
  /\ req' = [req EXCEPT ![w] = [Idle EXCEPT !.pc = "probe", !.user = u,
                                            !.ids = index[u]]]
  /\ UNCHANGED <<redis, active, delivered, history>>

(* Variant for mutation: the owner comparison is inverted. *)
StaleInverted(ids, u) == {sid \in ids : ~Live(sid) \/ Owned(sid, u)}

(* The ids of a listing that name no session of the user. *)
Stale(ids, u) == {sid \in ids : ~Owned(sid, u)}

ListProbe(w) ==
  /\ At(w, "probe")
  /\ LET stale == Stale(req[w].ids, req[w].user)
     IN  \/ /\ stale # {}
            /\ req' = [req EXCEPT ![w] = [@ EXCEPT !.pc = "trim", !.ids = stale]]
         \/ stale = {} /\ Finish(w)
  /\ UNCHANGED <<redis, active, delivered, history>>

ListTrim(w) ==
  /\ At(w, "trim")
  /\ index' = [index EXCEPT ![req[w].user] = @ \ req[w].ids]
  /\ Finish(w)
  /\ UNCHANGED <<sess, fading, active, watch, delivered, history>>

-----------------------------------------------------------------------------
(* The environment *)

(* The remaining time of a session falls under half a second ... *)
Fade(sid) ==
  /\ PositiveTtl(sid)
  /\ fading' = fading \cup {sid}
  /\ UNCHANGED <<sess, index, active, req, watch, delivered, history>>

(* ... and the key goes; the index keeps the id. *)
Expire(sid) ==
  /\ sid \in fading
  /\ sess' = Without({sid})
  /\ fading' = fading \ {sid}
  /\ watch' = Broken({sid})
  /\ UNCHANGED <<index, active, req, delivered, history>>

(* An administrator edits users.is_active: no handler of the program does. *)
ToggleUser(u) ==
  /\ active' = IF u \in active THEN active \ {u} ELSE active \cup {u}
  /\ UNCHANGED <<redis, req, delivered, history>>

(* A request is cut off before its next command. *)
CutOff(w) ==
  /\ ~At(w, "idle")
  /\ Finish(w)
  /\ Unwatch(w)
  /\ lost' = IF req[w].pc \in {"sadd", "reply", "user"}
               THEN lost \cup {req[w].secret} ELSE lost
  /\ strays' = IF At(w, "sadd") THEN strays \cup {req[w].sid} ELSE strays
  /\ UNCHANGED <<sess, fading, index, active, delivered, owner, home, parent>>

Step(w) ==
  \/ \E u \in Users, sid \in Sids, secret \in Secrets : LoginSet(w, u, sid, secret)
  \/ LoginIndex(w)
  \/ Reply(w)
  \/ \E secret \in Secrets : RefreshStart(w, secret)
  \/ RotateWatch(w)
  \/ RotateGet(w)
  \/ RotateTtl(w)
  \/ \E new \in Secrets : RotateExec(w, new)
  \/ RotateRetry(w)
  \/ RefreshUser(w)
  \/ \E sid \in Sids, pc \in {"delete", "lookup", "members"} : Authenticate(w, sid, pc)
  \/ \E target \in Sids : RemoveLookup(w, target)
  \/ DeleteExec(w)
  \/ PurgeRead(w)
  \/ PurgeExec(w)
  \/ \E u \in Users : ListRead(w, u)
  \/ ListProbe(w)
  \/ ListTrim(w)
  \/ CutOff(w)

Next ==
  \/ \E w \in Workers : Step(w)
  \/ \E sid \in Sids : Fade(sid) \/ Expire(sid)
  \/ \E u \in Users : ToggleUser(u)

Spec == Init /\ [][Next]_vars

-----------------------------------------------------------------------------
(* Properties *)

(* Types, and only an existing key can be about to expire. *)
TypeOK ==
  /\ sess \in [Sids -> Sessions \cup {None}]
  /\ fading \in SUBSET {sid \in Sids : Live(sid)}
  /\ index \in [Users -> SUBSET Sids]
  /\ active \in SUBSET Users
  /\ req \in [Workers -> Requests]
  /\ watch \in [Workers -> Sids \cup {None}]
  /\ delivered \in SUBSET Secrets
  /\ owner \in [Sids -> Users \cup {None}]
  /\ home \in [Secrets -> Sids \cup {None}]
  /\ parent \in [Secrets -> Secrets \cup {None}]
  /\ lost \in SUBSET Secrets
  /\ strays \in SUBSET Sids

(* A refresh token is good for one rotation: however many requests present   *)
(* it at once, at most one of them gets a new token for it                   *)
(* (rotate_refresh_token's WATCH, GET, compare, MULTI, EXEC).                *)
RefreshSingleUse ==
  \A a, b \in Secrets : parent[a] = parent[b] /\ parent[a] # None => a = b

(* The second and third attempts of rotate_refresh_token's loop never get    *)
(* past the comparison of hashes: whatever broke the WATCH has also made the *)
(* presented secret worthless, so no refresh is answered late with a token   *)
(* that a concurrent refresh already replaced.                               *)
RetryNeverRotates ==
  \A w \in Workers : At(w, "ttl") \/ At(w, "exec") => req[w].tries = 0

(* A session that works is listed under its user, so that logout-all finds   *)
(* it, unless its own login has not reached SADD, or was cut off before it,  *)
(* or its SADD fell between SMEMBERS and EXEC of a logout-all. In particular *)
(* get_user_sessions, which removes ids by what it read earlier, never       *)
(* removes a session that works: create_session writes the key first.        *)
UnindexedOnlyByRace ==
  \A sid \in Sids :
    Live(sid) => \/ sid \in index[owner[sid]]
                 \/ sid \in strays
                 \/ \E w \in Workers : At(w, "sadd") /\ req[w].sid = sid

(* A request ends no session of another user than its own: the owner checks  *)
(* happen one or two commands before the DEL they protect.                   *)
EndsOwnSessionsOnly ==
  [][\A w \in Workers, sid \in Sids :
       req'[w] # req[w] /\ Live(sid) /\ ~Live(sid)' => req[w].user = owner[sid]]_vars

(* The secret a working session accepts is with a client, on its way to one, *)
(* or was lost by a request cut off after its write or refused after the     *)
(* rotation (the user check of refresh comes after the exchange). Nothing    *)
(* else locks a client out.                                                  *)
CurrentSecretAccounted ==
  \A sid \in Sids :
    Live(sid) => \/ sess[sid].hash \in delivered \cup lost
                 \/ \E w \in Workers : /\ req[w].pc \in {"sadd", "reply", "user"}
                                       /\ req[w].secret = sess[sid].hash

-----------------------------------------------------------------------------
(* The inductive invariant behind these properties, in named parts.          *)

(* A working session accepts a secret of its own that nobody exchanged yet. *)
SessionInv ==
  \A sid \in Sids :
    Live(sid) => /\ owner[sid] = sess[sid].user
                 /\ home[sess[sid].hash] = sid
                 /\ \A new \in Secrets : parent[new] # sess[sid].hash

(* Secrets belong to created sessions and are exchanged within a session. *)
SecretInv ==
  \A secret \in Secrets :
    /\ home[secret] # None => owner[home[secret]] # None
    /\ secret \in delivered => home[secret] # None
    /\ parent[secret] # None => home[secret] # None /\ home[parent[secret]] = home[secret]

(* The index of a user holds only sessions created for that user. *)
IndexInv == \A u \in Users : \A sid \in index[u] : owner[sid] = u

(* What the request of w has learnt about its session. *)
RequestOK(w) ==
  LET r == req[w]
  IN  /\ r.pc \in {"watch", "get", "ttl", "exec", "sadd", "reply", "user"}
           => r.sid \in Sids /\ r.secret \in Secrets /\ home[r.secret] = r.sid /\ r.ids = {}
      /\ r.pc \in {"ttl", "exec", "sadd", "reply", "user", "delete"}
           => r.sid \in Sids /\ r.user \in Users /\ owner[r.sid] = r.user
      /\ r.pc \in {"lookup", "members", "purge", "probe", "trim"} => r.user \in Users
      /\ \A sid \in r.ids : r.user \in Users /\ owner[sid] = r.user
      /\ r.pc = "trim" => \A sid \in r.ids : ~Live(sid)

(* While a WATCH is unbroken the hash compared after it is still the stored  *)
(* one; once it is broken the presented secret is worthless for good.        *)
WatchOK(w) ==
  /\ watch[w] # None => req[w].pc \in {"get", "ttl", "exec"} /\ watch[w] = req[w].sid
  /\ req[w].pc \in {"ttl", "exec"} => (Accepted(w) <=> watch[w] # None)
  /\ req[w].pc = "get" /\ watch[w] = None => ~Accepted(w)
  /\ req[w].pc \in {"watch", "get"} /\ req[w].tries > 0 => ~Accepted(w)
  /\ req[w].pc \in {"ttl", "exec"} => req[w].tries = 0

SessionsInductive ==
  /\ TypeOK
  /\ SessionInv
  /\ SecretInv
  /\ IndexInv
  /\ \A w \in Workers : RequestOK(w) /\ WatchOK(w)

-----------------------------------------------------------------------------
(* The contract these commands implement together.                           *)

Contract == INSTANCE SessionContract WITH
  current <- [sid \in Sids |-> IF Live(sid) THEN sess[sid].hash ELSE None],
  opened <- {sid \in Sids : owner[sid] # None},
  issued <- {secret \in Secrets : home[secret] # None},
  spent <- {secret \in Secrets : \E new \in Secrets : parent[new] = secret}

(* Interleaved and cut off as they are, the Redis commands amount to         *)
(* sessions that open once, exchange the current secret only, and never come *)
(* back to life after logout or expiry.                                      *)
ImplementsContract == Contract!Spec
=============================================================================
