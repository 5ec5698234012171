------------------------ MODULE AuthSessionsProofs ------------------------
(***************************************************************************)
(* Proofs about AuthSessions, for any numbers of users, sessions, secrets  *)
(* and requests in flight. SessionsInductive is preserved by every Redis   *)
(* command; the properties the model checker verifies on a small instance  *)
(* follow from it.                                                         *)
(***************************************************************************)
EXTENDS AuthSessions, TLAPS

-----------------------------------------------------------------------------
(* What any step does to the requests it does not run                        *)

(* The record of a worker without a request. *)
LEMMA IdleType == Idle \in Requests
  BY MaxTriesAssumption DEF Idle, Requests, Pcs

(* The requests outside movers stay where they are; created sessions and     *)
(* secrets keep their owner; a session key only goes, or gets a new secret,  *)
(* and its WATCHes break with it.                                            *)
Effect(movers) ==
  /\ \A v \in Workers \ movers : req'[v] = req[v]
  /\ \A sid \in Sids : owner[sid] # None => owner'[sid] = owner[sid]
  /\ \A secret \in Secrets : home[secret] # None => home'[secret] = home[secret]
  /\ \A sid \in Sids : \/ sess'[sid] = sess[sid]
                       \/ sess'[sid] = None
                       \/ owner[sid] = None
                       \/ Live(sid) /\ home[sess'[sid].hash] = None
  /\ \A v \in Workers \ movers :
       \/ /\ watch'[v] = watch[v]
          /\ watch[v] # None => sess'[watch[v]] = sess[watch[v]]
       \/ /\ watch'[v] = None
          /\ watch[v] # None
          /\ \/ sess'[watch[v]] = None
             \/ home[sess'[watch[v]].hash] = None

(* What a request has learnt stays true while other requests run.            *)
LEMMA Unmoved ==
  ASSUME SessionsInductive, TypeOK', NEW movers, Effect(movers), NEW v \in Workers \ movers
  PROVE  RequestOK(v)' /\ WatchOK(v)'
<1> DEFINE r == req[v]
<1>1. r \in Requests /\ req'[v] = r /\ RequestOK(v) /\ WatchOK(v)
  BY DEF SessionsInductive, TypeOK, Effect
<1>2. RequestOK(v)'
  <2>1. \A sid \in r.ids : sid \in Sids /\ owner'[sid] = owner[sid]
    BY <1>1, NoneAssumption DEF Requests, RequestOK, Effect
  <2>2. r.pc = "trim" => \A sid \in r.ids : ~Live(sid)'
    BY <1>1, <2>1, NoneAssumption DEF Requests, RequestOK, Effect, Live
  <2> QED
    BY <1>1, <2>1, <2>2, NoneAssumption DEF RequestOK, Requests, Effect
<1>3. CASE r.pc \in {"watch", "get", "ttl", "exec"}
  <2>1. r.sid \in Sids /\ r.secret \in Secrets /\ home[r.secret] = r.sid
    BY <1>1, <1>3 DEF RequestOK
  <2>2. owner[r.sid] # None
    BY <2>1, NoneAssumption DEF SessionsInductive, SecretInv
  <2>3. ~Accepted(v) => ~Accepted(v)'
    BY <1>1, <2>1, <2>2, NoneAssumption DEF Accepted, Live, Effect
  <2>4. watch[v] # None /\ watch'[v] = None => ~Accepted(v)'
    BY <1>1, <2>1, <2>2, NoneAssumption DEF Accepted, Live, Effect, WatchOK
  <2>5. watch[v] # None /\ watch'[v] # None => (Accepted(v)' <=> Accepted(v))
    BY <1>1, <2>1, <2>2, NoneAssumption DEF Accepted, Live, Effect, WatchOK
  <2>6. watch'[v] \in {watch[v], None}
    BY DEF Effect
  <2> QED
    BY <1>1, <1>2, <1>3, <2>3, <2>4, <2>5, <2>6 DEF WatchOK
<1>4. CASE r.pc \notin {"watch", "get", "ttl", "exec"}
  BY <1>1, <1>2, <1>4 DEF WatchOK, Effect
<1> QED
  BY <1>2, <1>3, <1>4

(* A step of w that leaves the session keys and the history of ids alone.    *)
LEMMA QuietStep ==
  ASSUME SessionsInductive, NEW w \in Workers, TypeOK', IndexInv',
         UNCHANGED <<sess, owner, home, parent>>,
         \A v \in Workers \ {w} : req'[v] = req[v] /\ watch'[v] = watch[v],
         \A secret \in delivered' : home[secret] # None,
         RequestOK(w)', WatchOK(w)'
  PROVE  SessionsInductive'
<1>1. Effect({w})
  BY DEF Effect
<1>2. \A v \in Workers : RequestOK(v)' /\ WatchOK(v)'
  BY <1>1, Unmoved
<1>3. SessionInv' /\ SecretInv'
  BY DEF SessionsInductive, SessionInv, SecretInv, Live
<1> QED
  BY <1>2, <1>3 DEF SessionsInductive

(* A step that changes session keys: every part that mentions them is shown. *)
LEMMA LoudStep ==
  ASSUME SessionsInductive, NEW movers, TypeOK', Effect(movers),
         SessionInv', SecretInv', IndexInv',
         \A w \in movers : RequestOK(w)' /\ WatchOK(w)'
  PROVE  SessionsInductive'
<1>1. \A v \in Workers : RequestOK(v)' /\ WatchOK(v)'
  BY Unmoved
<1> QED
  BY <1>1 DEF SessionsInductive

(* A worker that ends its request, watching nothing, owes nothing.           *)
LEMMA FinishStep ==
  ASSUME SessionsInductive, NEW w \in Workers, Finish(w)
  PROVE  /\ req' \in [Workers -> Requests]
         /\ \A v \in Workers \ {w} : req'[v] = req[v]
         /\ RequestOK(w)'
         /\ watch'[w] = None => WatchOK(w)'
<1>1. /\ req' \in [Workers -> Requests] /\ req'[w] = Idle
      /\ \A v \in Workers \ {w} : req'[v] = req[v]
  BY IdleType DEF Finish, SessionsInductive, TypeOK
<1>2. Idle.pc = "idle" /\ Idle.ids = {}
  BY DEF Idle
<1> QED
  BY <1>1, <1>2 DEF RequestOK, WatchOK

(* A worker that replaces its request record.                                *)
LEMMA MoveStep ==
  ASSUME TypeOK, NEW w \in Workers, NEW r \in Requests, req' = [req EXCEPT ![w] = r]
  PROVE  /\ req' \in [Workers -> Requests]
         /\ req'[w] = r
         /\ \A v \in Workers \ {w} : req'[v] = req[v]
  BY DEF TypeOK

(* A worker that only moves its program counter.                             *)
LEMMA GotoStep ==
  ASSUME TypeOK, NEW w \in Workers, NEW pc \in Pcs, Goto(w, pc)
  PROVE  /\ req' \in [Workers -> Requests]
         /\ req'[w].pc = pc
         /\ req'[w].user = req[w].user /\ req'[w].sid = req[w].sid
         /\ req'[w].secret = req[w].secret /\ req'[w].ids = req[w].ids
         /\ req'[w].tries = req[w].tries
         /\ \A v \in Workers \ {w} : req'[v] = req[v]
  BY DEF TypeOK, Goto, Requests

(* Every other worker keeps its WATCH.                                       *)
LEMMA UnwatchStep ==
  ASSUME TypeOK, NEW w \in Workers, Unwatch(w)
  PROVE  /\ watch' \in [Workers -> Sids \cup {None}]
         /\ watch'[w] = None
         /\ \A v \in Workers \ {w} : watch'[v] = watch[v]
  BY DEF TypeOK, Unwatch

(* Every delivered token was generated for some session.                     *)
LEMMA DeliveredHome ==
  ASSUME SessionsInductive, NEW secret \in delivered
  PROVE  secret \in Secrets /\ home[secret] \in Sids /\ owner[home[secret]] \in Users
  BY NoneAssumption DEF SessionsInductive, SecretInv, TypeOK

-----------------------------------------------------------------------------
(* Login                                                                     *)

(* A login stores a session nobody had, with a secret nobody had.            *)
LEMMA LoginSetStep ==
  ASSUME SessionsInductive, NEW w \in Workers, NEW u \in Users, NEW sid \in Sids,
         NEW secret \in Secrets, LoginSet(w, u, sid, secret)
  PROVE  SessionsInductive'
<1> DEFINE r == [Idle EXCEPT !.pc = "sadd", !.user = u, !.sid = sid, !.secret = secret]
           s == [user |-> u, hash |-> secret]
<1>1. /\ r \in Requests
      /\ r.pc = "sadd" /\ r.user = u /\ r.sid = sid /\ r.secret = secret /\ r.ids = {}
  <2>1. r \in Requests
    BY IdleType DEF Requests, Pcs
  <2>2. r.pc = "sadd" /\ r.user = u /\ r.sid = sid /\ r.secret = secret /\ r.ids = {}
    BY DEF Idle
  <2> QED
    BY <2>1, <2>2
<1>2. s \in Sessions /\ s # None
  BY NoneAssumption DEF Sessions
<1>3. TypeOK
  BY DEF SessionsInductive
<1>4. /\ req' \in [Workers -> Requests] /\ req'[w] = r
      /\ \A v \in Workers \ {w} : req'[v] = req[v]
  BY <1>1, <1>3 DEF LoginSet, TypeOK
<1>5. /\ sess' \in [Sids -> Sessions \cup {None}] /\ sess'[sid] = s
      /\ \A other \in Sids \ {sid} : sess'[other] = sess[other]
  BY <1>2, <1>3 DEF LoginSet, TypeOK
<1>6. /\ owner' \in [Sids -> Users \cup {None}] /\ owner[sid] = None /\ owner'[sid] = u
      /\ \A other \in Sids \ {sid} : owner'[other] = owner[other]
  BY <1>3 DEF LoginSet, TypeOK, Fresh
<1>7. /\ home' \in [Secrets -> Sids \cup {None}] /\ home[secret] = None /\ home'[secret] = sid
      /\ \A other \in Secrets \ {secret} : home'[other] = home[other]
  BY <1>3 DEF LoginSet, TypeOK, Fresh
<1>8. UNCHANGED <<fading, index, active, watch, delivered, parent, lost, strays>>
  BY DEF LoginSet
<1>9. TypeOK'
  BY <1>2, <1>3, <1>4, <1>5, <1>6, <1>7, <1>8 DEF TypeOK, Live
<1>10. \A v \in Workers : watch[v] # None => watch[v] \in Sids /\ owner[watch[v]] # None
  BY <1>3, NoneAssumption DEF SessionsInductive, SecretInv, RequestOK, WatchOK, TypeOK
<1>11. Effect({w})
  BY <1>4, <1>5, <1>6, <1>7, <1>8, <1>10 DEF Effect
<1>12. RequestOK(w)' /\ WatchOK(w)'
  <2>1. watch[w] = None
    BY DEF LoginSet, At, SessionsInductive, WatchOK
  <2> QED
    BY <2>1, <1>1, <1>4, <1>6, <1>7, <1>8 DEF RequestOK, WatchOK
<1>13. SessionInv'
  <2>1. ASSUME NEW other \in Sids \ {sid}, Live(other)'
        PROVE  /\ owner'[other] = sess'[other].user
               /\ home'[sess'[other].hash] = other
               /\ \A new \in Secrets : parent'[new] # sess'[other].hash
    <3>1. Live(other) /\ sess[other] \in Sessions /\ sess'[other] = sess[other]
      BY <2>1, <1>3, <1>5 DEF Live, TypeOK
    <3>2. sess[other].hash \in Secrets /\ home[sess[other].hash] = other
      BY <3>1 DEF SessionsInductive, SessionInv, Sessions
    <3> QED
      BY <3>1, <3>2, <1>6, <1>7, <1>8, NoneAssumption DEF SessionsInductive, SessionInv
  <2>2. \A new \in Secrets : parent'[new] # secret
    BY <1>3, <1>7, <1>8, NoneAssumption DEF SessionsInductive, SecretInv, TypeOK
  <2> QED
    BY <2>1, <2>2, <1>5, <1>6, <1>7 DEF SessionInv
<1>14. SecretInv'
  BY <1>3, <1>6, <1>7, <1>8, NoneAssumption DEF SessionsInductive, SecretInv, TypeOK
<1>15. IndexInv'
  BY <1>3, <1>6, <1>8, NoneAssumption DEF SessionsInductive, IndexInv, TypeOK
<1> QED
  BY <1>9, <1>11, <1>12, <1>13, <1>14, <1>15, LoudStep

(* A login puts its own session into the index of its own user.              *)
LEMMA LoginIndexStep ==
  ASSUME SessionsInductive, NEW w \in Workers, LoginIndex(w)
  PROVE  SessionsInductive'
<1>1. TypeOK /\ RequestOK(w) /\ WatchOK(w) /\ IndexInv
  BY DEF SessionsInductive
<1>2. req[w].sid \in Sids /\ req[w].user \in Users /\ owner[req[w].sid] = req[w].user
  BY <1>1 DEF LoginIndex, At, RequestOK
<1>3. /\ req' \in [Workers -> Requests] /\ req'[w] = [req[w] EXCEPT !.pc = "reply"]
      /\ \A v \in Workers \ {w} : req'[v] = req[v]
  BY <1>1 DEF LoginIndex, Goto, TypeOK, Requests, Pcs
<1>4. UNCHANGED <<sess, fading, active, watch, delivered, owner, home, parent, lost, strays>>
  BY DEF LoginIndex, history
<1>5. index' \in [Users -> SUBSET Sids] /\ IndexInv'
  BY <1>1, <1>2, <1>4 DEF LoginIndex, TypeOK, IndexInv
<1>6. TypeOK'
  BY <1>1, <1>3, <1>4, <1>5 DEF TypeOK, Live
<1>7. RequestOK(w)' /\ WatchOK(w)'
  <2>1. /\ req'[w].pc = "reply" /\ req'[w].sid = req[w].sid /\ req'[w].user = req[w].user
        /\ req'[w].secret = req[w].secret /\ req'[w].ids = req[w].ids
    BY <1>1, <1>3 DEF TypeOK, Requests
  <2>2. req[w].pc = "sadd"
    BY DEF LoginIndex, At
  <2> QED
    BY <1>1, <1>2, <1>4, <2>1, <2>2 DEF RequestOK, WatchOK
<1>8. \A secret \in delivered' : home[secret] # None
  BY <1>4, DeliveredHome, NoneAssumption
<1> QED
  BY <1>3, <1>4, <1>5, <1>6, <1>7, <1>8, QuietStep

(* A delivered token was generated for the session of its login.             *)
LEMMA ReplyStep ==
  ASSUME SessionsInductive, NEW w \in Workers, Reply(w)
  PROVE  SessionsInductive'
<1>1. TypeOK /\ RequestOK(w) /\ WatchOK(w) /\ IndexInv
  BY DEF SessionsInductive
<1>2. req[w].pc = "reply" /\ Finish(w)
  BY DEF Reply, At
<1>3. req[w].secret \in Secrets /\ home[req[w].secret] \in Sids /\ watch[w] = None
  BY <1>1, <1>2 DEF RequestOK, WatchOK
<1>4. UNCHANGED <<sess, fading, index, watch, active, owner, home, parent, lost, strays>>
  BY DEF Reply, redis, history
<1>5. delivered' = delivered \cup {req[w].secret}
  BY DEF Reply
<1>6. TypeOK'
  BY <1>1, <1>2, <1>3, <1>4, <1>5, FinishStep DEF TypeOK, Live
<1>7. \A secret \in delivered' : home[secret] # None
  BY <1>3, <1>5, DeliveredHome, NoneAssumption
<1>8. IndexInv'
  BY <1>1, <1>4 DEF IndexInv
<1> QED
  BY <1>2, <1>3, <1>4, <1>6, <1>7, <1>8, FinishStep, QuietStep

-----------------------------------------------------------------------------
(* Refresh                                                                   *)

(* A refresh starts with a token and the session it belongs to.              *)
LEMMA RefreshStartStep ==
  ASSUME SessionsInductive, NEW w \in Workers, NEW secret \in Secrets, RefreshStart(w, secret)
  PROVE  SessionsInductive'
<1> DEFINE r == [Idle EXCEPT !.pc = "watch", !.secret = secret, !.sid = home[secret]]
<1>1. TypeOK /\ WatchOK(w) /\ IndexInv
  BY DEF SessionsInductive
<1>2. home[secret] \in Sids /\ watch[w] = None
  BY <1>1, DeliveredHome DEF RefreshStart, At, WatchOK
<1>3. r \in Requests
  BY <1>2, IdleType DEF Requests, Pcs
<1>4. r.pc = "watch" /\ r.secret = secret /\ r.sid = home[secret] /\ r.ids = {} /\ r.tries = 0
  BY DEF Idle
<1>5. UNCHANGED <<sess, fading, index, watch, active, delivered, owner, home, parent, lost, strays>>
  BY DEF RefreshStart, redis, history
<1>6. /\ req' \in [Workers -> Requests] /\ req'[w] = r
      /\ \A v \in Workers \ {w} : req'[v] = req[v]
  BY <1>1, <1>3, MoveStep DEF RefreshStart
<1>7. TypeOK'
  BY <1>1, <1>5, <1>6 DEF TypeOK, Live
<1>8. RequestOK(w)' /\ WatchOK(w)'
  BY <1>2, <1>4, <1>5, <1>6 DEF RequestOK, WatchOK
<1>9. IndexInv' /\ \A s \in delivered' : home[s] # None
  BY <1>1, <1>5, DeliveredHome, NoneAssumption DEF IndexInv
<1> QED
  BY <1>5, <1>6, <1>7, <1>8, <1>9, QuietStep

(* A WATCH that starts is a WATCH on the session of the request.             *)
LEMMA RotateWatchStep ==
  ASSUME SessionsInductive, NEW w \in Workers, RotateWatch(w)
  PROVE  SessionsInductive'
<1>1. TypeOK /\ RequestOK(w) /\ WatchOK(w) /\ IndexInv
  BY DEF SessionsInductive
<1>2. req[w].pc = "watch" /\ Goto(w, "get") /\ "get" \in Pcs
  BY DEF RotateWatch, At, Pcs
<1>3. req[w].sid \in Sids /\ req[w].secret \in Secrets /\ home[req[w].secret] = req[w].sid
  BY <1>1, <1>2 DEF RequestOK
<1>4. UNCHANGED <<sess, fading, index, active, delivered, owner, home, parent, lost, strays>>
  BY DEF RotateWatch, history
<1>5. /\ watch' \in [Workers -> Sids \cup {None}] /\ watch'[w] = req[w].sid
      /\ \A v \in Workers \ {w} : watch'[v] = watch[v]
  BY <1>1, <1>3 DEF RotateWatch, TypeOK
<1>6. TypeOK'
  BY <1>1, <1>2, <1>4, <1>5, GotoStep DEF TypeOK, Live
<1>7. RequestOK(w)'
  BY <1>1, <1>2, <1>3, <1>4, GotoStep DEF RequestOK
<1>8. WatchOK(w)'
  BY <1>1, <1>2, <1>3, <1>4, <1>5, GotoStep, NoneAssumption DEF WatchOK, Accepted, Live
<1>9. IndexInv' /\ \A s \in delivered' : home[s] # None
  BY <1>1, <1>4, DeliveredHome, NoneAssumption DEF IndexInv
<1> QED
  BY <1>1, <1>2, <1>4, <1>5, <1>6, <1>7, <1>8, <1>9, GotoStep, QuietStep

(* Past the comparison the presented secret is the stored one.               *)
LEMMA RotateGetStep ==
  ASSUME SessionsInductive, NEW w \in Workers, RotateGet(w)
  PROVE  SessionsInductive'
<1>1. TypeOK /\ RequestOK(w) /\ WatchOK(w) /\ IndexInv /\ SessionInv
  BY DEF SessionsInductive
<1>2. req[w].pc = "get"
  BY DEF RotateGet, At
<1>3. req[w].sid \in Sids /\ req[w].secret \in Secrets /\ home[req[w].secret] = req[w].sid
        /\ req[w].ids = {}
  BY <1>1, <1>2 DEF RequestOK
<1>4. UNCHANGED <<sess, fading, index, active, delivered, owner, home, parent, lost, strays>>
  BY DEF RotateGet, history
<1>5. IndexInv' /\ \A s \in delivered' : home[s] # None
  BY <1>1, <1>4, DeliveredHome, NoneAssumption DEF IndexInv
<1>6. CASE Accepted(w) /\ UNCHANGED watch
           /\ req' = [req EXCEPT ![w] = [@ EXCEPT !.pc = "ttl", !.user = sess[req[w].sid].user]]
  <2>1. sess[req[w].sid].user \in Users /\ owner[req[w].sid] = sess[req[w].sid].user
    BY <1>1, <1>3, <1>6, NoneAssumption DEF Accepted, Live, TypeOK, Sessions, SessionInv
  <2>2. /\ req' \in [Workers -> Requests]
        /\ req'[w].pc = "ttl" /\ req'[w].user = sess[req[w].sid].user
        /\ req'[w].sid = req[w].sid /\ req'[w].secret = req[w].secret
        /\ req'[w].ids = req[w].ids /\ req'[w].tries = req[w].tries
        /\ \A v \in Workers \ {w} : req'[v] = req[v]
    <3> DEFINE r == [req[w] EXCEPT !.pc = "ttl", !.user = sess[req[w].sid].user]
    <3>1. /\ r \in Requests /\ r.pc = "ttl" /\ r.user = sess[req[w].sid].user
          /\ r.sid = req[w].sid /\ r.secret = req[w].secret
          /\ r.ids = req[w].ids /\ r.tries = req[w].tries
      <4>1. req[w] \in Requests
        BY <1>1 DEF TypeOK
      <4> QED
        BY <4>1, <2>1 DEF Requests, Pcs
    <3>2. req' = [req EXCEPT ![w] = r]
      BY <1>6
    <3> HIDE DEF r
    <3> QED
      BY <1>1, <3>1, <3>2, MoveStep
  <2>3. TypeOK'
    BY <1>1, <1>4, <1>6, <2>2 DEF TypeOK, Live
  <2>4. RequestOK(w)'
    BY <1>3, <1>4, <2>1, <2>2 DEF RequestOK
  <2>5. WatchOK(w)'
    <3>1. req[w].tries = 0
      <4>1. req[w].tries \in 0 .. MaxTries
        BY <1>1 DEF TypeOK, Requests
      <4> QED
        BY <4>1, <1>1, <1>2, <1>6, MaxTriesAssumption DEF WatchOK
    <3> QED
      BY <1>1, <1>2, <1>4, <1>6, <2>2, <3>1 DEF WatchOK, Accepted, Live
  <2> QED
    BY <1>4, <1>5, <1>6, <2>2, <2>3, <2>4, <2>5, QuietStep
<1>7. CASE Finish(w) /\ Unwatch(w)
  <2>1. TypeOK'
    BY <1>1, <1>4, <1>7, FinishStep, UnwatchStep DEF TypeOK, Live
  <2> QED
    BY <1>1, <1>4, <1>5, <1>7, <2>1, FinishStep, UnwatchStep, QuietStep
<1> QED
  BY <1>6, <1>7 DEF RotateGet

(* TTL changes no key, so the comparison still stands.                       *)
LEMMA RotateTtlStep ==
  ASSUME SessionsInductive, NEW w \in Workers, RotateTtl(w)
  PROVE  SessionsInductive'
<1>1. TypeOK /\ RequestOK(w) /\ WatchOK(w) /\ IndexInv
  BY DEF SessionsInductive
<1>2. req[w].pc = "ttl" /\ "exec" \in Pcs
  BY DEF RotateTtl, At, Pcs
<1>3. UNCHANGED <<sess, fading, index, active, delivered, owner, home, parent, lost, strays>>
  BY DEF RotateTtl, history
<1>4. IndexInv' /\ \A s \in delivered' : home[s] # None
  BY <1>1, <1>3, DeliveredHome, NoneAssumption DEF IndexInv
<1>5. CASE Goto(w, "exec") /\ UNCHANGED watch
  <2>1. TypeOK'
    BY <1>1, <1>2, <1>3, <1>5, GotoStep DEF TypeOK, Live
  <2>2. RequestOK(w)'
    BY <1>1, <1>2, <1>3, <1>5, GotoStep DEF RequestOK
  <2>3. WatchOK(w)'
    BY <1>1, <1>2, <1>3, <1>5, GotoStep DEF WatchOK, Accepted, Live
  <2> QED
    BY <1>1, <1>2, <1>3, <1>4, <1>5, <2>1, <2>2, <2>3, GotoStep, QuietStep
<1>6. CASE Finish(w) /\ Unwatch(w)
  <2>1. TypeOK'
    BY <1>1, <1>3, <1>6, FinishStep, UnwatchStep DEF TypeOK, Live
  <2> QED
    BY <1>1, <1>3, <1>4, <1>6, <2>1, FinishStep, UnwatchStep, QuietStep
<1> QED
  BY <1>5, <1>6 DEF RotateTtl

(* The exchange: the WATCH is unbroken, so the presented secret is still the *)
(* stored one, and nobody exchanged it yet.                                  *)
LEMMA RotateExecStep ==
  ASSUME SessionsInductive, NEW w \in Workers, NEW new \in Secrets, RotateExec(w, new)
  PROVE  SessionsInductive' /\ (RefreshSingleUse => RefreshSingleUse')
<1> DEFINE sid == req[w].sid
           old == req[w].secret
           s == [user |-> req[w].user, hash |-> new]
           r == [req[w] EXCEPT !.pc = "user", !.secret = new]
<1>1. TypeOK /\ RequestOK(w) /\ WatchOK(w) /\ IndexInv /\ SessionInv /\ SecretInv
  BY DEF SessionsInductive
<1>2. req[w].pc = "exec" /\ watch[w] = sid /\ home[new] = None
  BY DEF RotateExec, At, WatchHolds
<1>3. /\ sid \in Sids /\ old \in Secrets /\ home[old] = sid /\ req[w].ids = {}
      /\ req[w].user \in Users /\ owner[sid] = req[w].user
  BY <1>1, <1>2 DEF RequestOK
<1>4. Live(sid) /\ sess[sid].hash = old
  BY <1>1, <1>2, <1>3, NoneAssumption DEF WatchOK, Accepted
<1>5. s \in Sessions /\ s # None
  BY <1>3, NoneAssumption DEF Sessions
<1>6. r \in Requests /\ r.pc = "user" /\ r.secret = new /\ r.sid = sid
      /\ r.user = req[w].user /\ r.ids = {}
  <2>1. req[w] \in Requests
    BY <1>1 DEF TypeOK
  <2> QED
    BY <2>1, <1>3 DEF Requests, Pcs
<1>7. /\ req' \in [Workers -> Requests] /\ req'[w] = r
      /\ \A v \in Workers \ {w} : req'[v] = req[v]
  <2>1. req' = [req EXCEPT ![w] = r]
    BY DEF RotateExec
  <2> HIDE DEF r
  <2> QED
    BY <1>1, <1>6, <2>1, MoveStep
<1>8. /\ sess' \in [Sids -> Sessions \cup {None}] /\ sess'[sid] = s
      /\ \A other \in Sids \ {sid} : sess'[other] = sess[other]
  BY <1>1, <1>3, <1>5 DEF RotateExec, TypeOK
<1>9. /\ home' \in [Secrets -> Sids \cup {None}] /\ home'[new] = sid
      /\ \A other \in Secrets \ {new} : home'[other] = home[other]
  BY <1>1, <1>3 DEF RotateExec, TypeOK
<1>10. /\ parent' \in [Secrets -> Secrets \cup {None}] /\ parent'[new] = old
       /\ \A other \in Secrets \ {new} : parent'[other] = parent[other]
  BY <1>1, <1>3 DEF RotateExec, TypeOK
<1>11. /\ watch' \in [Workers -> Sids \cup {None}] /\ watch'[w] = None
       /\ \A v \in Workers : watch'[v] = IF watch[v] = sid THEN None ELSE watch[v]
  BY <1>1, <1>2 DEF RotateExec, Broken, TypeOK
<1>12. UNCHANGED <<index, active, delivered, owner, lost, strays>> /\ fading' = fading \ {sid}
  BY DEF RotateExec
<1>13. TypeOK'
  BY <1>1, <1>5, <1>7, <1>8, <1>9, <1>10, <1>11, <1>12 DEF TypeOK, Live
<1>14. Effect({w})
  <2>1. \A v \in Workers : watch[v] # None => watch[v] \in Sids
    BY <1>1 DEF TypeOK
  <2>2. home[sess'[sid].hash] = None
    BY <1>2, <1>8
  <2>3. \A other \in Secrets : home[other] # None => home'[other] = home[other]
    BY <1>2, <1>9
  <2> QED
    BY <1>3, <1>4, <1>7, <1>8, <1>11, <1>12, <2>1, <2>2, <2>3 DEF Effect
<1>15. RequestOK(w)' /\ WatchOK(w)'
  BY <1>3, <1>6, <1>7, <1>9, <1>11, <1>12 DEF RequestOK, WatchOK
<1>16. SessionInv'
  <2>1. ASSUME NEW other \in Sids \ {sid}, Live(other)'
        PROVE  /\ owner'[other] = sess'[other].user
               /\ home'[sess'[other].hash] = other
               /\ \A n \in Secrets : parent'[n] # sess'[other].hash
    <3>1. Live(other) /\ sess[other] \in Sessions /\ sess'[other] = sess[other]
      BY <2>1, <1>1, <1>8 DEF Live, TypeOK
    <3>2. sess[other].hash \in Secrets /\ home[sess[other].hash] = other
      BY <3>1, <1>1 DEF SessionInv, Sessions
    <3> QED
      BY <3>1, <3>2, <1>1, <1>2, <1>3, <1>9, <1>10, <1>12, NoneAssumption DEF SessionInv
  <2>2. \A n \in Secrets : parent'[n] # new
    BY <1>1, <1>2, <1>3, <1>10, NoneAssumption DEF SecretInv, TypeOK
  <2>3. sess'[sid].user = req[w].user /\ sess'[sid].hash = new
    BY <1>8
  <2> QED
    BY <2>1, <2>2, <2>3, <1>3, <1>9, <1>12 DEF SessionInv
<1>17. SecretInv'
  <2>1. owner[sid] # None
    BY <1>3, NoneAssumption
  <2>2. \A secret \in delivered : secret # new
    BY <1>1, <1>2 DEF SecretInv
  <2>3. \A n \in Secrets : parent[n] # None => parent[n] # new /\ n # new
    BY <1>1, <1>2, NoneAssumption DEF SecretInv, TypeOK
  <2> QED
    BY <1>1, <1>2, <1>3, <1>9, <1>10, <1>12, <2>1, <2>2, <2>3, NoneAssumption
       DEF SecretInv, TypeOK
<1>18. IndexInv'
  BY <1>1, <1>12 DEF IndexInv
<1>19. RefreshSingleUse => RefreshSingleUse'
  <2>1. \A n \in Secrets : parent[n] # old
    BY <1>1, <1>3, <1>4 DEF SessionInv
  <2> QED
    BY <2>1, <1>10 DEF RefreshSingleUse
<1> QED
  BY <1>13, <1>14, <1>15, <1>16, <1>17, <1>18, <1>19, LoudStep

(* A broken WATCH: the request tries again, or is refused.                   *)
LEMMA RotateRetryStep ==
  ASSUME SessionsInductive, NEW w \in Workers, RotateRetry(w)
  PROVE  SessionsInductive'
<1> DEFINE r == [req[w] EXCEPT !.pc = "watch", !.tries = req[w].tries + 1]
<1>1. TypeOK /\ RequestOK(w) /\ WatchOK(w) /\ IndexInv
  BY DEF SessionsInductive
<1>2. req[w].pc = "exec" /\ watch[w] # req[w].sid /\ Unwatch(w)
  BY DEF RotateRetry, At, WatchHolds
<1>3. /\ req[w].sid \in Sids /\ req[w].secret \in Secrets /\ home[req[w].secret] = req[w].sid
      /\ req[w].ids = {}
  BY <1>1, <1>2 DEF RequestOK
<1>4. ~Accepted(w)
  BY <1>1, <1>2 DEF WatchOK
<1>5. UNCHANGED <<sess, fading, index, active, delivered, owner, home, parent, lost, strays>>
  BY DEF RotateRetry, history
<1>6. IndexInv' /\ \A s \in delivered' : home[s] # None
  BY <1>1, <1>5, DeliveredHome, NoneAssumption DEF IndexInv
<1>7. CASE req[w].tries + 1 < MaxTries /\ req' = [req EXCEPT ![w] = r]
  <2>1. /\ r \in Requests /\ r.pc = "watch" /\ r.sid = req[w].sid
        /\ r.secret = req[w].secret /\ r.ids = {}
    <3>1. req[w] \in Requests /\ req[w].tries \in 0 .. MaxTries
      BY <1>1 DEF TypeOK, Requests
    <3>2. req[w].tries + 1 \in 0 .. MaxTries
      BY <1>7, <3>1, MaxTriesAssumption
    <3> QED
      BY <1>3, <3>1, <3>2 DEF Requests, Pcs
  <2>2. /\ req' \in [Workers -> Requests] /\ req'[w] = r
        /\ \A v \in Workers \ {w} : req'[v] = req[v]
    <3> HIDE DEF r
    <3> QED
      BY <1>1, <1>7, <2>1, MoveStep
  <2>3. TypeOK'
    BY <1>1, <1>2, <1>5, <2>2, UnwatchStep DEF TypeOK, Live
  <2>4. RequestOK(w)'
    BY <1>3, <1>5, <2>1, <2>2 DEF RequestOK
  <2>5. ~Accepted(w)'
    BY <1>4, <1>5, <2>1, <2>2 DEF Accepted, Live
  <2>6. WatchOK(w)'
    BY <1>1, <1>2, <2>1, <2>2, <2>5, UnwatchStep DEF WatchOK
  <2> QED
    BY <1>1, <1>2, <1>5, <1>6, <2>2, <2>3, <2>4, <2>6, UnwatchStep, QuietStep
<1>8. CASE Finish(w)
  <2>1. TypeOK'
    BY <1>1, <1>2, <1>5, <1>8, FinishStep, UnwatchStep DEF TypeOK, Live
  <2> QED
    BY <1>1, <1>2, <1>5, <1>6, <1>8, <2>1, FinishStep, UnwatchStep, QuietStep
<1> QED
  BY <1>7, <1>8 DEF RotateRetry

(* After the rotation the new token is delivered or lost.                    *)
LEMMA RefreshUserStep ==
  ASSUME SessionsInductive, NEW w \in Workers, RefreshUser(w)
  PROVE  SessionsInductive'
<1>1. TypeOK /\ RequestOK(w) /\ WatchOK(w) /\ IndexInv
  BY DEF SessionsInductive
<1>2. req[w].pc = "user" /\ Finish(w)
  BY DEF RefreshUser, At
<1>3. req[w].secret \in Secrets /\ home[req[w].secret] \in Sids /\ watch[w] = None
  BY <1>1, <1>2 DEF RequestOK, WatchOK
<1>4. UNCHANGED <<sess, fading, index, watch, active, owner, home, parent, strays>>
  BY DEF RefreshUser, redis
<1>5. /\ delivered' \in {delivered, delivered \cup {req[w].secret}}
      /\ lost' \in {lost, lost \cup {req[w].secret}}
  BY DEF RefreshUser
<1>6. TypeOK'
  BY <1>1, <1>2, <1>3, <1>4, <1>5, FinishStep DEF TypeOK, Live
<1>7. \A secret \in delivered' : home[secret] # None
  BY <1>3, <1>5, DeliveredHome, NoneAssumption
<1>8. IndexInv'
  BY <1>1, <1>4 DEF IndexInv
<1> QED
  BY <1>2, <1>3, <1>4, <1>6, <1>7, <1>8, FinishStep, QuietStep

-----------------------------------------------------------------------------
(* The handlers behind get_current_auth                                      *)

(* Behind get_current_auth a request acts for the owner of a session.        *)
LEMMA AuthenticateStep ==
  ASSUME SessionsInductive, NEW w \in Workers, NEW sid \in Sids,
         NEW pc \in {"delete", "lookup", "members"}, Authenticate(w, sid, pc)
  PROVE  SessionsInductive'
<1> DEFINE r == [Idle EXCEPT !.pc = pc, !.user = owner[sid], !.sid = sid]
<1>1. TypeOK /\ WatchOK(w) /\ IndexInv
  BY DEF SessionsInductive
<1>2. owner[sid] \in Users /\ watch[w] = None
  BY <1>1 DEF Authenticate, At, WatchOK, TypeOK
<1>3. r \in Requests
  BY <1>2, IdleType DEF Requests, Pcs
<1>4. r.pc = pc /\ r.user = owner[sid] /\ r.sid = sid /\ r.ids = {}
  BY DEF Idle
<1>5. UNCHANGED <<sess, fading, index, watch, active, delivered, owner, home, parent, lost, strays>>
  BY DEF Authenticate, redis, history
<1>6. /\ req' \in [Workers -> Requests] /\ req'[w] = r
      /\ \A v \in Workers \ {w} : req'[v] = req[v]
  BY <1>1, <1>3, MoveStep DEF Authenticate
<1>7. TypeOK'
  BY <1>1, <1>5, <1>6 DEF TypeOK, Live
<1>8. RequestOK(w)' /\ WatchOK(w)'
  BY <1>2, <1>4, <1>5, <1>6 DEF RequestOK, WatchOK
<1>9. IndexInv' /\ \A s \in delivered' : home[s] # None
  BY <1>1, <1>5, DeliveredHome, NoneAssumption DEF IndexInv
<1> QED
  BY <1>5, <1>6, <1>7, <1>8, <1>9, QuietStep

(* delete_user_session goes on only with a session of its user.              *)
LEMMA RemoveLookupStep ==
  ASSUME SessionsInductive, NEW w \in Workers, NEW target \in Sids, RemoveLookup(w, target)
  PROVE  SessionsInductive'
<1> DEFINE r == [req[w] EXCEPT !.pc = "delete", !.sid = target]
<1>1. TypeOK /\ RequestOK(w) /\ WatchOK(w) /\ IndexInv /\ SessionInv
  BY DEF SessionsInductive
<1>2. req[w].pc = "lookup" /\ req[w].user \in Users /\ watch[w] = None
  BY <1>1 DEF RemoveLookup, At, RequestOK, WatchOK
<1>3. UNCHANGED <<sess, fading, index, watch, active, delivered, owner, home, parent, lost, strays>>
  BY DEF RemoveLookup, redis, history
<1>4. IndexInv' /\ \A s \in delivered' : home[s] # None
  BY <1>1, <1>3, DeliveredHome, NoneAssumption DEF IndexInv
<1>5. CASE Owned(target, req[w].user) /\ req' = [req EXCEPT ![w] = r]
  <2>1. owner[target] = req[w].user
    BY <1>1, <1>5 DEF Owned, SessionInv
  <2>2. /\ r \in Requests /\ r.pc = "delete" /\ r.sid = target
        /\ r.user = req[w].user /\ r.ids = req[w].ids
    <3>1. req[w] \in Requests
      BY <1>1 DEF TypeOK
    <3> QED
      BY <3>1 DEF Requests, Pcs
  <2>3. /\ req' \in [Workers -> Requests] /\ req'[w] = r
        /\ \A v \in Workers \ {w} : req'[v] = req[v]
    <3> HIDE DEF r
    <3> QED
      BY <1>1, <1>5, <2>2, MoveStep
  <2>4. TypeOK'
    BY <1>1, <1>3, <2>3 DEF TypeOK, Live
  <2>5. RequestOK(w)' /\ WatchOK(w)'
    BY <1>1, <1>2, <1>3, <2>1, <2>2, <2>3 DEF RequestOK, WatchOK
  <2> QED
    BY <1>3, <1>4, <2>3, <2>4, <2>5, QuietStep
<1>6. CASE Finish(w)
  <2>1. TypeOK'
    BY <1>1, <1>3, <1>6, FinishStep DEF TypeOK, Live
  <2> QED
    BY <1>2, <1>3, <1>4, <1>6, <2>1, FinishStep, QuietStep
<1> QED
  BY <1>5, <1>6 DEF RemoveLookup

(* Keys that go, by DEL or by expiry: DELETE, logout, logout-all, Expire.    *)
LEMMA Removal ==
  ASSUME SessionsInductive, NEW sids \in SUBSET Sids, NEW movers,
         \A v \in Workers \ movers : req'[v] = req[v],
         sess' = Without(sids), watch' = Broken(sids), fading' = fading \ sids,
         UNCHANGED <<owner, home, parent, delivered>>
  PROVE  /\ Effect(movers)
         /\ SessionInv'
         /\ SecretInv'
         /\ sess' \in [Sids -> Sessions \cup {None}]
         /\ watch' \in [Workers -> Sids \cup {None}]
         /\ fading' \in SUBSET {sid \in Sids : Live(sid)'}
         /\ \A w \in Workers : watch[w] = None => watch'[w] = None
<1>1. TypeOK /\ SessionInv /\ SecretInv
  BY DEF SessionsInductive
<1>2. /\ sess' \in [Sids -> Sessions \cup {None}]
      /\ \A sid \in Sids : sess'[sid] = IF sid \in sids THEN None ELSE sess[sid]
  BY <1>1 DEF Without, TypeOK
<1>3. /\ watch' \in [Workers -> Sids \cup {None}]
      /\ \A v \in Workers : watch'[v] = IF watch[v] \in sids THEN None ELSE watch[v]
  BY <1>1 DEF Broken, TypeOK
<1>4. fading' \in SUBSET {sid \in Sids : Live(sid)'}
  BY <1>1, <1>2 DEF TypeOK, Live
<1>5. \A v \in Workers : watch[v] \in Sids \cup {None}
  BY <1>1 DEF TypeOK
<1>6. Effect(movers)
  BY <1>2, <1>3, <1>5, NoneAssumption DEF Effect
<1>7. SessionInv'
  BY <1>1, <1>2 DEF SessionInv, Live
<1>8. SecretInv'
  BY <1>1 DEF SecretInv
<1> QED
  BY <1>2, <1>3, <1>4, <1>6, <1>7, <1>8, NoneAssumption

(* delete_session removes the request's session and its index entry.         *)
LEMMA DeleteExecStep ==
  ASSUME SessionsInductive, NEW w \in Workers, DeleteExec(w)
  PROVE  SessionsInductive'
<1>1. TypeOK /\ RequestOK(w) /\ WatchOK(w) /\ IndexInv
  BY DEF SessionsInductive
<1>2. req[w].pc = "delete" /\ Finish(w)
  BY DEF DeleteExec, At
<1>3. req[w].sid \in Sids /\ req[w].user \in Users /\ watch[w] = None
  BY <1>1, <1>2 DEF RequestOK, WatchOK
<1>4. /\ sess' = Without({req[w].sid}) /\ watch' = Broken({req[w].sid})
      /\ fading' = fading \ {req[w].sid}
      /\ UNCHANGED <<active, delivered, owner, home, parent, lost, strays>>
  BY DEF DeleteExec, history
<1>5. index' \in [Users -> SUBSET Sids] /\ IndexInv'
  BY <1>1, <1>3, <1>4 DEF DeleteExec, TypeOK, IndexInv
<1>6. \A v \in Workers \ {w} : req'[v] = req[v]
  BY <1>2, FinishStep
<1>7. Effect({w}) /\ SessionInv' /\ SecretInv' /\ watch'[w] = None
  BY <1>3, <1>4, <1>6, Removal
<1>8. TypeOK'
  <2>1. /\ sess' \in [Sids -> Sessions \cup {None}]
        /\ watch' \in [Workers -> Sids \cup {None}]
        /\ fading' \in SUBSET {sid \in Sids : Live(sid)'}
    BY <1>3, <1>4, <1>6, Removal
  <2>2. req' \in [Workers -> Requests]
    BY <1>2, FinishStep
  <2> QED
    BY <1>1, <1>4, <1>5, <2>1, <2>2 DEF TypeOK
<1> QED
  BY <1>2, <1>5, <1>7, <1>8, FinishStep, LoudStep

(* logout-all reads sessions of its user only.                               *)
LEMMA PurgeReadStep ==
  ASSUME SessionsInductive, NEW w \in Workers, PurgeRead(w)
  PROVE  SessionsInductive'
<1> DEFINE r == [req[w] EXCEPT !.pc = "purge", !.ids = index[req[w].user]]
<1>1. TypeOK /\ RequestOK(w) /\ WatchOK(w) /\ IndexInv
  BY DEF SessionsInductive
<1>2. req[w].pc = "members" /\ req[w].user \in Users /\ watch[w] = None
  BY <1>1 DEF PurgeRead, At, RequestOK, WatchOK
<1>3. UNCHANGED <<sess, fading, index, watch, active, delivered, owner, home, parent, lost, strays>>
  BY DEF PurgeRead, redis, history
<1>4. IndexInv' /\ \A s \in delivered' : home[s] # None
  BY <1>1, <1>3, DeliveredHome, NoneAssumption DEF IndexInv
<1>5. CASE req' = [req EXCEPT ![w] = r]
  <2>1. /\ r \in Requests /\ r.pc = "purge" /\ r.user = req[w].user
        /\ r.ids = index[req[w].user]
    <3>1. req[w] \in Requests /\ index[req[w].user] \in SUBSET Sids
      BY <1>1, <1>2 DEF TypeOK
    <3> QED
      BY <3>1 DEF Requests, Pcs
  <2>2. /\ req' \in [Workers -> Requests] /\ req'[w] = r
        /\ \A v \in Workers \ {w} : req'[v] = req[v]
    <3> HIDE DEF r
    <3> QED
      BY <1>1, <1>5, <2>1, MoveStep
  <2>3. TypeOK'
    BY <1>1, <1>3, <2>2 DEF TypeOK, Live
  <2>4. RequestOK(w)' /\ WatchOK(w)'
    BY <1>1, <1>2, <1>3, <2>1, <2>2 DEF RequestOK, WatchOK, IndexInv
  <2> QED
    BY <1>3, <1>4, <2>2, <2>3, <2>4, QuietStep
<1>6. CASE Finish(w)
  <2>1. TypeOK'
    BY <1>1, <1>3, <1>6, FinishStep DEF TypeOK, Live
  <2> QED
    BY <1>2, <1>3, <1>4, <1>6, <2>1, FinishStep, QuietStep
<1> QED
  BY <1>5, <1>6 DEF PurgeRead

(* logout-all removes what it read, and the whole index of its user.         *)
LEMMA PurgeExecStep ==
  ASSUME SessionsInductive, NEW w \in Workers, PurgeExec(w)
  PROVE  SessionsInductive'
<1>1. TypeOK /\ RequestOK(w) /\ WatchOK(w) /\ IndexInv
  BY DEF SessionsInductive
<1>2. req[w].pc = "purge" /\ Finish(w)
  BY DEF PurgeExec, At
<1>3. req[w].user \in Users /\ watch[w] = None /\ req[w].ids \in SUBSET Sids
  BY <1>1, <1>2 DEF RequestOK, WatchOK, TypeOK, Requests
<1>4. /\ sess' = Without(req[w].ids) /\ watch' = Broken(req[w].ids)
      /\ fading' = fading \ req[w].ids
      /\ strays' = strays \cup (index[req[w].user] \ req[w].ids)
      /\ UNCHANGED <<active, delivered, owner, home, parent, lost>>
  BY DEF PurgeExec
<1>5. index' \in [Users -> SUBSET Sids] /\ IndexInv'
  BY <1>1, <1>3, <1>4 DEF PurgeExec, TypeOK, IndexInv
<1>6. \A v \in Workers \ {w} : req'[v] = req[v]
  BY <1>2, FinishStep
<1>7. Effect({w}) /\ SessionInv' /\ SecretInv' /\ watch'[w] = None
  BY <1>3, <1>4, <1>6, Removal
<1>8. TypeOK'
  <2>1. /\ sess' \in [Sids -> Sessions \cup {None}]
        /\ watch' \in [Workers -> Sids \cup {None}]
        /\ fading' \in SUBSET {sid \in Sids : Live(sid)'}
    BY <1>3, <1>4, <1>6, Removal
  <2>2. req' \in [Workers -> Requests]
    BY <1>2, FinishStep
  <2> QED
    BY <1>1, <1>3, <1>4, <1>5, <2>1, <2>2 DEF TypeOK
<1> QED
  BY <1>2, <1>5, <1>7, <1>8, FinishStep, LoudStep

(* A listing reads sessions of its user only.                                *)
LEMMA ListReadStep ==
  ASSUME SessionsInductive, NEW w \in Workers, NEW u \in Users, ListRead(w, u)
  PROVE  SessionsInductive'
<1> DEFINE r == [Idle EXCEPT !.pc = "probe", !.user = u, !.ids = index[u]]
<1>1. TypeOK /\ WatchOK(w) /\ IndexInv
  BY DEF SessionsInductive
<1>2. index[u] \in SUBSET Sids /\ watch[w] = None
  BY <1>1 DEF ListRead, At, WatchOK, TypeOK
<1>3. r \in Requests
  BY <1>2, IdleType DEF Requests, Pcs
<1>4. r.pc = "probe" /\ r.user = u /\ r.ids = index[u]
  BY DEF Idle
<1>5. UNCHANGED <<sess, fading, index, watch, active, delivered, owner, home, parent, lost, strays>>
  BY DEF ListRead, redis, history
<1>6. /\ req' \in [Workers -> Requests] /\ req'[w] = r
      /\ \A v \in Workers \ {w} : req'[v] = req[v]
  BY <1>1, <1>3, MoveStep DEF ListRead
<1>7. TypeOK'
  BY <1>1, <1>5, <1>6 DEF TypeOK, Live
<1>8. RequestOK(w)' /\ WatchOK(w)'
  BY <1>1, <1>2, <1>4, <1>5, <1>6 DEF RequestOK, WatchOK, IndexInv
<1>9. IndexInv' /\ \A s \in delivered' : home[s] # None
  BY <1>1, <1>5, DeliveredHome, NoneAssumption DEF IndexInv
<1> QED
  BY <1>5, <1>6, <1>7, <1>8, <1>9, QuietStep

(* What a listing calls stale is not live, and stays so.                     *)
LEMMA ListProbeStep ==
  ASSUME SessionsInductive, NEW w \in Workers, ListProbe(w)
  PROVE  SessionsInductive'
<1> DEFINE stale == Stale(req[w].ids, req[w].user)
           r == [req[w] EXCEPT !.pc = "trim", !.ids = stale]
<1>1. TypeOK /\ RequestOK(w) /\ WatchOK(w) /\ IndexInv /\ SessionInv
  BY DEF SessionsInductive
<1>2. req[w].pc = "probe" /\ req[w].user \in Users /\ watch[w] = None
  BY <1>1 DEF ListProbe, At, RequestOK, WatchOK
<1>3. UNCHANGED <<sess, fading, index, watch, active, delivered, owner, home, parent, lost, strays>>
  BY DEF ListProbe, redis, history
<1>4. IndexInv' /\ \A s \in delivered' : home[s] # None
  BY <1>1, <1>3, DeliveredHome, NoneAssumption DEF IndexInv
<1>5. req[w] \in Requests /\ req[w].ids \in SUBSET Sids
  BY <1>1 DEF TypeOK, Requests
<1>6. /\ stale \in SUBSET req[w].ids
      /\ \A sid \in stale : owner[sid] = req[w].user /\ ~Live(sid)
  BY <1>1, <1>2, <1>5 DEF Stale, Owned, RequestOK, SessionInv
<1>7. CASE req' = [req EXCEPT ![w] = r]
  <2>1. r \in Requests /\ r.pc = "trim" /\ r.user = req[w].user /\ r.ids = stale
    <3> HIDE DEF stale
    <3> QED
      BY <1>5, <1>6 DEF Requests, Pcs
  <2>2. /\ req' \in [Workers -> Requests] /\ req'[w] = r
        /\ \A v \in Workers \ {w} : req'[v] = req[v]
    <3> HIDE DEF r
    <3> QED
      BY <1>1, <1>7, <2>1, MoveStep
  <2>3. TypeOK'
    BY <1>1, <1>3, <2>2 DEF TypeOK, Live
  <2>4. \A sid \in stale : ~Live(sid)' /\ owner'[sid] = req[w].user
    BY <1>3, <1>6 DEF Live
  <2>5. RequestOK(w)' /\ WatchOK(w)'
    <3> HIDE DEF r, stale
    <3> QED
      BY <1>2, <1>3, <2>1, <2>2, <2>4 DEF RequestOK, WatchOK
  <2> QED
    BY <1>3, <1>4, <2>2, <2>3, <2>5, QuietStep
<1>8. CASE Finish(w)
  <2>1. TypeOK'
    BY <1>1, <1>3, <1>8, FinishStep DEF TypeOK, Live
  <2> QED
    BY <1>2, <1>3, <1>4, <1>8, <2>1, FinishStep, QuietStep
<1> QED
  BY <1>7, <1>8 DEF ListProbe

(* A listing removes ids from the index of its user.                         *)
LEMMA ListTrimStep ==
  ASSUME SessionsInductive, NEW w \in Workers, ListTrim(w)
  PROVE  SessionsInductive'
<1>1. TypeOK /\ RequestOK(w) /\ WatchOK(w) /\ IndexInv
  BY DEF SessionsInductive
<1>2. req[w].pc = "trim" /\ Finish(w) /\ watch[w] = None
  BY <1>1 DEF ListTrim, At, WatchOK
<1>3. UNCHANGED <<sess, fading, watch, active, delivered, owner, home, parent, lost, strays>>
  BY DEF ListTrim, history
<1>4. index' \in [Users -> SUBSET Sids] /\ IndexInv'
  BY <1>1, <1>2, <1>3 DEF ListTrim, TypeOK, IndexInv, RequestOK
<1>5. TypeOK'
  BY <1>1, <1>2, <1>3, <1>4, FinishStep DEF TypeOK, Live
<1>6. \A s \in delivered' : home[s] # None
  BY <1>3, DeliveredHome, NoneAssumption
<1> QED
  BY <1>2, <1>3, <1>4, <1>5, <1>6, FinishStep, QuietStep

-----------------------------------------------------------------------------
(* The environment                                                           *)

(* A cut-off request leaves its writes and drops its WATCH.                  *)
LEMMA CutOffStep ==
  ASSUME SessionsInductive, NEW w \in Workers, CutOff(w)
  PROVE  SessionsInductive'
<1>1. TypeOK /\ RequestOK(w) /\ IndexInv
  BY DEF SessionsInductive
<1>2. Finish(w) /\ Unwatch(w)
  BY DEF CutOff
<1>3. UNCHANGED <<sess, fading, index, active, delivered, owner, home, parent>>
  BY DEF CutOff
<1>4. lost' \in SUBSET Secrets
  BY <1>1 DEF CutOff, RequestOK, TypeOK
<1>5. strays' \in SUBSET Sids
  BY <1>1 DEF CutOff, RequestOK, TypeOK, At
<1>6. TypeOK'
  BY <1>1, <1>2, <1>3, <1>4, <1>5, FinishStep, UnwatchStep DEF TypeOK, Live
<1>7. IndexInv' /\ \A s \in delivered' : home[s] # None
  BY <1>1, <1>3, DeliveredHome, NoneAssumption DEF IndexInv
<1> QED
  BY <1>1, <1>2, <1>3, <1>6, <1>7, FinishStep, UnwatchStep, QuietStep

(* An expired session is removed; its index entry stays.                     *)
LEMMA ExpireStep ==
  ASSUME SessionsInductive, NEW sid \in Sids, Expire(sid)
  PROVE  SessionsInductive'
<1>1. TypeOK /\ IndexInv
  BY DEF SessionsInductive
<1>2. /\ sess' = Without({sid}) /\ watch' = Broken({sid}) /\ fading' = fading \ {sid}
      /\ UNCHANGED <<index, active, req, delivered, owner, home, parent, lost, strays>>
  BY DEF Expire, history
<1>3. /\ Effect({}) /\ SessionInv' /\ SecretInv'
      /\ sess' \in [Sids -> Sessions \cup {None}]
      /\ watch' \in [Workers -> Sids \cup {None}]
      /\ fading' \in SUBSET {s \in Sids : Live(s)'}
  BY <1>2, Removal
<1>4. TypeOK'
  BY <1>1, <1>2, <1>3 DEF TypeOK
<1>5. IndexInv'
  BY <1>1, <1>2 DEF IndexInv
<1> QED
  BY <1>3, <1>4, <1>5, LoudStep

(* Fading and user administration touch nothing the invariant relates.       *)
LEMMA StillStep ==
  ASSUME SessionsInductive, TypeOK',
         UNCHANGED <<sess, index, req, watch, delivered, owner, home, parent>>
  PROVE  SessionsInductive'
BY DEF SessionsInductive, SessionInv, SecretInv, IndexInv, RequestOK, WatchOK, Accepted, Live

-----------------------------------------------------------------------------
(* The inductive invariant                                                   *)

(* The empty store satisfies the inductive invariant.                        *)
LEMMA InductiveInit == Init => SessionsInductive
<1> SUFFICES ASSUME Init
             PROVE  SessionsInductive
  OBVIOUS
<1>1. Idle \in Requests /\ Idle.pc = "idle" /\ Idle.ids = {}
  BY IdleType DEF Idle
<1>2. TypeOK
  BY <1>1 DEF Init, TypeOK, Live
<1>3. SessionInv /\ SecretInv /\ IndexInv
  BY DEF Init, SessionInv, SecretInv, IndexInv, Live
<1>4. \A w \in Workers : RequestOK(w) /\ WatchOK(w)
  BY <1>1 DEF Init, RequestOK, WatchOK
<1> QED
  BY <1>2, <1>3, <1>4 DEF SessionsInductive

(* Every step preserves the inductive invariant, action by action.           *)
LEMMA InductiveNext == SessionsInductive /\ [Next]_vars => SessionsInductive'
<1> SUFFICES ASSUME SessionsInductive, [Next]_vars
             PROVE  SessionsInductive'
  OBVIOUS
<1>1. TypeOK
  BY DEF SessionsInductive
<1>2. ASSUME NEW w \in Workers, Step(w)
      PROVE  SessionsInductive'
  <2>1. ASSUME NEW u \in Users, NEW sid \in Sids, NEW secret \in Secrets, LoginSet(w, u, sid, secret)
        PROVE  SessionsInductive'
    BY <2>1, LoginSetStep
  <2>2. CASE LoginIndex(w)
    BY <2>2, LoginIndexStep
  <2>3. CASE Reply(w)
    BY <2>3, ReplyStep
  <2>4. ASSUME NEW secret \in Secrets, RefreshStart(w, secret)
        PROVE  SessionsInductive'
    BY <2>4, RefreshStartStep
  <2>5. CASE RotateWatch(w)
    BY <2>5, RotateWatchStep
  <2>6. CASE RotateGet(w)
    BY <2>6, RotateGetStep
  <2>7. CASE RotateTtl(w)
    BY <2>7, RotateTtlStep
  <2>8. ASSUME NEW new \in Secrets, RotateExec(w, new)
        PROVE  SessionsInductive'
    BY <2>8, RotateExecStep
  <2>9. CASE RotateRetry(w)
    BY <2>9, RotateRetryStep
  <2>10. CASE RefreshUser(w)
    BY <2>10, RefreshUserStep
  <2>11. ASSUME NEW sid \in Sids, NEW pc \in {"delete", "lookup", "members"}, Authenticate(w, sid, pc)
        PROVE  SessionsInductive'
    BY <2>11, AuthenticateStep
  <2>12. ASSUME NEW target \in Sids, RemoveLookup(w, target)
        PROVE  SessionsInductive'
    BY <2>12, RemoveLookupStep
  <2>13. CASE DeleteExec(w)
    BY <2>13, DeleteExecStep
  <2>14. CASE PurgeRead(w)
    BY <2>14, PurgeReadStep
  <2>15. CASE PurgeExec(w)
    BY <2>15, PurgeExecStep
  <2>16. ASSUME NEW u \in Users, ListRead(w, u)
        PROVE  SessionsInductive'
    BY <2>16, ListReadStep
  <2>17. CASE ListProbe(w)
    BY <2>17, ListProbeStep
  <2>18. CASE ListTrim(w)
    BY <2>18, ListTrimStep
  <2>19. CASE CutOff(w)
    BY <2>19, CutOffStep
  <2> QED
    BY <1>2, <2>1, <2>2, <2>3, <2>4, <2>5, <2>6, <2>7, <2>8, <2>9, 
       <2>10, <2>11, <2>12, <2>13, <2>14, <2>15, <2>16, <2>17, <2>18, <2>19 DEF Step
<1>3. ASSUME NEW sid \in Sids, Fade(sid)
      PROVE  SessionsInductive'
  <2>1. TypeOK'
    BY <1>1, <1>3 DEF Fade, PositiveTtl, TypeOK, Live, history
  <2> QED
    BY <1>3, <2>1, StillStep DEF Fade, history
<1>4. ASSUME NEW sid \in Sids, Expire(sid)
      PROVE  SessionsInductive'
  BY <1>4, ExpireStep
<1>5. ASSUME NEW u \in Users, ToggleUser(u)
      PROVE  SessionsInductive'
  <2>1. TypeOK'
    BY <1>1, <1>5 DEF ToggleUser, TypeOK, Live, redis, history
  <2> QED
    BY <1>5, <2>1, StillStep DEF ToggleUser, redis, history
<1>6. CASE UNCHANGED vars
  <2>1. TypeOK'
    BY <1>1, <1>6 DEF vars, TypeOK, Live
  <2> QED
    BY <1>6, <2>1, StillStep DEF vars
<1> QED
  BY <1>2, <1>3, <1>4, <1>5, <1>6 DEF Next

(* The inductive invariant holds in every reachable state.                   *)
THEOREM SessionsInvariant == Spec => []SessionsInductive
<1> QED
  BY InductiveInit, InductiveNext, PTL DEF Spec

(* Every reachable state has the declared types.                             *)
THEOREM SessionTypes == Spec => []TypeOK
<1>1. SessionsInductive => TypeOK
  BY DEF SessionsInductive
<1> QED
  BY <1>1, SessionsInvariant, PTL

(* rotate_refresh_token: the later attempts of its loop never get past the   *)
(* comparison of hashes.                                                     *)
THEOREM RetryIsHopeless == Spec => []RetryNeverRotates
<1>1. SessionsInductive => RetryNeverRotates
  BY DEF SessionsInductive, WatchOK, RetryNeverRotates, At
<1> QED
  BY <1>1, SessionsInvariant, PTL

(* Only the EXEC of a rotation exchanges a secret.                           *)
LEMMA OnlyExecExchanges ==
  ASSUME [Next]_vars, ~\E w \in Workers, new \in Secrets : RotateExec(w, new)
  PROVE  UNCHANGED parent
<1>1. ASSUME NEW w \in Workers, Step(w)
      PROVE  UNCHANGED parent
  <2>1. CASE \/ \E u \in Users, sid \in Sids, secret \in Secrets : LoginSet(w, u, sid, secret)
             \/ LoginIndex(w)
             \/ Reply(w)
             \/ \E secret \in Secrets : RefreshStart(w, secret)
    BY <2>1 DEF LoginSet, LoginIndex, Reply, RefreshStart, history
  <2>2. CASE RotateWatch(w) \/ RotateGet(w) \/ RotateTtl(w) \/ RotateRetry(w) \/ RefreshUser(w)
    BY <2>2 DEF RotateWatch, RotateGet, RotateTtl, RotateRetry, RefreshUser, history
  <2>3. CASE \/ \E sid \in Sids, pc \in {"delete", "lookup", "members"} : Authenticate(w, sid, pc)
             \/ \E target \in Sids : RemoveLookup(w, target)
             \/ DeleteExec(w) \/ PurgeRead(w) \/ PurgeExec(w)
    BY <2>3 DEF Authenticate, RemoveLookup, DeleteExec, PurgeRead, PurgeExec, history
  <2>4. CASE \/ \E u \in Users : ListRead(w, u)
             \/ ListProbe(w) \/ ListTrim(w) \/ CutOff(w)
    BY <2>4 DEF ListRead, ListProbe, ListTrim, CutOff, history
  <2> QED
    BY <1>1, <2>1, <2>2, <2>3, <2>4 DEF Step
<1>2. CASE \/ \E sid \in Sids : Fade(sid) \/ Expire(sid)
           \/ \E u \in Users : ToggleUser(u)
           \/ UNCHANGED vars
  BY <1>2 DEF Fade, Expire, ToggleUser, vars, history
<1> QED
  BY <1>1, <1>2 DEF Next

(* A refresh token is exchanged at most once (rotate_refresh_token's WATCH). *)
THEOREM SingleUse == Spec => []RefreshSingleUse
<1>1. Init => RefreshSingleUse
  BY DEF Init, RefreshSingleUse
<1>2. SessionsInductive /\ RefreshSingleUse /\ [Next]_vars => RefreshSingleUse'
  BY OnlyExecExchanges, RotateExecStep DEF RefreshSingleUse
<1> QED
  BY <1>1, <1>2, SessionsInvariant, PTL DEF Spec

(* A step of one request changes the record of no other request.             *)
LEMMA StepIsOwn ==
  ASSUME TypeOK, NEW v \in Workers, Step(v), NEW w \in Workers, req'[w] # req[w]
  PROVE  v = w
<1> SUFFICES ASSUME v # w PROVE req'[w] = req[w]
  OBVIOUS
<1>0. req \in [Workers -> Requests]
  BY DEF TypeOK
<1>1. CASE \/ \E u \in Users, sid \in Sids, secret \in Secrets : LoginSet(v, u, sid, secret)
           \/ \E secret \in Secrets : RefreshStart(v, secret)
           \/ \E sid \in Sids, pc \in {"delete", "lookup", "members"} : Authenticate(v, sid, pc)
           \/ \E u \in Users : ListRead(v, u)
  BY <1>0, <1>1 DEF LoginSet, RefreshStart, Authenticate, ListRead
<1>2. CASE LoginIndex(v) \/ Reply(v) \/ RotateWatch(v)
  BY <1>0, <1>2 DEF LoginIndex, Reply, RotateWatch, Finish, Goto
<1>3. CASE RotateGet(v) \/ RotateTtl(v) \/ RotateRetry(v) \/ RefreshUser(v)
  BY <1>0, <1>3 DEF RotateGet, RotateTtl, RotateRetry, RefreshUser, Finish, Goto
<1>4. CASE \E new \in Secrets : RotateExec(v, new)
  BY <1>0, <1>4 DEF RotateExec
<1>5. CASE (\E target \in Sids : RemoveLookup(v, target)) \/ DeleteExec(v)
           \/ PurgeRead(v) \/ PurgeExec(v)
  BY <1>0, <1>5 DEF RemoveLookup, DeleteExec, PurgeRead, PurgeExec, Finish
<1>6. CASE ListProbe(v) \/ ListTrim(v) \/ CutOff(v)
  BY <1>0, <1>6 DEF ListProbe, ListTrim, CutOff, Finish
<1> QED
  BY <1>1, <1>2, <1>3, <1>4, <1>5, <1>6 DEF Step

(* A request deletes session keys of its own user only: the keys of the one  *)
(* session it checked, or of the ids it read in that user's index.           *)
LEMMA DeletesOwn ==
  ASSUME SessionsInductive, NEW v \in Workers, Step(v), NEW sid \in Sids, Live(sid), ~Live(sid)'
  PROVE  req[v].user = owner[sid]
<1>0. TypeOK /\ RequestOK(v)
  BY DEF SessionsInductive
<1>1. CASE DeleteExec(v)
  BY <1>0, <1>1 DEF DeleteExec, Without, Live, RequestOK, At
<1>2. CASE PurgeExec(v)
  BY <1>0, <1>2 DEF PurgeExec, Without, Live, RequestOK, At
<1>3. CASE \E u \in Users, s \in Sids, secret \in Secrets : LoginSet(v, u, s, secret)
  <2>1. PICK u \in Users, s \in Sids, secret \in Secrets : LoginSet(v, u, s, secret)
    BY <1>3
  <2>2. [user |-> u, hash |-> secret] # None
    BY NoneAssumption DEF Sessions
  <2> QED
    BY <1>0, <2>1, <2>2 DEF LoginSet, Live, TypeOK
<1>4. CASE \E new \in Secrets : RotateExec(v, new)
  <2>1. PICK new \in Secrets : RotateExec(v, new)
    BY <1>4
  <2>2. req[v].user \in Users
    BY <1>0, <2>1 DEF RotateExec, At, RequestOK
  <2>3. [user |-> req[v].user, hash |-> new] # None
    BY <2>2, NoneAssumption DEF Sessions
  <2> QED
    BY <1>0, <2>1, <2>3 DEF RotateExec, Live, TypeOK
<1>5. CASE LoginIndex(v) \/ Reply(v) \/ (\E secret \in Secrets : RefreshStart(v, secret))
           \/ RotateWatch(v) \/ RotateGet(v) \/ RotateTtl(v) \/ RotateRetry(v) \/ RefreshUser(v)
  BY <1>5 DEF LoginIndex, Reply, RefreshStart, RotateWatch, RotateGet, RotateTtl, RotateRetry,
              RefreshUser, Live, redis
<1>6. CASE (\E s \in Sids, pc \in {"delete", "lookup", "members"} : Authenticate(v, s, pc))
           \/ (\E target \in Sids : RemoveLookup(v, target)) \/ PurgeRead(v)
           \/ (\E u \in Users : ListRead(v, u)) \/ ListProbe(v) \/ ListTrim(v) \/ CutOff(v)
  BY <1>6 DEF Authenticate, RemoveLookup, PurgeRead, ListRead, ListProbe, ListTrim, CutOff,
              Live, redis
<1> QED
  BY <1>1, <1>2, <1>3, <1>4, <1>5, <1>6 DEF Step

(* Logout, removal and logout-all end no session of another user.            *)
THEOREM EndsOwn == Spec => EndsOwnSessionsOnly
<1>1. SessionsInductive /\ [Next]_vars =>
        [\A w \in Workers, sid \in Sids :
           req'[w] # req[w] /\ Live(sid) /\ ~Live(sid)' => req[w].user = owner[sid]]_vars
  <2> SUFFICES ASSUME SessionsInductive, [Next]_vars, NEW w \in Workers, NEW sid \in Sids,
                      req'[w] # req[w], Live(sid), ~Live(sid)'
               PROVE  req[w].user = owner[sid]
    OBVIOUS
  <2>1. PICK v \in Workers : Step(v)
    BY DEF Next, Fade, Expire, ToggleUser, vars
  <2>2. v = w
    BY <2>1, StepIsOwn DEF SessionsInductive
  <2> QED
    BY <2>1, <2>2, DeletesOwn
<1> QED
  BY <1>1, SessionsInvariant, PTL DEF Spec, EndsOwnSessionsOnly

-----------------------------------------------------------------------------
(* The index                                                                 *)

(* A step that creates no session: keys only go, an index loses working      *)
(* sessions only to `strays`, and a login that has not reached SADD stays    *)
(* where it is, or leaves its session in the index or among the strays.      *)
LEMMA StillListed ==
  ASSUME UnindexedOnlyByRace, strays \subseteq strays',
         \A sid \in Sids :
           Live(sid)' => /\ Live(sid) /\ owner'[sid] = owner[sid]
                         /\ sid \in index[owner[sid]] =>
                              sid \in index'[owner[sid]] \cup strays',
         \A v \in Workers :
           At(v, "sadd") => \/ req'[v] = req[v]
                           \/ req[v].sid \in index'[owner'[req[v].sid]] \cup strays'
  PROVE  UnindexedOnlyByRace'
<1> SUFFICES ASSUME NEW sid \in Sids, Live(sid)'
             PROVE  \/ sid \in index'[owner'[sid]] \cup strays'
                    \/ \E v \in Workers : At(v, "sadd")' /\ req'[v].sid = sid
  BY DEF UnindexedOnlyByRace
<1>1. CASE sid \in index[owner[sid]] \/ sid \in strays
  BY <1>1
<1>2. CASE \E v \in Workers : At(v, "sadd") /\ req[v].sid = sid
  BY <1>2 DEF At
<1> QED
  BY <1>1, <1>2 DEF UnindexedOnlyByRace

(* Logout, removal, logout-all, expiry and trimming an index: what leaves an *)
(* index does not work any more, or is a stray.                              *)
LEMMA RemovalListed ==
  ASSUME SessionsInductive, UnindexedOnlyByRace, NEW w \in Workers,
         DeleteExec(w) \/ PurgeExec(w) \/ ListTrim(w)
  PROVE  UnindexedOnlyByRace'
<1>1. TypeOK /\ RequestOK(w) /\ ~At(w, "sadd")
  BY DEF SessionsInductive, DeleteExec, PurgeExec, ListTrim, At
<1>2. UNCHANGED owner /\ \A v \in Workers \ {w} : req'[v] = req[v]
  BY <1>1 DEF DeleteExec, PurgeExec, ListTrim, Finish, TypeOK, history
<1>3. strays \subseteq strays'
  BY DEF DeleteExec, PurgeExec, ListTrim, history
<1>4. ASSUME NEW sid \in Sids, Live(sid)'
      PROVE  Live(sid) /\ (sid \in index[owner[sid]] => sid \in index'[owner[sid]] \cup strays')
  <2>1. CASE DeleteExec(w)
    <3>1. req[w].user \in Users /\ req[w].sid \in Sids
      BY <1>1, <2>1 DEF DeleteExec, At, RequestOK
    <3> QED
      BY <1>1, <1>4, <2>1, <3>1 DEF DeleteExec, Without, Live, TypeOK
  <2>2. CASE PurgeExec(w)
    <3>1. req[w].user \in Users
      BY <1>1, <2>2 DEF PurgeExec, At, RequestOK
    <3>2. sid \notin req[w].ids
      BY <1>4, <2>2 DEF PurgeExec, Without, Live
    <3> QED
      BY <1>1, <1>4, <2>2, <3>1, <3>2 DEF PurgeExec, Without, Live, TypeOK
  <2>3. CASE ListTrim(w)
    <3>1. req[w].user \in Users /\ \A id \in req[w].ids : ~Live(id)
      BY <1>1, <2>3 DEF ListTrim, At, RequestOK
    <3> QED
      BY <1>1, <1>4, <2>3, <3>1 DEF ListTrim, Live, TypeOK
  <2> QED
    BY <2>1, <2>2, <2>3
<1> QED
  BY <1>1, <1>2, <1>3, <1>4, StillListed

(* Every step keeps what is said of sessions that no index has.              *)
LEMMA ListedStep ==
  ASSUME SessionsInductive, UnindexedOnlyByRace, [Next]_vars
  PROVE  UnindexedOnlyByRace'
<1>1. TypeOK
  BY DEF SessionsInductive
<1>2. ASSUME NEW w \in Workers, Step(w)
      PROVE  UnindexedOnlyByRace'
  <2>1. \A v \in Workers \ {w} : req'[v] = req[v]
    BY <1>1, <1>2, StepIsOwn
  <2>2. ASSUME NEW u \in Users, NEW sid \in Sids, NEW secret \in Secrets,
               LoginSet(w, u, sid, secret)
        PROVE  UnindexedOnlyByRace'
    <3>1. At(w, "sadd")' /\ req'[w].sid = sid /\ ~At(w, "sadd")
      BY <1>1, <2>2 DEF LoginSet, At, Idle, TypeOK
    <3>2. UNCHANGED <<index, strays>>
      BY <2>2 DEF LoginSet
    <3>3. \A other \in Sids \ {sid} : owner'[other] = owner[other] /\ sess'[other] = sess[other]
      BY <1>1, <2>2 DEF LoginSet, TypeOK
    <3> SUFFICES ASSUME NEW other \in Sids \ {sid}, Live(other)'
                 PROVE  \/ other \in index'[owner'[other]] \/ other \in strays'
                        \/ \E v \in Workers : At(v, "sadd")' /\ req'[v].sid = other
      BY <3>1 DEF UnindexedOnlyByRace
    <3>4. CASE other \in index[owner[other]] \/ other \in strays
      BY <3>2, <3>3, <3>4
    <3>5. CASE \E v \in Workers : At(v, "sadd") /\ req[v].sid = other
      BY <2>1, <3>1, <3>5 DEF At
    <3> QED
      BY <3>3, <3>4, <3>5 DEF UnindexedOnlyByRace, Live
  <2>3. CASE LoginIndex(w)
    <3>1. req[w].sid \in Sids /\ req[w].user \in Users /\ owner[req[w].sid] = req[w].user
      BY <2>3 DEF LoginIndex, At, SessionsInductive, RequestOK
    <3>2. /\ UNCHANGED <<sess, owner, strays>> /\ \A u \in Users : index[u] \subseteq index'[u]
          /\ req[w].sid \in index'[req[w].user]
      BY <1>1, <2>3, <3>1 DEF LoginIndex, history, TypeOK
    <3>3. \A sid \in Sids : Live(sid) => owner[sid] \in Users
      BY <1>1, NoneAssumption DEF SessionsInductive, SessionInv, TypeOK, Sessions, Live
    <3> QED
      BY <2>1, <3>1, <3>2, <3>3, StillListed DEF Live
  <2>4. CASE \/ Reply(w)
             \/ \E secret \in Secrets : RefreshStart(w, secret)
             \/ RotateWatch(w) \/ RotateGet(w) \/ RotateTtl(w) \/ RotateRetry(w) \/ RefreshUser(w)
    <3>1. ~At(w, "sadd") /\ UNCHANGED <<sess, index, owner, strays>>
      BY <2>4 DEF Reply, RefreshStart, RotateWatch, RotateGet, RotateTtl, RotateRetry, RefreshUser,
                  At, redis, history
    <3> QED
      BY <2>1, <3>1, StillListed DEF Live
  <2>5. CASE \/ \E sid \in Sids, pc \in {"delete", "lookup", "members"} : Authenticate(w, sid, pc)
             \/ \E target \in Sids : RemoveLookup(w, target)
             \/ PurgeRead(w)
             \/ \E u \in Users : ListRead(w, u)
             \/ ListProbe(w)
    <3>1. ~At(w, "sadd") /\ UNCHANGED <<sess, index, owner, strays>>
      BY <2>5 DEF Authenticate, RemoveLookup, PurgeRead, ListRead, ListProbe, At, redis, history
    <3> QED
      BY <2>1, <3>1, StillListed DEF Live
  <2>6. ASSUME NEW new \in Secrets, RotateExec(w, new)
        PROVE  UnindexedOnlyByRace'
    <3>1. ~At(w, "sadd") /\ UNCHANGED <<index, owner, strays>>
      BY <2>6 DEF RotateExec, At
    <3>2. Live(req[w].sid) /\ req[w].sid \in Sids
      BY <1>1, <2>6, NoneAssumption DEF RotateExec, At, WatchHolds, SessionsInductive, RequestOK, WatchOK, Accepted
    <3>3. \A sid \in Sids : Live(sid)' => Live(sid)
      BY <1>1, <2>6, <3>2 DEF RotateExec, Live, TypeOK
    <3> QED
      BY <2>1, <3>1, <3>3, StillListed
  <2>7. CASE DeleteExec(w) \/ PurgeExec(w) \/ ListTrim(w)
    BY <2>7, RemovalListed
  <2>8. CASE CutOff(w)
    <3>1. UNCHANGED <<sess, index, owner>> /\ strays \subseteq strays'
          /\ (At(w, "sadd") => req[w].sid \in strays')
      BY <2>8 DEF CutOff
    <3> QED
      BY <2>1, <3>1, StillListed DEF Live
  <2> QED
    BY <1>2, <2>2, <2>3, <2>4, <2>5, <2>6, <2>7, <2>8 DEF Step
<1>3. CASE \/ \E sid \in Sids : Fade(sid) \/ Expire(sid)
           \/ \E u \in Users : ToggleUser(u)
           \/ UNCHANGED vars
  <2>1. UNCHANGED <<index, req, owner, strays>>
    BY <1>3 DEF Fade, Expire, ToggleUser, vars, redis, history
  <2>2. \A sid \in Sids : Live(sid)' => Live(sid)
    BY <1>3 DEF Fade, Expire, ToggleUser, Without, Live, vars, redis
  <2> QED
    BY <2>1, <2>2, StillListed
<1> QED
  BY <1>2, <1>3 DEF Next

(* A session that works is in the index of its user, or has a race or a      *)
(* request cut off between SET and SADD behind it (create_session,           *)
(* delete_all_user_sessions).                                                *)
THEOREM ListedUnlessRaced == Spec => []UnindexedOnlyByRace
<1>1. Init => UnindexedOnlyByRace
  BY DEF Init, UnindexedOnlyByRace, Live
<1> QED
  BY <1>1, SessionsInvariant, ListedStep, PTL DEF Spec

-----------------------------------------------------------------------------
(* Secrets and clients                                                       *)

(* A secret that was stored is on its way to the client. *)
Carries(v, secret) == req[v].pc \in {"sadd", "reply", "user"} /\ req[v].secret = secret

(* A step that stores no secret: every secret on its way stays there or      *)
(* arrives or is lost.                                                       *)
LEMMA StillAccounted ==
  ASSUME CurrentSecretAccounted, delivered \cup lost \subseteq delivered' \cup lost',
         \A sid \in Sids : Live(sid)' => Live(sid) /\ sess'[sid].hash = sess[sid].hash,
         \A v \in Workers :
           req[v].pc \in {"sadd", "reply", "user"} =>
             \/ req'[v].pc \in {"sadd", "reply", "user"} /\ req'[v].secret = req[v].secret
             \/ req[v].secret \in delivered' \cup lost'
  PROVE  CurrentSecretAccounted'
<1> SUFFICES ASSUME NEW sid \in Sids, Live(sid)'
             PROVE  (\/ sess[sid].hash \in delivered \cup lost
                     \/ \E v \in Workers : Carries(v, sess[sid].hash))'
  BY DEF CurrentSecretAccounted, Carries
<1>1. CASE sess[sid].hash \in delivered \cup lost
  BY <1>1
<1>2. CASE \E v \in Workers : Carries(v, sess[sid].hash)
  <2>1. PICK v \in Workers : Carries(v, sess[sid].hash)
    BY <1>2
  <2> QED
    BY <2>1 DEF Carries
<1> QED
  BY <1>1, <1>2 DEF CurrentSecretAccounted, Carries

(* A step that stores a secret: its request carries it, and every other      *)
(* session keeps what it accepts.                                            *)
LEMMA StoredAccounted ==
  ASSUME CurrentSecretAccounted, NEW w \in Workers, NEW sid \in Sids, NEW secret \in Secrets,
         req[w].pc \notin {"sadd", "reply", "user"},
         \A v \in Workers \ {w} : req'[v] = req[v],
         \A other \in Sids \ {sid} : sess'[other] = sess[other],
         sess'[sid].hash = secret, Carries(w, secret)',
         UNCHANGED <<delivered, lost>>
  PROVE  CurrentSecretAccounted'
<1> SUFFICES ASSUME NEW other \in Sids \ {sid}, Live(other)'
             PROVE  (\/ sess[other].hash \in delivered \cup lost
                     \/ \E v \in Workers : Carries(v, sess[other].hash))'
  BY DEF CurrentSecretAccounted, Carries
<1>1. Live(other) /\ sess'[other].hash = sess[other].hash
  BY DEF Live
<1>2. CASE \E v \in Workers : Carries(v, sess[other].hash)
  <2>1. PICK v \in Workers : Carries(v, sess[other].hash)
    BY <1>2
  <2>2. v # w
    BY <2>1 DEF Carries
  <2> QED
    BY <1>1, <2>1, <2>2 DEF Carries
<1> QED
  BY <1>1, <1>2 DEF CurrentSecretAccounted, Carries

(* Every step keeps what is said of the secrets that sessions accept.        *)
LEMMA AccountedStep ==
  ASSUME SessionsInductive, CurrentSecretAccounted, [Next]_vars
  PROVE  CurrentSecretAccounted'
<1>1. TypeOK
  BY DEF SessionsInductive
<1>2. ASSUME NEW w \in Workers, Step(w)
      PROVE  CurrentSecretAccounted'
  <2>1. \A v \in Workers \ {w} : req'[v] = req[v]
    BY <1>1, <1>2, StepIsOwn
  <2>2. ASSUME NEW u \in Users, NEW sid \in Sids, NEW secret \in Secrets,
               LoginSet(w, u, sid, secret)
        PROVE  CurrentSecretAccounted'
    <3>1. Carries(w, secret)' /\ req[w].pc \notin {"sadd", "reply", "user"}
      BY <1>1, <2>2 DEF LoginSet, At, Idle, TypeOK, Carries
    <3>2. /\ sess'[sid].hash = secret /\ UNCHANGED <<delivered, lost>>
          /\ \A other \in Sids \ {sid} : sess'[other] = sess[other]
      BY <1>1, <2>2 DEF LoginSet, TypeOK
    <3> QED
      BY <2>1, <3>1, <3>2, StoredAccounted
  <2>3. ASSUME NEW new \in Secrets, RotateExec(w, new)
        PROVE  CurrentSecretAccounted'
    <3>1. req[w].pc = "exec" /\ req[w].sid \in Sids /\ req[w] \in Requests
      BY <1>1, <2>3 DEF RotateExec, At, SessionsInductive, RequestOK, TypeOK
    <3>2. Carries(w, new)'
      BY <1>1, <2>3, <3>1 DEF RotateExec, Requests, TypeOK, Carries
    <3>3. /\ sess'[req[w].sid].hash = new /\ UNCHANGED <<delivered, lost>>
          /\ \A other \in Sids \ {req[w].sid} : sess'[other] = sess[other]
      BY <1>1, <2>3, <3>1 DEF RotateExec, TypeOK
    <3> QED
      BY <2>1, <3>1, <3>2, <3>3, StoredAccounted
  <2>4. CASE LoginIndex(w)
    <3>1. req'[w].pc = "reply" /\ req'[w].secret = req[w].secret /\ UNCHANGED <<sess, delivered, lost>>
      BY <1>1, <2>4 DEF LoginIndex, Goto, Requests, TypeOK, history
    <3> QED
      BY <2>1, <3>1, StillAccounted DEF Live, Carries
  <2>5. CASE Reply(w) \/ RefreshUser(w) \/ CutOff(w)
    <3>1. /\ UNCHANGED sess /\ delivered \cup lost \subseteq delivered' \cup lost'
          /\ req[w].pc \in {"sadd", "reply", "user"} => req[w].secret \in delivered' \cup lost'
      BY <2>5 DEF Reply, RefreshUser, CutOff, At, redis, history
    <3> QED
      BY <2>1, <3>1, StillAccounted DEF Live, Carries
  <2>6. CASE \/ \E secret \in Secrets : RefreshStart(w, secret)
             \/ RotateWatch(w) \/ RotateGet(w) \/ RotateTtl(w) \/ RotateRetry(w)
    <3>1. req[w].pc \notin {"sadd", "reply", "user"} /\ UNCHANGED <<sess, delivered, lost>>
      BY <2>6 DEF RefreshStart, RotateWatch, RotateGet, RotateTtl, RotateRetry, At, redis, history
    <3> QED
      BY <2>1, <3>1, StillAccounted DEF Live, Carries
  <2>7. CASE \/ \E sid \in Sids, pc \in {"delete", "lookup", "members"} : Authenticate(w, sid, pc)
             \/ \E target \in Sids : RemoveLookup(w, target)
             \/ PurgeRead(w)
             \/ \E u \in Users : ListRead(w, u)
             \/ ListProbe(w) \/ ListTrim(w)
    <3>1. req[w].pc \notin {"sadd", "reply", "user"} /\ UNCHANGED <<sess, delivered, lost>>
      BY <2>7 DEF Authenticate, RemoveLookup, PurgeRead, ListRead, ListProbe, ListTrim, At,
                  redis, history
    <3> QED
      BY <2>1, <3>1, StillAccounted DEF Live, Carries
  <2>8. CASE DeleteExec(w) \/ PurgeExec(w)
    <3>1. /\ req[w].pc \notin {"sadd", "reply", "user"} /\ UNCHANGED <<delivered, lost>>
          /\ \A sid \in Sids : Live(sid)' => Live(sid) /\ sess'[sid].hash = sess[sid].hash
      BY <2>8 DEF DeleteExec, PurgeExec, Without, Live, At, history
    <3> QED
      BY <2>1, <3>1, StillAccounted DEF Carries
  <2> QED
    BY <1>2, <2>2, <2>3, <2>4, <2>5, <2>6, <2>7, <2>8 DEF Step
<1>3. CASE \/ \E sid \in Sids : Fade(sid) \/ Expire(sid)
           \/ \E u \in Users : ToggleUser(u)
           \/ UNCHANGED vars
  <2>1. UNCHANGED <<req, delivered, lost>>
    BY <1>3 DEF Fade, Expire, ToggleUser, vars, redis, history
  <2>2. \A sid \in Sids : Live(sid)' => Live(sid) /\ sess'[sid].hash = sess[sid].hash
    BY <1>3 DEF Fade, Expire, ToggleUser, Without, Live, vars, redis
  <2> QED
    BY <2>1, <2>2, StillAccounted DEF Carries
<1> QED
  BY <1>2, <1>3 DEF Next

(* A client loses its session only to a reply that was cut off or refused    *)
(* after the secret was stored (create_session, rotate_refresh_token and     *)
(* their handlers).                                                          *)
THEOREM NoSilentLockout == Spec => []CurrentSecretAccounted
<1>1. Init => CurrentSecretAccounted
  BY DEF Init, CurrentSecretAccounted, Live
<1> QED
  BY <1>1, SessionsInvariant, AccountedStep, PTL DEF Spec

-----------------------------------------------------------------------------
(* The contract                                                              *)

(* A login opens a session in the contract's sense.                          *)
LEMMA LoginOpens ==
  ASSUME SessionsInductive, NEW w \in Workers, NEW u \in Users, NEW sid \in Sids,
         NEW secret \in Secrets, LoginSet(w, u, sid, secret)
  PROVE  Contract!Open(sid, secret)
<1> DEFINE s == [user |-> u, hash |-> secret]
<1>1. TypeOK /\ owner[sid] = None /\ home[secret] = None
  BY DEF SessionsInductive, LoginSet, Fresh
<1>2. s \in Sessions /\ s # None /\ u # None /\ sid # None
  BY NoneAssumption DEF Sessions
<1>3. /\ sess'[sid] = s /\ owner'[sid] = u /\ home'[secret] = sid
      /\ \A other \in Sids \ {sid} : sess'[other] = sess[other] /\ owner'[other] = owner[other]
      /\ \A other \in Secrets \ {secret} : home'[other] = home[other]
      /\ UNCHANGED parent
  BY <1>1 DEF LoginSet, TypeOK
<1>4. \A other \in Sids \ {sid} : Live(other)' <=> Live(other)
  BY <1>3 DEF Live
<1>5. Live(sid)' /\ sess'[sid].hash = secret
  BY <1>2, <1>3 DEF Live
<1> QED
  BY <1>1, <1>2, <1>3, <1>4, <1>5 DEF Contract!Open

(* An EXEC of a rotation exchanges the current secret: the WATCH is unbroken, *)
(* so the secret that was presented is the one the session accepts.          *)
LEMMA ExecExchanges ==
  ASSUME SessionsInductive, NEW w \in Workers, NEW new \in Secrets, RotateExec(w, new)
  PROVE  \E sid \in Sids : Contract!Exchange(sid, new)
<1>1. TypeOK /\ RequestOK(w) /\ WatchOK(w)
  BY DEF SessionsInductive
<1>2. req[w].pc = "exec" /\ watch[w] = req[w].sid /\ home[new] = None
  BY DEF RotateExec, At, WatchHolds
<1>3. PICK sid \in Sids, old \in Secrets, u \in Users :
        sid = req[w].sid /\ old = req[w].secret /\ u = req[w].user
  BY <1>1, <1>2 DEF RequestOK
<1>4. Live(sid) /\ sess[sid].hash = old /\ sid # None /\ old # None
  BY <1>1, <1>2, <1>3, NoneAssumption DEF WatchOK, Accepted
<1>5. [user |-> u, hash |-> new] # None
  BY NoneAssumption DEF Sessions
<1>6. /\ sess'[sid] = [user |-> u, hash |-> new] /\ home'[new] = sid /\ parent'[new] = old
      /\ \A other \in Sids \ {sid} : sess'[other] = sess[other]
      /\ \A other \in Secrets \ {new} : home'[other] = home[other] /\ parent'[other] = parent[other]
      /\ UNCHANGED owner
  BY <1>1, <1>3 DEF RotateExec, TypeOK
<1>7. parent[new] = None
  BY <1>1, <1>2 DEF SessionsInductive, SecretInv, TypeOK
<1>8. \A other \in Sids \ {sid} : Live(other)' <=> Live(other)
  BY <1>6 DEF Live
<1>9. Live(sid)' /\ sess'[sid].hash = new
  BY <1>5, <1>6 DEF Live
<1>10. \A secret \in Secrets :
         (\E n \in Secrets : parent'[n] = secret) <=>
           secret = old \/ \E n \in Secrets : parent[n] = secret
  BY <1>6, <1>7, NoneAssumption
<1>11. Contract!Exchange(sid, new)
  <2> DEFINE current == [id \in Sids |-> IF Live(id) THEN sess[id].hash ELSE None]
             issued == {secret \in Secrets : home[secret] # None}
             spent == {secret \in Secrets : \E n \in Secrets : parent[n] = secret}
  <2>1. current[sid] = old /\ current' = [current EXCEPT ![sid] = new]
    BY <1>4, <1>6, <1>8, <1>9
  <2>2. new \notin issued /\ issued' = issued \cup {new}
    BY <1>2, <1>4, <1>6
  <2>3. spent' = spent \cup {old}
    BY <1>10
  <2>4. UNCHANGED {id \in Sids : owner[id] # None}
    BY <1>6
  <2> QED
    BY <1>4, <2>1, <2>2, <2>3, <2>4 DEF Contract!Exchange
<1> QED
  BY <1>11

(* Whatever deletes keys closes sessions.                                    *)
LEMMA RemovalCloses ==
  ASSUME TypeOK, NEW sids \in SUBSET Sids, sess' = Without(sids), UNCHANGED <<owner, home, parent>>
  PROVE  Contract!Next
<1>1. \A sid \in Sids : /\ sid \in sids => ~Live(sid)'
                        /\ sid \notin sids => sess'[sid] = sess[sid] /\ (Live(sid)' <=> Live(sid))
  BY DEF Without, Live
<1>2. Contract!Close(sids)
  BY <1>1 DEF Contract!Close
<1> QED
  BY <1>2 DEF Contract!Next

(* A step that leaves session keys and the history of secrets is invisible.  *)
LEMMA QuietStutters ==
  ASSUME UNCHANGED <<sess, owner, home, parent>>
  PROVE  UNCHANGED Contract!vars
BY DEF Contract!vars, Live

(* Every step of the commands is a step of the contract or a stutter.        *)
LEMMA StepRefines ==
  ASSUME SessionsInductive, [Next]_vars
  PROVE  [Contract!Next]_Contract!vars
<1>1. TypeOK
  BY DEF SessionsInductive
<1>2. ASSUME NEW w \in Workers, Step(w)
      PROVE  [Contract!Next]_Contract!vars
  <2>1. CASE \E u \in Users, sid \in Sids, secret \in Secrets : LoginSet(w, u, sid, secret)
    BY <2>1, LoginOpens DEF Contract!Next
  <2>2. ASSUME NEW new \in Secrets, RotateExec(w, new)
        PROVE  Contract!Next
    BY <2>2, ExecExchanges DEF Contract!Next
  <2>3. CASE DeleteExec(w) \/ PurgeExec(w)
    <3>1. \E sids \in SUBSET Sids : sess' = Without(sids)
      BY <1>1, <2>3 DEF DeleteExec, PurgeExec, At, SessionsInductive, RequestOK, TypeOK, Requests
    <3>2. UNCHANGED <<owner, home, parent>>
      BY <2>3 DEF DeleteExec, PurgeExec, history
    <3> QED
      BY <1>1, <3>1, <3>2, RemovalCloses
  <2>4. CASE \/ LoginIndex(w) \/ Reply(w)
             \/ \E secret \in Secrets : RefreshStart(w, secret)
             \/ RotateWatch(w) \/ RotateGet(w) \/ RotateTtl(w) \/ RotateRetry(w) \/ RefreshUser(w)
    BY <2>4, QuietStutters DEF LoginIndex, Reply, RefreshStart, RotateWatch, RotateGet, RotateTtl,
                               RotateRetry, RefreshUser, redis, history
  <2>5. CASE \/ \E sid \in Sids, pc \in {"delete", "lookup", "members"} : Authenticate(w, sid, pc)
             \/ \E target \in Sids : RemoveLookup(w, target)
             \/ PurgeRead(w)
             \/ \E u \in Users : ListRead(w, u)
             \/ ListProbe(w) \/ ListTrim(w) \/ CutOff(w)
    BY <2>5, QuietStutters DEF Authenticate, RemoveLookup, PurgeRead, ListRead, ListProbe, ListTrim,
                               CutOff, redis, history
  <2> QED
    BY <1>2, <2>1, <2>2, <2>3, <2>4, <2>5 DEF Step
<1>3. ASSUME NEW sid \in Sids, Expire(sid)
      PROVE  Contract!Next
  BY <1>1, <1>3, RemovalCloses DEF Expire, history
<1>4. CASE \/ \E sid \in Sids : Fade(sid)
           \/ \E u \in Users : ToggleUser(u)
           \/ UNCHANGED vars
  BY <1>4, QuietStutters DEF Fade, ToggleUser, vars, redis, history
<1> QED
  BY <1>2, <1>3, <1>4 DEF Next

(* AuthSessions implements SessionContract: interleaved and cut off as they  *)
(* are, the Redis commands open a session once, exchange its current secret  *)
(* only, and never bring a closed one back.                                  *)
THEOREM KeepsContract == Spec => ImplementsContract
<1>1. Init => Contract!Init
  BY NoneAssumption DEF Init, Contract!Init, Live
<1> QED
  BY <1>1, SessionsInvariant, StepRefines, PTL DEF Spec, ImplementsContract, Contract!Spec
=============================================================================
