------------------------- MODULE LiveSettingsProofs --------------------------
(***************************************************************************)
(* Proofs about LiveSettings, with Egress and Migrations, for any number   *)
(* of administrators and of outbound requests, any forms, environments,    *)
(* providers and releases.                                                 *)
(*                                                                         *)
(* A save reads, commits, reads again and sets the snapshot, and others    *)
(* come between.  The inductive invariant says that what it carries from   *)
(* one of these steps to the next is as valid as what is stored: one       *)
(* configuration, which the validation accepts in the environment of the   *)
(* process.  Of the row lock it says that one save at a time of a kind is  *)
(* between read and commit, and that the row is what it read: the columns  *)
(* it leaves alone are those it validated.  About the start it says how    *)
(* far each phase has come, and about the migrations that schema and stamp *)
(* go up together.                                                         *)
(***************************************************************************)
EXTENDS LiveSettings, TLAPS
LOCAL INSTANCE FiniteSetsExt

Phases == {"down", "inspect", "upgrade", "proxy", "oidc", "up"}

(* What the validation accepts where the environment has these secrets.    *)
ValidWith(secrets, kind, c) ==
    IF kind = "proxy" THEN c.mode \in ProxyModes /\ ExplicitHasUrl(c)
    ELSE validate_config(c, secrets)

HasFields(kind, S) == \A c \in S : Fields(kind) \subseteq DOMAIN c

(* There is one configuration, and it is valid.                            *)
Settled(secrets, kind, S) ==
    /\ S # {}
    /\ \A c, d \in S : c = d
    /\ \A c \in S : ValidWith(secrets, kind, c)
    /\ HasFields(kind, S)

SchemaOK ==
    /\ db \in Databases /\ head \in Releases
    /\ phase = "upgrade" => \E x \in 0..head : work = Database(x, x)
    /\ phase \in {"proxy", "oidc", "up"} => db = Database(head, head)

StoredOK ==
    /\ env \in Envs
    /\ HasFields("oidc", row.oidc)
    /\ row \in [Kinds -> {row.proxy, row.oidc}]
    /\ phase # "down" => ValidWith(env.secrets, "proxy", env.proxy)
    /\ row.proxy # {} => Settled(env.secrets, "proxy", row.proxy)
    /\ phase \in {"oidc", "up"} => row.proxy # {} /\ config.mode \in ProxyModes
    /\ phase = "up" => /\ Settled(env.secrets, "oidc", row.oidc)
                       /\ Settled(env.secrets, "oidc", sso)

RegistryOK ==
    /\ \A c, d \in sso : c = d
    /\ ~registry.done => \A p \in Providers : registry.have[p] = ""
    /\ RegistryCurrent

IsTask(s) ==
    s \in [pc : {s.pc}, kind : {s.kind}, form : {s.form}, seen : {s.seen}, cand : {s.cand}]

TaskOK(s, up, secrets) ==
    /\ IsTask(s)
    /\ s.kind \in Kinds
    /\ s.pc # "idle" => up
    /\ s.pc = "commit" => Settled(secrets, s.kind, s.cand)
    /\ s.pc = "set" => Settled(secrets, s.kind, s.seen)

(* The row lock.                                                           *)
LockOK ==
    \A t \in Tasks : task[t].pc = "commit" =>
        /\ task[t].seen = row[task[t].kind]
        /\ \A u \in Tasks \ {t} : ~(task[u].pc = "commit" /\ task[u].kind = task[t].kind)

TasksOK == /\ task = [t \in Tasks |-> task[t]]
           /\ \A t \in Tasks : TaskOK(task[t], phase = "up", env.secrets)
           /\ LockOK

(* A route is direct, or its transport has not been closed.                *)
Kept(route, p) ==
    route # Direct => \/ route = p.proxied
                      \/ \E i \in DOMAIN p.retired : p.retired[i] = route

(* A record with the fields of a request, whatever they hold.              *)
IsRequest(q) ==
    q \in [pc : {q.pc}, target : {q.target}, method : {q.method}, attempt : {q.attempt},
           slept : {q.slept}, cfg : {q.cfg}, via : {q.via}]

RequestOK(q, p) ==
    /\ IsRequest(q)
    /\ q.pc = "wire" => /\ q.cfg # NotLoaded
                        /\ q.via = resolve_proxy_url(q.cfg, q.target)
                        /\ Kept(q.via, p)
    /\ q.attempt \in 0..MaxRetries /\ q.slept \in Int
    /\ q.slept <= q.attempt * MaxSleep
    /\ ~RetryableMethod(q.method) => q.attempt = 0

PoolOK == /\ pool = [proxied |-> pool.proxied, retired |-> pool.retired]
          /\ pool.retired \in Seq({pool.retired[i] : i \in DOMAIN pool.retired})

EgressOK == /\ PoolOK
            /\ req = [r \in Requests |-> req[r]]
            /\ \A r \in Requests : RequestOK(req[r], pool)

IInv == phase \in Phases /\ SchemaOK /\ StoredOK /\ RegistryOK /\ TasksOK /\ EgressOK

-----------------------------------------------------------------------------
(* The schema.                                                             *)

(* What a database that is not refused is adopted as: schema and stamp are *)
(* the same.                                                               *)
LEMMA AdoptedOK ==
    ASSUME NEW d \in Databases, head \in Releases, ~Refused(d), d.stamp <= head
    PROVE  \E x \in 0..head : Adopted(d) = Database(x, x)
<1>0. Releases \subseteq Nat \ {0, 1} /\ head \in Nat
  BY ReleasesAssumption
<1>1. ASSUME NEW x, NEW y PROVE Database(x, y).tables = x /\ Database(x, y).stamp = y
  BY DEF Database
<1>2. CASE d = Database(0, 0)
  <2>1. Adopted(d) = d
    BY <1>1, <1>2 DEF Adopted, _schema_matches_head, _is_falsely_stamped_baseline
  <2> QED BY <1>0, <1>2, <2>1
<1>3. CASE \E s \in {0, 1} \cup Releases : d = Database(1, s)
  <2>1. PICK s \in {0, 1} \cup Releases : d = Database(1, s)
    BY <1>3
  <2>2. d.tables = 1 /\ d.stamp = s /\ s \in Nat /\ head > 1
    BY <1>0, <1>1, <2>1
  <2>3. Adopted(d) = [d EXCEPT !.stamp = 1] \/ (Adopted(d) = d /\ s = 1)
    BY <1>0, <2>1, <2>2 DEF Adopted, _schema_matches_head, _is_falsely_stamped_baseline
  <2>4. [d EXCEPT !.stamp = 1] = Database(1, 1)
    BY <2>1 DEF Database
  <2> QED BY <1>0, <2>1, <2>2, <2>3, <2>4
<1>4. CASE \E s \in Releases : d = Database(0, s)
  <2>1. PICK s \in Releases : d = Database(0, s)
    BY <1>4
  <2>2. d.tables = 0 /\ d.stamp = s /\ s > 1 /\ s \in Nat
    BY <1>0, <1>1, <2>1
  <2>3. Adopted(d) = [d EXCEPT !.stamp = 0]
    BY <2>2 DEF Adopted, _schema_matches_head, _is_falsely_stamped_baseline
  <2>4. [d EXCEPT !.stamp = 0] = Database(0, 0)
    BY <2>1 DEF Database
  <2> QED BY <1>0, <2>3, <2>4
<1>5. CASE \E s \in Releases : d = Database(s, 0)
  <2>1. PICK s \in Releases : d = Database(s, 0)
    BY <1>5
  <2>2. d.tables = s /\ d.stamp = 0 /\ s > 1 /\ s \in Nat
    BY <1>0, <1>1, <2>1
  <2>3. s = head
    BY <1>0, <2>1, <2>2 DEF Refused, _schema_matches_head, _has_post_baseline_schema
  <2>4. Adopted(d) = [d EXCEPT !.stamp = head]
    BY <1>0, <2>2, <2>3 DEF Adopted, _schema_matches_head, _is_falsely_stamped_baseline
  <2>5. [d EXCEPT !.stamp = head] = Database(head, head)
    BY <2>1, <2>3 DEF Database
  <2> QED BY <1>0, <2>4, <2>5
<1>6. CASE \E s \in Releases : d = Database(s, s)
  <2>1. PICK s \in Releases : d = Database(s, s)
    BY <1>6
  <2>2. d.tables = s /\ d.stamp = s /\ s > 1 /\ s \in Nat
    BY <1>0, <1>1, <2>1
  <2>3. Adopted(d) = d
    BY <1>0, <2>2 DEF Adopted, _schema_matches_head, _is_falsely_stamped_baseline
  <2> QED BY <1>0, <2>1, <2>2, <2>3
<1> QED BY <1>2, <1>3, <1>4, <1>5, <1>6 DEF Databases

(* Every step of the start brings the schema as far as its phase says.     *)
LEMMA SchemaStep == ASSUME IInv, init_db PROVE phase' \in Phases /\ SchemaOK'
<1>0. /\ Releases \subseteq Nat \ {0, 1} /\ head \in Releases /\ db \in Databases
      /\ phase = "upgrade" => \E x \in 0..head : work = Database(x, x)
  BY ReleasesAssumption DEF IInv, SchemaOK
<1>1. CASE Advance("inspect", "upgrade") /\ Inspect
  <2>1. \E x \in 0..head : work' = Database(x, x)
    <3>1. db.stamp \in Nat
      BY <1>0 DEF Databases, Database
    <3> QED BY <1>0, <1>1, <3>1, AdoptedOK DEF Inspect, CannotStart
  <2> QED BY <1>0, <1>1, <2>1 DEF Advance, Inspect, SchemaOK, Phases
<1>2. CASE Advance("upgrade", "upgrade") /\ Upgrade
  <2>1. PICK x \in 0..head : work = Database(x, x)
    BY <1>0, <1>2 DEF Advance
  <2>2. work.stamp = x /\ work.tables = x /\ x < head /\ head \in Nat
    BY <1>0, <1>2, <2>1 DEF Upgrade, Database
  <2>3. work' = Database(x + 1, x + 1) /\ x + 1 \in 0..head
    BY <1>2, <2>2 DEF Upgrade, Migrated
  <2> QED BY <1>0, <1>2, <2>3 DEF Advance, Upgrade, SchemaOK, Phases
<1>3. CASE Advance("upgrade", "proxy") /\ CommitSchema
  <2>1. PICK x \in 0..head : work = Database(x, x)
    BY <1>0, <1>3 DEF Advance
  <2>2. db' = Database(head, head)
    BY <1>3, <2>1 DEF CommitSchema, Database
  <2>3. Database(head, head) \in Databases
    BY <1>0 DEF Databases
  <2> QED BY <1>0, <1>3, <2>2, <2>3 DEF Advance, CommitSchema, SchemaOK, Phases
<1>4. CASE Advance("inspect", "down") /\ CannotStart /\ UNCHANGED mvars
  BY <1>0, <1>4 DEF Advance, mvars, SchemaOK, Phases
<1> QED BY <1>1, <1>2, <1>3, <1>4 DEF init_db

-----------------------------------------------------------------------------
(* Outbound requests.                                                      *)

LEMMA RouteIs == ASSUME config.mode \in ProxyModes, NEW t
                 PROVE  config # NotLoaded /\ route_for(t) = resolve_proxy_url(config, t)
<1>1. NotLoaded.mode = "not loaded"
  BY DEF NotLoaded, Configured
<1>2. config # NotLoaded
  BY <1>1 DEF ProxyModes
<1> QED BY <1>2 DEF route_for

(* One more wait, and one more attempt.                                    *)
LEMMA SleepOK ==
    ASSUME NEW attempt \in 0..MaxRetries, attempt < MaxRetries, NEW slept \in Int,
           slept <= attempt * MaxSleep, NEW d \in Int
    PROVE  /\ attempt + 1 \in 0..MaxRetries /\ slept + _sleep(d) \in Int
           /\ slept + _sleep(d) <= (attempt + 1) * MaxSleep
<1>1. MaxSleep \in Nat /\ MaxRetries \in Nat
  BY RetryAssumption
<1>2. _sleep(d) \in Int /\ _sleep(d) <= MaxSleep
  BY <1>1 DEF _sleep, Min
<1>3. (attempt + 1) * MaxSleep = attempt * MaxSleep + MaxSleep
  BY <1>1
<1>4. attempt * MaxSleep \in Int
  BY <1>1
<1> QED BY <1>1, <1>2, <1>3, <1>4

(* The next attempt waits for a number.                                    *)
LEMMA DelaysAreInt ==
    ASSUME NEW attempt, NEW status, NEW header \in {<<>>} \cup {<<d>> : d \in RetryAfters},
           NEW d \in Delays(attempt, status, header)
    PROVE  d \in Int
<1>1. CASE status = "429" /\ header # <<>>
  <2>1. PICK x \in RetryAfters : header = <<x>>
    BY <1>1
  <2>2. d = _parse_retry_after(x) /\ x \in Int
    BY <1>1, <2>1, RetryAssumption DEF Delays
  <2>3. PICK m \in {x, 0} : \A y \in {x, 0} : m >= y
    BY <2>2
  <2>4. d = CHOOSE z \in {x, 0} : \A y \in {x, 0} : z >= y
    BY <2>2 DEF _parse_retry_after, Max
  <2>5. d \in {x, 0}
    BY <2>3, <2>4
  <2> QED BY <2>2, <2>5
<1>2. CASE ~(status = "429" /\ header # <<>>)
  BY <1>2 DEF Delays, _backoff_delays
<1> QED BY <1>1, <1>2

(* What has been retired is still kept, and what was cached as well.       *)
LEMMA PoolStep ==
    ASSUME PoolOK, NEW route, pool' = _transport_for(route)
    PROVE  /\ PoolOK'
           /\ route # Direct => pool'.proxied = route
           /\ \A v : Kept(v, pool) => Kept(v, pool')
<1>1. CASE route = Direct \/ pool.proxied = route
  <2>1. pool' = pool
    BY <1>1 DEF _transport_for
  <2> QED BY <1>1, <2>1 DEF PoolOK
<1>2. CASE ~(route = Direct \/ pool.proxied = route)
  <2> DEFINE old == pool.retired
             new == IF pool.proxied = Direct THEN old ELSE Append(old, pool.proxied)
  <2>1. pool' = [proxied |-> route, retired |-> new]
    BY <1>2 DEF _transport_for
  <2>2. old \in Seq({old[i] : i \in DOMAIN old})
    BY DEF PoolOK
  <2>3. /\ new \in Seq({new[i] : i \in DOMAIN new})
        /\ \A i \in DOMAIN old : i \in DOMAIN new /\ new[i] = old[i]
        /\ pool.proxied # Direct => \E i \in DOMAIN new : new[i] = pool.proxied
    <3>1. CASE pool.proxied = Direct
      BY <2>2, <3>1
    <3>2. CASE pool.proxied # Direct
      <4> DEFINE S == {old[i] : i \in DOMAIN old}
      <4>1. new = Append(old, pool.proxied)
        BY <3>2
      <4> HIDE DEF new
      <4>2. new \in Seq(S \cup {pool.proxied}) /\ Len(new) = Len(old) + 1
        BY <2>2, <4>1
      <4>3. DOMAIN new = 1..Len(new) /\ DOMAIN old = 1..Len(old) /\ Len(old) \in Nat
        BY <2>2, <4>2
      <4>4. \A i \in 1..Len(old) : new[i] = old[i]
        BY <2>2, <4>1
      <4>5. new[Len(old) + 1] = pool.proxied
        BY <2>2, <4>1
      <4>6. new \in Seq({new[i] : i \in DOMAIN new})
        <5> DEFINE T == {new[i] : i \in DOMAIN new}
        <5>1. \A i \in 1..Len(new) : new[i] \in T
          BY <4>3
        <5> HIDE DEF T
        <5>2. new \in Seq(T)
          BY <4>2, <5>1
        <5> QED BY <5>2 DEF T
      <4> QED BY <4>2, <4>3, <4>4, <4>5, <4>6
    <3> QED BY <3>1, <3>2
  <2> HIDE DEF new
  <2>4. pool'.proxied = route /\ pool'.retired = new
    BY <2>1
  <2>5. PoolOK'
    BY <2>1, <2>3, <2>4 DEF PoolOK
  <2>6. ASSUME NEW v, Kept(v, pool) PROVE Kept(v, pool')
    BY <2>3, <2>4, <2>6 DEF Kept
  <2> QED BY <2>4, <2>5, <2>6
<1> QED BY <1>1, <1>2

(* What the pool keeps for a request it keeps when it grows.               *)
LEMMA OtherRequest ==
    ASSUME NEW q, NEW p, NEW p2, RequestOK(q, p), \A v : Kept(v, p) => Kept(v, p2)
    PROVE  RequestOK(q, p2)
BY DEF RequestOK

(* One request changes, and the pool keeps what it had.                    *)
LEMMA OneRequest ==
    ASSUME EgressOK, PoolOK', \A v : Kept(v, pool) => Kept(v, pool'),
           NEW r \in Requests, NEW q, RequestOK(q, pool'), req' = [req EXCEPT ![r] = q]
    PROVE  EgressOK'
<1>1. req' = [x \in Requests |-> req'[x]]
  BY DEF EgressOK
<1>2. ASSUME NEW x \in Requests PROVE RequestOK(req'[x], pool')
  <2>1. CASE x = r
    BY <2>1 DEF EgressOK
  <2>2. CASE x # r
    BY <2>2, OtherRequest DEF EgressOK
  <2> QED BY <2>1, <2>2
<1> QED BY <1>1, <1>2 DEF EgressOK

LEMMA NoRequestOK == ASSUME NEW p PROVE RequestOK(NoRequest, p)
<1>1. MaxRetries \in Nat /\ MaxSleep \in Nat
  BY RetryAssumption
<1>2. NoRequest.pc = "idle" /\ NoRequest.attempt = 0 /\ NoRequest.slept = 0
  BY DEF NoRequest
<1>3. IsRequest(NoRequest)
  BY DEF NoRequest, IsRequest
<1> QED BY <1>1, <1>2, <1>3 DEF RequestOK

LEMMA SendStep ==
    ASSUME EgressOK, NEW r \in Requests, NEW t, NEW m, Send(r, t, m)
    PROVE  EgressOK'
<1> DEFINE q == [NoRequest EXCEPT !.pc = "due", !.target = t, !.method = m]
<1>1. q.pc = "due" /\ q.attempt = 0 /\ q.slept = 0 /\ IsRequest(q)
  BY DEF NoRequest, IsRequest
<1>2. req' = [req EXCEPT ![r] = q] /\ UNCHANGED pool
  BY DEF Send
<1> HIDE DEF q
<1>3. RequestOK(q, pool')
  BY <1>1, RetryAssumption DEF RequestOK
<1>4. PoolOK'
  BY <1>2 DEF EgressOK, PoolOK
<1> QED BY <1>2, <1>3, <1>4, OneRequest

(* An attempt is routed by the configuration of the moment.                *)
LEMMA DialStep ==
    ASSUME EgressOK, config.mode \in ProxyModes, NEW r \in Requests, Dial(r)
    PROVE  EgressOK'
<1> DEFINE route == route_for(req[r].target)
           via == IF route = Direct THEN Direct ELSE pool'.proxied
           q == [req[r] EXCEPT !.pc = "wire", !.cfg = config, !.via = via]
<1>1. req[r].pc = "due" /\ pool' = _transport_for(route) /\ UNCHANGED config
  BY DEF Dial
<1>2. req' = [req EXCEPT ![r] = q]
  BY Zenon DEF Dial, EgressOK
<1>3. RequestOK(req[r], pool) /\ PoolOK
  BY DEF EgressOK
<1> HIDE DEF route
<1>4. /\ PoolOK' /\ \A v : Kept(v, pool) => Kept(v, pool')
      /\ route # Direct => pool'.proxied = route
  BY <1>1, <1>3, PoolStep
<1>5. via = route /\ Kept(via, pool')
  BY <1>4 DEF Kept
<1>6. config # NotLoaded /\ route = resolve_proxy_url(config, req[r].target)
  BY RouteIs DEF route
<1> HIDE DEF via
<1>7. /\ q.pc = "wire" /\ q.target = req[r].target /\ q.method = req[r].method
      /\ q.attempt = req[r].attempt /\ q.slept = req[r].slept /\ q.cfg = config /\ q.via = via
      /\ q \in [pc : {"wire"}, target : {req[r].target}, method : {req[r].method},
                attempt : {req[r].attempt}, slept : {req[r].slept}, cfg : {config}, via : {via}]
  BY <1>3 DEF RequestOK, IsRequest
<1> HIDE DEF q
<1>8. RequestOK(q, pool')
  BY <1>3, <1>5, <1>6, <1>7 DEF RequestOK, IsRequest
<1> QED BY <1>2, <1>4, <1>8, OneRequest

LEMMA AnswerStep ==
    ASSUME EgressOK, NEW r \in Requests, NEW status,
           NEW header \in {<<>>} \cup {<<d>> : d \in RetryAfters}, Answer(r, status, header)
    PROVE  EgressOK'
<1>1. UNCHANGED pool /\ PoolOK' /\ RequestOK(req[r], pool)
  BY DEF Answer, EgressOK, PoolOK
<1>2. CASE Again(r, status)
  <2>1. PICK d \in Delays(req[r].attempt, status, header) :
            req' = [req EXCEPT ![r].pc = "due", ![r].attempt = @ + 1, ![r].slept = @ + _sleep(d)]
    BY <1>2 DEF Answer
  <2> DEFINE q == [req[r] EXCEPT !.pc = "due", !.attempt = req[r].attempt + 1,
                                 !.slept = req[r].slept + _sleep(d)]
  <2>2. req' = [req EXCEPT ![r] = q]
    BY <1>1, <2>1, Zenon DEF EgressOK, RequestOK
  <2>3. /\ q.pc = "due" /\ q.method = req[r].method
        /\ q.attempt = req[r].attempt + 1 /\ q.slept = req[r].slept + _sleep(d)
    BY <1>1 DEF RequestOK, IsRequest
  <2>4. IsRequest(q)
    BY <1>1, <2>3 DEF RequestOK, IsRequest
  <2> HIDE DEF q
  <2>5. RetryableMethod(req[r].method) /\ req[r].attempt < MaxRetries
    BY <1>2 DEF Again
  <2>6. d \in Int
    BY DelaysAreInt
  <2>7. /\ q.attempt \in 0..MaxRetries /\ q.slept \in Int
        /\ q.slept <= q.attempt * MaxSleep
    BY <1>1, <2>3, <2>5, <2>6, SleepOK DEF RequestOK
  <2>8. RequestOK(q, pool')
    BY <2>3, <2>4, <2>5, <2>7 DEF RequestOK
  <2> QED BY <1>1, <2>2, <2>8, OneRequest
<1>3. CASE ~Again(r, status)
  BY <1>1, <1>3, NoRequestOK, OneRequest DEF Answer
<1> QED BY <1>2, <1>3

LEMMA EgressFrame == ASSUME EgressOK, UNCHANGED <<pool, req>> PROVE EgressOK'
BY DEF EgressOK, PoolOK

LEMMA EgressStep == ASSUME IInv, Egressing PROVE EgressOK'
<1>1. EgressOK /\ config.mode \in ProxyModes /\ EgressNext
  BY DEF IInv, StoredOK, Egressing
<1> QED BY <1>1, SendStep, DialStep, AnswerStep DEF EgressNext

LEMMA EgressInitOK == ASSUME EgressInit PROVE EgressOK
<1>1. PoolOK
  BY DEF EgressInit, PoolOK, NoTransports
<1> QED BY <1>1, NoRequestOK DEF EgressInit, EgressOK

-----------------------------------------------------------------------------
(* Settings and tasks.                                                     *)

LEMMA IdleOK == ASSUME NEW up, NEW secrets PROVE TaskOK(Idle, up, secrets)
BY DEF TaskOK, Idle, IsTask, Kinds

(* One task steps while nothing else does.                                 *)
LEMMA OneTask ==
    ASSUME IInv, UNCHANGED <<evars, mvars, phase, env, row, sso, registry>>,
           NEW t \in Tasks, NEW s, TaskOK(s, phase = "up", env.secrets),
           s.pc = "commit" => s.seen = row[s.kind] /\ ~Locked(s.kind),
           task' = [task EXCEPT ![t] = s]
    PROVE  IInv'
<1>1. task' = [u \in Tasks |-> task'[u]]
  BY DEF IInv, TasksOK
<1>2. ASSUME NEW u \in Tasks PROVE TaskOK(task'[u], phase' = "up", env'.secrets)
  BY DEF IInv, TasksOK
<1>3. task'[t] = s /\ \A u \in Tasks \ {t} : task'[u] = task[u]
  BY DEF IInv, TasksOK
<1>4. LockOK'
  BY <1>3 DEF IInv, TasksOK, LockOK, Locked
<1>5. TasksOK'
  BY <1>1, <1>2, <1>4 DEF TasksOK
<1>6. EgressOK'
  BY EgressFrame DEF evars, IInv
<1> QED BY <1>5, <1>6 DEF IInv, SchemaOK, StoredOK, RegistryOK, RegistryCurrent, evars, mvars

LEMMA SaveStep == ASSUME IInv, NEW t \in Tasks, NEW kind \in Kinds, NEW form, Save(t, kind, form)
                  PROVE IInv'
<1> DEFINE s == [Idle EXCEPT !.pc = "lock", !.kind = kind, !.form = form]
<1>1. s.pc = "lock" /\ s.kind = kind /\ IsTask(s)
  BY DEF Idle, IsTask
<1>2. task' = [task EXCEPT ![t] = s] /\ phase = "up"
      /\ UNCHANGED <<evars, mvars, phase, env, row, sso, registry>>
  BY DEF Save
<1> HIDE DEF s
<1>3. TaskOK(s, phase = "up", env.secrets)
  BY <1>1, <1>2 DEF TaskOK
<1> QED BY <1>1, <1>2, <1>3, OneTask

(* The rows and the snapshots while the process is up.                     *)
LEMMA RowsUp ==
    ASSUME IInv, phase = "up", NEW kind \in Kinds
    PROVE  Settled(env.secrets, kind, row[kind])
BY DEF IInv, StoredOK, Kinds

LEMMA LockStep == ASSUME IInv, NEW t \in Tasks, Lock(t) PROVE IInv'
<1> DEFINE kind == task[t].kind
           now == CHOOSE c \in row[kind] : TRUE
           cand == Patched(kind, now, task[t].form)
           s == [task[t] EXCEPT !.pc = "commit", !.seen = {now}, !.cand = {cand}]
<1>1. /\ task[t].pc = "lock" /\ UNCHANGED <<evars, mvars, phase, env, row, sso, registry>>
      /\ ~Locked(kind)
      /\ task' = [task EXCEPT ![t] = Idle] \/ (Valid(kind, cand) /\ task' = [task EXCEPT ![t] = s])
  BY DEF Lock, OnlyTask
<1>2. TaskOK(task[t], phase = "up", env.secrets)
  BY DEF IInv, TasksOK
<1>3. phase = "up" /\ kind \in Kinds
  BY <1>1, <1>2 DEF TaskOK
<1> HIDE DEF kind
<1>4. Settled(env.secrets, kind, row[kind])
  BY <1>3, RowsUp
<1>5. now \in row[kind] /\ row[kind] = {now} /\ Fields(kind) \subseteq DOMAIN now
  BY <1>4 DEF Settled, HasFields
<1> HIDE DEF now
<1>6. DOMAIN cand = DOMAIN now
  BY DEF Patched
<1> HIDE DEF cand
<1>7. s.pc = "commit" /\ s.kind = kind /\ s.seen = {now} /\ s.cand = {cand} /\ IsTask(s)
  BY <1>2 DEF TaskOK, IsTask, kind
<1> HIDE DEF s
<1>8. ASSUME Valid(kind, cand) PROVE TaskOK(s, phase = "up", env.secrets)
  <2>1. Settled(env.secrets, kind, {cand})
    BY <1>5, <1>6, <1>8 DEF Settled, HasFields, Valid, ValidWith
  <2> QED BY <1>3, <1>7, <2>1 DEF TaskOK
<1>9. s.seen = row[s.kind] /\ ~Locked(s.kind)
  BY <1>1, <1>5, <1>7
<1>10. Idle.pc # "commit"
  BY DEF Idle
<1> QED BY <1>1, <1>8, <1>9, <1>10, IdleOK, OneTask

LEMMA RefreshStep == ASSUME IInv, NEW t \in Tasks, Refresh(t) PROVE IInv'
<1> DEFINE s == [task[t] EXCEPT !.pc = "set", !.seen = row[task[t].kind]]
<1>1. /\ task[t].pc = "refresh" /\ UNCHANGED <<evars, mvars, phase, env, row, sso, registry>>
      /\ task' = [task EXCEPT ![t] = s]
  BY DEF Refresh, OnlyTask
<1>2. TaskOK(task[t], phase = "up", env.secrets)
  BY DEF IInv, TasksOK
<1>3. s.pc = "set" /\ s.kind = task[t].kind /\ s.seen = row[task[t].kind] /\ IsTask(s)
  BY <1>2 DEF TaskOK, IsTask
<1> HIDE DEF s
<1>4. phase = "up" /\ task[t].kind \in Kinds
  BY <1>1, <1>2 DEF TaskOK
<1>5. TaskOK(s, phase = "up", env.secrets)
  BY <1>3, <1>4, RowsUp DEF TaskOK
<1> QED BY <1>1, <1>3, <1>5, OneTask

LEMMA ProbeReadStep == ASSUME IInv, NEW t \in Tasks, ProbeRead(t) PROVE IInv'
<1> DEFINE s == [Idle EXCEPT !.pc = "set", !.seen = row.proxy]
<1>1. /\ phase = "up" /\ UNCHANGED <<evars, mvars, phase, env, row, sso, registry>>
      /\ task' = [task EXCEPT ![t] = s]
  BY DEF ProbeRead, OnlyTask
<1>2. s.pc = "set" /\ s.kind = "proxy" /\ s.seen = row.proxy /\ IsTask(s)
  BY DEF Idle, IsTask
<1> HIDE DEF s
<1>3. TaskOK(s, phase = "up", env.secrets)
  BY <1>1, <1>2, RowsUp DEF TaskOK, Kinds
<1> QED BY <1>1, <1>2, <1>3, OneTask

LEMMA SaveFailsStep == ASSUME IInv, NEW t \in Tasks, SaveFails(t) PROVE IInv'
<1>1. Idle.pc # "commit"
  BY DEF Idle
<1> QED BY <1>1, IdleOK, OneTask DEF SaveFails

(* The columns that did not change are those that were validated.          *)
LEMMA WrittenOK ==
    ASSUME NEW secrets, NEW kind \in Kinds, NEW c, NEW cand,
           Fields(kind) \subseteq DOMAIN c, ValidWith(secrets, kind, cand)
    PROVE  /\ ValidWith(secrets, kind, Written(c, c, cand))
           /\ DOMAIN Written(c, c, cand) = DOMAIN c
<1> DEFINE w == Written(c, c, cand)
<1>1. DOMAIN w = DOMAIN c
  BY DEF Written
<1>2. \A f \in DOMAIN c : f \notin {"on", "conf"} => w[f] = cand[f]
  BY DEF Written, Set
<1>3. \A f \in DOMAIN c : f \in {"on", "conf"} => \A p \in Providers : w[f][p] = cand[f][p]
  BY DEF Written, Set
<1> HIDE DEF w
<1>4. CASE kind = "proxy"
  <2>1. w.mode = cand.mode /\ w.url = cand.url
    BY <1>2, <1>4 DEF Fields
  <2> QED BY <1>1, <1>4, <2>1 DEF ValidWith, ExplicitHasUrl, w
<1>5. CASE kind = "oidc"
  <2>1. w.mode = cand.mode /\ w.maps = cand.maps
    BY <1>2, <1>5 DEF Fields
  <2>2. \A p \in Providers : w.on[p] = cand.on[p] /\ w.conf[p] = cand.conf[p]
    BY <1>3, <1>5 DEF Fields
  <2>3. enabled_providers(w) = enabled_providers(cand)
    BY <2>1, <2>2 DEF enabled_providers, oidc_auth_enabled
  <2>4. enabled_providers(cand) \subseteq Providers
    BY DEF enabled_providers
  <2>5. validate_config(cand, secrets)
    BY <1>5 DEF ValidWith
  <2>6. validate_config(w, secrets)
    BY <2>1, <2>2, <2>3, <2>4, <2>5 DEF validate_config
  <2> QED BY <1>1, <1>5, <2>6 DEF ValidWith, w
<1> QED BY <1>4, <1>5 DEF Kinds

(* What is stored is what was validated under the lock.                    *)
LEMMA CommitRowStep == ASSUME IInv, NEW t \in Tasks, CommitRow(t) PROVE IInv'
<1> DEFINE kind == task[t].kind
           new == NewRow(t)
           s == [task[t] EXCEPT !.pc = "refresh"]
<1>1. /\ task[t].pc = "commit" /\ UNCHANGED <<evars, mvars, phase, env, sso, registry>>
      /\ \/ row' = row /\ task' = [task EXCEPT ![t] = Idle]
         \/ row' = [row EXCEPT ![kind] = new] /\ task' = [task EXCEPT ![t] = s]
  BY DEF CommitRow
<1>2. TaskOK(task[t], phase = "up", env.secrets)
  BY DEF IInv, TasksOK
<1>3. s.pc = "refresh" /\ s.kind = kind /\ IsTask(s)
  BY <1>2 DEF TaskOK, IsTask
<1> HIDE DEF s
<1>4. phase = "up" /\ kind \in Kinds /\ Settled(env.secrets, kind, task[t].cand)
  BY <1>1, <1>2 DEF TaskOK
<1>5. TaskOK(s, phase = "up", env.secrets)
  BY <1>3, <1>4 DEF TaskOK
<1>6. task[t].seen = row[kind]
  BY <1>1 DEF IInv, TasksOK, LockOK
<1>7. Settled(env.secrets, kind, new)
  <2>1. Settled(env.secrets, kind, row[kind])
    BY <1>4, RowsUp
  <2>2. PICK c \in row[kind], cand \in task[t].cand : TRUE
    BY <1>4, <2>1 DEF Settled
  <2>3. row[kind] = {c} /\ task[t].seen = {c} /\ task[t].cand = {cand}
    BY <1>4, <1>6, <2>1, <2>2 DEF Settled
  <2>4. new = {Written(c, c, cand)}
    BY <2>3 DEF NewRow
  <2>5. Fields(kind) \subseteq DOMAIN c /\ ValidWith(env.secrets, kind, cand)
    BY <1>4, <2>1, <2>2 DEF Settled, HasFields
  <2> HIDE DEF new
  <2> QED BY <1>4, <2>4, <2>5, WrittenOK DEF Settled, HasFields
<1> HIDE DEF new
<1>8. CASE row' = row /\ task' = [task EXCEPT ![t] = Idle]
  <2>1. Idle.pc # "commit"
    BY DEF Idle
  <2> QED BY <1>1, <1>8, <2>1, IdleOK, OneTask
<1>9. CASE row' = [row EXCEPT ![kind] = new] /\ task' = [task EXCEPT ![t] = s]
  <2>1. task'[t] = s /\ \A u \in Tasks \ {t} : task'[u] = task[u]
    BY <1>9 DEF IInv, TasksOK
  <2>2. \A k \in Kinds \ {kind} : row'[k] = row[k]
    BY <1>9 DEF IInv, StoredOK
  <2>3. ASSUME NEW u \in Tasks, task'[u].pc = "commit" PROVE task'[u].seen = row'[task'[u].kind]
    <3>1. u # t /\ task'[u] = task[u] /\ task[u].pc = "commit"
      BY <1>3, <2>1, <2>3
    <3>2. task[u].kind # kind /\ task[u].seen = row[task[u].kind]
      BY <1>1, <3>1 DEF IInv, TasksOK, LockOK
    <3>3. task[u].kind \in Kinds
      BY DEF IInv, TasksOK, TaskOK
    <3> QED BY <2>2, <3>1, <3>2, <3>3
  <2>4. LockOK'
    BY <1>3, <2>1, <2>3 DEF IInv, TasksOK, LockOK
  <2>5. TasksOK'
    BY <1>1, <1>5, <1>9, <2>4 DEF IInv, TasksOK
  <2> HIDE DEF kind
  <2>6. row' \in [Kinds -> {row'.proxy, row'.oidc}]
    BY <1>4, <1>9 DEF IInv, StoredOK, Kinds
  <2>7. kind = "proxy" => row'.proxy = new /\ row'.oidc = row.oidc
    BY <1>9 DEF IInv, StoredOK, Kinds
  <2>8. kind = "oidc" => row'.oidc = new /\ row'.proxy = row.proxy
    BY <1>9 DEF IInv, StoredOK, Kinds
  <2>9. Settled(env.secrets, "proxy", row'.proxy) /\ Settled(env.secrets, "oidc", row'.oidc)
    BY <1>4, <1>7, <2>7, <2>8, RowsUp DEF Kinds
  <2>10. StoredOK'
    BY <1>1, <1>4, <2>6, <2>9 DEF IInv, StoredOK, Settled, evars
  <2>11. EgressOK'
    BY <1>1, EgressFrame DEF evars, IInv
  <2> QED BY <1>1, <2>5, <2>10, <2>11 DEF IInv, SchemaOK, RegistryOK, RegistryCurrent, mvars
<1> QED BY <1>1, <1>8, <1>9

LEMMA UnregisteredIs == Unregistered.done = FALSE /\ \A p \in Providers : Unregistered.have[p] = ""
BY DEF Unregistered

(* The snapshot is one of the stored configurations, and the registry of   *)
(* the former one is forgotten with it.                                    *)
LEMMA SetConfigStep == ASSUME IInv, NEW t \in Tasks, SetConfig(t) PROVE IInv'
<1> DEFINE seen == task[t].seen
<1>1. /\ task[t].pc = "set" /\ UNCHANGED <<pool, req, mvars, phase, env, row>>
      /\ task' = [task EXCEPT ![t] = Idle]
      /\ \/ task[t].kind = "proxy" /\ (config' = CHOOSE c \in seen : TRUE)
            /\ UNCHANGED <<sso, registry>>
         \/ /\ task[t].kind # "proxy"
            /\ sso' = seen /\ registry' = Unregistered /\ UNCHANGED config
  BY DEF SetConfig, reset_registration
<1>2. TaskOK(task[t], phase = "up", env.secrets)
  BY DEF IInv, TasksOK
<1>3. phase = "up" /\ task[t].kind \in Kinds /\ Settled(env.secrets, task[t].kind, seen)
  BY <1>1, <1>2 DEF TaskOK
<1>4. TasksOK'
  <2>1. LockOK'
    BY <1>1 DEF IInv, TasksOK, LockOK, Idle
  <2> QED BY <1>1, <2>1, IdleOK DEF IInv, TasksOK
<1>5. EgressOK'
  BY <1>1, EgressFrame DEF IInv
<1>6. CASE task[t].kind = "proxy"
  <2>1. config' \in seen
    BY <1>1, <1>3, <1>6 DEF Settled
  <2>2. config'.mode \in ProxyModes
    BY <1>3, <1>6, <2>1 DEF Settled, ValidWith
  <2>3. UNCHANGED <<sso, registry>>
    BY <1>1, <1>6
  <2> QED
    BY <1>1, <1>4, <1>5, <2>2, <2>3 DEF IInv, SchemaOK, StoredOK, RegistryOK, RegistryCurrent, mvars
<1>7. CASE task[t].kind = "oidc"
  <2>1. sso' = seen /\ registry' = Unregistered /\ UNCHANGED config
    BY <1>1, <1>7
  <2>2. RegistryOK'
    BY <1>3, <2>1, UnregisteredIs DEF RegistryOK, RegistryCurrent, Settled
  <2>3. StoredOK'
    BY <1>1, <1>3, <1>7, <2>1 DEF IInv, StoredOK
  <2> QED BY <1>1, <1>4, <1>5, <2>2, <2>3 DEF IInv, SchemaOK, mvars
<1> QED BY <1>3, <1>6, <1>7 DEF Kinds

(* A registration from nothing makes the registry the one of c.            *)
LEMMA Registers ==
    ASSUME NEW reg, \A p \in Providers : reg.have[p] = "", NEW c, NEW S, \A d \in S : d = c
    PROVE  /\ register_providers(reg, c).done = TRUE
           /\ \A d \in S, p \in Providers :
                 register_providers(reg, c).have[p] =
                    IF p \in enabled_providers(d) THEN d.conf[p] ELSE ""
<1>1. register_providers(reg, c).done = TRUE
  BY DEF register_providers
<1>2. \A p \in Providers : register_providers(reg, c).have[p] =
                             IF p \in enabled_providers(c) THEN c.conf[p] ELSE ""
  BY DEF register_providers
<1> QED BY <1>1, <1>2

LEMMA RegisterStep == ASSUME IInv, ensure_registered PROVE IInv'
<1> DEFINE c == CHOOSE c \in sso : TRUE
<1>1. /\ ~registry.done /\ registry' = register_providers(registry, c)
      /\ UNCHANGED <<evars, mvars, phase, env, row, sso, task>>
  BY DEF ensure_registered
<1>2. \A d \in sso : d = c
  BY DEF IInv, RegistryOK
<1> HIDE DEF c
<1>3. /\ registry'.done = TRUE
      /\ \A d \in sso, p \in Providers :
            registry'.have[p] = IF p \in enabled_providers(d) THEN d.conf[p] ELSE ""
  <2>1. \A p \in Providers : registry.have[p] = ""
    BY <1>1 DEF IInv, RegistryOK
  <2>2. /\ register_providers(registry, c).done = TRUE
        /\ \A d \in sso, p \in Providers :
              register_providers(registry, c).have[p] =
                 IF p \in enabled_providers(d) THEN d.conf[p] ELSE ""
    BY ONLY <1>2, <2>1, Registers
  <2>3. registry' = register_providers(registry, c)
    BY <1>1
  <2> QED BY ONLY <2>2, <2>3
<1>4. RegistryOK'
  BY <1>1, <1>3 DEF IInv, RegistryOK, RegistryCurrent
<1>5. EgressOK'
  BY <1>1, EgressFrame DEF evars, IInv
<1> QED BY <1>1, <1>4, <1>5 DEF IInv, SchemaOK, StoredOK, TasksOK, LockOK, evars, mvars

LEMMA EgressingStep == ASSUME IInv, Egressing PROVE IInv'
<1>1. UNCHANGED <<mvars, svars>> /\ config' = config
  BY DEF Egressing, EgressNext, Send, Dial, Answer
<1> QED
  BY <1>1, EgressStep
     DEF IInv, SchemaOK, StoredOK, RegistryOK, RegistryCurrent, TasksOK, LockOK, mvars, svars

-----------------------------------------------------------------------------
(* The life of the process.                                                *)

(* While the process is not up no administrator's request is under way.    *)
LEMMA AllIdle == ASSUME IInv, phase # "up", UNCHANGED task PROVE TasksOK'
<1>1. \A t \in Tasks : TaskOK(task[t], FALSE, env.secrets)
  BY DEF IInv, TasksOK
<1>2. \A t \in Tasks : task[t].pc = "idle"
  BY <1>1 DEF TaskOK
<1> QED BY <1>1, <1>2 DEF IInv, TasksOK, TaskOK, LockOK

LEMMA StartStep == ASSUME IInv, NEW e \in Envs, NEW h \in Releases, Start(e, h) PROVE IInv'
<1>1. /\ phase = "down" /\ phase' = "inspect" /\ env' = e /\ head' = h
      /\ UNCHANGED <<evars, db, work, row, sso, registry, task>>
      /\ ValidWith(e.secrets, "proxy", e.proxy)
  BY DEF Start, EnvAccepted, ValidWith
<1>2. SchemaOK'
  BY <1>1 DEF IInv, SchemaOK
<1>3. row.proxy # {} => Settled(env'.secrets, "proxy", row.proxy)
  BY DEF IInv, StoredOK, Settled, ValidWith
<1>4. StoredOK'
  BY <1>1, <1>3 DEF IInv, StoredOK
<1>5. TasksOK'
  BY <1>1, AllIdle
<1>6. EgressOK'
  BY <1>1, EgressFrame DEF evars, IInv
<1> QED BY <1>1, <1>2, <1>4, <1>5, <1>6 DEF IInv, RegistryOK, RegistryCurrent, Phases

LEMMA InitDbStep == ASSUME IInv, init_db PROVE IInv'
<1>1. /\ phase \in {"inspect", "upgrade"} /\ phase' \notin {"oidc", "up"}
      /\ UNCHANGED <<evars, env, row, sso, registry, task>>
  BY DEF init_db, Advance
<1>2. TasksOK'
  BY <1>1, AllIdle
<1>3. StoredOK'
  BY <1>1 DEF IInv, StoredOK
<1>4. EgressOK'
  BY <1>1, EgressFrame DEF evars, IInv
<1> QED BY <1>1, <1>2, <1>3, <1>4, SchemaStep DEF IInv, RegistryOK, RegistryCurrent

LEMMA LoadProxyStep == ASSUME IInv, LoadProxy PROVE IInv'
<1>1. /\ phase = "proxy" /\ phase' \in {"oidc", "down"}
      /\ UNCHANGED <<pool, req, mvars, env, sso, registry, task>>
  BY DEF LoadProxy, Advance
<1>2. TasksOK'
  BY <1>1, AllIdle
<1>3. EgressOK'
  BY <1>1, EgressFrame DEF IInv
<1>4. StoredOK'
  <2>1. CASE UNCHANGED row /\ phase' = "down"
    BY <1>1, <2>1 DEF IInv, StoredOK
  <2>2. CASE /\ row' = [row EXCEPT !.proxy = ensure_seeded("proxy")]
             /\ config' = CHOOSE c \in ensure_seeded("proxy") : TRUE
             /\ phase' = "oidc"
    <3>1. Settled(env.secrets, "proxy", ensure_seeded("proxy"))
      BY <1>1, EnvsAssumption DEF IInv, StoredOK, Settled, HasFields, Kinds, ensure_seeded
    <3>2. config' \in ensure_seeded("proxy")
      BY <2>2, <3>1 DEF Settled
    <3>3. config'.mode \in ProxyModes
      BY <3>1, <3>2 DEF Settled, ValidWith
    <3>4. row'.proxy = ensure_seeded("proxy") /\ row' \in [Kinds -> {row'.proxy, row'.oidc}]
      BY <2>2 DEF IInv, StoredOK, Kinds
    <3>5. row'.proxy # {} /\ Settled(env'.secrets, "proxy", row'.proxy)
      BY <1>1, <3>1, <3>4 DEF Settled
    <3> QED BY <1>1, <2>2, <3>3, <3>4, <3>5 DEF IInv, StoredOK
  <2> QED BY <1>1, <2>1, <2>2 DEF LoadProxy, Advance
<1> QED
  BY <1>1, <1>2, <1>3, <1>4 DEF IInv, SchemaOK, RegistryOK, RegistryCurrent, mvars, Phases

(* What is loaded at the start has passed the validation.                  *)
LEMMA LoadOidcStep == ASSUME IInv, LoadOidc PROVE IInv'
<1> DEFINE c == CHOOSE c \in ensure_seeded("oidc") : TRUE
<1>1. /\ phase = "oidc" /\ UNCHANGED <<pool, req, mvars, env, task>>
      /\ \/ /\ phase' = "up" /\ validate_config(c, env.secrets)
            /\ row' = [row EXCEPT !.oidc = {c}] /\ sso' = {c}
            /\ registry' = register_providers(Unregistered, c) /\ UNCHANGED config
         \/ phase' = "down" /\ UNCHANGED <<row, sso, registry>>
  BY DEF LoadOidc, Advance, reset_registration
<1> HIDE DEF c
<1>2. TasksOK'
  BY <1>1, AllIdle
<1>3. EgressOK'
  BY <1>1, EgressFrame DEF IInv
<1>4. SchemaOK' /\ phase' \in Phases
  BY <1>1 DEF IInv, SchemaOK, mvars, Phases
<1>5. CASE phase' = "down"
  BY <1>1, <1>2, <1>3, <1>4, <1>5 DEF IInv, StoredOK, RegistryOK, RegistryCurrent
<1>6. CASE phase' = "up"
  <2>1. /\ validate_config(c, env.secrets) /\ row' = [row EXCEPT !.oidc = {c}] /\ sso' = {c}
        /\ registry' = register_providers(Unregistered, c) /\ UNCHANGED config
    BY <1>1, <1>6
  <2>2. Settled(env'.secrets, "oidc", {c})
    <3>1. Fields("oidc") \subseteq DOMAIN env.oidc
      BY EnvsAssumption DEF IInv, StoredOK, Kinds
    <3>2. c \in ensure_seeded("oidc")
      BY DEF c, ensure_seeded
    <3>3. Fields("oidc") \subseteq DOMAIN c
      BY <3>1, <3>2 DEF IInv, StoredOK, HasFields, ensure_seeded
    <3> QED BY <1>1, <2>1, <3>3 DEF Settled, HasFields, ValidWith
  <2>3. row'.oidc = {c} /\ row'.proxy = row.proxy /\ row' \in [Kinds -> {row'.proxy, row'.oidc}]
    BY <2>1 DEF IInv, StoredOK, Kinds
  <2>4. StoredOK'
    BY <1>1, <1>6, <2>1, <2>2, <2>3 DEF IInv, StoredOK, Settled
  <2>5. /\ registry'.done = TRUE
        /\ \A d \in sso', p \in Providers :
              registry'.have[p] = IF p \in enabled_providers(d) THEN d.conf[p] ELSE ""
    <3>1. \A d \in sso' : d = c
      BY <2>1
    <3>2. /\ register_providers(Unregistered, c).done = TRUE
          /\ \A d \in sso', p \in Providers :
                register_providers(Unregistered, c).have[p] =
                    IF p \in enabled_providers(d) THEN d.conf[p] ELSE ""
      BY <3>1, UnregisteredIs, Registers
    <3> QED BY <2>1, <3>2
  <2>6. RegistryOK'
    BY <2>1, <2>5 DEF RegistryOK, RegistryCurrent
  <2> QED BY <1>2, <1>3, <1>4, <2>4, <2>6 DEF IInv
<1> QED BY <1>1, <1>5, <1>6

LEMMA StopStep == ASSUME IInv, Stop PROVE IInv'
<1>1. /\ phase' = "down" /\ sso' = {} /\ registry' = Unregistered
      /\ pool' = NoTransports /\ req' = [r \in Requests |-> NoRequest]
      /\ task' = [t \in Tasks |-> Idle] /\ UNCHANGED <<db, head, env, row>>
  BY DEF Stop
<1>2. TasksOK'
  BY <1>1, IdleOK DEF TasksOK, LockOK, Idle
<1>3. PoolOK'
  BY <1>1 DEF PoolOK, NoTransports
<1>4. EgressOK'
  BY <1>1, <1>3, NoRequestOK DEF EgressOK
<1>5. RegistryOK'
  BY <1>1, UnregisteredIs DEF RegistryOK, RegistryCurrent
<1>6. SchemaOK' /\ StoredOK' /\ phase' \in Phases
  BY <1>1 DEF IInv, SchemaOK, StoredOK, Phases
<1> QED BY <1>2, <1>4, <1>5, <1>6 DEF IInv

LEMMA InvInit == ASSUME Init PROVE IInv
<1>1. SchemaOK
  BY DEF Init, MigrationsInit, SchemaOK
<1>2. StoredOK
  BY DEF Init, StoredOK, HasFields, Kinds
<1>3. RegistryOK
  BY UnregisteredIs DEF Init, RegistryOK, RegistryCurrent
<1>4. TasksOK
  BY IdleOK DEF Init, TasksOK, LockOK, Idle
<1> QED BY <1>1, <1>2, <1>3, <1>4, EgressInitOK DEF Init, IInv, Phases

LEMMA InvStep == ASSUME IInv, [Next]_vars PROVE IInv'
<1>1. CASE UNCHANGED vars
  <2>1. EgressOK'
    BY <1>1, EgressFrame DEF vars, evars, IInv
  <2> QED
    BY <1>1, <2>1
       DEF vars, evars, mvars, svars, IInv, SchemaOK, StoredOK, RegistryOK, RegistryCurrent, TasksOK,
           LockOK
<1>2. ASSUME NEW e \in Envs, NEW h \in Releases, Start(e, h) PROVE IInv'
  BY <1>2, StartStep
<1>3. CASE init_db \/ LoadProxy \/ LoadOidc \/ Stop
  BY <1>3, InitDbStep, LoadProxyStep, LoadOidcStep, StopStep
<1>4. ASSUME NEW t \in Tasks, Admin(t) PROVE IInv'
  <2>1. CASE \E f \in ProxyForms : Save(t, "proxy", f)
    BY <2>1, SaveStep DEF Kinds
  <2>2. CASE \E f \in OidcForms : Save(t, "oidc", f)
    BY <2>2, SaveStep DEF Kinds
  <2> QED
    BY <1>4, <2>1, <2>2, LockStep, CommitRowStep, RefreshStep, SetConfigStep, SaveFailsStep,
       ProbeReadStep DEF Admin
<1>5. CASE ensure_registered \/ Egressing
  BY <1>5, RegisterStep, EgressingStep
<1> QED BY <1>1, <1>2, <1>3, <1>4, <1>5 DEF Next

LEMMA Invariant == Spec => []IInv
BY InvInit, InvStep, PTL DEF Spec

-----------------------------------------------------------------------------
(* put_oidc_settings and the start: no order of saves, failures and        *)
(* restarts leaves settings, stored or in force, with which nobody can     *)
(* sign in.                                                                *)
THEOREM NobodyLockedOut == Spec => []AWayIn
<1>1. ASSUME IInv, phase = "up", NEW c \in row.oidc \cup sso
      PROVE  \/ c.mode \in {"local", "both"}
             \/ \E p \in Providers : c.on[p] /\ WellFormed(c.conf[p]) /\ p \in env.secrets
  <2>1. validate_config(c, env.secrets)
    BY <1>1 DEF IInv, StoredOK, Settled, ValidWith
  <2> QED BY <2>1 DEF validate_config, AuthModes, enabled_providers
<1>2. IInv => AWayIn
  BY <1>1 DEF AWayIn
<1> QED BY <1>2, Invariant, PTL

(* ensure_registered and reset_registration: providers registered from     *)
(* settings that are no longer in force are never used.                    *)
THEOREM RegistryFollows == Spec => []RegistryCurrent
<1>1. IInv => RegistryCurrent
  BY DEF IInv, RegistryOK
<1> QED BY <1>1, Invariant, PTL

(* ProxyRoutingTransport: whatever the settings become while requests are  *)
(* on the wire or due again, each attempt goes where the settings send it  *)
(* and no transport is closed under it.                                    *)
THEOREM AllRouted == Spec => []RoutedAsConfigured
<1>1. IInv => RoutedAsConfigured
  BY DEF IInv, EgressOK, RequestOK, Kept, RoutedAsConfigured
<1> QED BY <1>1, Invariant, PTL

(* RetryTransport: the waits of a request add up to no more than its       *)
(* retries times the cap, for any delays that servers ask for.             *)
THEOREM WaitsEnd == Spec => []WaitBounded
<1>1. ASSUME NEW a \in 0..MaxRetries PROVE a * MaxSleep <= MaxRetries * MaxSleep /\ a * MaxSleep \in Int
  <2>1. MaxRetries \in Nat /\ MaxSleep \in Nat
    BY RetryAssumption
  <2>2. (MaxRetries - a) * MaxSleep >= 0
    BY <2>1
  <2>3. MaxRetries * MaxSleep = (MaxRetries - a) * MaxSleep + a * MaxSleep
    BY <2>1
  <2>4. a * MaxSleep \in Int /\ (MaxRetries - a) * MaxSleep \in Int
    BY <2>1
  <2> QED BY <2>2, <2>3, <2>4
<1>2. ASSUME IInv, NEW r \in Requests
      PROVE  /\ req[r].slept <= MaxRetries * MaxSleep
             /\ req[r].attempt <= MaxRetries
             /\ ~RetryableMethod(req[r].method) => req[r].attempt = 0
  <2>1. RequestOK(req[r], pool)
    BY <1>2 DEF IInv, EgressOK
  <2>2. req[r].slept \in Int /\ req[r].slept <= req[r].attempt * MaxSleep /\ req[r].attempt \in 0..MaxRetries
    BY <2>1 DEF RequestOK
  <2>3. MaxRetries * MaxSleep \in Int /\ req[r].attempt <= MaxRetries
    BY <2>2, RetryAssumption
  <2>4. req[r].slept <= MaxRetries * MaxSleep
    BY <1>1, <2>2, <2>3
  <2> QED BY <2>1, <2>3, <2>4 DEF RequestOK
<1>3. IInv => WaitBounded
  BY <1>2 DEF WaitBounded
<1> QED BY <1>3, Invariant, PTL

(* init_db: a process that goes on to serve has the schema of its release  *)
(* and the stamp of it, from any database any release may have left.       *)
THEOREM SchemaReached == Spec => []SchemaAtHead
<1>1. IInv => SchemaAtHead
  BY DEF IInv, SchemaOK, SchemaAtHead, Phases
<1> QED BY <1>1, Invariant, PTL

=============================================================================
