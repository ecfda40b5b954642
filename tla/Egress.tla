------------------------------- MODULE Egress --------------------------------
(***************************************************************************)
(* Outbound requests (app/proxy.py, app/fetchers/transport.py): each       *)
(* attempt of a request is routed by the snapshot of the proxy settings as *)
(* it is then, and failed attempts are repeated after a delay.  A host is  *)
(* the sequence of its labels (an address, of its octets).  A route is the *)
(* proxy and the user name added to its URL; times are whole seconds.      *)
(***************************************************************************)
EXTENDS Integers, Sequences
LOCAL INSTANCE SequencesExt
LOCAL INSTANCE FiniteSetsExt

CONSTANTS
    Requests,      \* outbound requests under way at once
    Targets,       \* records [scheme, ip, host]
    EnvProxies,    \* http_proxy, https_proxy and all_proxy, "" when not set
    EnvNoProxy,    \* no_proxy of the environment, parsed
    ProxyUser,     \* settings.proxy_username, "" when not set
    MaxRetries, BackoffBase, BackoffCap,  \* settings.httpx_*
    MaxSleep,      \* _MAX_SLEEP_SECONDS
    RetryAfters    \* delays a server may ask for; a date may be past

ASSUME RetryAssumption == {MaxRetries, MaxSleep} \subseteq Nat /\ RetryAfters \subseteq Int

VARIABLES
    config,  \* proxy._config, NotLoaded for None
    pool,    \* the cached proxied transport, and the retired ones
    req

evars == <<config, pool, req>>

Configured(mode, url, no_proxy) ==
    [mode |-> mode, url |-> url, no_proxy |-> no_proxy]

NotLoaded == Configured("not loaded", "", {})

Route(url, user) == [url |-> url, user |-> user]

Direct == Route("", "")

-----------------------------------------------------------------------------
(* Routing                                                                 *)

(* "*", a network (no name is ever in one), or a domain with its subdomains. *)
Covers(entry, t) == \/ entry.kind = "all"
                    \/ entry.kind = "net" /\ t.ip /\ t.host \in entry.hosts
                    \/ entry.kind = "name" /\ IsSuffix(entry.name, t.host)

_should_bypass(t, entries) ==
    t.host = <<>> \/ \E entry \in entries : Covers(entry, t)

_env_first(scheme) == IF EnvProxies[scheme] # "" THEN EnvProxies[scheme]
                      ELSE EnvProxies["all"]

_system_proxy_for(t) ==
    IF _should_bypass(t, EnvNoProxy) THEN Direct
    ELSE Route(_env_first(IF t.scheme = "https" THEN "https" ELSE "http"), "")

_with_credentials(url) == Route(url, ProxyUser)

resolve_proxy_url(cfg, t) ==
    CASE cfg.mode \notin {"NONE", "EXPLICIT"} -> _system_proxy_for(t)
      [] cfg.mode = "EXPLICIT" /\ cfg.url # "" /\ ~_should_bypass(t, cfg.no_proxy) ->
             _with_credentials(cfg.url)
      [] OTHER -> Direct

route_for(t) == IF config = NotLoaded THEN Direct ELSE resolve_proxy_url(config, t)

(* Mutant: the cached transport is used whatever proxy it was built for. *)
_transport_for_Cached(route) ==
    IF route = Direct \/ pool.proxied # Direct THEN pool
    ELSE [pool EXCEPT !.proxied = route]

(* The pool after a request for the route: another proxy than the cached   *)
(* one gets a transport of its own, and the old transport is retired.      *)
_transport_for(route) ==
    IF route = Direct \/ pool.proxied = route THEN pool
    ELSE [proxied |-> route,
          retired |-> IF pool.proxied = Direct THEN pool.retired
                      ELSE Append(pool.retired, pool.proxied)]

NoTransports == [proxied |-> Direct, retired |-> <<>>]

-----------------------------------------------------------------------------
(* Retries                                                                 *)

Methods == {"GET", "POST"}  \* a POST that opts in to retries is as a GET

RetryableMethod(method) == method = "GET"

Statuses == {"ok", "404", "429", "500", "error"}  \* error: httpx.TransportError

RetryableStatus(status) == status \in {"429", "500", "error"}

_parse_retry_after(header) == Max({header, 0})

(* Full jitter: any of these. *)
_backoff_delays(attempt) == 0 .. Min({BackoffCap, BackoffBase * 2 ^ attempt})

(* What the next attempt may wait; header is <<>> when there is none or it *)
(* cannot be parsed, and only a 429 or a 503 is asked for it.              *)
Delays(attempt, status, header) ==
    IF status = "429" /\ header # <<>> THEN {_parse_retry_after(header[1])}
    ELSE _backoff_delays(attempt)

(* Mutant: a server's wish is not capped. *)
_sleep_Uncapped(delay) == delay

_sleep(delay) == Min({delay, MaxSleep})

-----------------------------------------------------------------------------
(* A request is due, on the wire (with the configuration and the transport *)
(* it was sent with), or not there.                                        *)

NoRequest == [pc |-> "idle", target |-> CHOOSE t \in Targets : TRUE, method |-> "GET",
              attempt |-> 0, slept |-> 0, cfg |-> NotLoaded, via |-> Direct]

EgressInit == /\ config = NotLoaded
              /\ pool = NoTransports
              /\ req = [r \in Requests |-> NoRequest]

Send(r, t, method) ==
    /\ req[r].pc = "idle"
    /\ req' = [req EXCEPT ![r] = [NoRequest EXCEPT !.pc = "due", !.target = t,
                                                   !.method = method]]
    /\ UNCHANGED <<config, pool>>

(* ProxyRoutingTransport.handle_async_request up to its await. *)
Dial(r) ==
    LET route == route_for(req[r].target) IN
    /\ req[r].pc = "due"
    /\ pool' = _transport_for(route)
    /\ req' = [req EXCEPT ![r].pc = "wire", ![r].cfg = config,
                          ![r].via = IF route = Direct THEN Direct ELSE pool'.proxied]
    /\ UNCHANGED config

Again(r, status) == RetryableMethod(req[r].method) /\ RetryableStatus(status)
                    /\ req[r].attempt < MaxRetries

(* RetryTransport.handle_async_request once an attempt has its answer. *)
Answer(r, status, header) ==
    /\ req[r].pc = "wire"
    /\ IF Again(r, status)
       THEN \E d \in Delays(req[r].attempt, status, header) :
              req' = [req EXCEPT ![r].pc = "due", ![r].attempt = @ + 1,
                                 ![r].slept = @ + _sleep(d)]
       ELSE req' = [req EXCEPT ![r] = NoRequest]
    /\ UNCHANGED <<config, pool>>

EgressNext ==
    \E r \in Requests :
        \/ \E t \in Targets, m \in Methods : Send(r, t, m)
        \/ Dial(r)
        \/ \E s \in Statuses, h \in {<<>>} \cup {<<d>> : d \in RetryAfters} : Answer(r, s, h)

-----------------------------------------------------------------------------

(* transport.py: an attempt is only made with the settings loaded, goes    *)
(* where the settings of that moment send it whatever they were for the    *)
(* attempts before, and over a transport that is kept until shutdown.      *)
RoutedAsConfigured ==
    \A r \in Requests : req[r].pc = "wire" =>
        /\ req[r].cfg # NotLoaded
        /\ req[r].via = resolve_proxy_url(req[r].cfg, req[r].target)
        /\ req[r].via # Direct => \/ req[r].via = pool.proxied
                                  \/ \E i \in DOMAIN pool.retired : pool.retired[i] = req[r].via

(* transport.py: whatever servers ask for, a request waits no more than    *)
(* its retries times the cap, and a POST that did not opt in is sent once. *)
WaitBounded ==
    \A r \in Requests :
        /\ req[r].slept <= MaxRetries * MaxSleep
        /\ req[r].attempt <= MaxRetries
        /\ ~RetryableMethod(req[r].method) => req[r].attempt = 0

=============================================================================
