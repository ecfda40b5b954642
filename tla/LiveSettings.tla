---------------------------- MODULE LiveSettings -----------------------------
(***************************************************************************)
(* The two settings an administrator edits while the service runs, proxy   *)
(* routing (app/proxy_settings.py) and single sign-on                      *)
(* (app/oidc_settings.py, app/oidc/config.py): a row each in the database, *)
(* a snapshot each in the process, and the registry of providers           *)
(* (app/oidc/service.py) built from the second.  Around them the life of   *)
(* the process (lifespan of app/main.py) and the outbound requests that    *)
(* consult the first.                                                      *)
(*                                                                         *)
(* A provider's client id, domain, scopes and tenant are one value: "" if  *)
(* a part is missing, "odd" if one has the wrong shape, else a good one;   *)
(* so are (as maps) the redirect URL and the role maps of all providers.   *)
(* A form is a patch: it holds the fields the administrator sent.          *)
(***************************************************************************)
EXTENDS Egress, Migrations, TLC

CONSTANTS
    Tasks,          \* requests of administrators
    Providers,
    ProxyForms, OidcForms,
    Envs,           \* records [proxy, oidc, secrets], what a deployment may set
    MaxEdits,       \* bound: saves
    MaxFaults       \* bound: crashes, shutdowns and failures of the database

Kinds == {"proxy", "oidc"}

Fields(kind) == IF kind = "proxy" THEN {"mode", "url", "no_proxy"}
                ELSE {"mode", "on", "conf", "maps"}

ASSUME EnvsAssumption ==
    \A e \in Envs, kind \in Kinds : Fields(kind) \subseteq DOMAIN e[kind]

VARIABLES
    phase,    \* of the process
    env,      \* its environment
    row,      \* the two singleton rows; {} for one that is not there, else {row}
    sso,      \* oidc_settings._config, {} for None
    registry, \* oidc.service: providers registered, and _registration_done
    task,
    edits, faults

svars == <<phase, env, row, sso, registry, task, edits, faults>>
vars == <<evars, mvars, svars>>

Idle == [pc |-> "idle", kind |-> "proxy", form |-> <<>>, seen |-> {}, cand |-> {}]

-----------------------------------------------------------------------------
(* What a configuration may be                                             *)

AuthModes == {"local", "oidc", "both"}

oidc_auth_enabled(c) == c.mode \in {"oidc", "both"}

enabled_providers(c) == {p \in Providers : oidc_auth_enabled(c) /\ c.on[p]}

WellFormed(conf) == conf \notin {"", "odd"}

(* The last conjunct is the lockout guard. *)
validate_config(c, secrets) ==
    /\ c.mode \in AuthModes /\ c.maps # "odd"
    /\ \A p \in enabled_providers(c) : WellFormed(c.conf[p]) /\ p \in secrets
    /\ c.mode = "oidc" => enabled_providers(c) # {}

ProxyModes == {"NONE", "SYSTEM", "EXPLICIT"}

ExplicitHasUrl(c) == c.mode = "EXPLICIT" => c.url # ""

Valid(kind, c) == IF kind = "proxy" THEN c.mode \in ProxyModes /\ ExplicitHasUrl(c)
                  ELSE validate_config(c, env.secrets)

(* The CHECK constraints of the tables. *)
Checked(kind, c) ==
    IF kind = "proxy" THEN c.mode \in ProxyModes /\ ExplicitHasUrl(c)
    ELSE c.mode \in AuthModes /\ (c.mode = "oidc" => \E p \in Providers : c.on[p])

(* What pydantic lets through to the handler: a known mode, and a proxy    *)
(* URL that is empty, or absolute and without credentials.                 *)
Accepted(kind, form) ==
    kind = "proxy" => /\ "mode" \in DOMAIN form => form.mode \in ProxyModes
                      /\ "url" \in DOMAIN form => form.url # "odd"

(* A configuration with the fields of a form; those of providers are       *)
(* themselves patches.                                                     *)
Patched(kind, c, form) ==
    [f \in DOMAIN c |-> IF f \notin DOMAIN form THEN c[f]
                        ELSE IF f \in {"on", "conf"} THEN form[f] @@ c[f]
                        ELSE form[f]]

-----------------------------------------------------------------------------
(* The registry of providers                                               *)

Unregistered == [done |-> FALSE, have |-> [p \in Providers |-> ""]]

(* Enabled providers that are not registered yet are. *)
register_providers(reg, c) ==
    [done |-> TRUE,
     have |-> [p \in Providers |->
                  IF reg.have[p] = "" /\ p \in enabled_providers(c)
                  THEN c.conf[p] ELSE reg.have[p]]]

(* Mutant: only the flag is reset. *)
reset_registration_Flag(reg) == [reg EXCEPT !.done = FALSE]

reset_registration(reg) == Unregistered

-----------------------------------------------------------------------------
(* The life of the process                                                 *)

Init ==
    /\ EgressInit /\ MigrationsInit
    /\ phase = "down"
    /\ env \in Envs
    /\ row = [k \in Kinds |-> {}]
    /\ sso = {}
    /\ registry = Unregistered
    /\ task = [t \in Tasks |-> Idle]
    /\ edits = 0 /\ faults = 0

(* validate_proxy_settings: junk in the environment ends the start. *)
EnvAccepted(e) == /\ e.proxy.mode \in ProxyModes /\ ExplicitHasUrl(e.proxy)
                  /\ e.proxy.url # "odd"

Start(e, h) == /\ phase = "down"
               /\ EnvAccepted(e)
               /\ phase' = "inspect"
               /\ env' = e
               /\ head' = h
               /\ UNCHANGED <<evars, db, work, row, sso, registry, task, edits, faults>>

Advance(from, to) == phase = from /\ phase' = to

init_db ==
    /\ \/ Advance("inspect", "upgrade") /\ Inspect
       \/ Advance("upgrade", "upgrade") /\ Upgrade
       \/ Advance("upgrade", "proxy") /\ CommitSchema
       \/ Advance("inspect", "down") /\ CannotStart /\ UNCHANGED mvars
    /\ UNCHANGED <<evars, env, row, sso, registry, task, edits, faults>>

(* The row, made from the environment if it is not there. *)
ensure_seeded(kind) == IF row[kind] = {} THEN {env[kind]} ELSE row[kind]

(* proxy_settings.refresh_cache; the database may fail, which ends the     *)
(* start.                                                                  *)
LoadProxy ==
    /\ \/ /\ Advance("proxy", "oidc")
          /\ row' = [row EXCEPT !.proxy = ensure_seeded("proxy")]
          /\ config' = CHOOSE c \in ensure_seeded("proxy") : TRUE
          /\ UNCHANGED faults
       \/ /\ Advance("proxy", "down")
          /\ faults < MaxFaults
          /\ faults' = faults + 1
          /\ UNCHANGED <<config, row>>
    /\ UNCHANGED <<pool, req, mvars, env, sso, registry, task, edits>>

(* oidc_settings.refresh_cache and the first registration.  An environment *)
(* that is not valid makes no row; a row that is not valid is not loaded.  *)
LoadOidc ==
    LET c == CHOOSE c \in ensure_seeded("oidc") : TRUE IN
    /\ \/ /\ Advance("oidc", "up")
          /\ validate_config(c, env.secrets)
          /\ row' = [row EXCEPT !.oidc = {c}]
          /\ sso' = {c}
          /\ registry' = register_providers(reset_registration(registry), c)
          /\ UNCHANGED config
       \/ /\ Advance("oidc", "down")
          /\ ~validate_config(c, env.secrets)
          /\ config' = NotLoaded
          /\ UNCHANGED <<row, sso, registry>>
    /\ UNCHANGED <<pool, req, mvars, env, task, edits, faults>>

(* A crash, or a shutdown: what is in memory goes, with the transports and *)
(* with a transaction that was under way.                                  *)
Stop ==
    /\ phase # "down"
    /\ faults < MaxFaults
    /\ faults' = faults + 1
    /\ phase' = "down"
    /\ config' = NotLoaded /\ sso' = {} /\ registry' = Unregistered
    /\ pool' = NoTransports /\ work' = NoWork
    /\ req' = [r \in Requests |-> NoRequest]
    /\ task' = [t \in Tasks |-> Idle]
    /\ UNCHANGED <<db, head, env, row, edits>>

-----------------------------------------------------------------------------
(* A save: put_proxy_settings, put_oidc_settings                           *)

OnlyTask(t, new) == /\ task' = [task EXCEPT ![t] = new]
                    /\ UNCHANGED <<evars, mvars, phase, env, row, sso, registry,
                                   edits, faults>>

(* ensure_seeded finds the row the start has made. *)
Save(t, kind, form) ==
    /\ phase = "up" /\ task[t] = Idle
    /\ edits < MaxEdits
    /\ Accepted(kind, form)
    /\ edits' = edits + 1
    /\ task' = [task EXCEPT ![t] = [Idle EXCEPT !.pc = "lock", !.kind = kind,
                                                !.form = form]]
    /\ UNCHANGED <<evars, mvars, phase, env, row, sso, registry, faults>>

(* Mutant: the row is read without FOR UPDATE. *)
Locked_None(kind) == FALSE

(* The row lock of SELECT ... FOR UPDATE, held until the commit. *)
Locked(kind) == \E t \in Tasks : task[t].pc = "commit" /\ task[t].kind = kind

(* update_settings up to the commit: nothing is written of a patch that    *)
(* makes an invalid configuration, nor of a sign-on patch without effect.  *)
Lock(t) ==
    LET kind == task[t].kind
        now == CHOOSE c \in row[kind] : TRUE
        cand == Patched(kind, now, task[t].form)
    IN /\ task[t].pc = "lock" /\ ~Locked(kind)
       /\ OnlyTask(t, IF ~Valid(kind, cand) \/ (kind = "oidc" /\ cand = now) THEN Idle
                      ELSE [task[t] EXCEPT !.pc = "commit", !.seen = {now},
                                           !.cand = {cand}])

(* The UPDATE of the ORM sets the columns that differ from the row as it   *)
(* was read; "on" and "conf" are columns of each provider.                 *)
Set(column, was, new) == IF new = was THEN column ELSE new

Written(c, was, new) ==
    [f \in DOMAIN c |->
        IF f \in {"on", "conf"}
        THEN [p \in Providers |-> Set(c[f][p], was[f][p], new[f][p])]
        ELSE Set(c[f], was[f], new[f])]

NewRow(t) == {Written(c, was, cand) : c \in row[task[t].kind], was \in task[t].seen,
                                      cand \in task[t].cand}

(* The row and its audit record are written together; a row that a         *)
(* constraint of the table refuses is rolled back.                         *)
CommitRow(t) ==
    LET kind == task[t].kind
        ok == \A c \in NewRow(t) : Checked(kind, c)
    IN /\ task[t].pc = "commit"
       /\ row' = IF ok THEN [row EXCEPT ![kind] = NewRow(t)] ELSE row
       /\ task' = [task EXCEPT ![t] = IF ok THEN [@ EXCEPT !.pc = "refresh"] ELSE Idle]
       /\ UNCHANGED <<evars, mvars, phase, env, sso, registry, edits, faults>>

(* session.refresh(row): the row as it is by then. *)
Refresh(t) ==
    /\ task[t].pc = "refresh"
    /\ OnlyTask(t, [task[t] EXCEPT !.pc = "set", !.seen = row[task[t].kind]])

(* set_config with what was read, and the registry reset with it. *)
SetConfig(t) ==
    /\ task[t].pc = "set"
    /\ IF task[t].kind = "proxy"
       THEN /\ config' = CHOOSE c \in task[t].seen : TRUE
            /\ UNCHANGED <<sso, registry>>
       ELSE /\ sso' = task[t].seen
            /\ registry' = reset_registration(registry)
            /\ UNCHANGED config
    /\ task' = [task EXCEPT ![t] = Idle]
    /\ UNCHANGED <<pool, req, mvars, phase, env, row, edits, faults>>

(* The database fails: before the commit nothing is written, after it the  *)
(* snapshot is not set.                                                    *)
SaveFails(t) ==
    /\ task[t].pc \in {"commit", "refresh"}
    /\ faults < MaxFaults
    /\ faults' = faults + 1
    /\ task' = [task EXCEPT ![t] = Idle]
    /\ UNCHANGED <<evars, mvars, phase, env, row, sso, registry, edits>>

(* test_proxy reads the row and sets the snapshot before it dials with     *)
(* what it read, over a client of its own.                                 *)
ProbeRead(t) ==
    /\ phase = "up" /\ task[t] = Idle
    /\ OnlyTask(t, [Idle EXCEPT !.pc = "set", !.seen = row.proxy])

(* A sign-on or sign-off: ensure_registered. *)
ensure_registered ==
    /\ phase = "up" /\ ~registry.done
    /\ registry' = register_providers(registry, CHOOSE c \in sso : TRUE)
    /\ UNCHANGED <<evars, mvars, phase, env, row, sso, task, edits, faults>>

Egressing == phase = "up" /\ EgressNext /\ UNCHANGED <<mvars, svars>>

Admin(t) ==
    \/ \E f \in ProxyForms : Save(t, "proxy", f)
    \/ \E f \in OidcForms : Save(t, "oidc", f)
    \/ Lock(t) \/ CommitRow(t) \/ Refresh(t) \/ SetConfig(t) \/ SaveFails(t)
    \/ ProbeRead(t)

Next ==
    \/ \E e \in Envs, h \in Releases : Start(e, h)
    \/ init_db \/ LoadProxy \/ LoadOidc \/ Stop
    \/ \E t \in Tasks : Admin(t)
    \/ ensure_registered
    \/ Egressing

Spec == Init /\ [][Next]_vars

-----------------------------------------------------------------------------

(* oidc/config.py, the lockout guard: whoever edits what at the same time, *)
(* the stored settings and the ones in force let somebody sign in, with a  *)
(* password or through a provider that is complete and has its secret; so  *)
(* the process also comes up again with the environment it has.            *)
AWayIn ==
    phase = "up" => \A c \in row.oidc \cup sso :
        \/ c.mode \in {"local", "both"}
        \/ \E p \in Providers : c.on[p] /\ WellFormed(c.conf[p]) /\ p \in env.secrets

(* oidc/service.py: once registered, the providers are those of the        *)
(* snapshot in force, with its client ids and addresses, and no other.     *)
RegistryCurrent ==
    registry.done => \A c \in sso, p \in Providers :
        registry.have[p] = IF p \in enabled_providers(c) THEN c.conf[p] ELSE ""

(* database.py: a process that serves has the schema of its release, and   *)
(* the stamp says so, whatever database it started from.                   *)
SchemaAtHead ==
    phase \notin {"down", "inspect", "upgrade"} => db = Database(head, head)

=============================================================================
