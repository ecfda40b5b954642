---------------------------- MODULE Destinations -----------------------------
(***************************************************************************)
(* Alert destinations and rules (app/routes/alerts.py), the senders that   *)
(* check and use them (app/senders), and the pinned delivery of            *)
(* app/webhooks.py, as fire_alerts of app/notifications.py drives it.      *)
(*                                                                         *)
(* A PATCH of a destination reads the row under its lock, validates the    *)
(* resulting kind, target and config with the sender of the kind - which   *)
(* asks the DNS - and commits.  fire_alerts reads rules and destinations   *)
(* once and then sends for as long as it takes, while they are edited,     *)
(* deleted and the names in them resolve to something else.  What is sent  *)
(* (payloads, headers' wording) is left out, but for the credential the    *)
(* ticket kinds attach.  When an alert is fired again is the subject of    *)
(* AlertPipeline.                                                          *)
(***************************************************************************)
EXTENDS Naturals, FiniteSets

CONSTANTS
    NoVal,        \* None; in a table, a row that is not inserted yet
    Gone,         \* a row that is deleted: ids are not used again
    Users,        \* administrators, each with an extension of its own
    Dests, Rules, \* ids destinations and rules may get
    Patches,      \* concurrent PATCH requests of destinations
    Bodies,       \* what a PATCH may hold: kind, target, config, enabled, each possibly NoVal
    Targets,      \* [scheme, host, proper]: proper is FALSE with userinfo, a bad port, no host,
                  \*   or a blocked name; recipients have the scheme "mailto"
    Hosts,        \* names in targets
    Public,       \* addresses that are global
    Private,      \* addresses that are not
    smtp,         \* SMTP is configured
    MaxEdits,     \* bound: successful edits of destinations and rules
    MaxMoves,     \* bound: changes of the DNS
    MaxSends      \* bound: alerts and tests fired

ASSUME AddressAssumption == Public \cap Private = {} /\ NoVal \notin Users

HttpKinds   == {"webhook", "jira"}    \* slack and teams are webhooks, servicenow is a jira
Kinds       == HttpKinds \cup {"email"}
Configs     == {"none", "secret_ref"} \* whether a secret reference and its fields are given

DestRows == [user : Users, kind : Kinds, target : Targets, config : Configs, enabled : BOOLEAN]
RuleRows == [user : Users, dest : Dests, enabled : BOOLEAN]

(* None and a deleted row are no rows; a PATCH has the fields of its       *)
(* schema, of which the owner is none.                                     *)
ASSUME RowAssumption == {NoVal, Gone} \cap (DestRows \cup RuleRows) = {}
ASSUME BodyAssumption ==
    Bodies \subseteq [kind : Kinds \cup {NoVal}, target : Targets \cup {NoVal},
                      config : Configs \cup {NoVal}, enabled : BOOLEAN \cup {NoVal}]

VARIABLES
    dns,      \* name -> addresses it resolves to now (environment)
    dests,    \* AlertDestination rows, NoVal where there is none
    rules,    \* AlertRule rows
    log,      \* AlertLog rows
    patch,    \* PATCH requests under way
    fire,     \* fire_alerts or test_destination of a user under way
    wire,     \* history: every POST or mail that left
    edits, moves, sends

vars == <<dns, dests, rules, log, patch, fire, wire, edits, moves, sends>>

Quiet == [pc |-> "idle", todo |-> {}, cur |-> NoVal, ip |-> NoVal, done |-> {}]
NoPatch == [dest |-> NoVal, read |-> NoVal, body |-> NoVal]

Init ==
    /\ dns \in [Hosts -> {{p} : p \in Public}]
    /\ dests = [d \in Dests |-> NoVal]
    /\ rules = [r \in Rules |-> NoVal]
    /\ log = {} /\ wire = {}
    /\ patch = [q \in Patches |-> NoPatch]
    /\ fire = [u \in Users |-> Quiet]
    /\ edits = 0 /\ moves = 0 /\ sends = 0

Edit == edits < MaxEdits /\ edits' = edits + 1

(* A name moves: to other addresses, to a private one among them, or away. *)
Move ==
    /\ moves < MaxMoves /\ moves' = moves + 1
    /\ \E h \in Hosts, ips \in SUBSET (Public \cup Private) :
          ips # dns[h] /\ dns' = [dns EXCEPT ![h] = ips]
    /\ UNCHANGED <<dests, rules, log, patch, fire, wire, edits, sends>>

-----------------------------------------------------------------------------
(* Validation.                                                             *)

(* The addresses of a host now: its own when it is one.                    *)
_resolve_host(h) == IF h \in Hosts THEN dns[h] ELSE {h}

(* Every address must be global, and there must be one.                    *)
validate_webhook_url(t) ==
    /\ t.scheme \in {"http", "https"} /\ t.proper
    /\ _resolve_host(t.host) # {} /\ _resolve_host(t.host) \subseteq Public

_needs_https(kind, t) == kind = "jira" /\ t.scheme # "https"

(* The part of a kind's rules that does not depend on the DNS.             *)
Shaped(d) ==
    IF d.kind = "email" THEN smtp /\ d.target.scheme = "mailto" /\ d.target.proper
    ELSE /\ d.target.scheme \in {"http", "https"} /\ d.target.proper
         /\ ~_needs_https(d.kind, d.target)
         /\ d.kind = "jira" => d.config = "secret_ref"

(* sender.validate of the kind.                                            *)
_validate_destination(d) ==
    Shaped(d) /\ (d.kind \in HttpKinds => validate_webhook_url(d.target))

-----------------------------------------------------------------------------
(* The routes.                                                             *)

Locked(d) == \E q \in Patches : patch[q].dest = d

Live(table, id) == table[id] \notin {NoVal, Gone}

get_owned_or_404(table, id, u) == Live(table, id) /\ table[id].user = u

create_destination(u, d) ==
    /\ Edit
    /\ dests[d] = NoVal
    /\ \E k \in Kinds, t \in Targets, c \in Configs :
          LET new == [user |-> u, kind |-> k, target |-> t, config |-> c, enabled |-> TRUE]
          IN _validate_destination(new) /\ dests' = [dests EXCEPT ![d] = new]
    /\ UNCHANGED <<dns, rules, log, patch, fire, wire, moves, sends>>

(* Mutant: the row is read without the lock.                               *)
LockForUpdate_Unlocked(d, u) == get_owned_or_404(dests, d, u)

(* get_owned_or_404 with for_update: waits for the lock, then reads.       *)
LockForUpdate(d, u) == get_owned_or_404(dests, d, u) /\ ~Locked(d)

(* update_destination up to the validation.                                *)
PatchRead(q, u, d) ==
    /\ patch[q] = NoPatch
    /\ LockForUpdate(d, u)
    /\ \E body \in Bodies :
          patch' = [patch EXCEPT ![q] = [dest |-> d, read |-> dests[d], body |-> body]]
    /\ UNCHANGED <<dns, dests, rules, log, fire, wire, edits, moves, sends>>

Result(q) ==
    [f \in DOMAIN patch[q].read |->
        IF f \in DOMAIN patch[q].body /\ patch[q].body[f] # NoVal THEN patch[q].body[f] ELSE patch[q].read[f]]

Checked(q) == {f \in {"kind", "target", "config"} : patch[q].body[f] # NoVal} # {}

(* The commit writes the columns that differ from what was read; a 422 or  *)
(* a row that is gone writes nothing.                                      *)
PatchCommit(q) ==
    /\ patch[q] # NoPatch
    /\ LET d  == patch[q].dest
           ok == (Checked(q) => _validate_destination(Result(q))) /\ Live(dests, d) /\ edits < MaxEdits
       IN /\ dests' = IF ok THEN [dests EXCEPT ![d] =
                                    [f \in DOMAIN @ |-> IF Result(q)[f] # patch[q].read[f] THEN Result(q)[f] ELSE @[f]]]
                      ELSE dests
          /\ edits' = IF ok THEN edits + 1 ELSE edits
    /\ patch' = [patch EXCEPT ![q] = NoPatch]
    /\ UNCHANGED <<dns, rules, log, fire, wire, moves, sends>>

(* Foreign keys: the rules go, the history stays without its links.        *)
delete_destination(u, d) ==
    /\ Edit
    /\ get_owned_or_404(dests, d, u) /\ ~Locked(d)
    /\ LET gone == {r \in Rules : Live(rules, r) /\ rules[r].dest = d}
       IN /\ dests' = [dests EXCEPT ![d] = Gone]
          /\ rules' = [r \in Rules |-> IF r \in gone THEN Gone ELSE rules[r]]
          /\ log' = {[e EXCEPT !.dest = IF @ = d THEN NoVal ELSE @,
                               !.rule = IF @ \in gone THEN NoVal ELSE @] : e \in log}
    /\ UNCHANGED <<dns, patch, fire, wire, moves, sends>>

(* Mutant: the destination of a rule may be anybody's.                     *)
RuleMayTarget_Any(u, d) == Live(dests, d)

(* create_rule and update_rule look the destination up as the user's own.  *)
RuleMayTarget(u, d) == get_owned_or_404(dests, d, u)

create_rule(u, r, d) ==
    /\ Edit
    /\ rules[r] = NoVal
    /\ RuleMayTarget(u, d)
    /\ rules' = [rules EXCEPT ![r] = [user |-> u, dest |-> d, enabled |-> TRUE]]
    /\ UNCHANGED <<dns, dests, log, patch, fire, wire, moves, sends>>

update_rule(u, r) ==
    /\ Edit
    /\ get_owned_or_404(rules, r, u)
    /\ \/ \E d \in Dests : RuleMayTarget(u, d) /\ rules' = [rules EXCEPT ![r].dest = d]
       \/ \E b \in BOOLEAN : rules' = [rules EXCEPT ![r].enabled = b]
    /\ UNCHANGED <<dns, dests, log, patch, fire, wire, moves, sends>>

delete_rule(u, r) ==
    /\ Edit
    /\ get_owned_or_404(rules, r, u)
    /\ rules' = [rules EXCEPT ![r] = Gone]
    /\ log' = {[e EXCEPT !.rule = IF @ = r THEN NoVal ELSE @] : e \in log}
    /\ UNCHANGED <<dns, dests, patch, fire, wire, moves, sends>>

-----------------------------------------------------------------------------
(* Delivery.                                                               *)

(* fire_alerts reads the enabled rules of the owner and their enabled      *)
(* destinations; none is nothing to do.                                    *)
fire_alerts(u) ==
    /\ sends < MaxSends /\ sends' = sends + 1
    /\ fire[u].pc = "idle"
    /\ LET todo == {[rule |-> r, dest |-> rules[r].dest, copy |-> dests[rules[r].dest]] :
                      r \in {x \in Rules : /\ Live(rules, x) /\ rules[x].user = u /\ rules[x].enabled
                                           /\ dests[rules[x].dest].enabled}}
       IN todo # {} /\ fire' = [fire EXCEPT ![u] = [Quiet EXCEPT !.pc = "next", !.todo = todo]]
    /\ UNCHANGED <<dns, dests, rules, log, patch, wire, edits, moves>>

(* test_destination: the same send, without a rule and without a log row.  *)
test_destination(u, d) ==
    /\ sends < MaxSends /\ sends' = sends + 1
    /\ fire[u].pc = "idle"
    /\ get_owned_or_404(dests, d, u)
    /\ fire' = [fire EXCEPT ![u] =
                   [Quiet EXCEPT !.pc = "next", !.todo = {[rule |-> NoVal, dest |-> d, copy |-> dests[d]]}]]
    /\ UNCHANGED <<dns, dests, rules, log, patch, wire, edits, moves>>

LogRow(u, item, ok) ==
    IF item.rule = NoVal THEN {} ELSE {[user |-> u, rule |-> item.rule, dest |-> item.dest, ok |-> ok]}

Finish(u, item, ok) ==
    fire' = [fire EXCEPT ![u].pc = "next", ![u].cur = NoVal, ![u].ip = NoVal,
                         ![u].done = @ \cup LogRow(u, item, ok)]

(* sender.send up to the resolution of the name: what may not be sent is   *)
(* refused and logged as failed, mail needs no address.                    *)
Send(u) ==
    /\ fire[u].pc = "next"
    /\ \E item \in fire[u].todo :
          LET d     == item.copy
              fit   == IF d.kind = "email" THEN smtp
                       ELSE ~_needs_https(d.kind, d.target) /\ validate_webhook_url(d.target)
              rest  == [fire[u] EXCEPT !.todo = @ \ {item}]
          IN \/ /\ ~fit
                /\ fire' = [fire EXCEPT ![u] = [rest EXCEPT !.done = @ \cup LogRow(u, item, FALSE)]]
             \/ /\ fit
                /\ \E ip \in IF d.kind = "email" THEN {NoVal} ELSE _resolve_host(d.target.host) :
                      fire' = [fire EXCEPT ![u] = [rest EXCEPT !.pc = "dial", !.cur = item, !.ip = ip]]
    /\ UNCHANGED <<dns, dests, rules, log, patch, wire, edits, moves, sends>>

(* Mutant: the request is made to the name, which is resolved again.       *)
Addresses_Name(u) ==
    IF fire[u].ip = NoVal THEN {NoVal} ELSE _resolve_host(fire[u].cur.copy.target.host)

(* The request is made to the address that was validated.                  *)
Addresses(u) == {fire[u].ip}

(* send_pinned_request's post, or the mail.  The answer, or the lack of    *)
(* one, is logged; redirects are not followed and a POST is sent once.     *)
Dial(u) ==
    /\ fire[u].pc = "dial"
    /\ LET item == fire[u].cur
       IN /\ \E ip \in Addresses(u) :
                wire' = wire \cup {[user |-> u, to |-> item.copy.target, owner |-> item.copy.user, ip |-> ip,
                                    credential |-> item.copy.kind = "jira"]}
          /\ \E ok \in BOOLEAN : Finish(u, item, ok)
    /\ UNCHANGED <<dns, dests, rules, log, patch, edits, moves, sends>>

(* The AlertLog rows are committed together; a rule or destination that    *)
(* was deleted meanwhile fails them all.                                   *)
CommitLog(u) ==
    /\ fire[u].pc = "next" /\ fire[u].todo = {}
    /\ log' = IF \A e \in fire[u].done : Live(rules, e.rule) /\ Live(dests, e.dest)
              THEN log \cup fire[u].done ELSE log
    /\ fire' = [fire EXCEPT ![u] = Quiet]
    /\ UNCHANGED <<dns, dests, rules, patch, wire, edits, moves, sends>>

Next ==
    \/ Move
    \/ \E q \in Patches : PatchCommit(q)
    \/ \E u \in Users :
          \/ \E d \in Dests :
                \/ create_destination(u, d) \/ delete_destination(u, d) \/ test_destination(u, d)
                \/ \E q \in Patches : PatchRead(q, u, d)
                \/ \E r \in Rules : create_rule(u, r, d)
          \/ \E r \in Rules : update_rule(u, r) \/ delete_rule(u, r)
          \/ fire_alerts(u) \/ Send(u) \/ Dial(u) \/ CommitLog(u)

Spec == Init /\ [][Next]_vars

-----------------------------------------------------------------------------
(* However partial updates interleave, what is stored is a kind, a target  *)
(* and a config that the kind's sender accepts together: no request leaves *)
(* a mail destination with a URL or a ticket system without https.         *)
JointlyValid == \A d \in Dests : Live(dests, d) => Shaped(dests[d])

(* Whatever the DNS says between validation, save and send, the address    *)
(* that is dialled is global, and a credential travels over https only.    *)
PinnedPublic ==
    \A w \in wire : /\ w.ip # NoVal => w.ip \in Public
                    /\ w.credential => w.to.scheme = "https"

(* The alerts of a user's extensions go to targets this user has saved:    *)
(* fire_alerts itself never compares the owners of rule and destination.   *)
OwnersOnly == \A w \in wire : w.owner = w.user

=============================================================================
