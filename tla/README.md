# Verification of IcebergEBS in TLA+

IcebergEBS keeps a watchlist of browser and editor extensions, fetches and
scores them on a schedule, matches them against threat lists, and alerts the
owners of rows that change. This directory holds TLA+ models of the parts of it
that several tasks touch at once, that must survive a crash, or that count
something; the TLC runs that check them on small instances; and proofs, checked
by TLAPS, of what matters most about them. `PROJECT.json` holds the
machine-readable side: which definition models which lines, which properties
each run checks, a deliberate fault (mutant) each property catches, and the
hazards of the code.

To repeat a run: `tlc -config AlertPipeline.cfg MCAlertPipeline`. To
repeat a proof: `tlapm AlertPipelineProofs.tla`.

## 1. The system

One FastAPI process (asyncio, one event loop), one PostgreSQL database under
READ COMMITTED, one in-process APScheduler. Concurrency is between asyncio tasks
at their `await`s (requests and scheduled jobs), and between transactions.

| Component | State | Operations | Talks to |
|---|---|---|---|
| Alert pipeline (`services.py`, `notifications.py`) | `Extension` row, `pending_alert_events` marker, `AlertLog` | detect changes, merge into the marker, deliver, acknowledge, recover | scheduler, API, senders |
| Refresh cycle (`scheduler.py`, `main.py`) | watchlist snapshot, circuit breaker, `FetchLog`, heartbeat, in-flight tasks | cycle, outage log, drain, restart | alert pipeline, stores |
| Risk posture (`scoring.py`, `services.py`, `routes/api.py`, `extension_queries.py`) | score, level, `risk_detail`, override, match, finding | triage, threat matches, store of an analysis, filter | all writers of a row |
| Enrolment (`routes/api.py`, `audit.py`) | placeholder row, audit trail | add, bulk, inventory enrolment, cleanup, delete | threat list, scheduler |
| Inventory (`routes/api.py`, `retention.py`) | `InstallObservation`, footprint | batch upsert, decay, prune | enrolment |
| Login throttle (`ratelimit.py`, `routes/ui.py`) | map of failure windows | look up, record, reset, evict | login |
| Edge rate limit (`ratelimit.py`, `main.py`) | map of token buckets | check, prune | every request |
| Accounts, sessions, API keys (`auth.py`, `deps.py`, `routes/users.py`, `routes/keys.py`) | users, JWT cookies, key hashes | seed, create and delete accounts; log in, change password, revoke | everything behind a login |
| Single sign-on (`oidc/`, `routes/oidc*.py`) | provider metadata, state cookie, accounts of providers | handshake, match, provision, sync role, tenant and address | accounts |
| Outbound proxy (`proxy.py`, `proxy_settings.py`, `routes/proxy.py`) | settings row, snapshot in the process, cached transports | seed, save, reload, probe, route | fetchers, senders |
| Sign-on settings (`oidc_settings.py`, `oidc/config.py`) | settings row, snapshot, registry of providers | seed, validate, save, reload, register | single sign-on |
| Database startup (`database.py`, `main.py`) | Alembic revision, schema | inspect, adopt, refuse, upgrade | every start |
| Fetchers, retry transport (`fetchers/`) | none across calls but the transports | list, download, fall back, retry | stores |
| Package inspector, difference, component scores (`inspector.py`, `package_diff.py`, `scoring.py`) | `package_analysis`, `PackageSnapshot` rows | inspect, score, compare with the newest snapshot | refresh |
| Destinations, rules, senders (`routes/alerts.py`, `senders/`, `webhooks.py`) | rules, destinations, `AlertLog` | create, patch, delete, test, validate, resolve, send | alert pipeline |
| Pages, configuration, logging | none | render | |

What is hard here: a fetch takes seconds and its result is stored over a row that
anyone may have changed meanwhile; an alert must survive a crash between the
commit of its change and its delivery, without being lost when deliveries,
acknowledgements and recovery overlap; the scheduler must visit every row
whatever happens to one; counts are read in one statement and written in another;
limiters are consulted before an `await` and updated after it; settings are
edited while they are in force; a package is downloaded after the listing that
describes it; a name is resolved again after it was validated. `PROJECT.json`
lists the hazards line by line with the properties that cover each.

Tests run these paths one at a time; the models run them in every order.

## 2. The modules

Every transaction that holds its row lock from first read to commit is one
action; every `await` between transactions separates two. Variables marked
`history` record what happened for a property to speak about and influence
nothing. Every module has a bound on each unbounded thing (`MaxEdits`,
`MaxFaults`, `MaxCrashes`, `MaxRows`, `MaxBatches`, `MaxTime`, `MaxUsers`,
`MaxAccounts`, `MaxChanges`, `MaxCookies`, `MaxMoves`, `MaxSends`, and
`MaxFailures` in `MCLoginThrottle`). It guards the environment's actions only,
except that `MaxUsers` ends the inserts of accounts.

**AlertPipeline** - one `Extension` row (rows share nothing in this protocol), a
scheduler task and request tasks. `task[t].pc` is the `await` the task is at.
`recover_pending_alerts`, `apply_existing_threat_posture`, `Fetch`, `Store`,
`Reload`, `Match`/`Dismiss`, `Send`, `Log`/`LogFail`, `_ack_pending_events` and
`_clear_pending_alerts` are the steps of the code under those names; store
changes, rule changes, ingestion, orphaning, deletion and a crash are the
environment. An event in the marker carries the number of the merge that
recorded it; the number is not in the database and no guard looks at it except
through the order of the list. Of the change events it has `new_version` and
`threat_match`: the others take the same path.

**Outbox** - the abstract specification of alerting: changes are committed and
pending in one step, told at least once, put on record only when told, waived only
because nobody asked, forgotten only when on record or waived. `AlertPipeline`
implements it (`KeepsPromise`, an `INSTANCE Outbox WITH` a refinement mapping):
`pending` is what can be parsed from the marker, `told` what a sender was given,
`recorded` the events with `AlertLog` rows, `waived` those without a rule.

**RefreshCycle** - the cycle over several rows of several stores. What a refresh
does to its row is reduced to the four outcomes of `_Outcome`; the `FetchLog` of
the cycle, which may fail to be written, the heartbeat, the drain and a restart
are modelled.

**RiskPosture** - one row and its three writers: `update_extension_triage`,
`apply_threat_matches`, and `fetch_and_store` in two steps, what it read before
the fetch and what it decides under the lock. Scores are integers 0..100; the sum
of an analysis is an input.

**Enrollment** - one identity (user, store, extension id), whose row may be
inserted, removed and inserted again, and the audit trail about each. The steps of
an add are those of `_enroll_extension`: the insert with its audit row, the
read-back of the row (`ReadBack`, which fails outside the `try` that cleans up), the
posture, the fetch, the reload, and after a failure the cleanup. The cleanup
(`LockOrphan`, `_discard_placeholder`) and an ingestion (`LockMatch`, `IngestCommit`)
read the row under its lock in one step and write in another, so the lock is a
variable here.

**Inventory** - the observations and the footprint of one extension under
overlapping batches, the decay job, the prune and a deletion.

**RateLimits**, **LoginThrottle**, **TokenBucket** - the two limiters with their
maps at the limit; `RateLimits` has the clock and the limit they share. Time is in whole seconds; a bucket's content is in sixtieths of a
request, so that the accrual of `per_minute / 60` is exact.

**SignOn** - the user table under overlapping callbacks, creations and deletions,
and the seed at startup. Every statement of `provision_oidc_user` is a step,
because READ COMMITTED lets another commit fall between a check and its write;
what saves the code are the unique indexes (`UsernameTaken`, `IdentTaken`,
`SsoEmailTaken`), the `FOR UPDATE` of `_match_identity` (`Locked`) and the
`KEY SHARE` lock that the foreign key of an audit row takes on the acting account
(`KeyShared`). Locks are not variables: who holds one follows from where each
request is. A callback starts from validated claims; what an administrator types
is a form; both are constants.

**Sessions** - the credentials of one username: cookies (which name the username,
not the account, so accounts that bear it one after the other matter), API keys,
and what ends them. A request reads the account in one step and acts on what it
read in a later one; `change_password` takes its time, locks the row and deletes
the keys, and commits in three. Time is in ticks, several to a second, because a
cookie's time is cut to whole seconds and the marker's is not. The life of a key,
`KeyMaxAge`, is 0 where `api_key_sso_max_age_days` disables it. `SignOn` has the
life of accounts in detail; here they are created and deleted in one step.

**Egress** - outbound requests. A request is due or on the wire; each attempt is
routed by the snapshot as it is then (`resolve_proxy_url`, the bypass list, the
environment), takes the cached transport or builds one, and a failed attempt is
repeated after a delay from `_backoff_delay` (full jitter: any value up to the
bound) or from `Retry-After`, cut at `_MAX_SLEEP_SECONDS`.

**Migrations** - `_run_migrations` on every kind of database a process may find.
Revisions are numbered; what a schema is and what its stamp says are two numbers,
because the code exists for the cases in which they differ. A stamp that a later
release has left is unknown to this one, and every command of Alembic fails on it.

**LiveSettings** - extends both: the life of a process from `init_db` through the
two `refresh_cache`s to shutdown, the settings rows and their snapshots, two
administrators whose patches are read, validated and written under a row lock
(`Lock`, `CommitRow`) and put into the process in later steps (`Refresh`,
`SetConfig`). As an ORM does, a commit writes only the columns that differ from the
row as it was read (`Written`), so that two patches could add up to a row that
neither has validated, were it not for the lock. Besides, the connectivity probe, and the registry of providers.

**Inspector**, **Scoring** - pure operators: which manifest has the word, what of
it are permissions, which files are scanned, findings with severities and cap,
domains; the component scores, their sum and bands; the difference of two
analyses. What a regular expression finds in a file is a property of the file, and
which publisher names `_looks_generic` takes for generic is a constant.

**Analysis** - extends them: refreshes of one extension whose store changes
between listing and download. `fetch_metadata` and `download_package` are two
steps, `fetch_and_store` under the row lock is the third, with its keep-stale
rules, its snapshots and its events.

**Destinations** - destinations and rules of several users, with `PATCH` in two
steps (the row is read under its lock; the validation, which asks the DNS, and
the commit come later), delivery over rules and destinations read at its start,
and a DNS that moves.

The modules meet in the row they share: `RefreshCycle` abstracts
`AlertPipeline`'s refresh to its outcome; `RiskPosture` and `Enrollment` treat
the ingestion that `AlertPipeline` follows through its alerts as one or two
transactions on theirs; `Analysis` detects the events whose delivery is
`AlertPipeline`'s, and `Destinations` follows one `Send` of it to the wire.

## 3. The runs

| Run | Distinct states | Properties |
|---|---|---|
| `alert` | 453 thousand | `NoEventLost`, `KeepsPromise`, `ThreatSticks`, `MarkerDrains`, `RowConverges` |
| `cycle` | 1.5 million | `OpenMeansFailureRun`, `CycleCompletes`, `KeepsRefreshing` |
| `login_safety` | 2.5 million | `FailuresBounded`, `LockedForCause` |
| `bucket_safety` | 1.4 million | `WithinRate`, `PromiseKept` |
| `posture_safety` | 873 | `PostureConsistent`, `HeuristicKept` |
| `enroll_safety` | 319 thousand | `AuditTruthful`, `MatchKept`, `NoLeftovers` |
| `inventory` | 974 thousand | `SerialExact`, `FootprintConverges` |
| `sign_on` | 914 thousand | `AnAdminRemains`, `BoundToIdentity`, `OneAccountEach`, `TrailExplains` |
| `sessions` | 4.9 million | `FreshAccepted`, `SupersededEnds`, `KeysEnd`, `OffboardingBounded` |
| `live_settings` | 1.5 million | `AWayIn`, `RegistryCurrent`, `RoutedAsConfigured`, `WaitBounded`, `SchemaAtHead` |
| `analysis` | 572 thousand | `NothingSlipsIn`, `SnapshotTrusted`, `ManifestKept`, `TransientIsSilent` |
| `destinations` | 2.0 million | `JointlyValid`, `PinnedPublic`, `OwnersOnly` |

Each property is stated, with the code it is about, above its definition. A `TypeOK`
is an invariant of the proofs and not of the runs.

Why the bounds are enough. *Alerts*: losing an event takes an owner, a
competitor for the marker (recovery), a new change, and one fault or crash
between two steps of either: one request beside the scheduler, two versions
(events `v1->v2`, `v2->v1` and the match), one edit (the row may start behind the
store, listed or not, with a match pending or with a corrupt marker, so that
each of these costs none), one fault, one crash. The proofs cover every other
size.
*Cycle*: a threshold of 2 with three rows of one store lets a run of failures be
completed, interrupted, and followed by a skipped row; the second store shows
that circuits are separate; every row starts watched; the larger store
may be down at the start and one of its rows delisted, so that the one edit can be the
end of the outage or meet it; two faults, failed writes or internal errors, let an
error follow a log that could not be written.
*Login*: two requests
inside the password check, three keys for a map of two, and a time line of three
windows. *Buckets*: a rate that does not divide 60, so that `Retry-After` is
rounded, and three clients for two buckets. *Posture*: both ends of every band,
two refreshes in flight. *Enrolment*: three requests (an add, its rival and a
deletion or an ingestion), two rows so that a row can come back under a new id,
one fault: a row lock is between a cleanup and one rival, and a row without an
answer takes one failure. *Inventory*: two overlapping batches, two assets, times on both sides
of each window. *Sign-on*: two requests, since each race is between a check and
one rival; three accounts; five claims (one person whose address and groups
change, the same pair from another tenant and from another provider, an address
given to somebody else, an unverified one) and two forms, one of which squats a
derived name. *Sessions*: two requests, since every race is between one that read
and one that writes; two accounts for the name; a key whose place is free again
once it is gone; two ticks to a second and time enough for a key to outlive the
cookie that made it. Keys without an end to their life (`KeyMaxAge = 0`) are left
to the proof. *Live settings*: two administrators, since a race is between
one that read and one that wrote; two releases, so that a database may be of an
older or of a newer one; forms that are valid, invalid, and valid only together;
environments with and without a provider's secret; one request with one retry,
which is enough for the settings to change between its attempts. *Analysis*: three
versions (one modest, one that asks for more and hides a script under another
name, one whose manifest cannot be parsed while a `package.json` lies beside it),
two refreshes, two changes of the store and two losses, so that listing and
download straddle a release while another refresh is half way; two publishers, so
that a change which is none of the package's is among them. *Destinations*: two users and two requests on two
destinations, one rule, four edits (two destinations, the rule, a retarget), a
name that moves once to any set of a public and a private address.

`CHECK_DEADLOCK FALSE` is set where the system may come to rest: in `inventory`
and `sessions` when the extension, or the last account of the name, is deleted and
no request is under way; in `destinations` when the edits are used up.

### Behaviours the models have that a reader may not expect

No run is kept for these; each is a behaviour of the model and of the code. A comment
of the code denies the first two.

- `_enroll_extension` commits the placeholder and reads it back
  (`session.refresh(ext)`, `routes/api.py:672`) before the `try` at 683. When the
  database fails there the request ends without a cleanup (`ReadBackFails`), and an
  unscored row stays on the watchlist until the scheduler reaches it. The comment at
  697 says that no unexpected failure, a database error among them, may leave one.
  `NoLeftovers` is the promise the code does keep, from the read-back on; the variable
  `unread` records the rows it leaves out.
- `_discard_placeholder` looks only at the threat match (line 723), so it deletes a row
  that the scheduler, or a manual refresh, has analysed since the add's own fetch
  failed. The comment at 690 and the docstring at 713 speak of an "unanalysed
  placeholder".
- Recovery and a manual refresh may deliver the same events: delivery is at least
  once. With `a->b` pending, `b->a` and `a->b` again record one `a->b` only. A
  failed acknowledgement ends the refresh before its fetch. Recovery compares the
  marker's text before it clears it: an event acknowledged by its owner and
  appended anew meanwhile reads the same and is cleared with the first.
- Delisted rows that come one after the other open a healthy store's circuit, and
  a row deleted during its fetch counts as a failure of its store.
- The login window is fixed, not rolling: failures on both sides of its end may
  add up to the threshold unlocked. A late failure after the window replaces a
  locked entry.
- The cleanup of a failed add deletes a row that is on the threat list if the
  ingestion missed it. Two deletions of one row, or of one account, are both
  recorded.
- Two overlapping batches may leave a footprint that counts one of them, until
  the next batch or decay; a slower, older batch moves `last_seen` back.
- A local account may take an address between the check and the commit of a
  provisioning: the unique index covers accounts of providers only.
- A login that was comparing the old password when it was changed gets a cookie
  that is newer than the change, and so does one for a name that passed to
  another account meanwhile: `SupersededEnds` says how far this goes. Two
  overlapping changes of a password may set the marker back by the time between
  them.
- Two triage edits of a row that was never analysed leave it with the score 0 and
  the level low: the first leaves a `risk_detail` without components, from which
  the second recovers the sum 0 (`scoring.py:259`).
- A refresh whose download fails is scored at the midpoints of the code and domain
  components (7 and 5), so that it may cross a band and report
  `risk_level_change`; the keep-stale rules of `_effective_values` cover the other
  inputs. `TransientIsSilent` leaves that one type out for this reason.
- The inspector reports a pattern of the form `*://.../*` as broad access,
  `score_permissions` does not score it so.
- The connectivity probe reads the settings row and puts it into the process in a
  later step, as a save does: whichever is last wins, and it may have read first.
  The snapshot is then behind the row until the next save, probe or start.
- Delivery uses the rules and destinations read at its start. Deleting one
  meanwhile makes the foreign keys fail the `AlertLog` rows of the whole batch.
- The audit row of a manual refresh is committed with the threat posture, before
  the fetch it announces (`routes/api.py:1200`).

### Fairness

Only what the code or its deployment guarantees. The interval trigger starts a
cycle again and again (`StartCycle`); every `await` of a started task ends,
because HTTP, the database and the drain have timeouts (`Step`, `Cycle`, `Ingest`,
`JobCommit`, `Stop`); the daily jobs run (`Decay`, `Prune`); the orchestrator
restarts a stopped process (`Restart`). No user, request, store, fault or
crash owes anything.

## 4. The proofs

Eight modules, `AlertPipelineProofs`, `AnalysisProofs`, `SignOnProofs`,
`LimitsProofs`, `DecisionsProofs` (*RiskPosture* and *Destinations*),
`EnrollmentProofs`, `SessionsProofs` and `LiveSettingsProofs`, prove the invariants
of their modules for every value of the constants that the named assumptions allow;
some extend several modules. Each component has an inductive invariant and its proof
one step per action. Every safety property of every run is proved, the action
properties and the refinement included.

*AlertPipeline.* `NoEventLost` is not inductive: a delivery that ends takes events
out of the marker, so one must know that what it takes out is in `handled`. The
inductive invariant adds that a task past its delivery (`ack`) has its events
logged or dismissed, that the events a task holds are recorded occurrences, that
what recovery is to clear (`raw`) is, junk aside, what it delivered, and that
what remains `todo` and what was `sent` make up its events. Assumptions: the
scheduler is no request, the empty version no version, the bounds are numbers.
`ThreatSticks` needs that a match implies a listing; `MarkerDistinct` that every
merge compares with what is pending. `ImplementsOutbox` shows that the initial
states map to initial states of `Outbox` and, with the same inductive invariant,
that every step maps to a step of it or to none: a merge is a `Commit`, a send a
`Tell`, a log a `Record`, a dismissal a `Waive`, a write of the marker a `Forget`
of what is on record, the deletion a `Close`, all else a stutter.

*Analysis, Inspector, Scoring.* The listing a refresh acts on may be gone when its
package arrives. `TasksOK` relates what a refresh holds to the listing it saw: what
was lost is missing and nothing else differs. `AnalysisOf` says what can be made of
whatever arrived of a version (nothing, the permissions of its manifest only, or the
analysis of the published package), `WholePublished` that an undamaged archive gives
the last. `Stored` takes the store step apart once, and `Observed` what it stores of
an inspected package; the proofs of the properties use these two and not the handler.
`SnapshotTrusted` is part of the invariant (`SnapsOK`). `NothingSlipsIn` needs that
every snapshot was announced, not only the newest (`AllKnown`), because a refresh
that was overtaken may bring an older version back. `ManifestKept` follows from
`AnalysisOf` and the keep-stale rules. `TransientIsSilent` needs what the row has in
common with the last listing it showed undamaged (`BasisShown`): its version, its
publisher and, where the package can be inspected, the permissions and a snapshot.
Of the scores, `ScoreIsSum` shows for every listing and analysis that the
components add up to 0..100, so the cap at 100 never bites. *RiskPosture* rests on
this twice: its totals are within the bands (`TotalsAssumption`), and the heuristic
it recovers from the components is the score that was computed.
`MoreIsNoSafer` is monotony: more permissions, findings, remote hosts, eval, remote
code or obfuscation never lower the score. Assumptions: `VersionAssumption` (the mark
for nothing is no version and no listing; a package has a `manifest.json`, of its own
version if it parses: the stores publish no other extension), `NameAssumption` (the
mark is no file name), `CapAssumption` (the cap on findings is a number).

*TokenBucket.* `WithinRate` speaks of requests let through since a point in time.
It follows from an invariant that relates, for every client, the content of its
bucket, the time that has passed and what was let through, and that holds also
for a client whose bucket was dropped, because a bucket is dropped only when it
is full again or by eviction. `PromiseKept` needs the exact accrual and the
rounding up.

*LoginThrottle*, in the second half of `LimitsProofs`. `EntryOK` says which of
the failures of a key an entry stands for: the last `failures` of them, all within
its window, and the last of them set the lock; `LockedForCause` follows at once.
`FailuresBounded` counts the recent failures in two parts, those of the entry and
those before it. While the key is locked no attempt at it begins, so a failure of
the entry and an attempt that can still fail trade places, and their sum never
exceeds `MaxAttempts + |Slots| - 1` (`LatestBounded`); when the window is replaced,
what it held becomes the part before (`EarlierBounded`). Unlocked, the entry has
fewer than `MaxAttempts` or its failures are older than a window (`UnlockedFew`),
which is where `Lockout >= Window` is needed; a shorter lockout promises nothing of
the kind. Assumptions: `SettingsAssumption` (the settings are numbers; finitely many
requests, at least one), `FreeAssumption` (no key is the mark of a free slot),
`EntriesAssumption` (the limit on the map is a positive number).

*RefreshCycle*, in the last section of `LimitsProofs`. `OpenMeansFailureRun` needs
`CountOK`: the count of a store is the number of its failures since its last
success. A recorded outcome then completes a run exactly when it is a failure and
the count with it reaches the threshold (`RunStep`). `CycleCompletes` needs
`SteadyOK`: a row watched since the snapshot is still there, and waits in the queue,
is being dealt with, or has its `FetchLog`. Assumptions: every extension has a
store; the threshold and the bounds are numbers.

*RiskPosture.* The inductive invariant is `TypeOK`, `PostureConsistent`,
`HeuristicKept`, `MatchExplained` and that a row that was analysed has components.
`FilteredOnce` is then a fact about the bands.

*SignOn.* `AnAdminRemains` is about deletions that overlap. The invariant
`ActingAt` says that the administrator of a deletion whose audit row is written is
still there, because the row's foreign key holds it; so the last administrator,
who would have to be deleted by another one, cannot be, except that a role sync
demotes (`demoted`). `AdminSeeded` carries the property over a restart.
`BoundToIdentity` needs `ResolvedAt`: from the match to the cookie the request
names an account of its own provider, identity and tenant, which no step rewrites
(`Keeps`), deleted or not. `TrailExplains` needs that an unused row has no record
(`TrailStarts`).
Assumptions: the shape of claims, forms and role map, nothing about their number.

*Destinations.* `JointlyValid` is not inductive: a PATCH checks a row it has built
from what it read. `PatchesHold` says that what it read is what the row still is,
and that no two PATCHes hold one row; this is what `with_for_update` is for. A PATCH
that changes neither kind, target nor config is not validated and needs not be
(`ResultRow`). `OwnersOnly` needs that a rule and its destination have one owner
(`RulesOwned`), which a deletion keeps by taking the rules along, and that a
delivery carries only copies of the user's destinations (`FiresOwned`), because
`fire_alerts` reads once and compares nothing later. `PinnedPublic` needs what the
check of the credential left in the delivery (`DialsChecked`). Assumptions:
`RowAssumption` (the marks for no row and a deleted row are not rows) and
`BodyAssumption` (a PATCH body has four fields, each absent or of its type).

*Enrollment.* `AuditTruthful` needs that nothing is on record of an id that was not
given yet (`Unborn`). `NoLeftovers` needs what a request knows of the row it made
(`Knows`): one that will preserve it has flagged it, and one past the commit of its
fetch has analysed it, whoever wrote to the row in between. `MatchKept` needs the
row lock (`Held`): whoever has read the row under it has it alone, so a cleanup that
found no match deletes a row that still has none; and that every match is of a
listed identity (`MatchListed`), so that no refresh takes it back. Assumption: the
bounds are numbers.

*Inventory*, in the last section of `EnrollmentProofs`. `InventoryTypeOK` bounds every
count on its way to the footprint by the number of endpoints. `SerialExact` needs that
every count that is still clean is the number of assets its transaction would leave
(`BatchOK`, `JobOK`): whoever commits, and time, makes everyone else's count unclean
(`Overlapped`), and the others keep theirs because they change nothing that is
counted. Assumptions: there are finitely many endpoints, the blank id is none of
them, the windows and the bounds are numbers.

*Sessions.* The invariant says what each credential, and each request that is about
to make one, can know: no id or epoch beyond the account's; with the account's own
epoch, a time not before the cutoff; and, where a provider signs in, a time of
issue within one cookie's life of the last sign-on. The times hold up to the
rounding of a cookie to a whole second (`WholeSecondIs`), which the tolerance in
`SessionAfterPasswordChange` has to cover. `OffboardingBounded` follows by adding up
the lives: a key is made by somebody with a session, hence within one session's life
of the last sign-on, and is refused after its own life if it has one. Assumption: the second, the lives and the bounds are numbers.

*LiveSettings, Egress, Migrations.* A save reads, commits, reads again and sets the
snapshot, with others in between. `Settled` says of each value it carries, of the
row and of the snapshot, that it is one configuration which the validation accepts
with the secrets of the process. `LockOK` says of the row lock that one save of a
kind is between read and commit and that the row still is what it read; the columns
it does not write are then those it validated (`WrittenOK`), and `AWayIn` follows.
`RegistryCurrent` needs that an unregistered registry is empty. `RoutedAsConfigured`
needs that the transport of a route is kept when the proxy changes (`Kept`),
`WaitBounded` that the wait so far is at most the attempts times the cap, and
`SchemaAtHead` that every adopted database has a stamp equal to its schema
(`AdoptedOK`). Assumptions: `RetryAssumption` (the retry count and the cap are
numbers, a `Retry-After` is an integer), `ReleasesAssumption` (there is a migration
after the baseline) and `EnvsAssumption` (an environment has all fields).

Only model-checked: liveness (`MarkerDrains`, `RowConverges`, `KeepsRefreshing`,
`FootprintConverges`). Out of the prover's reach:
liveness under fairness and `ENABLED`; induction over data, hence what a recursive
definition computes for every input; modules that declare `RECURSIVE` operators
(there are none here).

## 5. What is not modelled, and the plan

Not modelled, with the reason: which text of a store page becomes which field and
which text of a script a regular expression matches (inputs; nothing in them is
concurrent), the parsing of threat feeds (an ingestion is one transaction over
entries, and the modules start there), the wording of alerts and pages, the pages
and lists themselves, what the migrations do to stored data, the handshake of the
sign-on library, HTTP, cryptography. VS Code's gallery answers as Chrome's pages
do and has no run of its own.

Left of the plan:

1. Several rows in `AlertPipeline`, for the order in which two ingestions lock
   them, and the `FetchLog` beside the audit row of a manual refresh.
2. Two processes at one start, for the advisory lock of `init_db`.
