---------------------------- MODULE AlertPipeline ----------------------------
(***************************************************************************)
(* The durable pending-alert protocol of app/services.py, as one extension *)
(* row, the scheduler cycle and the concurrent API requests drive it.      *)
(*                                                                         *)
(* A refresh detects change events and merges them into the row's          *)
(* pending_alert_events marker in the transaction that stores the new      *)
(* state; only after that commit does it deliver them, and only after the  *)
(* delivery is recorded does it take them out of the marker.  Whatever a   *)
(* crash or an error leaves in the marker is delivered again by            *)
(* recover_pending_alerts at the head of the next scheduler cycle.         *)
(*                                                                         *)
(* Every transaction that writes the row holds its FOR UPDATE lock from    *)
(* its first read of the row to its commit, so each is one action.  The    *)
(* awaits between transactions (store fetch, webhook sends, the AlertLog   *)
(* commit, the acknowledgement) are where tasks interleave, so each is an  *)
(* action of its own.  Rows share no state in this protocol: one row is    *)
(* enough.                                                                 *)
(***************************************************************************)
EXTENDS Naturals, FiniteSets

CONSTANTS
    Requests,    \* API request tasks: manual refresh and threat-list ingestion
    Scheduler,   \* the task of the watchlist_refresh job
    Vals,        \* values the store may publish (versions)
    NoVal,       \* the empty version of a placeholder or of a partial parse
    MaxEdits,    \* bound: changes made by the store, the users and the feed
    MaxFaults,   \* bound: failed fetches and failed database operations
    MaxCrashes   \* bound: process deaths

ASSUME TaskAssumption  == Scheduler \notin Requests
ASSUME ValAssumption   == NoVal \notin Vals
ASSUME BoundAssumption == MaxEdits \in Nat /\ MaxFaults \in Nat /\ MaxCrashes \in Nat

Tasks == Requests \cup {Scheduler}

-----------------------------------------------------------------------------
(* ChangeEvent.  Junk stands for any marker entry _parse_pending_events    *)
(* drops: an entry that is no dict, or a dict that is no well-formed event.*)

ChangeEvents == [type : {"new_version"}, old : Vals, new : Vals]
                  \cup [type : {"threat_match"}, old : {NoVal}, new : {NoVal}]

ThreatEvent     == [type |-> "threat_match", old |-> NoVal, new |-> NoVal]
VersionEvent(o, n) == [type |-> "new_version", old |-> o, new |-> n]
Junk            == [type |-> "junk", old |-> NoVal, new |-> NoVal]

(* An entry is an event together with the number of the merge that first   *)
(* recorded it.  The number is not stored: it orders the marker's list and *)
(* tells two occurrences of the same transition apart.                     *)
Entries == [ev : ChangeEvents \cup {Junk}, at : Nat]

Content(entries) == {m.ev : m \in entries}

Before(m, n) == \/ m.at < n.at
                \/ m.at = n.at /\ m.ev.type = "new_version" /\ n.ev.type = "threat_match"

(* Two markers are the same stored string: same events in the same order.  *)
SameText(a, b) ==
    /\ Content(a) = Content(b)
    /\ \A m1, m2 \in a : \A n1, n2 \in b :
          m1.ev = n1.ev /\ m2.ev = n2.ev => (Before(m1, m2) <=> Before(n1, n2))

_parse_pending_events(raw) == {m \in raw : m.ev # Junk}

-----------------------------------------------------------------------------
VARIABLES
    alive,      \* the Extension row exists
    watch,      \* Extension.watchlist
    owned,      \* Extension.user_id is not NULL
    val,        \* Extension.version
    threat,     \* Extension.threat_match
    marker,     \* Extension.pending_alert_events; {} is NULL
    listed,     \* a ThreatListEntry matches the row
    storeVal,   \* what the store publishes (environment)
    ruled,      \* an enabled rule with an enabled destination matches
    task,       \* local state of every task
    clock,      \* number of merges that recorded something
    occurred,   \* history: every event detected and committed
    owed,       \* history: the entries merges appended for delivery
    sent,       \* history: entries handed to a sender
    logged,     \* history: entries whose AlertLog rows are committed
    dismissed,  \* history: entries fire_alerts returned from without a rule to fire
    edits, faults, crashes   \* used budget of each kind

row     == <<alive, watch, owned, val, threat, marker>>
world   == <<listed, storeVal, ruled>>
history == <<clock, occurred, owed>>
outcome == <<sent, logged, dismissed>>
budget  == <<edits, faults, crashes>>
vars    == <<row, world, task, history, outcome, budget>>

handled == logged \cup dismissed

(* pc is the await the task is at.  then is where it goes when the delivery*)
(* it is in is over: "posture" in recovery, "fetch" after the threat       *)
(* posture, "idle" after the fetch.  own are the events it is to deliver,  *)
(* todo those not yet sent, raw the expected_marker of recovery (cas).     *)
Idle == [pc |-> "idle", then |-> "idle", got |-> NoVal,
         own |-> {}, todo |-> {}, raw |-> {}, cas |-> FALSE]

PCs == {"idle", "recover", "posture", "reload", "rules", "send", "ack",
        "clear", "fetch", "store"}

TaskStates ==
    [pc : PCs, then : {"posture", "fetch", "idle"}, got : Vals \cup {NoVal},
     own : SUBSET Entries, todo : SUBSET Entries, raw : SUBSET Entries, cas : BOOLEAN]

TypeOK ==
    /\ alive \in BOOLEAN /\ watch \in BOOLEAN /\ owned \in BOOLEAN
    /\ val \in Vals \cup {NoVal}
    /\ threat \in BOOLEAN
    /\ marker \in SUBSET Entries
    /\ listed \in BOOLEAN /\ storeVal \in Vals /\ ruled \in BOOLEAN
    /\ task \in [Tasks -> TaskStates]
    /\ clock \in Nat
    /\ occurred \in SUBSET Entries
    /\ owed \in SUBSET Entries
    /\ sent \in SUBSET Entries
    /\ logged \in SUBSET Entries /\ dismissed \in SUBSET Entries
    /\ edits \in Nat /\ faults \in Nat /\ crashes \in Nat

(* A row as an earlier process left it: fetched or not, the threat alert   *)
(* of an earlier match still pending or no match yet, and the marker       *)
(* possibly corrupted by a partial write or a hand edit (#197).            *)
Init ==
    /\ alive = TRUE /\ watch = TRUE /\ owned = TRUE
    /\ val \in Vals \cup {NoVal}
    /\ threat \in BOOLEAN
    /\ owed = IF threat THEN {[ev |-> ThreatEvent, at |-> 0]} ELSE {}
    /\ occurred = owed
    /\ marker \in {owed, owed \cup {[ev |-> Junk, at |-> 0]}}
    /\ listed \in BOOLEAN /\ (threat => listed)
    /\ storeVal \in Vals
    /\ ruled = TRUE
    /\ task = [t \in Tasks |-> Idle]
    /\ clock = 0
    /\ sent = {} /\ logged = {} /\ dismissed = {}
    /\ edits = 0 /\ faults = 0 /\ crashes = 0

-----------------------------------------------------------------------------
(* Helpers.                                                                *)

At(t, p)   == task[t].pc = p
Goto(t, p) == task' = [task EXCEPT ![t].pc = p]

(* An exception leaves the refresh: recovery isolates it per extension and *)
(* goes on with the cycle, everything else ends.                           *)
Abort(t)   == IF task[t].then = "posture" THEN [Idle EXCEPT !.pc = "posture"] ELSE Idle

Fault      == faults < MaxFaults /\ faults' = faults + 1 /\ UNCHANGED <<edits, crashes>>
Edit       == edits < MaxEdits /\ edits' = edits + 1 /\ UNCHANGED <<faults, crashes>>

(* _merge_pending_events, under the row lock: what it appends, what it     *)
(* leaves in the marker.                                                   *)
Stamped(E) == {[ev |-> e, at |-> clock + 1] : e \in E}

Appended(E) == {m \in Stamped(E) : m.ev \notin Content(_parse_pending_events(marker))}

Merged(E) == _parse_pending_events(marker) \cup Appended(E)

_merge_pending_events(E) ==
    /\ marker' = Merged(E)
    /\ occurred' = occurred \cup Stamped(E)
    /\ owed' = owed \cup Appended(E)
    /\ clock' = IF E = {} THEN clock ELSE clock + 1

(* The caller commits, reloads the row and fires what the merge returned.  *)
FireNext(t, E, then) ==
    task' = [task EXCEPT ![t] = [Idle EXCEPT !.pc = "reload", !.then = then, !.own = Appended(E)]]

(* detect_changes: no version event without two known versions; a threat   *)
(* event when the match is new.                                            *)
detect_changes(oldVal, newVal, oldThreat, newThreat) ==
    {VersionEvent(o, n) : o \in {oldVal} \ {NoVal, newVal}, n \in {newVal} \ {NoVal}}
      \cup {e \in {ThreatEvent} : ~oldThreat /\ newThreat}

(* apply_threat_matches on this row, the entries read after its lock.      *)
apply_threat_matches(matches) ==
    /\ threat' = matches
    /\ _merge_pending_events(detect_changes(val, val, threat, matches))

-----------------------------------------------------------------------------
(* refresh_watchlist, and recover_pending_alerts at its head.              *)

StartCycle ==
    /\ At(Scheduler, "idle")
    /\ Goto(Scheduler, "recover")
    /\ UNCHANGED <<row, world, history, outcome, budget>>

recover_pending_alerts ==
    /\ At(Scheduler, "recover")
    /\ LET events == _parse_pending_events(marker)
       IN task' = [task EXCEPT ![Scheduler] =
                     CASE marker = {}  -> [Idle EXCEPT !.pc = "posture"]
                       [] marker # {} /\ events = {} ->
                            [Idle EXCEPT !.pc = "clear", !.then = "posture", !.raw = marker, !.cas = TRUE]
                       [] OTHER ->
                            [Idle EXCEPT !.pc = "reload", !.then = "posture", !.own = events,
                                         !.raw = marker, !.cas = TRUE]]
    /\ UNCHANGED <<row, world, history, outcome, budget>>

(* refresh_extension: a manual refresh.                                    *)
StartManual(r) ==
    /\ At(r, "idle") /\ alive
    /\ Goto(r, "posture")
    /\ UNCHANGED <<row, world, history, outcome, budget>>

(* Threat-list ingestion, pushed (API) or pulled (feed): the entries and   *)
(* the posture of every matching row are one transaction.                  *)
Ingest(r) ==
    /\ At(r, "idle") /\ Edit
    /\ listed' = TRUE
    /\ \/ /\ alive
          /\ apply_threat_matches(TRUE)
          /\ FireNext(r, detect_changes(val, val, threat, TRUE), "idle")
       \/ /\ ~alive
          /\ UNCHANGED <<threat, marker, history, task>>
    /\ UNCHANGED <<alive, watch, owned, val, storeVal, ruled, outcome>>

(* Another user's row of the same extension is refreshed: its posture      *)
(* transaction also covers this row, but fires only its own row's events.  *)
NeighbourPosture ==
    /\ alive /\ listed /\ ~threat /\ Edit
    /\ apply_threat_matches(TRUE)
    /\ UNCHANGED <<alive, watch, owned, val, world, task, outcome>>

-----------------------------------------------------------------------------
(* _refresh_one and refresh_extension: posture, fetch, store.              *)

(* The row is gone, or the scheduler finds it off the watchlist.           *)
PostureSkip(t) ==
    /\ At(t, "posture")
    /\ ~alive \/ (t = Scheduler /\ ~watch)
    /\ task' = [task EXCEPT ![t] = Idle]
    /\ UNCHANGED <<row, world, history, outcome, budget>>

apply_existing_threat_posture(t) ==
    /\ At(t, "posture") /\ alive /\ (t = Scheduler => watch)
    /\ \/ /\ ~listed
          /\ task' = [task EXCEPT ![t] = [Idle EXCEPT !.pc = "reload", !.then = "fetch"]]
          /\ UNCHANGED <<threat, marker, history>>
       \/ /\ listed
          /\ apply_threat_matches(TRUE)
          /\ FireNext(t, detect_changes(val, val, threat, TRUE), "fetch")
    /\ UNCHANGED <<alive, watch, owned, val, world, outcome, budget>>

(* The store answers, answers with a page it cannot take a version from,   *)
(* or fails.                                                               *)
Fetch(t) ==
    /\ At(t, "fetch")
    /\ \/ /\ task' = [task EXCEPT ![t] = [@ EXCEPT !.pc = "store", !.got = storeVal]]
          /\ UNCHANGED budget
       \/ /\ task' = [task EXCEPT ![t] = [@ EXCEPT !.pc = "store", !.got = NoVal]]
          /\ Fault
       \/ /\ task' = [task EXCEPT ![t] = Idle]
          /\ Fault
    /\ UNCHANGED <<row, world, history, outcome>>

(* A fetch that yields no version keeps the stored one.                    *)
(* Mutant: so does every fetch after the first.                            *)
Kept_First(new) == IF val = NoVal THEN new ELSE val

Kept(new) == IF new = NoVal THEN val ELSE new

(* Whether entries match, read again under the row lock.                   *)
(* Mutant: what the refresh knew before the entries were ingested.         *)
_threat_entries_Before == FALSE

_threat_entries == listed

(* The locked half of fetch_and_store and the caller's commit.             *)
Store(t) ==
    /\ At(t, "store") /\ alive
    /\ LET E == detect_changes(val, Kept(task[t].got), threat, _threat_entries)
       IN /\ val' = Kept(task[t].got)
          /\ threat' = _threat_entries
          /\ _merge_pending_events(E)
          /\ FireNext(t, E, "idle")
    /\ UNCHANGED <<alive, watch, owned, world, outcome, budget>>

(* The row is gone ("extension disappeared during refresh"), or the        *)
(* transaction fails and is rolled back.                                   *)
StoreFail(t) ==
    /\ At(t, "store")
    /\ \/ ~alive /\ UNCHANGED budget
       \/ Fault
    /\ task' = [task EXCEPT ![t] = Idle]
    /\ UNCHANGED <<row, world, history, outcome>>

-----------------------------------------------------------------------------
(* fire_pending_alerts: reload, fire_alerts, acknowledge.                  *)

(* session.refresh(ext) before firing; it raises when the row is gone.     *)
Reload(t) ==
    /\ At(t, "reload")
    /\ task' = [task EXCEPT ![t] =
                  CASE ~alive -> Abort(t)
                    [] alive /\ task[t].own = {} -> [Idle EXCEPT !.pc = task[t].then]
                    [] OTHER -> [task[t] EXCEPT !.pc = "rules"]]
    /\ UNCHANGED <<row, world, history, outcome, budget>>

(* No owner or no matching rule: fire_alerts returns and the events are    *)
(* acknowledged all the same.                                              *)
Dismiss(t) ==
    /\ At(t, "rules") /\ ~(owned /\ ruled)
    /\ dismissed' = dismissed \cup task[t].own
    /\ Goto(t, "ack")
    /\ UNCHANGED <<row, world, history, sent, logged, budget>>

(* Every event is delivered, also several of one type.                     *)
(* Mutant: the newest of each type (#144).                                 *)
Deliverable_NewestPerType(events) ==
    {m \in events : ~\E n \in events : n.ev.type = m.ev.type /\ Before(m, n)}

Deliverable(events) == events

Match(t) ==
    /\ At(t, "rules") /\ owned /\ ruled
    /\ task' = [task EXCEPT ![t] = [@ EXCEPT !.pc = "send", !.todo = Deliverable(task[t].own)]]
    /\ UNCHANGED <<row, world, history, outcome, budget>>

(* Deliver in list order.  Whether the destination took the message only   *)
(* decides the success flag of its AlertLog row.                           *)
Send(t) ==
    /\ At(t, "send")
    /\ \E m \in task[t].todo :
          /\ \A n \in task[t].todo \ {m} : Before(m, n)
          /\ sent' = sent \cup {m}
          /\ task' = [task EXCEPT ![t].todo = @ \ {m}]
    /\ UNCHANGED <<row, world, history, logged, dismissed, budget>>

(* The AlertLog rows commit.                                               *)
Log(t) ==
    /\ At(t, "send") /\ task[t].todo = {}
    /\ alive /\ owned
    /\ logged' = logged \cup task[t].own
    /\ Goto(t, "ack")
    /\ UNCHANGED <<row, world, history, sent, dismissed, budget>>

(* They do not: the extension, its owner or the rule was deleted meanwhile *)
(* (foreign keys), or the database failed.  The marker stays.              *)
LogFail(t) ==
    /\ At(t, "send") /\ task[t].todo = {}
    /\ \/ ~(alive /\ owned /\ ruled) /\ UNCHANGED budget
       \/ Fault
    /\ task' = [task EXCEPT ![t] = [Idle EXCEPT !.pc = task[t].then]]
    /\ UNCHANGED <<row, world, history, outcome>>

(* A refresh removes its own events from the marker under the row lock.    *)
(* Mutant: it clears the marker.                                           *)
Unacknowledged_None(events) == {}

Unacknowledged(events) ==
    {m \in _parse_pending_events(marker) : m.ev \notin Content(events)}

_ack_pending_events(t) ==
    /\ At(t, "ack") /\ ~task[t].cas
    /\ marker' = Unacknowledged(task[t].own)
    /\ task' = [task EXCEPT ![t] = [Idle EXCEPT !.pc = task[t].then]]
    /\ UNCHANGED <<alive, watch, owned, val, threat, world, history, outcome, budget>>

(* Recovery clears the marker if it still is the string it read.           *)
(* Mutant: if it holds exactly the events delivered.                       *)
ExpectedMarker_Delivered(t) == task[t].own

ExpectedMarker(t) == task[t].raw

_clear_pending_alerts(t) ==
    /\ At(t, "clear") \/ (At(t, "ack") /\ task[t].cas)
    /\ marker' = IF SameText(marker, ExpectedMarker(t)) THEN {} ELSE marker
    /\ task' = [task EXCEPT ![t] = [Idle EXCEPT !.pc = task[t].then]]
    /\ UNCHANGED <<alive, watch, owned, val, threat, world, history, outcome, budget>>

(* The acknowledging transaction fails: nothing in fire_pending_alerts     *)
(* catches that.                                                           *)
AckFail(t) ==
    /\ At(t, "clear") \/ At(t, "ack")
    /\ Fault
    /\ task' = [task EXCEPT ![t] = Abort(t)]
    /\ UNCHANGED <<row, world, history, outcome>>

-----------------------------------------------------------------------------
(* The rest of the world.                                                  *)

StoreChange ==
    /\ Edit
    /\ storeVal' \in Vals \ {storeVal}
    /\ UNCHANGED <<row, listed, ruled, task, history, outcome>>

(* set_watchlist.                                                          *)
ToggleWatch ==
    /\ alive /\ owned /\ Edit
    /\ watch' = ~watch
    /\ UNCHANGED <<alive, owned, val, threat, marker, world, task, history, outcome>>

(* Alert rules and destinations are enabled, disabled, deleted.            *)
ToggleRules ==
    /\ owned /\ Edit
    /\ ruled' = ~ruled
    /\ UNCHANGED <<row, listed, storeVal, task, history, outcome>>

(* delete_user of the owner: rules and destinations go, the row stays,     *)
(* off the watchlist and without an owner.                                 *)
Orphan ==
    /\ alive /\ owned /\ Edit
    /\ owned' = FALSE /\ watch' = FALSE /\ ruled' = FALSE
    /\ UNCHANGED <<alive, val, threat, marker, listed, storeVal, task, history, outcome>>

(* delete_extension.                                                       *)
Delete ==
    /\ alive /\ Edit
    /\ alive' = FALSE /\ marker' = {}
    /\ UNCHANGED <<watch, owned, val, threat, world, task, history, outcome>>

(* The process dies (or shutdown outlasts the drain timeout) and restarts. *)
Crash ==
    /\ crashes < MaxCrashes /\ crashes' = crashes + 1
    /\ task' = [t \in Tasks |-> Idle]
    /\ UNCHANGED <<row, world, history, outcome, edits, faults>>

-----------------------------------------------------------------------------
Deliver(t) ==
    \/ Reload(t) \/ Dismiss(t) \/ Match(t) \/ Send(t) \/ Log(t) \/ LogFail(t)
    \/ _ack_pending_events(t) \/ _clear_pending_alerts(t) \/ AckFail(t)

Refresh(t) ==
    \/ PostureSkip(t) \/ apply_existing_threat_posture(t)
    \/ Fetch(t) \/ Store(t) \/ StoreFail(t)

Step(t) == Refresh(t) \/ Deliver(t)

Environment ==
    \/ NeighbourPosture \/ StoreChange \/ ToggleWatch \/ ToggleRules
    \/ Orphan \/ Delete \/ Crash

Next ==
    \/ StartCycle \/ recover_pending_alerts
    \/ \E r \in Requests : StartManual(r) \/ Ingest(r)
    \/ \E t \in Tasks : Step(t)
    \/ Environment

Spec == Init /\ [][Next]_vars

(* The scheduler fires watchlist_refresh at every interval, and every await*)
(* of a started task ends: HTTP and the database have timeouts.  Requests, *)
(* users, the store, crashes owe nothing.                                  *)
Fairness ==
    /\ WF_vars(StartCycle) /\ WF_vars(recover_pending_alerts)
    /\ \A t \in Tasks : WF_vars(Step(t))

FairSpec == Spec /\ Fairness

-----------------------------------------------------------------------------
(* Properties.                                                             *)

(* No detected change is lost: as long as the row exists, every event that *)
(* was committed with a state change is recorded as fired, was dismissed   *)
(* for want of a rule, or is still in the pending marker, through crashes, *)
(* failed commits and racing acknowledgements (_merge_pending_events,      *)
(* _ack_pending_events, _clear_pending_alerts).                            *)
NoEventLost == alive => Content(occurred) \subseteq Content(handled \cup marker)

(* The marker never holds an event twice, so the one pending.remove() of   *)
(* _ack_pending_events takes the event out for good.                       *)
MarkerDistinct == \A m, n \in marker : m.ev = n.ev => m = n

(* An AlertLog row is committed only for an event that was handed to its   *)
(* sender, also when one delivery holds several events of a type (#144).   *)
LoggedWereSent == logged \subseteq sent

(* Alerts tell only of committed changes: what is sent was detected in a   *)
(* transaction that committed, never in one that was rolled back.          *)
OnlyCommittedFired == sent \subseteq occurred

(* The detailed protocol implements the promise of Outbox: changes are the *)
(* events of detect_changes, pending what can be read from the marker, told*)
(* what was handed to a sender, recorded what has its AlertLog rows, waived*)
(* what found no rule.                                                     *)
Promise == INSTANCE Outbox WITH
    Changes  <- ChangeEvents,
    open     <- alive,
    happened <- Content(occurred),
    pending  <- Content(_parse_pending_events(marker)),
    told     <- Content(sent),
    recorded <- Content(logged),
    waived   <- Content(dismissed)

(* Every step of every task, through crashes, failed commits and racing    *)
(* acknowledgements, is a step of Outbox or none: nothing is told that was *)
(* rolled back, no AlertLog row tells of what was not sent, and nothing    *)
(* leaves the marker that is not settled (fire_pending_alerts,             *)
(* recover_pending_alerts, _merge_pending_events).                         *)
KeepsPromise == Promise!Spec

(* A match is never taken back by a refresh that was already fetching when *)
(* the threat list was ingested: fetch_and_store re-reads the entries      *)
(* under the row lock.                                                     *)
ThreatSticks == [][threat /\ alive' => threat']_vars

(* Whatever a failed delivery, a crash or a corrupt write left in the      *)
(* marker is drained by a later cycle's recovery (#109, #197).             *)
MarkerDrains == marker # {} ~> marker = {}

(* Once the world stops changing, a watched row ends up with what the      *)
(* store publishes, whatever order slow fetches committed in, and flagged  *)
(* when it is listed, also when the ingestion did not see the row.         *)
RowConverges == <>[](alive /\ watch => val = storeVal /\ (listed => threat))

=============================================================================
