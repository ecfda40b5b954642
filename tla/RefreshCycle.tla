----------------------------- MODULE RefreshCycle -----------------------------
(***************************************************************************)
(* The watchlist_refresh job of app/scheduler.py: one cycle over the rows  *)
(* it found on the watchlist, the per-store circuit breaker, the FetchLog  *)
(* it leaves, the heartbeat, and the graceful shutdown of app/main.py.     *)
(*                                                                         *)
(* The cycle is one task; its awaits interleave with users who delete rows *)
(* or take them off the watchlist, with stores that go down and come back, *)
(* and with the shutdown.  What a refresh does to its row and to the alert *)
(* marker is AlertPipeline's subject: here it is reduced to its outcome.   *)
(***************************************************************************)
EXTENDS Naturals, Sequences, FiniteSets

CONSTANTS
    Exts,          \* extension ids
    Stores,
    StoreOf,       \* the store of each extension
    Threshold,     \* store_circuit_failure_threshold; 0 disables the breaker
    MaxEdits,      \* bound: deletions, watchlist changes, store outages, delistings
    MaxFaults      \* bound: internal errors, writes that fail

ASSUME StoreAssumption == StoreOf \in [Exts -> Stores]
ASSUME BoundAssumption == Threshold \in Nat /\ MaxEdits \in Nat /\ MaxFaults \in Nat

Outcomes == {"success", "failed", "gone", "error"}
NoExt    == "none"

VARIABLES
    alive, watch,    \* the rows, and Extension.watchlist
    up,              \* stores that answer (environment)
    listed,          \* extensions their store still offers (environment)
    phase,           \* the await the cycle is at
    cur,             \* the extension it is at
    queue,           \* rows of this cycle not yet visited
    consecutive, open,   \* _StoreCircuitBreaker, made anew by every cycle
    trail,           \* history: the outcomes recorded per store in this cycle
    log,             \* history: the FetchLog this cycle wrote for every row
    steady,          \* history: rows watched since the snapshot and met by no internal error
    down,            \* history: stores that were down at some time in this cycle
    last_run,        \* the heartbeat: null, or left by the current or an older cycle
    life,            \* the lifespan: running, draining, stopped
    edits, faults

rows    == <<alive, watch>>
world   == <<up, listed>>
breaker == <<consecutive, open, trail>>
budget  == <<edits, faults>>
seen    == <<steady, down>>
cycleVars == <<rows, world, phase, cur, queue, breaker, log, seen, last_run, life, budget>>

CycleTypeOK ==
    /\ alive \subseteq Exts /\ watch \subseteq Exts
    /\ up \subseteq Stores /\ listed \subseteq Exts
    /\ phase \in {"idle", "recover", "snapshot", "loop", "outage", "fetch", "tail", "record"}
    /\ cur \in Exts \cup {NoExt}
    /\ queue \subseteq Exts
    /\ consecutive \in [Stores -> Nat] /\ open \subseteq Stores
    /\ trail \in [Stores -> Seq(Outcomes)]
    /\ log \in [Exts -> {"none", "success", "failure", "outage"}]
    /\ steady \subseteq Exts /\ down \subseteq Stores
    /\ last_run \in {"null", "older", "current"}
    /\ life \in {"running", "draining", "stopped"}
    /\ edits \in 0..MaxEdits /\ faults \in 0..MaxFaults

CycleInit ==
    /\ alive = Exts /\ watch \in SUBSET Exts
    /\ up \in SUBSET Stores /\ listed \in SUBSET Exts
    /\ phase = "idle" /\ cur = NoExt /\ queue = {}
    /\ consecutive = [s \in Stores |-> 0] /\ open = {}
    /\ trail = [s \in Stores |-> <<>>]
    /\ log = [e \in Exts |-> "none"]
    /\ steady = {} /\ down = {}
    /\ last_run = "null" /\ life = "running"
    /\ edits = 0 /\ faults = 0

Fault == faults < MaxFaults /\ faults' = faults + 1 /\ UNCHANGED edits
Edit  == edits < MaxEdits /\ edits' = edits + 1 /\ UNCHANGED faults

-----------------------------------------------------------------------------
(* _StoreCircuitBreaker.record.  A success resets the count, GONE and      *)
(* ERROR leave it.                                                         *)

(* Mutant: failures are counted, never reset.                              *)
Count_NoReset(s, outcome) ==
    IF outcome = "failed" THEN consecutive[s] + 1 ELSE consecutive[s]

Count(s, outcome) ==
    CASE outcome = "success" -> 0
      [] outcome = "failed"  -> consecutive[s] + 1
      [] OTHER               -> consecutive[s]

Trips(s, outcome) ==
    outcome = "failed" /\ Threshold > 0 /\ Count(s, outcome) >= Threshold

record(s, outcome) ==
    /\ consecutive' = [consecutive EXCEPT ![s] = Count(s, outcome)]
    /\ open' = IF Trips(s, outcome) THEN open \cup {s} ELSE open
    /\ trail' = [trail EXCEPT ![s] = Append(@, outcome)]

(* The outcome is recorded and the loop goes on.                           *)
Continue(outcome) ==
    /\ record(StoreOf[cur], outcome)
    /\ phase' = "loop" /\ cur' = NoExt

-----------------------------------------------------------------------------
(* refresh_watchlist.                                                      *)

(* Mutant: the job has a date trigger, which fires once per process.       *)
StartCycle_Once ==
    /\ phase = "idle" /\ life = "running" /\ last_run = "null"
    /\ phase' = "recover"
    /\ UNCHANGED <<rows, world, cur, queue, breaker, log, seen, last_run, life, budget>>

(* One instance at a time; a fire that comes due meanwhile is coalesced.   *)
StartCycle ==
    /\ phase = "idle" /\ life = "running"
    /\ phase' = "recover"
    /\ last_run' = IF last_run = "current" THEN "older" ELSE last_run
    /\ UNCHANGED <<rows, world, cur, queue, breaker, log, seen, life, budget>>

(* recover_pending_alerts; whatever it raises is logged and the cycle goes *)
(* on.                                                                     *)
Recover ==
    /\ phase = "recover"
    /\ phase' = "snapshot"
    /\ UNCHANGED <<rows, world, cur, queue, breaker, log, seen, last_run, life>>
    /\ UNCHANGED budget \/ Fault

NewBreaker ==
    /\ consecutive' = [s \in Stores |-> 0] /\ open' = {}
    /\ trail' = [s \in Stores |-> <<>>]

(* The watchlist query and the new breaker.  The query is not guarded: if  *)
(* it fails, so does the cycle.                                            *)
Snapshot ==
    /\ phase = "snapshot"
    /\ \/ /\ queue' = alive \cap watch
          /\ phase' = "loop"
          /\ NewBreaker
          /\ log' = [e \in Exts |-> "none"]
          /\ steady' = alive \cap watch /\ down' = Stores \ up
          /\ UNCHANGED budget
       \/ /\ phase' = "idle"
          /\ Fault
          /\ UNCHANGED <<queue, breaker, log, seen>>
    /\ UNCHANGED <<rows, world, cur, last_run, life>>

(* The query has no ORDER BY: the rows come in any order.                  *)
Skip(e) ==
    /\ phase = "loop" /\ e \in queue /\ StoreOf[e] \in open
    /\ queue' = queue \ {e}
    /\ \/ e \in alive \cap watch /\ phase' = "outage" /\ cur' = e
       \/ e \notin alive \cap watch /\ UNCHANGED <<phase, cur>>
    /\ UNCHANGED <<rows, world, breaker, log, seen, last_run, life, budget>>

(* The FetchLog of a failure is committed, or not: a row deleted meanwhile *)
(* fails its foreign key, or the database fails.  Either is swallowed.     *)
LogFailure(entry) ==
    \/ cur \in alive /\ log' = [log EXCEPT ![cur] = entry] /\ UNCHANGED <<seen, budget>>
    \/ cur \notin alive /\ UNCHANGED <<log, seen, budget>>
    \/ cur \in alive /\ Fault /\ steady' = steady \ {cur} /\ UNCHANGED <<log, down>>

(* The row is read again, which may fail, and its outage logged.           *)
_record_store_outage ==
    /\ phase = "outage"
    /\ \/ /\ LogFailure("outage")
          /\ phase' = "loop" /\ cur' = NoExt
          /\ UNCHANGED breaker
       \/ /\ Fault /\ Continue("error")
          /\ steady' = steady \ {cur} /\ UNCHANGED <<log, down>>
    /\ UNCHANGED <<rows, world, queue, last_run, life>>

(* _refresh_one begins: a row deleted or unwatched since the snapshot is   *)
(* GONE.                                                                   *)
Visit(e) ==
    /\ phase = "loop" /\ e \in queue /\ StoreOf[e] \notin open
    /\ queue' = queue \ {e}
    /\ cur' = e
    /\ phase' = IF e \in alive \cap watch THEN "fetch" ELSE "record"
    /\ UNCHANGED <<rows, world, breaker, log, seen, last_run, life, budget>>

(* Mutant: a vanished row ends the loop.                                   *)
Gone_Breaks ==
    /\ phase = "record"
    /\ Continue("gone")
    /\ queue' = {}
    /\ UNCHANGED <<rows, world, log, seen, last_run, life, budget>>

Gone ==
    /\ phase = "record"
    /\ Continue("gone")
    /\ UNCHANGED <<rows, world, queue, log, seen, last_run, life, budget>>

(* The fetch fails, or the row disappeared while it was under way: both    *)
(* are a FetchError, which counts whether or not it can be logged.         *)
FetchFailed ==
    /\ phase = "fetch"
    /\ StoreOf[cur] \notin up \/ cur \notin listed \/ cur \notin alive
    /\ LogFailure("failure")
    /\ Continue("failed")
    /\ UNCHANGED <<rows, world, queue, last_run, life>>

(* Anything else that goes wrong is rolled back and neutral; so is a row   *)
(* that vanished before the reload ahead of the fetch.                     *)
InternalError ==
    /\ phase = "fetch"
    /\ Fault \/ (cur \notin alive /\ UNCHANGED budget)
    /\ Continue("error")
    /\ steady' = steady \ {cur}
    /\ UNCHANGED <<rows, world, queue, log, down, last_run, life>>

(* The refresh commits, its success FetchLog with it.                      *)
Stored ==
    /\ phase = "fetch"
    /\ StoreOf[cur] \in up /\ cur \in listed /\ cur \in alive
    /\ log' = [log EXCEPT ![cur] = "success"]
    /\ phase' = "tail"
    /\ UNCHANGED <<rows, world, cur, queue, breaker, seen, last_run, life, budget>>

(* Reload and fire.  Both are guarded: a reload that fails, for whatever   *)
(* reason, is GONE, an error in the delivery is left to recovery.          *)
Finish ==
    /\ phase = "tail"
    /\ \/ Continue(IF cur \in alive THEN "success" ELSE "gone") /\ UNCHANGED budget
       \/ cur \in alive /\ Fault /\ (Continue("success") \/ Continue("gone"))
    /\ UNCHANGED <<rows, world, queue, log, seen, last_run, life>>

mark_scheduler_run ==
    /\ phase = "loop" /\ queue = {}
    /\ phase' = "idle" /\ last_run' = "current"
    /\ UNCHANGED <<rows, world, cur, queue, breaker, log, seen, life, budget>>

-----------------------------------------------------------------------------
(* The lifespan ends: scheduler.pause, drain_inflight, shutdown.           *)

Pause ==
    /\ life = "running"
    /\ life' = "draining"
    /\ UNCHANGED <<rows, world, phase, cur, queue, breaker, log, seen, last_run, budget>>

(* The in-flight cycle has ended, or shutdown_drain_seconds have passed    *)
(* and it is cancelled.                                                    *)
Stop ==
    /\ life = "draining"
    /\ life' = "stopped" /\ phase' = "idle" /\ cur' = NoExt
    /\ UNCHANGED <<rows, world, queue, breaker, log, seen, last_run, budget>>

(* A new process: the heartbeat starts empty.                              *)
Restart ==
    /\ life = "stopped"
    /\ life' = "running" /\ last_run' = "null"
    /\ UNCHANGED <<rows, world, phase, cur, queue, breaker, log, seen, budget>>

-----------------------------------------------------------------------------
(* Users, stores.                                                          *)

DeleteExt(e) ==
    /\ e \in alive /\ Edit
    /\ alive' = alive \ {e}
    /\ steady' = steady \ {e}
    /\ log' = [log EXCEPT ![e] = "none"]
    /\ UNCHANGED <<watch, world, phase, cur, queue, breaker, down, last_run, life>>

ToggleWatch(e) ==
    /\ e \in alive /\ Edit
    /\ steady' = steady \ {e}
    /\ watch' = IF e \in watch THEN watch \ {e} ELSE watch \cup {e}
    /\ UNCHANGED <<alive, world, phase, cur, queue, breaker, log, down, last_run, life>>

StoreFlips(s) ==
    /\ Edit
    /\ up' = IF s \in up THEN up \ {s} ELSE up \cup {s}
    /\ down' = down \cup {s}
    /\ UNCHANGED <<rows, listed, phase, cur, queue, breaker, log, steady, last_run, life>>

Delist(e) ==
    /\ e \in listed /\ Edit
    /\ listed' = listed \ {e}
    /\ UNCHANGED <<rows, up, phase, cur, queue, breaker, log, seen, last_run, life>>

-----------------------------------------------------------------------------
Cycle ==
    \/ Recover \/ Snapshot \/ _record_store_outage \/ Gone \/ FetchFailed
    \/ InternalError \/ Stored \/ Finish \/ mark_scheduler_run
    \/ \E e \in Exts : Skip(e) \/ Visit(e)

Shutdown == Pause \/ Stop \/ Restart

Environment ==
    \/ \E e \in Exts : DeleteExt(e) \/ ToggleWatch(e) \/ Delist(e)
    \/ \E s \in Stores : StoreFlips(s)

CycleNext == StartCycle \/ Cycle \/ Shutdown \/ Environment

CycleSpec == CycleInit /\ [][CycleNext]_cycleVars

(* The interval trigger fires the job again and again (misfires run late), *)
(* every await in the cycle ends, and an orchestrator restarts a stopped   *)
(* process.  Nothing obliges anyone to shut down or to edit.               *)
Fairness == WF_cycleVars(StartCycle) /\ WF_cycleVars(Cycle) /\ WF_cycleVars(Stop) /\ WF_cycleVars(Restart)

CycleFairSpec == CycleSpec /\ Fairness

-----------------------------------------------------------------------------
(* Properties.                                                             *)

(* Somewhere in a sequence of outcomes there are Threshold failures with   *)
(* no success in between.                                                  *)
FailureRun(seq) ==
    \E i, j \in 1..Len(seq) :
        /\ Cardinality({k \in i..j : seq[k] = "failed"}) >= Threshold
        /\ \A k \in i..j : seq[k] # "success"

(* The circuit of a store is open exactly when this cycle saw a run of     *)
(* Threshold failures of that store with no success in between, internal   *)
(* errors and vanished rows not counted (_StoreCircuitBreaker).            *)
OpenMeansFailureRun ==
    \A s \in Stores : s \in open <=> Threshold > 0 /\ FailureRun(trail[s])

(* A cycle that got its list of rows ends with its heartbeat, and every    *)
(* row it found and that stayed on the watchlist has its FetchLog of this  *)
(* cycle, unless an internal error was rolled back or the process stops:   *)
(* rows that are deleted, unwatched or fail in the middle cost no other    *)
(* row its visit and no later cycle its start (#282).                      *)
CycleCompletes ==
    [][phase \notin {"idle", "snapshot"} /\ phase' = "idle" /\ life' = "running"
         => last_run' = "current" /\ \A e \in steady : log[e] # "none"]_cycleVars

(* A watched row that its store offers, at a store that stays up and has   *)
(* fewer than Threshold broken rows, is refreshed again and again: neither *)
(* its broken neighbours nor an outage that is over keep the circuit open. *)
Healthy(e) ==
    /\ e \in alive /\ e \in watch /\ e \in listed /\ StoreOf[e] \in up
    /\ Cardinality({x \in Exts \ listed : StoreOf[x] = StoreOf[e]}) < Threshold

KeepsRefreshing ==
    \A e \in Exts : <>[](Healthy(e) /\ life = "running") => []<>(phase = "tail" /\ cur = e)

=============================================================================
