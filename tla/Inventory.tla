------------------------------ MODULE Inventory ------------------------------
(***************************************************************************)
(* The install inventory of one extension: the InstallObservation rows     *)
(* that ingest_inventory of app/routes/api.py upserts, the install         *)
(* footprint cached on the Extension row, its decay and the retention      *)
(* prune of app/retention.py.                                              *)
(*                                                                         *)
(* A batch is one transaction, except that enrolling an extension the      *)
(* batch is the first to mention commits what is staged so far.  Batches   *)
(* and jobs run under READ COMMITTED: each counts the observations it can  *)
(* see in one statement and writes the count in a later one, so what       *)
(* another commits between the two is not in the count.  An observation    *)
(* row is locked from its upsert or its deletion to the commit.  A tick is *)
(* any stretch of time; both windows are counted in ticks.                 *)
(***************************************************************************)
EXTENDS Integers, FiniteSets, Functions

CONSTANTS
    Assets,       \* endpoints
    Blank,        \* the asset id of an observation without one
    Batches,      \* inventory requests that can be under way at a time
    Freshness,    \* inventory_freshness_days; 0 disables decay
    Retention,    \* retention_days; 0 disables the prune
    MaxBatches,   \* bound: requests
    MaxTime,      \* bound: ticks
    MaxFailures   \* bound: failed requests

ASSUME AssetsAssumption == IsFiniteSet(Assets)
ASSUME BlankAssumption == Blank \notin Assets
ASSUME WindowAssumption ==
    /\ Freshness \in Nat /\ Retention \in Nat
    /\ MaxBatches \in Nat /\ MaxTime \in Nat /\ MaxFailures \in Nat

Jobs == {"decay", "prune"}

NoFootprint == -1

VARIABLES
    now,
    alive,       \* the Extension row exists
    obs,         \* committed InstallObservations: last_seen of every asset
    footprint,   \* Extension.install_footprint
    batch, job,  \* the requests and the daily jobs
    exact,       \* history: the footprint was last written by a count that
                 \*   nothing overlapped, and no time has passed since
    begun, failures

inventoryVars == <<now, alive, obs, footprint, batch, job, exact, begun, failures>>

(* at is the timestamp the request took when it began, todo the items it   *)
(* has not come to, staged the assets it has upserted since its last       *)
(* commit, clean that nobody has committed since it counted.               *)
BatchStates ==
    [pc : {"idle", "items", "counted"}, at : 0..now, todo : SUBSET (Assets \cup {Blank}),
     touched : BOOLEAN, staged : SUBSET Assets, count : 0..Cardinality(Assets), clean : BOOLEAN]

NoBatch == [pc |-> "idle", at |-> 0, todo |-> {}, touched |-> FALSE,
            staged |-> {}, count |-> 0, clean |-> FALSE]

JobStates == [pc : {"idle", "counted"}, gone : SUBSET Assets, count : 0..Cardinality(Assets), clean : BOOLEAN]

NoJob == [pc |-> "idle", gone |-> {}, count |-> 0, clean |-> FALSE]

InventoryTypeOK ==
    /\ now \in 0..MaxTime
    /\ alive \in BOOLEAN
    /\ DOMAIN obs \subseteq Assets /\ \A a \in DOMAIN obs : obs[a] \in 0..now
    /\ footprint \in {NoFootprint} \cup 0..Cardinality(Assets)
    /\ batch \in [Batches -> BatchStates]
    /\ job \in [Jobs -> JobStates]
    /\ exact \in BOOLEAN
    /\ begun \in 0..MaxBatches /\ failures \in 0..MaxFailures

InventoryInit ==
    /\ now = 0
    /\ alive = TRUE
    /\ obs = << >>
    /\ footprint = NoFootprint
    /\ batch = [b \in Batches |-> NoBatch]
    /\ job = [j \in Jobs |-> NoJob]
    /\ exact = TRUE
    /\ begun = 0 /\ failures = 0

-----------------------------------------------------------------------------
(* What a request sees: the committed rows and its own.                    *)
View(b) ==
    [a \in DOMAIN obs \cup batch[b].staged |-> IF a \in batch[b].staged THEN batch[b].at ELSE obs[a]]

Without(gone) == Restrict(obs, DOMAIN obs \ gone)

(* The distinct assets seen on or after freshness_cutoff.                  *)
Fresh(map) == {a \in DOMAIN map : Freshness = 0 \/ map[a] >= now - Freshness}

(* The assets last seen before the retention cutoff.                       *)
Expired == {a \in DOMAIN obs : Retention > 0 /\ obs[a] < now - Retention}

Locked(a) == \/ \E b \in Batches : a \in batch[b].staged
             \/ \E j \in Jobs : a \in job[j].gone

(* A commit overlaps everyone else who has counted and not yet committed.  *)
Overlap(f, own) == [x \in DOMAIN f |-> IF x \in own THEN f[x] ELSE [f[x] EXCEPT !.clean = FALSE]]

-----------------------------------------------------------------------------
(* ingest_inventory.                                                       *)

Begin(b) ==
    /\ batch[b].pc = "idle" /\ begun < MaxBatches
    /\ \E items \in (SUBSET (Assets \cup {Blank})) \ {{}} :
          batch' = [batch EXCEPT ![b] = [NoBatch EXCEPT !.pc = "items", !.at = now, !.todo = items]]
    /\ begun' = begun + 1
    /\ UNCHANGED <<now, alive, obs, footprint, job, exact, failures>>

(* A blank asset id is rejected item by item (#154).                       *)
Valid(a) == a # Blank

Reject(b, a) ==
    /\ batch[b].pc = "items" /\ a \in batch[b].todo /\ ~Valid(a)
    /\ batch' = [batch EXCEPT ![b].todo = @ \ {a}]
    /\ UNCHANGED <<now, alive, obs, footprint, job, exact, begun, failures>>

(* INSERT ... ON CONFLICT DO UPDATE; it waits for another's lock.          *)
_upsert_observation(b, a) ==
    /\ batch[b].pc = "items" /\ a \in batch[b].todo /\ Valid(a)
    /\ alive
    /\ a \in batch[b].staged \/ ~Locked(a)
    /\ batch' = [batch EXCEPT ![b].todo = @ \ {a}, ![b].staged = @ \cup {a}, ![b].touched = TRUE]
    /\ UNCHANGED <<now, alive, obs, footprint, job, exact, begun, failures>>

(* The next item enrols a new extension: its commit takes the staged rows  *)
(* of this one along.                                                      *)
EnrollOther(b) ==
    /\ batch[b].pc = "items" /\ batch[b].staged # {}
    /\ obs' = View(b)
    /\ batch' = [Overlap(batch, {b}) EXCEPT ![b].staged = {}]
    /\ job' = Overlap(job, {})
    /\ exact' = FALSE
    /\ UNCHANGED <<now, alive, footprint, begun, failures>>

(* After the last item every touched extension is counted, ...             *)
Count(b) ==
    /\ batch[b].pc = "items" /\ batch[b].todo = {}
    /\ batch' = [batch EXCEPT ![b] =
                   IF batch[b].touched
                   THEN [@ EXCEPT !.pc = "counted", !.count = Cardinality(Fresh(View(b))), !.clean = TRUE]
                   ELSE NoBatch]
    /\ UNCHANGED <<now, alive, obs, footprint, job, exact, begun, failures>>

(* ... and the counts are committed with the observations.                 *)
Commit(b) ==
    /\ batch[b].pc = "counted"
    /\ obs' = View(b)
    /\ footprint' = IF alive THEN batch[b].count ELSE footprint
    /\ exact' = batch[b].clean
    /\ batch' = [Overlap(batch, {b}) EXCEPT ![b] = NoBatch]
    /\ job' = Overlap(job, {})
    /\ UNCHANGED <<now, alive, begun, failures>>

(* The extension is gone (foreign key), a deadlock on observation rows is  *)
(* broken, the database or the process fails: what is staged is lost.      *)
Fail(b) ==
    /\ batch[b].pc # "idle"
    /\ \/ ~alive /\ UNCHANGED failures
       \/ failures < MaxFailures /\ failures' = failures + 1
    /\ batch' = [batch EXCEPT ![b] = NoBatch]
    /\ UNCHANGED <<now, alive, obs, footprint, job, exact, begun>>

-----------------------------------------------------------------------------
(* The rows refresh_install_footprints updates.                            *)
(* Mutant: those with a fresh observation.                                 *)
Targeted_Fresh == Fresh(obs) # {}

Targeted == footprint # NoFootprint \/ DOMAIN obs # {}

(* run_footprint_refresh; registered only when decay is enabled.           *)
Decay ==
    /\ Freshness > 0 /\ alive /\ Targeted
    /\ job["decay"].pc = "idle"
    /\ job' = [job EXCEPT !["decay"] =
                 [NoJob EXCEPT !.pc = "counted", !.count = Cardinality(Fresh(obs)), !.clean = TRUE]]
    /\ UNCHANGED <<now, alive, obs, footprint, batch, exact, begun, failures>>

(* prune_expired: when it deletes, it counts again in the same             *)
(* transaction.                                                            *)
Prune ==
    /\ Expired # {} /\ \A a \in Expired : ~Locked(a)
    /\ job["prune"].pc = "idle"
    /\ job' = [job EXCEPT !["prune"] =
                 [pc |-> "counted", gone |-> Expired,
                  count |-> Cardinality(Fresh(Without(Expired))), clean |-> TRUE]]
    /\ UNCHANGED <<now, alive, obs, footprint, batch, exact, begun, failures>>

(* The footprint a job's transaction writes.                               *)
(* Mutant: the prune leaves it alone.                                      *)
Written_Decay(j) == IF j = "prune" THEN footprint ELSE job[j].count

Written(j) == job[j].count

JobCommit(j) ==
    /\ job[j].pc = "counted"
    /\ obs' = Without(job[j].gone)
    /\ footprint' = IF alive THEN Written(j) ELSE footprint
    /\ exact' = job[j].clean
    /\ job' = [Overlap(job, {j}) EXCEPT ![j] = NoJob]
    /\ batch' = Overlap(batch, {})
    /\ UNCHANGED <<now, alive, begun, failures>>

-----------------------------------------------------------------------------
(* delete_extension; it waits for the foreign-key locks of staged rows.    *)
Delete ==
    /\ alive /\ \A b \in Batches : batch[b].staged = {}
    /\ \A j \in Jobs : job[j].pc = "idle"
    /\ alive' = FALSE /\ obs' = << >> /\ footprint' = NoFootprint
    /\ UNCHANGED <<now, batch, job, exact, begun, failures>>

Tick ==
    /\ now < MaxTime
    /\ now' = now + 1
    /\ exact' = FALSE
    /\ batch' = Overlap(batch, {}) /\ job' = Overlap(job, {})
    /\ UNCHANGED <<alive, obs, footprint, begun, failures>>

Ingest(b) ==
    \/ \E a \in Assets \cup {Blank} : Reject(b, a) \/ _upsert_observation(b, a)
    \/ EnrollOther(b) \/ Count(b) \/ Commit(b) \/ Fail(b)

InventoryNext ==
    \/ \E b \in Batches : Begin(b) \/ Ingest(b)
    \/ Decay \/ Prune \/ \E j \in Jobs : JobCommit(j)
    \/ Delete \/ Tick

InventorySpec == InventoryInit /\ [][InventoryNext]_inventoryVars

(* The daily jobs run every day, and a request that has begun ends.        *)
InventoryFairSpec ==
    /\ InventorySpec
    /\ WF_inventoryVars(Decay) /\ WF_inventoryVars(Prune) /\ \A j \in Jobs : WF_inventoryVars(JobCommit(j))
    /\ \A b \in Batches : WF_inventoryVars(Ingest(b))

-----------------------------------------------------------------------------
(* Properties.                                                             *)

Right == \/ footprint = Cardinality(Fresh(obs))
         \/ footprint = NoFootprint /\ obs = << >>

(* Transactions that do not overlap keep the cache exact: a batch counts   *)
(* its own uncommitted rows, stale and expired assets are not counted, a   *)
(* prune takes the rows it deletes out of the footprint at once (#287).    *)
SerialExact == exact /\ alive => Right

(* With decay enabled every drift is repaired: whatever overlapping        *)
(* batches, a batch that failed after an early commit, or assets that      *)
(* stopped being reported left in the footprint, the daily job puts right. *)
FootprintConverges == <>[](alive => Right)

=============================================================================
