----------------------------- MODULE Enrollment ------------------------------
(***************************************************************************)
(* Enrolling, cleaning up and deleting the row of one (user, store,        *)
(* extension id) identity: _enroll_extension of app/routes/api.py, the     *)
(* primitive behind add, bulk and inventory, with _fetch_and_score,        *)
(* _discard_placeholder and delete_extension, and the audit trail they     *)
(* leave.                                                                  *)
(*                                                                         *)
(* The placeholder row is committed before the store is asked, so that     *)
(* the scheduler, the threat list, a deletion and a second add can all     *)
(* meet it.  The unique constraint lets one row of the identity exist at a *)
(* time.  A transaction is one action, except the two that read the row    *)
(* under its lock and commit later: the cleanup of a failed add, and a     *)
(* threat-list ingestion, which also looks for the rows of its entries     *)
(* before it locks them.                                                   *)
(***************************************************************************)
EXTENDS Naturals, FiniteSets

CONSTANTS
    Tasks,       \* requests that enrol, ingest or delete
    MaxRows,     \* bound: rows ever inserted
    MaxFaults    \* bound: failed database operations, unexpected exceptions, crashes

ASSUME BoundAssumption == MaxRows \in Nat /\ MaxFaults \in Nat

NoRow == 0
Ids   == 1..MaxRows

VARIABLES
    cur,         \* id of the row of the identity, or NoRow
    threat,      \* its threat_match
    analysed,    \* it has been fetched and scored
    lock,        \* the request that holds the row: {t}, or {}
    listed,      \* a ThreatListEntry matches the identity (committed)
    nextId,
    task,
    audit,       \* AuditLog: the number of rows of each action about each id
    deferred,    \* history: rows the inventory enrolled unscored
    abandoned,   \* history: rows whose request died, or whose cleanup failed
    unread,      \* history: rows whose request failed right after their commit
    faults

row  == <<cur, threat, analysed>>
hist == <<deferred, abandoned, unread>>
vars == <<row, lock, listed, nextId, task, audit, hist, faults>>

Actions == {"create", "discard", "delete"}

(* pc is what the request does next.  id is the row it enrolled, deletes   *)
(* or found for the entries it ingests; score is the flag of               *)
(* _enroll_extension, preserve the preserve_extension of a failed fetch.   *)
TaskStates ==
    [pc : {"idle", "insert", "reread", "posture", "fetch", "reload", "cleanup", "discard",
           "delete", "apply", "ingest"},
     id : Ids \cup {NoRow}, score : BOOLEAN, preserve : BOOLEAN]

Idle == [pc |-> "idle", id |-> NoRow, score |-> FALSE, preserve |-> FALSE]

TypeOK ==
    /\ cur \in Ids \cup {NoRow}
    /\ threat \in BOOLEAN /\ analysed \in BOOLEAN
    /\ lock \subseteq Tasks
    /\ listed \in BOOLEAN
    /\ nextId \in 1..(MaxRows + 1)
    /\ task \in [Tasks -> TaskStates]
    /\ cur < nextId /\ \A t \in Tasks : task[t].id < nextId
    /\ \A t \in Tasks : task[t].pc \notin {"idle", "insert", "apply", "ingest"} => task[t].id # NoRow
    /\ audit \in [Actions -> [Ids -> Nat]]
    /\ deferred \subseteq Ids /\ abandoned \subseteq Ids /\ unread \subseteq Ids
    /\ faults \in 0..MaxFaults

Init ==
    /\ cur = NoRow /\ threat = FALSE /\ analysed = FALSE
    /\ lock = {}
    /\ listed \in BOOLEAN
    /\ nextId = 1
    /\ task = [t \in Tasks |-> Idle]
    /\ audit = [a \in Actions |-> [i \in Ids |-> 0]]
    /\ deferred = {} /\ abandoned = {} /\ unread = {}
    /\ faults = 0

-----------------------------------------------------------------------------
At(t, p)   == task[t].pc = p
Goto(t, p) == task' = [task EXCEPT ![t].pc = p]
Finish(t)  == task' = [task EXCEPT ![t] = Idle]
Mine(t)    == cur = task[t].id
Fault      == faults < MaxFaults /\ faults' = faults + 1

(* The row is free to write: nobody else has read it FOR UPDATE.           *)
Unlocked == lock = {}

(* SELECT ... FOR UPDATE.  Mutant: without FOR UPDATE.                     *)
ForUpdate_Plain(t) == UNCHANGED lock

ForUpdate(t) == Unlocked /\ lock' = {t}

(* The end of a transaction.                                               *)
Release(t) == lock' = lock \ {t}

(* The rows that a scoring enrolment is at work on.                        *)
Working == {task[t].id : t \in {u \in Tasks : task[u].score}}

(* audit.record, committed with the change it describes.                   *)
Record(action, id) == audit' = [audit EXCEPT ![action][id] = @ + 1]

(* Mutant: only a store failure is cleaned up after (#75).                 *)
Unexpected_NoCleanup(t) == Finish(t)

(* An unexpected exception after the row was committed: a scoring          *)
(* enrolment cleans up, a deferred one does not.                           *)
Unexpected(t) == IF task[t].score THEN Goto(t, "cleanup") ELSE Finish(t)

-----------------------------------------------------------------------------
(* _enroll_extension: the duplicate check, ...                             *)
Enroll(t, score) ==
    /\ At(t, "idle")
    /\ cur = NoRow
    /\ task' = [task EXCEPT ![t] = [Idle EXCEPT !.pc = "insert", !.score = score]]
    /\ UNCHANGED <<row, lock, listed, nextId, audit, hist, faults>>

(* The id the flush assigns.                                               *)
ext_id == nextId

(* ... the placeholder and its audit row, ...                              *)
Insert(t) ==
    /\ At(t, "insert") /\ cur = NoRow /\ nextId <= MaxRows
    /\ cur' = nextId /\ threat' = FALSE /\ analysed' = FALSE
    /\ nextId' = nextId + 1
    /\ Record("create", nextId)
    /\ task' = [task EXCEPT ![t].pc = "reread", ![t].id = ext_id]
    /\ deferred' = IF task[t].score THEN deferred ELSE deferred \cup {nextId}
    /\ UNCHANGED <<lock, listed, abandoned, unread, faults>>

(* ... or neither: the unique constraint fires and the row that is there   *)
(* is reported as a duplicate (#76), or the database fails.                *)
InsertFails(t) ==
    /\ At(t, "insert")
    /\ Finish(t)
    /\ UNCHANGED <<row, lock, listed, nextId, audit, hist, faults>>

(* The row is read back after its commit, for its id.  That is before the  *)
(* try whose handlers clean up: when it raises, because the row is gone or *)
(* the database fails, the request ends there.                             *)
ReadBack(t) ==
    /\ At(t, "reread") /\ Mine(t)
    /\ Goto(t, "posture")
    /\ UNCHANGED <<row, lock, listed, nextId, audit, hist, faults>>

ReadBackFails(t) ==
    /\ At(t, "reread")
    /\ \/ ~Mine(t) /\ UNCHANGED faults
       \/ Fault
    /\ Finish(t)
    /\ unread' = unread \cup {task[t].id}
    /\ UNCHANGED <<row, lock, listed, nextId, audit, deferred, abandoned>>

(* The posture yields an event.                                            *)
preserve_extension == listed /\ ~threat

(* apply_existing_threat_posture, which locks the row if it is listed; its *)
(* event, if the match is new, becomes preserve_extension.  The reload     *)
(* after it raises when the row is gone.                                   *)
apply_existing_threat_posture(t) ==
    /\ At(t, "posture") /\ Mine(t)
    /\ listed => Unlocked
    /\ threat' = (threat \/ listed)
    /\ task' = [task EXCEPT ![t] =
                  IF task[t].score
                  THEN [@ EXCEPT !.pc = "fetch", !.preserve = preserve_extension]
                  ELSE Idle]
    /\ UNCHANGED <<cur, analysed, lock, listed, nextId, audit, hist, faults>>

PostureFails(t) ==
    /\ At(t, "posture")
    /\ \/ ~Mine(t) /\ UNCHANGED faults
       \/ Fault
    /\ Unexpected(t)
    /\ UNCHANGED <<row, lock, listed, nextId, audit, hist>>

(* The store fails: the failure FetchLog is committed, or, with the row    *)
(* gone, violates its foreign key, which is an unexpected exception.       *)
FetchFails(t) ==
    /\ At(t, "fetch")
    /\ IF Mine(t) /\ task[t].preserve THEN Finish(t) ELSE Goto(t, "cleanup")
    /\ UNCHANGED <<row, lock, listed, nextId, audit, hist, faults>>

(* The locked half of fetch_and_store and the commit.                      *)
FetchStores(t) ==
    /\ At(t, "fetch") /\ Mine(t) /\ Unlocked
    /\ analysed' = TRUE /\ threat' = listed
    /\ Goto(t, "reload")
    /\ UNCHANGED <<cur, lock, listed, nextId, audit, hist, faults>>

(* Anything else goes wrong before that commit.                            *)
FetchRaises(t) ==
    /\ At(t, "fetch") /\ Fault
    /\ Unexpected(t)
    /\ UNCHANGED <<row, lock, listed, nextId, audit, hist>>

(* The reload after the commit, which raises when the row is gone.         *)
Reload(t) ==
    /\ At(t, "reload")
    /\ \/ Mine(t) /\ Finish(t) /\ UNCHANGED faults
       \/ ~Mine(t) /\ Unexpected(t) /\ UNCHANGED faults
       \/ Fault /\ Unexpected(t)
    /\ UNCHANGED <<row, lock, listed, nextId, audit, hist>>

(* _discard_placeholder reads the row under its lock; one that is flagged, *)
(* or gone, is left alone.                                                 *)
LockOrphan(t) ==
    /\ At(t, "cleanup")
    /\ \/ Mine(t) /\ ~threat /\ ForUpdate(t) /\ Goto(t, "discard")
       \/ Mine(t) /\ threat /\ Unlocked /\ UNCHANGED lock /\ Finish(t)
       \/ ~Mine(t) /\ UNCHANGED lock /\ Finish(t)
    /\ UNCHANGED <<row, listed, nextId, audit, hist, faults>>

(* Mutant: the discard is not recorded.                                    *)
RecordDiscard_None(id) == UNCHANGED audit

RecordDiscard(id) == Record("discard", id)

(* It is deleted with its FetchLogs, and the deletion recorded.            *)
_discard_placeholder(t) ==
    /\ At(t, "discard") /\ Mine(t)
    /\ cur' = NoRow /\ threat' = FALSE /\ analysed' = FALSE
    /\ RecordDiscard(cur)
    /\ Release(t)
    /\ Finish(t)
    /\ UNCHANGED <<listed, nextId, hist, faults>>

(* Best effort: a failed cleanup is swallowed.                             *)
DiscardFails(t) ==
    /\ task[t].pc \in {"cleanup", "discard"} /\ Fault
    /\ Release(t)
    /\ Finish(t)
    /\ abandoned' = abandoned \cup {task[t].id}
    /\ UNCHANGED <<row, listed, nextId, audit, deferred, unread>>

-----------------------------------------------------------------------------
(* delete_extension loads the row without a lock, ...                      *)
BeginDelete(t) ==
    /\ At(t, "idle") /\ cur # NoRow
    /\ task' = [task EXCEPT ![t] = [Idle EXCEPT !.pc = "delete", !.id = cur]]
    /\ UNCHANGED <<row, lock, listed, nextId, audit, hist, faults>>

(* ... then records and deletes it, when nobody has it locked.  A DELETE   *)
(* that finds no row is no error to the ORM.                               *)
delete_extension(t) ==
    /\ At(t, "delete")
    /\ \/ Mine(t) /\ Unlocked /\ cur' = NoRow /\ threat' = FALSE /\ analysed' = FALSE
       \/ ~Mine(t) /\ UNCHANGED row
    /\ Record("delete", task[t].id)
    /\ Finish(t)
    /\ UNCHANGED <<lock, listed, nextId, hist, faults>>

(* ingest_threatlist, refresh_threat_feed: the ids of the rows that match, *)
BeginIngest(t) ==
    /\ At(t, "idle")
    /\ task' = [task EXCEPT ![t] = [Idle EXCEPT !.pc = "apply", !.id = cur]]
    /\ UNCHANGED <<row, lock, listed, nextId, audit, hist, faults>>

(* ... each locked if it is still there, ...                               *)
LockMatch(t) ==
    /\ At(t, "apply")
    /\ IF Mine(t) /\ cur # NoRow THEN ForUpdate(t) ELSE UNCHANGED lock
    /\ Goto(t, "ingest")
    /\ UNCHANGED <<row, listed, nextId, audit, hist, faults>>

(* ... and the commit of the entries and of the posture of those rows.     *)
IngestCommit(t) ==
    /\ At(t, "ingest")
    /\ listed' = TRUE
    /\ threat' = (threat \/ (Mine(t) /\ cur # NoRow))
    /\ Release(t)
    /\ Finish(t)
    /\ UNCHANGED <<cur, analysed, nextId, audit, hist, faults>>

(* A deletion or an ingestion fails and is rolled back.                    *)
RollBack(t) ==
    /\ task[t].pc \in {"delete", "apply", "ingest"} /\ Fault
    /\ Release(t)
    /\ Finish(t)
    /\ UNCHANGED <<row, listed, nextId, audit, hist>>

(* The scheduler's cycle, or a manual refresh, stores the row's analysis.  *)
Refresh ==
    /\ cur # NoRow /\ Unlocked
    /\ analysed' = TRUE /\ threat' = listed
    /\ UNCHANGED <<cur, lock, listed, nextId, task, audit, hist, faults>>

(* The process dies.                                                       *)
Crash ==
    /\ Fault
    /\ task' = [t \in Tasks |-> Idle]
    /\ lock' = {}
    /\ abandoned' = abandoned \cup (Working \ {NoRow})
    /\ UNCHANGED <<row, listed, nextId, audit, deferred, unread>>

-----------------------------------------------------------------------------
Request(t) ==
    \/ \E score \in BOOLEAN : Enroll(t, score)
    \/ Insert(t) \/ InsertFails(t) \/ ReadBack(t) \/ ReadBackFails(t)
    \/ apply_existing_threat_posture(t) \/ PostureFails(t)
    \/ FetchFails(t) \/ FetchStores(t) \/ FetchRaises(t) \/ Reload(t)
    \/ LockOrphan(t) \/ _discard_placeholder(t) \/ DiscardFails(t)
    \/ BeginDelete(t) \/ delete_extension(t)
    \/ BeginIngest(t) \/ LockMatch(t) \/ IngestCommit(t) \/ RollBack(t)

Next == (\E t \in Tasks : Request(t)) \/ Refresh \/ Crash

Spec == Init /\ [][Next]_vars

-----------------------------------------------------------------------------
(* Properties.                                                             *)

Audited(action) == {i \in Ids : audit[action][i] > 0}

(* The trail tells which rows exist: the row that was created and neither  *)
(* discarded nor deleted, through conflicting inserts, cleanups that lose  *)
(* to a deletion, crashes and failures (#34).                              *)
AuditTruthful ==
    {cur} \ {NoRow} = Audited("create") \ (Audited("discard") \cup Audited("delete"))

(* A row that carries a threat match keeps it, and is there until a user   *)
(* deletes it: the cleanup of a failed add, which an ingestion, another    *)
(* refresh or a deletion may overtake between its look at the row and its  *)
(* own deletion, does not remove it, and no refresh takes the match back   *)
(* (#31).                                                                  *)
MatchKept ==
    [][cur # NoRow /\ threat => (cur' = cur /\ threat') \/ cur \in Audited("delete")']_vars

(* The row is on the watchlist without analysis and without flag; somebody *)
(* answers for it: the inventory enrolled it, its add is still at work, or *)
(* a crash or a failed cleanup ended it.                                   *)
Bare == cur # NoRow /\ ~analysed /\ ~threat
AnsweredFor == cur \in deferred \cup abandoned \cup Working

(* A failed add leaves no unanalysed, unflagged row on the watchlist once  *)
(* it has read its row back: every later failure, of the store, the        *)
(* database or the code, is cleaned up after (#75).                        *)
NoLeftovers == Bare => AnsweredFor \/ cur \in unread

=============================================================================
