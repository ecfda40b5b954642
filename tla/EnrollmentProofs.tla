-------------------------- MODULE EnrollmentProofs ---------------------------
(***************************************************************************)
(* Proofs about Enrollment for any number of requests, rows and faults.    *)
(*                                                                         *)
(* That the trail is truthful needs that nothing is on record of an id     *)
(* that was not given yet (Unborn), so that an id means one row for ever.  *)
(* That no leftover stays behind needs what a request knows of its own row *)
(* (Knows): one that will preserve it has flagged it, and one past the     *)
(* commit of its fetch has analysed it, whoever wrote to the row since.    *)
(* That a match is kept needs what the lock keeps true between the look of *)
(* a cleanup and its commit (Held), and that a match has its entry         *)
(* (MatchListed), so that no refresh takes it back.                        *)
(*                                                                         *)
(* The last section is about Inventory, for any number of batches and any  *)
(* finite number of assets: the observations and the footprint of the row. *)
(***************************************************************************)
EXTENDS Enrollment, Inventory, FiniteSetTheorems, TLAPS

USE DEF At, Goto, Finish, Mine, Fault, Record, NoRow

Unborn == \A a \in Actions, i \in Ids : i >= nextId => audit[a][i] = 0

(* What a request knows of its row.                                        *)
Knows(s, id, flagged, done) ==
    /\ s.pc \in {"idle", "insert"} => s.id = NoRow /\ ~s.preserve
    /\ s.preserve /\ s.id = id /\ id # NoRow => flagged \/ done
    /\ s.pc = "reload" /\ s.id = id => done
    /\ s.pc \in {"delete", "apply", "ingest"} => ~s.score

RequestsKnow == \A t \in Tasks : Knows(task[t], cur, threat, analysed)

(* Whoever is about to discard a row holds it, and it is unflagged; an     *)
(* ingestion that has found its row holds it.                              *)
Held ==
    \A t \in Tasks :
        /\ At(t, "discard") => lock = {t} /\ Mine(t) /\ cur # NoRow /\ ~threat
        /\ At(t, "ingest") /\ Mine(t) /\ cur # NoRow => lock = {t}

MatchListed == threat => listed

IInv ==
    /\ TypeOK /\ Unborn /\ AuditTruthful /\ RequestsKnow /\ NoLeftovers
    /\ Held /\ MatchListed

-----------------------------------------------------------------------------
(* Type correctness, of the requests and of the rest.                      *)

TaskOK(s, n) ==
    /\ s \in TaskStates /\ s.id < n
    /\ s.pc \notin {"idle", "insert", "apply", "ingest"} => s.id # NoRow

TasksOK == task \in [Tasks -> TaskStates] /\ \A t \in Tasks : TaskOK(task[t], nextId)

RestOK ==
    /\ cur \in Ids \cup {NoRow} /\ cur < nextId
    /\ threat \in BOOLEAN /\ analysed \in BOOLEAN /\ listed \in BOOLEAN
    /\ nextId \in 1..(MaxRows + 1)
    /\ audit \in [Actions -> [Ids -> Nat]]
    /\ deferred \subseteq Ids /\ abandoned \subseteq Ids /\ unread \subseteq Ids
    /\ lock \subseteq Tasks
    /\ faults \in 0..MaxFaults

LEMMA TypeParts == TypeOK <=> TasksOK /\ RestOK
BY DEF TypeOK, TasksOK, TaskOK, RestOK

LEMMA Numbers ==
    ASSUME TypeOK
    PROVE  /\ nextId \in Nat /\ nextId >= 1 /\ cur \in Nat /\ cur < nextId
           /\ Ids \subseteq Nat /\ 0 \notin Ids
           /\ \A t \in Tasks : task[t] \in TaskStates /\ task[t].id \in Nat /\ task[t].id < nextId
BY BoundAssumption DEF TypeOK, Ids, TaskStates

LEMMA IdleType == /\ Idle \in TaskStates /\ Idle.pc = "idle" /\ Idle.id = NoRow
                  /\ Idle.score = FALSE /\ Idle.preserve = FALSE
BY DEF Idle, TaskStates

LEMMA InitType == Init => TypeOK
<1> SUFFICES ASSUME Init PROVE TasksOK /\ RestOK
  BY TypeParts
<1>1. TasksOK
  BY IdleType DEF Init, TasksOK, TaskOK
<1>2. nextId \in 1..(MaxRows + 1) /\ cur < nextId /\ faults \in 0..MaxFaults
  BY BoundAssumption DEF Init
<1>3. audit \in [Actions -> [Ids -> Nat]]
  BY DEF Init
<1>4. RestOK
  BY <1>2, <1>3 DEF Init, RestOK
<1> QED BY <1>1, <1>4

(* A request whose state is replaced by a well-typed one.                  *)
LEMMA OneTask ==
    ASSUME TypeOK, NEW t \in Tasks, NEW s, TaskOK(s, nextId'),
           nextId' \in {nextId, nextId + 1}, task' = [task EXCEPT ![t] = s]
    PROVE  TasksOK'
<1>1. \A u \in Tasks : TaskOK(task[u], nextId')
  BY Numbers, TypeParts DEF TasksOK, TaskOK
<1>2. s \in TaskStates
  BY DEF TaskOK
<1> QED BY <1>1, <1>2, TypeParts DEF TasksOK

(* The ways a request goes on that leave its id alone.                     *)
LEMMA GoOn ==
    ASSUME TypeOK, NEW t \in Tasks, nextId' = nextId,
           NEW p \in {"posture", "reload", "cleanup", "discard", "ingest"},
           Finish(t) \/ (Goto(t, p) /\ (p = "ingest" \/ task[t].id # NoRow))
    PROVE  TasksOK'
<1>1. CASE Finish(t)
  <2>1. TaskOK(Idle, nextId')
    BY IdleType, Numbers DEF TaskOK
  <2> QED BY <1>1, <2>1, OneTask
<1>2. CASE Goto(t, p) /\ (p = "ingest" \/ task[t].id # NoRow)
  <2> DEFINE s == [task[t] EXCEPT !.pc = p]
  <2>1. TaskOK(s, nextId')
    BY <1>2, Numbers DEF TaskOK, TaskStates
  <2>2. task' = [task EXCEPT ![t] = s]
    BY <1>2 DEF TypeOK
  <2> HIDE DEF s
  <2> QED BY <2>1, <2>2, OneTask
<1> QED BY <1>1, <1>2

LEMMA RecordType ==
    ASSUME TypeOK, NEW a \in Actions, NEW i \in Ids, Record(a, i)
    PROVE  audit' \in [Actions -> [Ids -> Nat]]
BY DEF TypeOK

LEMMA LockType ==
    ASSUME TypeOK, NEW t \in Tasks, ForUpdate(t) \/ Release(t) \/ UNCHANGED lock
    PROVE  lock' \subseteq Tasks
BY DEF TypeOK, ForUpdate, Release

LEMMA TypeStep == TypeOK /\ [Next]_vars => TypeOK'
<1> SUFFICES ASSUME TypeOK, [Next]_vars PROVE TasksOK' /\ RestOK'
  BY DEF TypeOK, TasksOK, TaskOK, RestOK
<1>0. TasksOK /\ RestOK /\ nextId \in Nat /\ nextId >= 1 /\ cur \in Nat /\ cur < nextId
  BY Numbers, TypeParts
<1> USE DEF RestOK
<1>1. ASSUME NEW t \in Tasks, NEW score \in BOOLEAN, Enroll(t, score) PROVE TasksOK' /\ RestOK'
  <2> DEFINE s == [Idle EXCEPT !.pc = "insert", !.score = score]
  <2>1. s \in TaskStates /\ s.pc = "insert" /\ s.id = NoRow
    BY DEF Idle, TaskStates
  <2> HIDE DEF s
  <2>2. nextId' = nextId /\ task' = [task EXCEPT ![t] = s]
    BY <1>1 DEF Enroll, s
  <2>3. TasksOK'
    <3>1. TaskOK(s, nextId)
      BY <1>0, <2>1 DEF TaskOK
    <3> QED BY <2>2, <3>1, OneTask
  <2> QED BY <1>0, <1>1, <2>3 DEF Enroll, row, hist
<1>2. ASSUME NEW t \in Tasks, Insert(t) PROVE TasksOK' /\ RestOK'
  <2> DEFINE s == [task[t] EXCEPT !.pc = "reread", !.id = nextId]
  <2>1. nextId \in Ids /\ nextId' = nextId + 1 /\ cur' = nextId /\ nextId' \in 1..(MaxRows + 1)
    BY <1>0, <1>2, BoundAssumption DEF Insert, Ids
  <2>2. TaskOK(s, nextId')
    <3>1. s \in TaskStates /\ s.id = nextId
      BY <2>1, Numbers DEF TaskStates
    <3> HIDE DEF s
    <3> QED BY <1>0, <2>1, <3>1 DEF TaskOK
  <2>3. task' = [task EXCEPT ![t] = s]
    BY <1>2 DEF TypeOK, Insert, ext_id
  <2> HIDE DEF s
  <2>4. TasksOK'
    BY <2>1, <2>2, <2>3, OneTask
  <2>5. audit' \in [Actions -> [Ids -> Nat]]
    BY <1>2, <2>1, RecordType DEF Insert, Actions
  <2>6. deferred' \subseteq Ids
    BY <1>0, <1>2, <2>1 DEF Insert
  <2>7. cur' \in Ids \cup {NoRow} /\ cur' < nextId'
    BY <1>0, <2>1
  <2> QED BY <1>0, <1>2, <2>1, <2>4, <2>5, <2>6, <2>7 DEF Insert
<1>3. ASSUME NEW t \in Tasks, InsertFails(t) PROVE TasksOK' /\ RestOK'
  <2>1. TasksOK'
    BY <1>3, GoOn DEF InsertFails
  <2> QED BY <1>0, <1>3, <2>1 DEF InsertFails, row, hist
<1>4. ASSUME NEW t \in Tasks, apply_existing_threat_posture(t) PROVE TasksOK' /\ RestOK'
  <2> DEFINE s == IF task[t].score THEN [task[t] EXCEPT !.pc = "fetch", !.preserve = preserve_extension] ELSE Idle
  <2>1. preserve_extension \in BOOLEAN
    BY <1>0 DEF preserve_extension
  <2>2. task[t] \in TaskStates /\ task[t].id < nextId /\ task[t].id # NoRow
    BY <1>4, Numbers DEF apply_existing_threat_posture, TypeOK
  <2>3. TaskOK(s, nextId)
    <3>1. CASE task[t].score
      BY <2>1, <2>2, <3>1 DEF TaskStates, TaskOK
    <3>2. CASE ~task[t].score
      BY <1>0, <3>2, IdleType DEF TaskOK
    <3> QED BY <3>1, <3>2
  <2>4. nextId' = nextId /\ task' = [task EXCEPT ![t] = s]
    BY <1>4 DEF apply_existing_threat_posture, TypeOK
  <2> HIDE DEF s
  <2>5. TasksOK'
    BY <2>3, <2>4, OneTask
  <2> QED BY <1>0, <1>4, <2>5 DEF apply_existing_threat_posture, hist
<1>5. ASSUME NEW t \in Tasks,
             ReadBack(t) \/ PostureFails(t) \/ FetchFails(t) \/ FetchRaises(t) \/ Reload(t)
      PROVE  TasksOK' /\ RestOK'
  <2>1. nextId' = nextId /\ task[t].id # NoRow
    BY <1>5 DEF ReadBack, PostureFails, FetchFails, FetchRaises, Reload, TypeOK
  <2>2. faults' \in 0..MaxFaults
    BY <1>0, <1>5, BoundAssumption DEF ReadBack, PostureFails, FetchFails, FetchRaises, Reload
  <2>3. Finish(t) \/ Goto(t, "cleanup") \/ Goto(t, "posture")
    BY <1>5 DEF ReadBack, PostureFails, FetchFails, FetchRaises, Reload, Unexpected
  <2>4. TasksOK'
    BY <2>1, <2>3, GoOn
  <2>5. UNCHANGED <<row, lock, listed, nextId, audit, hist>>
    BY <1>5 DEF ReadBack, PostureFails, FetchFails, FetchRaises, Reload
  <2> QED BY <1>0, <2>2, <2>4, <2>5 DEF row, hist
<1>6. ASSUME NEW t \in Tasks, FetchStores(t) PROVE TasksOK' /\ RestOK'
  <2>1. TasksOK'
    BY <1>6, GoOn DEF FetchStores, TypeOK
  <2> QED BY <1>0, <1>6, <2>1 DEF FetchStores, hist
<1>7. ASSUME NEW t \in Tasks, _discard_placeholder(t) PROVE TasksOK' /\ RestOK'
  <2>1. TasksOK' /\ task[t].id # NoRow /\ lock' \subseteq Tasks
    BY <1>7, GoOn, LockType DEF _discard_placeholder, TypeOK
  <2>2. task[t].id \in Ids
    BY <2>1 DEF TypeOK, TaskStates
  <2>3. audit' \in [Actions -> [Ids -> Nat]]
    <3>1. Record("discard", cur) /\ Mine(t)
      BY <1>7 DEF _discard_placeholder, RecordDiscard
    <3> QED BY <2>2, <3>1, RecordType DEF Actions
  <2>4. cur' = NoRow /\ threat' \in BOOLEAN /\ analysed' \in BOOLEAN
    BY <1>7 DEF _discard_placeholder
  <2>5. cur' \in Ids \cup {NoRow} /\ cur' < nextId
    BY <1>0, <2>4
  <2> QED BY <1>0, <1>7, <2>1, <2>3, <2>4, <2>5 DEF _discard_placeholder, hist
<1>8. ASSUME NEW t \in Tasks, ReadBackFails(t) \/ DiscardFails(t) PROVE TasksOK' /\ RestOK'
  <2>1. nextId' = nextId /\ task[t].id \in Ids
    BY <1>8 DEF ReadBackFails, DiscardFails, TypeOK, TaskStates
  <2>2. TasksOK' /\ lock' \subseteq Tasks
    BY <1>8, <2>1, GoOn, LockType DEF ReadBackFails, DiscardFails
  <2>3. abandoned' \subseteq Ids /\ unread' \subseteq Ids
    BY <1>0, <1>8, <2>1 DEF ReadBackFails, DiscardFails
  <2>4. faults' \in 0..MaxFaults
    BY <1>0, <1>8, BoundAssumption DEF ReadBackFails, DiscardFails
  <2>5. UNCHANGED <<row, listed, nextId, audit, deferred>>
    BY <1>8 DEF ReadBackFails, DiscardFails
  <2> QED BY <1>0, <2>2, <2>3, <2>4, <2>5 DEF row
<1>9. ASSUME NEW t \in Tasks, NEW p \in {"delete", "apply"}, p = "delete" => cur # NoRow,
             task' = [task EXCEPT ![t] = [Idle EXCEPT !.pc = p, !.id = cur]],
             UNCHANGED <<row, lock, listed, nextId, audit, hist, faults>>
      PROVE  TasksOK' /\ RestOK'
  <2> DEFINE s == [Idle EXCEPT !.pc = p, !.id = cur]
  <2>1. TaskOK(s, nextId)
    BY <1>0, <1>9 DEF Idle, TaskStates, TaskOK
  <2>2. nextId' = nextId /\ task' = [task EXCEPT ![t] = s]
    BY <1>9
  <2> HIDE DEF s
  <2>3. TasksOK'
    BY <2>1, <2>2, OneTask
  <2> QED BY <1>0, <1>9, <2>3 DEF row, hist
<1>10. ASSUME NEW t \in Tasks, BeginDelete(t) \/ BeginIngest(t) PROVE TasksOK' /\ RestOK'
  BY <1>9, <1>10 DEF BeginDelete, BeginIngest
<1>11. ASSUME NEW t \in Tasks, delete_extension(t) PROVE TasksOK' /\ RestOK'
  <2>1. TasksOK' /\ task[t].id # NoRow
    BY <1>11, GoOn DEF delete_extension, TypeOK
  <2>2. task[t].id \in Ids
    BY <2>1 DEF TypeOK, TaskStates
  <2>3. audit' \in [Actions -> [Ids -> Nat]]
    BY <1>11, <2>2, RecordType DEF delete_extension, Actions
  <2>4. cur' \in {cur, NoRow} /\ threat' \in BOOLEAN /\ analysed' \in BOOLEAN
    BY <1>0, <1>11 DEF delete_extension, row
  <2>5. cur' \in Ids \cup {NoRow} /\ cur' < nextId
    BY <1>0, <2>4
  <2> QED BY <1>0, <1>11, <2>1, <2>3, <2>4, <2>5 DEF delete_extension, hist
<1>12. ASSUME NEW t \in Tasks, IngestCommit(t) PROVE TasksOK' /\ RestOK'
  <2>1. TasksOK' /\ lock' \subseteq Tasks
    BY <1>12, GoOn, LockType DEF IngestCommit
  <2> QED BY <1>0, <1>12, <2>1 DEF IngestCommit, hist
<1>13. ASSUME NEW t \in Tasks, LockOrphan(t) \/ LockMatch(t) PROVE TasksOK' /\ RestOK'
  <2>1. UNCHANGED <<row, listed, nextId, audit, hist, faults>>
    BY <1>13 DEF LockOrphan, LockMatch
  <2>2. lock' \subseteq Tasks
    BY <1>13, LockType DEF LockOrphan, LockMatch
  <2>3. CASE LockOrphan(t)
    <3>1. task[t].id # NoRow /\ (Goto(t, "discard") \/ Finish(t))
      BY <2>3 DEF LockOrphan, TypeOK
    <3>2. TasksOK'
      BY <2>1, <3>1, GoOn
    <3> QED BY <1>0, <2>1, <2>2, <3>2 DEF row, hist
  <2>4. CASE LockMatch(t)
    <3>1. TasksOK'
      BY <2>1, <2>4, GoOn DEF LockMatch
    <3> QED BY <1>0, <2>1, <2>2, <3>1 DEF row, hist
  <2> QED BY <1>13, <2>3, <2>4
<1>14. ASSUME NEW t \in Tasks, RollBack(t) PROVE TasksOK' /\ RestOK'
  <2>1. TasksOK' /\ lock' \subseteq Tasks
    BY <1>14, GoOn, LockType DEF RollBack
  <2>2. faults' \in 0..MaxFaults
    BY <1>0, <1>14, BoundAssumption DEF RollBack
  <2> QED BY <1>0, <1>14, <2>1, <2>2 DEF RollBack, row, hist
<1>15. CASE Refresh
  BY <1>0, <1>15 DEF Refresh, hist, TasksOK
<1>16. CASE Crash
  <2>1. \A t \in Tasks : task[t].id \in Ids \cup {NoRow}
    BY DEF TypeOK, TaskStates
  <2>2. abandoned' \subseteq Ids
    BY <1>0, <1>16, <2>1 DEF Crash, Working
  <2>3. faults' \in 0..MaxFaults
    BY <1>0, <1>16, BoundAssumption DEF Crash
  <2>4. TasksOK'
    BY <1>0, <1>16, IdleType DEF Crash, TasksOK, TaskOK
  <2> QED BY <1>0, <1>16, <2>2, <2>3, <2>4 DEF Crash, row
<1>17. CASE UNCHANGED vars
  BY <1>0, <1>17 DEF vars, row, hist, TasksOK
<1> QED
  BY <1>1, <1>2, <1>3, <1>4, <1>5, <1>6, <1>7, <1>8, <1>10, <1>11, <1>12, <1>13, <1>14, <1>15,
     <1>16, <1>17
  DEF Next, Request

-----------------------------------------------------------------------------
(* The audit trail.                                                        *)

(* A record is of one action and one row.                                  *)
LEMMA RecordIs ==
    ASSUME TypeOK, NEW a \in Actions, NEW i \in Ids, Record(a, i)
    PROVE  /\ audit'[a][i] > 0
           /\ \A b \in Actions, j \in Ids : b # a \/ j # i => audit'[b][j] = audit[b][j]
<1>1. audit \in [Actions -> [Ids -> Nat]] /\ audit[a][i] \in Nat
  BY DEF TypeOK
<1>2. audit' = [audit EXCEPT ![a] = [audit[a] EXCEPT ![i] = audit[a][i] + 1]]
  BY <1>1
<1> QED BY <1>1, <1>2

LEMMA RecordAdds ==
    ASSUME TypeOK, NEW a \in Actions, NEW i \in Ids, Record(a, i)
    PROVE  /\ Audited(a)' = Audited(a) \cup {i}
           /\ \A b \in Actions : b # a => Audited(b)' = Audited(b)
<1>1. /\ audit'[a][i] > 0
      /\ \A b \in Actions, j \in Ids : b # a \/ j # i => audit'[b][j] = audit[b][j]
  BY RecordIs
<1>2. Audited(a)' = Audited(a) \cup {i}
  BY <1>1 DEF Audited
<1>3. ASSUME NEW b \in Actions, b # a PROVE Audited(b)' = Audited(b)
  BY <1>1, <1>3 DEF Audited
<1> QED BY <1>2, <1>3

LEMMA UnbornStep == TypeOK /\ Unborn /\ [Next]_vars => Unborn'
<1> SUFFICES ASSUME TypeOK, Unborn, [Next]_vars PROVE Unborn'
  OBVIOUS
<1>1. nextId \in Nat /\ Ids \subseteq Nat
  BY Numbers
<1>2. ASSUME NEW t \in Tasks, Insert(t) PROVE Unborn'
  <2>1. nextId \in Ids /\ nextId' = nextId + 1 /\ Record("create", nextId)
    BY <1>1, <1>2, Numbers, BoundAssumption DEF Insert, Ids
  <2>2. \A b \in Actions, j \in Ids : j # nextId => audit'[b][j] = audit[b][j]
    BY <2>1, RecordIs DEF Actions
  <2> QED BY <1>1, <2>1, <2>2 DEF Unborn
<1>3. ASSUME NEW t \in Tasks, NEW a \in Actions, Record(a, task[t].id), task[t].id # NoRow, nextId' = nextId
      PROVE  Unborn'
  <2>1. task[t].id \in Ids /\ ~(task[t].id >= nextId)
    BY <1>1, <1>3, Numbers DEF TaskStates
  <2> QED BY <1>1, <1>3, <2>1, RecordIs DEF Unborn
<1>4. ASSUME NEW t \in Tasks, _discard_placeholder(t) \/ delete_extension(t) PROVE Unborn'
  <2>1. task[t].id # NoRow /\ nextId' = nextId
    BY <1>4 DEF _discard_placeholder, delete_extension, TypeOK
  <2>2. Record("discard", task[t].id) \/ Record("delete", task[t].id)
    BY <1>4 DEF _discard_placeholder, delete_extension, RecordDiscard
  <2> QED BY <1>3, <2>1, <2>2 DEF Unborn, Actions
<1>5. CASE UNCHANGED <<nextId, audit>>
  BY <1>5 DEF Unborn
<1> QED
  BY <1>2, <1>4, <1>5
  DEF Next, Request, Enroll, InsertFails, ReadBack, ReadBackFails, apply_existing_threat_posture, PostureFails,
      FetchFails, FetchStores, FetchRaises, Reload, LockOrphan, DiscardFails, BeginDelete, BeginIngest,
      LockMatch, IngestCommit, RollBack, Refresh, Crash, vars

LEMMA AuditStep == TypeOK /\ Unborn /\ AuditTruthful /\ [Next]_vars => AuditTruthful'
<1> SUFFICES ASSUME TypeOK, Unborn, AuditTruthful, [Next]_vars PROVE AuditTruthful'
  OBVIOUS
<1>0. Actions = {"create", "discard", "delete"} /\ nextId \in Nat /\ 0 \notin Ids
  BY Numbers DEF Actions
<1>1. ASSUME NEW t \in Tasks, Insert(t) PROVE AuditTruthful'
  <2>1. nextId \in Ids /\ cur = NoRow /\ cur' = nextId /\ Record("create", nextId)
    BY <1>1, Numbers, BoundAssumption DEF Insert, Ids
  <2>2. nextId \notin Audited("discard") /\ nextId \notin Audited("delete")
    BY <1>0, <2>1 DEF Unborn, Audited
  <2>3. /\ Audited("create")' = Audited("create") \cup {nextId}
        /\ Audited("discard")' = Audited("discard") /\ Audited("delete")' = Audited("delete")
    BY <1>0, <2>1, RecordAdds
  <2> QED BY <1>0, <2>1, <2>2, <2>3 DEF AuditTruthful
<1>2. ASSUME NEW t \in Tasks, _discard_placeholder(t) PROVE AuditTruthful'
  <2>1. cur' = NoRow /\ Record("discard", cur) /\ cur # NoRow
    BY <1>2 DEF _discard_placeholder, RecordDiscard, TypeOK
  <2>2. cur \in Ids
    BY <2>1 DEF TypeOK
  <2>3. /\ Audited("discard")' = Audited("discard") \cup {cur}
        /\ Audited("create")' = Audited("create") /\ Audited("delete")' = Audited("delete")
    BY <1>0, <2>1, <2>2, RecordAdds
  <2> QED BY <2>1, <2>3 DEF AuditTruthful
<1>3. ASSUME NEW t \in Tasks, delete_extension(t) PROVE AuditTruthful'
  <2>1. task[t].id \in Ids /\ Record("delete", task[t].id)
    BY <1>3 DEF delete_extension, TypeOK, TaskStates
  <2>2. cur' = IF cur = task[t].id THEN NoRow ELSE cur
    BY <1>3 DEF delete_extension, row
  <2>3. /\ Audited("delete")' = Audited("delete") \cup {task[t].id}
        /\ Audited("create")' = Audited("create") /\ Audited("discard")' = Audited("discard")
    BY <1>0, <2>1, RecordAdds
  <2> QED BY <2>2, <2>3 DEF AuditTruthful
<1>4. CASE UNCHANGED <<cur, audit>>
  BY <1>4 DEF AuditTruthful, Audited
<1> QED
  BY <1>1, <1>2, <1>3, <1>4
  DEF Next, Request, Enroll, InsertFails, ReadBack, ReadBackFails, apply_existing_threat_posture, PostureFails,
      FetchFails, FetchStores, FetchRaises, Reload, LockOrphan, DiscardFails, BeginDelete, BeginIngest,
      LockMatch, IngestCommit, RollBack, Refresh, Crash, vars, row

-----------------------------------------------------------------------------
(* What requests know, and what they leave behind.                         *)

(* The row stays, and so do its flag or its analysis, or it goes.          *)
RowKept ==
    \/ cur' = NoRow
    \/ cur' = cur /\ (analysed => analysed') /\ (threat \/ analysed => threat' \/ analysed')

LEMMA KnowsKept ==
    ASSUME TypeOK, RequestsKnow, RowKept, NEW t \in Tasks
    PROVE  Knows(task[t], cur', threat', analysed')
BY DEF Knows, RequestsKnow, RowKept, TypeOK

LEMMA OneKnows ==
    ASSUME TypeOK, RequestsKnow, RowKept,
           NEW t \in Tasks, NEW s, Knows(s, cur', threat', analysed'), task' = [task EXCEPT ![t] = s]
    PROVE  RequestsKnow'
<1>1. \A u \in Tasks : Knows(task[u], cur', threat', analysed')
  BY KnowsKept
<1>2. \A u \in Tasks : task'[u] = IF u = t THEN s ELSE task[u]
  BY DEF TypeOK
<1> QED BY <1>1, <1>2 DEF RequestsKnow

(* A request that is done, or goes on other than by the commit of its      *)
(* fetch, knows enough.                                                    *)
LEMMA DoneKnows ==
    ASSUME TypeOK, RequestsKnow, RowKept, NEW t \in Tasks,
           NEW p \in {"posture", "cleanup", "discard", "ingest"}, Finish(t) \/ Goto(t, p),
           p = "ingest" => ~task[t].score
    PROVE  RequestsKnow'
<1>1. CASE Finish(t)
  <2>1. Knows(Idle, cur', threat', analysed')
    BY DEF Knows, Idle
  <2> QED BY <1>1, <2>1, OneKnows
<1>2. CASE Goto(t, p)
  <2> DEFINE s == [task[t] EXCEPT !.pc = p]
  <2>1. /\ s.pc = p /\ s.preserve = task[t].preserve
        /\ s.id = task[t].id /\ s.score = task[t].score
    BY DEF TypeOK, TaskStates
  <2>2. task' = [task EXCEPT ![t] = s]
    BY <1>2 DEF TypeOK
  <2> HIDE DEF s
  <2>3. Knows(s, cur', threat', analysed')
    BY <2>1, KnowsKept DEF Knows
  <2> QED BY <2>2, <2>3, OneKnows
<1> QED BY <1>1, <1>2

LEMMA KnowsStep == TypeOK /\ RequestsKnow /\ [Next]_vars => RequestsKnow'
<1> SUFFICES ASSUME TypeOK, RequestsKnow, [Next]_vars PROVE RequestsKnow'
  OBVIOUS
<1>0. \A t \in Tasks : Knows(task[t], cur, threat, analysed)
  BY DEF RequestsKnow
<1>1. ASSUME NEW t \in Tasks, NEW score \in BOOLEAN, Enroll(t, score) PROVE RequestsKnow'
  <2> DEFINE s == [Idle EXCEPT !.pc = "insert", !.score = score]
  <2>1. Knows(s, cur', threat', analysed')
    BY DEF Knows, Idle
  <2> QED BY <1>1, <2>1, OneKnows DEF Enroll, row, RowKept
<1>2. ASSUME NEW t \in Tasks, Insert(t) PROVE RequestsKnow'
  <2>1. cur' = nextId /\ task[t].pc = "insert"
    BY <1>2 DEF Insert
  <2>2. \A u \in Tasks : task[u].id # nextId /\ nextId # NoRow
    BY Numbers
  <2>3. ASSUME NEW u \in Tasks PROVE Knows(task'[u], cur', threat', analysed')
    <3>1. CASE u # t
      <4>1. task'[u] = task[u]
        BY <1>2, <3>1 DEF Insert, TypeOK
      <4> QED BY <1>0, <2>1, <2>2, <4>1 DEF Knows
    <3>2. CASE u = t
      <4>1. task'[t].pc = "reread" /\ task'[t].preserve = task[t].preserve
        BY <1>2 DEF Insert, TypeOK, TaskStates
      <4>2. ~task[t].preserve
        BY <1>0, <2>1 DEF Knows
      <4> QED BY <3>2, <4>1, <4>2 DEF Knows
    <3> QED BY <3>1, <3>2
  <2> QED BY <2>3 DEF RequestsKnow
<1>3. ASSUME NEW t \in Tasks, apply_existing_threat_posture(t) PROVE RequestsKnow'
  <2> DEFINE s == IF task[t].score THEN [task[t] EXCEPT !.pc = "fetch", !.preserve = preserve_extension] ELSE Idle
  <2>1. task' = [task EXCEPT ![t] = s] /\ RowKept
    BY <1>3 DEF apply_existing_threat_posture, TypeOK, RowKept
  <2>2. s.pc \in {"fetch", "idle"} /\ (s.pc = "idle" => s = Idle) /\ (s.preserve => preserve_extension)
    BY IdleType DEF TypeOK, TaskStates
  <2>3. preserve_extension => threat'
    BY <1>3 DEF apply_existing_threat_posture, preserve_extension
  <2> HIDE DEF s
  <2>4. Knows(s, cur', threat', analysed')
    BY <2>2, <2>3, IdleType DEF Knows
  <2> QED BY <2>1, <2>4, OneKnows
<1>4. ASSUME NEW t \in Tasks, FetchStores(t) PROVE RequestsKnow'
  <2> DEFINE s == [task[t] EXCEPT !.pc = "reload"]
  <2>1. task' = [task EXCEPT ![t] = s] /\ RowKept /\ analysed'
    BY <1>4 DEF FetchStores, TypeOK, RowKept
  <2>2. s.pc = "reload"
    BY DEF TypeOK, TaskStates
  <2> HIDE DEF s
  <2>3. Knows(s, cur', threat', analysed')
    BY <2>1, <2>2 DEF Knows
  <2> QED BY <2>1, <2>3, OneKnows
<1>5. ASSUME NEW t \in Tasks,
             \/ InsertFails(t) \/ ReadBack(t) \/ ReadBackFails(t) \/ PostureFails(t) \/ FetchFails(t)
             \/ FetchRaises(t) \/ Reload(t) \/ LockOrphan(t) \/ DiscardFails(t) \/ LockMatch(t) \/ RollBack(t)
      PROVE  RequestsKnow'
  <2>1. RowKept
    BY <1>5 DEF InsertFails, ReadBack, ReadBackFails, PostureFails, FetchFails, FetchRaises, Reload, LockOrphan,
                DiscardFails, LockMatch, RollBack, row, RowKept
  <2>2. \/ Finish(t)
        \/ \E p \in {"posture", "cleanup", "discard", "ingest"} : Goto(t, p) /\ (p = "ingest" => ~task[t].score)
    BY <1>0, <1>5
    DEF Knows, InsertFails, ReadBack, ReadBackFails, PostureFails, FetchFails, FetchRaises, Reload, LockOrphan,
                DiscardFails, LockMatch, RollBack, Unexpected
  <2> QED BY <2>1, <2>2, DoneKnows
<1>6. ASSUME NEW t \in Tasks, _discard_placeholder(t) \/ delete_extension(t) \/ IngestCommit(t)
      PROVE  RequestsKnow'
  <2>1. Finish(t)
    BY <1>6 DEF _discard_placeholder, delete_extension, IngestCommit
  <2>2. CASE _discard_placeholder(t) \/ delete_extension(t)
    <3>1. cur' = NoRow \/ UNCHANGED row
      BY <2>2 DEF _discard_placeholder, delete_extension
    <3>2. RowKept
      BY <3>1 DEF row, RowKept
    <3> QED BY <2>1, <3>2, DoneKnows
  <2>3. CASE IngestCommit(t)
    <3>1. cur' = cur /\ analysed' = analysed /\ (threat => threat')
      BY <2>3 DEF IngestCommit
    <3> QED BY <2>1, <3>1, DoneKnows DEF RowKept
  <2> QED BY <1>6, <2>2, <2>3
<1>7. ASSUME NEW t \in Tasks, NEW p \in {"delete", "apply"},
             task' = [task EXCEPT ![t] = [Idle EXCEPT !.pc = p, !.id = cur]], UNCHANGED row
      PROVE  RequestsKnow'
  <2> DEFINE s == [Idle EXCEPT !.pc = p, !.id = cur]
  <2>1. Knows(s, cur', threat', analysed')
    BY DEF Knows, Idle
  <2> QED BY <1>7, <2>1, OneKnows DEF row, RowKept
<1>8. ASSUME NEW t \in Tasks, BeginDelete(t) \/ BeginIngest(t) PROVE RequestsKnow'
  BY <1>7, <1>8 DEF BeginDelete, BeginIngest
<1>9. CASE Refresh
  <2>1. RowKept /\ UNCHANGED task
    BY <1>9 DEF Refresh, RowKept
  <2> QED BY <2>1, KnowsKept DEF RequestsKnow
<1>10. CASE Crash
  BY <1>10 DEF Crash, RequestsKnow, Knows, Idle
<1>11. CASE UNCHANGED vars
  BY <1>0, <1>11 DEF vars, row, RequestsKnow
<1> QED
  BY <1>1, <1>2, <1>3, <1>4, <1>5, <1>6, <1>8, <1>9, <1>10, <1>11 DEF Next, Request

(* Somebody answers for the row, or did not get to read it back.           *)
Excused ==
    \/ cur \in deferred \/ cur \in abandoned \/ cur \in unread
    \/ \E t \in Tasks : task[t].score /\ task[t].id = cur

LEMMA LeftoversAre == NoLeftovers <=> (Bare => Excused)
BY DEF NoLeftovers, AnsweredFor, Working, Excused

(* Only the request that steps may cease to answer for the row.            *)
LEMMA StillAnswered ==
    ASSUME TypeOK, Bare => Excused, cur' = cur, Bare' => Bare,
           deferred \subseteq deferred', abandoned \subseteq abandoned', unread \subseteq unread',
           NEW t \in Tasks, \A u \in Tasks \ {t} : task'[u] = task[u],
           Bare' /\ task[t].score /\ task[t].id = cur =>
               cur \in abandoned' \/ cur \in unread' \/ (task'[t].score /\ task'[t].id = cur)
    PROVE  Bare' => Excused'
BY DEF Excused

LEMMA LeftoversStep == TypeOK /\ RequestsKnow /\ NoLeftovers /\ [Next]_vars => NoLeftovers'
<1> SUFFICES ASSUME TypeOK, RequestsKnow, Bare => Excused, [Next]_vars PROVE Bare' => Excused'
  <2>1. NoLeftovers' <=> (Bare' => Excused')
    BY DEF NoLeftovers, AnsweredFor, Working, Excused
  <2> QED BY <2>1, LeftoversAre
<1>0. \A t \in Tasks : /\ Knows(task[t], cur, threat, analysed)
                       /\ task[t].pc \notin {"idle", "insert", "apply", "ingest"} => task[t].id # NoRow
  BY DEF RequestsKnow, TypeOK
<1>1. ASSUME NEW t \in Tasks,
             (\E score \in BOOLEAN : Enroll(t, score)) \/ InsertFails(t) \/ BeginDelete(t) \/ BeginIngest(t)
      PROVE  Bare' => Excused'
  <2>1. task[t].id = NoRow
    BY <1>0, <1>1 DEF Enroll, InsertFails, BeginDelete, BeginIngest, Knows
  <2>2. UNCHANGED <<row, hist>> /\ \A u \in Tasks \ {t} : task'[u] = task[u]
    BY <1>1 DEF Enroll, InsertFails, BeginDelete, BeginIngest, TypeOK
  <2> QED BY <2>1, <2>2, StillAnswered DEF row, hist, Bare
<1>2. ASSUME NEW t \in Tasks, Insert(t) PROVE Bare' => Excused'
  <2>1. task'[t].score = task[t].score /\ task'[t].id = nextId /\ cur' = nextId
    BY <1>2 DEF Insert, TypeOK, TaskStates, ext_id
  <2>2. ~task[t].score => nextId \in deferred'
    BY <1>2 DEF Insert
  <2> QED BY <2>1, <2>2 DEF Excused
<1>3. ASSUME NEW t \in Tasks, apply_existing_threat_posture(t) PROVE Bare' => Excused'
  <2>1. cur' = cur /\ UNCHANGED <<analysed, hist>> /\ (threat => threat') /\ \A u \in Tasks \ {t} : task'[u] = task[u]
    BY <1>3 DEF apply_existing_threat_posture, TypeOK
  <2>2. task[t].score => task'[t].score /\ task'[t].id = task[t].id
    BY <1>3 DEF apply_existing_threat_posture, TypeOK, TaskStates
  <2> QED BY <2>1, <2>2, StillAnswered DEF hist, Bare
<1>4. ASSUME NEW t \in Tasks, Unexpected(t), UNCHANGED <<row, hist>> PROVE Bare' => Excused'
  <2>1. \A u \in Tasks \ {t} : task'[u] = task[u]
    BY <1>4 DEF Unexpected, TypeOK
  <2>2. task[t].score => task'[t].score /\ task'[t].id = task[t].id
    BY <1>4 DEF Unexpected, TypeOK, TaskStates
  <2> QED BY <1>4, <2>1, <2>2, StillAnswered DEF row, hist, Bare
<1>5. ASSUME NEW t \in Tasks, Finish(t), UNCHANGED <<row, hist>>, Bare => task[t].id # cur
      PROVE  Bare' => Excused'
  <2>1. \A u \in Tasks \ {t} : task'[u] = task[u]
    BY <1>5 DEF TypeOK
  <2> QED BY <1>5, <2>1, StillAnswered DEF row, hist, Bare
<1>6. ASSUME NEW t \in Tasks, PostureFails(t) \/ FetchRaises(t) PROVE Bare' => Excused'
  BY <1>4, <1>6 DEF PostureFails, FetchRaises
<1>7. ASSUME NEW t \in Tasks, Reload(t) PROVE Bare' => Excused'
  <2>1. Mine(t) => ~Bare
    BY <1>0, <1>7 DEF Reload, Knows, Bare
  <2>2. UNCHANGED <<row, hist>> /\ (Unexpected(t) \/ (Finish(t) /\ Mine(t)))
    BY <1>7 DEF Reload
  <2> QED BY <1>4, <1>5, <2>1, <2>2
<1>8. ASSUME NEW t \in Tasks, FetchFails(t) PROVE Bare' => Excused'
  <2>1. Mine(t) /\ task[t].preserve => ~Bare
    BY <1>0, <1>8 DEF Knows, Bare
  <2>2. UNCHANGED <<row, hist>> /\ (Goto(t, "cleanup") \/ (Finish(t) /\ Mine(t) /\ task[t].preserve))
    BY <1>8 DEF FetchFails
  <2>3. CASE Goto(t, "cleanup")
    <3>1. \A u \in Tasks \ {t} : task'[u] = task[u]
      BY <2>3 DEF TypeOK
    <3>2. task'[t].score = task[t].score /\ task'[t].id = task[t].id
      BY <2>3 DEF TypeOK, TaskStates
    <3> QED BY <2>2, <3>1, <3>2, StillAnswered DEF row, hist, Bare
  <2> QED BY <1>5, <2>1, <2>2, <2>3
<1>9. ASSUME NEW t \in Tasks, FetchStores(t) PROVE Bare' => Excused'
  BY <1>9 DEF FetchStores, Bare
<1>10. ASSUME NEW t \in Tasks, _discard_placeholder(t) PROVE Bare' => Excused'
  BY <1>10 DEF _discard_placeholder, Bare
<1>11. ASSUME NEW t \in Tasks, ReadBackFails(t) \/ DiscardFails(t) PROVE Bare' => Excused'
  <2>1. UNCHANGED <<row, deferred>> /\ task[t].id \in abandoned' \cup unread'
        /\ abandoned \subseteq abandoned' /\ unread \subseteq unread'
    BY <1>11 DEF ReadBackFails, DiscardFails
  <2>2. \A u \in Tasks \ {t} : task'[u] = task[u]
    BY <1>11 DEF ReadBackFails, DiscardFails, TypeOK
  <2> QED BY <2>1, <2>2, StillAnswered DEF row, Bare
<1>12. ASSUME NEW t \in Tasks, delete_extension(t) PROVE Bare' => Excused'
  <2>1. CASE cur' = NoRow
    BY <2>1 DEF Bare
  <2>2. CASE UNCHANGED row /\ ~Mine(t)
    BY <1>5, <1>12, <2>2 DEF delete_extension
  <2> QED BY <1>12, <2>1, <2>2 DEF delete_extension
<1>13. ASSUME NEW t \in Tasks, IngestCommit(t) PROVE Bare' => Excused'
  <2>1. cur' = cur /\ UNCHANGED <<analysed, hist>> /\ threat' = (threat \/ (Mine(t) /\ cur # NoRow))
        /\ \A u \in Tasks \ {t} : task'[u] = task[u]
    BY <1>13 DEF IngestCommit, TypeOK
  <2> QED BY <2>1, StillAnswered DEF hist, Bare
<1>14. CASE Refresh
  BY <1>14 DEF Refresh, Bare
<1>15. CASE Crash
  <2>1. UNCHANGED <<row, deferred, unread>> /\ abandoned' = abandoned \cup (Working \ {NoRow})
    BY <1>15 DEF Crash
  <2> QED BY <2>1 DEF row, Bare, Excused, Working
<1>16. CASE UNCHANGED vars
  BY <1>16 DEF vars, row, hist, Bare, Excused
<1>17. ASSUME NEW t \in Tasks, UNCHANGED <<row, hist>>,
              task'[t].score = task[t].score /\ task'[t].id = task[t].id,
              \A u \in Tasks \ {t} : task'[u] = task[u]
       PROVE  Bare' => Excused'
  BY <1>17, StillAnswered DEF row, hist, Bare
<1>18. ASSUME NEW t \in Tasks, ReadBack(t) \/ LockMatch(t) PROVE Bare' => Excused'
  BY <1>17, <1>18 DEF ReadBack, LockMatch, TypeOK, TaskStates
<1>19. ASSUME NEW t \in Tasks, LockOrphan(t) PROVE Bare' => Excused'
  <2>1. CASE Goto(t, "discard")
    BY <1>17, <1>19, <2>1 DEF LockOrphan, TypeOK, TaskStates
  <2>2. CASE Finish(t) /\ (~Mine(t) \/ threat)
    BY <1>5, <1>19, <2>2 DEF LockOrphan, Bare
  <2> QED BY <1>19, <2>1, <2>2 DEF LockOrphan
<1>20. ASSUME NEW t \in Tasks, RollBack(t) PROVE Bare' => Excused'
  <2>1. ~task[t].score
    BY <1>0, <1>20 DEF RollBack, Knows
  <2>2. UNCHANGED <<row, hist>> /\ \A u \in Tasks \ {t} : task'[u] = task[u]
    BY <1>20 DEF RollBack, TypeOK
  <2> QED BY <2>1, <2>2, StillAnswered DEF row, hist, Bare
<1> QED
  BY <1>1, <1>2, <1>3, <1>6, <1>7, <1>8, <1>9, <1>10, <1>11, <1>12, <1>13, <1>14, <1>15, <1>16,
     <1>18, <1>19, <1>20
  DEF Next, Request

-----------------------------------------------------------------------------
(* The lock and the match.                                                 *)

(* A step of t that takes a free lock, or gives up none but its own, and   *)
(* writes to the row only if nobody else holds it, leaves to everyone else *)
(* what their locks keep true.                                             *)
RowLeft(t) ==
    \/ cur' = cur /\ threat' = threat
    \/ lock \subseteq {t} /\ cur' \in {cur, NoRow}
    \/ cur = NoRow /\ cur' = nextId

LockLeft(t) == lock' \in {lock, lock \ {t}} \/ (lock = {} /\ lock' = {t})

HeldBy(t, s, holders, id, flagged) ==
    /\ s.pc = "discard" => holders = {t} /\ id = s.id /\ id # NoRow /\ ~flagged
    /\ s.pc = "ingest" /\ id = s.id /\ id # NoRow => holders = {t}

LEMMA HeldIs == Held <=> \A t \in Tasks : HeldBy(t, task[t], lock, cur, threat)
BY DEF Held, HeldBy

LEMMA OthersHeld ==
    ASSUME TypeOK, Held, NEW t \in Tasks, RowLeft(t), LockLeft(t), NEW u \in Tasks, u # t
    PROVE  HeldBy(u, task[u], lock', cur', threat')
<1>1. HeldBy(u, task[u], lock, cur, threat)
  BY HeldIs
<1>2. task[u].id # nextId
  BY Numbers
<1>3. lock = {u} => lock' = {u} /\ ~(lock \subseteq {t})
  BY DEF LockLeft
<1> QED BY <1>1, <1>2, <1>3 DEF HeldBy, RowLeft

LEMMA OneHeld ==
    ASSUME TypeOK, Held, NEW t \in Tasks, RowLeft(t), LockLeft(t),
           \A u \in Tasks \ {t} : task'[u] = task[u],
           HeldBy(t, task'[t], lock', cur', threat')
    PROVE  Held'
<1>1. \A u \in Tasks : HeldBy(u, task'[u], lock', cur', threat')
  BY OthersHeld
<1> QED BY <1>1 DEF Held, HeldBy

LEMMA HeldStep == TypeOK /\ Held /\ [Next]_vars => Held'
<1> SUFFICES ASSUME TypeOK, Held, [Next]_vars PROVE Held'
  OBVIOUS
<1>0. \A t \in Tasks : HeldBy(t, task[t], lock, cur, threat)
  BY HeldIs
(* Most steps end with nothing that the lock would have to protect.        *)
<1>1. ASSUME NEW t \in Tasks, NEW s, task' = [task EXCEPT ![t] = s], s.pc \notin {"discard", "ingest"},
             RowLeft(t), LockLeft(t)
      PROVE  Held'
  <2>1. \A u \in Tasks : task'[u] = IF u = t THEN s ELSE task[u]
    BY <1>1 DEF TypeOK
  <2> QED BY <1>1, <2>1, OneHeld DEF HeldBy
<1>2. ASSUME NEW t \in Tasks, NEW p \in {"posture", "cleanup", "reload"}, Finish(t) \/ Goto(t, p),
             RowLeft(t), LockLeft(t)
      PROVE  Held'
  <2>1. CASE Finish(t)
    BY <1>1, <1>2, <2>1, IdleType
  <2>2. CASE Goto(t, p)
    <3> DEFINE s == [task[t] EXCEPT !.pc = p]
    <3>1. s.pc = p /\ task' = [task EXCEPT ![t] = s]
      BY <2>2 DEF TypeOK, TaskStates
    <3> HIDE DEF s
    <3> QED BY <1>1, <1>2, <3>1
  <2> QED BY <1>2, <2>1, <2>2
<1>3. ASSUME NEW t \in Tasks, NEW score \in BOOLEAN, Enroll(t, score) PROVE Held'
  <2> DEFINE s == [Idle EXCEPT !.pc = "insert", !.score = score]
  <2>1. s.pc = "insert"
    BY DEF Idle
  <2>2. task' = [task EXCEPT ![t] = s] /\ RowLeft(t) /\ LockLeft(t)
    BY <1>3 DEF Enroll, row, RowLeft, LockLeft
  <2> HIDE DEF s
  <2> QED BY <1>1, <2>1, <2>2
<1>4. ASSUME NEW t \in Tasks, Insert(t) PROVE Held'
  <2> DEFINE s == [task[t] EXCEPT !.pc = "reread", !.id = nextId]
  <2>1. s.pc = "reread"
    BY DEF TypeOK, TaskStates
  <2>2. task' = [task EXCEPT ![t] = s] /\ RowLeft(t) /\ LockLeft(t)
    BY <1>4 DEF Insert, ext_id, RowLeft, LockLeft, TypeOK
  <2> HIDE DEF s
  <2> QED BY <1>1, <2>1, <2>2
<1>5. ASSUME NEW t \in Tasks, apply_existing_threat_posture(t) PROVE Held'
  <2> DEFINE s == IF task[t].score THEN [task[t] EXCEPT !.pc = "fetch", !.preserve = preserve_extension] ELSE Idle
  <2>1. s.pc \in {"fetch", "idle"}
    BY IdleType DEF TypeOK, TaskStates
  <2>2. task' = [task EXCEPT ![t] = s]
    BY <1>5 DEF apply_existing_threat_posture, TypeOK
  <2> HIDE DEF s
  <2>3. RowLeft(t) /\ LockLeft(t)
    BY <1>5 DEF apply_existing_threat_posture, Unlocked, RowLeft, LockLeft, TypeOK
  <2> QED BY <1>1, <2>1, <2>2, <2>3
<1>6. ASSUME NEW t \in Tasks,
             \/ InsertFails(t) \/ ReadBack(t) \/ ReadBackFails(t) \/ PostureFails(t) \/ FetchFails(t)
             \/ FetchRaises(t) \/ Reload(t) \/ DiscardFails(t) \/ RollBack(t)
      PROVE  Held'
  <2>1. Finish(t) \/ Goto(t, "posture") \/ Goto(t, "cleanup")
    BY <1>6 DEF InsertFails, ReadBack, ReadBackFails, PostureFails, FetchFails, FetchRaises, Reload,
                DiscardFails, RollBack, Unexpected
  <2>2. RowLeft(t) /\ LockLeft(t)
    BY <1>6 DEF InsertFails, ReadBack, ReadBackFails, PostureFails, FetchFails, FetchRaises, Reload,
                DiscardFails, RollBack, Release, row, RowLeft, LockLeft
  <2> QED BY <1>2, <2>1, <2>2
<1>7. ASSUME NEW t \in Tasks, FetchStores(t) PROVE Held'
  <2>1. RowLeft(t) /\ LockLeft(t)
    BY <1>7 DEF FetchStores, Unlocked, RowLeft, LockLeft
  <2> QED BY <1>2, <1>7, <2>1 DEF FetchStores
<1>8. ASSUME NEW t \in Tasks, LockOrphan(t) PROVE Held'
  <2>1. UNCHANGED row /\ RowLeft(t)
    BY <1>8 DEF LockOrphan, row, RowLeft
  <2>2. CASE Finish(t) /\ UNCHANGED lock
    BY <1>2, <2>1, <2>2 DEF LockLeft
  <2>3. CASE Mine(t) /\ ~threat /\ ForUpdate(t) /\ Goto(t, "discard")
    <3>1. LockLeft(t) /\ lock' = {t}
      BY <2>3 DEF ForUpdate, Unlocked, LockLeft
    <3>2. \A u \in Tasks \ {t} : task'[u] = task[u]
      BY <2>3 DEF TypeOK
    <3>3. task'[t].pc = "discard" /\ task'[t].id = task[t].id /\ task[t].id # NoRow
      BY <1>8, <2>3 DEF LockOrphan, TypeOK, TaskStates
    <3>4. HeldBy(t, task'[t], lock', cur', threat')
      BY <2>1, <2>3, <3>1, <3>3 DEF HeldBy, row
    <3> QED BY <2>1, <3>1, <3>2, <3>4, OneHeld
  <2> QED BY <1>8, <2>2, <2>3 DEF LockOrphan
<1>9. ASSUME NEW t \in Tasks, LockMatch(t) PROVE Held'
  <2>1. UNCHANGED row /\ RowLeft(t)
    BY <1>9 DEF LockMatch, row, RowLeft
  <2>2. LockLeft(t) /\ (Mine(t) /\ cur # NoRow => lock' = {t})
    BY <1>9 DEF LockMatch, ForUpdate, Unlocked, LockLeft
  <2>3. \A u \in Tasks \ {t} : task'[u] = task[u]
    BY <1>9 DEF LockMatch, TypeOK
  <2>4. task'[t].pc = "ingest" /\ task'[t].id = task[t].id
    BY <1>9 DEF LockMatch, TypeOK, TaskStates
  <2>5. HeldBy(t, task'[t], lock', cur', threat')
    BY <2>1, <2>2, <2>4 DEF HeldBy, row
  <2> QED BY <2>1, <2>2, <2>3, <2>5, OneHeld
<1>10. ASSUME NEW t \in Tasks, _discard_placeholder(t) PROVE Held'
  <2>1. lock = {t}
    BY <1>0, <1>10 DEF _discard_placeholder, HeldBy
  <2>2. RowLeft(t) /\ LockLeft(t)
    BY <1>10, <2>1 DEF _discard_placeholder, Release, RowLeft, LockLeft
  <2> QED BY <1>2, <1>10, <2>2 DEF _discard_placeholder
<1>11. ASSUME NEW t \in Tasks, delete_extension(t) PROVE Held'
  <2>1. RowLeft(t) /\ LockLeft(t)
    BY <1>11 DEF delete_extension, Unlocked, row, RowLeft, LockLeft
  <2> QED BY <1>2, <1>11, <2>1 DEF delete_extension
<1>12. ASSUME NEW t \in Tasks, NEW p \in {"delete", "apply"},
              task' = [task EXCEPT ![t] = [Idle EXCEPT !.pc = p, !.id = cur]],
              UNCHANGED <<row, lock>>
       PROVE  Held'
  <2> DEFINE s == [Idle EXCEPT !.pc = p, !.id = cur]
  <2>1. s.pc = p
    BY DEF Idle
  <2>2. RowLeft(t) /\ LockLeft(t) /\ task' = [task EXCEPT ![t] = s]
    BY <1>12 DEF row, RowLeft, LockLeft
  <2> HIDE DEF s
  <2> QED BY <1>1, <2>1, <2>2
<1>13. ASSUME NEW t \in Tasks, BeginDelete(t) \/ BeginIngest(t) PROVE Held'
  BY <1>12, <1>13 DEF BeginDelete, BeginIngest
<1>14. ASSUME NEW t \in Tasks, IngestCommit(t) PROVE Held'
  <2>1. Mine(t) /\ cur # NoRow => lock = {t}
    BY <1>0, <1>14 DEF IngestCommit, HeldBy
  <2>2. RowLeft(t) /\ LockLeft(t)
    BY <1>14, <2>1 DEF IngestCommit, Release, RowLeft, LockLeft, TypeOK
  <2> QED BY <1>2, <1>14, <2>2 DEF IngestCommit
<1>15. CASE Refresh
  <2>1. lock = {} /\ UNCHANGED <<cur, lock, task>>
    BY <1>15 DEF Refresh, Unlocked
  <2>2. \A t \in Tasks : lock # {t}
    BY <2>1
  <2> QED BY <1>0, <2>1, <2>2 DEF Held, HeldBy
<1>16. CASE Crash
  BY <1>16, IdleType DEF Crash, Held
<1>17. CASE UNCHANGED vars
  BY <1>17 DEF vars, row, Held
<1> QED
  BY <1>3, <1>4, <1>5, <1>6, <1>7, <1>8, <1>9, <1>10, <1>11, <1>13, <1>14, <1>15, <1>16, <1>17
  DEF Next, Request

LEMMA MatchListedStep == TypeOK /\ MatchListed /\ [Next]_vars => MatchListed'
<1> SUFFICES ASSUME TypeOK, MatchListed, [Next]_vars PROVE MatchListed'
  OBVIOUS
<1>1. ASSUME NEW t \in Tasks,
             \/ Insert(t) \/ apply_existing_threat_posture(t) \/ FetchStores(t)
             \/ _discard_placeholder(t) \/ delete_extension(t) \/ IngestCommit(t)
      PROVE  MatchListed'
  BY <1>1 DEF Insert, apply_existing_threat_posture, FetchStores, _discard_placeholder, delete_extension,
              IngestCommit, row, MatchListed
<1>2. CASE UNCHANGED <<threat, listed>>
  BY <1>2 DEF MatchListed
<1>3. CASE Refresh
  BY <1>3 DEF Refresh, MatchListed
<1> QED
  BY <1>1, <1>2, <1>3
  DEF Next, Request, Enroll, InsertFails, ReadBack, ReadBackFails, PostureFails, FetchFails, FetchRaises,
      Reload, LockOrphan, DiscardFails, BeginDelete, BeginIngest, LockMatch, RollBack, Crash, vars, row

(* No step but a user's deletion takes the row or its match.               *)
LEMMA MatchStep ==
    IInv /\ [Next]_vars
        => (cur # NoRow /\ threat => (cur' = cur /\ threat') \/ cur \in Audited("delete")')
<1> SUFFICES ASSUME IInv, [Next]_vars, cur # NoRow, threat
             PROVE  (cur' = cur /\ threat') \/ cur \in Audited("delete")'
  OBVIOUS
<1>0. TypeOK /\ Held /\ listed
  BY DEF IInv, MatchListed
<1>1. ASSUME NEW t \in Tasks, delete_extension(t)
      PROVE  (cur' = cur /\ threat') \/ cur \in Audited("delete")'
  <2>1. task[t].id # NoRow
    BY <1>0, <1>1 DEF delete_extension, TypeOK
  <2>2. task[t].id \in Ids
    BY <1>0, <2>1 DEF TypeOK, TaskStates
  <2>3. Audited("delete")' = Audited("delete") \cup {task[t].id}
    BY <1>0, <1>1, <2>2, RecordAdds DEF delete_extension, Actions
  <2> QED BY <1>1, <2>3 DEF delete_extension, row
<1>2. ASSUME NEW t \in Tasks PROVE ~_discard_placeholder(t)
  BY <1>0 DEF Held, _discard_placeholder
<1>3. ASSUME NEW t \in Tasks PROVE ~Insert(t)
  BY DEF Insert
<1>4. ASSUME NEW t \in Tasks, apply_existing_threat_posture(t) \/ FetchStores(t) \/ IngestCommit(t)
      PROVE  cur' = cur /\ threat'
  BY <1>0, <1>4 DEF apply_existing_threat_posture, FetchStores, IngestCommit
<1>5. CASE Refresh
  BY <1>0, <1>5 DEF Refresh
<1>6. CASE UNCHANGED row
  BY <1>6 DEF row
<1> QED
  BY <1>1, <1>2, <1>3, <1>4, <1>5, <1>6
  DEF Next, Request, Enroll, InsertFails, ReadBack, ReadBackFails, PostureFails, FetchFails, FetchRaises,
      Reload, LockOrphan, DiscardFails, BeginDelete, BeginIngest, LockMatch, RollBack, Crash, vars

-----------------------------------------------------------------------------
(* The theorems.                                                           *)

LEMMA InitInv == Init => IInv
<1> SUFFICES ASSUME Init PROVE IInv
  OBVIOUS
<1>1. TypeOK
  BY InitType
<1>2. Unborn /\ AuditTruthful
  BY DEF Init, Unborn, AuditTruthful, Audited, Actions
<1>3. Held /\ MatchListed
  BY IdleType DEF Init, Held, MatchListed
<1>4. RequestsKnow
  BY DEF Init, RequestsKnow, Knows, Idle
<1>5. NoLeftovers
  BY DEF Init, NoLeftovers, Bare
<1> QED BY <1>1, <1>2, <1>3, <1>4, <1>5 DEF IInv

LEMMA Invariant == Spec => []IInv
<1>1. IInv /\ [Next]_vars => IInv'
  BY TypeStep, UnbornStep, AuditStep, KnowsStep, LeftoversStep, HeldStep, MatchListedStep
  DEF IInv
<1> QED BY <1>1, InitInv, PTL DEF Spec

(* Rows, requests and trail keep their types, and ids are never reused.    *)
THEOREM TypeCorrect == Spec => []TypeOK
<1>1. IInv => TypeOK
  BY DEF IInv
<1> QED BY <1>1, Invariant, PTL

(* The AuditLog tells which rows exist, whatever inserts conflict,         *)
(* cleanups lose to deletions and processes die.                           *)
THEOREM TrailTruthful == Spec => []AuditTruthful
<1>1. IInv => AuditTruthful
  BY DEF IInv
<1> QED BY <1>1, Invariant, PTL

(* A row with a threat match keeps it until a user deletes it: the lock    *)
(* that the cleanup holds from its look at the row to its commit keeps an  *)
(* ingestion out, and no refresh takes the match back.                     *)
THEOREM MatchSurvives == Spec => MatchKept
<1>1. IInv /\ [Next]_vars
          => [cur # NoRow /\ threat => (cur' = cur /\ threat') \/ cur \in Audited("delete")']_vars
  BY MatchStep
<1> QED BY <1>1, Invariant, PTL DEF Spec, MatchKept

(* A failed add that has read its row back leaves nothing behind, but for  *)
(* a crash or a cleanup that failed itself.                                *)
THEOREM CleansUp == Spec => []NoLeftovers
<1>1. IInv => NoLeftovers
  BY DEF IInv
<1> QED BY <1>1, Invariant, PTL

-----------------------------------------------------------------------------
(* The inventory of the row that Enrollment enrols.                        *)
(*                                                                         *)
(* A count that nobody has overlapped is the number of assets its          *)
(* transaction would leave: it stays so because whoever changes the rows   *)
(* or the time makes everyone else's count unclean.  BatchOK and JobOK say *)
(* so of a state s, where up tells that the extension is there, o are the  *)
(* observations and n is the time.                                         *)

(* What a request with state s would see of the rows o, and the fresh      *)
(* assets of a map at the time n.                                          *)
ViewOf(o, s) == [a \in DOMAIN o \cup s.staged |-> IF a \in s.staged THEN s.at ELSE o[a]]
WithoutOf(o, gone) == [a \in DOMAIN o \ gone |-> o[a]]
FreshOf(map, n) == {a \in DOMAIN map : Freshness = 0 \/ map[a] >= n - Freshness}

IsBatch(s) ==
    s \in [pc : {s.pc}, at : {s.at}, todo : {s.todo}, touched : {s.touched},
           staged : {s.staged}, count : {s.count}, clean : BOOLEAN]

IsJob(s) == s \in [pc : {s.pc}, gone : {s.gone}, count : {s.count}, clean : BOOLEAN]

BatchOK(s, up, o, n) ==
    /\ IsBatch(s)
    /\ up /\ s.pc = "counted" /\ s.clean => s.count = Cardinality(FreshOf(ViewOf(o, s), n))

JobOK(s, up, o, n) ==
    /\ IsJob(s)
    /\ up /\ s.pc = "counted" /\ s.clean => s.count = Cardinality(FreshOf(WithoutOf(o, s.gone), n))

BatchesOK == /\ batch = [b \in Batches |-> batch[b]]
             /\ \A b \in Batches : BatchOK(batch[b], alive, obs, now)

JobsOK == /\ job = [j \in Jobs |-> job[j]]
          /\ \A j \in Jobs : JobOK(job[j], alive, obs, now)

InventoryInv == alive \in BOOLEAN /\ exact \in BOOLEAN /\ obs = [a \in DOMAIN obs |-> obs[a]]
        /\ BatchesOK /\ JobsOK /\ SerialExact

LEMMA ReadSame ==
    /\ \A b \in Batches : View(b) = ViewOf(obs, batch[b])
    /\ \A gone : Without(gone) = WithoutOf(obs, gone)
    /\ \A map : Fresh(map) = FreshOf(map, now)
BY DEF View, ViewOf, Without, WithoutOf, Fresh, FreshOf, Restrict

(* After a commit of another nobody's count is taken for current.          *)
LEMMA Overlapped ==
    ASSUME InventoryInv, NEW up, NEW o, NEW n, NEW own
    PROVE  /\ \A b \in Batches \ own : BatchOK(Overlap(batch, own)[b], up, o, n)
           /\ \A j \in Jobs \ own : JobOK(Overlap(job, own)[j], up, o, n)
           /\ Overlap(batch, own) = [b \in Batches |-> Overlap(batch, own)[b]]
           /\ Overlap(job, own) = [j \in Jobs |-> Overlap(job, own)[j]]
<1>1. DOMAIN batch = Batches /\ DOMAIN job = Jobs
  BY DEF InventoryInv, BatchesOK, JobsOK
<1>2. ASSUME NEW s, IsBatch(s) PROVE BatchOK([s EXCEPT !.clean = FALSE], up, o, n)
  <2>1. ~[s EXCEPT !.clean = FALSE].clean
    BY <1>2 DEF IsBatch
  <2>2. IsBatch([s EXCEPT !.clean = FALSE])
    BY <1>2 DEF IsBatch
  <2> QED BY <2>1, <2>2 DEF BatchOK
<1>3. ASSUME NEW s, IsJob(s) PROVE JobOK([s EXCEPT !.clean = FALSE], up, o, n)
  <2>1. ~[s EXCEPT !.clean = FALSE].clean
    BY <1>3 DEF IsJob
  <2>2. IsJob([s EXCEPT !.clean = FALSE])
    BY <1>3 DEF IsJob
  <2> QED BY <2>1, <2>2 DEF JobOK
<1>4. /\ \A b \in Batches \ own : Overlap(batch, own)[b] = [batch[b] EXCEPT !.clean = FALSE]
      /\ \A j \in Jobs \ own : Overlap(job, own)[j] = [job[j] EXCEPT !.clean = FALSE]
      /\ Overlap(batch, own) = [b \in Batches |-> Overlap(batch, own)[b]]
      /\ Overlap(job, own) = [j \in Jobs |-> Overlap(job, own)[j]]
  BY <1>1 DEF Overlap
<1>5. /\ \A b \in Batches : IsBatch(batch[b])
      /\ \A j \in Jobs : IsJob(job[j])
  BY DEF InventoryInv, BatchesOK, JobsOK, BatchOK, JobOK
<1>6. \A b \in Batches \ own : BatchOK(Overlap(batch, own)[b], up, o, n)
  BY <1>2, <1>4, <1>5
<1>7. \A j \in Jobs \ own : JobOK(Overlap(job, own)[j], up, o, n)
  BY <1>3, <1>4, <1>5
<1> QED BY <1>4, <1>6, <1>7

(* There is nothing to count at first.                                     *)
LEMMA InventoryStart == InventoryInit => InventoryInv
<1> SUFFICES ASSUME InventoryInit PROVE InventoryInv
  OBVIOUS
<1>1. alive \in BOOLEAN /\ exact \in BOOLEAN /\ obs = [a \in DOMAIN obs |-> obs[a]] /\ SerialExact
  BY DEF InventoryInit, SerialExact, Right
<1>2. IsBatch(NoBatch) /\ NoBatch.pc = "idle" /\ IsJob(NoJob) /\ NoJob.pc = "idle"
  BY DEF IsBatch, IsJob, NoBatch, NoJob
<1>3. BatchesOK
  BY <1>2 DEF InventoryInit, BatchesOK, BatchOK
<1>4. JobsOK
  BY <1>2 DEF InventoryInit, JobsOK, JobOK
<1> QED BY <1>1, <1>3, <1>4 DEF InventoryInv

(* The steps of a request.                                                 *)
LEMMA BatchStep ==
    ASSUME InventoryInv, NEW b \in Batches, Begin(b) \/ Ingest(b)
    PROVE  InventoryInv'
<1>1. /\ alive \in BOOLEAN /\ exact \in BOOLEAN /\ obs = [a \in DOMAIN obs |-> obs[a]]
      /\ BatchesOK /\ JobsOK /\ SerialExact
  BY DEF InventoryInv
<1>2. DOMAIN batch = Batches /\ IsBatch(batch[b]) /\ alive' = alive
  BY <1>1 DEF BatchesOK, BatchOK, Begin, Ingest, Reject, _upsert_observation,
              EnrollOther, Count, Commit, Fail
<1>3. IsBatch(NoBatch) /\ NoBatch.pc = "idle"
  BY DEF IsBatch, NoBatch
(* A step of the request alone, which commits nothing.                     *)
<1>4. ASSUME NEW s, batch' = [batch EXCEPT ![b] = s], BatchOK(s, alive, obs, now),
             UNCHANGED <<now, alive, obs, footprint, job, exact>>
      PROVE  InventoryInv'
  <2>1. BatchesOK'
    BY <1>1, <1>2, <1>4 DEF BatchesOK
  <2>2. JobsOK'
    BY <1>1, <1>4 DEF JobsOK
  <2>3. SerialExact'
    BY <1>1, <1>4 DEF SerialExact, Right, Fresh
  <2> QED BY <1>1, <1>4, <2>1, <2>2, <2>3 DEF InventoryInv
(* A commit.                                                               *)
<1>5. ASSUME NEW s, batch' = [Overlap(batch, {b}) EXCEPT ![b] = s], IsBatch(s), s.pc # "counted",
             job' = Overlap(job, {}), obs' = ViewOf(obs, batch[b]), UNCHANGED <<now, alive>>,
             exact' \in BOOLEAN, SerialExact'
      PROVE  InventoryInv'
  <2>1. BatchesOK'
    <3>1. BatchOK(s, alive', obs', now')
      BY <1>5 DEF BatchOK
    <3>2. Overlap(batch, {b}) = [c \in Batches |-> Overlap(batch, {b})[c]]
          /\ \A c \in Batches \ {b} : BatchOK(Overlap(batch, {b})[c], alive', obs', now')
      BY Overlapped
    <3> QED BY <1>5, <3>1, <3>2 DEF BatchesOK
  <2>2. JobsOK'
    BY <1>5, Overlapped DEF JobsOK
  <2>3. obs' = [a \in DOMAIN obs' |-> obs'[a]]
    BY <1>5 DEF ViewOf
  <2> QED BY <1>1, <1>5, <2>1, <2>2, <2>3 DEF InventoryInv
<1>6. ASSUME Begin(b) PROVE InventoryInv'
  <2>1. PICK items : batch' = [batch EXCEPT ![b] = [NoBatch EXCEPT !.pc = "items", !.at = now, !.todo = items]]
    BY <1>6 DEF Begin
  <2> DEFINE s == [NoBatch EXCEPT !.pc = "items", !.at = now, !.todo = items]
  <2>2. IsBatch(s) /\ s.pc = "items"
    BY DEF IsBatch, NoBatch
  <2> HIDE DEF s
  <2>3. BatchOK(s, alive, obs, now)
    BY <2>2 DEF BatchOK
  <2>4. batch' = [batch EXCEPT ![b] = s] /\ UNCHANGED <<now, alive, obs, footprint, job, exact>>
    BY <1>6, <2>1 DEF Begin, s
  <2> QED BY <1>4, <2>3, <2>4
<1>7. ASSUME NEW a, Reject(b, a) PROVE InventoryInv'
  <2> DEFINE s == [batch[b] EXCEPT !.todo = @ \ {a}]
  <2>1. IsBatch(s) /\ s.pc = "items"
    BY <1>2, <1>7 DEF IsBatch, Reject
  <2>2. batch' = [batch EXCEPT ![b] = s] /\ UNCHANGED <<now, alive, obs, footprint, job, exact>>
    BY <1>2, <1>7 DEF Reject
  <2> HIDE DEF s
  <2>3. BatchOK(s, alive, obs, now)
    BY <2>1 DEF BatchOK
  <2> QED BY <1>4, <2>2, <2>3
<1>8. ASSUME NEW a, _upsert_observation(b, a) PROVE InventoryInv'
  <2> DEFINE s == [batch[b] EXCEPT !.todo = @ \ {a}, !.staged = @ \cup {a}, !.touched = TRUE]
  <2>1. IsBatch(s) /\ s.pc = "items"
    BY <1>2, <1>8 DEF IsBatch, _upsert_observation
  <2>2. batch' = [batch EXCEPT ![b] = s] /\ UNCHANGED <<now, alive, obs, footprint, job, exact>>
    BY <1>2, <1>8 DEF _upsert_observation
  <2> HIDE DEF s
  <2>3. BatchOK(s, alive, obs, now)
    BY <2>1 DEF BatchOK
  <2> QED BY <1>4, <2>2, <2>3
<1>9. ASSUME EnrollOther(b) PROVE InventoryInv'
  <2> DEFINE s == [batch[b] EXCEPT !.staged = {}]
  <2>1. IsBatch(s) /\ s.pc = "items"
    BY <1>2, <1>9 DEF IsBatch, EnrollOther
  <2>2. Overlap(batch, {b})[b] = batch[b]
    BY <1>2 DEF Overlap
  <2>3. batch' = [Overlap(batch, {b}) EXCEPT ![b] = s]
    BY <1>2, <1>9, <2>2 DEF EnrollOther, Overlap
  <2> HIDE DEF s
  <2>4. job' = Overlap(job, {}) /\ obs' = ViewOf(obs, batch[b]) /\ UNCHANGED <<now, alive>>
        /\ exact' = FALSE /\ SerialExact'
    BY <1>9, ReadSame DEF EnrollOther, SerialExact
  <2> QED BY <1>5, <2>1, <2>3, <2>4
<1>10. ASSUME Count(b) PROVE InventoryInv'
  <2> DEFINE s == IF batch[b].touched
                  THEN [batch[b] EXCEPT !.pc = "counted", !.count = Cardinality(Fresh(View(b))),
                                        !.clean = TRUE]
                  ELSE NoBatch
  <2>1. batch' = [batch EXCEPT ![b] = s] /\ UNCHANGED <<now, alive, obs, footprint, job, exact>>
    BY <1>2, <1>10 DEF Count
  <2>2. CASE batch[b].touched
    <3>1. IsBatch(s) /\ s.staged = batch[b].staged /\ s.at = batch[b].at
          /\ s.count = Cardinality(Fresh(View(b)))
      BY <1>2, <2>2 DEF IsBatch
    <3> HIDE DEF s
    <3>2. ViewOf(obs, s) = View(b)
      BY <3>1, ReadSame DEF ViewOf
    <3>3. Fresh(View(b)) = FreshOf(ViewOf(obs, s), now)
      BY <3>2, ReadSame
    <3>4. BatchOK(s, alive, obs, now)
      BY <3>1, <3>3 DEF BatchOK
    <3> QED BY <1>4, <2>1, <3>4
  <2>3. CASE ~batch[b].touched
    <3>1. BatchOK(s, alive, obs, now)
      BY <1>3, <2>3 DEF BatchOK
    <3> QED BY <1>4, <2>1, <3>1
  <2> QED BY <2>2, <2>3
<1>11. ASSUME Commit(b) PROVE InventoryInv'
  <2>1. BatchOK(batch[b], alive, obs, now)
    BY <1>1 DEF BatchesOK
  <2>2. /\ obs' = ViewOf(obs, batch[b]) /\ footprint' = (IF alive THEN batch[b].count ELSE footprint)
        /\ exact' = batch[b].clean /\ UNCHANGED <<now, alive>> /\ batch[b].pc = "counted"
        /\ batch' = [Overlap(batch, {b}) EXCEPT ![b] = NoBatch] /\ job' = Overlap(job, {})
    BY <1>11, ReadSame DEF Commit
  <2>3. batch[b].clean \in BOOLEAN
    BY <1>2 DEF IsBatch
  <2>4. SerialExact'
    <3> SUFFICES ASSUME exact', alive' PROVE footprint' = Cardinality(Fresh(obs)')
      BY DEF SerialExact, Right
    <3>1. footprint' = Cardinality(FreshOf(obs', now))
      BY <2>1, <2>2 DEF BatchOK
    <3>2. Fresh(obs)' = FreshOf(obs', now)
      BY <2>2 DEF Fresh, FreshOf
    <3> QED BY <3>1, <3>2
  <2> QED BY <1>3, <1>5, <2>2, <2>3, <2>4
<1>12. ASSUME Fail(b) PROVE InventoryInv'
  <2>1. BatchOK(NoBatch, alive, obs, now)
    BY <1>3 DEF BatchOK
  <2> QED BY <1>4, <1>12, <2>1 DEF Fail
<1> QED BY <1>6, <1>7, <1>8, <1>9, <1>10, <1>11, <1>12 DEF Ingest

(* The steps of the daily jobs.                                            *)
LEMMA JobStep ==
    ASSUME InventoryInv, Decay \/ Prune \/ \E j \in Jobs : JobCommit(j)
    PROVE  InventoryInv'
<1>1. /\ alive \in BOOLEAN /\ exact \in BOOLEAN /\ obs = [a \in DOMAIN obs |-> obs[a]]
      /\ BatchesOK /\ JobsOK /\ SerialExact
  BY DEF InventoryInv
<1>2. DOMAIN job = Jobs /\ {"decay", "prune"} = Jobs
  BY <1>1 DEF JobsOK, Jobs
(* A job counts what it leaves.                                            *)
<1>3. ASSUME NEW j \in Jobs, NEW s, IsJob(s), s.count = Cardinality(FreshOf(WithoutOf(obs, s.gone), now)),
             job' = [job EXCEPT ![j] = s], UNCHANGED <<now, alive, obs, footprint, batch, exact>>
      PROVE  InventoryInv'
  <2>1. JobsOK'
    <3>1. JobOK(s, alive, obs, now)
      BY <1>3 DEF JobOK
    <3> QED BY <1>1, <1>2, <1>3, <3>1 DEF JobsOK
  <2>2. BatchesOK'
    BY <1>1, <1>3 DEF BatchesOK
  <2>3. SerialExact'
    BY <1>1, <1>3 DEF SerialExact, Right, Fresh
  <2> QED BY <1>1, <1>3, <2>1, <2>2, <2>3 DEF InventoryInv
<1>4. ASSUME Decay PROVE InventoryInv'
  <2> DEFINE s == [NoJob EXCEPT !.pc = "counted", !.count = Cardinality(Fresh(obs)), !.clean = TRUE]
  <2>1. IsJob(s) /\ s.gone = {} /\ s.count = Cardinality(Fresh(obs))
    BY DEF IsJob, NoJob
  <2>2. job' = [job EXCEPT !["decay"] = s] /\ UNCHANGED <<now, alive, obs, footprint, batch, exact>>
    BY <1>4 DEF Decay
  <2> HIDE DEF s
  <2>3. WithoutOf(obs, s.gone) = obs
    BY <1>1, <2>1 DEF WithoutOf
  <2>4. Fresh(obs) = FreshOf(WithoutOf(obs, s.gone), now)
    BY <2>3, ReadSame
  <2> QED BY <1>2, <1>3, <2>1, <2>2, <2>4
<1>5. ASSUME Prune PROVE InventoryInv'
  <2> DEFINE s == [pc |-> "counted", gone |-> Expired,
                   count |-> Cardinality(Fresh(Without(Expired))), clean |-> TRUE]
  <2>1. IsJob(s) /\ s.gone = Expired /\ s.count = Cardinality(Fresh(Without(s.gone)))
    BY DEF IsJob
  <2>2. job' = [job EXCEPT !["prune"] = s] /\ UNCHANGED <<now, alive, obs, footprint, batch, exact>>
    BY <1>5 DEF Prune
  <2> HIDE DEF s
  <2>3. Fresh(Without(s.gone)) = FreshOf(WithoutOf(obs, s.gone), now)
    BY ReadSame
  <2> QED BY <1>2, <1>3, <2>1, <2>2, <2>3
<1>6. ASSUME NEW j \in Jobs, JobCommit(j) PROVE InventoryInv'
  <2>1. JobOK(job[j], alive, obs, now)
    BY <1>1 DEF JobsOK
  <2>2. /\ obs' = WithoutOf(obs, job[j].gone) /\ footprint' = (IF alive THEN job[j].count ELSE footprint)
        /\ exact' = job[j].clean /\ UNCHANGED <<now, alive>> /\ job[j].pc = "counted"
        /\ job' = [Overlap(job, {j}) EXCEPT ![j] = NoJob] /\ batch' = Overlap(batch, {})
    BY <1>6, ReadSame DEF JobCommit, Written
  <2>3. SerialExact'
    <3> SUFFICES ASSUME exact', alive' PROVE footprint' = Cardinality(Fresh(obs)')
      BY DEF SerialExact, Right
    <3>1. footprint' = Cardinality(FreshOf(obs', now))
      BY <2>1, <2>2 DEF JobOK
    <3>2. Fresh(obs)' = FreshOf(obs', now)
      BY <2>2 DEF Fresh, FreshOf
    <3> QED BY <3>1, <3>2
  <2>4. JobsOK'
    <3>1. JobOK(NoJob, alive', obs', now')
      BY DEF JobOK, IsJob, NoJob
    <3>2. Overlap(job, {j}) = [k \in Jobs |-> Overlap(job, {j})[k]]
          /\ \A k \in Jobs \ {j} : JobOK(Overlap(job, {j})[k], alive', obs', now')
      BY Overlapped
    <3> QED BY <2>2, <3>1, <3>2 DEF JobsOK
  <2>5. BatchesOK'
    BY <2>2, Overlapped DEF BatchesOK
  <2>6. exact' \in BOOLEAN /\ obs' = [a \in DOMAIN obs' |-> obs'[a]]
    BY <2>1, <2>2 DEF JobOK, IsJob, WithoutOf
  <2> QED BY <1>1, <2>2, <2>3, <2>4, <2>5, <2>6 DEF InventoryInv
<1> QED BY <1>4, <1>5, <1>6

(* Deletion, and time.                                                     *)
LEMMA RestStep ==
    ASSUME InventoryInv, Delete \/ Tick
    PROVE  InventoryInv'
<1>1. /\ alive \in BOOLEAN /\ exact \in BOOLEAN /\ obs = [a \in DOMAIN obs |-> obs[a]]
      /\ BatchesOK /\ JobsOK /\ SerialExact
  BY DEF InventoryInv
<1>2. CASE Delete
  <2>1. alive' = FALSE /\ obs' = << >> /\ UNCHANGED <<batch, job, exact>>
    BY <1>2 DEF Delete
  <2>2. BatchesOK' /\ JobsOK'
    BY <1>1, <2>1 DEF BatchesOK, BatchOK, JobsOK, JobOK
  <2>3. SerialExact'
    BY <2>1 DEF SerialExact
  <2>4. obs' = [a \in DOMAIN obs' |-> obs'[a]]
    BY <2>1
  <2> QED BY <1>1, <2>1, <2>2, <2>3, <2>4 DEF InventoryInv
<1>3. CASE Tick
  <2>1. /\ exact' = FALSE /\ UNCHANGED <<alive, obs>>
        /\ batch' = Overlap(batch, {}) /\ job' = Overlap(job, {})
    BY <1>3 DEF Tick
  <2>2. BatchesOK'
    BY <2>1, Overlapped DEF BatchesOK
  <2>3. JobsOK'
    BY <2>1, Overlapped DEF JobsOK
  <2>4. SerialExact'
    BY <2>1 DEF SerialExact
  <2> QED BY <1>1, <2>1, <2>2, <2>3, <2>4 DEF InventoryInv
<1> QED BY <1>2, <1>3

(* ingest_inventory, run_footprint_refresh, prune_expired: whoever commits *)
(* a count that nothing overlapped leaves the footprint exact.             *)
THEOREM SerialCountsExact == InventorySpec => []SerialExact
<1>1. InventoryInv /\ UNCHANGED inventoryVars => InventoryInv'
  <2> SUFFICES ASSUME InventoryInv, UNCHANGED <<now, alive, obs, footprint, batch, job, exact>> PROVE InventoryInv'
    BY DEF inventoryVars
  <2> QED BY DEF InventoryInv, BatchesOK, JobsOK, SerialExact, Right, Fresh
<1>2. InventoryInv /\ InventoryNext => InventoryInv'
  BY BatchStep, JobStep, RestStep DEF InventoryNext
<1>3. InventoryInv => SerialExact
  BY DEF InventoryInv
<1> QED BY <1>1, <1>2, <1>3, InventoryStart, PTL DEF InventorySpec

(* There are never more assets to count than endpoints.                    *)
LEMMA Counted ==
    ASSUME NEW map, DOMAIN map \subseteq Assets
    PROVE  Cardinality(Fresh(map)) \in 0..Cardinality(Assets)
<1>1. Fresh(map) \subseteq Assets
  BY DEF Fresh
<1> QED BY <1>1, AssetsAssumption, FS_Subset, FS_CardinalityType

(* Being overlapped changes nobody's type.                                 *)
LEMMA OverlapTyped ==
    ASSUME InventoryTypeOK, NEW own
    PROVE  /\ Overlap(batch, own) \in [Batches -> BatchStates]
           /\ Overlap(job, own) \in [Jobs -> JobStates]
<1>1. \A s \in BatchStates : [s EXCEPT !.clean = FALSE] \in BatchStates
  BY DEF BatchStates
<1>2. \A s \in JobStates : [s EXCEPT !.clean = FALSE] \in JobStates
  BY DEF JobStates
<1> QED BY <1>1, <1>2 DEF InventoryTypeOK, Overlap

(* What a request sees was seen by now.                                    *)
LEMMA ViewTyped ==
    ASSUME InventoryTypeOK, NEW b \in Batches
    PROVE  /\ DOMAIN View(b) \subseteq Assets
           /\ \A a \in DOMAIN View(b) : View(b)[a] \in 0..now
<1>1. batch[b].staged \subseteq Assets /\ batch[b].at \in 0..now
  BY DEF InventoryTypeOK, BatchStates
<1>2. DOMAIN obs \subseteq Assets /\ \A a \in DOMAIN obs : obs[a] \in 0..now
  BY DEF InventoryTypeOK
<1>3. DOMAIN View(b) = DOMAIN obs \cup batch[b].staged
  BY DEF View
<1>4. \A a \in DOMAIN View(b) : View(b)[a] = IF a \in batch[b].staged THEN batch[b].at ELSE obs[a]
  BY DEF View
<1> QED BY <1>1, <1>2, <1>3, <1>4

(* There are no observations and no counts at first.                       *)
LEMMA InventoryTypeStart == InventoryInit => InventoryTypeOK
<1> SUFFICES ASSUME InventoryInit PROVE InventoryTypeOK
  OBVIOUS
<1>1. Cardinality(Assets) \in Nat
  BY AssetsAssumption, FS_CardinalityType
<1>2. NoBatch \in BatchStates /\ NoJob \in JobStates
  BY <1>1 DEF InventoryInit, NoBatch, BatchStates, NoJob, JobStates
<1> QED BY <1>1, <1>2, WindowAssumption DEF InventoryInit, InventoryTypeOK

(* Every step keeps the types.                                             *)
LEMMA InventoryTypeStep == InventoryTypeOK /\ [InventoryNext]_inventoryVars => InventoryTypeOK'
<1> SUFFICES ASSUME InventoryTypeOK, [InventoryNext]_inventoryVars PROVE InventoryTypeOK'
  OBVIOUS
<1>0. now \in 0..MaxTime /\ now \in Nat
  BY WindowAssumption DEF InventoryTypeOK
<1>1. NoBatch \in BatchStates /\ NoJob \in JobStates
  BY <1>0, AssetsAssumption, FS_CardinalityType DEF NoBatch, BatchStates, NoJob, JobStates
(* A step of one request that commits nothing.                             *)
<1>2. ASSUME NEW b, NEW s \in BatchStates, batch' = [batch EXCEPT ![b] = s],
             UNCHANGED <<now, alive, obs, footprint, job, exact>>,
             begun' \in 0..MaxBatches, failures' \in 0..MaxFailures
      PROVE  InventoryTypeOK'
  <2>1. batch' \in [Batches -> BatchStates]
    BY <1>2 DEF InventoryTypeOK
  <2>2. BatchStates' = BatchStates
    BY <1>2 DEF BatchStates
  <2> QED BY <1>2, <2>1, <2>2 DEF InventoryTypeOK
(* A step of one job that commits nothing.                                 *)
<1>3. ASSUME NEW j, NEW s \in JobStates, job' = [job EXCEPT ![j] = s],
             UNCHANGED <<now, alive, obs, footprint, batch, exact, begun, failures>>
      PROVE  InventoryTypeOK'
  <2>1. job' \in [Jobs -> JobStates]
    BY <1>3 DEF InventoryTypeOK
  <2>2. BatchStates' = BatchStates
    BY <1>3 DEF BatchStates
  <2> QED BY <1>3, <2>1, <2>2 DEF InventoryTypeOK
(* A commit.                                                               *)
<1>4. ASSUME DOMAIN obs' \subseteq Assets, \A a \in DOMAIN obs' : obs'[a] \in 0..now,
             footprint' \in {NoFootprint} \cup 0..Cardinality(Assets), exact' \in BOOLEAN,
             batch' \in [Batches -> BatchStates], job' \in [Jobs -> JobStates],
             UNCHANGED <<now, alive, begun, failures>>
      PROVE  InventoryTypeOK'
  <2>1. BatchStates' = BatchStates
    BY <1>4 DEF BatchStates
  <2> QED BY <1>4, <2>1 DEF InventoryTypeOK
<1>5. ASSUME NEW b \in Batches, Begin(b) PROVE InventoryTypeOK'
  <2>1. PICK items \in SUBSET (Assets \cup {Blank}) :
            batch' = [batch EXCEPT ![b] = [NoBatch EXCEPT !.pc = "items", !.at = now, !.todo = items]]
    BY <1>5 DEF Begin
  <2> DEFINE s == [NoBatch EXCEPT !.pc = "items", !.at = now, !.todo = items]
  <2>2. s \in BatchStates
    <3>1. NoBatch \in [pc : {"idle", "items", "counted"}, at : 0..now, todo : SUBSET (Assets \cup {Blank}),
                       touched : BOOLEAN, staged : SUBSET Assets, count : 0..Cardinality(Assets),
                       clean : BOOLEAN]
      BY <1>1 DEF BatchStates
    <3>2. now \in 0..now
      BY <1>0
    <3> QED BY <3>1, <3>2 DEF BatchStates
  <2> HIDE DEF s
  <2>3. batch' = [batch EXCEPT ![b] = s]
    BY <2>1 DEF s
  <2>4. begun' \in 0..MaxBatches
    BY <1>5, WindowAssumption DEF Begin, InventoryTypeOK
  <2> QED BY <1>2, <1>5, <2>1, <2>2, <2>3, <2>4 DEF Begin, InventoryTypeOK
<1>6. ASSUME NEW b \in Batches, NEW a, Reject(b, a) PROVE InventoryTypeOK'
  <2> DEFINE s == [batch[b] EXCEPT !.todo = @ \ {a}]
  <2>1. s \in BatchStates
    BY DEF InventoryTypeOK, BatchStates
  <2>2. batch' = [batch EXCEPT ![b] = s]
    BY <1>6 DEF Reject, InventoryTypeOK
  <2>3. UNCHANGED <<now, alive, begun, obs, exact, footprint, failures, job>>
    BY <1>6 DEF Reject
  <2> HIDE DEF s
  <2> QED BY <1>2, <2>1, <2>2, <2>3 DEF InventoryTypeOK
<1>7. ASSUME NEW b \in Batches, NEW a \in Assets \cup {Blank}, _upsert_observation(b, a)
      PROVE  InventoryTypeOK'
  <2> DEFINE s == [batch[b] EXCEPT !.todo = @ \ {a}, !.staged = @ \cup {a}, !.touched = TRUE]
  <2>1. a \in Assets
    BY <1>7 DEF _upsert_observation, Valid
  <2>2. s \in BatchStates
    <3>1. batch[b] \in BatchStates
      BY DEF InventoryTypeOK
    <3> QED BY ONLY <2>1, <3>1 DEF BatchStates
  <2>3. batch' = [batch EXCEPT ![b] = s]
    BY <1>7 DEF _upsert_observation, InventoryTypeOK
  <2> QED BY <1>2, <1>7, <2>2, <2>3 DEF _upsert_observation, InventoryTypeOK
<1>8. ASSUME NEW b \in Batches, EnrollOther(b) PROVE InventoryTypeOK'
  <2> DEFINE s == [batch[b] EXCEPT !.staged = {}]
  <2>1. s \in BatchStates
    BY DEF InventoryTypeOK, BatchStates
  <2>2. batch' = [Overlap(batch, {b}) EXCEPT ![b] = s]
    BY <1>8 DEF EnrollOther, Overlap, InventoryTypeOK
  <2>3. batch' \in [Batches -> BatchStates] /\ job' \in [Jobs -> JobStates]
    BY <1>8, <2>1, <2>2, OverlapTyped DEF EnrollOther
  <2>4. /\ obs' = View(b) /\ exact' = FALSE /\ footprint' \in {NoFootprint} \cup 0..Cardinality(Assets)
        /\ UNCHANGED <<now, alive, begun, failures>>
    BY <1>8 DEF EnrollOther, InventoryTypeOK
  <2> QED BY <1>4, <2>3, <2>4, ViewTyped
<1>9. ASSUME NEW b \in Batches, Count(b) PROVE InventoryTypeOK'
  <2> DEFINE s == [batch[b] EXCEPT !.pc = "counted", !.count = Cardinality(Fresh(View(b))), !.clean = TRUE]
  <2>1. s \in BatchStates
    <3>1. Cardinality(Fresh(View(b))) \in 0..Cardinality(Assets)
      BY Counted, ViewTyped
    <3>2. batch[b] \in BatchStates
      BY DEF InventoryTypeOK
    <3> QED BY ONLY <3>1, <3>2 DEF BatchStates
  <2>2. batch' = [batch EXCEPT ![b] = s] \/ batch' = [batch EXCEPT ![b] = NoBatch]
    BY <1>9 DEF Count, InventoryTypeOK
  <2> QED BY <1>1, <1>2, <1>9, <2>1, <2>2 DEF Count, InventoryTypeOK
<1>10. ASSUME NEW b \in Batches, Commit(b) PROVE InventoryTypeOK'
  <2>1. batch[b].count \in 0..Cardinality(Assets) /\ batch[b].clean \in BOOLEAN
    BY DEF InventoryTypeOK, BatchStates
  <2>2. batch' \in [Batches -> BatchStates] /\ job' \in [Jobs -> JobStates]
    BY <1>1, <1>10, OverlapTyped DEF Commit
  <2>3. /\ obs' = View(b) /\ exact' \in BOOLEAN /\ footprint' \in {NoFootprint} \cup 0..Cardinality(Assets)
        /\ UNCHANGED <<now, alive, begun, failures>>
    BY <1>10, <2>1 DEF Commit, InventoryTypeOK
  <2> QED BY <1>4, <2>2, <2>3, ViewTyped
<1>11. ASSUME NEW b \in Batches, Fail(b) PROVE InventoryTypeOK'
  <2>1. failures' \in 0..MaxFailures
    BY <1>11, WindowAssumption DEF Fail, InventoryTypeOK
  <2> QED BY <1>1, <1>2, <1>11, <2>1 DEF Fail, InventoryTypeOK
<1>12. CASE Decay
  <2> DEFINE s == [NoJob EXCEPT !.pc = "counted", !.count = Cardinality(Fresh(obs)), !.clean = TRUE]
  <2>1. s \in JobStates
    <3>1. Cardinality(Fresh(obs)) \in 0..Cardinality(Assets)
      BY Counted DEF InventoryTypeOK
    <3> QED BY <1>1, <3>1 DEF JobStates
  <2> QED BY <1>3, <1>12, <2>1 DEF Decay
<1>13. CASE Prune
  <2> DEFINE s == [pc |-> "counted", gone |-> Expired,
                   count |-> Cardinality(Fresh(Without(Expired))), clean |-> TRUE]
  <2>1. Expired \subseteq Assets /\ DOMAIN Without(Expired) \subseteq Assets
    BY DEF Expired, Without, Restrict, InventoryTypeOK
  <2>2. s \in JobStates
    <3>1. Cardinality(Fresh(Without(Expired))) \in 0..Cardinality(Assets)
      BY <2>1, Counted
    <3> QED BY <2>1, <3>1 DEF JobStates
  <2> QED BY <1>3, <1>13, <2>2 DEF Prune
<1>14. ASSUME NEW j \in Jobs, JobCommit(j) PROVE InventoryTypeOK'
  <2>1. job[j].count \in 0..Cardinality(Assets) /\ job[j].clean \in BOOLEAN
    BY DEF InventoryTypeOK, JobStates
  <2>2. batch' \in [Batches -> BatchStates] /\ job' \in [Jobs -> JobStates]
    BY <1>1, <1>14, OverlapTyped DEF JobCommit
  <2>3. DOMAIN obs' \subseteq Assets /\ \A a \in DOMAIN obs' : obs'[a] \in 0..now
    BY <1>14 DEF JobCommit, Without, Restrict, InventoryTypeOK
  <2>4. /\ exact' \in BOOLEAN /\ footprint' \in {NoFootprint} \cup 0..Cardinality(Assets)
        /\ UNCHANGED <<now, alive, begun, failures>>
    BY <1>14, <2>1 DEF JobCommit, Written, InventoryTypeOK
  <2> QED BY <1>4, <2>2, <2>3, <2>4
<1>15. CASE Delete
  <2>1. BatchStates' = BatchStates
    BY <1>15 DEF Delete, BatchStates
  <2>2. DOMAIN obs' = {}
    BY <1>15 DEF Delete
  <2> QED BY <1>15, <2>1, <2>2 DEF Delete, InventoryTypeOK
<1>16. CASE Tick
  <2>1. now' \in 0..MaxTime /\ now' = now + 1
    BY <1>0, <1>16, WindowAssumption DEF Tick
  <2>2. BatchStates \subseteq BatchStates' /\ 0..now \subseteq 0..now'
    BY <1>0, <2>1 DEF BatchStates
  <2>3. batch' \in [Batches -> BatchStates] /\ job' \in [Jobs -> JobStates]
    BY <1>16, OverlapTyped DEF Tick
  <2>4. batch' \in [Batches -> BatchStates']
    BY <2>2, <2>3
  <2> QED BY <1>16, <2>1, <2>2, <2>3, <2>4 DEF Tick, InventoryTypeOK
<1>17. CASE UNCHANGED inventoryVars
  <2>1. BatchStates' = BatchStates
    BY <1>17 DEF inventoryVars, BatchStates
  <2> QED BY <1>17, <2>1 DEF inventoryVars, InventoryTypeOK
<1> QED
  BY <1>5, <1>6, <1>7, <1>8, <1>9, <1>10, <1>11, <1>12, <1>13, <1>14, <1>15, <1>16, <1>17
  DEF InventoryNext, Ingest

(* The footprint, and every count on its way there, is at most the number  *)
(* of endpoints, and no observation is later than the present.             *)
THEOREM InventoryTypeCorrect == InventorySpec => []InventoryTypeOK
BY InventoryTypeStart, InventoryTypeStep, PTL DEF InventorySpec

=============================================================================
