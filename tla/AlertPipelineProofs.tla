------------------------- MODULE AlertPipelineProofs -------------------------
(***************************************************************************)
(* The pending-alert protocol, proved for every set of requests, every set *)
(* of versions and every bound: no detected change is lost, no alert is    *)
(* recorded that was not sent, none is sent for a change that was not      *)
(* committed, a threat match is never taken back, and the protocol         *)
(* implements the promise of Outbox.                                       *)
(***************************************************************************)
EXTENDS AlertPipeline, TLAPS

USE DEF At, Goto

-----------------------------------------------------------------------------
(* Type correctness.                                                       *)

(* The events detect_changes yields are well-formed change events.         *)
LEMMA DetectType ==
    ASSUME NEW o \in Vals \cup {NoVal}, NEW n \in Vals \cup {NoVal},
           NEW a \in BOOLEAN, NEW b \in BOOLEAN
    PROVE  detect_changes(o, n, a, b) \subseteq ChangeEvents
BY DEF detect_changes, VersionEvent, ThreatEvent, ChangeEvents

(* A corrupt entry is no change event.                                     *)
LEMMA JunkIsNoEvent == Junk \notin ChangeEvents
BY DEF Junk, ChangeEvents

(* Every merge leaves well-formed entries.                                 *)
LEMMA MergeType ==
    ASSUME TypeOK, NEW E \in SUBSET ChangeEvents
    PROVE  /\ Stamped(E) \in SUBSET Entries
           /\ Appended(E) \in SUBSET Entries
           /\ Merged(E) \in SUBSET Entries
           /\ (IF E = {} THEN clock ELSE clock + 1) \in Nat
BY DEF TypeOK, Stamped, Appended, Merged, Entries, _parse_pending_events

(* The budgets stay natural numbers.                                       *)
LEMMA BudgetType ==
    ASSUME TypeOK, Edit \/ Fault
    PROVE  edits' \in Nat /\ faults' \in Nat /\ crashes' \in Nat
BY DEF TypeOK, Edit, Fault

(* Replacing the state of one task keeps the type of the task table.       *)
LEMMA TaskUpdate ==
    ASSUME TypeOK, NEW t \in Tasks, NEW s \in TaskStates
    PROVE  [task EXCEPT ![t] = s] \in [Tasks -> TaskStates]
BY DEF TypeOK

(* The states a task is put into with a clean slate are task states:       *)
(* the idle one, ...                                                       *)
LEMMA IdleType == Idle \in TaskStates
BY DEF Idle, TaskStates, PCs

(* ... any await of a task that holds no events, ...                       *)
LEMMA IdleAt == ASSUME NEW p \in PCs PROVE [Idle EXCEPT !.pc = p] \in TaskStates
BY DEF Idle, TaskStates, PCs

(* ... the reload ahead of firing what a merge returned, ...               *)
LEMMA IdleFiring ==
    ASSUME NEW n \in {"posture", "fetch", "idle"}, NEW own \in SUBSET Entries
    PROVE  [Idle EXCEPT !.pc = "reload", !.then = n, !.own = own] \in TaskStates
BY DEF Idle, TaskStates, PCs

(* ... and the reload of a refresh whose row is not listed.                *)
LEMMA IdleReload == [Idle EXCEPT !.pc = "reload", !.then = "fetch"] \in TaskStates
BY DEF Idle, TaskStates, PCs

(* The initial states are well-typed.                                      *)
LEMMA InitType == Init => TypeOK
<1> SUFFICES ASSUME Init PROVE TypeOK
  OBVIOUS
<1>1. [ev |-> ThreatEvent, at |-> 0] \in Entries /\ [ev |-> Junk, at |-> 0] \in Entries
  BY DEF Entries, ThreatEvent, Junk, ChangeEvents
<1>2. owed \in SUBSET Entries /\ marker \in SUBSET Entries
  BY <1>1 DEF Init
<1>3. Idle \in TaskStates
  BY DEF Idle, TaskStates, PCs
<1> QED
  BY <1>2, <1>3 DEF Init, TypeOK

(* Every action keeps the types; the actions that merge rest on MergeType. *)
LEMMA TypeStep == TypeOK /\ [Next]_vars => TypeOK'
<1> SUFFICES ASSUME TypeOK, [Next]_vars PROVE TypeOK'
  OBVIOUS
<1> USE DEF row, world, history, outcome, budget
<1>0. Scheduler \in Tasks /\ Requests \subseteq Tasks
  BY DEF Tasks
<1>a. /\ "idle" \in PCs /\ "recover" \in PCs /\ "posture" \in PCs /\ "reload" \in PCs
      /\ "rules" \in PCs /\ "send" \in PCs /\ "ack" \in PCs /\ "clear" \in PCs
      /\ "fetch" \in PCs /\ "store" \in PCs
  BY DEF PCs
<1>b. \A t \in Tasks : /\ task[t].pc \in PCs /\ task[t].then \in {"posture", "fetch", "idle"}
                       /\ task[t].own \in SUBSET Entries /\ task[t].got \in Vals \cup {NoVal}
                       /\ task[t].todo \in SUBSET Entries
                       /\ task[t].then \in PCs
  BY DEF TypeOK, TaskStates, PCs
<1>c. \A t \in Tasks, p \in PCs : [task EXCEPT ![t].pc = p] \in [Tasks -> TaskStates]
  BY DEF TypeOK, TaskStates
<1>1. CASE StartCycle
  BY <1>0, <1>1, <1>a, <1>b, <1>c DEF StartCycle, TypeOK
<1>2. CASE recover_pending_alerts
  <2>1. task' \in [Tasks -> TaskStates]
    BY <1>0, <1>2, <1>a DEF recover_pending_alerts, Idle, TaskStates, TypeOK, _parse_pending_events
  <2> QED BY <1>2, <2>1 DEF recover_pending_alerts, TypeOK
<1>3. ASSUME NEW r \in Requests, StartManual(r) PROVE TypeOK'
  BY <1>0, <1>3, <1>a, <1>b, <1>c DEF StartManual, TypeOK
<1>4. ASSUME NEW r \in Requests, Ingest(r) PROVE TypeOK'
  <2>1. detect_changes(val, val, threat, TRUE) \in SUBSET ChangeEvents
    BY DetectType DEF TypeOK
  <2>2. CASE alive
    <3>1. task' \in [Tasks -> TaskStates]
      <4>1. FireNext(r, detect_changes(val, val, threat, TRUE), "idle")
        BY <1>4, <2>2 DEF Ingest
      <4> QED BY <1>0, <2>1, <4>1, MergeType, TaskUpdate, IdleFiring DEF FireNext
    <3>2. marker' \in SUBSET Entries /\ occurred' \in SUBSET Entries /\ owed' \in SUBSET Entries
          /\ clock' \in Nat
      BY <1>4, <2>1, <2>2, MergeType DEF Ingest, apply_threat_matches, _merge_pending_events, TypeOK
    <3> QED BY <1>4, <2>2, <3>1, <3>2, BudgetType DEF Ingest, apply_threat_matches, TypeOK
  <2>3. CASE ~alive
    BY <1>4, <2>3, BudgetType DEF Ingest, TypeOK
  <2> QED BY <2>2, <2>3
<1>5. CASE NeighbourPosture
  <2>1. detect_changes(val, val, threat, TRUE) \in SUBSET ChangeEvents
    BY DetectType DEF TypeOK
  <2>2. marker' \in SUBSET Entries /\ occurred' \in SUBSET Entries /\ owed' \in SUBSET Entries
        /\ clock' \in Nat
    BY <1>5, <2>1, MergeType DEF NeighbourPosture, apply_threat_matches, _merge_pending_events, TypeOK
  <2> QED
    BY <1>5, <2>2, BudgetType DEF NeighbourPosture, apply_threat_matches, TypeOK
<1>6. ASSUME NEW t \in Tasks, PostureSkip(t) PROVE TypeOK'
  BY <1>6, TaskUpdate, IdleType DEF PostureSkip, TypeOK
<1>7. ASSUME NEW t \in Tasks, apply_existing_threat_posture(t) PROVE TypeOK'
  <2>1. detect_changes(val, val, threat, TRUE) \in SUBSET ChangeEvents
    BY DetectType DEF TypeOK
  <2>2. CASE ~listed
    <3>1. task' \in [Tasks -> TaskStates]
      BY <1>7, <1>a, <2>2, TaskUpdate, IdleReload DEF apply_existing_threat_posture
    <3> QED BY <1>7, <2>2, <3>1 DEF apply_existing_threat_posture, TypeOK
  <2>3. CASE listed
    <3>1. task' \in [Tasks -> TaskStates]
      <4>1. FireNext(t, detect_changes(val, val, threat, TRUE), "fetch")
        BY <1>7, <2>3 DEF apply_existing_threat_posture
      <4> QED BY <2>1, <4>1, MergeType, TaskUpdate, IdleFiring DEF FireNext
    <3>2. marker' \in SUBSET Entries /\ occurred' \in SUBSET Entries /\ owed' \in SUBSET Entries
          /\ clock' \in Nat
      BY <1>7, <2>1, <2>3, MergeType
      DEF apply_existing_threat_posture, apply_threat_matches, _merge_pending_events, TypeOK
    <3> QED BY <1>7, <2>3, <3>1, <3>2 DEF apply_existing_threat_posture, apply_threat_matches, TypeOK
  <2> QED BY <2>2, <2>3
<1>8. ASSUME NEW t \in Tasks, Fetch(t) PROVE TypeOK'
  <2>1. \A v \in Vals \cup {NoVal} : [task[t] EXCEPT !.pc = "store", !.got = v] \in TaskStates
    BY <1>a DEF TypeOK, TaskStates
  <2>2. task' \in [Tasks -> TaskStates]
    <3>1. \E s \in TaskStates : task' = [task EXCEPT ![t] = s]
      <4>1. storeVal \in Vals \cup {NoVal}
        BY DEF TypeOK
      <4>2. \/ task' = [task EXCEPT ![t] = [task[t] EXCEPT !.pc = "store", !.got = storeVal]]
            \/ task' = [task EXCEPT ![t] = [task[t] EXCEPT !.pc = "store", !.got = NoVal]]
            \/ task' = [task EXCEPT ![t] = Idle]
        BY <1>8 DEF Fetch
      <4> QED BY <2>1, <4>1, <4>2, IdleType
    <3> QED BY <3>1, TaskUpdate
  <2> QED BY <1>8, <2>2, BudgetType DEF Fetch, TypeOK
<1>9. ASSUME NEW t \in Tasks, Store(t) PROVE TypeOK'
  <2>1. Kept(task[t].got) \in Vals \cup {NoVal}
    BY <1>b DEF Kept, TypeOK
  <2>2. detect_changes(val, Kept(task[t].got), threat, _threat_entries) \in SUBSET ChangeEvents
    BY <2>1, DetectType DEF _threat_entries, TypeOK
  <2>3. task' \in [Tasks -> TaskStates]
    BY <1>9, <1>a, <2>2, MergeType, TaskUpdate, IdleFiring DEF Store, FireNext
  <2>4. marker' \in SUBSET Entries /\ occurred' \in SUBSET Entries /\ owed' \in SUBSET Entries
        /\ clock' \in Nat
    BY <1>9, <2>2, MergeType DEF Store, _merge_pending_events, TypeOK
  <2> QED BY <1>9, <2>1, <2>3, <2>4 DEF Store, _threat_entries, TypeOK
<1>10. ASSUME NEW t \in Tasks, StoreFail(t) PROVE TypeOK'
  BY <1>10, TaskUpdate, IdleType, BudgetType DEF StoreFail, TypeOK
<1>11. ASSUME NEW t \in Tasks, Reload(t) PROVE TypeOK'
  <2>1. Abort(t) \in TaskStates
    BY <1>a, IdleAt, IdleType DEF Abort
  <2>2. [task[t] EXCEPT !.pc = "rules"] \in TaskStates
    BY <1>a DEF TypeOK, TaskStates
  <2>3. task' \in [Tasks -> TaskStates]
    BY <1>11, <1>b, <2>1, <2>2, TaskUpdate, IdleAt DEF Reload
  <2> QED BY <1>11, <2>3 DEF Reload, TypeOK
<1>12. ASSUME NEW t \in Tasks, Dismiss(t) PROVE TypeOK'
  BY <1>12, <1>a, <1>b, <1>c DEF Dismiss, TypeOK
<1>13. ASSUME NEW t \in Tasks, Match(t) PROVE TypeOK'
  <2>1. [task[t] EXCEPT !.pc = "send", !.todo = task[t].own] \in TaskStates
    BY <1>a DEF TypeOK, TaskStates
  <2> QED BY <1>13, <2>1, TaskUpdate DEF Match, Deliverable, TypeOK
<1>14. ASSUME NEW t \in Tasks, Send(t) PROVE TypeOK'
  BY <1>14 DEF Send, TypeOK, TaskStates
<1>15. ASSUME NEW t \in Tasks, Log(t) PROVE TypeOK'
  BY <1>15, <1>a, <1>b, <1>c DEF Log, TypeOK
<1>16. ASSUME NEW t \in Tasks, LogFail(t) PROVE TypeOK'
  <2>1. task' \in [Tasks -> TaskStates]
    BY <1>16, <1>b, TaskUpdate, IdleAt DEF LogFail
  <2> QED BY <1>16, <2>1, BudgetType DEF LogFail, TypeOK
<1>17. ASSUME NEW t \in Tasks, _ack_pending_events(t) PROVE TypeOK'
  <2>1. task' \in [Tasks -> TaskStates]
    BY <1>17, <1>b, TaskUpdate, IdleAt DEF _ack_pending_events
  <2> QED BY <1>17, <2>1 DEF _ack_pending_events, Unacknowledged, _parse_pending_events, TypeOK
<1>18. ASSUME NEW t \in Tasks, _clear_pending_alerts(t) PROVE TypeOK'
  <2>1. task' \in [Tasks -> TaskStates]
    BY <1>18, <1>b, TaskUpdate, IdleAt DEF _clear_pending_alerts
  <2> QED BY <1>18, <2>1 DEF _clear_pending_alerts, TypeOK
<1>19. ASSUME NEW t \in Tasks, AckFail(t) PROVE TypeOK'
  <2>1. Abort(t) \in TaskStates
    BY <1>a, IdleAt, IdleType DEF Abort
  <2> QED BY <1>19, <2>1, TaskUpdate, BudgetType DEF AckFail, TypeOK
<1>20. CASE StoreChange \/ ToggleWatch \/ ToggleRules \/ Orphan \/ Delete
  BY <1>20, BudgetType DEF StoreChange, ToggleWatch, ToggleRules, Orphan, Delete, TypeOK
<1>21. CASE Crash
  BY <1>21, IdleType DEF Crash, TypeOK
<1>22. CASE UNCHANGED vars
  BY <1>22 DEF vars, TypeOK
<1> QED
  BY <1>1, <1>2, <1>3, <1>4, <1>5, <1>6, <1>7, <1>8, <1>9, <1>10, <1>11, <1>12, <1>13, <1>14,
     <1>15, <1>16, <1>17, <1>18, <1>19, <1>20, <1>21, <1>22
  DEF Next, Step, Refresh, Deliver, Environment

(* Every reachable state of the pipeline is well-typed.                    *)
THEOREM TypeCorrect == Spec => []TypeOK
BY InitType, TypeStep, PTL DEF Spec

-----------------------------------------------------------------------------
(* The inductive invariant.                                                *)

(* What the state s of a task tells of the histories: it only delivers     *)
(* committed events; while sending, each of its events is to be sent or    *)
(* was sent; it acknowledges only what is recorded or dismissed; recovery  *)
(* delivers all that can be parsed of the string it will compare with.     *)
TaskInv(s, committed, delivered, done) ==
    /\ s.own \subseteq committed
    /\ s.todo \subseteq s.own
    /\ s.pc = "send" => s.own \subseteq s.todo \cup delivered
    /\ s.pc = "ack" => s.own \subseteq done
    /\ s.cas => s.own = _parse_pending_events(s.raw)
    /\ s.pc = "clear" => s.cas /\ s.own = {}

TasksInv == \A t \in Tasks : TaskInv(task[t], occurred, sent, handled)

(* The pending events were committed, and what was committed is an event.  *)
MarkerInv ==
    /\ _parse_pending_events(marker) \subseteq occurred
    /\ Content(occurred) \subseteq ChangeEvents

IInv ==
    /\ TypeOK /\ TasksInv /\ MarkerInv
    /\ NoEventLost /\ LoggedWereSent /\ OnlyCommittedFired
    /\ (threat => listed)

(* A task state stays good while the histories grow.                       *)
LEMMA TaskInvGrows ==
    ASSUME NEW s, NEW c1, NEW c2, NEW d1, NEW d2, NEW h1, NEW h2,
           TaskInv(s, c1, d1, h1), c1 \subseteq c2, d1 \subseteq d2, h1 \subseteq h2
    PROVE  TaskInv(s, c2, d2, h2)
BY DEF TaskInv

(* Going somewhere with a clean slate is good.                             *)
LEMMA IdleInv ==
    ASSUME NEW c, NEW d, NEW h
    PROVE  /\ TaskInv(Idle, c, d, h)
           /\ \A p \in {"idle", "posture", "fetch"} : TaskInv([Idle EXCEPT !.pc = p], c, d, h)
           /\ TaskInv([Idle EXCEPT !.pc = "reload", !.then = "fetch"], c, d, h)
BY DEF TaskInv, Idle

(* So is going to fire committed events.                                   *)
LEMMA FiringInv ==
    ASSUME NEW c, NEW d, NEW h, NEW n, NEW own, own \subseteq c
    PROVE  TaskInv([Idle EXCEPT !.pc = "reload", !.then = n, !.own = own], c, d, h)
BY DEF TaskInv, Idle

(* One task takes a step to a good state, the histories grow: all tasks    *)
(* are in a good state.                                                    *)
LEMMA StepInv ==
    ASSUME TypeOK, TasksInv, NEW t \in Tasks, NEW s, task' = [task EXCEPT ![t] = s],
           occurred \subseteq occurred', sent \subseteq sent',
           logged \subseteq logged', dismissed \subseteq dismissed',
           TaskInv(s, occurred', sent', handled')
    PROVE  TasksInv'
<1> SUFFICES ASSUME NEW u \in Tasks PROVE TaskInv(task'[u], occurred', sent', handled')
  BY DEF TasksInv
<1>1. handled \subseteq handled'
  BY DEF handled
<1>2. CASE u = t
  BY <1>2 DEF TypeOK
<1>3. CASE u # t
  <2>1. task'[u] = task[u]
    BY <1>3 DEF TypeOK
  <2>2. TaskInv(task[u], occurred, sent, handled)
    BY DEF TasksInv
  <2> QED BY <1>1, <2>1, <2>2, TaskInvGrows
<1> QED BY <1>2, <1>3

(* The merge appends what was detected, keeps what was pending, and loses  *)
(* nothing of what was owed.                                               *)
LEMMA MergeInv ==
    ASSUME IInv, alive, alive' = alive, NEW E \in SUBSET ChangeEvents,
           _merge_pending_events(E), UNCHANGED <<sent, logged, dismissed>>
    PROVE  /\ MarkerInv' /\ NoEventLost' /\ LoggedWereSent' /\ OnlyCommittedFired'
           /\ occurred \subseteq occurred' /\ Appended(E) \subseteq occurred'
<1> USE DEF _merge_pending_events
<1>1. occurred \subseteq occurred' /\ Appended(E) \subseteq occurred'
  BY DEF Appended
<1>2. Content(occurred') \subseteq ChangeEvents
  BY DEF Content, Stamped, IInv, MarkerInv
<1>3. Appended(E) \subseteq _parse_pending_events(marker') /\ _parse_pending_events(marker) \subseteq marker'
  BY JunkIsNoEvent DEF Appended, Merged, Stamped, _parse_pending_events
<1>4. _parse_pending_events(marker') \subseteq occurred'
  BY <1>1 DEF Merged, _parse_pending_events, IInv, MarkerInv
<1>5. E \subseteq Content(marker')
  <2> SUFFICES ASSUME NEW e \in E PROVE e \in Content(marker')
    OBVIOUS
  <2>1. CASE e \in Content(_parse_pending_events(marker))
    BY <1>3, <2>1 DEF Content
  <2>2. CASE e \notin Content(_parse_pending_events(marker))
    <3>1. [ev |-> e, at |-> clock + 1] \in Appended(E)
      BY <2>2 DEF Appended, Stamped
    <3> QED BY <3>1 DEF Merged, Content
  <2> QED BY <2>1, <2>2
<1>6. \A e \in Content(occurred) : e \in Content(handled \cup marker')
  <2> TAKE e \in Content(occurred)
  <2>1. e # Junk
    BY JunkIsNoEvent DEF IInv, MarkerInv
  <2>2. e \in Content(handled \cup marker)
    BY DEF IInv, NoEventLost
  <2>3. PICK m \in handled \cup marker : m.ev = e
    BY <2>2 DEF Content
  <2>4. m \in handled \cup marker'
    BY <2>1, <2>3, <1>3 DEF _parse_pending_events
  <2> QED BY <2>3, <2>4 DEF Content
<1>7. Content(occurred') \subseteq Content(handled \cup marker')
  <2> SUFFICES ASSUME NEW o \in occurred' PROVE o.ev \in Content(handled \cup marker')
    BY DEF Content
  <2>1. CASE o \in occurred
    BY <1>6, <2>1 DEF Content
  <2>2. CASE o \in Stamped(E)
    BY <1>5, <2>2 DEF Stamped, Content
  <2> QED BY <2>1, <2>2
<1>8. handled' = handled
  BY DEF handled
<1> QED
  BY <1>1, <1>2, <1>4, <1>7, <1>8
  DEF MarkerInv, NoEventLost, LoggedWereSent, OnlyCommittedFired, IInv

(* The parts of the invariant that an action which touches neither the     *)
(* marker nor a history keeps.                                             *)
LEMMA QuietInv ==
    ASSUME IInv, alive' => alive, UNCHANGED <<marker, history, outcome>>
    PROVE  MarkerInv' /\ NoEventLost' /\ LoggedWereSent' /\ OnlyCommittedFired'
BY DEF IInv, MarkerInv, NoEventLost, LoggedWereSent, OnlyCommittedFired, handled, history, outcome

(* The invariant holds initially.                                          *)
LEMMA InitInv == Init => IInv
<1> SUFFICES ASSUME Init PROVE IInv
  OBVIOUS
<1>1. TypeOK
  BY InitType
<1>2. TasksInv
  BY IdleInv DEF Init, TasksInv
<1>3. [ev |-> ThreatEvent, at |-> 0].ev \in ChangeEvents
  BY DEF ThreatEvent, ChangeEvents
<1>4. _parse_pending_events(marker) \subseteq occurred
  BY DEF Init, _parse_pending_events
<1>5. Content(occurred) \subseteq ChangeEvents
  BY <1>3 DEF Init, Content
<1>6. Content(occurred) \subseteq Content(handled \cup marker)
  BY DEF Init, Content
<1> QED
  BY <1>1, <1>2, <1>4, <1>5, <1>6
  DEF Init, IInv, MarkerInv, NoEventLost, LoggedWereSent, OnlyCommittedFired

(* What an acknowledgement takes out of the marker is on record as told or *)
(* was dismissed.                                                          *)
LEMMA AckHandled ==
    ASSUME TypeOK, TasksInv, NEW t \in Tasks, _ack_pending_events(t)
    PROVE  \A m \in marker \ marker' : m.ev = Junk \/ m.ev \in Content(handled)
<1>1. task[t].own \subseteq handled
  BY DEF _ack_pending_events, TasksInv, TaskInv
<1>2. marker' = Unacknowledged(task[t].own)
  BY DEF _ack_pending_events
<1> QED BY <1>1, <1>2 DEF Unacknowledged, _parse_pending_events, Content

(* So is what recovery clears: it delivered all that can be parsed of the  *)
(* string it compares with.                                                *)
LEMMA ClearHandled ==
    ASSUME TypeOK, TasksInv, NEW t \in Tasks, _clear_pending_alerts(t)
    PROVE  \A m \in marker \ marker' : m.ev = Junk \/ m.ev \in Content(handled)
<1>1. task[t].cas /\ task[t].own \subseteq handled
  BY DEF _clear_pending_alerts, TasksInv, TaskInv
<1>2. task[t].own = _parse_pending_events(task[t].raw)
  BY <1>1 DEF TasksInv, TaskInv
<1>3. marker' = IF SameText(marker, task[t].raw) THEN {} ELSE marker
  BY DEF _clear_pending_alerts, ExpectedMarker
<1> SUFFICES ASSUME NEW m \in marker, SameText(marker, task[t].raw), m.ev # Junk
             PROVE  m.ev \in Content(handled)
  BY <1>3
<1>4. PICK n \in task[t].raw : n.ev = m.ev
  BY DEF SameText, Content
<1>5. n \in handled
  BY <1>1, <1>2, <1>4 DEF _parse_pending_events
<1> QED BY <1>4, <1>5 DEF Content

(* Every action keeps the invariant.                                       *)
LEMMA InvStep == IInv /\ [Next]_vars => IInv'
<1> SUFFICES ASSUME IInv, [Next]_vars PROVE IInv'
  OBVIOUS
<1>0. TypeOK /\ TasksInv /\ TypeOK'
  BY TypeStep DEF IInv
<1>s. Scheduler \in Tasks /\ Requests \subseteq Tasks
  BY DEF Tasks
<1>m. \A E \in SUBSET ChangeEvents : Appended(E) \subseteq Stamped(E)
  BY DEF Appended
<1>q. ASSUME NEW t \in Tasks, NEW s, task' = [task EXCEPT ![t] = s],
             TaskInv(s, occurred, sent, handled),
             alive' => alive, threat' => listed', UNCHANGED <<marker, history, outcome>>
      PROVE  IInv'
  <2>1. UNCHANGED <<occurred, sent, logged, dismissed>> /\ handled' = handled
    BY <1>q DEF history, outcome, handled
  <2>2. TasksInv'
    BY <1>0, <1>q, <2>1, StepInv
  <2> QED BY <1>0, <1>q, <2>2, QuietInv DEF IInv
<1>f. ASSUME NEW t \in Tasks, NEW n, NEW E \in SUBSET ChangeEvents,
             FireNext(t, E, n), _merge_pending_events(E),
             alive, alive' = alive, threat' => listed', UNCHANGED outcome
      PROVE  IInv'
  <2>1. UNCHANGED <<sent, logged, dismissed>>
    BY <1>f DEF outcome
  <2>2. /\ MarkerInv' /\ NoEventLost' /\ LoggedWereSent' /\ OnlyCommittedFired'
        /\ occurred \subseteq occurred' /\ Appended(E) \subseteq occurred'
    BY <1>f, <2>1, MergeInv
  <2>3. TasksInv'
    BY <1>0, <1>f, <2>1, <2>2, FiringInv, StepInv DEF FireNext
  <2> QED BY <1>0, <1>f, <2>2, <2>3 DEF IInv
<1>1. CASE StartCycle
  <2>1. TaskInv([task[Scheduler] EXCEPT !.pc = "recover"], occurred, sent, handled)
    BY <1>0, <1>s DEF TasksInv, TaskInv, TypeOK, TaskStates
  <2>2. task' = [task EXCEPT ![Scheduler] = [task[Scheduler] EXCEPT !.pc = "recover"]]
    BY <1>1 DEF StartCycle
  <2> QED BY <1>1, <1>s, <1>q, <2>1, <2>2 DEF StartCycle, row, world, IInv
<1>2. CASE recover_pending_alerts
  <2> DEFINE events == _parse_pending_events(marker)
             clear == [Idle EXCEPT !.pc = "clear", !.then = "posture", !.raw = marker, !.cas = TRUE]
             fire == [Idle EXCEPT !.pc = "reload", !.then = "posture", !.own = events,
                                  !.raw = marker, !.cas = TRUE]
  <2>1. events = {} => TaskInv(clear, occurred, sent, handled)
    BY DEF TaskInv, Idle
  <2>2. TaskInv(fire, occurred, sent, handled)
    BY DEF TaskInv, Idle, IInv, MarkerInv
  <2>3. TaskInv([Idle EXCEPT !.pc = "posture"], occurred, sent, handled)
    BY IdleInv
  <2>4. \E s : task' = [task EXCEPT ![Scheduler] = s] /\ TaskInv(s, occurred, sent, handled)
    BY <1>2, <2>1, <2>2, <2>3 DEF recover_pending_alerts
  <2> QED BY <1>2, <1>s, <1>q, <2>4 DEF recover_pending_alerts, row, world, IInv
<1>3. ASSUME NEW r \in Requests, StartManual(r) PROVE IInv'
  <2>1. TaskInv([task[r] EXCEPT !.pc = "posture"], occurred, sent, handled)
    BY <1>0, <1>s DEF TasksInv, TaskInv, TypeOK, TaskStates
  <2>2. task' = [task EXCEPT ![r] = [task[r] EXCEPT !.pc = "posture"]]
    BY <1>3 DEF StartManual
  <2> QED BY <1>3, <1>s, <1>q, <2>1, <2>2 DEF StartManual, row, world, IInv
<1>4. ASSUME NEW r \in Requests, Ingest(r) PROVE IInv'
  <2>1. detect_changes(val, val, threat, TRUE) \in SUBSET ChangeEvents
    BY <1>0, DetectType DEF TypeOK
  <2>2. CASE alive
    BY <1>4, <1>s, <1>f, <2>1, <2>2 DEF Ingest, apply_threat_matches
  <2>3. CASE ~alive
    <3>1. UNCHANGED <<marker, history, outcome, task>> /\ alive' = alive /\ listed'
      BY <1>4, <2>3 DEF Ingest
    <3>2. TasksInv'
      BY <1>0, <3>1 DEF TasksInv, history, outcome, handled
    <3> QED BY <1>0, <3>1, <3>2, QuietInv DEF IInv
  <2> QED BY <2>2, <2>3
<1>5. CASE NeighbourPosture
  <2>1. detect_changes(val, val, threat, TRUE) \in SUBSET ChangeEvents
    BY <1>0, DetectType DEF TypeOK
  <2>2. /\ MarkerInv' /\ NoEventLost' /\ LoggedWereSent' /\ OnlyCommittedFired'
        /\ occurred \subseteq occurred'
    BY <1>5, <2>1, MergeInv DEF NeighbourPosture, apply_threat_matches, outcome
  <2>3. TasksInv'
    BY <1>0, <1>5, <2>2, TaskInvGrows DEF NeighbourPosture, TasksInv, outcome, handled
  <2> QED BY <1>0, <1>5, <2>2, <2>3 DEF NeighbourPosture, world, IInv
<1>6. ASSUME NEW t \in Tasks, PostureSkip(t) PROVE IInv'
  BY <1>6, <1>q, IdleInv DEF PostureSkip, row, world, IInv
<1>7. ASSUME NEW t \in Tasks, apply_existing_threat_posture(t) PROVE IInv'
  <2>1. detect_changes(val, val, threat, TRUE) \in SUBSET ChangeEvents
    BY <1>0, DetectType DEF TypeOK
  <2>2. CASE ~listed
    <3>1. /\ task' = [task EXCEPT ![t] = [Idle EXCEPT !.pc = "reload", !.then = "fetch"]]
          /\ alive' = alive /\ threat' = threat /\ listed' = listed
          /\ UNCHANGED <<marker, history, outcome>>
      BY <1>7, <2>2 DEF apply_existing_threat_posture, world
    <3>2. TaskInv([Idle EXCEPT !.pc = "reload", !.then = "fetch"], occurred, sent, handled)
      BY IdleInv
    <3> QED BY <1>q, <3>1, <3>2 DEF IInv
  <2>3. CASE listed
    BY <1>7, <1>f, <2>1, <2>3 DEF apply_existing_threat_posture, apply_threat_matches, world
  <2> QED BY <2>2, <2>3
<1>8. ASSUME NEW t \in Tasks, Fetch(t) PROVE IInv'
  <2>1. \A v : TaskInv([task[t] EXCEPT !.pc = "store", !.got = v], occurred, sent, handled)
    BY <1>0 DEF TasksInv, TaskInv, TypeOK, TaskStates
  <2>2. \E s : task' = [task EXCEPT ![t] = s] /\ TaskInv(s, occurred, sent, handled)
    <3>1. \/ task' = [task EXCEPT ![t] = [task[t] EXCEPT !.pc = "store", !.got = storeVal]]
          \/ task' = [task EXCEPT ![t] = [task[t] EXCEPT !.pc = "store", !.got = NoVal]]
          \/ task' = [task EXCEPT ![t] = Idle]
      BY <1>8 DEF Fetch
    <3> QED BY <2>1, <3>1, IdleInv
  <2> QED BY <1>8, <1>q, <2>2 DEF Fetch, row, world, IInv
<1>9. ASSUME NEW t \in Tasks, Store(t) PROVE IInv'
  <2>1. Kept(task[t].got) \in Vals \cup {NoVal}
    BY <1>0 DEF Kept, TypeOK, TaskStates
  <2>2. detect_changes(val, Kept(task[t].got), threat, _threat_entries) \in SUBSET ChangeEvents
    BY <1>0, <2>1, DetectType DEF _threat_entries, TypeOK
  <2> QED BY <1>9, <1>f, <2>2 DEF Store, _threat_entries, world
<1>10. ASSUME NEW t \in Tasks, StoreFail(t) PROVE IInv'
  BY <1>10, <1>q, IdleInv DEF StoreFail, row, world, IInv
<1>11. ASSUME NEW t \in Tasks, Reload(t) PROVE IInv'
  <2>1. TaskInv([task[t] EXCEPT !.pc = "rules"], occurred, sent, handled)
    BY <1>0 DEF TasksInv, TaskInv, TypeOK, TaskStates
  <2>2. TaskInv([Idle EXCEPT !.pc = task[t].then], occurred, sent, handled)
    BY <1>0, IdleInv DEF TypeOK, TaskStates
  <2>3. TaskInv(Abort(t), occurred, sent, handled)
    BY IdleInv DEF Abort
  <2>4. \E s : task' = [task EXCEPT ![t] = s] /\ TaskInv(s, occurred, sent, handled)
    BY <1>11, <2>1, <2>2, <2>3 DEF Reload
  <2> QED BY <1>11, <1>q, <2>4 DEF Reload, row, world, IInv
<1>12. ASSUME NEW t \in Tasks, Dismiss(t) PROVE IInv'
  <2>1. task' = [task EXCEPT ![t] = [task[t] EXCEPT !.pc = "ack"]]
    BY <1>12 DEF Dismiss
  <2>2. /\ dismissed' = dismissed \cup task[t].own
        /\ alive' = alive /\ threat' = threat /\ listed' = listed
        /\ UNCHANGED <<marker, history, sent, logged>>
    BY <1>12 DEF Dismiss, row, world
  <2>3. TaskInv([task[t] EXCEPT !.pc = "ack"], occurred', sent', handled')
    BY <1>0, <2>2 DEF TasksInv, TaskInv, TypeOK, TaskStates, handled, history
  <2>4. TasksInv'
    BY <1>0, <2>1, <2>2, <2>3, StepInv DEF history
  <2>5. NoEventLost'
    BY <2>2 DEF IInv, NoEventLost, Content, handled, history
  <2> QED BY <1>0, <2>2, <2>4, <2>5 DEF IInv, MarkerInv, LoggedWereSent, OnlyCommittedFired, history
<1>13. ASSUME NEW t \in Tasks, Match(t) PROVE IInv'
  <2>1. TaskInv([task[t] EXCEPT !.pc = "send", !.todo = task[t].own], occurred, sent, handled)
    BY <1>0 DEF TasksInv, TaskInv, TypeOK, TaskStates
  <2> QED BY <1>13, <1>q, <2>1 DEF Match, Deliverable, row, world, IInv
<1>14. ASSUME NEW t \in Tasks, Send(t) PROVE IInv'
  <2>1. PICK m \in task[t].todo : /\ sent' = sent \cup {m}
                                  /\ task' = [task EXCEPT ![t].todo = @ \ {m}]
    BY <1>14 DEF Send
  <2>2. task' = [task EXCEPT ![t] = [task[t] EXCEPT !.todo = task[t].todo \ {m}]]
    BY <2>1
  <2>3. /\ alive' = alive /\ threat' = threat /\ listed' = listed
        /\ UNCHANGED <<marker, history, logged, dismissed>>
    BY <1>14 DEF Send, row, world
  <2>4. TaskInv([task[t] EXCEPT !.todo = task[t].todo \ {m}], occurred', sent', handled')
    BY <1>0, <2>1, <2>3 DEF TasksInv, TaskInv, TypeOK, TaskStates, handled, history
  <2>5. TasksInv'
    BY <1>0, <2>1, <2>2, <2>3, <2>4, StepInv DEF history
  <2>6. m \in occurred
    BY <1>0 DEF TasksInv, TaskInv
  <2>7. NoEventLost' /\ MarkerInv'
    BY <2>3 DEF IInv, NoEventLost, MarkerInv, handled, history
  <2> QED BY <1>0, <2>1, <2>3, <2>5, <2>6, <2>7 DEF IInv, LoggedWereSent, OnlyCommittedFired, history
<1>15. ASSUME NEW t \in Tasks, Log(t) PROVE IInv'
  <2>1. task' = [task EXCEPT ![t] = [task[t] EXCEPT !.pc = "ack"]]
    BY <1>15 DEF Log
  <2>2. /\ logged' = logged \cup task[t].own
        /\ alive' = alive /\ threat' = threat /\ listed' = listed
        /\ UNCHANGED <<marker, history, sent, dismissed>>
    BY <1>15 DEF Log, row, world
  <2>3. TaskInv([task[t] EXCEPT !.pc = "ack"], occurred', sent', handled')
    BY <1>0, <2>2 DEF TasksInv, TaskInv, TypeOK, TaskStates, handled, history
  <2>4. TasksInv'
    BY <1>0, <2>1, <2>2, <2>3, StepInv DEF history
  <2>5. NoEventLost'
    BY <2>2 DEF IInv, NoEventLost, Content, handled, history
  <2>6. task[t].own \subseteq sent
    BY <1>0, <1>15 DEF Log, TasksInv, TaskInv
  <2> QED
    BY <1>0, <2>2, <2>4, <2>5, <2>6 DEF IInv, MarkerInv, LoggedWereSent, OnlyCommittedFired, history
<1>16. ASSUME NEW t \in Tasks, LogFail(t) PROVE IInv'
  <2>1. TaskInv([Idle EXCEPT !.pc = task[t].then], occurred, sent, handled)
    BY <1>0, IdleInv DEF TypeOK, TaskStates
  <2> QED BY <1>16, <1>q, <2>1 DEF LogFail, row, world, IInv
<1>a. ASSUME NEW t \in Tasks, task' = [task EXCEPT ![t] = [Idle EXCEPT !.pc = task[t].then]],
             marker' \subseteq marker,
             \A m \in marker \ marker' : m.ev = Junk \/ m.ev \in Content(handled),
             UNCHANGED <<alive, watch, owned, val, threat, world, history, outcome, budget>>
      PROVE  IInv'
  <2>1. TaskInv([Idle EXCEPT !.pc = task[t].then], occurred, sent, handled)
    BY <1>0, IdleInv DEF TypeOK, TaskStates
  <2>2. /\ handled' = handled /\ occurred' = occurred /\ sent' = sent /\ logged' = logged
        /\ dismissed' = dismissed /\ alive' = alive /\ threat' = threat /\ listed' = listed
    BY <1>a DEF handled, history, outcome, world
  <2>3. TasksInv'
    BY <1>0, <1>a, <2>1, <2>2, StepInv
  <2>4. MarkerInv'
    BY <1>a, <2>2 DEF IInv, MarkerInv, _parse_pending_events
  <2>5. NoEventLost'
    <3> SUFFICES ASSUME alive, NEW e \in Content(occurred) PROVE e \in Content(handled \cup marker')
      BY <2>2 DEF NoEventLost
    <3>1. e # Junk
      BY JunkIsNoEvent DEF IInv, MarkerInv
    <3>2. PICK m \in handled \cup marker : m.ev = e
      BY DEF IInv, NoEventLost, Content
    <3>3. CASE m \in handled \cup marker'
      BY <3>2, <3>3 DEF Content
    <3>4. CASE m \in marker \ marker'
      BY <1>a, <3>1, <3>2, <3>4 DEF Content
    <3> QED BY <3>2, <3>3, <3>4
  <2> QED BY <1>0, <2>2, <2>3, <2>4, <2>5 DEF IInv, LoggedWereSent, OnlyCommittedFired
<1>17. ASSUME NEW t \in Tasks, _ack_pending_events(t) PROVE IInv'
  <2>3. \A m \in marker \ marker' : m.ev = Junk \/ m.ev \in Content(handled)
    BY <1>0, <1>17, AckHandled
  <2>4. marker' \subseteq marker
    BY <1>17 DEF _ack_pending_events, Unacknowledged, _parse_pending_events
  <2> QED BY <1>17, <1>a, <2>3, <2>4 DEF _ack_pending_events
<1>18. ASSUME NEW t \in Tasks, _clear_pending_alerts(t) PROVE IInv'
  <2>4. \A m \in marker \ marker' : m.ev = Junk \/ m.ev \in Content(handled)
    BY <1>0, <1>18, ClearHandled
  <2>5. marker' \subseteq marker
    BY <1>18 DEF _clear_pending_alerts
  <2> QED BY <1>18, <1>a, <2>4, <2>5 DEF _clear_pending_alerts
<1>19. ASSUME NEW t \in Tasks, AckFail(t) PROVE IInv'
  <2>1. TaskInv(Abort(t), occurred, sent, handled)
    BY IdleInv DEF Abort
  <2> QED BY <1>19, <1>q, <2>1 DEF AckFail, row, world, IInv
<1>t. ASSUME UNCHANGED <<task, history, outcome>> PROVE TasksInv'
  BY <1>0, <1>t DEF TasksInv, history, outcome, handled
<1>20. CASE StoreChange \/ ToggleWatch \/ ToggleRules \/ Orphan
  <2>1. /\ UNCHANGED <<task, marker, history, outcome>>
        /\ alive' = alive /\ threat' = threat /\ listed' = listed
    BY <1>20 DEF StoreChange, ToggleWatch, ToggleRules, Orphan, row, world
  <2> QED BY <1>0, <1>t, <2>1, QuietInv DEF IInv
<1>21. CASE Delete
  <2>1. /\ UNCHANGED <<task, history, outcome>> /\ marker' = {} /\ ~alive'
        /\ threat' = threat /\ listed' = listed
    BY <1>21 DEF Delete, world
  <2>2. MarkerInv' /\ NoEventLost' /\ LoggedWereSent' /\ OnlyCommittedFired'
    BY <2>1 DEF IInv, MarkerInv, NoEventLost, LoggedWereSent, OnlyCommittedFired, history, outcome,
                _parse_pending_events
  <2> QED BY <1>0, <1>t, <2>1, <2>2 DEF IInv
<1>22. CASE Crash
  <2>1. /\ task' = [t \in Tasks |-> Idle] /\ UNCHANGED <<marker, history, outcome>>
        /\ alive' = alive /\ threat' = threat /\ listed' = listed
    BY <1>22 DEF Crash, row, world
  <2>2. TasksInv'
    BY <2>1, IdleInv DEF TasksInv
  <2> QED BY <1>0, <2>1, <2>2, QuietInv DEF IInv
<1>23. CASE UNCHANGED vars
  BY <1>0, <1>t, <1>23, QuietInv DEF vars, row, world, IInv
<1> QED
  BY <1>1, <1>2, <1>3, <1>4, <1>5, <1>6, <1>7, <1>8, <1>9, <1>10, <1>11, <1>12, <1>13, <1>14,
     <1>15, <1>16, <1>17, <1>18, <1>19, <1>20, <1>21, <1>22, <1>23
  DEF Next, Step, Refresh, Deliver, Environment

(* No committed change is lost, and the alert log and the senders never    *)
(* run ahead of the database: in every reachable state of the pipeline the *)
(* content of every detected event is recorded, dismissed or pending as    *)
(* long as the row exists (fire_pending_alerts, recover_pending_alerts).   *)
THEOREM NothingLost == Spec => [](NoEventLost /\ LoggedWereSent /\ OnlyCommittedFired)
<1>1. IInv => NoEventLost /\ LoggedWereSent /\ OnlyCommittedFired
  BY DEF IInv
<1> QED BY <1>1, InitInv, InvStep, PTL DEF Spec

(* No step of any task takes a threat match back from an existing row: a   *)
(* refresh overtaken by an ingestion stores the match it finds under lock. *)
THEOREM MatchNeverErased == Spec => ThreatSticks
<1>1. IInv /\ [Next]_vars => [threat /\ alive' => threat']_vars
  <2> SUFFICES ASSUME IInv, Next, threat, alive' PROVE threat'
    BY DEF vars, row
  <2>1. listed
    BY DEF IInv
  <2> QED
    BY <2>1 DEF Next, StartCycle, recover_pending_alerts, StartManual, Ingest, NeighbourPosture,
       Step, Refresh, Deliver, Environment, PostureSkip, apply_existing_threat_posture, Fetch, Store,
       StoreFail, Reload, Dismiss, Match, Send, Log, LogFail, _ack_pending_events,
       _clear_pending_alerts, AckFail, StoreChange, ToggleWatch, ToggleRules, Orphan, Delete, Crash,
       apply_threat_matches, _threat_entries, row
<1> QED BY <1>1, InitInv, InvStep, PTL DEF Spec, ThreatSticks

(* The marker never holds an event twice: a merge appends only events that *)
(* are not in it, every other step leaves a part of it.                    *)
THEOREM NoEventTwice == Spec => []MarkerDistinct
<1>1. Init => MarkerDistinct
  BY DEF Init, MarkerDistinct, Junk, ThreatEvent
<1>2. ASSUME MarkerDistinct, NEW E, marker' = Merged(E) PROVE MarkerDistinct'
  <2> SUFFICES ASSUME NEW m \in marker', NEW n \in marker', m.ev = n.ev PROVE m = n
    BY DEF MarkerDistinct
  <2>1. CASE m \in Appended(E) /\ n \in Appended(E)
    BY <2>1 DEF Appended, Stamped
  <2>2. CASE m \in Appended(E) /\ n \in _parse_pending_events(marker)
    BY <2>2 DEF Appended, Content
  <2>3. CASE m \in _parse_pending_events(marker) /\ n \in Appended(E)
    BY <2>3 DEF Appended, Content
  <2>4. CASE m \in _parse_pending_events(marker) /\ n \in _parse_pending_events(marker)
    BY <1>2, <2>4 DEF MarkerDistinct, _parse_pending_events
  <2> QED BY <1>2, <2>1, <2>2, <2>3, <2>4 DEF Merged
<1>3. [Next]_vars => marker' \subseteq marker \/ \E E : marker' = Merged(E)
  <2>1. \A r \in Requests : Ingest(r) => marker' = marker \/ \E E : marker' = Merged(E)
    BY DEF Ingest, apply_threat_matches, _merge_pending_events
  <2>2. \A t \in Tasks : Refresh(t) => marker' = marker \/ \E E : marker' = Merged(E)
    BY DEF Refresh, PostureSkip, apply_existing_threat_posture, Fetch, Store, StoreFail,
           apply_threat_matches, _merge_pending_events, row
  <2>3. \A t \in Tasks : Deliver(t) => marker' \subseteq marker
    BY DEF Deliver, Reload, Dismiss, Match, Send, Log, LogFail, _ack_pending_events,
           _clear_pending_alerts, AckFail, Unacknowledged, _parse_pending_events, row
  <2>4. Environment => marker' \subseteq marker \/ \E E : marker' = Merged(E)
    BY DEF Environment, NeighbourPosture, StoreChange, ToggleWatch, ToggleRules, Orphan, Delete,
           Crash, apply_threat_matches, _merge_pending_events, row
  <2> QED
    BY <2>1, <2>2, <2>3, <2>4
    DEF Next, StartCycle, recover_pending_alerts, StartManual, Step, row, vars
<1>4. MarkerDistinct /\ [Next]_vars => MarkerDistinct'
  BY <1>2, <1>3 DEF MarkerDistinct
<1> QED BY <1>1, <1>4, PTL DEF Spec

-----------------------------------------------------------------------------
(* The refinement.                                                         *)

(* A merge commits the detected events and makes them pending.             *)
LEMMA MergeCommits ==
    ASSUME IInv, alive, alive' = alive, NEW E \in SUBSET ChangeEvents,
           _merge_pending_events(E), UNCHANGED outcome
    PROVE  Promise!Next
<1> USE DEF _merge_pending_events
<1> DEFINE entry(e) == [ev |-> e, at |-> clock + 1]
<1>0. \A e : entry(e).ev = e
  OBVIOUS
<1> HIDE DEF entry
<1>a. Stamped(E) = {entry(e) : e \in E}
  BY DEF entry, Stamped
<1>1. Content(occurred') = Content(occurred) \cup E
  BY <1>0, <1>a DEF Content
<1>2. Content(_parse_pending_events(marker')) = Content(_parse_pending_events(marker)) \cup E
  <2>1. _parse_pending_events(marker') = _parse_pending_events(marker) \cup Appended(E)
    BY JunkIsNoEvent DEF Appended, Merged, Stamped, _parse_pending_events
  <2>2. Content(Appended(E)) = E \ Content(_parse_pending_events(marker))
    <3>1. Appended(E) = {entry(e) : e \in E \ Content(_parse_pending_events(marker))}
      BY <1>0, <1>a DEF Appended
    <3> QED BY <1>0, <3>1 DEF Content
  <2> QED BY <2>1, <2>2 DEF Content
<1> QED
  BY <1>1, <1>2 DEF Promise!Next, Promise!Commit, outcome

(* Whatever leaves the marker when its events are handled is forgotten.    *)
LEMMA HandledForgotten ==
    ASSUME IInv, UNCHANGED <<alive, history, outcome>>, marker' \subseteq marker,
           \A m \in marker \ marker' : m.ev = Junk \/ m.ev \in Content(handled)
    PROVE  Promise!Next
<1> DEFINE E == Content(_parse_pending_events(marker)) \ Content(_parse_pending_events(marker'))
<1>1. E \in SUBSET ChangeEvents
  BY DEF IInv, MarkerInv, Content
<1>2. E \subseteq Content(logged) \cup Content(dismissed)
  <2> SUFFICES ASSUME NEW e \in E PROVE e \in Content(logged) \cup Content(dismissed)
    OBVIOUS
  <2>1. PICK m \in _parse_pending_events(marker) : m.ev = e
    BY DEF Content
  <2>2. m \in marker \ marker' /\ m.ev # Junk
    BY <2>1 DEF Content, _parse_pending_events
  <2> QED BY <2>1, <2>2 DEF Content, handled
<1>3. Content(_parse_pending_events(marker')) = Content(_parse_pending_events(marker)) \ E
  BY DEF Content, _parse_pending_events
<1>4. Promise!Forget(E)
  BY <1>2, <1>3 DEF Promise!Forget, history, outcome
<1> QED
  BY <1>1, <1>4 DEF Promise!Next

(* A step that leaves existence, marker and histories alone is none.       *)
LEMMA QuietStutters ==
    ASSUME UNCHANGED <<alive, marker, history, outcome>>
    PROVE  UNCHANGED Promise!vars
BY DEF Promise!vars, history, outcome

(* Every step of the pipeline is a step of Outbox, or none.                *)
LEMMA RefinementStep == IInv /\ [Next]_vars => [Promise!Next]_(Promise!vars)
<1> SUFFICES ASSUME IInv, [Next]_vars PROVE Promise!Next \/ UNCHANGED Promise!vars
  OBVIOUS
<1>0. TypeOK /\ TasksInv
  BY DEF IInv
<1>1. CASE StartCycle \/ recover_pending_alerts
  BY <1>1, QuietStutters DEF StartCycle, recover_pending_alerts, row
<1>2. ASSUME NEW r \in Requests, StartManual(r) PROVE UNCHANGED Promise!vars
  BY <1>2, QuietStutters DEF StartManual, row
<1>3. detect_changes(val, val, threat, TRUE) \in SUBSET ChangeEvents
  BY <1>0, DetectType DEF TypeOK
<1>4. ASSUME NEW r \in Requests, Ingest(r) PROVE Promise!Next \/ UNCHANGED Promise!vars
  <2>1. CASE alive
    BY <1>3, <1>4, <2>1, MergeCommits DEF Ingest, apply_threat_matches
  <2>2. CASE ~alive
    BY <1>4, <2>2, QuietStutters DEF Ingest
  <2> QED BY <2>1, <2>2
<1>5. CASE NeighbourPosture
  BY <1>3, <1>5, MergeCommits DEF NeighbourPosture, apply_threat_matches
<1>6. ASSUME NEW t \in Tasks, apply_existing_threat_posture(t)
      PROVE  Promise!Next \/ UNCHANGED Promise!vars
  <2>1. CASE listed
    BY <1>3, <1>6, <2>1, MergeCommits DEF apply_existing_threat_posture, apply_threat_matches
  <2>2. CASE ~listed
    BY <1>6, <2>2, QuietStutters DEF apply_existing_threat_posture
  <2> QED BY <2>1, <2>2
<1>7. ASSUME NEW t \in Tasks, Store(t) PROVE Promise!Next
  <2>1. Kept(task[t].got) \in Vals \cup {NoVal}
    BY <1>0 DEF Kept, TypeOK, TaskStates
  <2>2. detect_changes(val, Kept(task[t].got), threat, _threat_entries) \in SUBSET ChangeEvents
    BY <1>0, <2>1, DetectType DEF _threat_entries, TypeOK
  <2> QED BY <1>7, <2>2, MergeCommits DEF Store
<1>8. ASSUME NEW t \in Tasks,
             PostureSkip(t) \/ Fetch(t) \/ StoreFail(t) \/ Reload(t) \/ Match(t) \/ LogFail(t) \/ AckFail(t)
      PROVE  UNCHANGED Promise!vars
  BY <1>8, QuietStutters DEF PostureSkip, Fetch, StoreFail, Reload, Match, LogFail, AckFail, row
<1>9. ASSUME NEW t \in Tasks, Dismiss(t) PROVE Promise!Next
  <2>1. Content(task[t].own) \subseteq Content(occurred)
    BY <1>0 DEF TasksInv, TaskInv, Content
  <2>2. Content(task[t].own) \in SUBSET ChangeEvents
    BY <2>1 DEF IInv, MarkerInv
  <2>3. Content(dismissed') = Content(dismissed) \cup Content(task[t].own)
    BY <1>9 DEF Dismiss, Content
  <2>4. Promise!Waive(Content(task[t].own))
    BY <1>9, <2>1, <2>3 DEF Promise!Waive, Dismiss, row, history
  <2> QED BY <2>2, <2>4 DEF Promise!Next
<1>10. ASSUME NEW t \in Tasks, Send(t) PROVE Promise!Next
  <2>1. PICK m \in task[t].todo : sent' = sent \cup {m}
    BY <1>10 DEF Send
  <2>2. m \in occurred
    BY <1>0, <2>1 DEF TasksInv, TaskInv
  <2>3. m.ev \in Content(occurred) /\ m.ev \in ChangeEvents
    BY <2>2 DEF IInv, MarkerInv, Content
  <2>4. Content(sent') = Content(sent) \cup {m.ev}
    BY <2>1 DEF Content
  <2>5. Promise!Tell(m.ev)
    BY <1>10, <2>3, <2>4 DEF Promise!Tell, Send, row, history
  <2> QED BY <2>3, <2>5 DEF Promise!Next
<1>11. ASSUME NEW t \in Tasks, Log(t) PROVE Promise!Next
  <2>1. task[t].own \subseteq sent /\ task[t].own \subseteq occurred
    BY <1>0, <1>11 DEF Log, TasksInv, TaskInv
  <2>2. Content(task[t].own) \subseteq Content(sent) /\ Content(task[t].own) \in SUBSET ChangeEvents
    BY <2>1 DEF IInv, MarkerInv, Content
  <2>3. Content(logged') = Content(logged) \cup Content(task[t].own)
    BY <1>11 DEF Log, Content
  <2>4. Promise!Record(Content(task[t].own))
    BY <1>11, <2>2, <2>3 DEF Promise!Record, Log, row, history
  <2> QED BY <2>2, <2>4 DEF Promise!Next
<1>12. ASSUME NEW t \in Tasks, _ack_pending_events(t) PROVE Promise!Next
  <2>1. \A m \in marker \ marker' : m.ev = Junk \/ m.ev \in Content(handled)
    BY <1>0, <1>12, AckHandled
  <2>2. marker' \subseteq marker
    BY <1>12 DEF _ack_pending_events, Unacknowledged, _parse_pending_events
  <2> QED BY <1>12, <2>1, <2>2, HandledForgotten DEF _ack_pending_events
<1>13. ASSUME NEW t \in Tasks, _clear_pending_alerts(t) PROVE Promise!Next
  <2>1. \A m \in marker \ marker' : m.ev = Junk \/ m.ev \in Content(handled)
    BY <1>0, <1>13, ClearHandled
  <2>2. marker' \subseteq marker
    BY <1>13 DEF _clear_pending_alerts
  <2> QED BY <1>13, <2>1, <2>2, HandledForgotten DEF _clear_pending_alerts
<1>14. CASE StoreChange \/ ToggleWatch \/ ToggleRules \/ Orphan \/ Crash
  BY <1>14, QuietStutters DEF StoreChange, ToggleWatch, ToggleRules, Orphan, Crash, row
<1>15. CASE Delete
  <2>1. Content(_parse_pending_events(marker')) = {}
    BY <1>15 DEF Delete, Content, _parse_pending_events
  <2> QED BY <1>15, <2>1 DEF Delete, Promise!Next, Promise!Close, history, outcome
<1>16. CASE UNCHANGED vars
  BY <1>16, QuietStutters DEF vars, row
<1> QED
  BY <1>1, <1>2, <1>4, <1>5, <1>6, <1>7, <1>8, <1>9, <1>10, <1>11, <1>12, <1>13, <1>14, <1>15, <1>16
  DEF Next, Step, Refresh, Deliver, Environment

(* The pending-alert protocol keeps the promise of Outbox, whatever the    *)
(* number of tasks, versions, edits, faults and crashes: changes become    *)
(* pending with their commit, are told at least once, and leave the marker *)
(* only when on record as told or waived for want of a rule.               *)
THEOREM ImplementsOutbox == Spec => KeepsPromise
<1>1. Init => Promise!Init
  <2> SUFFICES ASSUME Init PROVE Promise!Init
    OBVIOUS
  <2>1. Content(occurred) \in SUBSET ChangeEvents
    BY DEF Init, Content, ThreatEvent, ChangeEvents
  <2>2. Content(_parse_pending_events(marker)) = Content(occurred)
    <3>1. _parse_pending_events(marker) = occurred
      BY DEF Init, _parse_pending_events, Junk, ThreatEvent
    <3> QED BY <3>1
  <2>3. Content(sent) = {} /\ Content(logged) = {} /\ Content(dismissed) = {}
    BY DEF Init, Content
  <2> QED BY <2>1, <2>2, <2>3 DEF Promise!Init, Init
<1> QED BY <1>1, InitInv, InvStep, RefinementStep, PTL DEF Spec, KeepsPromise, Promise!Spec

=============================================================================
