---------------------------- MODULE SignOnProofs -----------------------------
(***************************************************************************)
(* Proofs about SignOn for any number of requests, accounts, providers and *)
(* claims.                                                                 *)
(*                                                                         *)
(* The invariants are not inductive as they stand.  That an administrator  *)
(* remains needs what a deletion under way knows of the account that acts  *)
(* (ActingAt): it was an administrator when it was let in, and from the    *)
(* audit row on it cannot be deleted.  That a callback signs in to its own *)
(* account needs the same of the steps before (ResolvedAt), and that the   *)
(* table only changes in ways that keep it (Keeps).                        *)
(***************************************************************************)
EXTENDS SignOn, TLAPS

ReqOK(r) ==
    /\ r.pc \in CallbackPCs => r.req \in Claims
    /\ r.pc = "create" => r.req \in Forms

(* A deletion has another account as its target, was let in as an          *)
(* administrator, and holds its account from its audit row on.             *)
ActingAt(r) ==
    r.pc \in {"audit", "delete"} =>
        /\ r.actor \in Ids /\ r.user \in Ids
        /\ r.user # r.actor
        /\ users[r.user].st # "unused" /\ users[r.actor].st # "unused"
        /\ demoted \/ users[r.actor].role = "admin"
        /\ r.pc = "delete" => users[r.actor].st = "live"

(* A callback that has its account has the account of its claim.           *)
ResolvedAt(r) ==
    r.pc \in {"owner", "email", "cookie"} =>
        /\ r.user \in Ids
        /\ users[r.user].st # "unused"
        /\ users[r.user].provider = r.req.provider
        /\ users[r.user].ident = r.req.ident
        /\ r.req.tenant # None => users[r.user].tenant = r.req.tenant

RequestsOK == \A t \in Tasks : ActingAt(task[t]) /\ ResolvedAt(task[t])

(* An administrator remains whether or not requests are served.            *)
AdminSeeded == (up \/ nextId > 1) /\ ~demoted => \E u \in Ids : Admin(u)

(* Nothing is recorded about an account before it is inserted.             *)
TrailStarts == \A u \in Ids : users[u].st = "unused" => trail[u].made = 0

(* Requests run while the process serves.                                  *)
Served == \A t \in Tasks : task[t].pc # "idle" => up

IInv ==
    /\ TypeOK /\ RequestsOK /\ Served /\ AdminSeeded
    /\ OneAccountEach /\ TrailStarts /\ TrailExplains

(* What every change of the table keeps of an account that exists.         *)
Keeps ==
    /\ demoted => demoted'
    /\ \A u \in Ids : users[u].st # "unused" =>
        /\ users'[u].st # "unused"
        /\ users'[u].provider = users[u].provider
        /\ users'[u].ident = users[u].ident
        /\ users[u].tenant # None => users'[u].tenant = users[u].tenant
        /\ users[u].role = "admin" => demoted' \/ users'[u].role = "admin"

-----------------------------------------------------------------------------
(* A request that is over owes nothing.                                    *)
LEMMA IdleOK ==
    /\ Idle \in TaskStates /\ ReqOK(Idle) /\ ActingAt(Idle) /\ ResolvedAt(Idle)
BY DEF Idle, TaskStates, PCs, ReqOK, CallbackPCs, ActingAt, ResolvedAt

(* The type of the requests after one of them moves.                       *)
LEMMA TaskType ==
    ASSUME TypeOK, NEW t \in Tasks, NEW r \in TaskStates, ReqOK(r),
           task' = [task EXCEPT ![t] = r]
    PROVE  /\ task' \in [Tasks -> TaskStates]
           /\ \A o \in Tasks : task'[o].pc \in CallbackPCs => task'[o].req \in Claims
           /\ \A o \in Tasks : task'[o].pc = "create" => task'[o].req \in Forms
BY DEF TypeOK, ReqOK

(* A request moves and the table stays.                                    *)
LEMMA QuietStep ==
    ASSUME IInv, NEW t \in Tasks, NEW r \in TaskStates,
           ReqOK(r), ActingAt(r), ResolvedAt(r),
           task' = [task EXCEPT ![t] = r],
           up, UNCHANGED <<up, users, nextId, trail, demoted>>
    PROVE  IInv'
<1>1. TypeOK'
  BY TaskType DEF IInv, TypeOK
<1>2. RequestsOK'
  <2> SUFFICES ASSUME NEW o \in Tasks PROVE (ActingAt(task[o]) /\ ResolvedAt(task[o]))'
    BY DEF RequestsOK
  <2>1. task'[o] = r \/ task'[o] = task[o]
    BY DEF IInv, TypeOK
  <2>2. ActingAt(task'[o]) /\ ResolvedAt(task'[o])
    BY <2>1 DEF IInv, RequestsOK
  <2>3. UNCHANGED <<users, demoted>>
    OBVIOUS
  <2> QED BY ONLY <2>2, <2>3 DEF ActingAt, ResolvedAt
<1>3. (Served /\ AdminSeeded /\ OneAccountEach /\ TrailStarts /\ TrailExplains)'
  BY DEF IInv, Served, AdminSeeded, Admin, Live, OneAccountEach, Sso, TrailStarts,
         TrailExplains
<1> QED
  BY <1>1, <1>2, <1>3 DEF IInv

(* A request moves and the table changes: the other requests stay right if *)
(* no account is deleted under one that acts with it.                      *)
LEMMA TableStep ==
    ASSUME IInv, NEW t \in Tasks, NEW r \in TaskStates,
           task' = [task EXCEPT ![t] = r],
           Keeps, ActingAt(r)', ResolvedAt(r)',
           \A o \in Tasks \ {t} : task[o].pc = "delete" => users'[task[o].actor].st = "live"
    PROVE  RequestsOK'
<1> SUFFICES ASSUME NEW o \in Tasks
             PROVE  (ActingAt(task[o]) /\ ResolvedAt(task[o]))'
  BY DEF RequestsOK
<1>1. CASE o = t
  BY <1>1 DEF IInv, TypeOK, ActingAt, ResolvedAt
<1>2. CASE o # t
  <2>1. task'[o] = task[o] /\ ActingAt(task[o]) /\ ResolvedAt(task[o])
    BY <1>2 DEF IInv, TypeOK, RequestsOK
  <2>2. ActingAt(task[o])'
    BY <1>2, <2>1 DEF ActingAt, Keeps
  <2>3. ResolvedAt(task[o])'
    BY <2>1 DEF ResolvedAt, Keeps
  <2> QED
    BY <2>2, <2>3
<1> QED
  BY <1>1, <1>2

(* The table after an insert.                                              *)
LEMMA AddRowEffect ==
    ASSUME IInv, NEW row \in Rows, row.st = "live", AddRow(row), demoted' = demoted,
           row.ident # None => ~IdentTaken(row.ident) /\ ~SsoEmailTaken(row.email, NoId)
    PROVE  /\ nextId \in Ids /\ users'[nextId] = row /\ users[nextId].st = "unused"
           /\ nextId' \in 1..(MaxUsers + 1) /\ nextId' > 1
           /\ users' \in [Ids -> Rows]
           /\ \A u \in Ids : users'[u].st = "unused" <=> u >= nextId'
           /\ trail' \in [Ids -> [made : Nat, role : Roles, gone : BOOLEAN]]
           /\ Keeps
           /\ \A u \in Ids : u # nextId => users'[u] = users[u]
           /\ (OneAccountEach /\ TrailStarts /\ TrailExplains)'
<1>1. nextId \in Ids /\ nextId \in Nat /\ MaxUsers \in Nat /\ nextId' = nextId + 1
  BY ConstantsAssumption DEF IInv, TypeOK, AddRow, Ids
<1>2. /\ users' = [users EXCEPT ![nextId] = row]
      /\ trail' = [trail EXCEPT ![nextId] = [made |-> @.made + 1, role |-> row.role,
                                             gone |-> FALSE]]
  BY DEF AddRow
<1>3. users[nextId].st = "unused" /\ trail[nextId].made = 0
  BY <1>1 DEF IInv, TypeOK, TrailStarts
<1>4. users'[nextId] = row /\ users' \in [Ids -> Rows]
  BY <1>1, <1>2 DEF IInv, TypeOK
<1>5. \A u \in Ids : u # nextId => users'[u] = users[u] /\ trail'[u] = trail[u]
  BY <1>2 DEF IInv, TypeOK
<1>6. nextId' \in 1..(MaxUsers + 1) /\ nextId' > 1
  BY <1>1 DEF Ids
<1>7. ASSUME NEW u \in Ids PROVE users'[u].st = "unused" <=> u >= nextId'
  BY <1>1, <1>4, <1>5 DEF Ids, IInv, TypeOK
<1>8. row.role \in Roles
  BY DEF Rows
<1>9. /\ trail'[nextId] = [made |-> 1, role |-> row.role, gone |-> FALSE]
      /\ trail' \in [Ids -> [made : Nat, role : Roles, gone : BOOLEAN]]
  BY <1>1, <1>2, <1>3, <1>8 DEF IInv, TypeOK
<1>10. Keeps
  BY <1>3, <1>5 DEF Keeps
<1>11. TrailStarts' /\ TrailExplains'
  BY <1>4, <1>5, <1>9 DEF TrailStarts, TrailExplains, IInv
<1>12. OneAccountEach'
  <2> SUFFICES ASSUME NEW u \in Live', NEW v \in Live',
                      users'[u].ident # None, users'[v].ident # None, u # v
               PROVE  users'[u].email # users'[v].email /\ users'[u].ident # users'[v].ident
    BY DEF OneAccountEach, Sso
  <2>1. CASE u # nextId /\ v # nextId
    BY <1>5, <2>1 DEF IInv, OneAccountEach, Sso, Live
  <2>2. NoId \notin Ids
    BY <1>1 DEF NoId, Ids
  <2>3. CASE u = nextId
    BY <1>4, <1>5, <2>2, <2>3 DEF Live, IdentTaken, SsoEmailTaken, Sso
  <2>4. CASE v = nextId
    BY <1>4, <1>5, <2>2, <2>4 DEF Live, IdentTaken, SsoEmailTaken, Sso
  <2> QED
    BY <2>1, <2>3, <2>4
<1> QED
  BY <1>1, <1>3, <1>4, <1>5, <1>6, <1>7, <1>9, <1>10, <1>11, <1>12

(* A request that inserts an account.                                      *)
LEMMA InsertStep ==
    ASSUME IInv, NEW t \in Tasks, NEW r \in TaskStates, ReqOK(r),
           task' = [task EXCEPT ![t] = r],
           NEW row \in Rows, row.st = "live", AddRow(row), UNCHANGED <<up, demoted>>,
           row.ident # None => ~IdentTaken(row.ident) /\ ~SsoEmailTaken(row.email, NoId),
           up,
           r = Idle \/ ( /\ r.pc = "cookie" /\ r.user = nextId
                         /\ row.provider = r.req.provider /\ row.ident = r.req.ident
                         /\ row.tenant = r.req.tenant )
    PROVE  IInv'
<1>1. /\ nextId \in Ids /\ users'[nextId] = row /\ users[nextId].st = "unused"
      /\ nextId' \in 1..(MaxUsers + 1) /\ nextId' > 1
      /\ users' \in [Ids -> Rows]
      /\ \A u \in Ids : users'[u].st = "unused" <=> u >= nextId'
      /\ trail' \in [Ids -> [made : Nat, role : Roles, gone : BOOLEAN]]
      /\ Keeps
      /\ \A u \in Ids : u # nextId => users'[u] = users[u]
      /\ (OneAccountEach /\ TrailStarts /\ TrailExplains)'
  BY AddRowEffect
<1>2. TypeOK'
  BY <1>1, TaskType DEF IInv, TypeOK
<1>3. ActingAt(r)' /\ ResolvedAt(r)'
  BY <1>1 DEF ActingAt, ResolvedAt, Idle
<1>4. \A o \in Tasks \ {t} : task[o].pc = "delete" => users'[task[o].actor].st = "live"
  BY <1>1 DEF IInv, RequestsOK, ActingAt
<1>5. RequestsOK'
  BY <1>1, <1>3, <1>4, TableStep
<1>6. AdminSeeded'
  <2> SUFFICES ASSUME ~demoted PROVE \E u \in Ids : Admin(u)'
    BY DEF AdminSeeded
  <2>1. PICK u \in Ids : Admin(u)
    BY DEF IInv, AdminSeeded
  <2>2. u # nextId
    BY <1>1, <2>1 DEF Admin, Live
  <2> QED
    BY <1>1, <2>1, <2>2 DEF Admin, Live
<1> QED
  BY <1>1, <1>2, <1>5, <1>6 DEF IInv, Served

-----------------------------------------------------------------------------
(* The empty table.                                                        *)
LEMMA InitInv == Init => IInv
<1> SUFFICES ASSUME Init PROVE IInv
  OBVIOUS
<1>1. Unused \in Rows
  BY DEF Unused, Rows, Roles
<1>2. TypeOK
  <2>1. users \in [Ids -> Rows] /\ task \in [Tasks -> TaskStates]
    BY <1>1, IdleOK DEF Init
  <2>2. trail \in [Ids -> [made : Nat, role : Roles, gone : BOOLEAN]]
    BY DEF Init, Roles
  <2>3. nextId \in 1..(MaxUsers + 1) /\ \A u \in Ids : users[u].st = "unused" <=> u >= nextId
    BY ConstantsAssumption DEF Init, Unused, Ids
  <2>4. \A t \in Tasks : task[t].pc = "idle"
    BY DEF Init, Idle
  <2> QED
    BY <2>1, <2>2, <2>3, <2>4 DEF Init, TypeOK, CallbackPCs
<1>3. RequestsOK
  BY IdleOK DEF Init, RequestsOK
<1>4. Served /\ AdminSeeded
  BY DEF Init, Served, AdminSeeded, Idle
<1>5. OneAccountEach /\ TrailStarts /\ TrailExplains
  BY DEF Init, OneAccountEach, TrailStarts, TrailExplains, Live, Unused
<1> QED
  BY <1>2, <1>3, <1>4, <1>5 DEF IInv

(* Startup, with and without accounts.                                     *)
LEMMA SeedStep == IInv /\ seed_admin => IInv'
<1> SUFFICES ASSUME IInv, seed_admin PROVE IInv'
  OBVIOUS
<1>1. CASE Live # {} /\ UNCHANGED <<users, nextId, trail>>
  <2>1. UNCHANGED <<task, demoted>> /\ up' = TRUE
    BY DEF seed_admin
  <2>2. TypeOK'
    BY <1>1, <2>1 DEF IInv, TypeOK
  <2>3. RequestsOK'
    BY <1>1, <2>1 DEF IInv, RequestsOK, ActingAt, ResolvedAt
  <2>4. nextId > 1
    BY <1>1 DEF IInv, TypeOK, Live, Ids
  <2> QED
    BY <1>1, <2>1, <2>2, <2>3, <2>4 DEF IInv, Served, AdminSeeded, Admin, Live,
       OneAccountEach, Sso, TrailStarts, TrailExplains
<1>2. CASE Live = {} /\ AddRow(SeedRow)
  <2>1. UNCHANGED <<task, demoted>> /\ up' = TRUE
    BY DEF seed_admin
  <2>2. SeedRow \in Rows /\ SeedRow.st = "live" /\ SeedRow.role = "admin"
        /\ SeedRow.ident = None
    BY ConstantsAssumption DEF SeedRow, Unused, Rows, Roles
  <2>3. /\ nextId \in Ids /\ users'[nextId] = SeedRow
        /\ nextId' \in 1..(MaxUsers + 1)
        /\ users' \in [Ids -> Rows]
        /\ \A u \in Ids : users'[u].st = "unused" <=> u >= nextId'
        /\ trail' \in [Ids -> [made : Nat, role : Roles, gone : BOOLEAN]]
        /\ Keeps
        /\ \A u \in Ids : u # nextId => users'[u] = users[u]
        /\ (OneAccountEach /\ TrailStarts /\ TrailExplains)'
    BY <1>2, <2>1, <2>2, AddRowEffect
  <2>4. TypeOK'
    BY <2>1, <2>3 DEF IInv, TypeOK
  <2>5. \A t \in Tasks : task[t].pc = "idle"
    BY DEF IInv, Served, seed_admin
  <2>6. RequestsOK' /\ Served'
    BY <2>1, <2>5 DEF RequestsOK, ActingAt, ResolvedAt, Served
  <2>7. AdminSeeded'
    BY <2>2, <2>3 DEF AdminSeeded, Admin, Live
  <2> QED
    BY <2>3, <2>4, <2>6, <2>7 DEF IInv
<1> QED
  BY <1>1, <1>2 DEF seed_admin

(* The process ends.                                                       *)
LEMMA ShutdownStep == IInv /\ Shutdown => IInv'
<1> SUFFICES ASSUME IInv, Shutdown PROVE IInv'
  OBVIOUS
<1>1. TypeOK'
  BY IdleOK DEF IInv, TypeOK, Shutdown, ReqOK
<1>2. RequestsOK' /\ Served'
  BY DEF Shutdown, RequestsOK, Served, Idle, ActingAt, ResolvedAt
<1> QED
  BY <1>1, <1>2 DEF Shutdown, IInv, AdminSeeded, Admin, Live, OneAccountEach, Sso,
     TrailStarts, TrailExplains

-----------------------------------------------------------------------------
(* Claims and roles.                                                       *)
LEMMA ClaimType ==
    ASSUME NEW who \in Claims
    PROVE  /\ who.provider \in Providers /\ who.ident \in Idents /\ who.email \in Emails
           /\ who.tenant \in Tenants \cup {None}
           /\ who.ident # None /\ who.provider # Local
           /\ map_role(who) \in Roles
<1>1. who \in [provider : Providers, ident : Idents, email : Emails,
               verified : BOOLEAN, groups : SUBSET Groups, tenant : Tenants \cup {None}]
  BY ConstantsAssumption
<1>2. map_role(who) \in Roles
  BY DEF map_role, Roles
<1> QED
  BY <1>1, <1>2, ConstantsAssumption

(* The JIT insert, at either width of the name.                            *)
LEMMA ProvisionStep ==
    ASSUME IInv, NEW t \in Tasks, task[t].pc \in {"insert", "wide"},
           ~Violates(task[t].req, task[t].name), Provisioned(t), UNCHANGED <<up, demoted>>
    PROVE  IInv'
<1> DEFINE row == JitRow(task[t].req, task[t].name)
<1> DEFINE r == [task[t] EXCEPT !.pc = "cookie", !.user = nextId, !.name = None]
<1>1. task[t] \in TaskStates /\ task[t].req \in Claims /\ up
  BY DEF IInv, TypeOK, Served, CallbackPCs
<1>2. row \in Rows /\ row.st = "live" /\ row.ident = task[t].req.ident
      /\ row.email = task[t].req.email /\ row.provider = task[t].req.provider
      /\ row.tenant = task[t].req.tenant
  BY <1>1, ClaimType DEF JitRow, Rows, TaskStates
<1>3. AddRow(row) /\ task' = [task EXCEPT ![t] = r]
  BY <1>1 DEF Provisioned, IInv, TypeOK
<1>4. nextId \in Ids
  BY <1>3, ConstantsAssumption DEF AddRow, IInv, TypeOK, Ids
<1>5. r \in TaskStates /\ ReqOK(r) /\ r.pc = "cookie" /\ r.user = nextId
      /\ r.req = task[t].req
  BY <1>1, <1>4 DEF TaskStates, PCs, ReqOK
<1>6. ~IdentTaken(row.ident) /\ ~SsoEmailTaken(row.email, NoId)
  BY <1>2 DEF Violates
<1> HIDE DEF row, r
<1> QED
  BY <1>1, <1>2, <1>3, <1>5, <1>6, InsertStep

-----------------------------------------------------------------------------
(* The steps of a request that leave the table alone.                      *)
LEMMA GotoStep ==
    ASSUME IInv, NEW t \in Tasks, NEW p \in CallbackPCs \ {"owner", "email", "cookie"},
           task[t].pc \in CallbackPCs, NEW n \in Usernames \cup {None},
           task' = [task EXCEPT ![t].pc = p, ![t].name = n],
           UNCHANGED <<up, users, nextId, trail, demoted>>
    PROVE  IInv'
<1> DEFINE r == [task[t] EXCEPT !.pc = p, !.name = n]
<1>1. task[t] \in TaskStates /\ task[t].req \in Claims /\ up
  BY DEF IInv, TypeOK, Served, CallbackPCs
<1>2. task' = [task EXCEPT ![t] = r]
  BY DEF IInv, TypeOK
<1>3. r \in TaskStates /\ r.pc = p /\ r.req = task[t].req
  BY <1>1 DEF TaskStates, PCs, CallbackPCs
<1> HIDE DEF r
<1>4. ReqOK(r) /\ ActingAt(r) /\ ResolvedAt(r)
  BY <1>1, <1>3 DEF ReqOK, ActingAt, ResolvedAt, CallbackPCs
<1> QED
  BY <1>1, <1>2, <1>3, <1>4, QuietStep

(* A request ends and the table stays.                                     *)
LEMMA FinishStep ==
    ASSUME IInv, NEW t \in Tasks, Finish(t), task[t].pc # "idle",
           UNCHANGED <<up, users, nextId, trail, demoted>>
    PROVE  IInv'
BY IdleOK, QuietStep DEF Finish, Begin, IInv, Served

(* A callback with its account goes on to the address or to the response.  *)
LEMMA ResolvedStep ==
    ASSUME IInv, NEW t \in Tasks, NEW p \in {"email", "cookie"}, NEW h \in BOOLEAN,
           task[t].pc \in {"owner", "email"},
           task' = [task EXCEPT ![t].pc = p, ![t].held = h],
           UNCHANGED <<up, users, nextId, trail, demoted>>
    PROVE  IInv'
<1> DEFINE r == [task[t] EXCEPT !.pc = p, !.held = h]
<1>1. task[t] \in TaskStates /\ task[t].req \in Claims /\ up
  BY DEF IInv, TypeOK, Served, CallbackPCs
<1>2. task' = [task EXCEPT ![t] = r]
  BY DEF IInv, TypeOK
<1>3. r \in TaskStates /\ r.pc = p /\ r.req = task[t].req /\ r.user = task[t].user
  BY <1>1 DEF TaskStates, PCs
<1> HIDE DEF r
<1>4. ResolvedAt(task[t])
  BY DEF IInv, RequestsOK
<1>5. ReqOK(r) /\ ActingAt(r) /\ ResolvedAt(r)
  BY <1>1, <1>3, <1>4 DEF ReqOK, ActingAt, ResolvedAt
<1> QED
  BY <1>1, <1>2, <1>3, <1>5, QuietStep

(* An account that exists changes, but for its name and identity: tenant   *)
(* and role by a sync, the address, or its end.                            *)
Updates(t, u, row) ==
    /\ users' = [users EXCEPT ![u] = row]
    /\ users[u].st # "unused" /\ row.st # "unused"
    /\ row.provider = users[u].provider /\ row.ident = users[u].ident
    /\ users[u].tenant # None => row.tenant = users[u].tenant
    /\ users[u].role = "admin" => demoted' \/ row.role = "admin"
    /\ \/ row.st = users[u].st
       \/ \A o \in Tasks \ {t} : task[o].pc = "delete" => task[o].actor # u
    /\ row.st = "live" => users[u].st = "live"
    /\ row.st = "live" => row.email = users[u].email \/ ~SsoEmailTaken(row.email, u)
    /\ ~demoted' => \E a \in Ids : Admin(a) /\ (a = u => row.st = "live")

(* Its trail follows.                                                      *)
Recorded(u, row) ==
    /\ trail' \in [Ids -> [made : Nat, role : Roles, gone : BOOLEAN]]
    /\ \A v \in Ids \ {u} : trail'[v] = trail[v]
    /\ trail'[u].made = trail[u].made /\ trail'[u].role = row.role
    /\ trail'[u].gone <=> row.st = "gone"

(* A request that changes an account.                                      *)
LEMMA UpdateStep ==
    ASSUME IInv, NEW t \in Tasks, NEW r \in TaskStates, ReqOK(r),
           task' = [task EXCEPT ![t] = r], up, UNCHANGED <<up, nextId>>,
           demoted' \in BOOLEAN, demoted => demoted',
           NEW u \in Ids, NEW row \in Rows, Updates(t, u, row), Recorded(u, row),
           ActingAt(r)', ResolvedAt(r)'
    PROVE  IInv'
<1>1. users' \in [Ids -> Rows] /\ users'[u] = row
  BY DEF IInv, TypeOK, Updates
<1>2. \A v \in Ids \ {u} : users'[v] = users[v]
  BY DEF IInv, TypeOK, Updates
<1>3. TypeOK'
  <2>1. TypeOK
    BY DEF IInv
  <2>2. \A v \in Ids : users'[v].st = "unused" <=> v >= nextId
    <3>1. \A v \in Ids : users'[v].st = "unused" <=> users[v].st = "unused"
      BY <1>1, <1>2 DEF Updates
    <3> QED BY <2>1, <3>1 DEF TypeOK
  <2>3. trail' \in [Ids -> [made : Nat, role : Roles, gone : BOOLEAN]]
    BY DEF Recorded
  <2>4. up' \in BOOLEAN /\ nextId' = nextId /\ nextId \in 1..(MaxUsers + 1)
    BY <2>1 DEF TypeOK
  <2> QED BY <1>1, <2>1, <2>2, <2>3, <2>4, TaskType DEF TypeOK
<1>4. Keeps
  BY <1>1, <1>2 DEF Keeps, Updates
<1>5. ASSUME NEW o \in Tasks \ {t}, task[o].pc = "delete"
      PROVE  users'[task[o].actor].st = "live"
  <2>1. task[o].actor \in Ids /\ users[task[o].actor].st = "live"
    BY <1>5 DEF IInv, RequestsOK, ActingAt
  <2> QED
    BY <1>1, <1>2, <1>5, <2>1 DEF Updates
<1>6. RequestsOK'
  BY <1>4, <1>5, TableStep
<1>7. Served'
  BY DEF Served
<1>8. AdminSeeded'
  <2> SUFFICES ASSUME ~demoted' PROVE \E a \in Ids : Admin(a)'
    BY DEF AdminSeeded
  <2>1. PICK a \in Ids : Admin(a) /\ (a = u => row.st = "live")
    BY DEF Updates
  <2> QED
    BY <1>1, <1>2, <2>1 DEF Admin, Live, Updates
<1>9. TrailStarts' /\ TrailExplains'
  BY <1>1, <1>2 DEF IInv, TrailStarts, TrailExplains, Updates, Recorded
<1>10. OneAccountEach'
  <2> SUFFICES ASSUME NEW v \in Live', NEW w \in Live',
                      users'[v].ident # None, users'[w].ident # None, v # w
               PROVE  users'[v].email # users'[w].email /\ users'[v].ident # users'[w].ident
    BY DEF OneAccountEach, Sso
  <2>1. v \in Live /\ w \in Live /\ Sso(v) /\ Sso(w)
        /\ users'[v].ident = users[v].ident /\ users'[w].ident = users[w].ident
    BY <1>1, <1>2 DEF Live, Sso, Updates
  <2>2. users[v].email # users[w].email /\ users[v].ident # users[w].ident
    BY <2>1 DEF IInv, OneAccountEach
  <2>3. CASE v # u /\ w # u
    BY <1>2, <2>1, <2>2, <2>3 DEF Live
  <2>4. CASE v = u
    BY <1>1, <1>2, <2>1, <2>2, <2>4 DEF Live, SsoEmailTaken, Updates
  <2>5. CASE w = u
    BY <1>1, <1>2, <2>1, <2>2, <2>5 DEF Live, SsoEmailTaken, Updates
  <2> QED
    BY <2>3, <2>4, <2>5
<1> QED
  BY <1>3, <1>6, <1>7, <1>8, <1>9, <1>10 DEF IInv

(* Without a demotion there is an administrator, and a deletion leaves the *)
(* one that acts.                                                          *)
LEMMA AdminNow ==
    ASSUME IInv, up, ~demoted PROVE \E a \in Ids : Admin(a)
BY DEF IInv, AdminSeeded

-----------------------------------------------------------------------------
(* A returning user.                                                       *)
LEMMA MatchedStep == ASSUME IInv, NEW t \in Tasks, Matched(t) PROVE IInv'
<1> DEFINE who == task[t].req
<1>1. task[t] \in TaskStates /\ who \in Claims /\ up /\ task[t].pc # "idle"
  BY DEF IInv, TypeOK, Served, CallbackPCs, Matched
<1>2. PICK u \in Ids :
        /\ Matches(u, who) /\ ~Locked(u, t) /\ ~KeyShared(u, t)
        /\ \/ /\ OtherTenant(users[u], who)
              /\ Finish(t)
              /\ UNCHANGED <<users, trail, demoted>>
           \/ /\ ~OtherTenant(users[u], who)
              /\ users' = [users EXCEPT ![u] = Synced(users[u], who)]
              /\ trail' = RoleSynced(u, Synced(users[u], who).role)
              /\ demoted' = (demoted \/ (users[u].role = "admin" /\ Synced(users[u], who).role # "admin"))
              /\ task' = [task EXCEPT ![t].pc = "owner", ![t].user = u,
                                      ![t].held = (Synced(users[u], who) = users[u])]
  BY DEF Matched
<1>3. UNCHANGED <<up, nextId>>
  BY DEF Matched
<1>4. CASE OtherTenant(users[u], who) /\ Finish(t) /\ UNCHANGED <<users, trail, demoted>>
  BY <1>1, <1>3, <1>4, FinishStep
<1>5. ASSUME ~OtherTenant(users[u], who),
             users' = [users EXCEPT ![u] = Synced(users[u], who)],
             trail' = RoleSynced(u, Synced(users[u], who).role),
             demoted' = (demoted \/ (users[u].role = "admin" /\ Synced(users[u], who).role # "admin")),
             task' = [task EXCEPT ![t].pc = "owner", ![t].user = u,
                                  ![t].held = (Synced(users[u], who) = users[u])]
      PROVE  IInv'
  <2>1. users[u] \in Rows /\ users[u].st = "live" /\ users[u].provider = who.provider
        /\ users[u].ident = who.ident
    BY <1>2 DEF IInv, TypeOK, Matches, Live
  <2>2. map_role(who) \in Roles /\ who.tenant \in Tenants \cup {None}
    BY <1>1, ClaimType
  <2>3. PICK row \in Rows :
        /\ row = Synced(users[u], who)
        /\ row.st = "live" /\ row.email = users[u].email
        /\ row.provider = users[u].provider /\ row.ident = users[u].ident
        /\ row.tenant = IF users[u].tenant = None THEN who.tenant ELSE users[u].tenant
    <3> DEFINE q == Synced(users[u], who)
    <3>1. /\ q \in Rows /\ q.st = "live" /\ q.email = users[u].email
          /\ q.provider = users[u].provider /\ q.ident = users[u].ident
          /\ q.tenant = IF users[u].tenant = None THEN who.tenant ELSE users[u].tenant
      <4> DEFINE x == users[u]
      <4> DEFINE n == IF x.tenant = None THEN who.tenant ELSE x.tenant
      <4> DEFINE l == IF Managed(x) THEN map_role(who) ELSE x.role
      <4>1. x \in Rows /\ x.st = "live"
        BY <2>1
      <4>2. q = [x EXCEPT !.tenant = n, !.role = l]
        BY DEF Synced
      <4>3. n \in Tenants \cup {None} /\ l \in Roles
        BY <2>2, <4>1 DEF Rows
      <4> HIDE DEF q, x, n, l
      <4>4. /\ q \in Rows /\ q.st = x.st /\ q.email = x.email
            /\ q.provider = x.provider /\ q.ident = x.ident /\ q.tenant = n
        BY <4>1, <4>2, <4>3 DEF Rows
      <4> QED BY <4>1, <4>4 DEF x, n
    <3> HIDE DEF q
    <3> QED
      BY <3>1 DEF q
  <2>4. PICK r \in TaskStates :
        /\ task' = [task EXCEPT ![t] = r]
        /\ r.pc = "owner" /\ r.user = u /\ r.req = who
    <3> DEFINE h == (Synced(users[u], who) = users[u])
    <3>1. h \in BOOLEAN
      OBVIOUS
    <3> HIDE DEF h
    <3> DEFINE q == [task[t] EXCEPT !.pc = "owner", !.user = u, !.held = h]
    <3>2. task' = [task EXCEPT ![t] = q]
      BY <1>5 DEF IInv, TypeOK, h
    <3>3. q \in TaskStates /\ q.pc = "owner" /\ q.user = u /\ q.req = who
      BY <1>1, <3>1 DEF TaskStates, PCs
    <3> HIDE DEF q
    <3> QED
      BY <3>2, <3>3
  <2>6. ReqOK(r)
    BY <1>1, <2>4 DEF ReqOK
  <2>7. users' = [users EXCEPT ![u] = row] /\ users'[u] = row
    BY <1>5, <2>3 DEF IInv, TypeOK
  <2>8. /\ demoted' \in BOOLEAN
        /\ demoted => demoted'
        /\ users[u].role = "admin" => demoted' \/ row.role = "admin"
    BY <1>5, <2>3 DEF IInv, TypeOK
  <2>9. /\ trail' \in [Ids -> [made : Nat, role : Roles, gone : BOOLEAN]]
        /\ \A v \in Ids \ {u} : trail'[v] = trail[v]
        /\ trail'[u].made = trail[u].made /\ trail'[u].role = row.role
        /\ trail'[u].gone <=> row.st = "gone"
    <3>1. row.role \in Roles
      BY <2>3 DEF Rows
    <3>2. trail' = IF users[u].role = row.role THEN trail
                   ELSE [trail EXCEPT ![u].role = row.role]
      BY <1>5, <2>3 DEF RoleSynced
    <3>3. /\ trail \in [Ids -> [made : Nat, role : Roles, gone : BOOLEAN]]
          /\ trail[u].role = users[u].role /\ ~trail[u].gone
      BY <2>1 DEF IInv, TypeOK, TrailExplains
    <3> QED
      BY <2>3, <3>1, <3>2, <3>3
  <2>10. ~demoted' => \E a \in Ids : Admin(a) /\ (a = u => row.st = "live")
    <3> SUFFICES ASSUME ~demoted' PROVE \E a \in Ids : Admin(a)
      BY <2>3
    <3>1. ~demoted
      BY <2>8
    <3> QED
      BY <1>1, <3>1, AdminNow
  <2>11. ActingAt(r)'
    BY <2>4 DEF ActingAt
  <2>12. ResolvedAt(r)'
    BY <1>5, <2>1, <2>3, <2>4, <2>7 DEF ResolvedAt, OtherTenant
  <2> QED
    <3>1. Updates(t, u, row)
      BY <2>1, <2>3, <2>7, <2>8, <2>10 DEF Updates
    <3>2. Recorded(u, row)
      BY <2>9 DEF Recorded
    <3> QED
      BY <1>1, <1>3, <2>4, <2>6, <2>8, <2>11, <2>12, <3>1, <3>2, UpdateStep
<1> QED
  BY <1>2, <1>4, <1>5

(* The address.                                                            *)
LEMMA EmailStep == ASSUME IInv, NEW t \in Tasks, SyncEmail(t) PROVE IInv'
<1> DEFINE u == task[t].user
           e == task[t].req.email
<1>1. /\ task[t] \in TaskStates /\ task[t].req \in Claims /\ up /\ task[t].pc = "email"
      /\ ResolvedAt(task[t]) /\ u \in Ids /\ users[u] \in Rows
      /\ UNCHANGED <<up, nextId, trail, demoted>>
  BY DEF IInv, TypeOK, Served, CallbackPCs, SyncEmail, RequestsOK, ResolvedAt
<1>2. CASE Finish(t) /\ UNCHANGED users
  BY <1>1, <1>2, FinishStep
<1>3. CASE Signed(t) /\ UNCHANGED users
  BY <1>1, <1>3, ResolvedStep DEF Signed
<1>4. ASSUME u \in Live, ~SsoEmailTaken(e, u), users' = [users EXCEPT ![u].email = e], Signed(t)
      PROVE  IInv'
  <2>1. PICK row \in Rows :
        /\ row = [users[u] EXCEPT !.email = e]
        /\ row.st = "live" /\ users[u].st = "live" /\ row.email = e
        /\ row.provider = users[u].provider /\ row.ident = users[u].ident
        /\ row.tenant = users[u].tenant /\ row.role = users[u].role
    BY <1>1, <1>4, ClaimType DEF Rows, Live
  <2>2. users' = [users EXCEPT ![u] = row]
    BY <1>4, <2>1 DEF IInv, TypeOK
  <2>3. PICK r \in TaskStates :
        /\ task' = [task EXCEPT ![t] = r]
        /\ r.pc = "cookie" /\ r.user = u /\ r.req = task[t].req
    <3> DEFINE q == [task[t] EXCEPT !.pc = "cookie", !.held = FALSE]
    <3>1. task' = [task EXCEPT ![t] = q]
      BY <1>4 DEF Signed, IInv, TypeOK
    <3>2. q \in TaskStates /\ q.pc = "cookie" /\ q.user = u /\ q.req = task[t].req
      BY <1>1 DEF TaskStates, PCs
    <3> HIDE DEF q
    <3> QED
      BY <3>1, <3>2
  <2>4. /\ trail' \in [Ids -> [made : Nat, role : Roles, gone : BOOLEAN]]
        /\ trail'[u].role = row.role /\ (trail'[u].gone <=> row.st = "gone")
    BY <1>1, <2>1 DEF IInv, TypeOK, TrailExplains
  <2>5. users'[u] = row
    BY <1>1, <2>2 DEF IInv, TypeOK
  <2>6. ReqOK(r) /\ ActingAt(r)' /\ ResolvedAt(r)'
    BY <1>1, <2>1, <2>3, <2>5 DEF ReqOK, ActingAt, ResolvedAt
  <2>7. demoted' \in BOOLEAN /\ (~demoted' => \E a \in Ids : Admin(a))
    BY <1>1, AdminNow DEF IInv, TypeOK
  <2> QED
    <3>1. Updates(t, u, row)
      BY <1>1, <1>4, <2>1, <2>2, <2>7 DEF Updates
    <3>2. Recorded(u, row)
      BY <1>1, <2>4 DEF Recorded
    <3> QED
      BY <1>1, <2>3, <2>6, <2>7, <3>1, <3>2, UpdateStep
<1> QED
  BY <1>2, <1>3, <1>4 DEF SyncEmail

(* The end of an account: the account that acts is another one, and it is  *)
(* there and an administrator.                                             *)
LEMMA DeleteStep == ASSUME IInv, NEW t \in Tasks, DeleteCommit(t) PROVE IInv'
<1> DEFINE u == task[t].user
           a == task[t].actor
<1>1. /\ up /\ UNCHANGED <<up, nextId, demoted>>
      /\ u \in Ids /\ a \in Ids /\ u # a /\ users[u] \in Rows
      /\ users[u].st # "unused" /\ users[a].st = "live"
      /\ demoted \/ users[a].role = "admin"
  BY DEF IInv, TypeOK, Served, DeleteCommit, RequestsOK, ActingAt
<1>2. PICK row \in Rows :
      /\ row = [users[u] EXCEPT !.st = "gone"]
      /\ row.st = "gone" /\ row.role = users[u].role
      /\ row.provider = users[u].provider /\ row.ident = users[u].ident
      /\ row.tenant = users[u].tenant
  <2> DEFINE q == [users[u] EXCEPT !.st = "gone"]
  <2>1. /\ q \in Rows /\ q.st = "gone" /\ q.role = users[u].role
        /\ q.provider = users[u].provider /\ q.ident = users[u].ident
        /\ q.tenant = users[u].tenant
    BY <1>1 DEF Rows
  <2> HIDE DEF q
  <2> QED
    BY <2>1 DEF q
<1>3. users' = [users EXCEPT ![u] = row]
  BY <1>2 DEF DeleteCommit, IInv, TypeOK
<1>4. /\ trail' \in [Ids -> [made : Nat, role : Roles, gone : BOOLEAN]]
      /\ \A v \in Ids \ {u} : trail'[v] = trail[v]
      /\ trail'[u].made = trail[u].made /\ trail'[u].role = row.role
      /\ trail'[u].gone
  <2>1. /\ trail \in [Ids -> [made : Nat, role : Roles, gone : BOOLEAN]]
        /\ trail[u].role = users[u].role
    BY <1>1 DEF IInv, TypeOK, TrailExplains
  <2>2. trail' = [trail EXCEPT ![u] = [trail[u] EXCEPT !.gone = TRUE]]
    BY <2>1 DEF DeleteCommit
  <2> QED
    BY <1>1, <1>2, <2>1, <2>2
<1>5. \A o \in Tasks \ {t} : task[o].pc = "delete" => task[o].actor # u
  BY DEF DeleteCommit, KeyShared
<1>6. ~demoted => Admin(a)
  BY <1>1 DEF Admin, Live
<1>7. task' = [task EXCEPT ![t] = Idle]
  BY DEF DeleteCommit, Finish, Begin
<1>8. ActingAt(Idle)' /\ ResolvedAt(Idle)'
  BY DEF ActingAt, ResolvedAt, Idle
<1>9. demoted' \in BOOLEAN
  BY <1>1 DEF IInv, TypeOK
<1>10. ~demoted' => \E x \in Ids : Admin(x) /\ (x = u => row.st = "live")
  BY <1>1, <1>6
<1> QED
  <2>1. Updates(t, u, row)
    BY <1>1, <1>2, <1>3, <1>5, <1>10 DEF Updates
  <2>2. Recorded(u, row)
    BY <1>2, <1>4 DEF Recorded
  <2> QED
    BY <1>1, <1>7, <1>8, <1>9, <2>1, <2>2, IdleOK, UpdateStep

(* create_user.                                                            *)
LEMMA CreateStep == ASSUME IInv, NEW t \in Tasks, CreateCommit(t) PROVE IInv'
<1> DEFINE form == task[t].req
<1>1. /\ form \in Forms /\ up /\ task[t].pc # "idle" /\ UNCHANGED <<up, demoted>>
      /\ Finish(t) /\ task' = [task EXCEPT ![t] = Idle]
  BY DEF CreateCommit, IInv, TypeOK, Served, Finish, Begin
<1>2. CASE UNCHANGED <<users, nextId, trail>>
  BY <1>1, <1>2, FinishStep
<1>3. CASE AddRow(FormRow(form))
  <2>1. form \in [name : Usernames, email : Emails \cup {None}, role : Roles]
    BY <1>1, ConstantsAssumption
  <2>2. FormRow(form) \in Rows /\ FormRow(form).st = "live" /\ FormRow(form).ident = None
    BY <2>1 DEF FormRow, Unused, Rows, Roles
  <2> QED
    BY <1>1, <1>3, <2>2, IdleOK, InsertStep
<1> QED
  BY <1>2, <1>3 DEF CreateCommit

(* The requests that begin.                                                *)
LEMMA BeginStep == ASSUME IInv, NEW t \in Tasks, Request(t) PROVE IInv'
<1>1. ASSUME NEW who \in Claims, Callback(t, who) PROVE IInv'
  <2> DEFINE r == [Idle EXCEPT !.pc = "match", !.req = who]
  <2>1. r \in TaskStates /\ r.pc = "match" /\ r.req = who
    BY IdleOK DEF TaskStates, PCs
  <2>2. task' = [task EXCEPT ![t] = r] /\ up /\ UNCHANGED <<up, users, nextId, trail, demoted>>
    BY <1>1 DEF Callback, Begin, Serving
  <2> HIDE DEF r
  <2>3. ReqOK(r) /\ ActingAt(r) /\ ResolvedAt(r)
    BY <2>1 DEF ReqOK, ActingAt, ResolvedAt
  <2> QED
    BY <2>1, <2>2, <2>3, QuietStep
<1>2. ASSUME NEW a \in Ids, NEW f \in Forms, CreateUser(t, a, f) PROVE IInv'
  <2> DEFINE r == [Idle EXCEPT !.pc = "create", !.req = f, !.actor = a]
  <2>1. r \in TaskStates /\ r.pc = "create" /\ r.req = f
    BY IdleOK DEF TaskStates, PCs
  <2>2. task' = [task EXCEPT ![t] = r] /\ up /\ UNCHANGED <<up, users, nextId, trail, demoted>>
    BY <1>2 DEF CreateUser, Begin, Serving
  <2> HIDE DEF r
  <2>3. ReqOK(r) /\ ActingAt(r) /\ ResolvedAt(r)
    BY <2>1 DEF ReqOK, ActingAt, ResolvedAt, CallbackPCs
  <2> QED
    BY <2>1, <2>2, <2>3, QuietStep
<1>3. ASSUME NEW a \in Ids, NEW u \in Ids, DeleteUser(t, a, u) PROVE IInv'
  <2> DEFINE r == [Idle EXCEPT !.pc = "audit", !.user = u, !.actor = a]
  <2>1. r \in TaskStates /\ r.pc = "audit" /\ r.user = u /\ r.actor = a
    BY IdleOK DEF TaskStates, PCs
  <2>2. task' = [task EXCEPT ![t] = r] /\ up /\ UNCHANGED <<up, users, nextId, trail, demoted>>
    BY <1>3 DEF DeleteUser, Begin, Serving
  <2>3. a # u /\ users[a].st = "live" /\ users[a].role = "admin" /\ users[u].st = "live"
    BY <1>3 DEF DeleteUser, Admin, Live
  <2> HIDE DEF r
  <2>4. ReqOK(r) /\ ActingAt(r) /\ ResolvedAt(r)
    BY <2>1, <2>3 DEF ReqOK, ActingAt, ResolvedAt, CallbackPCs
  <2> QED
    BY <2>1, <2>2, <2>4, QuietStep
<1> QED
  BY <1>1, <1>2, <1>3 DEF Request

(* The audit row of a deletion.                                            *)
LEMMA AuditStep == ASSUME IInv, NEW t \in Tasks, DeleteAudit(t) PROVE IInv'
<1>1. /\ task[t].pc = "audit" /\ UNCHANGED <<up, users, nextId, trail, demoted>>
      /\ up /\ task[t] \in TaskStates /\ ActingAt(task[t])
  BY DEF DeleteAudit, IInv, TypeOK, Served, RequestsOK
<1>2. CASE Finish(t)
  BY <1>1, <1>2, FinishStep
<1>3. CASE task[t].actor \in Live /\ Goto(t, "delete")
  <2> DEFINE r == [task[t] EXCEPT !.pc = "delete"]
  <2>1. task' = [task EXCEPT ![t] = r]
    BY <1>3 DEF Goto, IInv, TypeOK
  <2>2. r \in TaskStates /\ r.pc = "delete" /\ r.user = task[t].user /\ r.actor = task[t].actor
    BY <1>1 DEF TaskStates, PCs
  <2> HIDE DEF r
  <2>3. ReqOK(r) /\ ActingAt(r) /\ ResolvedAt(r)
    BY <1>1, <1>3, <2>2 DEF ReqOK, ActingAt, ResolvedAt, CallbackPCs, Live
  <2> QED
    BY <1>1, <2>1, <2>2, <2>3, QuietStep
<1> QED
  BY <1>2, <1>3 DEF DeleteAudit

(* The steps of a first login before and between the inserts.              *)
LEMMA FirstLoginStep ==
    ASSUME IInv, NEW t \in Tasks,
           \/ Unmatched(t) \/ Checks(t) \/ ChooseName(t) \/ Insert(t) \/ Recheck(t)
           \/ InsertWide(t)
    PROVE  IInv'
<1>1. task \in [Tasks -> TaskStates] /\ task[t] \in TaskStates
      /\ task[t].name \in Usernames \cup {None}
  BY DEF IInv, TypeOK, TaskStates
<1>2. ASSUME NEW p \in CallbackPCs \ {"owner", "email", "cookie"}, Goto(t, p),
             task[t].pc \in CallbackPCs, UNCHANGED <<up, users, nextId, trail, demoted>>
      PROVE  IInv'
  <2>1. task' = [task EXCEPT ![t].pc = p, ![t].name = task[t].name]
    BY <1>1, <1>2 DEF Goto, TaskStates
  <2> QED
    BY <1>1, <1>2, <2>1, GotoStep
<1>3. ASSUME task[t].pc \in CallbackPCs
      PROVE  /\ task[t].req.email \in Usernames
             /\ \A w \in {8, 32} :
                  Derived[<<task[t].req.email, task[t].req.ident, w>>] \in Usernames
  <2>1. task[t].req \in Claims
    BY <1>3 DEF IInv, TypeOK
  <2>2. task[t].req.email \in Emails /\ task[t].req.ident \in Idents
    BY <2>1, ClaimType
  <2> QED
    BY <2>2, ConstantsAssumption
<1>4. CASE Unmatched(t)
  BY <1>2, <1>4 DEF Unmatched, CallbackPCs
<1>5. CASE Checks(t)
  BY <1>2, <1>5, FinishStep DEF Checks, CallbackPCs
<1>6. CASE ChooseName(t)
  <2>1. PICK n \in Usernames : task' = [task EXCEPT ![t].pc = "insert", ![t].name = n]
    BY <1>3, <1>6 DEF ChooseName, DeriveUsername, CallbackPCs
  <2> QED
    BY <1>6, <2>1, GotoStep DEF ChooseName, CallbackPCs
<1>7. CASE Insert(t)
  <2>1. CASE ~Violates(task[t].req, task[t].name) /\ Provisioned(t)
    BY <1>7, <2>1, ProvisionStep DEF Insert
  <2>2. CASE task' = [task EXCEPT ![t].pc = "rematch", ![t].name = None]
             /\ UNCHANGED <<users, nextId, trail>>
    BY <1>7, <2>2, GotoStep DEF Insert, CallbackPCs
  <2> QED
    BY <1>7, <2>1, <2>2 DEF Insert
<1>8. CASE Recheck(t)
  <2>1. CASE Finish(t)
    BY <1>8, <2>1, FinishStep DEF Recheck
  <2>2. ASSUME NEW n \in Usernames, task' = [task EXCEPT ![t].pc = "wide", ![t].name = n]
        PROVE  IInv'
    BY <1>8, <2>2, GotoStep DEF Recheck, CallbackPCs
  <2> QED
    BY <1>3, <1>8, <2>1, <2>2 DEF Recheck, DeriveUsername, CallbackPCs
<1>9. CASE InsertWide(t)
  BY <1>9, ProvisionStep, FinishStep DEF InsertWide
<1> QED
  BY <1>4, <1>5, <1>6, <1>7, <1>8, <1>9

(* The address is checked.                                                 *)
LEMMA OwnerStep == ASSUME IInv, NEW t \in Tasks, CheckOwner(t) PROVE IInv'
<1>1. task[t].pc = "owner" /\ UNCHANGED <<up, users, nextId, trail, demoted>>
      /\ task \in [Tasks -> TaskStates] /\ task[t].held \in BOOLEAN
  BY DEF CheckOwner, IInv, TypeOK, TaskStates
<1>2. CASE Finish(t)
  BY <1>1, <1>2, FinishStep
<1>3. CASE Signed(t)
  BY <1>1, <1>3, ResolvedStep DEF Signed
<1>4. CASE Goto(t, "email")
  <2>1. task' = [task EXCEPT ![t].pc = "email", ![t].held = task[t].held]
    BY <1>1, <1>4 DEF Goto, TaskStates
  <2> QED
    BY <1>1, <2>1, ResolvedStep
<1> QED
  BY <1>2, <1>3, <1>4 DEF CheckOwner

-----------------------------------------------------------------------------
(* Every step keeps the invariant.                                         *)
LEMMA InvStep == IInv /\ [Next]_vars => IInv'
<1> SUFFICES ASSUME IInv, [Next]_vars PROVE IInv'
  OBVIOUS
<1>1. CASE seed_admin
  BY <1>1, SeedStep
<1>2. CASE Shutdown
  BY <1>2, ShutdownStep
<1>3. ASSUME NEW t \in Tasks, Request(t) PROVE IInv'
  BY <1>3, BeginStep
<1>4. ASSUME NEW t \in Tasks, Step(t) PROVE IInv'
  <2>1. CASE Matched(t)
    BY <2>1, MatchedStep
  <2>2. CASE CheckOwner(t)
    BY <2>2, OwnerStep
  <2>3. CASE SyncEmail(t)
    BY <2>3, EmailStep
  <2>4. CASE SignIn(t)
    BY <2>4, FinishStep DEF SignIn
  <2>5. CASE CreateCommit(t)
    BY <2>5, CreateStep
  <2>6. CASE DeleteAudit(t)
    BY <2>6, AuditStep
  <2>7. CASE DeleteCommit(t)
    BY <2>7, DeleteStep
  <2>8. CASE DeadlockDetected(t)
    BY <2>8, FinishStep DEF DeadlockDetected
  <2>9. CASE Unmatched(t) \/ Checks(t) \/ ChooseName(t) \/ Insert(t) \/ Recheck(t) \/ InsertWide(t)
    BY <2>9, FirstLoginStep
  <2> QED
    BY <1>4, <2>1, <2>2, <2>3, <2>4, <2>5, <2>6, <2>7, <2>8, <2>9 DEF Step
<1>5. ASSUME NEW t \in Tasks, Fail(t) PROVE IInv'
  BY <1>5, FinishStep DEF Fail
<1>6. CASE UNCHANGED vars
  <2>1. UNCHANGED <<up, users, nextId, task, trail, demoted>>
    BY <1>6 DEF vars
  <2>2. TypeOK'
    BY <2>1 DEF IInv, TypeOK
  <2>3. RequestsOK'
    BY <2>1 DEF IInv, RequestsOK, ActingAt, ResolvedAt
  <2>4. (Served /\ AdminSeeded /\ OneAccountEach)'
    BY <2>1 DEF IInv, Served, AdminSeeded, Admin, Live, OneAccountEach, Sso
  <2>5. (TrailStarts /\ TrailExplains)'
    BY <2>1 DEF IInv, TrailStarts, TrailExplains
  <2> QED BY <2>2, <2>3, <2>4, <2>5 DEF IInv
<1> QED
  BY <1>1, <1>2, <1>3, <1>4, <1>5, <1>6 DEF Next

(* Hence it always holds.                                                  *)
LEMMA Invariance == Spec => []IInv
BY InitInv, InvStep, PTL DEF Spec

(* Every column of the user table, every request and every audit row has   *)
(* its type: a role written by a sync or an insert is one of Role.         *)
THEOREM TypeCorrect == Spec => []TypeOK
<1>1. IInv => TypeOK
  BY DEF IInv
<1> QED
  BY <1>1, Invariance, PTL

(* However many administrators delete each other at once, delete_user      *)
(* leaves one, unless the provider's role sync has demoted one.            *)
THEOREM LastAdminStays == Spec => []AnAdminRemains
<1>1. IInv => AnAdminRemains
  BY DEF IInv, AdminSeeded, AnAdminRemains
<1> QED
  BY <1>1, Invariance, PTL

(* oidc_callback signs in to the account of its provider, issuer, subject  *)
(* and tenant.                                                             *)
THEOREM SignsInToOwnAccount == Spec => []BoundToIdentity
<1>1. IInv => BoundToIdentity
  BY DEF IInv, RequestsOK, ResolvedAt, BoundToIdentity
<1> QED
  BY <1>1, Invariance, PTL

(* provision_oidc_user and _sync_email never give two accounts of the      *)
(* providers one address or one identity.                                  *)
THEOREM AccountsDistinct == Spec => []OneAccountEach
<1>1. IInv => OneAccountEach
  BY DEF IInv
<1> QED
  BY <1>1, Invariance, PTL

(* The audit rows committed with inserts, role syncs and deletions agree   *)
(* with the user table.                                                    *)
THEOREM TrailAgrees == Spec => []TrailExplains
<1>1. IInv => TrailExplains
  BY DEF IInv
<1> QED
  BY <1>1, Invariance, PTL

=============================================================================
