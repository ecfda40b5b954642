------------------------------- MODULE SignOn --------------------------------
(***************************************************************************)
(* The accounts and the three ways one comes, changes or goes: the single  *)
(* sign-on callback (provision_oidc_user of app/oidc/service.py, behind    *)
(* oidc_callback), create_user and delete_user of app/routes/users.py,     *)
(* and seed_admin at startup; with the audit trail each leaves.            *)
(*                                                                         *)
(* PostgreSQL runs READ COMMITTED, so every statement is a step of its     *)
(* own unless a lock it takes is held to the commit.  Three things order   *)
(* the requests: the unique indexes of the user table, the FOR UPDATE of   *)
(* _match_identity, and the KEY SHARE lock that the foreign key            *)
(* AuditLog.actor_id takes on the account that acts.  A lock is held from  *)
(* the step that takes it to the end of its transaction, so who holds      *)
(* what follows from where the requests are.                               *)
(***************************************************************************)
EXTENDS Naturals

CONSTANTS
    Tasks,        \* requests
    Providers,    \* configured identity providers
    Idents,       \* (issuer, subject) pairs
    Emails,       \* normalised addresses
    Tenants,
    Groups,
    RoleMap,      \* cfg.role_map: a group to a role, or to "none"
    Usernames,
    Derived,      \* _derive_username: address, identity, width -> name
    Claims,       \* what validated tokens assert: who, address, groups, tenant
    Forms,        \* what administrators ask create_user for
    AdminName,    \* settings.admin_username
    MaxUsers      \* bound: accounts ever inserted

Roles == {"admin", "analyst", "auditor"}
Local == "local"
None  == "none"

ASSUME ConstantsAssumption ==
    /\ Local \notin Providers /\ None \notin Idents /\ None \notin Emails
    /\ None \notin Tenants
    /\ RoleMap \in [Groups -> Roles \cup {None}]
    /\ Emails \subseteq Usernames /\ AdminName \in Usernames
    /\ Derived \in [Emails \X Idents \X {8, 32} -> Usernames]
    /\ Claims \subseteq [provider : Providers, ident : Idents, email : Emails,
                         verified : BOOLEAN, groups : SUBSET Groups,
                         tenant : Tenants \cup {None}]
    /\ Forms \subseteq [name : Usernames, email : Emails \cup {None}, role : Roles]
    /\ MaxUsers \in Nat \ {0}

Ids  == 1..MaxUsers
NoId == 0

VARIABLES
    up,          \* startup is over: requests are served
    users,       \* the user table
    nextId,
    task,
    trail,       \* on record about each account: how often it came (audit rows,
                 \* for the seeded one the log line of seed_admin), the role last
                 \* recorded, whether a deletion is recorded
    demoted      \* history: a role sync took the admin role from an account

vars == <<up, users, nextId, task, trail, demoted>>

Rows == [st : {"unused", "live", "gone"}, name : Usernames \cup {None},
         email : Emails \cup {None}, role : Roles, provider : Providers \cup {Local},
         ident : Idents \cup {None}, tenant : Tenants \cup {None}]

Unused == [st |-> "unused", name |-> None, email |-> None, role |-> "analyst",
           provider |-> Local, ident |-> None, tenant |-> None]

NoReq == [email |-> None]

(* pc is what the request does next: "match" to "cookie" are the callback, *)
(* "create" create_user, "audit" and "delete" delete_user.  req is the     *)
(* claim or the form; user the account matched, inserted or to be deleted; *)
(* actor the administrator; name the username to insert; held: the FOR     *)
(* UPDATE of _match_identity is still held.                                *)
PCs == {"idle", "match", "checks", "name", "insert", "rematch", "recheck", "wide",
        "owner", "email", "cookie", "create", "audit", "delete"}

TaskStates == [pc : PCs, req : Claims \cup Forms \cup {NoReq}, user : Ids \cup {NoId},
               actor : Ids \cup {NoId}, name : Usernames \cup {None}, held : BOOLEAN]

Idle == [pc |-> "idle", req |-> NoReq, user |-> NoId, actor |-> NoId, name |-> None,
         held |-> FALSE]

CallbackPCs == {"match", "checks", "name", "insert", "rematch", "recheck", "wide",
                "owner", "email", "cookie"}

TypeOK ==
    /\ up \in BOOLEAN
    /\ users \in [Ids -> Rows]
    /\ nextId \in 1..(MaxUsers + 1)
    /\ \A u \in Ids : users[u].st = "unused" <=> u >= nextId
    /\ task \in [Tasks -> TaskStates]
    /\ \A t \in Tasks : task[t].pc \in CallbackPCs => task[t].req \in Claims
    /\ \A t \in Tasks : task[t].pc = "create" => task[t].req \in Forms
    /\ trail \in [Ids -> [made : Nat, role : Roles, gone : BOOLEAN]]
    /\ demoted \in BOOLEAN

Init ==
    /\ up = FALSE
    /\ users = [u \in Ids |-> Unused]
    /\ nextId = 1
    /\ task = [t \in Tasks |-> Idle]
    /\ trail = [u \in Ids |-> [made |-> 0, role |-> "analyst", gone |-> FALSE]]
    /\ demoted = FALSE

-----------------------------------------------------------------------------
(* The table, its indexes and its locks.                                   *)
Live    == {u \in Ids : users[u].st = "live"}
Sso(u)  == users[u].ident # None
Admin(u) == u \in Live /\ users[u].role = "admin"

UsernameTaken(n) == \E u \in Live : users[u].name = n

(* uq_user_issuer_subject.                                                 *)
IdentTaken(i) == \E u \in Live : users[u].ident = i

(* Mutant: without the partial unique index.                               *)
SsoEmailTaken_NoIndex(e, self) == FALSE

(* uq_user_sso_email: among the accounts with a subject only.              *)
SsoEmailTaken(e, self) == \E u \in Live \ {self} : Sso(u) /\ users[u].email = e

(* The unique violation of a JIT insert.                                   *)
Violates(who, n) ==
    UsernameTaken(n) \/ IdentTaken(who.ident) \/ SsoEmailTaken(who.email, NoId)

(* The row is locked FOR UPDATE by the callback of another request.        *)
Locked(u, t) ==
    \E o \in Tasks \ {t} :
        task[o].pc \in {"owner", "email"} /\ task[o].held /\ task[o].user = u

(* Mutant: the audit row does not refer to the account that acts.          *)
KeyShared_NoForeignKey(u, t) == FALSE

(* Another request's transaction has written an audit row by the account:  *)
(* it may be updated, not deleted or locked FOR UPDATE.                    *)
KeyShared(u, t) == \E o \in Tasks \ {t} : task[o].pc = "delete" /\ task[o].actor = u

Begin(t, r)  == task' = [task EXCEPT ![t] = r]
Goto(t, p)   == task' = [task EXCEPT ![t].pc = p]
Finish(t)    == Begin(t, Idle)
Serving(t)   == up /\ task[t].pc = "idle"

AddRow(row) ==
    /\ nextId <= MaxUsers
    /\ users' = [users EXCEPT ![nextId] = row]
    /\ nextId' = nextId + 1
    /\ trail' = [trail EXCEPT ![nextId] = [made |-> @.made + 1, role |-> row.role,
                                           gone |-> FALSE]]

-----------------------------------------------------------------------------
(* seed_admin: the initial administrator, if the table is empty.  No user  *)
(* makes it, so it is on record in the log and not in the AuditLog.        *)
SeedRow == [Unused EXCEPT !.st = "live", !.name = AdminName, !.role = "admin"]

seed_admin ==
    /\ ~up
    /\ up' = TRUE
    /\ \/ Live # {} /\ UNCHANGED <<users, nextId, trail>>
       \/ Live = {} /\ AddRow(SeedRow)
    /\ UNCHANGED <<task, demoted>>

(* The process ends: the database rolls back what was open.                *)
Shutdown ==
    /\ up
    /\ up' = FALSE
    /\ task' = [t \in Tasks |-> Idle]
    /\ UNCHANGED <<users, nextId, trail, demoted>>

-----------------------------------------------------------------------------
(* map_role: any match, the highest role wins, none is analyst.            *)
map_role(who) ==
    LET mapped == {RoleMap[g] : g \in who.groups}
    IN CASE "admin" \in mapped   -> "admin"
         [] "analyst" \in mapped -> "analyst"
         [] "auditor" \in mapped -> "auditor"
         [] OTHER                -> "analyst"

(* oidc_callback, once the token is validated and the claims extracted.    *)
Callback(t, who) ==
    /\ Serving(t)
    /\ Begin(t, [Idle EXCEPT !.pc = "match", !.req = who])
    /\ UNCHANGED <<up, users, nextId, trail, demoted>>

(* Mutant: the match before #226, by issuer and subject alone.             *)
Matches_AnyProvider(u, who) == u \in Live /\ users[u].ident = who.ident

(* The predicate of _match_identity.                                       *)
Matches(u, who) ==
    u \in Live /\ users[u].provider = who.provider /\ users[u].ident = who.ident

OtherTenant(row, who) == row.tenant # None /\ row.tenant # who.tenant

(* role_managed_by_idp, set by the JIT insert and nowhere else.            *)
Managed(row) == row.provider # Local

(* Mutant: the role changes without its audit row.                         *)
RoleSynced_Unaudited(u, role) == trail

(* audit.record of user.role_sync.                                         *)
RoleSynced(u, role) ==
    IF users[u].role = role THEN trail ELSE [trail EXCEPT ![u].role = role]

Synced(row, who) ==
    [row EXCEPT !.tenant = IF @ = None THEN who.tenant ELSE @,
                !.role   = IF Managed(row) THEN map_role(who) ELSE @]

(* _match_identity FOR UPDATE finds nobody: a first login, or still a      *)
(* conflict that is somebody else's.                                       *)
Unmatched(t) ==
    /\ task[t].pc \in {"match", "rematch"}
    /\ \A u \in Ids : ~Matches(u, task[t].req)
    /\ Goto(t, IF task[t].pc = "match" THEN "checks" ELSE "recheck")
    /\ UNCHANGED <<up, users, nextId, trail, demoted>>

(* It finds the account, with _sync_returning_user: tenant and role are    *)
(* committed with the audit row, which ends the lock; with nothing to      *)
(* commit the lock stays.                                                  *)
Matched(t) ==
    /\ task[t].pc \in {"match", "rematch"}
    /\ \E u \in Ids :
        LET row == users[u]
            new == Synced(row, task[t].req)
        IN /\ Matches(u, task[t].req)
           /\ ~Locked(u, t) /\ ~KeyShared(u, t)
           /\ \/ /\ OtherTenant(row, task[t].req)
                 /\ Finish(t)
                 /\ UNCHANGED <<users, trail, demoted>>
              \/ /\ ~OtherTenant(row, task[t].req)
                 /\ users' = [users EXCEPT ![u] = new]
                 /\ trail' = RoleSynced(u, new.role)
                 /\ demoted' = (demoted \/ (row.role = "admin" /\ new.role # "admin"))
                 /\ task' = [task EXCEPT ![t].pc = "owner", ![t].user = u,
                                         ![t].held = (new = row)]
    /\ UNCHANGED <<up, nextId>>

(* The transaction is over; what is left is the response.                  *)
Signed(t) == task' = [task EXCEPT ![t].pc = "cookie", ![t].held = FALSE]

(* _sync_email, up to its check.  Only a verified address that nobody has  *)
(* is adopted; .first() returns any of several owners.                     *)
CheckOwner(t) ==
    LET u == task[t].user
        e == task[t].req.email
        owners == {o \in Live : users[o].email = e}
    IN /\ task[t].pc = "owner"
       /\ \/ u \notin Live /\ Finish(t)
          \/ /\ u \in Live
             /\ \/ ~task[t].req.verified \/ users[u].email = e
                \/ \E o \in owners : o # u
             /\ Signed(t)
          \/ /\ u \in Live
             /\ task[t].req.verified /\ users[u].email # e
             /\ owners = {}
             /\ Goto(t, "email")
       /\ UNCHANGED <<up, users, nextId, trail, demoted>>

(* Its commit.  The index may refuse the address, which the login          *)
(* survives; an account that is gone ends the request.                     *)
SyncEmail(t) ==
    LET u == task[t].user
        e == task[t].req.email
    IN /\ task[t].pc = "email"
       /\ ~Locked(u, t)
       /\ \/ u \notin Live /\ Finish(t) /\ UNCHANGED users
          \/ /\ u \in Live /\ SsoEmailTaken(e, u)
             /\ Signed(t) /\ UNCHANGED users
          \/ /\ u \in Live /\ ~SsoEmailTaken(e, u)
             /\ users' = [users EXCEPT ![u].email = e]
             /\ Signed(t)
       /\ UNCHANGED <<up, nextId, trail, demoted>>

(* set_session.                                                            *)
SignIn(t) ==
    /\ task[t].pc = "cookie"
    /\ Finish(t)
    /\ UNCHANGED <<up, users, nextId, trail, demoted>>

-----------------------------------------------------------------------------
(* _foreign_identity_exists and _email_owner.                              *)
Foreign(who) ==
    \E u \in Live : users[u].ident = who.ident /\ users[u].provider # who.provider
Owned(e) == \E u \in Live : users[u].email = e

(* A first login: identity conflict, unverified address, collision.        *)
Checks(t) ==
    /\ task[t].pc = "checks"
    /\ \/ /\ \/ Foreign(task[t].req) \/ ~task[t].req.verified \/ Owned(task[t].req.email)
          /\ Finish(t)
       \/ /\ ~Foreign(task[t].req) /\ task[t].req.verified /\ ~Owned(task[t].req.email)
          /\ Goto(t, "name")
    /\ UNCHANGED <<up, users, nextId, trail, demoted>>

(* _derive_username: the address with a digest of the identity, of a width. *)
DeriveUsername(who, width) == Derived[<<who.email, who.ident, width>>]

(* The username: the address, or one derived from it and the identity.     *)
ChooseName(t) ==
    LET e == task[t].req.email
    IN /\ task[t].pc = "name"
       /\ task' = [task EXCEPT ![t].pc = "insert",
                     ![t].name = IF UsernameTaken(e)
                                 THEN DeriveUsername(task[t].req, 8) ELSE e]
       /\ UNCHANGED <<up, users, nextId, trail, demoted>>

JitRow(who, n) ==
    [st |-> "live", name |-> n, email |-> who.email, role |-> map_role(who),
     provider |-> who.provider, ident |-> who.ident, tenant |-> who.tenant]

Provisioned(t) ==
    /\ AddRow(JitRow(task[t].req, task[t].name))
    /\ task' = [task EXCEPT ![t].pc = "cookie", ![t].user = nextId,
                            ![t].name = None]

(* The insert with its user.provision row, committed, or refused by one of *)
(* the unique indexes, without saying which.                               *)
Insert(t) ==
    /\ task[t].pc = "insert"
    /\ \/ ~Violates(task[t].req, task[t].name) /\ Provisioned(t)
       \/ /\ Violates(task[t].req, task[t].name)
          /\ task' = [task EXCEPT ![t].pc = "rematch", ![t].name = None]
          /\ UNCHANGED <<users, nextId, trail>>
    /\ UNCHANGED <<up, demoted>>

(* The checks again; what is left is a collision of usernames.             *)
Recheck(t) ==
    /\ task[t].pc = "recheck"
    /\ \/ /\ Foreign(task[t].req) \/ Owned(task[t].req.email)
          /\ Finish(t)
       \/ /\ ~Foreign(task[t].req) /\ ~Owned(task[t].req.email)
          /\ task' = [task EXCEPT ![t].pc = "wide", ![t].name =
                        DeriveUsername(task[t].req, 32)]
    /\ UNCHANGED <<up, users, nextId, trail, demoted>>

(* ... and the insert again, or "provisioning conflict".                   *)
InsertWide(t) ==
    /\ task[t].pc = "wide"
    /\ \/ ~Violates(task[t].req, task[t].name) /\ Provisioned(t)
       \/ /\ Violates(task[t].req, task[t].name)
          /\ Finish(t)
          /\ UNCHANGED <<users, nextId, trail>>
    /\ UNCHANGED <<up, demoted>>

-----------------------------------------------------------------------------
(* create_user: the gate AdminUser and the check of the name, ...          *)
CreateUser(t, actor, form) ==
    /\ Serving(t)
    /\ Admin(actor)
    /\ ~UsernameTaken(form.name)
    /\ Begin(t, [Idle EXCEPT !.pc = "create", !.req = form, !.actor = actor])
    /\ UNCHANGED <<up, users, nextId, trail, demoted>>

FormRow(form) ==
    [Unused EXCEPT !.st = "live", !.name = form.name, !.email = form.email,
                   !.role = form.role]

(* ... and after the hashing of the password the insert, whose audit row   *)
(* needs the acting account.                                               *)
CreateCommit(t) ==
    LET ok == ~UsernameTaken(task[t].req.name) /\ task[t].actor \in Live
    IN /\ task[t].pc = "create"
       /\ ~Locked(task[t].actor, t)
       /\ \/ ok /\ AddRow(FormRow(task[t].req))
          \/ ~ok /\ UNCHANGED <<users, nextId, trail>>
       /\ Finish(t)
       /\ UNCHANGED <<up, demoted>>

(* delete_user: the gate, the own account, the target, ...                 *)
DeleteUser(t, actor, target) ==
    /\ Serving(t)
    /\ Admin(actor)
    /\ target # actor /\ target \in Live
    /\ Begin(t, [Idle EXCEPT !.pc = "audit", !.user = target, !.actor = actor])
    /\ UNCHANGED <<up, users, nextId, trail, demoted>>

(* ... the audit row, flushed before the extensions are orphaned, which    *)
(* locks the acting account or finds it gone, ...                          *)
DeleteAudit(t) ==
    /\ task[t].pc = "audit"
    /\ ~Locked(task[t].actor, t)
    /\ IF task[t].actor \in Live THEN Goto(t, "delete") ELSE Finish(t)
    /\ UNCHANGED <<up, users, nextId, trail, demoted>>

(* ... and the deletion, which commits the audit row also when the account *)
(* has been deleted meanwhile.                                             *)
DeleteCommit(t) ==
    LET u == task[t].user
    IN /\ task[t].pc = "delete"
       /\ ~Locked(u, t) /\ ~KeyShared(u, t)
       /\ users' = [users EXCEPT ![u].st = "gone"]
       /\ trail' = [trail EXCEPT ![u].gone = TRUE]
       /\ Finish(t)
       /\ UNCHANGED <<up, nextId, demoted>>

(* Deletions that wait for each other in a circle: the database ends one.  *)
DeadlockDetected(t) ==
    /\ \E S \in SUBSET {o \in Tasks : task[o].pc = "delete"} :
        /\ t \in S
        /\ \A o \in S : \E v \in S : task[o].user = task[v].actor
        /\ \A o \in S : \E v \in S : task[v].user = task[o].actor
    /\ Finish(t)
    /\ UNCHANGED <<up, users, nextId, trail, demoted>>

(* A client that goes away, a failed statement, a refresh of an account    *)
(* that is gone: the request ends and its transaction is rolled back.      *)
Fail(t) ==
    /\ task[t].pc # "idle"
    /\ Finish(t)
    /\ UNCHANGED <<up, users, nextId, trail, demoted>>

-----------------------------------------------------------------------------
Step(t) ==
    \/ Unmatched(t) \/ Matched(t) \/ CheckOwner(t) \/ SyncEmail(t) \/ SignIn(t)
    \/ Checks(t) \/ ChooseName(t) \/ Insert(t) \/ Recheck(t) \/ InsertWide(t)
    \/ CreateCommit(t) \/ DeleteAudit(t) \/ DeleteCommit(t) \/ DeadlockDetected(t)

Request(t) ==
    \/ \E who \in Claims : Callback(t, who)
    \/ \E a \in Ids, f \in Forms : CreateUser(t, a, f)
    \/ \E a, u \in Ids : DeleteUser(t, a, u)

Next ==
    \/ seed_admin \/ Shutdown
    \/ \E t \in Tasks : Request(t) \/ Step(t) \/ Fail(t)

Spec == Init /\ [][Next]_vars

-----------------------------------------------------------------------------
(* An administrator remains: administrators who delete each other at the   *)
(* same time never delete the last one, because the audit row of a         *)
(* deletion locks the account it names.  Only the provider's own role sync *)
(* can take the last admin role.                                           *)
AnAdminRemains == up /\ ~demoted => \E u \in Ids : Admin(u)

(* A callback signs in to the account of its own provider, issuer and      *)
(* subject, and tenant, whatever addresses, names and rivals were          *)
(* involved; the account may have been deleted since.                      *)
BoundToIdentity ==
    \A t \in Tasks : task[t].pc = "cookie" =>
        LET row == users[task[t].user]
        IN /\ row.provider = task[t].req.provider
           /\ row.ident = task[t].req.ident
           /\ task[t].req.tenant # None => row.tenant = task[t].req.tenant

(* Two accounts of the providers never share an address or an identity,    *)
(* although address and identity are checked in one statement and written  *)
(* in another.                                                             *)
OneAccountEach ==
    \A u, v \in Live : Sso(u) /\ Sso(v) /\ u # v =>
        users[u].email # users[v].email /\ users[u].ident # users[v].ident

(* The audit trail explains every account: how it came is recorded once    *)
(* (the seeded administrator by the startup log), the role last recorded   *)
(* is the role it has, and it is gone exactly when a deletion is recorded. *)
TrailExplains ==
    \A u \in Ids : users[u].st # "unused" =>
        /\ trail[u].made = 1
        /\ trail[u].role = users[u].role
        /\ trail[u].gone <=> users[u].st = "gone"

=============================================================================
