------------------------------ MODULE Sessions -------------------------------
(***************************************************************************)
(* The credentials of one username: session cookies, API keys, and what    *)
(* ends them (app/auth.py, app/routes/keys.py, change_password of          *)
(* app/routes/users.py, the role sync of app/oidc/service.py).  A cookie   *)
(* names a username, not an account, so the accounts that bear the name    *)
(* one after the other matter; those of other names do not meet it.        *)
(*                                                                         *)
(* Time is counted in ticks, Second of them to a second: the database      *)
(* keeps microseconds, the signature of a cookie whole seconds.  Fields    *)
(* and variables marked history influence nothing.                         *)
(***************************************************************************)
EXTENDS Naturals, FiniteSets

CONSTANTS
    Tasks,          \* requests
    Keys,           \* bound: places for API keys, used again once free
    Second,         \* ticks to a second
    SessionMaxAge,  \* settings.session_max_age, in ticks
    OidcMaxAge,     \* settings.oidc_session_max_age, in ticks
    KeyMaxAge,      \* settings.api_key_sso_max_age_days, in ticks; 0 disables it
    Throttle,       \* settings.api_key_last_used_throttle_seconds, in ticks
    MaxTime,        \* bound: the end of time
    MaxAccounts,    \* bound: accounts that ever bear the name
    MaxChanges,     \* bound: changes of password or role of one account
    MaxCookies      \* bound: cookies around at once

ASSUME ConstantsAssumption ==
    /\ Second \in Nat \ {0} /\ Throttle \in Nat \ {0}
    /\ {SessionMaxAge, OidcMaxAge, KeyMaxAge} \subseteq Nat
    /\ {MaxTime, MaxAccounts, MaxChanges, MaxCookies} \subseteq Nat

VARIABLES
    now,
    acct,     \* the account that bears the name, or the last one that did
    cookies,  \* signed cookies that browsers hold
    keys,
    task,
    signed    \* history: when a cookie for the name was last issued

vars == <<now, acct, cookies, keys, task, signed>>

(* epoch counts the changes of password or role that were committed; began *)
(* is when the last of them, or the creation, began (both history).        *)
Accounts == [id : Nat, live : BOOLEAN, sso : BOOLEAN, cutoff : Nat,
             epoch : Nat, began : Nat]

(* History: id and epoch of the account that signed in, and the exact time. *)
Cookies == [issued : Nat, id : Nat, epoch : Nat, real : Nat]

(* lastUsed 0 is NULL.  History: the epoch the key was made under.         *)
KeyRows == [live : BOOLEAN, id : Nat, created : Nat,
            lastUsed : Nat, epoch : Nat]

(* pc is what the request does next.  id, epoch, cutoff and sso are the    *)
(* account as it read it, issued the cookie it came with, stamp a time it  *)
(* took, began when it started, key the key it uses, doomed what it has    *)
(* deleted and not committed.                                              *)
TaskStates ==
    [pc : {"idle", "verify", "sync", "cookie", "hash", "update", "commit", "mint",
           "insert", "touch"},
     id : Nat, epoch : Nat, cutoff : Nat, sso : BOOLEAN, issued : Nat, stamp : Nat,
     began : Nat, key : SUBSET Keys, doomed : SUBSET Keys]

Idle == [pc |-> "idle", id |-> 0, epoch |-> 0, cutoff |-> 0, sso |-> FALSE,
         issued |-> 0, stamp |-> 0, began |-> 0, key |-> {}, doomed |-> {}]

TypeOK ==
    /\ now \in Nat /\ signed \in 0..now
    /\ acct \in Accounts /\ acct.cutoff <= now /\ acct.began <= now
    /\ IsFiniteSet(cookies) /\ cookies \subseteq Cookies
    /\ keys \in [Keys -> KeyRows]
    /\ \A k \in Keys : keys[k].live => acct.live /\ keys[k].id = acct.id
    /\ task \in [Tasks -> TaskStates]

None == [id |-> 0, live |-> FALSE, sso |-> FALSE, cutoff |-> 0, epoch |-> 0, began |-> 0]

Unused == [live |-> FALSE, id |-> 0, created |-> 0, lastUsed |-> 0, epoch |-> 0]

Init ==
    /\ now = Second
    /\ acct = None
    /\ cookies = {}
    /\ keys = [k \in Keys |-> Unused]
    /\ task = [t \in Tasks |-> Idle]
    /\ signed = 0

-----------------------------------------------------------------------------
(* What makes a credential good.                                           *)

(* The serializer's timestamp: whole seconds.                              *)
WholeSecond(x) == x - (x % Second)

(* get_session_claims: the age that the serializer checks.                 *)
SessionClaims(issued) == WholeSecond(now) - issued <= SessionMaxAge

(* Mutant: without the tolerance.                                          *)
SessionAfterPasswordChange_Strict(cutoff, issued) == issued >= cutoff

(* _session_after_password_change, with a second's tolerance.              *)
SessionAfterPasswordChange(cutoff, issued) == issued + Second >= cutoff

(* Mutant: no cutoff for keys, as before #278.                             *)
ApiKeyAfterPasswordChange_None(cutoff, created) == TRUE

(* _api_key_after_password_change, without tolerance.                      *)
ApiKeyAfterPasswordChange(cutoff, created) == created >= cutoff

(* _session_within_sso_max_age.                                            *)
SessionWithinSsoMaxAge(sso, issued) == sso => now - issued <= OidcMaxAge

(* authenticate_session.                                                   *)
Authenticates(c) ==
    /\ SessionClaims(c.issued)
    /\ acct.live
    /\ SessionAfterPasswordChange(acct.cutoff, c.issued)
    /\ SessionWithinSsoMaxAge(acct.sso, c.issued)

(* The bounded life of a key of a provider's account, where there is one.  *)
KeyWithinSsoMaxAge(sso, created) == sso /\ KeyMaxAge > 0 => now - created <= KeyMaxAge

(* The bearer half of require_api_auth, up to the fences.                  *)
Admits(k) ==
    /\ keys[k].live /\ acct.live
    /\ ApiKeyAfterPasswordChange(acct.cutoff, keys[k].created)
    /\ KeyWithinSsoMaxAge(acct.sso, keys[k].created)

(* Who may call a route of CurrentUser.                                    *)
SomeCredential ==
    (\E c \in cookies : Authenticates(c)) \/ (\E k \in Keys : Admits(k))

-----------------------------------------------------------------------------
Begin(t, r) == task' = [task EXCEPT ![t] = r]
Goto(t, p)  == task' = [task EXCEPT ![t].pc = p]
Finish(t)   == Begin(t, Idle)
Present(t)  == acct.live /\ acct.id = task[t].id

(* A request that has read the account.                                    *)
Reading(p) == [Idle EXCEPT !.pc = p, !.id = acct.id, !.epoch = acct.epoch]

(* Another transaction holds the row: the UPDATE of a password change, the *)
(* FOR UPDATE of a role sync.                                              *)
Locked(t) ==
    \E o \in Tasks \ {t} : task[o].pc \in {"sync", "commit"} /\ task[o].id = acct.id

ForUpdate(t) ==
    \E o \in Tasks \ {t} : task[o].pc = "sync" /\ task[o].id = acct.id

(* A deletion that is not yet committed holds the key.                     *)
Doomed(k) == \E o \in Tasks : k \in task[o].doomed

RoomForCookie ==
    Cardinality(cookies)
        + Cardinality({t \in Tasks : task[t].pc \in {"verify", "sync", "cookie"}})
    < MaxCookies

Delete(S) == keys' = [k \in Keys |-> IF k \in S THEN Unused ELSE keys[k]]

(* The keys of the account: no other account's are in keys.                *)
OwnKeys == {k \in Keys : keys[k].live}

(* A place that no request still takes for the key that was there.         *)
Free(k) == ~keys[k].live /\ \A t \in Tasks : k \notin task[t].key \cup task[t].doomed

-----------------------------------------------------------------------------
Tick == now < MaxTime /\ now' = now + 1 /\ UNCHANGED <<acct, cookies, keys, task, signed>>

(* Mutant: a new account starts without the marker.                        *)
NewAccount_NoMarker(sso) ==
    [id |-> acct.id + 1, live |-> TRUE, sso |-> sso, cutoff |-> 0, epoch |-> 0,
     began |-> now]

(* A new row of User: the marker starts as the time of creation.           *)
NewAccount(sso) ==
    [id |-> acct.id + 1, live |-> TRUE, sso |-> sso, cutoff |-> now, epoch |-> 0,
     began |-> now]

(* create_user.  SignOn has it, with its rivals, in detail.                *)
CreateUser ==
    /\ ~acct.live /\ acct.id < MaxAccounts
    /\ acct' = NewAccount(FALSE)
    /\ UNCHANGED <<now, cookies, keys, task, signed>>

(* provision_oidc_user inserts the account; the callback goes on.          *)
Provision(t) ==
    /\ task[t].pc = "idle" /\ RoomForCookie
    /\ ~acct.live /\ acct.id < MaxAccounts
    /\ acct' = NewAccount(TRUE)
    /\ Begin(t, [Idle EXCEPT !.pc = "cookie", !.id = acct.id + 1])
    /\ UNCHANGED <<now, cookies, keys, signed>>

(* delete_user; the foreign key takes the keys along.                      *)
DeleteUser ==
    /\ acct.live
    /\ \A t \in Tasks : ~(task[t].pc \in {"sync", "commit"} /\ task[t].id = acct.id)
    /\ acct' = [None EXCEPT !.id = acct.id]
    /\ Delete(OwnKeys)
    /\ UNCHANGED <<now, cookies, task, signed>>

-----------------------------------------------------------------------------
(* verify_credentials with the right password: the row is read, then the   *)
(* hash computed.  An account of a provider has no hash to compare with.   *)
Login(t) ==
    /\ task[t].pc = "idle" /\ RoomForCookie
    /\ acct.live /\ ~acct.sso
    /\ Begin(t, Reading("verify"))
    /\ UNCHANGED <<now, acct, cookies, keys, signed>>

(* A returning user's callback: _match_identity FOR UPDATE.  With the role *)
(* changed at the provider the marker is set under the lock.  A callback   *)
(* with nothing to write is taken to give the lock up at once.             *)
Callback(t) ==
    /\ task[t].pc = "idle" /\ RoomForCookie
    /\ acct.live /\ acct.sso
    /\ ~Locked(t)
    /\ \/ Begin(t, Reading("cookie"))
       \/ /\ acct.epoch < MaxChanges
          /\ Begin(t, [Reading("sync") EXCEPT !.stamp = now, !.began = now])
    /\ UNCHANGED <<now, acct, cookies, keys, signed>>

Changed(t) ==
    [acct EXCEPT !.cutoff = task[t].stamp, !.epoch = @ + 1, !.began = task[t].began]

SyncCommit(t) ==
    /\ task[t].pc = "sync"
    /\ acct' = Changed(t)
    /\ task' = [task EXCEPT ![t].pc = "cookie", ![t].epoch = acct.epoch + 1]
    /\ UNCHANGED <<now, cookies, keys, signed>>

(* set_session, for either way in.                                         *)
SetSession(t) ==
    /\ task[t].pc \in {"verify", "cookie"}
    /\ cookies' = cookies \cup {[issued |-> WholeSecond(now), id |-> task[t].id,
                                 epoch |-> task[t].epoch, real |-> now]}
    /\ signed' = now
    /\ Finish(t)
    /\ UNCHANGED <<now, acct, keys>>

(* logout: the browser forgets the cookie, the server keeps no record.     *)
Logout(c) ==
    /\ Authenticates(c)
    /\ cookies' = cookies \ {c}
    /\ UNCHANGED <<now, acct, keys, task, signed>>

-----------------------------------------------------------------------------
(* change_password: authenticated, with the right old password, ...        *)
ChangePassword(t) ==
    /\ task[t].pc = "idle"
    /\ SomeCredential /\ ~acct.sso /\ acct.epoch < MaxChanges
    /\ Begin(t, [Reading("hash") EXCEPT !.began = now])
    /\ UNCHANGED <<now, acct, cookies, keys, signed>>

(* ... both hashes computed, the marker is the time, ...                   *)
Stamp(t) ==
    /\ task[t].pc = "hash"
    /\ task' = [task EXCEPT ![t].pc = "update", ![t].stamp = now]
    /\ UNCHANGED <<now, acct, cookies, keys, signed>>

(* ... the UPDATE of the row, which waits for its lock, and the DELETE of  *)
(* the keys there are, or an error if the account is gone, ...             *)
Purge(t) ==
    /\ task[t].pc = "update"
    /\ ~Locked(t)
    /\ IF Present(t)
       THEN task' = [task EXCEPT ![t].pc = "commit", ![t].doomed = OwnKeys]
       ELSE Finish(t)
    /\ UNCHANGED <<now, acct, cookies, keys, signed>>

(* ... and the commit.                                                     *)
ChangeCommit(t) ==
    /\ task[t].pc = "commit"
    /\ acct' = Changed(t)
    /\ Delete(task[t].doomed)
    /\ Finish(t)
    /\ UNCHANGED <<now, cookies, signed>>

-----------------------------------------------------------------------------
(* Mutant: create_key behind CurrentUser, so that a key makes the next.    *)
MayMint_Bearer(issued) ==
    \/ \E c \in cookies : c.issued = issued
    \/ issued = now /\ \E k \in Keys : Admits(k)

(* create_key is behind SessionUser: a cookie, never a key.                *)
MayMint(issued) == \E c \in cookies : c.issued = issued

(* create_key: require_session_user checks the cookie's signature and age  *)
(* and reads the account, ...                                              *)
CreateKey(t) ==
    /\ task[t].pc = "idle"
    /\ acct.live
    /\ \E i \in 0..now :
        /\ MayMint(i) /\ SessionClaims(i)
        /\ Begin(t, [Reading("mint") EXCEPT !.issued = i, !.cutoff = acct.cutoff,
                                            !.sso = acct.sso])
    /\ UNCHANGED <<now, acct, cookies, keys, signed>>

(* ... compares the cookie with what it read, and the key is made, ...     *)
Mint(t) ==
    LET good == /\ SessionAfterPasswordChange(task[t].cutoff, task[t].issued)
                /\ SessionWithinSsoMaxAge(task[t].sso, task[t].issued)
    IN /\ task[t].pc = "mint"
       /\ \/ ~good /\ Finish(t)
          \/ good /\ Begin(t, [Idle EXCEPT !.pc = "insert", !.id = task[t].id,
                                  !.epoch = task[t].epoch, !.stamp = now])
       /\ UNCHANGED <<now, acct, cookies, keys, signed>>

(* ... and inserted, if its account is still there.                        *)
InsertKey(t) ==
    /\ task[t].pc = "insert"
    /\ ~ForUpdate(t)
    /\ \/ ~Present(t) /\ UNCHANGED keys
       \/ /\ Present(t)
          /\ \E k \in Keys :
              /\ Free(k)
              /\ keys' = [keys EXCEPT ![k] =
                            [Unused EXCEPT !.live = TRUE, !.id = acct.id,
                                           !.created = task[t].stamp,
                                           !.epoch = task[t].epoch]]
    /\ Finish(t)
    /\ UNCHANGED <<now, acct, cookies, signed>>

(* The last use is recorded when there is none or it is old.               *)
Due(k) == keys[k].lastUsed = 0 \/ now - keys[k].lastUsed >= Throttle

(* require_api_auth with a key that passes the fences: served at once, or  *)
(* once the last use is committed, ...                                     *)
UseKey(t, k) ==
    /\ task[t].pc = "idle"
    /\ Admits(k)
    /\ \/ ~Due(k) /\ UNCHANGED <<keys, task>>
       \/ /\ Due(k)
          /\ Begin(t, [Idle EXCEPT !.pc = "touch", !.key = {k}, !.stamp = now])
          /\ UNCHANGED keys
    /\ UNCHANGED <<now, acct, cookies, signed>>

(* ... which fails if the key is gone.                                     *)
Touch(t) ==
    /\ task[t].pc = "touch"
    /\ \E k \in task[t].key :
        /\ ~Doomed(k)
        /\ \/ ~keys[k].live /\ UNCHANGED keys
           \/ /\ keys[k].live
              /\ keys' = [keys EXCEPT ![k].lastUsed = task[t].stamp]
    /\ Finish(t)
    /\ UNCHANGED <<now, acct, cookies, signed>>

(* revoke_key, by the owner.                                               *)
RevokeKey(k) ==
    /\ SomeCredential
    /\ keys[k].live /\ ~Doomed(k)
    /\ Delete({k})
    /\ UNCHANGED <<now, acct, cookies, task, signed>>

(* A request fails: its transaction is rolled back.                        *)
Fail(t) ==
    /\ task[t].pc # "idle"
    /\ Finish(t)
    /\ UNCHANGED <<now, acct, cookies, keys, signed>>

-----------------------------------------------------------------------------
Request(t) ==
    \/ Provision(t) \/ Login(t) \/ Callback(t) \/ ChangePassword(t) \/ CreateKey(t)
    \/ \E k \in Keys : UseKey(t, k)

Step(t) ==
    \/ SetSession(t) \/ SyncCommit(t) \/ Stamp(t) \/ Purge(t) \/ ChangeCommit(t)
    \/ Mint(t) \/ InsertKey(t) \/ Touch(t) \/ Fail(t)

Next ==
    \/ Tick \/ CreateUser \/ DeleteUser
    \/ \E c \in cookies : Logout(c)
    \/ \E k \in Keys : RevokeKey(k)
    \/ \E t \in Tasks : Request(t) \/ Step(t)

Spec == Init /\ [][Next]_vars

-----------------------------------------------------------------------------
(* Who signs in, or makes a key, after the last change of password or role *)
(* is not refused because of it: the tolerance of a second covers the      *)
(* rounding of a cookie's time, and a key needs none.                      *)
FreshAccepted ==
    acct.live =>
        /\ \A c \in cookies : c.id = acct.id /\ c.epoch = acct.epoch =>
               SessionAfterPasswordChange(acct.cutoff, c.issued)
        /\ \A k \in Keys : keys[k].live /\ keys[k].epoch = acct.epoch =>
               ApiKeyAfterPasswordChange(acct.cutoff, keys[k].created)

(* A cookie is good for the account and the password or role it was given  *)
(* for.  The only others that are accepted come from a login that was      *)
(* under way, or had ended less than a second before, when the change, or  *)
(* the creation of the account that now bears the name, began.             *)
SupersededEnds ==
    \A c \in cookies : Authenticates(c) =>
        \/ c.id = acct.id /\ c.epoch = acct.epoch
        \/ c.real + Second >= acct.began

(* The same of keys, without the second: a key that was on its way when    *)
(* the change deleted the keys does not survive it, unless it was made     *)
(* after the change began.                                                 *)
KeysEnd ==
    \A k \in Keys : Admits(k) =>
        keys[k].epoch = acct.epoch \/ keys[k].created >= acct.began

(* What a provider no longer vouches for ends: with nobody signing in      *)
(* under the name any more, no key is made once the last session is over,  *)
(* and if keys have a bounded life the last one dies when that is over     *)
(* too.  Without the bound they live until somebody revokes them.          *)
OffboardingBounded ==
    acct.sso =>
        /\ \A c \in cookies : Authenticates(c) => now <= signed + OidcMaxAge
        /\ \A k \in Keys : keys[k].live => keys[k].created <= signed + OidcMaxAge
        /\ KeyMaxAge > 0 =>
               \A k \in Keys : Admits(k) => now <= signed + OidcMaxAge + KeyMaxAge

=============================================================================
