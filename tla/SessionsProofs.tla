--------------------------- MODULE SessionsProofs ----------------------------
(***************************************************************************)
(* Proofs about Sessions for any number of requests, keys, accounts and    *)
(* changes, any lengths of life and any resolution of the clock.           *)
(*                                                                         *)
(* A request compares and writes what it read some time before.  The       *)
(* inductive invariant says what it still knows: its account's number is   *)
(* not from the future and its epoch not beyond the account's (so that a   *)
(* change makes what it read old), its time is not before the marker if    *)
(* its epoch is the present one, and the life of the key it makes is       *)
(* bounded by that of the cookie it came with.  The same is then known of  *)
(* the cookies and keys these requests leave.                              *)
(***************************************************************************)
EXTENDS Sessions, FiniteSetTheorems, TLAPS

(* What a request knows: s is its state, a the account, n the time, g the  *)
(* time of the last cookie.                                                *)
TaskOK(s, a, n, g) ==
    /\ s \in TaskStates
    /\ s.id <= a.id /\ s.stamp <= n /\ s.began <= n
    /\ s.pc = "hash" \/ s.began <= s.stamp
    /\ s.pc \in {"sync", "commit"} => a.live /\ s.id = a.id
    /\ a.live /\ s.id = a.id =>
          /\ s.epoch <= a.epoch
          /\ s.pc = "mint" => s.sso = a.sso /\ s.issued <= g
          /\ s.pc = "insert" /\ s.epoch = a.epoch => s.stamp >= a.cutoff
          /\ s.pc = "insert" /\ a.sso => s.stamp <= g + OidcMaxAge

CookieOK(c, a, g) ==
    /\ c \in Cookies
    /\ c.issued <= c.real /\ c.real <= c.issued + Second /\ c.real <= g
    /\ c.id <= a.id
    /\ a.live /\ c.id = a.id => c.epoch <= a.epoch /\ (c.epoch = a.epoch => c.real >= a.cutoff)

KeyOK(k, a, n, g) ==
    /\ k \in KeyRows
    /\ k.live =>
          /\ a.live /\ k.id = a.id
          /\ k.created <= n /\ k.epoch <= a.epoch
          /\ k.epoch = a.epoch => k.created >= a.cutoff
          /\ a.sso => k.created <= g + OidcMaxAge

ClockOK == now \in Nat /\ signed \in Nat /\ signed <= now

AcctOK(a, n) == a \in Accounts /\ a.began <= a.cutoff /\ a.cutoff <= n

CookiesOK == IsFiniteSet(cookies) /\ \A c \in cookies : CookieOK(c, acct, signed)

KeysOK == keys \in [Keys -> KeyRows] /\ \A k \in Keys : KeyOK(keys[k], acct, now, signed)

TasksOK == task \in [Tasks -> TaskStates] /\ \A t \in Tasks : TaskOK(task[t], acct, now, signed)

IInv == ClockOK /\ AcctOK(acct, now) /\ CookiesOK /\ KeysOK /\ TasksOK

-----------------------------------------------------------------------------
(* The clock.                                                              *)

(* A cookie's time is off by less than a second.                           *)
LEMMA WholeSecondIs ==
    ASSUME NEW x \in Nat
    PROVE  WholeSecond(x) \in Nat /\ WholeSecond(x) <= x /\ x <= WholeSecond(x) + Second
<1>1. x % Second \in 0..(Second - 1) /\ x % Second <= x
  BY ConstantsAssumption
<1> QED BY <1>1, ConstantsAssumption DEF WholeSecond

LEMMA IdleOK ==
    ASSUME NEW a, a.id \in Nat, a.epoch \in Nat, NEW n \in Nat, NEW g
    PROVE  TaskOK(Idle, a, n, g)
BY DEF TaskOK, Idle, TaskStates

(* Later, and after later logins, all that is known still holds.           *)
LEMMA Later ==
    ASSUME IInv, now' \in Nat, signed' \in Nat, now' >= now, signed' >= signed
    PROVE  /\ \A t \in Tasks : TaskOK(task[t], acct, now', signed')
           /\ \A k \in Keys : KeyOK(keys[k], acct, now', signed')
           /\ \A c \in cookies : CookieOK(c, acct, signed')
<1>0. now \in Nat /\ signed \in Nat /\ OidcMaxAge \in Nat
  BY ConstantsAssumption DEF IInv, ClockOK
<1>1. ASSUME NEW t \in Tasks PROVE TaskOK(task[t], acct, now', signed')
  <2>1. TaskOK(task[t], acct, now, signed)
    BY DEF IInv, TasksOK
  <2> QED BY <1>0, <2>1 DEF TaskOK, TaskStates
<1>2. ASSUME NEW k \in Keys PROVE KeyOK(keys[k], acct, now', signed')
  <2>1. KeyOK(keys[k], acct, now, signed)
    BY DEF IInv, KeysOK
  <2> QED BY <1>0, <2>1 DEF KeyOK, KeyRows
<1>3. ASSUME NEW c \in cookies PROVE CookieOK(c, acct, signed')
  <2>1. CookieOK(c, acct, signed)
    BY DEF IInv, CookiesOK
  <2> QED BY <1>0, <2>1 DEF CookieOK, Cookies
<1> QED BY <1>1, <1>2, <1>3

(* What follows of the account when it is of its type.                     *)
LEMMA AcctIs ==
    ASSUME IInv
    PROVE  /\ acct.id \in Nat /\ acct.epoch \in Nat /\ acct.cutoff \in Nat /\ acct.began \in Nat
           /\ acct.live \in BOOLEAN /\ acct.sso \in BOOLEAN
           /\ acct.began <= acct.cutoff /\ acct.cutoff <= now /\ now \in Nat /\ signed \in Nat /\ signed <= now
BY DEF IInv, AcctOK, Accounts, ClockOK

(* A step of one request that commits nothing.                             *)
LEMMA OneTask ==
    ASSUME IInv, UNCHANGED <<now, acct, cookies, keys, signed>>, NEW t \in Tasks, NEW s,
           TaskOK(s, acct, now, signed), task' = [task EXCEPT ![t] = s]
    PROVE  IInv'
<1>1. TasksOK'
  BY DEF IInv, TasksOK, TaskOK
<1> QED BY <1>1 DEF IInv, ClockOK, AcctOK, CookiesOK, KeysOK

(* A request that has read the account knows what it is now.               *)
LEMMA ReadingOK ==
    ASSUME IInv, NEW p \in {"verify", "sync", "cookie", "hash", "mint"},
           NEW s \in TaskStates, s.pc = p, s.id = acct.id, s.epoch = acct.epoch,
           s.stamp \in {0, now}, s.began \in {0, now}, p = "hash" \/ s.began <= s.stamp,
           p = "sync" => acct.live,
           p = "mint" => s.sso = acct.sso /\ s.issued <= signed
    PROVE  TaskOK(s, acct, now, signed)
BY AcctIs DEF TaskOK

-----------------------------------------------------------------------------
(* What the two changes of the account leave known.                        *)

(* A new account under the name: nothing from before is about it.          *)
LEMMA NewAccountOK ==
    ASSUME IInv, ~acct.live, NEW sso \in BOOLEAN
    PROVE  /\ AcctOK(NewAccount(sso), now)
           /\ \A t \in Tasks : TaskOK(task[t], NewAccount(sso), now, signed)
           /\ \A c \in cookies : CookieOK(c, NewAccount(sso), signed)
           /\ \A k \in Keys : KeyOK(keys[k], NewAccount(sso), now, signed)
<1> DEFINE a == NewAccount(sso)
<1>1. /\ a.id = acct.id + 1 /\ a.began = now /\ a.cutoff = now /\ a.epoch = 0 /\ a.live
      /\ a \in Accounts
  BY AcctIs DEF NewAccount, Accounts
<1> HIDE DEF a
<1>2. AcctOK(a, now)
  BY <1>1, AcctIs DEF AcctOK
<1>3. ASSUME NEW t \in Tasks PROVE TaskOK(task[t], a, now, signed)
  <2>1. TaskOK(task[t], acct, now, signed)
    BY DEF IInv, TasksOK
  <2> QED BY <1>1, <2>1, AcctIs DEF TaskOK, TaskStates
<1>4. ASSUME NEW c \in cookies PROVE CookieOK(c, a, signed)
  <2>1. CookieOK(c, acct, signed)
    BY DEF IInv, CookiesOK
  <2> QED BY <1>1, <2>1, AcctIs DEF CookieOK, Cookies
<1>5. ASSUME NEW k \in Keys PROVE KeyOK(keys[k], a, now, signed)
  BY <1>1, AcctIs DEF IInv, KeysOK, KeyOK
<1> QED BY <1>2, <1>3, <1>4, <1>5 DEF a

(* A row with other numbers is still a row.                                *)
LEMMA AccountExcept ==
    ASSUME NEW x \in Accounts, NEW c \in Nat, NEW e \in Nat, NEW b \in Nat
    PROVE  [x EXCEPT !.cutoff = c, !.epoch = e, !.began = b] \in Accounts
BY DEF Accounts

(* A change of password or role: what was read before is of an old epoch.  *)
LEMMA ChangedOK ==
    ASSUME IInv, NEW t \in Tasks, task[t].pc \in {"sync", "commit"}
    PROVE  /\ AcctOK(Changed(t), now)
           /\ \A u \in Tasks : TaskOK(task[u], Changed(t), now, signed)
           /\ \A c \in cookies : CookieOK(c, Changed(t), signed)
           /\ \A k \in Keys : KeyOK(keys[k], Changed(t), now, signed)
           /\ Changed(t).id = acct.id /\ Changed(t).epoch = acct.epoch + 1
           /\ Changed(t).live = acct.live
<1> DEFINE a == Changed(t)
<1>0. TaskOK(task[t], acct, now, signed)
  BY DEF IInv, TasksOK
<1>1. /\ a.id = acct.id /\ a.began = task[t].began /\ a.cutoff = task[t].stamp
      /\ a.epoch = acct.epoch + 1 /\ a.live = acct.live /\ a.sso = acct.sso
      /\ a \in Accounts
  <2>1. task[t].stamp \in Nat /\ task[t].began \in Nat
    BY <1>0 DEF TaskOK, TaskStates
  <2>2. acct \in Accounts
    BY DEF IInv, AcctOK
  <2>3. a.id = acct.id /\ a.began = task[t].began /\ a.cutoff = task[t].stamp
    BY <2>2 DEF Changed, Accounts
  <2>4. a.epoch = acct.epoch + 1
    BY <2>2 DEF Changed, Accounts
  <2>5. a.live = acct.live /\ a.sso = acct.sso
    BY <2>2, Zenon DEF Changed, Accounts
  <2>6. acct.epoch + 1 \in Nat
    BY AcctIs
  <2>7. a \in Accounts
    BY <2>1, <2>2, <2>6, AccountExcept DEF Changed
  <2> QED BY <2>3, <2>4, <2>5, <2>7
<1> HIDE DEF a
<1>2. AcctOK(a, now)
  BY <1>0, <1>1, AcctIs DEF AcctOK, TaskOK
<1>3. ASSUME NEW u \in Tasks PROVE TaskOK(task[u], a, now, signed)
  <2>1. TaskOK(task[u], acct, now, signed)
    BY DEF IInv, TasksOK
  <2>2. task[u].epoch \in Nat
    BY <2>1 DEF TaskOK, TaskStates
  <2> QED BY <1>1, <2>1, <2>2, AcctIs DEF TaskOK
<1>4. ASSUME NEW c \in cookies PROVE CookieOK(c, a, signed)
  <2>1. CookieOK(c, acct, signed)
    BY DEF IInv, CookiesOK
  <2> QED BY <1>1, <2>1, AcctIs DEF CookieOK, Cookies
<1>5. ASSUME NEW k \in Keys PROVE KeyOK(keys[k], a, now, signed)
  <2>1. KeyOK(keys[k], acct, now, signed)
    BY DEF IInv, KeysOK
  <2>2. keys[k].epoch \in Nat
    BY <2>1 DEF KeyOK, KeyRows
  <2> QED BY <1>1, <2>1, <2>2, AcctIs DEF KeyOK
<1> QED BY <1>1, <1>2, <1>3, <1>4, <1>5 DEF a

(* Keys that go are known of no less.                                      *)
LEMMA DeleteOK ==
    ASSUME NEW a, a.id \in Nat, NEW n, NEW g, NEW S, keys \in [Keys -> KeyRows],
           \A k \in Keys \ S : KeyOK(keys[k], a, n, g), Delete(S)
    PROVE  keys' \in [Keys -> KeyRows] /\ \A k \in Keys : KeyOK(keys'[k], a, n, g)
<1>1. Unused \in KeyRows /\ ~Unused.live
  BY DEF Unused, KeyRows
<1>2. KeyOK(Unused, a, n, g)
  BY <1>1 DEF KeyOK
<1> QED BY <1>1, <1>2 DEF Delete

-----------------------------------------------------------------------------
(* The invariant holds in every reachable state: one lemma per action.     *)

LEMMA TickStep == ASSUME IInv, Tick PROVE IInv'
<1>1. now' \in Nat /\ signed' \in Nat /\ now' >= now /\ signed' = signed /\ signed' <= now'
  BY AcctIs DEF Tick
<1>2. AcctOK(acct, now')
  BY <1>1, AcctIs DEF IInv, AcctOK
<1> QED BY <1>1, <1>2, Later DEF Tick, IInv, ClockOK, CookiesOK, KeysOK, TasksOK

LEMMA CreateUserStep == ASSUME IInv, CreateUser PROVE IInv'
<1>1. acct' = NewAccount(FALSE) /\ ~acct.live /\ UNCHANGED <<now, cookies, keys, task, signed>>
  BY DEF CreateUser
<1> QED BY <1>1, NewAccountOK DEF IInv, ClockOK, CookiesOK, KeysOK, TasksOK

LEMMA ProvisionStep == ASSUME IInv, NEW t \in Tasks, Provision(t) PROVE IInv'
<1> DEFINE s == [Idle EXCEPT !.pc = "cookie", !.id = acct.id + 1]
<1>1. /\ acct' = NewAccount(TRUE) /\ ~acct.live /\ task' = [task EXCEPT ![t] = s]
      /\ UNCHANGED <<now, cookies, keys, signed>>
  BY DEF Provision, Begin
<1>2. /\ s \in TaskStates /\ s.pc = "cookie" /\ s.id = acct.id + 1 /\ s.epoch = 0
      /\ s.stamp = 0 /\ s.began = 0
  <2>1. acct.id + 1 \in Nat
    BY AcctIs
  <2>2. Idle \in TaskStates
    BY DEF Idle, TaskStates
  <2>3. s \in TaskStates
    BY <2>1, <2>2 DEF TaskStates
  <2>4. s.pc = "cookie" /\ s.id = acct.id + 1 /\ s.epoch = 0 /\ s.stamp = 0 /\ s.began = 0
    BY DEF Idle
  <2> QED BY <2>3, <2>4
<1>3. acct'.id = acct.id + 1 /\ acct'.epoch = 0
  BY <1>1 DEF NewAccount
<1> HIDE DEF s
<1>4. TaskOK(s, acct', now, signed)
  BY <1>2, <1>3, AcctIs DEF TaskOK
<1>5. TasksOK'
  <2>1. task \in [Tasks -> TaskStates]
    BY DEF IInv, TasksOK
  <2>2. task' \in [Tasks -> TaskStates] /\ \A o \in Tasks : task'[o] = IF o = t THEN s ELSE task[o]
    BY <1>1, <1>2, <2>1
  <2>3. \A o \in Tasks : TaskOK(task[o], acct', now, signed)
    BY <1>1, NewAccountOK
  <2> QED BY <1>1, <1>4, <2>2, <2>3 DEF TasksOK
<1> QED BY <1>1, <1>5, NewAccountOK DEF IInv, ClockOK, CookiesOK, KeysOK

LEMMA DeleteUserStep == ASSUME IInv, DeleteUser PROVE IInv'
<1>1. acct'.id = acct.id /\ ~acct'.live /\ acct'.cutoff = 0 /\ acct'.began = 0 /\ acct' \in Accounts
  BY AcctIs DEF DeleteUser, None, Accounts
<1>2. AcctOK(acct', now)
  BY <1>1, AcctIs DEF AcctOK
<1>3. ASSUME NEW u \in Tasks PROVE TaskOK(task[u], acct', now, signed)
  <2>1. TaskOK(task[u], acct, now, signed)
    BY DEF IInv, TasksOK
  <2>2. task[u].pc \notin {"sync", "commit"}
    BY <2>1 DEF TaskOK, DeleteUser
  <2> QED BY <1>1, <2>1, <2>2 DEF TaskOK
<1>4. ASSUME NEW c \in cookies PROVE CookieOK(c, acct', signed)
  BY <1>1 DEF IInv, CookiesOK, CookieOK
<1>5. keys' \in [Keys -> KeyRows] /\ \A k \in Keys : KeyOK(keys'[k], acct', now, signed)
  <2>1. \A k \in Keys \ OwnKeys : KeyOK(keys[k], acct', now, signed)
    BY DEF IInv, KeysOK, KeyOK, OwnKeys
  <2> QED BY <1>1, <2>1, DeleteOK, AcctIs DEF DeleteUser, IInv, KeysOK
<1> QED
  BY <1>2, <1>3, <1>4, <1>5 DEF DeleteUser, IInv, ClockOK, CookiesOK, KeysOK, TasksOK

LEMMA LoginStep == ASSUME IInv, NEW t \in Tasks, Login(t) PROVE IInv'
<1>1. /\ Reading("verify") \in TaskStates
      /\ Reading("verify").pc = "verify" /\ Reading("verify").id = acct.id
      /\ Reading("verify").epoch = acct.epoch
      /\ Reading("verify").stamp = 0 /\ Reading("verify").began = 0
  BY AcctIs DEF Reading, Idle, TaskStates
<1>2. TaskOK(Reading("verify"), acct, now, signed)
  BY <1>1, ReadingOK
<1> QED BY <1>2, OneTask DEF Login, Begin

LEMMA CallbackStep == ASSUME IInv, NEW t \in Tasks, Callback(t) PROVE IInv'
<1> DEFINE c == Reading("cookie")
           s == [Reading("sync") EXCEPT !.stamp = now, !.began = now]
<1>1. /\ c \in TaskStates /\ c.pc = "cookie" /\ c.id = acct.id /\ c.epoch = acct.epoch
      /\ c.stamp = 0 /\ c.began = 0
  BY AcctIs DEF Reading, Idle, TaskStates
<1>2. /\ s \in TaskStates /\ s.pc = "sync" /\ s.id = acct.id /\ s.epoch = acct.epoch
      /\ s.stamp = now /\ s.began = now
  BY AcctIs DEF Reading, Idle, TaskStates
<1>3. acct.live /\ (task' = [task EXCEPT ![t] = c] \/ task' = [task EXCEPT ![t] = s])
  BY DEF Callback, Begin
<1> HIDE DEF c, s
<1>4. TaskOK(c, acct, now, signed)
  BY <1>1, ReadingOK
<1>5. TaskOK(s, acct, now, signed)
  BY <1>2, <1>3, AcctIs, ReadingOK
<1> QED BY <1>3, <1>4, <1>5, OneTask DEF Callback

LEMMA SyncCommitStep == ASSUME IInv, NEW t \in Tasks, SyncCommit(t) PROVE IInv'
<1> DEFINE s == [task[t] EXCEPT !.pc = "cookie", !.epoch = acct.epoch + 1]
<1>1. /\ task[t].pc = "sync" /\ acct' = Changed(t) /\ task' = [task EXCEPT ![t] = s]
      /\ UNCHANGED <<now, cookies, keys, signed>>
  BY Zenon DEF SyncCommit, IInv, TasksOK
<1>2. TaskOK(task[t], acct, now, signed)
  BY DEF IInv, TasksOK
<1>3. s \in TaskStates
  <2>1. acct.epoch + 1 \in Nat
    BY AcctIs
  <2>2. task[t] \in TaskStates
    BY <1>2 DEF TaskOK
  <2> QED BY <2>1, <2>2 DEF TaskStates
<1>4. /\ s.pc = "cookie" /\ s.id = task[t].id /\ s.epoch = acct.epoch + 1
      /\ s.stamp = task[t].stamp /\ s.began = task[t].began
  BY <1>2 DEF TaskOK, TaskStates
<1> HIDE DEF s
<1>5. TaskOK(s, acct', now, signed)
  BY <1>1, <1>2, <1>3, <1>4, ChangedOK, AcctIs DEF TaskOK
<1>6. TasksOK'
  BY <1>1, <1>5, ChangedOK DEF IInv, TasksOK, TaskOK
<1> QED BY <1>1, <1>6, ChangedOK DEF IInv, ClockOK, CookiesOK, KeysOK

LEMMA SetSessionStep == ASSUME IInv, NEW t \in Tasks, SetSession(t) PROVE IInv'
<1> DEFINE c == [issued |-> WholeSecond(now), id |-> task[t].id, epoch |-> task[t].epoch, real |-> now]
<1>1. /\ task[t].pc \in {"verify", "cookie"} /\ cookies' = cookies \cup {c} /\ signed' = now
      /\ task' = [task EXCEPT ![t] = Idle] /\ UNCHANGED <<now, acct, keys>>
  BY DEF SetSession, Finish, Begin
<1>2. TaskOK(task[t], acct, now, signed)
  BY DEF IInv, TasksOK
<1>3. /\ WholeSecond(now) \in Nat /\ WholeSecond(now) <= now /\ now <= WholeSecond(now) + Second
      /\ task[t].id \in Nat /\ task[t].epoch \in Nat
  BY <1>2, AcctIs, WholeSecondIs DEF TaskOK, TaskStates
<1>4. /\ c \in Cookies /\ c.issued = WholeSecond(now) /\ c.id = task[t].id
      /\ c.epoch = task[t].epoch /\ c.real = now
  BY <1>3, AcctIs DEF Cookies
<1> HIDE DEF c
<1>5. CookieOK(c, acct, now)
  BY <1>2, <1>3, <1>4, AcctIs DEF CookieOK, TaskOK
<1>6. /\ \A u \in Tasks : TaskOK(task[u], acct, now, now)
      /\ \A k \in Keys : KeyOK(keys[k], acct, now, now)
      /\ \A d \in cookies : CookieOK(d, acct, now)
  BY <1>1, AcctIs, Later
<1>7. CookiesOK'
  BY <1>1, <1>5, <1>6, FS_AddElement DEF IInv, CookiesOK
<1>8. TaskOK(Idle, acct, now, now)
  BY AcctIs, IdleOK
<1>9. TasksOK'
  BY <1>1, <1>6, <1>8 DEF IInv, TasksOK, TaskOK
<1> QED BY <1>1, <1>6, <1>7, <1>9, AcctIs DEF IInv, ClockOK, KeysOK

LEMMA LogoutStep == ASSUME IInv, NEW c \in cookies, Logout(c) PROVE IInv'
<1>1. cookies' = cookies \ {c} /\ UNCHANGED <<now, acct, keys, task, signed>>
  BY DEF Logout
<1>2. CookiesOK'
  BY <1>1, FS_RemoveElement DEF IInv, CookiesOK
<1> QED BY <1>1, <1>2 DEF IInv, ClockOK, KeysOK, TasksOK

LEMMA ChangePasswordStep == ASSUME IInv, NEW t \in Tasks, ChangePassword(t) PROVE IInv'
<1> DEFINE s == [Reading("hash") EXCEPT !.began = now]
<1>1. /\ s \in TaskStates /\ s.pc = "hash" /\ s.id = acct.id /\ s.epoch = acct.epoch
      /\ s.stamp = 0 /\ s.began = now
  BY AcctIs DEF Reading, Idle, TaskStates
<1>2. task' = [task EXCEPT ![t] = s] /\ UNCHANGED <<now, acct, cookies, keys, signed>>
  BY DEF ChangePassword, Begin
<1> HIDE DEF s
<1>3. TaskOK(s, acct, now, signed)
  BY <1>1, ReadingOK
<1> QED BY <1>2, <1>3, OneTask

LEMMA StampStep == ASSUME IInv, NEW t \in Tasks, Stamp(t) PROVE IInv'
<1> DEFINE s == [task[t] EXCEPT !.pc = "update", !.stamp = now]
<1>1. /\ task[t].pc = "hash" /\ task' = [task EXCEPT ![t] = s]
      /\ UNCHANGED <<now, acct, cookies, keys, signed>>
  BY Zenon DEF Stamp, IInv, TasksOK
<1>2. TaskOK(task[t], acct, now, signed)
  BY DEF IInv, TasksOK
<1>3. s \in TaskStates
  BY <1>2, AcctIs DEF TaskOK, TaskStates
<1>4. /\ s.pc = "update" /\ s.id = task[t].id /\ s.epoch = task[t].epoch
      /\ s.stamp = now /\ s.began = task[t].began
  BY <1>2 DEF TaskOK, TaskStates
<1> HIDE DEF s
<1>5. TaskOK(s, acct, now, signed)
  BY <1>1, <1>2, <1>3, <1>4, AcctIs DEF TaskOK
<1> QED BY <1>1, <1>5, OneTask

LEMMA PurgeStep == ASSUME IInv, NEW t \in Tasks, Purge(t) PROVE IInv'
<1> DEFINE s == [task[t] EXCEPT !.pc = "commit", !.doomed = OwnKeys]
<1>1. /\ task[t].pc = "update"
      /\ (Present(t) /\ task' = [task EXCEPT ![t] = s]) \/ task' = [task EXCEPT ![t] = Idle]
      /\ UNCHANGED <<now, acct, cookies, keys, signed>>
  BY Zenon DEF Purge, Finish, Begin
<1>2. TaskOK(task[t], acct, now, signed)
  BY DEF IInv, TasksOK
<1>3. s \in TaskStates
  <2>1. OwnKeys \in SUBSET Keys
    BY DEF OwnKeys
  <2> QED BY <1>2, <2>1 DEF TaskOK, TaskStates
<1>4. /\ s.pc = "commit" /\ s.id = task[t].id /\ s.epoch = task[t].epoch
      /\ s.stamp = task[t].stamp /\ s.began = task[t].began
  BY <1>2 DEF TaskOK, TaskStates
<1> HIDE DEF s
<1>5. ASSUME Present(t) PROVE TaskOK(s, acct, now, signed)
  BY <1>1, <1>2, <1>3, <1>4, <1>5 DEF TaskOK, Present
<1>6. TaskOK(Idle, acct, now, signed)
  BY AcctIs, IdleOK
<1> QED BY <1>1, <1>5, <1>6, OneTask

LEMMA ChangeCommitStep == ASSUME IInv, NEW t \in Tasks, ChangeCommit(t) PROVE IInv'
<1>1. /\ task[t].pc = "commit" /\ acct' = Changed(t) /\ Delete(task[t].doomed)
      /\ task' = [task EXCEPT ![t] = Idle] /\ UNCHANGED <<now, cookies, signed>>
  BY DEF ChangeCommit, Finish, Begin
<1>2. TaskOK(Idle, acct', now, signed)
  BY <1>1, ChangedOK, AcctIs, IdleOK
<1>3. TasksOK'
  BY <1>1, <1>2, ChangedOK DEF IInv, TasksOK, TaskOK
<1>4. keys' \in [Keys -> KeyRows] /\ \A k \in Keys : KeyOK(keys'[k], acct', now, signed)
  BY <1>1, ChangedOK, AcctIs, DeleteOK DEF IInv, KeysOK
<1> QED BY <1>1, <1>3, <1>4, ChangedOK DEF IInv, ClockOK, CookiesOK, KeysOK

LEMMA CreateKeyStep == ASSUME IInv, NEW t \in Tasks, CreateKey(t) PROVE IInv'
<1>1. PICK i \in 0..now :
          /\ MayMint(i)
          /\ task' = [task EXCEPT ![t] =
                        [Reading("mint") EXCEPT !.issued = i, !.cutoff = acct.cutoff, !.sso = acct.sso]]
  BY DEF CreateKey, Begin
<1> DEFINE s == [Reading("mint") EXCEPT !.issued = i, !.cutoff = acct.cutoff, !.sso = acct.sso]
<1>2. i \in Nat /\ i <= signed
  <2>1. PICK c \in cookies : c.issued = i
    BY <1>1 DEF MayMint
  <2>2. CookieOK(c, acct, signed)
    BY DEF IInv, CookiesOK
  <2> QED BY <2>1, <2>2, AcctIs DEF CookieOK, Cookies
<1>3. Reading("mint") \in TaskStates
  BY AcctIs DEF Reading, Idle, TaskStates
<1>4. s \in TaskStates
  BY <1>2, <1>3, AcctIs DEF TaskStates
<1>5. /\ s.pc = "mint" /\ s.id = acct.id /\ s.epoch = acct.epoch
      /\ s.stamp = 0 /\ s.began = 0 /\ s.issued = i
  BY DEF Reading, Idle
<1>6. s.sso = acct.sso
  BY Zenon, <1>3 DEF TaskStates
<1>7. task' = [task EXCEPT ![t] = s] /\ UNCHANGED <<now, acct, cookies, keys, signed>>
  BY <1>1 DEF CreateKey
<1> HIDE DEF s
<1>8. TaskOK(s, acct, now, signed)
  BY <1>2, <1>4, <1>5, <1>6, ReadingOK
<1> QED BY <1>7, <1>8, OneTask

(* A cookie that is still accepted bounds the life of the key made by it.  *)
LEMMA MintStep == ASSUME IInv, NEW t \in Tasks, Mint(t) PROVE IInv'
<1> DEFINE s == [Idle EXCEPT !.pc = "insert", !.id = task[t].id, !.epoch = task[t].epoch,
                             !.stamp = now]
           good == task[t].sso => now - task[t].issued <= OidcMaxAge
<1>1. /\ task[t].pc = "mint"
      /\ (good /\ task' = [task EXCEPT ![t] = s]) \/ task' = [task EXCEPT ![t] = Idle]
      /\ UNCHANGED <<now, acct, cookies, keys, signed>>
  BY DEF Mint, Finish, Begin, SessionWithinSsoMaxAge
<1>2. TaskOK(task[t], acct, now, signed)
  BY DEF IInv, TasksOK
<1>3. task[t].id \in Nat /\ task[t].epoch \in Nat /\ task[t].issued \in Nat
  BY <1>2 DEF TaskOK, TaskStates
<1>4. s \in TaskStates
  <2>1. Idle \in TaskStates
    BY DEF Idle, TaskStates
  <2> QED BY <1>3, <2>1, AcctIs DEF TaskStates
<1>5. /\ s.pc = "insert" /\ s.id = task[t].id /\ s.epoch = task[t].epoch
      /\ s.stamp = now /\ s.began = 0
  BY DEF Idle
<1> HIDE DEF s
<1>6. ASSUME good PROVE TaskOK(s, acct, now, signed)
  <2>1. ASSUME acct.live, task[t].id = acct.id, acct.sso PROVE now <= signed + OidcMaxAge
    <3>1. task[t].sso = acct.sso /\ task[t].issued <= signed
      BY <1>1, <1>2, <2>1 DEF TaskOK
    <3>2. task[t].sso
      BY <2>1, <3>1
    <3>3. now - task[t].issued <= OidcMaxAge
      BY <1>6, <3>2
    <3> QED BY <1>3, <3>1, <3>3, AcctIs, ConstantsAssumption
  <2>2. acct.live /\ task[t].id = acct.id => task[t].epoch <= acct.epoch
    BY <1>2 DEF TaskOK
  <2>3. task[t].id <= acct.id
    BY <1>2 DEF TaskOK
  <2> QED BY <1>4, <1>5, <2>1, <2>2, <2>3, AcctIs DEF TaskOK
<1>7. TaskOK(Idle, acct, now, signed)
  BY AcctIs, IdleOK
<1> HIDE DEF good
<1> QED BY <1>1, <1>6, <1>7, OneTask

LEMMA InsertKeyStep == ASSUME IInv, NEW t \in Tasks, InsertKey(t) PROVE IInv'
<1> DEFINE r == [Unused EXCEPT !.live = TRUE, !.id = acct.id, !.created = task[t].stamp,
                               !.epoch = task[t].epoch]
<1>1. /\ task[t].pc = "insert"
      /\ \/ UNCHANGED keys
         \/ Present(t) /\ \E k \in Keys : keys' = [keys EXCEPT ![k] = r]
      /\ task' = [task EXCEPT ![t] = Idle] /\ UNCHANGED <<now, acct, cookies, signed>>
  BY DEF InsertKey, Finish, Begin
<1>2. TaskOK(task[t], acct, now, signed)
  BY DEF IInv, TasksOK
<1>3. task[t].stamp \in Nat /\ task[t].epoch \in Nat
  BY <1>2 DEF TaskOK, TaskStates
<1>4. r \in KeyRows
  <2>1. Unused \in KeyRows
    BY DEF Unused, KeyRows
  <2> QED BY <1>3, <2>1, AcctIs DEF KeyRows
<1>5. r.live /\ r.id = acct.id /\ r.created = task[t].stamp /\ r.epoch = task[t].epoch
  BY DEF Unused
<1> HIDE DEF r
<1>6. ASSUME Present(t) PROVE KeyOK(r, acct, now, signed)
  BY <1>1, <1>2, <1>4, <1>5, <1>6 DEF TaskOK, KeyOK, Present
<1>7. KeysOK'
  BY <1>1, <1>4, <1>6 DEF IInv, KeysOK, KeyOK
<1>8. TaskOK(Idle, acct, now, signed)
  BY AcctIs, IdleOK
<1>9. TasksOK'
  BY <1>1, <1>8 DEF IInv, TasksOK, TaskOK
<1> QED BY <1>1, <1>7, <1>9 DEF IInv, ClockOK, CookiesOK

LEMMA UseKeyStep == ASSUME IInv, NEW t \in Tasks, NEW k \in Keys, UseKey(t, k) PROVE IInv'
<1> DEFINE s == [Idle EXCEPT !.pc = "touch", !.key = {k}, !.stamp = now]
<1>1. CASE UNCHANGED <<keys, task>>
  BY <1>1 DEF UseKey, IInv, ClockOK, AcctOK, CookiesOK, KeysOK, TasksOK
<1>2. CASE task' = [task EXCEPT ![t] = s] /\ UNCHANGED keys
  <2>1. Idle \in TaskStates
    BY DEF Idle, TaskStates
  <2>2. s \in TaskStates
    BY <2>1, AcctIs DEF TaskStates
  <2>3. s.pc = "touch" /\ s.id = 0 /\ s.epoch = 0 /\ s.stamp = now /\ s.began = 0
    BY DEF Idle
  <2> HIDE DEF s
  <2>4. TaskOK(s, acct, now, signed)
    BY <2>2, <2>3, AcctIs DEF TaskOK
  <2> QED BY <1>2, <2>4, OneTask DEF UseKey
<1> QED BY <1>1, <1>2 DEF UseKey, Begin

LEMMA TouchStep == ASSUME IInv, NEW t \in Tasks, Touch(t) PROVE IInv'
<1>1. /\ \/ UNCHANGED keys
         \/ \E k \in Keys : keys' = [keys EXCEPT ![k] = [@ EXCEPT !.lastUsed = task[t].stamp]]
      /\ task' = [task EXCEPT ![t] = Idle] /\ UNCHANGED <<now, acct, cookies, signed>>
  <2>1. task[t].key \subseteq Keys
    BY DEF IInv, TasksOK, TaskStates
  <2> QED BY <2>1 DEF Touch, Finish, Begin
<1>2. task[t].stamp \in Nat
  BY DEF IInv, TasksOK, TaskStates
<1>3. ASSUME NEW k \in Keys
      PROVE  LET r == [keys[k] EXCEPT !.lastUsed = task[t].stamp]
             IN r \in KeyRows /\ KeyOK(r, acct, now, signed)
  <2> DEFINE r == [keys[k] EXCEPT !.lastUsed = task[t].stamp]
  <2>1. KeyOK(keys[k], acct, now, signed) /\ keys[k] \in KeyRows
    BY DEF IInv, KeysOK
  <2>2. r \in KeyRows
    BY <1>2, <2>1 DEF KeyRows
  <2>3. r.id = keys[k].id /\ r.created = keys[k].created /\ r.epoch = keys[k].epoch
    BY <2>1 DEF KeyRows
  <2>4. r.live <=> keys[k].live
    BY <2>1, Zenon DEF KeyRows
  <2> HIDE DEF r
  <2>5. KeyOK(r, acct, now, signed)
    BY <2>1, <2>2, <2>3, <2>4 DEF KeyOK
  <2> QED BY <2>2, <2>5 DEF r
<1>4. KeysOK'
  <2>1. keys \in [Keys -> KeyRows] /\ \A k \in Keys : KeyOK(keys[k], acct, now, signed)
    BY DEF IInv, KeysOK
  <2>2. UNCHANGED <<acct, now, signed>>
    BY <1>1
  <2>3. CASE UNCHANGED keys
    BY <2>1, <2>2, <2>3 DEF KeysOK, KeyOK
  <2>4. ASSUME NEW k \in Keys, keys' = [keys EXCEPT ![k] = [@ EXCEPT !.lastUsed = task[t].stamp]]
        PROVE  KeysOK'
    <3> DEFINE r == [keys[k] EXCEPT !.lastUsed = task[t].stamp]
    <3>1. r \in KeyRows /\ KeyOK(r, acct, now, signed)
      BY <1>3
    <3>2. keys' = [keys EXCEPT ![k] = r]
      BY <2>4
    <3> HIDE DEF r
    <3>3. keys' \in [Keys -> KeyRows] /\ \A j \in Keys : KeyOK(keys'[j], acct, now, signed)
      BY ONLY <2>1, <3>1, <3>2
    <3> QED BY ONLY <2>2, <3>3 DEF KeysOK, KeyOK
  <2> QED BY <1>1, <2>3, <2>4
<1>5. TaskOK(Idle, acct, now, signed)
  BY AcctIs, IdleOK
<1>6. TasksOK'
  BY <1>1, <1>5 DEF IInv, TasksOK, TaskOK
<1> QED BY <1>1, <1>4, <1>6 DEF IInv, ClockOK, CookiesOK

LEMMA RevokeKeyStep == ASSUME IInv, NEW k \in Keys, RevokeKey(k) PROVE IInv'
<1>1. Delete({k}) /\ UNCHANGED <<now, acct, cookies, task, signed>>
  BY DEF RevokeKey
<1>2. keys' \in [Keys -> KeyRows] /\ \A j \in Keys : KeyOK(keys'[j], acct, now, signed)
  BY <1>1, AcctIs, DeleteOK DEF IInv, KeysOK
<1> QED BY <1>1, <1>2 DEF IInv, ClockOK, AcctOK, CookiesOK, KeysOK, TasksOK

LEMMA FailStep == ASSUME IInv, NEW t \in Tasks, Fail(t) PROVE IInv'
<1>1. TaskOK(Idle, acct, now, signed)
  BY AcctIs, IdleOK
<1> QED BY <1>1, OneTask DEF Fail, Finish, Begin

LEMMA InvInit == ASSUME Init PROVE IInv
<1>1. ClockOK
  BY ConstantsAssumption DEF Init, ClockOK
<1>2. AcctOK(acct, now) /\ acct.id = 0 /\ acct.epoch = 0
  BY ConstantsAssumption DEF Init, None, AcctOK, Accounts
<1>3. CookiesOK
  BY FS_EmptySet DEF Init, CookiesOK
<1>4. KeysOK
  BY DEF Init, KeysOK, KeyOK, KeyRows, Unused
<1>5. TaskOK(Idle, acct, now, signed)
  BY <1>1, <1>2, IdleOK DEF ClockOK
<1>6. TasksOK
  BY <1>5 DEF Init, TasksOK, TaskOK
<1> QED BY <1>1, <1>2, <1>3, <1>4, <1>6 DEF IInv

LEMMA InvStep == ASSUME IInv, [Next]_vars PROVE IInv'
<1>1. CASE UNCHANGED vars
  BY <1>1 DEF vars, IInv, ClockOK, AcctOK, CookiesOK, KeysOK, TasksOK
<1>2. CASE Tick \/ CreateUser \/ DeleteUser
  BY <1>2, TickStep, CreateUserStep, DeleteUserStep
<1>3. CASE (\E c \in cookies : Logout(c)) \/ \E k \in Keys : RevokeKey(k)
  BY <1>3, LogoutStep, RevokeKeyStep
<1>4. ASSUME NEW t \in Tasks, Request(t) PROVE IInv'
  BY <1>4, ProvisionStep, LoginStep, CallbackStep, ChangePasswordStep, CreateKeyStep, UseKeyStep
     DEF Request
<1>5. ASSUME NEW t \in Tasks, Step(t) PROVE IInv'
  BY <1>5, SetSessionStep, SyncCommitStep, StampStep, PurgeStep, ChangeCommitStep, MintStep,
     InsertKeyStep, TouchStep, FailStep DEF Step
<1> QED BY <1>1, <1>2, <1>3, <1>4, <1>5 DEF Next

LEMMA Invariant == Spec => []IInv
BY InvInit, InvStep, PTL DEF Spec

-----------------------------------------------------------------------------
(* Every row, cookie and request is of its type, no key is the key of an   *)
(* account that is gone, and no marker is from the future.                 *)
THEOREM TypeCorrect == Spec => []TypeOK
<1>1. ASSUME IInv PROVE TypeOK
  <2>1. now \in Nat /\ signed \in 0..now
    BY <1>1, AcctIs
  <2>2. acct \in Accounts /\ acct.cutoff <= now /\ acct.began <= now
    BY <1>1, AcctIs DEF IInv, AcctOK
  <2>3. IsFiniteSet(cookies) /\ cookies \subseteq Cookies
    BY <1>1 DEF IInv, CookiesOK, CookieOK
  <2>4. keys \in [Keys -> KeyRows] /\ \A k \in Keys : keys[k].live => acct.live /\ keys[k].id = acct.id
    BY <1>1 DEF IInv, KeysOK, KeyOK
  <2>5. task \in [Tasks -> TaskStates]
    BY <1>1 DEF IInv, TasksOK
  <2> QED BY <2>1, <2>2, <2>3, <2>4, <2>5 DEF TypeOK
<1> QED BY <1>1, Invariant, PTL

(* _session_after_password_change and _api_key_after_password_change never *)
(* refuse what was given after the last change: whatever the resolution of *)
(* the clock, the tolerance of a second makes up for the whole seconds of  *)
(* the signature.                                                          *)
THEOREM FreshNotRefused == Spec => []FreshAccepted
<1>1. ASSUME IInv, acct.live, NEW c \in cookies, c.id = acct.id, c.epoch = acct.epoch
      PROVE  SessionAfterPasswordChange(acct.cutoff, c.issued)
  <2>1. CookieOK(c, acct, signed)
    BY <1>1 DEF IInv, CookiesOK
  <2> QED BY <1>1, <2>1, AcctIs, ConstantsAssumption DEF CookieOK, Cookies, SessionAfterPasswordChange
<1>2. ASSUME IInv, NEW k \in Keys, keys[k].live, keys[k].epoch = acct.epoch
      PROVE  ApiKeyAfterPasswordChange(acct.cutoff, keys[k].created)
  BY <1>2 DEF IInv, KeysOK, KeyOK, ApiKeyAfterPasswordChange
<1>3. IInv => FreshAccepted
  BY <1>1, <1>2 DEF FreshAccepted
<1> QED BY <1>3, Invariant, PTL

(* authenticate_session accepts no cookie of a former account or password  *)
(* that was given more than a second before the change began.              *)
THEOREM SupersededDie == Spec => []SupersededEnds
<1>1. ASSUME IInv, NEW c \in cookies, Authenticates(c) PROVE c.real + Second >= acct.began
  <2>1. CookieOK(c, acct, signed)
    BY <1>1 DEF IInv, CookiesOK
  <2> QED
    BY <1>1, <2>1, AcctIs, ConstantsAssumption
       DEF CookieOK, Cookies, Authenticates, SessionAfterPasswordChange
<1>2. IInv => SupersededEnds
  BY <1>1 DEF SupersededEnds
<1> QED BY <1>2, Invariant, PTL

(* require_api_auth accepts no key of before a change, the ones that the   *)
(* DELETE of change_password did not see among them.                       *)
THEOREM KeysDie == Spec => []KeysEnd
<1>1. ASSUME IInv, NEW k \in Keys, Admits(k) PROVE keys[k].created >= acct.began
  <2>1. keys[k] \in KeyRows
    BY <1>1 DEF IInv, KeysOK
  <2> QED BY <1>1, <2>1, AcctIs DEF KeyRows, Admits, ApiKeyAfterPasswordChange
<1>2. IInv => KeysEnd
  BY <1>1 DEF KeysEnd
<1> QED BY <1>2, Invariant, PTL

(* A user whom the provider no longer lets in is out once the session's    *)
(* life is over, and the key's where it has one: keys do not make keys.    *)
THEOREM OffboardingHolds == Spec => []OffboardingBounded
<1>1. OidcMaxAge \in Nat /\ KeyMaxAge \in Nat
  BY ConstantsAssumption
<1>2. ASSUME IInv, acct.sso, NEW c \in cookies, Authenticates(c) PROVE now <= signed + OidcMaxAge
  <2>1. CookieOK(c, acct, signed)
    BY <1>2 DEF IInv, CookiesOK
  <2> QED
    BY <1>1, <1>2, <2>1, AcctIs DEF CookieOK, Cookies, Authenticates, SessionWithinSsoMaxAge
<1>3. ASSUME IInv, acct.sso, NEW k \in Keys, keys[k].live PROVE keys[k].created <= signed + OidcMaxAge
  BY <1>3 DEF IInv, KeysOK, KeyOK
<1>4. ASSUME IInv, acct.sso, KeyMaxAge > 0, NEW k \in Keys, Admits(k)
      PROVE  now <= signed + OidcMaxAge + KeyMaxAge
  <2>1. keys[k].created \in Nat /\ keys[k].created <= signed + OidcMaxAge
    BY <1>3, <1>4 DEF IInv, KeysOK, KeyRows, Admits
  <2>2. now - keys[k].created <= KeyMaxAge
    BY <1>4 DEF Admits, KeyWithinSsoMaxAge
  <2> QED BY <1>1, <1>4, <2>1, <2>2, AcctIs
<1>5. IInv => OffboardingBounded
  BY <1>2, <1>3, <1>4 DEF OffboardingBounded
<1> QED BY <1>5, Invariant, PTL

=============================================================================
