---------------------------- MODULE LoginThrottle ----------------------------
(***************************************************************************)
(* The failed-login throttle: LoginRateLimiter of app/ratelimit.py as      *)
(* login_post of app/routes/ui.py uses it.                                 *)
(*                                                                         *)
(* login_post looks the lockout up, awaits the password check (bcrypt, on  *)
(* a thread) and only then records a failure or resets the key, so several *)
(* attempts at one key can be between the two.  The limiter's own methods  *)
(* have no await: each is one step.  Time is counted in whole seconds.     *)
(***************************************************************************)
EXTENDS RateLimits

CONSTANTS
    Logins,        \* keys: client address and user name
    Slots,         \* requests that can be in login_post at the same time
    MaxAttempts,   \* login_max_attempts
    Window,        \* login_attempt_window_seconds
    Lockout        \* login_lockout_seconds

ASSUME SettingsAssumption ==
    /\ MaxAttempts \in Nat \ {0} /\ Window \in Nat /\ Lockout \in Nat
    /\ IsFiniteSet(Slots) /\ Slots # {}

Free == "free"
ASSUME FreeAssumption == Free \notin Logins

VARIABLES
    entries,    \* _entries: the keys tracked, each with its _Entry
    slot,       \* the key a request is checking the password for, or free
    failed      \* history: times of the failures of a key since it was last forgotten

loginVars == <<now, entries, slot, failed>>

Entry == [failures : Nat, window_start : Nat, locked_until : Nat]

(* Types, and a map that is bounded whatever names and addresses are tried. *)
LoginTypeOK ==
    /\ now \in 0..MaxTime
    /\ DOMAIN entries \subseteq Logins /\ Cardinality(DOMAIN entries) <= MaxEntries
    /\ \A k \in DOMAIN entries : entries[k] \in Entry
    /\ slot \in [Slots -> Logins \cup {Free}]
    /\ failed \in [Logins -> Seq(0..MaxTime)]

LoginInit ==
    /\ now = 0
    /\ entries = << >>
    /\ slot = [r \in Slots |-> Free]
    /\ failed = [k \in Logins |-> << >>]

-----------------------------------------------------------------------------
Counting(k) == k \in DOMAIN entries

(* retry_after(k) is not None.                                             *)
Locked(k) == Counting(k) /\ entries[k].locked_until > now

(* dict.pop and del.                                                       *)
Forget(map, ks) == [k \in DOMAIN map \ ks |-> map[k]]

(* Mutant: the window never restarts.                                      *)
WindowEntry_Endless(k) ==
    IF Counting(k) THEN entries[k] ELSE [failures |-> 0, window_start |-> now, locked_until |-> 0]

(* The entry a failure counts in: a new one if there is none or its window *)
(* has elapsed.                                                            *)
WindowEntry(k) ==
    IF Counting(k) /\ now - entries[k].window_start <= Window
    THEN entries[k]
    ELSE [failures |-> 0, window_start |-> now, locked_until |-> 0]

(* Mutant: locks one failure late.                                         *)
Counted_Late(e) ==
    [e EXCEPT !.failures = @ + 1,
              !.locked_until = IF e.failures + 1 > MaxAttempts THEN now + Lockout ELSE @]

Counted(e) ==
    [e EXCEPT !.failures = @ + 1,
              !.locked_until = IF e.failures + 1 >= MaxAttempts THEN now + Lockout ELSE @]

Expired(e) == e.locked_until <= now /\ now - e.window_start > Window

(* The sets of keys _maybe_prune may drop: nothing within the limit, else  *)
(* the expired ones and, of the rest, the oldest until the limit is met.   *)
Evicted(map) ==
    LET all  == DOMAIN map
        old  == {k \in all : Expired(map[k])}
        rest == all \ old
    IN IF Cardinality(all) <= MaxEntries THEN {{}}
       ELSE {old \cup more : more \in
               {m \in SUBSET rest :
                   /\ Cardinality(m) = IF Cardinality(rest) > MaxEntries
                                       THEN Cardinality(rest) - MaxEntries ELSE 0
                   /\ \A k \in m, l \in rest \ m : map[k].window_start <= map[l].window_start}}

-----------------------------------------------------------------------------
(* login_post up to the password check.                                    *)
Begin(r, k) ==
    /\ slot[r] = Free
    /\ ~Locked(k)
    /\ slot' = [slot EXCEPT ![r] = k]
    /\ UNCHANGED <<now, entries, failed>>

(* The credentials are good: login_limiter.reset.                          *)
Succeed(r) ==
    /\ slot[r] # Free
    /\ entries' = Forget(entries, {slot[r]})
    /\ failed' = [failed EXCEPT ![slot[r]] = << >>]
    /\ slot' = [slot EXCEPT ![r] = Free]
    /\ UNCHANGED now

(* They are not: login_limiter.record_failure.                             *)
record_failure(r) ==
    /\ slot[r] # Free
    /\ LET k   == slot[r]
           map == [x \in DOMAIN entries \cup {k} |->
                     IF x = k THEN Counted(WindowEntry(k)) ELSE entries[x]]
       IN \E gone \in Evicted(map) :
            /\ entries' = Forget(map, gone)
            /\ failed' = [x \in Logins |-> IF x \in gone THEN << >>
                                         ELSE IF x = k THEN Append(failed[k], now) ELSE failed[x]]
    /\ slot' = [slot EXCEPT ![r] = Free]
    /\ UNCHANGED now

LoginTick ==
    /\ now < MaxTime
    /\ now' = now + 1
    /\ UNCHANGED <<entries, slot, failed>>

LoginNext ==
    \/ \E r \in Slots : Succeed(r) \/ record_failure(r) \/ \E k \in Logins : Begin(r, k)
    \/ LoginTick

LoginSpec == LoginInit /\ [][LoginNext]_loginVars

-----------------------------------------------------------------------------
(* Properties.                                                             *)

Recent(k, len) == {i \in 1..Len(failed[k]) : now - failed[k][i] < len}

(* What the throttle promises whatever the interleaving: within one window *)
(* length a key that is neither reset nor evicted fails fewer than twice   *)
(* MaxAttempts plus the attempts that can be past the lookup when the lock *)
(* falls.  (The window is fixed, not rolling, and an attempt that fails    *)
(* after its window replaces a lock: hence twice.)                         *)
FailuresBounded ==
    Lockout >= Window =>
        \A k \in Logins : Cardinality(Recent(k, Window)) < 2 * (MaxAttempts + Cardinality(Slots) - 1)

(* A key is refused only after MaxAttempts failures of its own within one  *)
(* window that no success followed, and not beyond Lockout after the last  *)
(* of its failures: nobody is locked out by what others do or by failures  *)
(* long past, and every lockout ends.                                      *)
LockedForCause ==
    \A k \in Logins : Locked(k) =>
        LET n == Len(failed[k])
        IN /\ n >= MaxAttempts /\ now - failed[k][n] < Lockout
           /\ \E i \in MaxAttempts..n :
                 failed[k][i] - failed[k][i - MaxAttempts + 1] <= Window

=============================================================================
