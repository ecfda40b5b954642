----------------------------- MODULE TokenBucket -----------------------------
(***************************************************************************)
(* The request-rate limit at the edge: RequestRateLimiter of               *)
(* app/ratelimit.py as the edge_rate_limit middleware of app/main.py       *)
(* uses it.  One instance is one zone (the API, or the login page).        *)
(*                                                                         *)
(* check has no await, so a request is one step.  Time is counted in whole *)
(* seconds and tokens in sixtieths, so that per_minute sixtieths accrue    *)
(* every second and the arithmetic is exact; the rounding of the code's    *)
(* floats is left out.                                                     *)
(***************************************************************************)
EXTENDS RateLimits

CONSTANTS
    Keys,          \* client addresses
    PerMinute,     \* api_rate_limit_per_minute, login_rate_limit_per_minute
    Burst          \* api_rate_limit_burst, login_rate_limit_burst

ASSUME LimitsAssumption == PerMinute \in Nat \ {0} /\ Burst \in Nat \ {0}

VARIABLES
    buckets,    \* _buckets: the keys tracked, each with its _Bucket
    grants,     \* history: times of the requests of a key that were let through,
                \*   since a bucket of it that was not full was last evicted
    promised    \* history: the earliest time a refused key was told to come back at,
                \*   until it is let through; or NoPromise

vars == <<now, buckets, grants, promised>>

Token == 60
Full  == Burst * Token

NoPromise == -1

TypeOK ==
    /\ now \in 0..MaxTime
    /\ DOMAIN buckets \subseteq Keys
    /\ \A k \in DOMAIN buckets : buckets[k] \in [tokens : 0..Full, updated : 0..now]
    /\ grants \in [Keys -> Seq(0..now)]
    /\ promised \in [Keys -> Int]

Init ==
    /\ now = 0
    /\ buckets = << >>
    /\ grants = [k \in Keys |-> << >>]
    /\ promised = [k \in Keys |-> NoPromise]

-----------------------------------------------------------------------------
Tracked(k) == k \in DOMAIN buckets

Accrued(b) == b.tokens + (now - b.updated) * PerMinute

(* What a bucket holds once check has created or refilled it.              *)
Level(k) ==
    IF ~Tracked(k) THEN Full
    ELSE IF Accrued(buckets[k]) > Full THEN Full ELSE Accrued(buckets[k])

Put(k, tokens) ==
    [x \in DOMAIN buckets \cup {k} |->
        IF x = k THEN [tokens |-> tokens, updated |-> now] ELSE buckets[x]]

(* Mutant: a bucket counts as refilled once it holds a token.              *)
Refilled_Token(map) == {k \in DOMAIN map : Accrued(map[k]) >= Token}

(* The buckets that are back at capacity.                                  *)
Refilled(map) == {k \in DOMAIN map : Accrued(map[k]) >= Full}

(* The choices of buckets to evict besides: none within the limit, else    *)
(* the least recently updated until it is met.                             *)
Evictions(map) ==
    LET rest == DOMAIN map \ Refilled(map)
    IN IF Cardinality(rest) <= MaxEntries THEN {{}}
       ELSE {m \in SUBSET rest :
                /\ Cardinality(m) = Cardinality(rest) - MaxEntries
                /\ \A k \in m, l \in rest \ m : map[k].updated <= map[l].updated}

(* Mutant: rounded down, without the second added.                         *)
RetryAfter_Down(level) == (Token - level) \div PerMinute

(* The seconds until the bucket holds a token.                             *)
RetryAfter(level) == (Token - level) \div PerMinute + 1

-----------------------------------------------------------------------------
(* check finds no token: the bucket is refilled, the request is refused    *)
(* with Retry-After.                                                       *)
Refuse(k) ==
    /\ Level(k) < Token
    /\ buckets' = Put(k, Level(k))
    /\ promised' = [promised EXCEPT ![k] =
                       IF @ = NoPromise THEN now + RetryAfter(Level(k)) ELSE @]
    /\ UNCHANGED <<now, grants>>

(* check finds a token: it is consumed, the map is pruned if it is over    *)
(* its limit, and the request goes through.                                *)
Allow(k) ==
    /\ Level(k) >= Token
    /\ LET map == Put(k, Level(k) - Token)
       IN \/ /\ Cardinality(DOMAIN map) <= MaxEntries
             /\ buckets' = map
             /\ grants' = [grants EXCEPT ![k] = Append(@, now)]
          \/ /\ Cardinality(DOMAIN map) > MaxEntries
             /\ \E gone \in Evictions(map) :
                  /\ buckets' = [x \in DOMAIN map \ (Refilled(map) \cup gone) |-> map[x]]
                  /\ grants' = [x \in Keys |-> IF x \in gone THEN << >>
                                               ELSE IF x = k THEN Append(grants[k], now)
                                               ELSE grants[x]]
    /\ promised' = [promised EXCEPT ![k] = NoPromise]
    /\ UNCHANGED now

Tick ==
    /\ now < MaxTime
    /\ now' = now + 1
    /\ UNCHANGED <<buckets, grants, promised>>

check == \E k \in Keys : Refuse(k) \/ Allow(k)

Next == check \/ Tick

Spec == Init /\ [][Next]_vars

-----------------------------------------------------------------------------
(* Properties.                                                             *)

(* The rate limit, whatever the traffic of other clients makes the prune   *)
(* drop: between any two of its requests that were let through, a client   *)
(* had at most its burst and what accrued in the time between them.        *)
(* Dropping a refilled bucket is invisible ("they carry no state a fresh   *)
(* bucket wouldn't reproduce"); only evicting one that is not starts the   *)
(* count again.                                                            *)
WithinRate ==
    \A k \in Keys : \A i, j \in 1..Len(grants[k]) :
        i <= j => (j - i + 1) * Token <= Full + (grants[k][j] - grants[k][i]) * PerMinute

(* Retry-After is kept: a client that was refused and comes back at the    *)
(* time it was told is let through, however often it was refused again in  *)
(* between and whatever was pruned.                                        *)
PromiseKept ==
    \A k \in Keys : promised[k] # NoPromise /\ now >= promised[k] => Level(k) >= Token

(* The map is bounded, although only requests that go through prune it: a  *)
(* request that adds a bucket always goes through.                         *)
BucketsBounded == Cardinality(DOMAIN buckets) <= MaxEntries

=============================================================================
