---------------------------- MODULE LimitsProofs ----------------------------
(***************************************************************************)
(* The limits the program sets: the two rate limiters of ratelimit.py, and *)
(* the circuit breaker of scheduler.py.                                    *)
(*                                                                         *)
(* TokenBucket, for every rate, burst and limit on the map: the rate       *)
(* holds, Retry-After is kept and the map is bounded.  The argument is one *)
(* of conservation: what a client was let through since its i-th request,  *)
(* and what its bucket holds now, is at most a full bucket and what        *)
(* accrued since (Conserved).  Level counts a bucket that was dropped as   *)
(* full, so dropping a refilled one changes nothing.                       *)
(*                                                                         *)
(* LoginThrottle, for every number of attempts, window, lockout and number *)
(* of concurrent requests: the failures within a window length are         *)
(* bounded, and a key is locked only for failures of its own.  The         *)
(* argument ties an entry to the failures it stands for (EntryOK) and      *)
(* counts those with the attempts under way (CountsBounded).               *)
(*                                                                         *)
(* RefreshCycle, for every set of rows and stores, threshold, and number   *)
(* of edits and errors: a circuit is open exactly after a run of failures, *)
(* and a cycle that ends has accounted for every steady row.               *)
(***************************************************************************)
EXTENDS TokenBucket, LoginThrottle, RefreshCycle, FiniteSetTheorems, SequenceTheorems, TLAPS

Conserved ==
    \A k \in Keys : \A i \in 1..Len(grants[k]) :
        (Len(grants[k]) - i + 1) * Token + Level(k)
            <= Full + (now - grants[k][i]) * PerMinute

(* A promise not yet due is covered by what accrues until then.            *)
Covered ==
    \A k \in Keys : promised[k] # NoPromise =>
        \/ Level(k) >= Token
        \/ promised[k] > now /\ Level(k) + (promised[k] - now) * PerMinute >= Token

IInv == TypeOK /\ WithinRate /\ Conserved /\ Covered

-----------------------------------------------------------------------------
(* Arithmetic.                                                             *)

(* The capacity is a natural number of at least one token.                 *)
LEMMA FullType == Full \in Nat /\ Full >= Token
BY LimitsAssumption DEF Full, Token

(* What accrues is additive in time, ...                                   *)
LEMMA AccrualAdds ==
    ASSUME NEW a \in Int, NEW b \in Int
    PROVE  /\ a * PerMinute \in Int
           /\ (a + b) * PerMinute = a * PerMinute + b * PerMinute
BY LimitsAssumption

(* ... and never negative.                                                 *)
LEMMA AccrualNat == ASSUME NEW a \in Nat PROVE a * PerMinute \in Nat
BY LimitsAssumption

(* Retry-After is a positive number of seconds in which a token is made.   *)
LEMMA RetryAfterEnough ==
    ASSUME NEW level \in Nat, level < Token
    PROVE  /\ RetryAfter(level) \in Nat \ {0}
           /\ level + RetryAfter(level) * PerMinute >= Token
<1> DEFINE d == Token - level
<1> DEFINE q == d \div PerMinute
<1>1. d \in Nat /\ PerMinute \in Nat \ {0}
  BY LimitsAssumption DEF Token
<1> HIDE DEF d
<1>2. q \in Nat /\ d < q * PerMinute + PerMinute
  BY <1>1, Z3
<1>3. (q + 1) * PerMinute = q * PerMinute + PerMinute
  BY <1>1, <1>2
<1>4. RetryAfter(level) = q + 1
  BY DEF RetryAfter, d
<1> QED
  BY <1>1, <1>2, <1>3, <1>4 DEF Token, d

(* The two steps of conservation: a token moves from the bucket to the     *)
(* requests let through, ...                                               *)
LEMMA TokenMoves ==
    ASSUME NEW n \in Int, NEW i \in Int, NEW level \in Int, NEW bound \in Int,
           (n - i + 1) * Token + level <= bound
    PROVE  ((n + 1) - i + 1) * Token + (level - Token) <= bound
BY DEF Token

(* ... and time adds to the bucket at most what it adds to the bound.      *)
LEMMA TimeAdds ==
    ASSUME NEW n \in Int, NEW i \in Int, NEW level \in Int, NEW next \in Int,
           NEW t \in Int, NEW g \in Int,
           (n - i + 1) * Token + level <= Full + (t - g) * PerMinute,
           next <= level + PerMinute
    PROVE  (n - i + 1) * Token + next <= Full + ((t + 1) - g) * PerMinute
<1> DEFINE a == t - g
<1>1. a \in Int /\ (t + 1) - g = a + 1
  OBVIOUS
<1> HIDE DEF a
<1>2. a * PerMinute \in Int /\ (a + 1) * PerMinute = a * PerMinute + 1 * PerMinute
  <2>1. 1 \in Int
    OBVIOUS
  <2> QED
    BY <1>1, <2>1, AccrualAdds, Zenon
<1>3. PerMinute \in Nat /\ Full \in Nat
  BY LimitsAssumption, FullType
<1>4. (n - i + 1) * Token + level <= Full + a * PerMinute
  BY DEF a
<1> QED
  BY <1>1, <1>2, <1>3, <1>4 DEF Token

-----------------------------------------------------------------------------
(* What the steps do to a bucket's level.                                  *)

(* A bucket holds between nothing and its capacity.                        *)
LEMMA LevelType == ASSUME TypeOK, NEW k \in Keys PROVE Level(k) \in 0..Full
<1>1. CASE ~Tracked(k)
  BY <1>1, FullType DEF Level
<1>2. CASE Tracked(k)
  <2>1. buckets[k].tokens \in 0..Full /\ now - buckets[k].updated \in Nat
    BY <1>2 DEF TypeOK, Tracked
  <2>2. (now - buckets[k].updated) * PerMinute \in Nat
    BY <2>1, AccrualNat
  <2>3. Accrued(buckets[k]) \in Nat
    BY <2>1, <2>2, FullType DEF Accrued
  <2> QED
    BY <1>2, <2>3, FullType DEF Level
<1> QED
  BY <1>1, <1>2

(* A second adds the rate, up to the capacity.                             *)
LEMMA LevelTick ==
    ASSUME TypeOK, Tick, NEW k \in Keys
    PROVE  /\ Level(k)' \in {Full, Level(k) + PerMinute}
           /\ Level(k)' <= Level(k) + PerMinute
<1>0. Full \in Nat /\ PerMinute \in Nat
  BY FullType, LimitsAssumption
<1>1. CASE ~Tracked(k)
  <2>1. Level(k) = Full /\ Level(k)' = Full
    BY <1>1 DEF Level, Tracked, Tick, Full, Token
  <2> QED
    BY <1>0, <2>1
<1>2. CASE Tracked(k)
  <2> DEFINE a == Accrued(buckets[k])
  <2> DEFINE e == now - buckets[k].updated
  <2>1. buckets[k].tokens \in 0..Full /\ e \in Nat /\ now' - buckets[k].updated = e + 1
    BY <1>2 DEF TypeOK, Tracked, Tick
  <2>2. (e + 1) * PerMinute = e * PerMinute + PerMinute /\ e * PerMinute \in Nat
    <3> HIDE DEF e
    <3>1. e * PerMinute \in Nat
      BY <2>1, AccrualNat
    <3>2. (e + 1) * PerMinute = e * PerMinute + 1 * PerMinute
      BY <2>1, AccrualAdds
    <3> QED
      BY <1>0, <3>1, <3>2
  <2>3. a = buckets[k].tokens + e * PerMinute
    BY DEF Accrued
  <2>4. Accrued(buckets[k])' = buckets[k].tokens + (e + 1) * PerMinute
    BY <2>1 DEF Accrued, Tick
  <2>5. a \in Nat /\ Accrued(buckets[k])' = a + PerMinute
    <3> HIDE DEF e
    <3> QED
      BY <2>1, <2>2, <2>3, <2>4, <1>0
  <2>6. Level(k) = IF a > Full THEN Full ELSE a
    BY <1>2 DEF Level
  <2>7. Level(k)' = IF a + PerMinute > Full THEN Full ELSE a + PerMinute
    BY <1>2, <2>5 DEF Level, Tracked, Tick, Full, Token
  <2> HIDE DEF a
  <2> QED
    BY <1>0, <2>5, <2>6, <2>7
<1> QED
  BY <1>1, <1>2

(* A bucket that was just written holds what was written.                  *)
LEMMA JustWritten ==
    ASSUME now \in Nat, now' = now, NEW k, NEW n \in 0..Full, k \in DOMAIN buckets',
           buckets'[k] = [tokens |-> n, updated |-> now]
    PROVE  Level(k)' = n
<1>1. Accrued(buckets[k])' = n
  <2>1. (now - now) * PerMinute = 0
    BY LimitsAssumption
  <2> QED
    BY <2>1, FullType DEF Accrued
<1> QED
  BY <1>1, FullType DEF Level, Tracked, Full, Token

(* A bucket that is neither written nor dropped keeps its level.           *)
LEMMA Untouched ==
    ASSUME now' = now, NEW k, Tracked(k)' <=> Tracked(k),
           Tracked(k) => buckets'[k] = buckets[k]
    PROVE  Level(k)' = Level(k)
BY DEF Level, Tracked, Accrued, Full, Token

(* A refusal leaves every level as it is: it consumes nothing.             *)
LEMMA LevelRefuse ==
    ASSUME TypeOK, NEW k \in Keys, Refuse(k), NEW x \in Keys
    PROVE  Level(x)' = Level(x)
<1>0. now \in Nat /\ now' = now /\ buckets' = Put(k, Level(k))
  BY DEF TypeOK, Refuse
<1>1. CASE x = k
  <2>1. k \in DOMAIN buckets' /\ buckets'[k] = [tokens |-> Level(k), updated |-> now]
    BY <1>0 DEF Put
  <2> QED
    BY <1>0, <1>1, <2>1, LevelType, JustWritten
<1>2. CASE x # k
  <2>1. (Tracked(x)' <=> Tracked(x)) /\ (Tracked(x) => buckets'[x] = buckets[x])
    BY <1>0, <1>2 DEF Put, Tracked
  <2> QED
    BY <1>0, <2>1, Untouched
<1> QED
  BY <1>1, <1>2

(* A request that goes through takes one token of its own client's; every  *)
(* other bucket keeps its level, unless it is evicted with its history.    *)
LEMMA LevelAllow ==
    ASSUME TypeOK, NEW k \in Keys, Allow(k), NEW x \in Keys
    PROVE  \/ grants'[x] = << >> /\ Level(x)' = Full
           \/ x = k /\ grants'[k] = Append(grants[k], now) /\ Level(k)' = Level(k) - Token
           \/ x # k /\ grants'[x] = grants[x] /\ Level(x)' = Level(x)
<1> DEFINE map == Put(k, Level(k) - Token)
<1> DEFINE left == Level(k) - Token
<1>0. /\ now \in Nat /\ now' = now
      /\ left \in 0..Full /\ left < Full
  <2>1. now \in Nat /\ now' = now
    BY DEF TypeOK, Allow
  <2> DEFINE l == Level(k)
  <2>2. l \in 0..Full /\ l >= 60
    BY LevelType DEF Allow, Token
  <2> HIDE DEF l
  <2>3. l - 60 \in 0..Full /\ l - 60 < Full
    BY <2>2, FullType
  <2> QED BY <2>1, <2>3 DEF l, Token
<1>1. /\ DOMAIN map = DOMAIN buckets \cup {k}
      /\ map[k] = [tokens |-> left, updated |-> now]
      /\ \A y \in DOMAIN buckets : y # k => map[y] = buckets[y]
  BY DEF Put
<1>2. k \notin Refilled(map)
  <2>1. (now - now) * PerMinute = 0
    BY <1>0, LimitsAssumption
  <2>2. Accrued(map[k]) = left
    BY <1>0, <1>1, <2>1 DEF Accrued
  <2> QED
    BY <1>0, <2>2, FullType DEF Refilled
<1> HIDE DEF map
<1>3. ASSUME NEW gone, gone \subseteq DOMAIN map \ Refilled(map),
             buckets' = [y \in DOMAIN map \ (Refilled(map) \cup gone) |-> map[y]],
             grants' = [y \in Keys |-> IF y \in gone THEN << >>
                                        ELSE IF y = k THEN Append(grants[k], now)
                                        ELSE grants[y]]
      PROVE  \/ grants'[x] = << >> /\ Level(x)' = Full
             \/ x = k /\ grants'[k] = Append(grants[k], now) /\ Level(k)' = left
             \/ x # k /\ grants'[x] = grants[x] /\ Level(x)' = Level(x)
  <2>1. CASE x \in gone
    <3>1. ~Tracked(x)'
      BY <1>3, <2>1 DEF Tracked
    <3> QED
      BY <1>3, <2>1, <3>1 DEF Level, Full, Token
  <2>2. CASE x \notin gone /\ x = k
    <3>1. k \in DOMAIN buckets' /\ buckets'[k] = [tokens |-> left, updated |-> now]
      BY <1>1, <1>2, <1>3, <2>2
    <3>2. Level(k)' = left
      BY <1>0, <3>1, JustWritten
    <3> QED
      BY <1>3, <2>2, <3>2
  <2>3. CASE x \notin gone /\ x # k /\ x \in Refilled(map)
    <3>1. Tracked(x) /\ map[x] = buckets[x] /\ Accrued(map[x]) >= Full
      BY <1>1, <2>3 DEF Refilled, Tracked
    <3>2. Level(x) = Full
      <4>1. Level(x) \in 0..Full
        BY LevelType
      <4> QED
        BY <3>1, <4>1, FullType DEF Level
    <3>3. Level(x)' = Full
      BY <1>3, <2>3 DEF Level, Tracked, Full, Token
    <3> QED
      BY <1>3, <2>3, <3>2, <3>3
  <2>4. CASE x \notin gone /\ x # k /\ x \notin Refilled(map)
    <3>1. (Tracked(x)' <=> Tracked(x)) /\ (Tracked(x) => buckets'[x] = buckets[x])
      BY <1>1, <1>3, <2>4 DEF Tracked
    <3> QED
      BY <1>0, <1>3, <2>4, <3>1, Untouched
  <2> QED
    BY <2>1, <2>2, <2>3, <2>4
<1>4. CASE buckets' = map /\ grants' = [grants EXCEPT ![k] = Append(@, now)]
  <2>1. CASE x = k
    <3>1. Level(k)' = left
      BY <1>0, <1>1, <1>4, JustWritten
    <3> QED
      BY <1>4, <2>1, <3>1 DEF TypeOK
  <2>2. CASE x # k
    <3>1. (Tracked(x)' <=> Tracked(x)) /\ (Tracked(x) => buckets'[x] = buckets[x])
      BY <1>1, <1>4, <2>2 DEF Tracked
    <3> QED
      BY <1>0, <1>4, <2>2, <3>1, Untouched DEF TypeOK
  <2> QED
    BY <2>1, <2>2
<1>5. CASE \E gone \in Evictions(map) :
              /\ buckets' = [y \in DOMAIN map \ (Refilled(map) \cup gone) |-> map[y]]
              /\ grants' = [y \in Keys |-> IF y \in gone THEN << >>
                                            ELSE IF y = k THEN Append(grants[k], now)
                                            ELSE grants[y]]
  <2>1. \A gone \in Evictions(map) : gone \subseteq DOMAIN map \ Refilled(map)
    BY DEF Evictions
  <2> QED
    BY <1>3, <1>5, <2>1
<1> QED
  BY <1>4, <1>5 DEF Allow, map

-----------------------------------------------------------------------------
(* Type correctness.                                                       *)

(* The initial states are well-typed.                                      *)
LEMMA InitType == Init => TypeOK
<1> SUFFICES ASSUME Init PROVE TypeOK
  OBVIOUS
<1>1. DOMAIN buckets = {}
  BY DEF Init
<1> QED
  BY <1>1, EntriesAssumption DEF Init, TypeOK, NoPromise

(* What Put writes is well-typed.                                          *)
LEMMA PutType ==
    ASSUME TypeOK, NEW k \in Keys, NEW n \in 0..Full
    PROVE  /\ DOMAIN Put(k, n) \subseteq Keys
           /\ \A x \in DOMAIN Put(k, n) : Put(k, n)[x] \in [tokens : 0..Full, updated : 0..now]
<1>1. now \in 0..now
  BY LimitsAssumption DEF TypeOK
<1> QED
  BY <1>1 DEF TypeOK, Put

(* Every step keeps the types.                                             *)
LEMMA TypeStep == TypeOK /\ [Next]_vars => TypeOK'
<1> SUFFICES ASSUME TypeOK, [Next]_vars PROVE TypeOK'
  OBVIOUS
<1>1. ASSUME NEW k \in Keys, Refuse(k) PROVE TypeOK'
  <2>1. Level(k) \in 0..Full /\ Level(k) \in Nat /\ Level(k) < Token
    BY <1>1, LevelType, FullType DEF Refuse
  <2>2. now + RetryAfter(Level(k)) \in Int
    BY <2>1, RetryAfterEnough DEF TypeOK
  <2>3. promised' \in [Keys -> Int]
    BY <1>1, <2>2 DEF TypeOK, Refuse
  <2>4. Full' = Full
    BY DEF Full, Token
  <2> QED
    BY <1>1, <2>1, <2>3, <2>4, PutType DEF TypeOK, Refuse
<1>2. ASSUME NEW k \in Keys, Allow(k) PROVE TypeOK'
  <2> DEFINE map == Put(k, Level(k) - Token)
  <2>1. Level(k) - Token \in 0..Full
    BY <1>2, LevelType, FullType DEF Allow, Token
  <2>2. /\ DOMAIN map \subseteq Keys
        /\ \A x \in DOMAIN map : map[x] \in [tokens : 0..Full, updated : 0..now]
    BY <2>1, PutType
  <2> HIDE DEF map
  <2>3. \E S \in SUBSET DOMAIN map : buckets' = [x \in S |-> map[x]]
    <3>1. map = [x \in DOMAIN map |-> map[x]]
      BY DEF map, Put
    <3> QED
      BY <1>2, <3>1 DEF Allow, map
  <2>4. now \in 0..now /\ now' = now
    BY <1>2, LimitsAssumption DEF TypeOK, Allow
  <2>5. grants' \in [Keys -> Seq(0..now)]
    <3>1. Append(grants[k], now) \in Seq(0..now) /\ << >> \in Seq(0..now)
      BY <2>4 DEF TypeOK
    <3> QED
      BY <1>2, <3>1 DEF Allow, TypeOK
  <2>6. promised' \in [Keys -> Int]
    BY <1>2 DEF Allow, TypeOK, NoPromise
  <2>7. /\ DOMAIN buckets' \subseteq Keys
        /\ \A x \in DOMAIN buckets' : buckets'[x] \in [tokens : 0..Full, updated : 0..now]
    BY <2>2, <2>3
  <2> QED
    BY <2>4, <2>5, <2>6, <2>7 DEF TypeOK, Full, Token
<1>3. CASE Tick
  <2>1. now' \in 0..MaxTime /\ 0..now \subseteq 0..now'
    BY <1>3, EntriesAssumption DEF Tick, TypeOK
  <2>2. \A s \in Seq(0..now) : s \in Seq(0..now')
    BY <2>1, SeqMonotonic, Zenon
  <2> QED
    BY <1>3, <2>1, <2>2 DEF Tick, TypeOK, Full, Token
<1>4. CASE UNCHANGED vars
  BY <1>4 DEF TypeOK, vars, Full, Token
<1> QED
  BY <1>1, <1>2, <1>3, <1>4 DEF Next, check

-----------------------------------------------------------------------------
(* The rate.                                                               *)

(* Conservation is kept by every step, ...                                 *)
LEMMA ConservedStep == TypeOK /\ Conserved /\ [Next]_vars => Conserved'
<1> SUFFICES ASSUME TypeOK, Conserved, [Next]_vars,
                    NEW x \in Keys, NEW i \in 1..Len(grants'[x])
             PROVE  (Len(grants'[x]) - i + 1) * Token + Level(x)'
                       <= Full + (now' - grants'[x][i]) * PerMinute
  BY DEF Conserved, Full, Token
<1>0. /\ now \in Nat /\ grants[x] \in Seq(0..now) /\ Len(grants[x]) \in Nat
      /\ Level(x) \in 0..Full /\ Full \in Nat /\ PerMinute \in Nat
  BY LevelType, FullType, LimitsAssumption DEF TypeOK
<1>1. ASSUME NEW k \in Keys, Refuse(k)
      PROVE  (Len(grants'[x]) - i + 1) * Token + Level(x)'
                <= Full + (now' - grants'[x][i]) * PerMinute
  BY <1>1, LevelRefuse DEF Refuse, Conserved
<1>2. ASSUME NEW k \in Keys, Allow(k)
      PROVE  (Len(grants'[x]) - i + 1) * Token + Level(x)'
                <= Full + (now' - grants'[x][i]) * PerMinute
  <2>0. now' = now
    BY <1>2 DEF Allow
  <2>1. CASE grants'[x] = << >>
    BY <2>1
  <2>2. CASE x = k /\ grants'[x] = Append(grants[x], now) /\ Level(x)' = Level(x) - Token
    <3>1. CASE i = Len(grants[x]) + 1
      <4>1. grants'[x][i] = now /\ Len(grants'[x]) = i
        BY <1>0, <2>2, <3>1
      <4>2. (now - now) * PerMinute = 0
        BY <1>0
      <4>3. Len(grants'[x]) - i + 1 = 1 /\ (now' - grants'[x][i]) * PerMinute = 0
        BY <1>0, <2>0, <3>1, <4>1, <4>2
      <4>4. (Len(grants'[x]) - i + 1) * Token = 60
        BY <4>3 DEF Token
      <4>5. Level(x)' = Level(x) - 60 /\ Level(x) \in 0..Full /\ Full \in Nat
        BY <1>0, <2>2 DEF Token
      <4>6. 60 + Level(x)' <= Full + 0
        BY <4>5
      <4> QED
        BY <4>3, <4>4, <4>6
    <3>2. CASE i \in 1..Len(grants[x])
      <4>1. grants'[x][i] = grants[x][i] /\ Len(grants'[x]) = Len(grants[x]) + 1
        BY <1>0, <2>2, <3>2
      <4>2. (Len(grants[x]) - i + 1) * Token + Level(x)
               <= Full + (now - grants[x][i]) * PerMinute
        BY <3>2 DEF Conserved
      <4>3. Full + (now - grants[x][i]) * PerMinute \in Int
        BY <1>0, <3>2, AccrualAdds
      <4>4. ((Len(grants[x]) + 1) - i + 1) * Token + (Level(x) - Token)
               <= Full + (now - grants[x][i]) * PerMinute
        <5>1. Len(grants[x]) \in Int /\ i \in Int /\ Level(x) \in Int
          BY <1>0, <3>2
        <5> QED
          BY <4>2, <4>3, <5>1, TokenMoves, Zenon
      <4> QED
        BY <2>0, <2>2, <4>1, <4>4
    <3> QED
      BY <1>0, <2>2, <3>1, <3>2
  <2>3. CASE grants'[x] = grants[x] /\ Level(x)' = Level(x)
    BY <2>0, <2>3 DEF Conserved
  <2> QED
    BY <1>2, <2>1, <2>2, <2>3, LevelAllow
<1>3. CASE Tick
  <2>1. grants' = grants /\ now' = now + 1
    BY <1>3 DEF Tick
  <2>2. (Len(grants[x]) - i + 1) * Token + Level(x)
           <= Full + (now - grants[x][i]) * PerMinute
    BY <2>1 DEF Conserved
  <2>3. grants[x][i] \in 0..now
    BY <1>0, <2>1
  <2>4. Level(x)' <= Level(x) + PerMinute /\ Level(x)' \in Int
    BY <1>0, <1>3, LevelTick
  <2>5. (Len(grants[x]) - i + 1) * Token + Level(x)'
           <= Full + ((now + 1) - grants[x][i]) * PerMinute
    <3>1. /\ Len(grants[x]) \in Int /\ i \in Int /\ Level(x) \in Int
          /\ now \in Int /\ grants[x][i] \in Int
      BY <1>0, <2>3
    <3> QED
      BY <2>2, <2>4, <3>1, TimeAdds, Zenon
  <2> QED
    BY <2>1, <2>5
<1>4. CASE UNCHANGED vars
  <2>1. Level(x)' = Level(x)
    BY <1>4, Untouched DEF vars, Tracked
  <2> QED
    BY <1>4, <2>1 DEF vars, Conserved
<1> QED
  BY <1>1, <1>2, <1>3, <1>4 DEF Next, check

(* ... and with it the rate: a new request is the last one of its client,  *)
(* so that Conserved bounds every stretch that ends with it.               *)
LEMMA RateStep == TypeOK /\ Conserved /\ WithinRate /\ [Next]_vars => WithinRate'
<1> SUFFICES ASSUME TypeOK, Conserved, WithinRate, [Next]_vars,
                    NEW x \in Keys, NEW i \in 1..Len(grants'[x]), NEW j \in 1..Len(grants'[x]),
                    i <= j
             PROVE  (j - i + 1) * Token <= Full + (grants'[x][j] - grants'[x][i]) * PerMinute
  BY DEF WithinRate, Full, Token
<1>1. CASE grants'[x] = grants[x]
  BY <1>1 DEF WithinRate
<1>2. ASSUME NEW k \in Keys, Allow(k), grants'[x] # grants[x]
      PROVE  (j - i + 1) * Token <= Full + (grants'[x][j] - grants'[x][i]) * PerMinute
  <2>1. CASE grants'[x] = << >>
    BY <2>1
  <2>2. CASE grants'[x] = Append(grants[x], now)
    <3>0. grants[x] \in Seq(0..now) /\ Len(grants[x]) \in Nat
      BY DEF TypeOK
    <3>1. CASE j \in 1..Len(grants[x])
      <4>1. grants'[x][j] = grants[x][j] /\ grants'[x][i] = grants[x][i] /\ i \in 1..Len(grants[x])
        BY <2>2, <3>0, <3>1
      <4> QED
        BY <3>1, <4>1 DEF WithinRate
    <3>2. CASE j = Len(grants[x]) + 1
      <4>1. grants'[x][j] = now /\ Len(grants'[x]) = j /\ now' = now
        BY <1>2, <2>2, <3>0, <3>2 DEF Allow
      <4>2. Conserved' /\ TypeOK'
        BY ConservedStep, TypeStep
      <4>3. (j - i + 1) * Token + Level(x)' <= Full + (now - grants'[x][i]) * PerMinute
        BY <4>1, <4>2 DEF Conserved, Full, Token
      <4>4. Level(x)' \in Nat /\ grants'[x][i] \in Int /\ now \in Int /\ Full \in Nat
        <5>1. Level(x) \in 0..Full /\ Level(k) \in 0..Full /\ Level(k) >= Token
          BY <1>2, LevelType DEF Allow
        <5>2. Level(x)' \in {Full, Level(k) - Token, Level(x)}
          BY <1>2, LevelAllow
        <5>3. Level(x)' \in Nat
          BY <5>1, <5>2, FullType DEF Token
        <5>4. now \in Int /\ grants'[x] \in Seq(0..now')
          BY <4>2, LimitsAssumption DEF TypeOK
        <5>5. grants'[x][i] \in 0..now'
          BY <5>4, ElementOfSeq
        <5>6. grants'[x][i] \in Int
          BY <5>5
        <5> QED
          BY <5>3, <5>4, <5>6, FullType
      <4>5. (now - grants'[x][i]) * PerMinute \in Int
        <5> DEFINE d == now - grants'[x][i]
        <5>1. d \in Int
          BY <4>4
        <5> HIDE DEF d
        <5>2. d * PerMinute \in Int
          BY <5>1, LimitsAssumption
        <5> QED
          BY <5>2 DEF d
      <4> DEFINE L == Level(x)'
      <4> DEFINE D == (now - grants'[x][i]) * PerMinute
      <4> DEFINE C == (j - i + 1) * Token
      <4>6. C \in Int
        BY <3>0, <3>2, <4>1 DEF Token
      <4>7. C + L <= Full + D /\ L \in Nat /\ D \in Int /\ Full \in Nat
        BY <4>3, <4>4, <4>5
      <4> HIDE DEF L, D, C
      <4>8. C <= Full + D
        BY ONLY <4>6, <4>7
      <4> QED
        BY <4>1, <4>8 DEF C, D
    <3> QED
      BY <2>2, <3>0, <3>1, <3>2
  <2> QED
    BY <1>2, <2>1, <2>2, LevelAllow
<1> QED
  BY <1>1, <1>2 DEF Next, check, Refuse, Tick, vars

-----------------------------------------------------------------------------
(* Retry-After.                                                            *)

(* A promise stays covered: time brings it nearer by what it adds, a       *)
(* refusal takes nothing, and a request that goes through ends it.         *)
LEMMA CoveredStep == TypeOK /\ Covered /\ [Next]_vars => Covered'
<1> SUFFICES ASSUME TypeOK, Covered, [Next]_vars,
                    NEW x \in Keys, promised'[x] # NoPromise
             PROVE  \/ Level(x)' >= Token
                    \/ /\ promised'[x] > now'
                       /\ Level(x)' + (promised'[x] - now') * PerMinute >= Token
  BY DEF Covered, Token, NoPromise
<1>0. /\ now \in Nat /\ promised[x] \in Int /\ Level(x) \in 0..Full
      /\ Full \in Nat /\ Full >= Token /\ PerMinute \in Nat
  BY LevelType, FullType, LimitsAssumption DEF TypeOK
<1>1. ASSUME NEW k \in Keys, Refuse(k)
      PROVE  \/ Level(x)' >= Token
             \/ /\ promised'[x] > now'
                /\ Level(x)' + (promised'[x] - now') * PerMinute >= Token
  <2>1. now' = now /\ Level(x)' = Level(x)
    BY <1>1, LevelRefuse DEF Refuse
  <2>2. CASE promised'[x] = promised[x]
    BY <2>1, <2>2 DEF Covered
  <2>3. CASE promised'[x] # promised[x]
    <3>1. x = k /\ promised'[x] = now + RetryAfter(Level(x)) /\ Level(x) < Token
      BY <1>1, <2>3 DEF Refuse, TypeOK
    <3>2. /\ RetryAfter(Level(x)) \in Nat \ {0}
          /\ Level(x) + RetryAfter(Level(x)) * PerMinute >= Token
      BY <1>0, <3>1, RetryAfterEnough
    <3>3. promised'[x] > now /\ promised'[x] - now = RetryAfter(Level(x))
      BY <1>0, <3>1, <3>2
    <3> QED
      BY <2>1, <3>2, <3>3
  <2> QED
    BY <2>2, <2>3
<1>3. ASSUME NEW k \in Keys, Allow(k)
      PROVE  \/ Level(x)' >= Token
             \/ /\ promised'[x] > now'
                /\ Level(x)' + (promised'[x] - now') * PerMinute >= Token
  <2>1. x # k /\ promised'[x] = promised[x] /\ now' = now
    BY <1>3 DEF Allow, TypeOK, NoPromise
  <2>2. Level(x)' = Full \/ Level(x)' = Level(x)
    BY <1>3, <2>1, LevelAllow
  <2> QED
    BY <1>0, <2>1, <2>2 DEF Covered
<1>4. CASE Tick
  <2>1. promised' = promised /\ now' = now + 1
    BY <1>4 DEF Tick
  <2>2. Level(x)' = Full \/ Level(x)' = Level(x) + PerMinute
    BY <1>4, LevelTick
  <2>3. CASE Level(x)' = Full
    BY <1>0, <2>3
  <2>4. CASE Level(x)' = Level(x) + PerMinute /\ Level(x) >= Token
    BY <1>0, <2>4 DEF Token
  <2>5. CASE /\ Level(x)' = Level(x) + PerMinute /\ promised[x] > now
             /\ Level(x) + (promised[x] - now) * PerMinute >= Token
    <3> DEFINE d == promised[x] - (now + 1)
    <3>1. d \in Nat /\ promised[x] - now = d + 1 /\ 1 \in Int /\ d \in Int
      BY <1>0, <2>5
    <3>2. d # 0 => promised[x] > now + 1
      <4>1. promised[x] > now /\ now \in Int /\ promised[x] \in Int
        BY <1>0, <2>5
      <4> QED
        BY <4>1, Z3
    <3> HIDE DEF d
    <3>3. d * PerMinute \in Int /\ (d + 1) * PerMinute = d * PerMinute + 1 * PerMinute
      BY <3>1, AccrualAdds, Zenon
    <3>4. Level(x)' + d * PerMinute >= Token
      BY <1>0, <2>5, <3>1, <3>3 DEF Token
    <3>5. CASE d = 0
      <4>1. 0 * PerMinute = 0
        BY <1>0
      <4> QED
        BY <1>0, <2>5, <3>4, <3>5, <4>1 DEF Token
    <3>6. CASE d # 0
      BY <2>1, <3>2, <3>4, <3>6 DEF d
    <3> QED
      BY <3>5, <3>6
  <2> QED
    BY <2>1, <2>2, <2>3, <2>4, <2>5 DEF Covered
<1>5. CASE UNCHANGED vars
  <2>1. Level(x)' = Level(x)
    BY <1>5, Untouched DEF vars, Tracked
  <2> QED
    BY <1>5, <2>1 DEF vars, Covered
<1> QED
  BY <1>1, <1>3, <1>4, <1>5 DEF Next, check

-----------------------------------------------------------------------------
(* The bound on the map.                                                   *)

Bounded == IsFiniteSet(DOMAIN buckets) /\ BucketsBounded

(* Only a request that goes through can add a bucket, and it prunes.       *)
LEMMA BoundedStep == TypeOK /\ Bounded /\ [Next]_vars => Bounded'
<1> SUFFICES ASSUME TypeOK, Bounded, [Next]_vars PROVE Bounded'
  OBVIOUS
<1>1. ASSUME NEW k \in Keys, Refuse(k) PROVE Bounded'
  <2>1. Tracked(k)
    BY <1>1, FullType DEF Refuse, Level, Token
  <2>2. DOMAIN buckets' = DOMAIN buckets
    BY <1>1, <2>1 DEF Refuse, Put, Tracked
  <2> QED
    BY <2>2 DEF Bounded, BucketsBounded
<1>2. ASSUME NEW k \in Keys, Allow(k) PROVE Bounded'
  <2> DEFINE map == Put(k, Level(k) - Token)
  <2>1. DOMAIN map = DOMAIN buckets \cup {k}
    BY DEF Put
  <2>2. IsFiniteSet(DOMAIN map)
    BY <2>1, FS_AddElement DEF Bounded
  <2> HIDE DEF map
  <2>3. CASE Cardinality(DOMAIN map) <= MaxEntries /\ buckets' = map
    BY <2>2, <2>3 DEF Bounded, BucketsBounded
  <2>4. ASSUME NEW gone \in Evictions(map),
               DOMAIN buckets' = DOMAIN map \ (Refilled(map) \cup gone)
        PROVE  Bounded'
    <3> DEFINE rest == DOMAIN map \ Refilled(map)
    <3>1. IsFiniteSet(rest) /\ Cardinality(rest) \in Nat
      BY <2>2, FS_Difference, FS_CardinalityType
    <3>2. DOMAIN buckets' = rest \ gone
      BY <2>4
    <3>3. /\ IsFiniteSet(rest \ gone)
          /\ Cardinality(rest \ gone) = Cardinality(rest) - Cardinality(rest \cap gone)
      BY <3>1, FS_Difference
    <3>4. \/ Cardinality(rest) <= MaxEntries /\ gone = {}
          \/ gone \subseteq rest /\ Cardinality(gone) = Cardinality(rest) - MaxEntries
      BY <2>4 DEF Evictions
    <3> HIDE DEF rest
    <3>5. CASE Cardinality(rest) <= MaxEntries /\ gone = {}
      <4>1. rest \ gone = rest
        BY <3>5
      <4> QED
        BY <3>1, <3>2, <3>5, <4>1 DEF Bounded, BucketsBounded
    <3>6. CASE gone \subseteq rest /\ Cardinality(gone) = Cardinality(rest) - MaxEntries
      <4>1. rest \cap gone = gone
        BY <3>6
      <4>2. Cardinality(rest \ gone) = MaxEntries
        BY <3>1, <3>3, <3>6, <4>1, EntriesAssumption
      <4> QED
        BY <3>2, <3>3, <4>2, EntriesAssumption DEF Bounded, BucketsBounded
    <3> QED
      BY <3>4, <3>5, <3>6
  <2> QED
    BY <1>2, <2>3, <2>4 DEF Allow, map
<1>3. CASE Tick \/ UNCHANGED vars
  BY <1>3 DEF Tick, vars, Bounded, BucketsBounded
<1> QED
  BY <1>1, <1>2, <1>3 DEF Next, check

-----------------------------------------------------------------------------
(* The theorems.                                                           *)

(* The state of the limiter is always well-typed: in particular no bucket  *)
(* holds less than nothing or more than its burst.                         *)
THEOREM TypeCorrect == Spec => []TypeOK
BY InitType, TypeStep, PTL DEF Spec

(* The inductive invariant.                                                *)
LEMMA Invariance == Spec => []IInv
<1>1. Init => IInv
  <2> SUFFICES ASSUME Init PROVE WithinRate /\ Conserved /\ Covered
    BY InitType DEF IInv
  <2>1. \A k \in Keys : Len(grants[k]) = 0 /\ promised[k] = NoPromise
    BY DEF Init
  <2> QED
    BY <2>1 DEF WithinRate, Conserved, Covered
<1>2. IInv /\ [Next]_vars => IInv'
  BY TypeStep, ConservedStep, RateStep, CoveredStep DEF IInv
<1> QED
  BY <1>1, <1>2, PTL DEF Spec

(* A client is never let through faster than its burst and the sustained   *)
(* rate allow, whatever the prune drops (check, _maybe_prune).             *)
THEOREM RateHolds == Spec => []WithinRate
<1>1. IInv => WithinRate
  BY DEF IInv
<1> QED
  BY <1>1, Invariance, PTL

(* A client that waits the Retry-After it was given is let through         *)
(* (check).                                                                *)
THEOREM RetryAfterHolds == Spec => []PromiseKept
<1>1. IInv => PromiseKept
  <2> SUFFICES ASSUME IInv, NEW k \in Keys, promised[k] # NoPromise, now >= promised[k]
               PROVE  Level(k) >= Token
    BY DEF PromiseKept
  <2>1. now \in Int /\ promised[k] \in Int
    BY DEF IInv, TypeOK
  <2> QED
    BY <2>1 DEF IInv, Covered
<1> QED
  BY <1>1, Invariance, PTL

(* The map never holds more than _MAX_ENTRIES buckets (_maybe_prune).      *)
THEOREM MapBounded == Spec => []BucketsBounded
<1>1. Init => Bounded
  <2> SUFFICES ASSUME Init PROVE Bounded
    OBVIOUS
  <2>1. DOMAIN buckets = {}
    BY DEF Init
  <2> QED
    BY <2>1, FS_EmptySet, EntriesAssumption DEF Bounded, BucketsBounded
<1>2. TypeOK /\ Bounded /\ [Next]_vars => Bounded'
  BY BoundedStep
<1>3. Bounded => BucketsBounded
  BY DEF Bounded
<1> QED
  BY <1>1, <1>2, <1>3, TypeCorrect, PTL DEF Spec

-----------------------------------------------------------------------------
(* The failed-login throttle.                                              *)
(*                                                                         *)
(* What an entry e knows of the failures s of its key, at the time n: the  *)
(* last ones are its own and lie within its window, those before are not   *)
(* after its start, and the lock is set by the last.                       *)
EntryOK(e, s, n) ==
    /\ e \in Entry
    /\ s \in Seq(0..n)
    /\ e.failures \in 1..Len(s)
    /\ \A i, j \in 1..Len(s) : i <= j => s[i] <= s[j]
    /\ \A i \in 1..Len(s) : IF i + e.failures > Len(s)
                            THEN e.window_start <= s[i] /\ s[i] <= e.window_start + Window
                            ELSE s[i] <= e.window_start
    /\ e.locked_until = IF e.failures >= MaxAttempts THEN s[Len(s)] + Lockout ELSE 0

(* A key that is counted has such an entry, any other has no failures to   *)
(* account for.                                                            *)
EntriesOK ==
    /\ now \in Nat
    /\ DOMAIN entries \subseteq Logins
    /\ slot \in [Slots -> Logins \cup {Free}]
    /\ failed \in [Logins -> Seq(0..now)]
    /\ \A k \in Logins : IF Counting(k) THEN EntryOK(entries[k], failed[k], now)
                                        ELSE failed[k] = << >>

(* The failures of s an entry counts that are recent at the time n, those  *)
(* before it that are recent at its start, and the attempts at k that      *)
(* are under way.                                                          *)
Latest(e, s, n) ==
    {i \in 1..Len(s) : i + e.failures > Len(s) /\ n - s[i] < Window}
Earlier(e, s) ==
    {i \in 1..Len(s) : i + e.failures <= Len(s) /\ e.window_start - s[i] < Window}
Pending(k, sl) == {r \in Slots : sl[r] = k}

(* While a key is locked, no attempt at it begins: the failures that are   *)
(* recent and the attempts that can still fail trade places.               *)
LatestBounded(k) ==
    Locked(k) => Cardinality(Latest(entries[k], failed[k], now)) + Cardinality(Pending(k, slot))
                    <= MaxAttempts + Cardinality(Slots) - 1

(* A window that is replaced was no fuller than that, the attempt that     *)
(* replaced it among them.                                                 *)
EarlierBounded(k) ==
    Cardinality(Earlier(entries[k], failed[k])) <= MaxAttempts + Cardinality(Slots) - 2

(* What bounds the failures of a key.                                      *)
CountsBounded == \A k \in Logins : Counting(k) => LatestBounded(k) /\ EarlierBounded(k)

(* The inductive invariant.                                                *)
LoginInv == EntriesOK /\ (Lockout >= Window => CountsBounded)

-----------------------------------------------------------------------------
(* The settings as numbers.                                                *)
LEMMA Settings ==
    /\ MaxAttempts \in Nat \ {0} /\ Window \in Nat /\ Lockout \in Nat
    /\ IsFiniteSet(Slots) /\ Cardinality(Slots) \in Nat \ {0}
<1>1. IsFiniteSet(Slots) /\ Slots # {}
  BY SettingsAssumption
<1>2. Cardinality(Slots) \in Nat /\ Cardinality(Slots) # 0
  BY <1>1, FS_CardinalityType, FS_EmptySet
<1> QED BY <1>1, <1>2, SettingsAssumption

(* A failure added to the history.                                         *)
LEMMA Appended ==
    ASSUME NEW n \in Nat, NEW s \in Seq(0..n)
    PROVE  /\ Append(s, n) \in Seq(0..n) /\ Len(s) \in Nat
           /\ Len(Append(s, n)) = Len(s) + 1
           /\ \A i \in 1..Len(s) : Append(s, n)[i] = s[i] /\ s[i] \in 0..n
           /\ Append(s, n)[Len(s) + 1] = n
<1>1. n \in 0..n
  OBVIOUS
<1> QED BY <1>1

(* The numbers of an entry.                                                *)
LEMMA EntryFacts ==
    ASSUME NEW e, NEW s, NEW n \in Nat, EntryOK(e, s, n)
    PROVE  /\ e.failures \in 1..Len(s) /\ e.failures \in Nat
           /\ e.window_start \in Nat /\ e.locked_until \in Nat
           /\ Len(s) \in Nat /\ \A i \in 1..Len(s) : s[i] \in 0..n /\ s[i] \in Nat
<1>1. e \in Entry /\ s \in Seq(0..n) /\ e.failures \in 1..Len(s)
  BY DEF EntryOK
<1>2. e.failures \in Nat /\ e.window_start \in Nat /\ e.locked_until \in Nat
  BY <1>1 DEF Entry
<1>3. Len(s) \in Nat /\ \A i \in 1..Len(s) : s[i] \in 0..n /\ s[i] \in Nat
  BY <1>1
<1> QED BY <1>1, <1>2, <1>3

(* What counting makes of an entry.                                        *)
LEMMA CountedIs ==
    ASSUME NEW e \in Entry, now \in Nat
    PROVE  /\ Counted(e) \in Entry
           /\ Counted(e).failures = e.failures + 1
           /\ Counted(e).window_start = e.window_start
           /\ Counted(e).locked_until = IF e.failures + 1 >= MaxAttempts THEN now + Lockout ELSE e.locked_until
<1> DEFINE f == e.failures + 1
<1> DEFINE u == IF e.failures + 1 >= MaxAttempts THEN now + Lockout ELSE e.locked_until
<1> DEFINE x == Counted(e)
<1>1. f \in Nat /\ u \in Nat
  BY Settings DEF Entry
<1>2. x = [e EXCEPT !.failures = f, !.locked_until = u]
  BY Zenon DEF Counted
<1> HIDE DEF f, u, x
<1>3. x \in Entry /\ x.failures = f /\ x.window_start = e.window_start /\ x.locked_until = u
  BY <1>1, <1>2 DEF Entry
<1> QED BY <1>3 DEF f, u, x

(* A failure counted in the entry it falls in.                             *)
LEMMA Continued ==
    ASSUME NEW s, NEW e, now \in Nat, EntryOK(e, s, now), now - e.window_start <= Window
    PROVE  EntryOK(Counted(e), Append(s, now), now)
<1>1. /\ Append(s, now) \in Seq(0..now) /\ Len(s) \in Nat
      /\ Len(Append(s, now)) = Len(s) + 1
      /\ \A i \in 1..Len(s) : Append(s, now)[i] = s[i] /\ s[i] \in 0..now
      /\ Append(s, now)[Len(s) + 1] = now
  BY Appended DEF EntryOK
<1>2. e \in Entry /\ e.failures \in 1..Len(s) /\ e.window_start \in Nat
  BY DEF EntryOK, Entry
<1>3. /\ Counted(e).failures = e.failures + 1 /\ Counted(e).window_start = e.window_start
      /\ Counted(e).locked_until = IF e.failures + 1 >= MaxAttempts THEN now + Lockout ELSE e.locked_until
  BY <1>2, CountedIs
<1>4. Counted(e) \in Entry
  BY <1>2, CountedIs
<1>5. e.window_start <= now
  <2>1. e.window_start <= s[Len(s)] /\ s[Len(s)] <= now
    BY <1>1, <1>2 DEF EntryOK
  <2> QED BY <1>1, <1>2, <2>1
<1>6. \A i, j \in 1..Len(Append(s, now)) : i <= j => Append(s, now)[i] <= Append(s, now)[j]
  <2> DEFINE t == Append(s, now)
  <2>1. Len(s) \in Nat /\ Len(t) = Len(s) + 1 /\ t[Len(s) + 1] = now
        /\ \A i \in 1..Len(s) : t[i] = s[i] /\ t[i] \in Nat /\ t[i] <= now
    BY <1>1
  <2>2. \A i, j \in 1..Len(s) : i <= j => s[i] <= s[j]
    BY DEF EntryOK
  <2> SUFFICES ASSUME NEW i \in 1..Len(t), NEW j \in 1..Len(t), i <= j PROVE t[i] <= t[j]
    OBVIOUS
  <2> HIDE DEF t
  <2>3. CASE j = Len(s) + 1
    <3>1. CASE i = j
      BY <2>1, <2>3, <3>1
    <3>2. CASE i # j
      <4>1. i \in 1..Len(s)
        BY <2>1, <2>3, <3>2
      <4> QED BY <2>1, <2>3, <4>1
    <3> QED BY <3>1, <3>2
  <2>4. CASE j # Len(s) + 1
    <3>1. i \in 1..Len(s) /\ j \in 1..Len(s)
      BY <2>1, <2>4
    <3> QED BY <2>1, <2>2, <3>1
  <2> QED BY <2>3, <2>4
<1>7. \A i \in 1..Len(Append(s, now)) :
         IF i + Counted(e).failures > Len(Append(s, now))
         THEN /\ Counted(e).window_start <= Append(s, now)[i]
              /\ Append(s, now)[i] <= Counted(e).window_start + Window
         ELSE Append(s, now)[i] <= Counted(e).window_start
  <2> DEFINE t == Append(s, now)
  <2> DEFINE w == e.window_start
  <2> DEFINE f == e.failures
  <2>1. Len(s) \in Nat /\ w \in Nat /\ f \in Nat /\ f >= 1 /\ t[Len(s) + 1] = now
    BY <1>1, <1>2
  <2>2. \A i \in 1..Len(s) : t[i] = s[i] /\ s[i] \in Nat
    BY <1>1
  <2>3. \A i \in 1..Len(s) : IF i + f > Len(s) THEN w <= s[i] /\ s[i] <= w + Window ELSE s[i] <= w
    BY DEF EntryOK
  <2>4. w <= now /\ now <= w + Window
    BY <1>5, <2>1, Settings
  <2> SUFFICES ASSUME NEW i \in 1..(Len(s) + 1)
               PROVE  IF i + (f + 1) > Len(s) + 1 THEN w <= t[i] /\ t[i] <= w + Window ELSE t[i] <= w
    BY <1>1, <1>3
  <2> HIDE DEF t, w, f
  <2>5. CASE i = Len(s) + 1
    BY <2>1, <2>4, <2>5
  <2>6. CASE i \in 1..Len(s)
    <3>1. i + (f + 1) > Len(s) + 1 <=> i + f > Len(s)
      BY <2>1
    <3> QED BY <2>2, <2>3, <2>6, <3>1
  <2> QED BY <2>1, <2>5, <2>6
<1>8. Counted(e).locked_until = IF Counted(e).failures >= MaxAttempts
                                THEN Append(s, now)[Len(Append(s, now))] + Lockout ELSE 0
  BY <1>1, <1>2, <1>3, Settings DEF EntryOK
<1>9. Counted(e).failures \in 1..Len(Append(s, now))
  <2> DEFINE f == e.failures
  <2>1. Counted(e).failures = f + 1 /\ Len(Append(s, now)) = Len(s) + 1
    BY <1>1, <1>3
  <2>2. Len(s) \in Nat /\ f \in 1..Len(s)
    BY <1>1, <1>2
  <2> HIDE DEF f
  <2>3. f + 1 \in 1..(Len(s) + 1)
    BY ONLY <2>2
  <2> QED BY ONLY <2>1, <2>3
<1> QED BY <1>1, <1>4, <1>6, <1>7, <1>8, <1>9 DEF EntryOK

(* A failure that starts a window.                                         *)
LEMMA Restarted ==
    ASSUME NEW s \in Seq(0..now), now \in Nat,
           \A i, j \in 1..Len(s) : i <= j => s[i] <= s[j]
    PROVE  EntryOK(Counted([failures |-> 0, window_start |-> now, locked_until |-> 0]), Append(s, now), now)
<1> DEFINE e == Counted([failures |-> 0, window_start |-> now, locked_until |-> 0])
<1>1. /\ Append(s, now) \in Seq(0..now) /\ Len(s) \in Nat
      /\ Len(Append(s, now)) = Len(s) + 1
      /\ \A i \in 1..Len(s) : Append(s, now)[i] = s[i] /\ s[i] \in 0..now
      /\ Append(s, now)[Len(s) + 1] = now
  BY Appended
<1>2. /\ e \in Entry /\ e.failures = 1 /\ e.window_start = now
      /\ e.locked_until = IF 1 >= MaxAttempts THEN now + Lockout ELSE 0
  <2> DEFINE z == [failures |-> 0, window_start |-> now, locked_until |-> 0]
  <2>1. z \in Entry /\ z.failures + 1 = 1 /\ z.window_start = now /\ z.locked_until = 0
    BY DEF Entry
  <2> HIDE DEF z
  <2>2. /\ Counted(z) \in Entry
        /\ Counted(z).failures = z.failures + 1
        /\ Counted(z).window_start = z.window_start
        /\ Counted(z).locked_until = IF z.failures + 1 >= MaxAttempts THEN now + Lockout ELSE z.locked_until
    BY <2>1, CountedIs
  <2> QED BY <2>1, <2>2 DEF z
<1> HIDE DEF e
<1>3. \A i \in 1..Len(Append(s, now)) :
         IF i + e.failures > Len(Append(s, now))
         THEN e.window_start <= Append(s, now)[i] /\ Append(s, now)[i] <= e.window_start + Window
         ELSE Append(s, now)[i] <= e.window_start
  <2> SUFFICES ASSUME NEW i \in 1..(Len(s) + 1)
               PROVE  IF i + 1 > Len(s) + 1
                      THEN now <= Append(s, now)[i] /\ Append(s, now)[i] <= now + Window
                      ELSE Append(s, now)[i] <= now
    BY <1>1, <1>2
  <2>1. CASE i = Len(s) + 1
    BY <1>1, <2>1, Settings
  <2>2. CASE i \in 1..Len(s)
    BY <1>1, <2>2
  <2> QED BY <1>1, <2>1, <2>2
<1>4. e \in Entry /\ e.failures \in 1..Len(Append(s, now))
  BY <1>1, <1>2, Settings DEF Entry
<1>5. \A i, j \in 1..Len(Append(s, now)) : i <= j => Append(s, now)[i] <= Append(s, now)[j]
  BY <1>1
<1>6. e.locked_until = IF e.failures >= MaxAttempts
                       THEN Append(s, now)[Len(Append(s, now))] + Lockout ELSE 0
  BY <1>1, <1>2, Settings
<1> QED BY <1>1, <1>3, <1>4, <1>5, <1>6 DEF EntryOK, e

(* What counting leaves in the entry of a key.                             *)
LEMMA RecordedOK ==
    ASSUME EntriesOK, NEW k \in Logins
    PROVE  EntryOK(Counted(WindowEntry(k)), Append(failed[k], now), now)
<1> DEFINE s == failed[k]
<1>1. s \in Seq(0..now) /\ now \in Nat
  BY DEF EntriesOK
<1>2. CASE Counting(k) /\ now - entries[k].window_start <= Window
  <2>1. WindowEntry(k) = entries[k] /\ EntryOK(entries[k], s, now)
    BY <1>2 DEF WindowEntry, EntriesOK
  <2> QED BY <1>1, <1>2, <2>1, Continued
<1>3. CASE ~(Counting(k) /\ now - entries[k].window_start <= Window)
  <2>1. WindowEntry(k) = [failures |-> 0, window_start |-> now, locked_until |-> 0]
    BY <1>3 DEF WindowEntry
  <2>2. \A i, j \in 1..Len(s) : i <= j => s[i] <= s[j]
    <3>1. CASE Counting(k)
      BY <3>1 DEF EntriesOK, EntryOK
    <3>2. CASE ~Counting(k)
      <4>1. Len(s) = 0
        BY <3>2 DEF EntriesOK
      <4> QED BY <4>1
    <3> QED BY <3>1, <3>2
  <2> QED BY <1>1, <2>1, <2>2, Restarted
<1> QED BY <1>2, <1>3

(* What record_failure does to the keys.                                   *)
LEMMA Recorded ==
    ASSUME EntriesOK, NEW r \in Slots, record_failure(r)
    PROVE  /\ slot[r] \in Logins /\ now' = now
           /\ slot' = [slot EXCEPT ![r] = Free]
           /\ failed' \in [Logins -> Seq(0..now)]
           /\ DOMAIN entries' \subseteq Logins
           /\ \A k \in Logins :
                 \/ k \notin DOMAIN entries' /\ failed'[k] = << >>
                 \/ /\ k # slot[r] /\ failed'[k] = failed[k]
                    /\ k \in DOMAIN entries' <=> k \in DOMAIN entries
                    /\ k \in DOMAIN entries' => entries'[k] = entries[k]
                 \/ /\ k = slot[r] /\ failed'[k] = Append(failed[k], now)
                    /\ k \in DOMAIN entries'
                    /\ entries'[k] = Counted(WindowEntry(k))
<1> DEFINE q == slot[r]
<1> DEFINE map == [x \in DOMAIN entries \cup {q} |-> IF x = q THEN Counted(WindowEntry(q)) ELSE entries[x]]
<1>1. q \in Logins /\ DOMAIN entries \subseteq Logins /\ failed \in [Logins -> Seq(0..now)] /\ now \in Nat
  BY DEF record_failure, EntriesOK
<1>2. PICK gone \in Evicted(map) :
        /\ entries' = Forget(map, gone)
        /\ failed' = [x \in Logins |-> IF x \in gone THEN << >>
                                       ELSE IF x = q THEN Append(failed[q], now) ELSE failed[x]]
  BY DEF record_failure
<1>3. /\ DOMAIN entries' = (DOMAIN entries \cup {q}) \ gone
      /\ \A x \in DOMAIN entries' : entries'[x] = IF x = q THEN Counted(WindowEntry(q)) ELSE entries[x]
  BY <1>2 DEF Forget
<1>4. failed' \in [Logins -> Seq(0..now)]
  <2>1. Append(failed[q], now) \in Seq(0..now)
    BY <1>1
  <2>2. << >> \in Seq(0..now)
    OBVIOUS
  <2> QED BY <1>1, <1>2, <2>1, <2>2
<1>5. now' = now /\ slot' = [slot EXCEPT ![r] = Free]
  BY DEF record_failure
<1> HIDE DEF map
<1>6. ASSUME NEW k \in Logins
      PROVE  \/ k \notin DOMAIN entries' /\ failed'[k] = << >>
             \/ /\ k # q /\ failed'[k] = failed[k]
                /\ k \in DOMAIN entries' <=> k \in DOMAIN entries
                /\ k \in DOMAIN entries' => entries'[k] = entries[k]
             \/ /\ k = q /\ failed'[k] = Append(failed[k], now)
                /\ k \in DOMAIN entries'
                /\ entries'[k] = Counted(WindowEntry(k))
  BY <1>2, <1>3, <1>6
<1> QED BY <1>1, <1>3, <1>4, <1>5, <1>6

(* Every step keeps the entries true to the failures.                      *)
LEMMA EntriesStep == EntriesOK /\ [LoginNext]_loginVars => EntriesOK'
<1> SUFFICES ASSUME EntriesOK, [LoginNext]_loginVars PROVE EntriesOK'
  OBVIOUS
<1>0. now \in Nat /\ DOMAIN entries \subseteq Logins /\ slot \in [Slots -> Logins \cup {Free}]
      /\ failed \in [Logins -> Seq(0..now)]
  BY DEF EntriesOK
<1>1. ASSUME NEW r \in Slots, NEW k \in Logins, Begin(r, k) PROVE EntriesOK'
  BY <1>0, <1>1 DEF Begin, EntriesOK, Counting, EntryOK
<1>2. ASSUME NEW r \in Slots, Succeed(r) PROVE EntriesOK'
  <2>1. slot[r] \in Logins
    BY <1>0, <1>2 DEF Succeed
  <2>2. << >> \in Seq(0..now)
    OBVIOUS
  <2>3. /\ now' = now /\ slot' \in [Slots -> Logins \cup {Free}]
        /\ failed' \in [Logins -> Seq(0..now)]
        /\ DOMAIN entries' = DOMAIN entries \ {slot[r]}
    BY <1>0, <1>2, <2>1, <2>2 DEF Succeed, Forget
  <2>4. ASSUME NEW k \in Logins
        PROVE  IF Counting(k)' THEN EntryOK(entries'[k], failed'[k], now) ELSE failed'[k] = << >>
    <3>1. CASE k = slot[r]
      BY <1>0, <1>2, <2>3, <3>1 DEF Succeed, Counting
    <3>2. CASE k # slot[r]
      <4>1. failed'[k] = failed[k] /\ (Counting(k)' <=> Counting(k)) /\ (Counting(k) => entries'[k] = entries[k])
        BY <1>0, <1>2, <2>3, <3>2 DEF Succeed, Counting, Forget
      <4> QED BY <4>1 DEF EntriesOK
    <3> QED BY <3>1, <3>2
  <2> QED BY <1>0, <2>3, <2>4 DEF EntriesOK
<1>3. ASSUME NEW r \in Slots, record_failure(r) PROVE EntriesOK'
  <2>1. slot[r] \in Logins /\ now' = now /\ slot' = [slot EXCEPT ![r] = Free]
        /\ failed' \in [Logins -> Seq(0..now)] /\ DOMAIN entries' \subseteq Logins
    BY <1>3, Recorded
  <2>2. ASSUME NEW k \in Logins
        PROVE  IF Counting(k)' THEN EntryOK(entries'[k], failed'[k], now) ELSE failed'[k] = << >>
    BY <1>3, Recorded, RecordedOK DEF EntriesOK, Counting
  <2> QED BY <1>0, <2>1, <2>2 DEF EntriesOK
<1>4. CASE LoginTick
  <2>1. now' = now + 1 /\ UNCHANGED <<entries, slot, failed>>
    BY <1>4 DEF LoginTick
  <2>2. ASSUME NEW s \in Seq(0..now) PROVE s \in Seq(0..(now + 1))
    BY <1>0, <2>2
  <2>3. ASSUME NEW e, NEW s, EntryOK(e, s, now) PROVE EntryOK(e, s, now + 1)
    BY <1>0, <2>2, <2>3 DEF EntryOK
  <2>4. failed \in [Logins -> Seq(0..(now + 1))]
    BY <1>0, <2>2
  <2> QED BY <1>0, <2>1, <2>3, <2>4 DEF EntriesOK, Counting
<1>5. CASE UNCHANGED loginVars
  BY <1>5 DEF loginVars, EntriesOK, Counting
<1> QED BY <1>1, <1>2, <1>3, <1>4, <1>5 DEF LoginNext

-----------------------------------------------------------------------------
(* The counts are of finite sets, ...                                      *)
LEMMA CountsFinite ==
    ASSUME NEW e, NEW s, Len(s) \in Nat, NEW n
    PROVE  /\ IsFiniteSet(Latest(e, s, n)) /\ Cardinality(Latest(e, s, n)) \in Nat
           /\ IsFiniteSet(Earlier(e, s)) /\ Cardinality(Earlier(e, s)) \in Nat
<1>1. IsFiniteSet(1..Len(s))
  BY FS_Interval
<1>2. Latest(e, s, n) \subseteq 1..Len(s) /\ Earlier(e, s) \subseteq 1..Len(s)
  BY DEF Latest, Earlier
<1> QED BY <1>1, <1>2, FS_Subset, FS_CardinalityType

(* ... those of the attempts under way too, ...                            *)
LEMMA PendingFinite ==
    ASSUME NEW k, NEW sl
    PROVE  /\ IsFiniteSet(Pending(k, sl)) /\ Cardinality(Pending(k, sl)) \in Nat
           /\ Cardinality(Pending(k, sl)) <= Cardinality(Slots)
<1>1. Pending(k, sl) \subseteq Slots
  BY DEF Pending
<1> QED BY <1>1, Settings, FS_Subset, FS_CardinalityType

(* ... and a subset counts no more.                                        *)
LEMMA FewerCount ==
    ASSUME NEW S, IsFiniteSet(S), NEW T, T \subseteq S
    PROVE  Cardinality(T) <= Cardinality(S)
BY FS_Subset

(* As time passes a failure ceases to be recent.                           *)
LEMMA LatestShrinks ==
    ASSUME NEW e, NEW s, NEW n \in Nat, \A i \in 1..Len(s) : s[i] \in Nat
    PROVE  Latest(e, s, n + 1) \subseteq Latest(e, s, n)
<1>1. \A x \in Nat : n + 1 - x < Window => n - x < Window
  BY Settings
<1>2. ASSUME NEW i \in 1..Len(s), n + 1 - s[i] < Window PROVE n - s[i] < Window
  <2>1. s[i] \in Nat
    OBVIOUS
  <2> QED BY <1>1, <1>2, <2>1
<1> QED BY <1>2 DEF Latest

(* A key that is not locked has failed fewer than MaxAttempts times in its *)
(* entry, or not for as long as a window lasts.                            *)
LEMMA UnlockedFew ==
    ASSUME NEW e, NEW s, now \in Nat, EntryOK(e, s, now), Lockout >= Window, ~(e.locked_until > now)
    PROVE  Cardinality(Latest(e, s, now)) <= MaxAttempts - 1
<1>1. e.failures \in Nat /\ Len(s) \in Nat /\ e.failures \in 1..Len(s)
      /\ \A i \in 1..Len(s) : s[i] \in Nat /\ s[i] <= s[Len(s)]
  <2>1. s \in Seq(0..now) /\ e.failures \in 1..Len(s)
    BY DEF EntryOK
  <2>2. Len(s) \in Nat /\ \A i \in 1..Len(s) : s[i] \in Nat
    BY <2>1
  <2>3. \A i, j \in 1..Len(s) : i <= j => s[i] <= s[j]
    BY DEF EntryOK
  <2>4. \A i \in 1..Len(s) : i <= Len(s) /\ Len(s) \in 1..Len(s)
    BY <2>2
  <2> QED BY <2>1, <2>2, <2>3, <2>4
<1>2. CASE e.failures >= MaxAttempts
  <2> DEFINE last == s[Len(s)]
  <2>0. last \in Nat /\ \A i \in 1..Len(s) : s[i] \in Nat /\ s[i] <= last
    <3>1. Len(s) \in 1..Len(s)
      BY <1>1
    <3> QED BY <1>1, <3>1
  <2>1. last + Lockout <= now
    <3>1. e.locked_until = last + Lockout
      BY <1>2 DEF EntryOK
    <3> HIDE DEF last
    <3>2. last + Lockout \in Nat
      BY <2>0, Settings
    <3> QED BY <3>1, <3>2
  <2> HIDE DEF last
  <2>2. \A i \in 1..Len(s) : ~(now - s[i] < Window)
    <3> SUFFICES ASSUME NEW i \in 1..Len(s) PROVE ~(now - s[i] < Window)
      OBVIOUS
    <3> DEFINE x == s[i]
    <3>1. x \in Nat /\ x <= last
      BY <2>0
    <3> HIDE DEF x
    <3>2. ~(now - x < Window)
      BY <2>0, <2>1, <3>1, Settings
    <3> QED BY <3>2 DEF x
  <2>3. Latest(e, s, now) = {}
    BY <2>2 DEF Latest
  <2> QED BY <2>3, FS_EmptySet, Settings
<1>3. CASE e.failures < MaxAttempts
  <2> DEFINE I == (Len(s) - e.failures + 1)..Len(s)
  <2>1. IsFiniteSet(I) /\ Cardinality(I) = e.failures
    <3> DEFINE a == Len(s) - e.failures + 1
    <3>1. a \in Int /\ Len(s) \in Int /\ ~(a > Len(s)) /\ Len(s) - a + 1 = e.failures
      BY <1>1
    <3> HIDE DEF a
    <3>2. IsFiniteSet(a..Len(s)) /\ Cardinality(a..Len(s)) = e.failures
      BY <3>1, FS_Interval
    <3> QED BY <3>2 DEF a
  <2>2. Latest(e, s, now) \subseteq I
    BY <1>1 DEF Latest
  <2>3. Cardinality(Latest(e, s, now)) <= e.failures
    BY <2>1, <2>2, FewerCount
  <2>4. Cardinality(Latest(e, s, now)) \in Nat
    BY <1>1, CountsFinite
  <2> QED BY <1>1, <1>3, <2>3, <2>4, Settings
<1> QED BY <1>1, <1>2, <1>3, Settings

(* Recent failures are among the latest of the entry, or recent when it    *)
(* began.                                                                  *)
LEMMA RecentSplit ==
    ASSUME NEW e, NEW s, now \in Nat, EntryOK(e, s, now)
    PROVE  {i \in 1..Len(s) : now - s[i] < Window} \subseteq Latest(e, s, now) \cup Earlier(e, s)
<1> SUFFICES ASSUME NEW i \in 1..Len(s), now - s[i] < Window, ~(i + e.failures > Len(s))
             PROVE  i + e.failures <= Len(s) /\ e.window_start - s[i] < Window
  BY DEF Latest, Earlier
<1>1. e.failures \in 1..Len(s) /\ e.window_start \in Nat /\ Len(s) \in Nat
      /\ \A j \in 1..Len(s) : s[j] \in 0..now
  BY EntryFacts
<1>2. Len(s) \in 1..Len(s) /\ Len(s) + e.failures > Len(s)
  BY <1>1
<1>3. e.window_start <= s[Len(s)]
  BY <1>2 DEF EntryOK
<1>4. e.window_start <= now /\ s[i] \in Nat
  <2>1. s[Len(s)] \in 0..now
    BY <1>1, <1>2
  <2>2. s[i] \in 0..now
    BY <1>1
  <2> DEFINE last == s[Len(s)]
  <2> DEFINE w == e.window_start
  <2>3. w \in Nat /\ w <= last /\ last \in 0..now
    BY <1>1, <1>3, <2>1
  <2> HIDE DEF last, w
  <2>4. w <= now
    BY <2>3
  <2> QED BY <2>2, <2>4 DEF w
<1>5. e.window_start - s[i] < Window
  <2> DEFINE x == s[i]
  <2> DEFINE w == e.window_start
  <2>1. x \in Nat /\ w \in Nat /\ w <= now /\ now - x < Window
    BY <1>1, <1>4
  <2> HIDE DEF x, w
  <2>2. w - x < Window
    BY <2>1, Settings
  <2> QED BY <2>2 DEF x, w
<1>6. i + e.failures <= Len(s)
  BY <1>1
<1> QED BY <1>5, <1>6

(* A request that fails is no longer under way.                            *)
LEMMA OneLess ==
    ASSUME NEW r \in Slots, NEW sl, sl \in [Slots -> Logins \cup {Free}], sl[r] \in Logins,
           NEW after, after = [sl EXCEPT ![r] = Free]
    PROVE  /\ Cardinality(Pending(sl[r], after)) = Cardinality(Pending(sl[r], sl)) - 1
           /\ Cardinality(Pending(sl[r], sl)) >= 1
           /\ \A k \in Logins : k # sl[r] => Pending(k, after) = Pending(k, sl)
<1> DEFINE P == Pending(sl[r], sl)
<1>1. Free \notin Logins
  BY FreeAssumption
<1>2. Pending(sl[r], after) = P \ {r} /\ r \in P
  BY <1>1 DEF Pending
<1>3. IsFiniteSet(P)
  <2>1. P \subseteq Slots
    BY DEF Pending
  <2> QED BY <2>1, FS_Subset, Settings
<1>4. \A k \in Logins : k # sl[r] => Pending(k, after) = Pending(k, sl)
  BY <1>1 DEF Pending
<1> HIDE DEF P
<1>5. IsFiniteSet(P \ {r}) /\ Cardinality(P \ {r}) = Cardinality(P) - 1
  BY <1>2, <1>3, FS_RemoveElement
<1>6. Cardinality(P) \in Nat /\ Cardinality(P \ {r}) \in Nat
  BY <1>3, <1>5, FS_CardinalityType
<1>7. Cardinality(P) >= 1
  BY <1>5, <1>6
<1> QED BY <1>2, <1>4, <1>5, <1>7 DEF P

(* One more element counts at most one.                                    *)
LEMMA OneMore ==
    ASSUME NEW S, IsFiniteSet(S), NEW x
    PROVE  IsFiniteSet(S \cup {x}) /\ Cardinality(S \cup {x}) <= Cardinality(S) + 1
<1>1. Cardinality(S) \in Nat
  BY FS_CardinalityType
<1>2. IsFiniteSet(S \cup {x})
  BY FS_AddElement
<1>3. Cardinality(S \cup {x}) = IF x \in S THEN Cardinality(S) ELSE Cardinality(S) + 1
  BY FS_AddElement
<1> QED BY <1>1, <1>2, <1>3

(* A failure in the running window.                                        *)
LEMMA ContinuedCounts ==
    ASSUME NEW e, NEW s, now \in Nat, EntryOK(e, s, now), Lockout >= Window
    PROVE  /\ Cardinality(Latest(Counted(e), Append(s, now), now)) <= Cardinality(Latest(e, s, now)) + 1
           /\ Earlier(Counted(e), Append(s, now)) = Earlier(e, s)
<1>1. /\ Append(s, now) \in Seq(0..now) /\ Len(s) \in Nat
      /\ Len(Append(s, now)) = Len(s) + 1
      /\ \A i \in 1..Len(s) : Append(s, now)[i] = s[i] /\ s[i] \in 0..now
  BY Appended DEF EntryOK
<1>2. e \in Entry /\ e.failures \in 1..Len(s) /\ e.failures \in Nat
  BY DEF EntryOK, Entry
<1>3. Counted(e).failures = e.failures + 1 /\ Counted(e).window_start = e.window_start
  BY <1>2, CountedIs
<1>4. Latest(Counted(e), Append(s, now), now) \subseteq Latest(e, s, now) \cup {Len(s) + 1}
  <2> DEFINE t == Append(s, now)
  <2> DEFINE f == e.failures
  <2>1. Len(s) \in Nat /\ f \in Nat /\ Len(t) = Len(s) + 1 /\ \A i \in 1..Len(s) : t[i] = s[i]
    BY <1>1, <1>2
  <2>2. Latest(Counted(e), t, now) = {i \in 1..Len(t) : i + (f + 1) > Len(t) /\ now - t[i] < Window}
    BY <1>3 DEF Latest
  <2>3. Latest(e, s, now) = {i \in 1..Len(s) : i + f > Len(s) /\ now - s[i] < Window}
    BY DEF Latest
  <2> HIDE DEF t, f
  <2>4. ASSUME NEW i \in 1..(Len(s) + 1), i # Len(s) + 1, i + (f + 1) > Len(s) + 1
        PROVE  i \in 1..Len(s) /\ i + f > Len(s)
    BY <2>1, <2>4
  <2>5. Latest(Counted(e), t, now) \subseteq Latest(e, s, now) \cup {Len(s) + 1}
    BY <2>1, <2>2, <2>3, <2>4
  <2> QED BY <2>5 DEF t
<1>5. Earlier(Counted(e), Append(s, now)) = Earlier(e, s)
  <2> DEFINE t == Append(s, now)
  <2> DEFINE f == e.failures
  <2> DEFINE w == e.window_start
  <2>1. Len(s) \in Nat /\ f \in Nat /\ f >= 1 /\ Len(t) = Len(s) + 1 /\ \A i \in 1..Len(s) : t[i] = s[i]
    BY <1>1, <1>2
  <2>2. Earlier(Counted(e), t) = {i \in 1..Len(t) : i + (f + 1) <= Len(t) /\ w - t[i] < Window}
    BY <1>3 DEF Earlier
  <2> HIDE DEF t, f, w
  <2>3. \A i : i \in 1..(Len(s) + 1) /\ i + (f + 1) <= Len(s) + 1 <=> i \in 1..Len(s) /\ i + f <= Len(s)
    BY <2>1
  <2>4. Earlier(Counted(e), t) = {i \in 1..Len(s) : i + f <= Len(s) /\ w - s[i] < Window}
    BY <2>1, <2>2, <2>3
  <2> QED BY <2>4 DEF Earlier, t, f, w
<1>6. IsFiniteSet(Latest(e, s, now)) /\ Cardinality(Latest(e, s, now)) \in Nat
  BY <1>1, CountsFinite
<1>7. /\ IsFiniteSet(Latest(e, s, now) \cup {Len(s) + 1})
      /\ Cardinality(Latest(e, s, now) \cup {Len(s) + 1}) <= Cardinality(Latest(e, s, now)) + 1
  BY <1>6, OneMore
<1>8. Cardinality(Latest(Counted(e), Append(s, now), now)) <= Cardinality(Latest(e, s, now) \cup {Len(s) + 1})
  BY <1>4, <1>7, FewerCount
<1>9. Cardinality(Latest(e, s, now) \cup {Len(s) + 1}) \in Nat
  BY <1>7, FS_CardinalityType
<1>10. Len(Append(s, now)) \in Nat
  BY <1>1
<1>11. Cardinality(Latest(Counted(e), Append(s, now), now)) \in Nat
  BY <1>10, CountsFinite
<1> QED BY <1>5, <1>6, <1>7, <1>8, <1>9, <1>11

(* A failure that starts a window: recent before it are at most the latest *)
(* of the entry it replaces.                                               *)
LEMMA RestartedCounts ==
    ASSUME NEW e, NEW s, now \in Nat, EntryOK(e, s, now), now - e.window_start > Window,
           NEW z \in Entry, z.failures = 1, z.window_start = now
    PROVE  /\ Cardinality(Latest(z, Append(s, now), now)) <= 1
           /\ Cardinality(Earlier(z, Append(s, now))) <= Cardinality(Latest(e, s, now))
<1>1. /\ Append(s, now) \in Seq(0..now) /\ Len(s) \in Nat
      /\ Len(Append(s, now)) = Len(s) + 1
      /\ \A i \in 1..Len(s) : Append(s, now)[i] = s[i] /\ s[i] \in 0..now
  BY Appended DEF EntryOK
<1>2. e.failures \in Nat /\ e.window_start \in Nat
  BY DEF EntryOK, Entry
<1>3. Latest(z, Append(s, now), now) \subseteq {Len(s) + 1}
  BY <1>1 DEF Latest
<1>4. Earlier(z, Append(s, now)) \subseteq Latest(e, s, now)
  <2> SUFFICES ASSUME NEW i \in 1..Len(s), now - s[i] < Window PROVE i + e.failures > Len(s)
    BY <1>1 DEF Earlier, Latest
  <2>1. ~(i + e.failures > Len(s)) => s[i] <= e.window_start
    BY DEF EntryOK
  <2>2. s[i] \in Nat
    BY <1>1
  <2>3. ~(s[i] <= e.window_start)
    <3> DEFINE w == e.window_start
    <3>1. w \in Nat /\ now - w > Window
      BY <1>2
    <3> HIDE DEF w
    <3>2. ~(s[i] <= w)
      BY <2>2, <3>1, Settings
    <3> QED BY <3>2 DEF w
  <2> QED BY <2>1, <2>3
<1>5. IsFiniteSet(Latest(e, s, now)) /\ IsFiniteSet({Len(s) + 1}) /\ Cardinality({Len(s) + 1}) = 1
  BY <1>1, CountsFinite, FS_Singleton
<1>6. Cardinality(Latest(z, Append(s, now), now)) <= Cardinality({Len(s) + 1})
  BY <1>3, <1>5, FewerCount
<1>7. Cardinality(Earlier(z, Append(s, now))) <= Cardinality(Latest(e, s, now))
  BY <1>4, <1>5, FewerCount
<1> QED BY <1>5, <1>6, <1>7

-----------------------------------------------------------------------------
(* No step breaks the counts.                                              *)
LEMMA CountsStep ==
    ASSUME EntriesOK, CountsBounded, Lockout >= Window, [LoginNext]_loginVars
    PROVE  CountsBounded'
<1> DEFINE A == MaxAttempts
<1> DEFINE S == Cardinality(Slots)
<1>0. /\ now \in Nat /\ slot \in [Slots -> Logins \cup {Free}] /\ Free \notin Logins
      /\ failed \in [Logins -> Seq(0..now)]
      /\ A \in Nat \ {0} /\ S \in Nat \ {0}
  BY Settings, FreeAssumption DEF EntriesOK
(* A key whose entry and failures stay, of which no attempt begins.        *)
<1>1. ASSUME NEW k \in Logins, now' = now, Counting(k)' => Counting(k), entries'[k] = entries[k],
             failed'[k] = failed[k], Pending(k, slot') = Pending(k, slot), Counting(k)'
      PROVE  LatestBounded(k)' /\ EarlierBounded(k)'
  BY <1>1 DEF CountsBounded, LatestBounded, EarlierBounded, Locked
<1>2. ASSUME NEW r \in Slots, NEW q \in Logins, Begin(r, q) PROVE CountsBounded'
  <2> SUFFICES ASSUME NEW k \in Logins, Counting(k)' PROVE LatestBounded(k)' /\ EarlierBounded(k)'
    BY DEF CountsBounded
  <2>1. UNCHANGED <<now, entries, failed>> /\ slot' = [slot EXCEPT ![r] = q] /\ slot[r] = Free
    BY <1>2 DEF Begin
  <2>2. CASE k # q
    <3>1. Pending(k, slot') = Pending(k, slot)
      BY <1>0, <2>1, <2>2 DEF Pending
    <3> QED BY <1>1, <2>1, <3>1 DEF Counting
  <2>3. CASE k = q
    BY <1>2, <2>1, <2>3 DEF Begin, CountsBounded, LatestBounded, EarlierBounded, Locked, Counting
  <2> QED BY <2>2, <2>3
<1>3. ASSUME NEW r \in Slots, Succeed(r) PROVE CountsBounded'
  <2> SUFFICES ASSUME NEW k \in Logins, Counting(k)' PROVE LatestBounded(k)' /\ EarlierBounded(k)'
    BY DEF CountsBounded
  <2>1. slot[r] \in Logins /\ now' = now /\ slot' = [slot EXCEPT ![r] = Free]
    BY <1>0, <1>3 DEF Succeed
  <2>2. k # slot[r] /\ Counting(k) /\ entries'[k] = entries[k] /\ failed'[k] = failed[k]
    BY <1>0, <1>3 DEF Succeed, Forget, Counting
  <2>3. Pending(k, slot') = Pending(k, slot)
    BY <1>0, <2>1, <2>2 DEF Pending
  <2> QED BY <1>1, <2>1, <2>2, <2>3
<1>4. ASSUME NEW r \in Slots, record_failure(r) PROVE CountsBounded'
  <2> SUFFICES ASSUME NEW k \in Logins, Counting(k)' PROVE LatestBounded(k)' /\ EarlierBounded(k)'
    BY DEF CountsBounded
  <2>1. slot[r] \in Logins /\ now' = now /\ slot' = [slot EXCEPT ![r] = Free]
    BY <1>4, Recorded
  <2>2. CASE k # slot[r]
    <3>1. Counting(k) /\ entries'[k] = entries[k] /\ failed'[k] = failed[k]
      BY <1>4, <2>2, Recorded DEF Counting
    <3>2. Pending(k, slot') = Pending(k, slot)
      BY <1>0, <2>1, <2>2 DEF Pending
    <3> QED BY <1>1, <2>1, <3>1, <3>2
  <2>3. CASE k = slot[r]
    <3> DEFINE e == entries[k]
    <3> DEFINE s == failed[k]
    <3> DEFINE z == Counted(WindowEntry(k))
    <3> DEFINE t == Append(failed[k], now)
    <3> DEFINE P == Cardinality(Pending(k, slot))
    <3>1. entries'[k] = z /\ failed'[k] = t
      BY <1>4, <2>3, Recorded DEF Counting
    <3>2. Cardinality(Pending(k, slot')) = P - 1 /\ P >= 1 /\ P \in Nat /\ P <= S
      <4>1. P \in Nat /\ P <= S
        BY PendingFinite
      <4> QED BY <1>0, <2>1, <2>3, <4>1, OneLess
    <3>3. s \in Seq(0..now) /\ Len(s) \in Nat /\ Len(t) \in Nat
      BY <1>0, Appended
    <3>4. Cardinality(Latest(z, t, now)) \in Nat /\ Cardinality(Earlier(z, t)) \in Nat
      BY <3>3, CountsFinite
    <3>5. CASE Counting(k) /\ now - e.window_start <= Window
      <4>1. z = Counted(e) /\ EntryOK(e, s, now)
        BY <3>5 DEF WindowEntry, EntriesOK
      <4>2. Cardinality(Latest(z, t, now)) <= Cardinality(Latest(e, s, now)) + 1 /\ Earlier(z, t) = Earlier(e, s)
        BY <1>0, <4>1, ContinuedCounts
      <4>3. Cardinality(Latest(e, s, now)) \in Nat
        BY <3>3, CountsFinite
      <4>4. Cardinality(Latest(e, s, now)) + P <= A + S - 1 \/ Cardinality(Latest(e, s, now)) <= A - 1
        <5>1. CASE Locked(k)
          BY <3>5, <5>1 DEF CountsBounded, LatestBounded
        <5>2. CASE ~Locked(k)
          <6>1. ~(e.locked_until > now)
            BY <3>5, <5>2 DEF Locked
          <6> QED BY <1>0, <4>1, <6>1, UnlockedFew
        <5> QED BY <5>1, <5>2
      <4>5. Cardinality(Latest(z, t, now)) + (P - 1) <= A + S - 1
        <5> DEFINE L == Cardinality(Latest(e, s, now))
        <5> DEFINE M == Cardinality(Latest(z, t, now))
        <5>1. L \in Nat /\ M \in Nat /\ M <= L + 1 /\ (L + P <= A + S - 1 \/ L <= A - 1)
          BY <3>4, <4>2, <4>3, <4>4
        <5>2. A \in Nat /\ S \in Nat /\ P \in Nat /\ P <= S
          BY <1>0, <3>2
        <5> HIDE DEF L, M, P
        <5>3. M + (P - 1) <= A + S - 1
          BY ONLY <5>1, <5>2
        <5> QED BY <5>3 DEF M
      <4>6. Cardinality(Earlier(z, t)) <= A + S - 2
        BY <3>5, <4>2 DEF CountsBounded, EarlierBounded
      <4> QED BY <2>1, <3>1, <3>2, <4>5, <4>6 DEF LatestBounded, EarlierBounded
    <3>6. CASE ~(Counting(k) /\ now - e.window_start <= Window)
      <4>1. z \in Entry /\ z.failures = 1 /\ z.window_start = now
        <5> DEFINE y == [failures |-> 0, window_start |-> now, locked_until |-> 0]
        <5>1. WindowEntry(k) = y
          BY <3>6 DEF WindowEntry
        <5>2. y \in Entry /\ y.failures = 0 /\ y.window_start = now
          BY <1>0 DEF Entry
        <5> HIDE DEF y
        <5> QED BY <1>0, <5>1, <5>2, CountedIs
      <4> HIDE DEF z
      <4>2. Cardinality(Latest(z, t, now)) <= 1 /\ Cardinality(Earlier(z, t)) <= A + S - 2
        <5>1. CASE Counting(k)
          <6>1. EntryOK(e, s, now) /\ now - e.window_start > Window
            <7>1. EntryOK(e, s, now)
              BY <5>1 DEF EntriesOK
            <7>2. e.window_start \in Nat /\ Window \in Nat
              BY <7>1, Settings DEF EntryOK, Entry
            <7> QED BY <1>0, <3>6, <5>1, <7>1, <7>2
          <6>2. Cardinality(Latest(z, t, now)) <= 1 /\ Cardinality(Earlier(z, t)) <= Cardinality(Latest(e, s, now))
            BY <1>0, <4>1, <6>1, RestartedCounts
          <6>3. Cardinality(Latest(e, s, now)) \in Nat
            BY <3>3, CountsFinite
          <6>4. Cardinality(Latest(e, s, now)) + P <= A + S - 1 \/ Cardinality(Latest(e, s, now)) <= A - 1
            <7>1. CASE Locked(k)
              BY <5>1, <7>1 DEF CountsBounded, LatestBounded
            <7>2. CASE ~Locked(k)
              <8>1. ~(e.locked_until > now)
                BY <5>1, <7>2 DEF Locked
              <8> QED BY <1>0, <6>1, <8>1, UnlockedFew
            <7> QED BY <7>1, <7>2
          <6> DEFINE L == Cardinality(Latest(e, s, now))
          <6> DEFINE E == Cardinality(Earlier(z, t))
          <6>5. L \in Nat /\ E \in Nat /\ E <= L /\ (L + P <= A + S - 1 \/ L <= A - 1)
            BY <3>4, <6>2, <6>3, <6>4
          <6>6. A \in Nat /\ S \in Nat /\ P \in Nat /\ P >= 1 /\ P <= S
            BY <1>0, <3>2
          <6> HIDE DEF L, E, P
          <6>7. E <= A + S - 2
            BY ONLY <6>5, <6>6
          <6> QED BY <6>2, <6>7 DEF E
        <5>2. CASE ~Counting(k)
          <6>1. s = << >>
            BY <5>2 DEF EntriesOK
          <6>2. Len(t) = 1
            BY <6>1
          <6>3. Latest(z, t, now) \subseteq {1} /\ Earlier(z, t) = {}
            BY <4>1, <6>2 DEF Latest, Earlier
          <6>4. IsFiniteSet({1}) /\ Cardinality({1}) = 1 /\ Cardinality({}) = 0
            BY FS_Singleton, FS_EmptySet
          <6>5. Cardinality(Latest(z, t, now)) <= Cardinality({1})
            BY <6>3, <6>4, FewerCount
          <6> QED BY <1>0, <6>3, <6>4, <6>5
        <5> QED BY <5>1, <5>2
      <4>3. Cardinality(Latest(z, t, now)) + (P - 1) <= A + S - 1
        <5> DEFINE M == Cardinality(Latest(z, t, now))
        <5>1. M \in Nat /\ M <= 1
          BY <3>4, <4>2
        <5>2. A \in Nat /\ A >= 1 /\ S \in Nat /\ P \in Nat /\ P <= S
          BY <1>0, <3>2
        <5> HIDE DEF M, P
        <5>3. M + (P - 1) <= A + S - 1
          BY ONLY <5>1, <5>2
        <5> QED BY <5>3 DEF M
      <4> QED BY <2>1, <3>1, <3>2, <4>2, <4>3 DEF LatestBounded, EarlierBounded
    <3> QED BY <3>5, <3>6
  <2> QED BY <2>2, <2>3
<1>5. CASE LoginTick
  <2>1. now' = now + 1 /\ UNCHANGED <<entries, slot, failed>>
    BY <1>5 DEF LoginTick
  <2> SUFFICES ASSUME NEW k \in Logins, Counting(k)' PROVE LatestBounded(k)' /\ EarlierBounded(k)'
    BY DEF CountsBounded
  <2>2. Counting(k) /\ EntryOK(entries[k], failed[k], now)
    BY <2>1 DEF Counting, EntriesOK
  <2>3. EarlierBounded(k)'
    BY <2>1, <2>2 DEF CountsBounded, EarlierBounded
  <2>4. ASSUME Locked(k)'
        PROVE  Cardinality(Latest(entries[k], failed[k], now + 1)) + Cardinality(Pending(k, slot)) <= A + S - 1
    <3>1. entries[k].locked_until \in Nat /\ Len(failed[k]) \in Nat
          /\ \A i \in 1..Len(failed[k]) : failed[k][i] \in Nat
      BY <1>0, <2>2, EntryFacts
    <3>2. Locked(k)
      BY <1>0, <2>1, <2>2, <2>4, <3>1 DEF Locked
    <3>3. Latest(entries[k], failed[k], now + 1) \subseteq Latest(entries[k], failed[k], now)
      BY <1>0, <3>1, LatestShrinks
    <3>4. IsFiniteSet(Latest(entries[k], failed[k], now))
          /\ Cardinality(Latest(entries[k], failed[k], now)) \in Nat
          /\ Cardinality(Latest(entries[k], failed[k], now + 1)) \in Nat
          /\ Cardinality(Pending(k, slot)) \in Nat
      BY <3>1, CountsFinite, PendingFinite
    <3>5. Cardinality(Latest(entries[k], failed[k], now + 1)) <= Cardinality(Latest(entries[k], failed[k], now))
      BY <3>3, <3>4, FewerCount
    <3>6. Cardinality(Latest(entries[k], failed[k], now)) + Cardinality(Pending(k, slot)) <= A + S - 1
      BY <2>2, <3>2 DEF CountsBounded, LatestBounded
    <3> QED BY <1>0, <3>4, <3>5, <3>6
  <2> QED BY <2>1, <2>3, <2>4 DEF LatestBounded
<1>6. CASE UNCHANGED loginVars
  BY <1>6 DEF loginVars, CountsBounded, LatestBounded, EarlierBounded, Locked, Counting
<1> QED BY <1>2, <1>3, <1>4, <1>5, <1>6 DEF LoginNext

(* A throttle that starts knows nothing.                                   *)
LEMMA LoginStart == LoginInit => LoginInv
<1> SUFFICES ASSUME LoginInit PROVE LoginInv
  OBVIOUS
<1>1. DOMAIN entries = {} /\ << >> \in Seq(0..now) /\ now = 0
  BY DEF LoginInit
<1>2. EntriesOK
  BY <1>1 DEF LoginInit, EntriesOK, Counting
<1>3. CountsBounded
  BY <1>1 DEF CountsBounded, Counting
<1> QED BY <1>2, <1>3 DEF LoginInv

(* The invariant holds throughout.                                         *)
LEMMA LoginInvariance == LoginSpec => []LoginInv
<1>1. LoginInv /\ [LoginNext]_loginVars => LoginInv'
  BY EntriesStep, CountsStep DEF LoginInv
<1> QED BY <1>1, LoginStart, PTL DEF LoginSpec

(* Whatever attempts interleave, a key that is neither reset nor evicted   *)
(* fails, within a window length, fewer than twice MaxAttempts plus the    *)
(* attempts that can be past the lookup when the lock falls (login_post,   *)
(* retry_after, record_failure).                                           *)
THEOREM FailuresLimited == LoginSpec => []FailuresBounded
<1>1. LoginInv => FailuresBounded
  <2> SUFFICES ASSUME LoginInv, Lockout >= Window, NEW k \in Logins
               PROVE  Cardinality(Recent(k, Window)) < 2 * (MaxAttempts + Cardinality(Slots) - 1)
    BY DEF FailuresBounded
  <2> DEFINE e == entries[k]
  <2> DEFINE s == failed[k]
  <2> DEFINE A == MaxAttempts
  <2> DEFINE S == Cardinality(Slots)
  <2>0. now \in Nat /\ s \in Seq(0..now) /\ Len(s) \in Nat /\ A \in Nat \ {0} /\ S \in Nat \ {0}
    BY Settings DEF LoginInv, EntriesOK
  <2>1. CASE ~Counting(k)
    <3>1. Len(s) = 0
      BY <2>1 DEF LoginInv, EntriesOK
    <3>2. Recent(k, Window) = {}
      BY <3>1 DEF Recent
    <3> QED BY <2>0, <3>2, FS_EmptySet
  <2>2. CASE Counting(k)
    <3>1. EntryOK(e, s, now) /\ LatestBounded(k) /\ EarlierBounded(k)
      BY <2>2 DEF LoginInv, EntriesOK, CountsBounded
    <3>2. Recent(k, Window) \subseteq Latest(e, s, now) \cup Earlier(e, s)
      BY <2>0, <3>1, RecentSplit DEF Recent
    <3>3. /\ IsFiniteSet(Latest(e, s, now)) /\ Cardinality(Latest(e, s, now)) \in Nat
          /\ IsFiniteSet(Earlier(e, s)) /\ Cardinality(Earlier(e, s)) \in Nat
          /\ Cardinality(Pending(k, slot)) \in Nat
      BY <2>0, CountsFinite, PendingFinite
    <3>4. Cardinality(Latest(e, s, now)) <= A + S - 1
      <4>1. CASE Locked(k)
        BY <2>0, <3>1, <3>3, <4>1 DEF LatestBounded
      <4>2. CASE ~Locked(k)
        <5>1. ~(e.locked_until > now)
          BY <2>2, <4>2 DEF Locked
        <5>2. Cardinality(Latest(e, s, now)) <= A - 1
          BY <2>0, <3>1, <5>1, UnlockedFew
        <5> QED BY <2>0, <3>3, <5>2
      <4> QED BY <4>1, <4>2
    <3>5. Cardinality(Earlier(e, s)) <= A + S - 2
      BY <3>1 DEF EarlierBounded
    <3> DEFINE L == Latest(e, s, now)
    <3> DEFINE E == Earlier(e, s)
    <3> DEFINE R == Recent(k, Window)
    <3> HIDE DEF e, s, A, S, L, E, R
    <3>6. IsFiniteSet(L \cup E) /\ Cardinality(L \cup E) = Cardinality(L) + Cardinality(E) - Cardinality(L \cap E)
      BY <3>3, FS_Union DEF L, E
    <3>7. IsFiniteSet(L \cap E) /\ Cardinality(L \cap E) \in Nat
      <4>1. L \cap E \subseteq L /\ IsFiniteSet(L)
        BY <3>3 DEF L
      <4> QED BY <4>1, FS_Subset, FS_CardinalityType
    <3>8. Cardinality(R) <= Cardinality(L \cup E)
      BY <3>2, <3>6, FewerCount DEF L, E, R
    <3>9. IsFiniteSet(R) /\ Cardinality(R) \in Nat
      BY <3>2, <3>6, FS_Subset, FS_CardinalityType DEF L, E, R
    <3>10. Cardinality(R) < 2 * (A + S - 1)
      <4>1. Cardinality(L) \in Nat /\ Cardinality(L) <= A + S - 1
            /\ Cardinality(E) \in Nat /\ Cardinality(E) <= A + S - 2
        BY <3>3, <3>4, <3>5 DEF L, E
      <4> QED BY <2>0, <3>6, <3>7, <3>8, <3>9, <4>1
    <3> QED BY <3>10 DEF R, A, S
  <2> QED BY <2>1, <2>2
<1> QED BY <1>1, LoginInvariance, PTL

(* A key is refused only after MaxAttempts failures of its own within one  *)
(* window, and not beyond the lockout after the last of them.              *)
THEOREM LocksForCause == LoginSpec => []LockedForCause
<1>1. LoginInv => LockedForCause
  <2> SUFFICES ASSUME LoginInv, NEW k \in Logins, Locked(k)
               PROVE  /\ Len(failed[k]) >= MaxAttempts
                      /\ now - failed[k][Len(failed[k])] < Lockout
                      /\ \E i \in MaxAttempts..Len(failed[k]) :
                            failed[k][i] - failed[k][i - MaxAttempts + 1] <= Window
    BY DEF LockedForCause
  <2> DEFINE e == entries[k]
  <2> DEFINE s == failed[k]
  <2>1. EntryOK(e, s, now) /\ now \in Nat /\ e.locked_until > now
    BY DEF LoginInv, EntriesOK, Locked
  <2> HIDE DEF e, s
  <2>2. Len(s) \in Nat /\ e.failures \in 1..Len(s) /\ \A i \in 1..Len(s) : s[i] \in Nat
    BY <2>1, EntryFacts
  <2>3. e.failures >= MaxAttempts /\ s[Len(s)] + Lockout > now
    BY <2>1 DEF EntryOK
  <2>4. now - s[Len(s)] < Lockout
    <3> DEFINE last == s[Len(s)]
    <3>1. last \in Nat /\ last + Lockout > now
      BY <2>2, <2>3
    <3> HIDE DEF last
    <3>2. now - last < Lockout
      BY <2>1, <3>1, Settings
    <3> QED BY <3>2 DEF last
  <2>5. s[Len(s)] - s[Len(s) - MaxAttempts + 1] <= Window
    <3> DEFINE f == Len(s) - MaxAttempts + 1
    <3>1. f \in 1..Len(s) /\ f + e.failures > Len(s) /\ Len(s) \in 1..Len(s)
          /\ Len(s) + e.failures > Len(s)
      BY <2>2, <2>3, Settings
    <3> HIDE DEF f
    <3>2. e.window_start <= s[f] /\ s[Len(s)] <= e.window_start + Window
      BY <2>1, <3>1 DEF EntryOK
    <3>3. e.window_start \in Nat
      BY <2>1 DEF EntryOK, Entry
    <3>4. s[Len(s)] \in Nat /\ s[f] \in Nat /\ Window \in Nat
      BY <2>2, <3>1, Settings
    <3>5. s[Len(s)] - s[f] <= Window
      BY <3>2, <3>3, <3>4
    <3> QED BY <3>5 DEF f
  <2>6. Len(s) \in MaxAttempts..Len(s)
    BY <2>2, <2>3, Settings
  <2> QED BY <2>2, <2>3, <2>4, <2>5, <2>6 DEF s
<1> QED BY <1>1, LoginInvariance, PTL

(* What is dropped suffices.                                               *)
LEMMA EvictedEnough ==
    ASSUME NEW map, IsFiniteSet(DOMAIN map), NEW gone \in Evicted(map)
    PROVE  IsFiniteSet(DOMAIN map \ gone) /\ Cardinality(DOMAIN map \ gone) <= MaxEntries
<1> DEFINE all == DOMAIN map
<1> DEFINE rest == all \ {k \in all : Expired(map[k])}
<1>1. IsFiniteSet(all) /\ Cardinality(all) \in Nat /\ MaxEntries \in Nat
  BY FS_CardinalityType, EntriesAssumption
<1>2. CASE Cardinality(all) <= MaxEntries
  <2>1. gone = {}
    BY <1>2 DEF Evicted
  <2>2. all \ gone = all
    BY <2>1
  <2> QED BY <1>1, <1>2, <2>2
<1>3. CASE ~(Cardinality(all) <= MaxEntries)
  <2>1. PICK m \in SUBSET rest :
          /\ gone = {k \in all : Expired(map[k])} \cup m
          /\ Cardinality(m) = IF Cardinality(rest) > MaxEntries THEN Cardinality(rest) - MaxEntries ELSE 0
    BY <1>3 DEF Evicted
  <2>2. all \ gone = rest \ m /\ rest \cap m = m
    BY <2>1
  <2>3. IsFiniteSet(rest) /\ Cardinality(rest) \in Nat
    <3>1. rest \subseteq all
      OBVIOUS
    <3> QED BY <1>1, <3>1, FS_Subset, FS_CardinalityType
  <2> HIDE DEF rest
  <2>4. IsFiniteSet(rest \ m) /\ Cardinality(rest \ m) = Cardinality(rest) - Cardinality(m)
    BY <2>2, <2>3, FS_Difference
  <2>5. Cardinality(rest \ m) <= MaxEntries
    BY <1>1, <2>1, <2>3, <2>4
  <2> QED BY <2>2, <2>4, <2>5
<1> QED BY <1>2, <1>3

(* The map within its limit, and the clock within its bound.               *)
LoginMapOK ==
    /\ now <= MaxTime
    /\ IsFiniteSet(DOMAIN entries) /\ Cardinality(DOMAIN entries) <= MaxEntries

(* Only record_failure adds a key, and it prunes.                          *)
LEMMA LoginMapStep == EntriesOK /\ LoginMapOK /\ [LoginNext]_loginVars => LoginMapOK'
<1> SUFFICES ASSUME EntriesOK, LoginMapOK, [LoginNext]_loginVars PROVE LoginMapOK'
  OBVIOUS
<1>1. ASSUME NEW r \in Slots, Succeed(r) PROVE LoginMapOK'
  <2>1. DOMAIN entries' = DOMAIN entries \ {slot[r]} /\ now' = now
    BY <1>1 DEF Succeed, Forget
  <2>2. DOMAIN entries' \subseteq DOMAIN entries
    BY <2>1
  <2>3. IsFiniteSet(DOMAIN entries') /\ Cardinality(DOMAIN entries') <= Cardinality(DOMAIN entries)
    BY <2>2, FS_Subset DEF LoginMapOK
  <2>4. Cardinality(DOMAIN entries') \in Nat /\ Cardinality(DOMAIN entries) \in Nat /\ MaxEntries \in Nat
    BY <2>3, FS_CardinalityType, EntriesAssumption DEF LoginMapOK
  <2> QED BY <2>1, <2>3, <2>4 DEF LoginMapOK
<1>2. ASSUME NEW r \in Slots, record_failure(r) PROVE LoginMapOK'
  <2> DEFINE map == [x \in DOMAIN entries \cup {slot[r]} |->
                       IF x = slot[r] THEN Counted(WindowEntry(slot[r])) ELSE entries[x]]
  <2>1. PICK gone \in Evicted(map) : entries' = Forget(map, gone) /\ now' = now
    BY <1>2 DEF record_failure
  <2>2. IsFiniteSet(DOMAIN map)
    BY FS_AddElement DEF LoginMapOK
  <2>3. DOMAIN entries' = DOMAIN map \ gone
    BY <2>1 DEF Forget
  <2> HIDE DEF map
  <2> QED BY <2>1, <2>2, <2>3, EvictedEnough DEF LoginMapOK
<1>3. CASE (\E r \in Slots, k \in Logins : Begin(r, k)) \/ LoginTick \/ UNCHANGED loginVars
  BY <1>3, EntriesAssumption DEF Begin, LoginTick, loginVars, LoginMapOK, EntriesOK
<1> QED BY <1>1, <1>2, <1>3 DEF LoginNext

(* The map never holds more than _MAX_ENTRIES keys, whatever names and     *)
(* addresses are tried (_maybe_prune).                                     *)
THEOREM LoginTypeCorrect == LoginSpec => []LoginTypeOK
<1>1. LoginInit => LoginMapOK
  <2> SUFFICES ASSUME LoginInit PROVE LoginMapOK
    OBVIOUS
  <2>1. DOMAIN entries = {} /\ now = 0
    BY DEF LoginInit
  <2> QED BY <2>1, FS_EmptySet, EntriesAssumption DEF LoginMapOK
<1>2. EntriesOK /\ LoginMapOK => LoginTypeOK
  <2> SUFFICES ASSUME EntriesOK, LoginMapOK PROVE LoginTypeOK
    OBVIOUS
  <2>1. now \in 0..MaxTime /\ MaxTime \in Nat
    BY EntriesAssumption DEF EntriesOK, LoginMapOK
  <2>2. \A k \in Logins : failed[k] \in Seq(0..MaxTime)
    BY <2>1 DEF EntriesOK
  <2>3. \A k \in DOMAIN entries : entries[k] \in Entry
    BY DEF EntriesOK, EntryOK, Counting
  <2> QED BY <2>1, <2>2, <2>3 DEF LoginTypeOK, EntriesOK, LoginMapOK
<1>3. LoginInv => EntriesOK
  BY DEF LoginInv
<1> QED BY <1>1, <1>2, <1>3, LoginMapStep, LoginInvariance, PTL DEF LoginSpec

-----------------------------------------------------------------------------
(* The cycle and its breaker.                                              *)

(* The failures among the outcomes i to j.                                 *)
Fails(t, i, j) == {k \in i..j : t[k] = "failed"}

(* What the breaker has counted: the failures since the last success, if   *)
(* there was one.                                                          *)
CountOK(t, c) ==
    \E p \in 0..Len(t) :
        /\ p > 0 => t[p] = "success"
        /\ \A k \in (p + 1)..Len(t) : t[k] # "success"
        /\ c = Cardinality(Fails(t, p + 1, Len(t)))

(* A step that deals with a row has one.                                   *)
AtRow == phase \in {"outage", "fetch", "tail", "record"} => cur \in Exts

(* Every store is counted right, and open when a run of failures was seen. *)
BreakerOK ==
    \A s \in Stores : /\ CountOK(trail[s], consecutive[s])
                      /\ s \in open <=> Threshold > 0 /\ FailureRun(trail[s])

(* A steady row is there, and it waits in the queue, is being dealt with,  *)
(* or has its FetchLog.                                                    *)
SteadyOK ==
    phase \in {"loop", "outage", "fetch", "tail", "record"} =>
        \A e \in steady : /\ e \in alive /\ e \in watch
                          /\ \/ e \in queue
                             \/ e = cur /\ phase \in {"outage", "fetch"}
                             \/ log[e] # "none"

(* The inductive invariant.                                                *)
CycleInv == CycleTypeOK /\ AtRow /\ BreakerOK /\ SteadyOK

-----------------------------------------------------------------------------
(* Failures can be counted.                                                *)
LEMMA FailsFinite ==
    ASSUME NEW t, NEW i \in Nat, NEW j \in Nat
    PROVE  IsFiniteSet(Fails(t, i, j)) /\ Cardinality(Fails(t, i, j)) \in Nat
<1>1. IsFiniteSet(i..j) /\ Fails(t, i, j) \subseteq i..j
  BY FS_Interval DEF Fails
<1> QED BY <1>1, FS_Subset, FS_CardinalityType

(* One more outcome.                                                       *)
LEMMA Extended ==
    ASSUME NEW t \in Seq(Outcomes), NEW o \in Outcomes
    PROVE  /\ Append(t, o) \in Seq(Outcomes) /\ Len(t) \in Nat
           /\ Len(Append(t, o)) = Len(t) + 1
           /\ \A k \in 1..Len(t) : Append(t, o)[k] = t[k]
           /\ Append(t, o)[Len(t) + 1] = o
OBVIOUS

(* ... is counted, ...                                                     *)
LEMMA CountStep ==
    ASSUME NEW t \in Seq(Outcomes), NEW o \in Outcomes, NEW c, CountOK(t, c), NEW d,
           d = IF o = "success" THEN 0 ELSE IF o = "failed" THEN c + 1 ELSE c
    PROVE  CountOK(Append(t, o), d)
<1> DEFINE u == Append(t, o)
<1> DEFINE n == Len(t)
<1>1. /\ u \in Seq(Outcomes) /\ n \in Nat /\ Len(u) = n + 1
      /\ \A k \in 1..n : u[k] = t[k]
      /\ u[n + 1] = o
  BY Extended
<1> HIDE DEF u
<1>2. PICK p \in 0..n : /\ p > 0 => t[p] = "success"
                        /\ \A k \in (p + 1)..n : t[k] # "success"
                        /\ c = Cardinality(Fails(t, p + 1, n))
  BY DEF CountOK
<1> HIDE DEF n
<1>3. CASE o = "success"
  <2>1. Fails(u, n + 2, n + 1) = {}
    BY <1>1 DEF Fails
  <2>2. d = Cardinality(Fails(u, n + 2, n + 1))
    BY <1>3, <2>1, FS_EmptySet
  <2>3. n + 1 \in 0..Len(u) /\ u[n + 1] = "success" /\ (n + 1) + 1 = n + 2
        /\ \A k \in ((n + 1) + 1)..Len(u) : u[k] # "success"
    BY <1>1, <1>3
  <2> QED BY <1>1, <2>2, <2>3 DEF CountOK, u
<1>4. CASE o = "failed"
  <2>1. Fails(u, p + 1, n + 1) = Fails(t, p + 1, n) \cup {n + 1} /\ n + 1 \notin Fails(t, p + 1, n)
    BY <1>1, <1>2, <1>4 DEF Fails
  <2>2. IsFiniteSet(Fails(t, p + 1, n))
    BY <1>1, FailsFinite
  <2>3. Cardinality(Fails(u, p + 1, n + 1)) = c + 1
    BY <1>2, <2>1, <2>2, FS_AddElement
  <2>4. p \in 0..Len(u) /\ (p > 0 => u[p] = "success") /\ \A k \in (p + 1)..Len(u) : u[k] # "success"
    BY <1>1, <1>2, <1>4
  <2> QED BY <1>1, <1>4, <2>3, <2>4 DEF CountOK, u
<1>5. CASE o \notin {"success", "failed"}
  <2>1. Fails(u, p + 1, n + 1) = Fails(t, p + 1, n)
    BY <1>1, <1>2, <1>5 DEF Fails
  <2>2. p \in 0..Len(u) /\ (p > 0 => u[p] = "success") /\ \A k \in (p + 1)..Len(u) : u[k] # "success"
    BY <1>1, <1>2, <1>5
  <2> QED BY <1>1, <1>2, <1>5, <2>1, <2>2 DEF CountOK, u
<1> QED BY <1>3, <1>4, <1>5

(* ... and completes a run when it is a failure and the count says so.     *)
LEMMA RunStep ==
    ASSUME NEW t \in Seq(Outcomes), NEW o \in Outcomes, NEW c, CountOK(t, c),
           Threshold \in Nat \ {0}
    PROVE  FailureRun(Append(t, o)) <=> FailureRun(t) \/ (o = "failed" /\ c + 1 >= Threshold)
<1> DEFINE u == Append(t, o)
<1> DEFINE n == Len(t)
<1>1. /\ u \in Seq(Outcomes) /\ n \in Nat /\ Len(u) = n + 1
      /\ \A k \in 1..n : u[k] = t[k]
      /\ u[n + 1] = o
  BY Extended
<1> HIDE DEF u
<1>2. PICK p \in 0..n : /\ p > 0 => t[p] = "success"
                        /\ \A k \in (p + 1)..n : t[k] # "success"
                        /\ c = Cardinality(Fails(t, p + 1, n))
  BY DEF CountOK
<1>0. /\ FailureRun(t) <=> \E i, j \in 1..n : /\ Cardinality(Fails(t, i, j)) >= Threshold
                                              /\ \A k \in i..j : t[k] # "success"
      /\ FailureRun(u) <=> \E i, j \in 1..(n + 1) : /\ Cardinality(Fails(u, i, j)) >= Threshold
                                                    /\ \A k \in i..j : u[k] # "success"
  BY <1>1 DEF FailureRun, Fails
<1> HIDE DEF n
<1>3. ASSUME NEW i \in 1..n, NEW j \in 1..n PROVE Fails(u, i, j) = Fails(t, i, j)
  BY <1>1 DEF Fails
<1>4. ~(Cardinality({}) >= Threshold)
  BY FS_EmptySet
<1>5. ASSUME FailureRun(t) PROVE FailureRun(u)
  <2>1. PICK i, j \in 1..n : Cardinality(Fails(t, i, j)) >= Threshold /\ \A k \in i..j : t[k] # "success"
    BY <1>0, <1>5
  <2>2. i \in 1..(n + 1) /\ j \in 1..(n + 1) /\ \A k \in i..j : u[k] # "success"
    BY <1>1, <2>1
  <2> QED BY <1>0, <1>3, <2>1, <2>2
<1>6. ASSUME o = "failed" PROVE /\ Fails(u, p + 1, n + 1) = Fails(t, p + 1, n) \cup {n + 1}
                                /\ IsFiniteSet(Fails(u, p + 1, n + 1))
                                /\ Cardinality(Fails(u, p + 1, n + 1)) = c + 1
  <2>1. Fails(u, p + 1, n + 1) = Fails(t, p + 1, n) \cup {n + 1} /\ n + 1 \notin Fails(t, p + 1, n)
    BY <1>1, <1>2, <1>6 DEF Fails
  <2>2. IsFiniteSet(Fails(t, p + 1, n))
    BY <1>1, FailsFinite
  <2> QED BY <1>2, <2>1, <2>2, FS_AddElement
<1>7. ASSUME o = "failed", c + 1 >= Threshold PROVE FailureRun(u)
  <2>1. p + 1 \in 1..(n + 1) /\ n + 1 \in 1..(n + 1) /\ \A k \in (p + 1)..(n + 1) : u[k] # "success"
    BY <1>1, <1>2, <1>7
  <2>2. Cardinality(Fails(u, p + 1, n + 1)) >= Threshold
    BY <1>6, <1>7
  <2> QED BY <1>0, <2>1, <2>2
<1>8. ASSUME FailureRun(u), ~FailureRun(t) PROVE o = "failed" /\ c + 1 >= Threshold
  <2>1. PICK i, j \in 1..(n + 1) : Cardinality(Fails(u, i, j)) >= Threshold /\ \A k \in i..j : u[k] # "success"
    BY <1>0, <1>8
  <2>2. i <= j
    <3>1. Fails(u, i, j) # {}
      BY <1>4, <2>1
    <3>2. PICK k \in i..j : u[k] = "failed"
      BY <3>1 DEF Fails
    <3> QED BY <1>1, <3>2
  <2>3. j = n + 1
    <3>1. j # n + 1 => i \in 1..n /\ j \in 1..n
      BY <1>1, <2>2
    <3>2. j # n + 1 => Cardinality(Fails(t, i, j)) >= Threshold /\ \A k \in i..j : t[k] # "success"
      BY <1>1, <1>3, <2>1, <3>1
    <3> QED BY <1>0, <1>8, <3>1, <3>2
  <2>4. o # "success"
    BY <1>1, <2>1, <2>2, <2>3
  <2>5. o = "failed"
    <3> SUFFICES ASSUME o # "failed" PROVE FALSE
      OBVIOUS
    <3>1. CASE i = n + 1
      <4>1. Fails(u, i, j) = {}
        BY <1>1, <2>3, <3>1 DEF Fails
      <4> QED BY <1>4, <2>1, <4>1
    <3>2. CASE i # n + 1
      <4>1. i \in 1..n /\ n \in 1..n
        BY <1>1, <3>2
      <4>2. Fails(u, i, j) = Fails(t, i, n)
        BY <1>1, <2>3, <4>1 DEF Fails
      <4>3. \A k \in i..n : t[k] # "success"
        BY <1>1, <2>1, <2>3, <4>1
      <4> QED BY <1>0, <1>8, <2>1, <4>1, <4>2, <4>3
    <3> QED BY <3>1, <3>2
  <2>6. p < i
    BY <1>1, <1>2, <2>1, <2>2, <2>3
  <2>7. Fails(u, i, j) \subseteq Fails(u, p + 1, n + 1)
    BY <1>1, <2>3, <2>6 DEF Fails
  <2>8. Cardinality(Fails(u, i, j)) <= Cardinality(Fails(u, p + 1, n + 1))
    BY <1>6, <2>5, <2>7, FS_Subset
  <2>9. Cardinality(Fails(u, i, j)) \in Nat /\ Cardinality(Fails(t, p + 1, n)) \in Nat
    BY <1>1, FailsFinite
  <2> QED BY <1>2, <1>6, <2>1, <2>5, <2>8, <2>9
<1> QED BY <1>5, <1>7, <1>8 DEF u

-----------------------------------------------------------------------------
(* What a step of the cycle that records an outcome does to the breaker.   *)
LEMMA Recording ==
    ASSUME CycleTypeOK, BreakerOK, NEW s0 \in Stores, NEW o \in Outcomes, record(s0, o)
    PROVE  BreakerOK' /\ consecutive' \in [Stores -> Nat] /\ open' \subseteq Stores
           /\ trail' \in [Stores -> Seq(Outcomes)]
<1>1. /\ consecutive \in [Stores -> Nat] /\ open \subseteq Stores
      /\ trail \in [Stores -> Seq(Outcomes)] /\ Threshold \in Nat
  BY BoundAssumption DEF CycleTypeOK
<1> DEFINE d == IF o = "success" THEN 0 ELSE IF o = "failed" THEN consecutive[s0] + 1 ELSE consecutive[s0]
<1>2. Count(s0, o) = d /\ d \in Nat
  BY <1>1 DEF Count, Outcomes
<1> HIDE DEF d
<1>3. /\ consecutive' = [consecutive EXCEPT ![s0] = d]
      /\ trail' = [trail EXCEPT ![s0] = Append(trail[s0], o)]
      /\ open' = IF o = "failed" /\ Threshold > 0 /\ consecutive[s0] + 1 >= Threshold
                 THEN open \cup {s0} ELSE open
  BY <1>2 DEF record, Trips, d
<1>4. Append(trail[s0], o) \in Seq(Outcomes)
  BY <1>1, Extended
<1>5. ASSUME NEW s \in Stores
      PROVE  CountOK(trail'[s], consecutive'[s]) /\ (s \in open' <=> Threshold > 0 /\ FailureRun(trail'[s]))
  <2>1. CASE s # s0
    <3>1. trail'[s] = trail[s] /\ consecutive'[s] = consecutive[s] /\ (s \in open' <=> s \in open)
      BY <1>1, <1>3, <2>1
    <3> QED BY <3>1 DEF BreakerOK
  <2>2. CASE s = s0
    <3>1. trail'[s0] = Append(trail[s0], o) /\ consecutive'[s0] = d /\ trail[s0] \in Seq(Outcomes)
      BY <1>1, <1>3
    <3>2. CountOK(trail[s0], consecutive[s0]) /\ (s0 \in open <=> Threshold > 0 /\ FailureRun(trail[s0]))
      BY DEF BreakerOK
    <3>3. CountOK(trail'[s0], consecutive'[s0])
      BY <3>1, <3>2, CountStep DEF d
    <3>4. CASE Threshold = 0
      BY <1>3, <2>2, <3>2, <3>3, <3>4
    <3>5. CASE Threshold \in Nat \ {0}
      <4>1. FailureRun(trail'[s0]) <=> FailureRun(trail[s0]) \/ (o = "failed" /\ consecutive[s0] + 1 >= Threshold)
        BY <3>1, <3>2, <3>5, RunStep
      <4> QED BY <1>3, <2>2, <3>2, <3>3, <3>5, <4>1
    <3> QED BY <1>1, <3>4, <3>5
  <2> QED BY <2>1, <2>2
<1>6. open' \subseteq Stores /\ consecutive' \in [Stores -> Nat] /\ trail' \in [Stores -> Seq(Outcomes)]
  BY <1>1, <1>2, <1>3, <1>4
<1> QED BY <1>5, <1>6 DEF BreakerOK

(* The breaker of a new cycle.                                             *)
LEMMA NewBreakerOK ==
    ASSUME NewBreaker
    PROVE  BreakerOK' /\ consecutive' \in [Stores -> Nat] /\ open' \subseteq Stores
           /\ trail' \in [Stores -> Seq(Outcomes)]
<1>1. Len(<< >>) = 0 /\ << >> \in Seq(Outcomes)
  OBVIOUS
<1>2. CountOK(<< >>, 0)
  <2>1. Fails(<< >>, 0 + 1, 0) = {} /\ \A k \in (0 + 1)..0 : << >>[k] # "success"
    BY DEF Fails
  <2> QED BY <1>1, <2>1, FS_EmptySet DEF CountOK
<1>3. ~FailureRun(<< >>)
  BY <1>1 DEF FailureRun
<1>4. /\ consecutive' = [s \in Stores |-> 0] /\ open' = {}
      /\ trail' = [s \in Stores |-> << >>]
  BY DEF NewBreaker
<1> QED BY <1>1, <1>2, <1>3, <1>4 DEF BreakerOK

(* A process starts right.                                                 *)
LEMMA CycleStart == CycleInit => CycleInv
<1> SUFFICES ASSUME CycleInit PROVE CycleInv
  OBVIOUS
<1>1. Len(<< >>) = 0 /\ << >> \in Seq(Outcomes)
  OBVIOUS
<1>2. CountOK(<< >>, 0)
  <2>1. Fails(<< >>, 0 + 1, 0) = {} /\ \A k \in (0 + 1)..0 : << >>[k] # "success"
    BY DEF Fails
  <2> QED BY <1>1, <2>1, FS_EmptySet DEF CountOK
<1>3. ~FailureRun(<< >>)
  BY <1>1 DEF FailureRun
<1>4. BreakerOK
  BY <1>2, <1>3 DEF CycleInit, BreakerOK
<1>5. CycleTypeOK
  BY <1>1, BoundAssumption DEF CycleInit, CycleTypeOK
<1> QED BY <1>4, <1>5 DEF CycleInit, CycleInv, AtRow, SteadyOK

(* Every step keeps the invariant.                                         *)
LEMMA CycleStep == CycleInv /\ [CycleNext]_cycleVars => CycleInv'
<1> SUFFICES ASSUME CycleInv, [CycleNext]_cycleVars PROVE CycleInv'
  OBVIOUS
<1> USE DEF rows, world, seen, budget, breaker
<1>0. /\ CycleTypeOK /\ AtRow /\ BreakerOK /\ SteadyOK
      /\ Threshold \in Nat /\ MaxEdits \in Nat /\ MaxFaults \in Nat
  BY BoundAssumption DEF CycleInv
<1>a. ASSUME UNCHANGED breaker
      PROVE  BreakerOK' /\ consecutive' \in [Stores -> Nat] /\ open' \subseteq Stores
             /\ trail' \in [Stores -> Seq(Outcomes)]
  BY <1>0, <1>a DEF BreakerOK, CycleTypeOK
<1>b. ASSUME NEW o \in Outcomes, cur \in Exts, Continue(o)
      PROVE  BreakerOK' /\ consecutive' \in [Stores -> Nat] /\ open' \subseteq Stores
             /\ trail' \in [Stores -> Seq(Outcomes)]
  <2>1. StoreOf[cur] \in Stores /\ record(StoreOf[cur], o)
    BY <1>b, StoreAssumption DEF Continue
  <2> QED BY <1>0, <2>1, Recording
<1>c. Fault \/ Edit => edits' \in 0..MaxEdits /\ faults' \in 0..MaxFaults
  BY <1>0 DEF Fault, Edit, CycleTypeOK
<1>d. ASSUME cur \in Exts, NEW entry \in {"failure", "outage"}, LogFailure(entry), UNCHANGED rows
      PROVE  /\ log' \in [Exts -> {"none", "success", "failure", "outage"}]
             /\ steady' \subseteq steady /\ down' \subseteq Stores
             /\ edits' \in 0..MaxEdits /\ faults' \in 0..MaxFaults
             /\ \A e \in steady' : e # cur => log'[e] = log[e]
             /\ cur \in steady' /\ cur \in alive => log'[cur] # "none"
  <2>1. log \in [Exts -> {"none", "success", "failure", "outage"}] /\ steady \subseteq Exts /\ down \subseteq Stores
    BY <1>0 DEF CycleTypeOK
  <2>2. edits' \in 0..MaxEdits /\ faults' \in 0..MaxFaults
    BY <1>0, <1>c, <1>d DEF LogFailure, CycleTypeOK
  <2>3. CASE cur \in alive /\ log' = [log EXCEPT ![cur] = entry] /\ UNCHANGED seen
    BY <1>d, <2>1, <2>2, <2>3
  <2>4. CASE cur \notin alive /\ UNCHANGED log /\ UNCHANGED seen
    BY <2>1, <2>2, <2>4
  <2>5. CASE steady' = steady \ {cur} /\ UNCHANGED log /\ UNCHANGED down
    BY <2>1, <2>2, <2>5
  <2> QED BY <1>d, <2>3, <2>4, <2>5 DEF LogFailure
<1>1. CASE StartCycle
  BY <1>0, <1>1, <1>a DEF StartCycle, CycleInv, CycleTypeOK, AtRow, SteadyOK
<1>2. CASE Recover
  BY <1>0, <1>2, <1>a, <1>c DEF Recover, CycleInv, CycleTypeOK, AtRow, SteadyOK
<1>3. CASE Snapshot
  <2>1. BreakerOK' /\ consecutive' \in [Stores -> Nat] /\ open' \subseteq Stores
        /\ trail' \in [Stores -> Seq(Outcomes)]
    BY <1>3, <1>a, NewBreakerOK DEF Snapshot
  <2> QED BY <1>0, <1>3, <1>c, <2>1 DEF Snapshot, CycleInv, CycleTypeOK, AtRow, SteadyOK
<1>4. ASSUME NEW e \in Exts, Skip(e) PROVE CycleInv'
  BY <1>0, <1>4, <1>a DEF Skip, CycleInv, CycleTypeOK, AtRow, SteadyOK
<1>5. CASE _record_store_outage
  <2>1. cur \in Exts /\ "error" \in Outcomes /\ UNCHANGED rows
    BY <1>0, <1>5 DEF _record_store_outage, AtRow, Outcomes
  <2>2. CASE LogFailure("outage") /\ phase' = "loop" /\ cur' = NoExt /\ UNCHANGED breaker
    <3>1. SteadyOK'
      BY <1>0, <1>5, <1>d, <2>1, <2>2 DEF _record_store_outage, SteadyOK
    <3>2. CycleTypeOK'
      BY <1>0, <1>5, <1>a, <1>d, <2>1, <2>2 DEF _record_store_outage, CycleTypeOK
    <3> QED BY <1>a, <2>2, <3>1, <3>2 DEF CycleInv, AtRow
  <2>3. CASE Fault /\ Continue("error") /\ steady' = steady \ {cur} /\ UNCHANGED <<log, down>>
    BY <1>0, <1>5, <1>b, <1>c, <2>1, <2>3
    DEF _record_store_outage, Continue, CycleInv, CycleTypeOK, AtRow, SteadyOK
  <2> QED BY <1>5, <2>2, <2>3 DEF _record_store_outage
<1>6. ASSUME NEW e \in Exts, Visit(e) PROVE CycleInv'
  BY <1>0, <1>6, <1>a DEF Visit, CycleInv, CycleTypeOK, AtRow, SteadyOK
<1>7. CASE Gone
  <2>1. cur \in Exts /\ "gone" \in Outcomes
    BY <1>0, <1>7 DEF Gone, AtRow, Outcomes
  <2> QED BY <1>0, <1>7, <1>b, <2>1 DEF Gone, Continue, CycleInv, CycleTypeOK, AtRow, SteadyOK
<1>8. CASE FetchFailed
  <2>1. cur \in Exts /\ "failed" \in Outcomes
    BY <1>0, <1>8 DEF FetchFailed, AtRow, Outcomes
  <2>2. SteadyOK'
    BY <1>0, <1>8, <1>d, <2>1 DEF FetchFailed, Continue, SteadyOK
  <2>3. CycleTypeOK' /\ BreakerOK'
    BY <1>0, <1>8, <1>b, <1>d, <2>1 DEF FetchFailed, Continue, CycleTypeOK
  <2> QED BY <1>8, <2>2, <2>3 DEF FetchFailed, Continue, CycleInv, AtRow
<1>9. CASE InternalError
  <2>1. cur \in Exts /\ "error" \in Outcomes
    BY <1>0, <1>9 DEF InternalError, AtRow, Outcomes
  <2> QED BY <1>0, <1>9, <1>b, <1>c, <2>1 DEF InternalError, Continue, CycleInv, CycleTypeOK, AtRow, SteadyOK
<1>10. CASE Stored
  BY <1>0, <1>10, <1>a DEF Stored, CycleInv, CycleTypeOK, AtRow, SteadyOK
<1>11. CASE Finish
  <2>1. PICK o \in Outcomes : Continue(o)
    BY <1>11 DEF Finish, Outcomes
  <2>2. cur \in Exts /\ UNCHANGED <<rows, world, queue, log, seen, last_run, life>> /\ phase = "tail"
        /\ (UNCHANGED budget \/ Fault)
    BY <1>0, <1>11 DEF Finish, AtRow
  <2> QED BY <1>0, <1>b, <1>c, <2>1, <2>2 DEF Continue, CycleInv, CycleTypeOK, AtRow, SteadyOK
<1>12. CASE mark_scheduler_run
  BY <1>0, <1>12, <1>a DEF mark_scheduler_run, CycleInv, CycleTypeOK, AtRow, SteadyOK
<1>13. CASE Shutdown
  BY <1>0, <1>13, <1>a DEF Shutdown, Pause, Stop, Restart, CycleInv, CycleTypeOK, AtRow, SteadyOK
<1>14. ASSUME NEW e \in Exts, DeleteExt(e) PROVE CycleInv'
  BY <1>0, <1>14, <1>a, <1>c DEF DeleteExt, CycleInv, CycleTypeOK, AtRow, SteadyOK
<1>15. ASSUME NEW e \in Exts, ToggleWatch(e) PROVE CycleInv'
  BY <1>0, <1>15, <1>a, <1>c DEF ToggleWatch, CycleInv, CycleTypeOK, AtRow, SteadyOK
<1>16. ASSUME NEW e \in Exts, Delist(e) PROVE CycleInv'
  BY <1>0, <1>16, <1>a, <1>c DEF Delist, CycleInv, CycleTypeOK, AtRow, SteadyOK
<1>17. ASSUME NEW s \in Stores, StoreFlips(s) PROVE CycleInv'
  BY <1>0, <1>17, <1>a, <1>c DEF StoreFlips, CycleInv, CycleTypeOK, AtRow, SteadyOK
<1>18. CASE UNCHANGED cycleVars
  BY <1>0, <1>18, <1>a DEF cycleVars, CycleInv, CycleTypeOK, AtRow, SteadyOK
<1> QED
  BY <1>1, <1>2, <1>3, <1>4, <1>5, <1>6, <1>7, <1>8, <1>9, <1>10, <1>11, <1>12, <1>13,
     <1>14, <1>15, <1>16, <1>17, <1>18 DEF CycleNext, Cycle, Environment

(* The invariant holds throughout.                                         *)
LEMMA CycleInvariance == CycleSpec => []CycleInv
BY CycleStart, CycleStep, PTL DEF CycleSpec

(* Rows, queue, breaker and logs of the cycle keep their types             *)
(* (refresh_watchlist).                                                    *)
THEOREM CycleTypeCorrect == CycleSpec => []CycleTypeOK
<1>1. CycleInv => CycleTypeOK
  BY DEF CycleInv
<1> QED BY <1>1, CycleInvariance, PTL

(* The circuit of a store is open exactly when the cycle saw Threshold     *)
(* failures of it with no success in between (_StoreCircuitBreaker).       *)
THEOREM OpensOnFailures == CycleSpec => []OpenMeansFailureRun
<1>1. CycleInv => OpenMeansFailureRun
  BY DEF CycleInv, BreakerOK, OpenMeansFailureRun
<1> QED BY <1>1, CycleInvariance, PTL

(* A cycle that got its rows ends with its heartbeat, and every row that   *)
(* was steady has its FetchLog, whatever is deleted, unwatched or fails    *)
(* (refresh_watchlist, _refresh_one).                                      *)
THEOREM CompletesCycle == CycleSpec => CycleCompletes
<1>1. CycleInv /\ [CycleNext]_cycleVars =>
        [phase \notin {"idle", "snapshot"} /\ phase' = "idle" /\ life' = "running"
           => last_run' = "current" /\ \A e \in steady : log[e] # "none"]_cycleVars
  <2> SUFFICES ASSUME CycleInv, CycleNext, phase \notin {"idle", "snapshot"}, phase' = "idle",
                      life' = "running"
               PROVE  last_run' = "current" /\ \A e \in steady : log[e] # "none"
    OBVIOUS
  <2>1. mark_scheduler_run
    BY DEF CycleNext, StartCycle, Cycle, Recover, Snapshot, _record_store_outage, Gone, FetchFailed,
           InternalError, Stored, Finish, Continue, Skip, Visit, Shutdown, Pause, Stop, Restart,
           Environment, DeleteExt, ToggleWatch, Delist, StoreFlips
  <2> QED BY <2>1 DEF mark_scheduler_run, CycleInv, SteadyOK
<1> QED BY <1>1, CycleInvariance, PTL DEF CycleSpec, CycleCompletes

=============================================================================
