----------------------------- MODULE MainProofs -----------------------------
(* Proofs about a process and the objects its handlers share: KeyLock,      *)
(* RateLimit, Metrics and Main, for every set of goroutines, keys, subjects *)
(* and names, every burst, cost of a call and length of time, every set of  *)
(* versions, and for any number of requests and restarts.                   *)
EXTENDS Main, KeyLock, RateLimit, Integers, TLAPS

----------------------------------------------------------------------------
(* KeyLock. *)

(* The mutexes, the map and the goroutines agree in every reachable state. *)
LEMMA LocksAgree == KeyLockSpec => []LockIInv
<1>1. KeyLockInit => LockIInv
  BY KeyLockAssumption DEF KeyLockInit, LockIInv, LockTypeOK, MutexAgreement, Mutex
<1>2. LockIInv /\ [KeyLockNext]_lockVars => LockIInv'
  <2> SUFFICES ASSUME LockIInv, [KeyLockNext]_lockVars
               PROVE  LockIInv'
    OBVIOUS
  <2> USE KeyLockAssumption DEF LockIInv, LockTypeOK, MutexAgreement, Mutex
  <2>1. CASE \E w \in Caller, k \in Key : LoadOrStore(w, k)
    <3> PICK w \in Caller, k \in Key : LoadOrStore(w, k)
      BY <2>1
    <3>1. MutexFor(w, k) \in Mutex /\ MutexFor(w, k)[2] = k
      BY DEF MutexFor, StoredOrOwn
    <3>2. \A v \in Caller : lockAt[v] # "idle" => mu[v] = table'[key[v]]
      BY DEF LoadOrStore, MutexFor, StoredOrOwn
    <3>3. QED
      BY <3>1, <3>2 DEF LoadOrStore
  <2>2. CASE \E w \in Caller : Lock(w)
    BY <2>2 DEF Lock
  <2>3. CASE \E w \in Caller : Unlock(w)
    BY <2>3 DEF Unlock, Released, UnlockHeld
  <2>4. CASE UNCHANGED lockVars
    BY <2>4 DEF lockVars
  <2>5. QED
    BY <2>1, <2>2, <2>3, <2>4 DEF KeyLockNext
<1>3. QED
  BY <1>1, <1>2, PTL DEF KeyLockSpec

(* Whatever the number of goroutines and keys, two goroutines never hold   *)
(* the lock of one key at once (keylock.go, Acquire).                      *)
THEOREM LockExcludes == KeyLockSpec => []MutualExclusion
<1>1. LockIInv => MutualExclusion
  BY KeyLockAssumption DEF LockIInv, LockTypeOK, MutexAgreement, MutualExclusion, Mutex
<1>2. QED
  BY <1>1, LocksAgree, PTL

(* A goroutine only ever waits for one that works on the same key          *)
(* ("Distinct keys never block each other").                               *)
THEOREM KeysIndependent == KeyLockSpec => []DistinctKeysNeverBlock
<1>1. LockIInv => DistinctKeysNeverBlock
  BY KeyLockAssumption
     DEF LockIInv, LockTypeOK, MutexAgreement, DistinctKeysNeverBlock, Mutex
<1>2. QED
  BY <1>1, LocksAgree, PTL

(* The mutexes are per key: callers of one key agree on one and exclude    *)
(* each other, and no others.                                              *)
THEOREM LocksPerKey == KeyLockSpec => []KeyLockInv
<1>1. LockIInv /\ MutualExclusion /\ DistinctKeysNeverBlock => KeyLockInv
  BY DEF LocksArePerKey, KeyLockInv
<1>2. QED
  BY <1>1, LocksAgree, LockExcludes, KeysIndependent, PTL

----------------------------------------------------------------------------
(* RateLimit. *)

(* A bucket holds a natural number of units, those of one call at least.    *)
LEMMA CapacityIsNat == Capacity \in Nat /\ Capacity >= Cost
<1>1. CASE Burst < 1
  BY <1>1, RateLimitAssumption DEF Capacity
<1>2. CASE Burst >= 1
  <2>1. Cost * Burst \in Nat /\ Cost * Burst >= Cost
    BY <1>2, RateLimitAssumption
  <2>2. QED
    BY <1>2, <2>1, RateLimitAssumption DEF Capacity
<1>3. QED
  BY <1>1, <1>2, RateLimitAssumption

(* A call moves its cost from what a bucket holds to what was granted.      *)
LEMMA MoveCost ==
  ASSUME NEW granted \in Nat, NEW before \in Nat, NEW rest \in Nat, NEW cost \in Nat,
         before <= granted
  PROVE  /\ before <= granted + cost
         /\ ((granted + cost) - before) + (rest - cost) = (granted - before) + rest
  OBVIOUS

(* The map, the buckets and the accounts agree in every reachable state.    *)
LEMMA AccountsAgree == RateLimitSpec => []RateLimitIInv
<1> USE RateLimitAssumption, CapacityIsNat
<1>1. RateLimitInit => RateLimitIInv
  BY DEF RateLimitInit, RateLimitIInv, LimitTypeOK, OneBucketEach, Accounts, Since, Level, Bucket
<1>2. RateLimitIInv /\ [RateLimitNext]_limitVars => RateLimitIInv'
  <2> SUFFICES ASSUME RateLimitIInv, [RateLimitNext]_limitVars
               PROVE  RateLimitIInv'
    OBVIOUS
  <2> USE DEF RateLimitIInv, LimitTypeOK
  <2>1. CASE \E c \in Caller, s \in Subject : Call(c, s)
    <3> PICK c \in Caller, s \in Subject : Call(c, s)
      BY <2>1
    <3>1. /\ callAt' = [callAt EXCEPT ![c] = "lookup"]
          /\ who' = [who EXCEPT ![c] = s]
          /\ UNCHANGED <<buckets, level, held, now, spent, mark>>
      BY DEF Call
    <3>2. LimitTypeOK'
      BY <3>1
    <3>3. OneBucketEach'
      BY <3>1 DEF OneBucketEach
    <3>4. Accounts'
      BY <3>1 DEF Accounts, Since, Level
    <3>5. QED
      BY <3>2, <3>3, <3>4
  <2>2. CASE \E c \in Caller : Lookup(c)
    <3> PICK c \in Caller : Lookup(c)
      BY <2>2
    <3> DEFINE s0 == who[c]
               b == BucketFor(c, s0)
    <3>1. s0 \in Subject /\ b \in Bucket /\ b # None
      BY DEF BucketFor, StoredOrNew, OneBucketEach, Bucket
    <3>2. /\ buckets' = [buckets EXCEPT ![s0] = b]
          /\ held' = [held EXCEPT ![c] = b]
          /\ callAt' = [callAt EXCEPT ![c] = "take"]
          /\ UNCHANGED <<level, who, now, spent, mark>>
      BY DEF Lookup
    <3>3. IF buckets[s0] = None THEN b = <<s0, c>> ELSE b = buckets[s0]
      BY DEF BucketFor, StoredOrNew
    <3>4. LimitTypeOK'
      BY <3>1, <3>2
    <3>5. OneBucketEach'
      <4>1. \E d \in Caller : b = <<s0, d>>
        BY <3>1, <3>3 DEF OneBucketEach
      <4> HIDE DEF s0, b
      <4>2. \A s \in Subject :
              IF buckets'[s] = None
              THEN \A d \in Caller : level'[<<s, d>>] = Capacity
              ELSE \E d \in Caller : buckets'[s] = <<s, d>>
        BY <3>1, <3>2, <4>1 DEF OneBucketEach
      <4>3. \A d \in Caller :
              callAt'[d] = "take" => held'[d] # None /\ held'[d] = buckets'[who'[d]]
        BY <3>1, <3>2, <3>3 DEF OneBucketEach, s0
      <4>4. QED
        BY <4>2, <4>3 DEF OneBucketEach
    <3>6. Accounts'
      <4>1. \A s \in Subject : Level(s)' = Level(s)
        <5> HIDE DEF b, s0
        <5>1. buckets[s0] = None => level[<<s0, c>>] = Capacity
          BY <3>1 DEF OneBucketEach
        <5>2. QED
          BY <3>1, <3>2, <3>3, <5>1 DEF Level
      <4>2. \A s \in Subject : \A t \in 0 .. now : Since(s, t)' = Since(s, t)
        BY <3>2 DEF Since
      <4>3. QED
        BY <3>2, <4>1, <4>2 DEF Accounts
    <3>7. QED
      BY <3>4, <3>5, <3>6
  <2>3. CASE \E c \in Caller : Grant(c)
    <3> PICK c \in Caller : Grant(c)
      BY <2>3
    <3> DEFINE s0 == who[c]
               b == held[c]
    <3>1. s0 \in Subject /\ b \in Bucket /\ b # None /\ b = buckets[s0]
      BY DEF Grant, OneBucketEach
    <3>2. /\ level[b] >= Cost
          /\ level' = [level EXCEPT ![b] = level[b] - Cost]
          /\ spent' = [spent EXCEPT ![s0] = spent[s0] + Cost]
          /\ callAt' = [callAt EXCEPT ![c] = "idle"]
          /\ held' = [held EXCEPT ![c] = None]
          /\ UNCHANGED <<buckets, who, now, mark>>
      BY DEF Grant, Return
    <3>3. \E d \in Caller : b = <<s0, d>>
      BY <3>1 DEF OneBucketEach
    <3> HIDE DEF s0, b
    <3>4. LimitTypeOK'
      <4>1. level[b] \in 0 .. Capacity
        BY <3>1
      <4>2. level[b] - Cost \in 0 .. Capacity
        BY <3>2, <4>1
      <4>3. level' \in [Bucket -> 0 .. Capacity]
        BY <3>1, <3>2, <4>2
      <4>4. spent' \in [Subject -> Nat]
        BY <3>1, <3>2
      <4>5. QED
        BY <3>2, <4>3, <4>4
    <3>5. \A s \in Subject : buckets[s] # None /\ s # s0 => buckets[s] # b
      BY <3>3 DEF OneBucketEach
    <3>6. OneBucketEach'
      <4>1. \A s \in Subject, d \in Caller :
              buckets[s] = None => level'[<<s, d>>] = level[<<s, d>>]
        <5> SUFFICES ASSUME NEW s \in Subject, NEW d \in Caller, buckets[s] = None
                     PROVE  level'[<<s, d>>] = level[<<s, d>>]
          OBVIOUS
        <5>1. s # s0
          BY <3>1
        <5>2. <<s, d>> # b /\ <<s, d>> \in Bucket
          BY <3>3, <5>1 DEF Bucket
        <5>3. QED
          BY <3>2, <5>2
      <4>2. \A s \in Subject :
              IF buckets[s] = None
              THEN \A d \in Caller : level'[<<s, d>>] = Capacity
              ELSE \E d \in Caller : buckets[s] = <<s, d>>
        BY <4>1 DEF OneBucketEach
      <4>3. \A d \in Caller :
              callAt'[d] = "take" => held'[d] # None /\ held'[d] = buckets[who[d]]
        BY <3>2 DEF OneBucketEach
      <4>4. QED
        BY <3>2, <4>2, <4>3 DEF OneBucketEach
    <3>7. Accounts'
      <4> SUFFICES ASSUME NEW s \in Subject, NEW t \in 0 .. now
                   PROVE  /\ mark[s][t] <= spent'[s]
                          /\ Since(s, t)' + Level(s)' = Since(s, t) + Level(s)
        BY <3>2 DEF Accounts
      <4>1. /\ mark[s][t] \in Nat /\ spent[s] \in Nat /\ level[b] \in Nat
            /\ mark[s][t] <= spent[s]
        <5>1. mark[s][t] \in Nat /\ spent[s] \in Nat
          OBVIOUS
        <5>2. level[b] \in Nat
          BY <3>1
        <5>3. mark[s][t] <= spent[s]
          BY DEF Accounts
        <5>4. QED
          BY <5>1, <5>2, <5>3
      <4>2. CASE s = s0
        <5>1. Level(s) = level[b] /\ Level(s)' = level[b] - Cost
          BY <3>1, <3>2, <4>2 DEF Level
        <5>2. spent'[s] = spent[s] + Cost /\ mark'[s][t] = mark[s][t]
          BY <3>1, <3>2, <4>2
        <5>3. /\ Since(s, t) = spent[s] - mark[s][t]
              /\ Since(s, t)' = (spent[s] + Cost) - mark[s][t]
          BY <5>2 DEF Since
        <5>4. Cost \in Nat
          BY RateLimitAssumption
        <5>5. /\ mark[s][t] <= spent[s] + Cost
              /\ ((spent[s] + Cost) - mark[s][t]) + (level[b] - Cost)
                   = (spent[s] - mark[s][t]) + level[b]
          <6> HIDE RateLimitAssumption, CapacityIsNat DEF RateLimitIInv, LimitTypeOK
          <6> QED
            BY <4>1, <5>4, MoveCost
        <5>6. QED
          BY <5>1, <5>2, <5>3, <5>5
      <4>3. CASE s # s0
        <5>1. Level(s)' = Level(s)
          BY <3>1, <3>2, <3>5, <4>3 DEF Level
        <5>2. QED
          BY <3>2, <4>1, <4>3, <5>1 DEF Since
      <4>4. QED
        BY <4>2, <4>3
    <3>8. QED
      BY <3>4, <3>6, <3>7
  <2>4. CASE \E c \in Caller : Drop(c)
    <3> PICK c \in Caller : Drop(c)
      BY <2>4
    <3>1. /\ callAt' = [callAt EXCEPT ![c] = "idle"]
          /\ held' = [held EXCEPT ![c] = None]
          /\ UNCHANGED <<buckets, level, who, now, spent, mark>>
      BY DEF Drop, Return
    <3>2. LimitTypeOK' /\ OneBucketEach'
      BY <3>1 DEF OneBucketEach
    <3>3. Accounts'
      BY <3>1 DEF Accounts, Since, Level
    <3>4. QED
      BY <3>2, <3>3
  <2>5. CASE Tick
    <3>1. /\ now < MaxTime
          /\ now' = now + 1
          /\ level' = [b \in Bucket |-> Refilled(level[b])]
          /\ mark' = [s \in Subject |-> [mark[s] EXCEPT ![now + 1] = spent[s]]]
          /\ UNCHANGED <<buckets, callAt, who, held, spent>>
      BY <2>5 DEF Tick
    <3>2. LimitTypeOK'
      BY <3>1 DEF Refilled
    <3>3. OneBucketEach'
      BY <3>1 DEF OneBucketEach, Refilled, Bucket
    <3>4. Accounts'
      <4> SUFFICES ASSUME NEW s \in Subject, NEW t \in 0 .. now + 1
                   PROVE  /\ mark'[s][t] <= spent[s]
                          /\ Since(s, t)' + Level(s)' <= Capacity + (now + 1 - t)
                          /\ Since(s, t)' + Level(s)'
                               >= IF now + 1 - t < Capacity THEN now + 1 - t ELSE Capacity
        BY <3>1 DEF Accounts
      <4>1. /\ Level(s) \in 0 .. Capacity
            /\ Level(s)' = Refilled(Level(s))
        BY <3>1 DEF Level, Refilled
      <4>2. CASE t = now + 1
        <5>1. Since(s, t)' = 0 /\ mark'[s][t] = spent[s]
          BY <3>1, <4>2 DEF Since
        <5>2. spent[s] <= spent[s] /\ now + 1 - t = 0
          BY <4>2
        <5> HIDE DEF Since, Level
        <5>3. Refilled(Level(s)) \in 0 .. Capacity
          BY <4>1 DEF Refilled
        <5>4. QED
          BY <4>1, <5>1, <5>2, <5>3, SMTT(30)
      <4>3. CASE t \in 0 .. now
        <5>1. mark'[s][t] = mark[s][t] /\ Since(s, t)' = Since(s, t)
          <6>1. mark'[s] = [mark[s] EXCEPT ![now + 1] = spent[s]]
            BY <3>1
          <6>2. t # now + 1 /\ t \in 0 .. MaxTime
            BY <4>3
          <6>3. mark'[s][t] = mark[s][t]
            BY <6>1, <6>2
          <6>4. QED
            BY <3>1, <6>3 DEF Since
        <5>2. /\ mark[s][t] <= spent[s]
              /\ Since(s, t) \in Nat
              /\ Since(s, t) + Level(s) <= Capacity + (now - t)
              /\ Since(s, t) + Level(s)
                   >= IF now - t < Capacity THEN now - t ELSE Capacity
          BY <4>3 DEF Accounts, Since
        <5> HIDE DEF Since, Level
        <5>3. Refilled(Level(s)) \in {Level(s), Level(s) + 1}
          BY DEF Refilled
        <5>4. Level(s) < Capacity => Refilled(Level(s)) = Level(s) + 1
          BY DEF Refilled
        <5>5. Level(s) >= Capacity => Level(s) = Capacity
          BY <4>1
        <5>6. Since(s, t) + Refilled(Level(s)) <= Capacity + (now + 1 - t)
          BY <4>1, <4>3, <5>2, <5>3, SMTT(30)
        <5>7. Since(s, t) + Refilled(Level(s))
                >= IF now + 1 - t < Capacity THEN now + 1 - t ELSE Capacity
          BY <4>1, <4>3, <5>2, <5>3, <5>4, <5>5, SMTT(30)
        <5>8. QED
          BY <4>1, <5>1, <5>2, <5>6, <5>7
      <4>4. QED
        BY <4>2, <4>3
    <3>5. QED
      BY <3>2, <3>3, <3>4
  <2>6. CASE UNCHANGED limitVars
    BY <2>6 DEF limitVars, OneBucketEach, Accounts, Since, Level
  <2>7. QED
    BY <2>1, <2>2, <2>3, <2>4, <2>5, <2>6 DEF RateLimitNext
<1>3. QED
  BY <1>1, <1>2, PTL DEF RateLimitSpec

(* At any burst, refill and number of concurrent callers, a subject is      *)
(* never granted more than a burst and the refill of the time that passed   *)
(* (PerUserLimiter.Allow).                                                  *)
THEOREM CallsAreBounded == RateLimitSpec => []BurstAndRefill
<1>1. RateLimitIInv => BurstAndRefill
  <2> SUFFICES ASSUME RateLimitIInv, NEW s \in Subject, NEW t \in 0 .. now
               PROVE  Since(s, t) <= Capacity + (now - t)
    BY DEF BurstAndRefill
  <2>1. Level(s) \in Nat
    BY CapacityIsNat DEF RateLimitIInv, LimitTypeOK, Level
  <2>2. mark[s][t] \in Nat /\ spent[s] \in Nat
    BY RateLimitAssumption DEF RateLimitIInv, LimitTypeOK
  <2>3. Since(s, t) + Level(s) <= Capacity + (now - t)
    BY DEF RateLimitIInv, Accounts
  <2>4. QED
    BY <2>1, <2>2, <2>3, CapacityIsNat DEF RateLimitIInv, LimitTypeOK, Since
<1>2. QED
  BY <1>1, AccountsAgree, PTL

(* No subject is dropped for what others did: it is short of a call's units *)
(* only when it was granted what its own bucket regained.                   *)
THEOREM DropsAreOwed == RateLimitSpec => []DroppedOnlyWhenSpent
<1>1. RateLimitIInv => DroppedOnlyWhenSpent
  <2> SUFFICES ASSUME RateLimitIInv, NEW c \in Caller, NEW t \in 0 .. now,
                      callAt[c] = "take", level[held[c]] < Cost
               PROVE  Since(who[c], t) + Cost
                        > IF now - t < Capacity THEN now - t ELSE Capacity
    BY DEF DroppedOnlyWhenSpent
  <2>1. who[c] \in Subject /\ Level(who[c]) = level[held[c]]
    BY DEF RateLimitIInv, LimitTypeOK, OneBucketEach, Level
  <2>2. Level(who[c]) \in Nat
    BY <2>1, CapacityIsNat DEF RateLimitIInv, LimitTypeOK, Level
  <2>3. mark[who[c]][t] \in Nat /\ spent[who[c]] \in Nat
    BY <2>1, RateLimitAssumption DEF RateLimitIInv, LimitTypeOK
  <2>4. Since(who[c], t) + Level(who[c])
          >= IF now - t < Capacity THEN now - t ELSE Capacity
    BY <2>1 DEF RateLimitIInv, Accounts
  <2>5. QED
    BY <2>1, <2>2, <2>3, <2>4, CapacityIsNat, RateLimitAssumption
       DEF RateLimitIInv, LimitTypeOK, Since
<1>2. QED
  BY <1>1, AccountsAgree, PTL

(* Every subject gets its allowance: neither do concurrent calls exceed it, *)
(* nor does anybody else use it up (PerUserLimiter.Allow).                  *)
THEOREM AllowancesAreExact == RateLimitSpec => []RateLimitInv
<1>1. RateLimitIInv /\ BurstAndRefill /\ DroppedOnlyWhenSpent => RateLimitInv
  BY DEF AllowanceIsExact, RateLimitInv
<1>2. QED
  BY <1>1, AccountsAgree, CallsAreBounded, DropsAreOwed, PTL

----------------------------------------------------------------------------
(* Metrics and Main. *)

(* The counters, the increments and the flushes agree in every state.       *)
LEMMA MetricsInductive == MetricsSpec => []MetricsIInv
<1> USE MetricsAssumption
<1>1. MetricsInit => MetricsIInv
  <2> SUFFICES ASSUME MetricsInit
               PROVE  MetricsIInv
    OBVIOUS
  <2>1. /\ counters = [n \in Name |-> None]
        /\ value = [x \in Counter |-> 0]
        /\ incAt = [c \in Caller |-> "no"]
        /\ incName = [c \in Caller |-> None]
        /\ found = [c \in Caller |-> None]
    BY DEF MetricsInit, Fresh
  <2>2. /\ flusher = "wait" /\ last = FALSE /\ left = {}
        /\ out = [n \in Name |-> 0]
        /\ logged = [n \in Name |-> 0]
        /\ counted = [n \in Name |-> 0]
    BY DEF MetricsInit, Zero
  <2>3. MetricsTypeOK
    BY <2>1, <2>2 DEF MetricsTypeOK
  <2>4. CountersAgree
    BY <2>1, <2>2 DEF CountersAgree
  <2>5. EveryIncrementAccounted
    BY <2>1, <2>2 DEF EveryIncrementAccounted, Pending
  <2>6. QED
    BY <2>3, <2>4, <2>5 DEF MetricsIInv
<1>2. MetricsIInv /\ [MetricsNext]_metricsVars => MetricsIInv'
  <2> SUFFICES ASSUME MetricsIInv, [MetricsNext]_metricsVars
               PROVE  MetricsIInv'
    OBVIOUS
  <2> USE DEF MetricsIInv, MetricsTypeOK
  <2>1. ASSUME NEW c \in Caller, NEW n \in Name, Find(c, n)
        PROVE  MetricsIInv'
    <3>1. MetricsTypeOK'
      BY <2>1 DEF Find
    <3>2. CountersAgree'
      BY <2>1 DEF Find, CountersAgree
    <3>3. EveryIncrementAccounted'
      BY <2>1 DEF Find, EveryIncrementAccounted, Pending
    <3>4. QED
      BY <3>1, <3>2, <3>3
  <2>2. ASSUME NEW c \in Caller, Add(c)
        PROVE  MetricsIInv'
    <3> DEFINE n == incName[c]
               x == found[c]
    <3>1. n \in Name /\ x \in Counter /\ x # None /\ x = counters[n]
      BY <2>2 DEF Add, CountersAgree
    <3>2. /\ value' = [value EXCEPT ![x] = value[x] + 1]
          /\ counted' = [counted EXCEPT ![n] = counted[n] + 1]
          /\ UNCHANGED <<counters, flusher, last, left, out, logged>>
      BY <2>2 DEF Add, Counted
    <3>3. /\ incAt' = [incAt EXCEPT ![c] = "no"]
          /\ incName' = [incName EXCEPT ![c] = None]
          /\ found' = [found EXCEPT ![c] = None]
      BY <2>2 DEF Add, Counted
    <3> HIDE DEF n, x
    <3>4. MetricsTypeOK'
      BY <3>1, <3>2, <3>3
    <3>5. CountersAgree'
      BY <3>2, <3>3 DEF CountersAgree
    <3>6. \A m \in Name : m # n => counters[m] # x
      BY <3>1 DEF CountersAgree
    <3>7. EveryIncrementAccounted'
      <4> SUFFICES ASSUME NEW m \in Name
                   PROVE  counted'[m] = logged[m] + out[m] + Pending(m)'
        BY <3>2 DEF EveryIncrementAccounted
      <4>1. counted[m] = logged[m] + out[m] + Pending(m)
        BY DEF EveryIncrementAccounted
      <4>2. CASE m = n
        <5>1. Pending(m) = value[x] /\ Pending(m)' = value[x] + 1
          BY <3>1, <3>2, <4>2 DEF Pending
        <5>2. counted'[m] = counted[m] + 1
          BY <3>1, <3>2, <4>2
        <5>3. value[x] \in Nat
          BY <3>1
        <5>4. QED
          BY <4>1, <5>1, <5>2, <5>3
      <4>3. CASE m # n
        BY <3>1, <3>2, <3>6, <4>1, <4>3 DEF Pending
      <4>4. QED
        BY <4>2, <4>3
    <3>8. QED
      BY <3>4, <3>5, <3>7
  <2>3. ASSUME NEW c \in Caller, Create(c)
        PROVE  MetricsIInv'
    <3> DEFINE n == incName[c]
               x == IF counters[n] = None THEN <<n, c>> ELSE counters[n]
    <3>1. n \in Name /\ x \in Counter /\ x # None
      BY <2>3 DEF Create, CountersAgree, Counter
    <3>2. \E d \in Caller : x = <<n, d>>
      BY <3>1 DEF CountersAgree
    <3>3. /\ counters' = [counters EXCEPT ![n] = x]
          /\ value' = [value EXCEPT ![x] = Pending(n) + 1]
          /\ counted' = [counted EXCEPT ![n] = counted[n] + 1]
          /\ UNCHANGED <<flusher, last, left, out, logged>>
      BY <2>3, <3>1 DEF Create, Counted, SecondLook, FoundOnSecondLook, Pending
    <3>4. /\ incAt' = [incAt EXCEPT ![c] = "no"]
          /\ incName' = [incName EXCEPT ![c] = None]
          /\ found' = [found EXCEPT ![c] = None]
          /\ flusher # "drain"
      BY <2>3 DEF Create, Counted, Locked
    <3>5. counters[n] # None => x = counters[n]
      OBVIOUS
    <3>6. Pending(n) \in Nat
      BY <3>1 DEF Pending
    <3> HIDE DEF n, x
    <3>7. MetricsTypeOK'
      BY <3>1, <3>3, <3>4, <3>6
    <3>8. CountersAgree'
      <4>1. \A m \in Name :
              counters'[m] # None => \E d \in Caller : counters'[m] = <<m, d>>
        BY <3>1, <3>2, <3>3 DEF CountersAgree
      <4>2. \A d \in Caller : incAt'[d] # "no" => incName'[d] \in Name
        BY <3>4 DEF CountersAgree
      <4>3. \A d \in Caller : incAt'[d] = "add" =>
              found'[d] # None /\ found'[d] = counters'[incName'[d]]
        BY <3>1, <3>3, <3>4, <3>5 DEF CountersAgree
      <4>4. left' = {}
        BY <3>3, <3>4 DEF CountersAgree
      <4>5. QED
        BY <3>3, <4>1, <4>2, <4>3, <4>4 DEF CountersAgree
    <3>9. \A m \in Name : m # n => counters[m] # x
      BY <3>1, <3>2 DEF CountersAgree
    <3>10. EveryIncrementAccounted'
      <4> SUFFICES ASSUME NEW m \in Name
                   PROVE  counted'[m] = logged[m] + out[m] + Pending(m)'
        BY <3>3 DEF EveryIncrementAccounted
      <4>1. counted[m] = logged[m] + out[m] + Pending(m)
        BY DEF EveryIncrementAccounted
      <4>2. CASE m = n
        <5>1. Pending(m)' = Pending(m) + 1
          BY <3>1, <3>3, <4>2 DEF Pending
        <5>2. counted'[m] = counted[m] + 1
          BY <3>1, <3>3, <4>2
        <5>3. QED
          BY <3>6, <4>1, <4>2, <5>1, <5>2
      <4>3. CASE m # n
        <5>1. Pending(m)' = Pending(m)
          BY <3>1, <3>3, <3>9, <4>3 DEF Pending
        <5>2. QED
          BY <3>1, <3>3, <4>1, <4>3, <5>1
      <4>4. QED
        BY <4>2, <4>3
    <3>11. QED
      BY <3>7, <3>8, <3>10
  <2>4. ASSUME NEW done \in BOOLEAN, StartFlush(done)
        PROVE  MetricsIInv'
    <3>1. MetricsTypeOK'
      BY <2>4 DEF StartFlush
    <3>2. CountersAgree'
      BY <2>4 DEF StartFlush, CountersAgree
    <3>3. EveryIncrementAccounted'
      BY <2>4 DEF StartFlush, EveryIncrementAccounted, Pending
    <3>4. QED
      BY <3>1, <3>2, <3>3
  <2>5. ASSUME NEW n \in Name, Drain(n)
        PROVE  MetricsIInv'
    <3> DEFINE x == counters[n]
    <3>1. x \in Counter /\ x # None /\ n \in left /\ flusher = "drain" /\ out[n] = 0
      BY <2>5 DEF Drain, CountersAgree
    <3>2. /\ out' = [out EXCEPT ![n] = value[x]]
          /\ value' = [value EXCEPT ![x] = 0]
          /\ left' = left \ {n}
          /\ UNCHANGED <<counters, incAt, incName, found, flusher, last, logged,
                         counted>>
      BY <2>5 DEF Drain, AfterDrain, KeptEntry
    <3>3. \A m \in Name : m # n => counters[m] # x
      BY <3>1 DEF CountersAgree
    <3> HIDE DEF x
    <3>4. MetricsTypeOK'
      BY <3>1, <3>2
    <3>5. CountersAgree'
      BY <3>1, <3>2 DEF CountersAgree
    <3>6. EveryIncrementAccounted'
      <4> SUFFICES ASSUME NEW m \in Name
                   PROVE  counted[m] = logged[m] + out'[m] + Pending(m)'
        BY <3>2 DEF EveryIncrementAccounted
      <4>1. counted[m] = logged[m] + out[m] + Pending(m)
        BY DEF EveryIncrementAccounted
      <4>2. CASE m = n
        <5>1. Pending(m) = value[x] /\ Pending(m)' = 0 /\ out'[m] = value[x]
          BY <3>1, <3>2, <4>2 DEF Pending, x
        <5>2. value[x] \in Nat /\ logged[m] \in Nat
          BY <3>1
        <5>3. QED
          BY <3>1, <4>1, <4>2, <5>1, <5>2
      <4>3. CASE m # n
        BY <3>1, <3>2, <3>3, <4>1, <4>3 DEF Pending
      <4>4. QED
        BY <4>2, <4>3
    <3>7. QED
      BY <3>4, <3>5, <3>6
  <2>6. CASE Drained
    <3>1. MetricsTypeOK' /\ CountersAgree'
      BY <2>6 DEF Drained, CountersAgree
    <3>2. EveryIncrementAccounted'
      BY <2>6 DEF Drained, EveryIncrementAccounted, Pending
    <3>3. QED
      BY <3>1, <3>2
  <2>7. CASE WriteLine
    <3>1. MetricsTypeOK'
      BY <2>7 DEF WriteLine, NextAfterLine, AfterLine, Zero
    <3>2. CountersAgree'
      BY <2>7 DEF WriteLine, CountersAgree, Zero
    <3>3. EveryIncrementAccounted'
      BY <2>7 DEF WriteLine, EveryIncrementAccounted, Pending, Zero
    <3>4. QED
      BY <3>1, <3>2, <3>3
  <2>8. CASE Reset
    <3>1. /\ counters' = [n \in Name |-> None]
          /\ value' = [x \in Counter |-> 0]
          /\ incAt' = [c \in Caller |-> "no"]
          /\ incName' = [c \in Caller |-> None]
          /\ found' = [c \in Caller |-> None]
      BY <2>8 DEF Reset, Fresh
    <3>2. /\ flusher' = "wait" /\ last' = FALSE /\ left' = {}
          /\ out' = [n \in Name |-> 0]
          /\ logged' = [n \in Name |-> 0]
          /\ counted' = [n \in Name |-> 0]
      BY <2>8 DEF Reset, Zero
    <3>3. MetricsTypeOK'
      BY <3>1, <3>2
    <3>4. CountersAgree'
      BY <3>1, <3>2 DEF CountersAgree
    <3>5. EveryIncrementAccounted'
      BY <3>1, <3>2 DEF EveryIncrementAccounted, Pending
    <3>6. QED
      BY <3>3, <3>4, <3>5
  <2>9. CASE UNCHANGED metricsVars
    BY <2>9 DEF metricsVars, CountersAgree, EveryIncrementAccounted, Pending
  <2>10. QED
    BY <2>1, <2>2, <2>3, <2>4, <2>5, <2>6, <2>7, <2>8, <2>9 DEF MetricsNext
<1>3. QED
  BY <1>1, <1>2, PTL DEF MetricsSpec

(* A process uses its counters as internal/metrics allows and no other way. *)
THEOREM MainImplementsMetrics == Spec => MetricsSpec
<1>1. Init => MetricsInit
  BY DEF Init
<1>2. ASSUME [Next]_vars
      PROVE  [MetricsNext]_metricsVars
  <2>1. ASSUME NEW w \in Worker, NEW c \in Command, Receive(w, c)
        PROVE  MetricsNext
    BY <2>1, MainAssumption DEF Receive, MetricsNext, Worker
  <2>2. ASSUME NEW w \in Worker, Handle(w)
        PROVE  [MetricsNext]_metricsVars
    BY <2>2, MainAssumption
       DEF Handle, Increment, HandlerReturns, HandlerFails, MetricsNext, Worker
  <2>3. CASE Flush
    BY <2>3 DEF Flush, MetricsNext
  <2>4. CASE Boot
    BY <2>4 DEF Boot, ReadRecord, SendMessage, MarkNotified
  <2>5. CASE Exit \/ Crash
    BY <2>5 DEF Exit, Crash, Ends, MetricsNext
  <2>6. CASE Signal \/ StopListening \/ Start \/ UNCHANGED vars
    BY <2>6 DEF Signal, StopListening, Start, vars
  <2>7. QED
    BY <1>2, <2>1, <2>2, <2>3, <2>4, <2>5, <2>6 DEF Next
<1>3. QED
  BY <1>1, <1>2, PTL DEF Spec, MetricsSpec

(* No increment is lost or logged twice while a process lives, at any       *)
(* number of concurrent requests, names and flushes (counters.go:12).       *)
THEOREM IncrementsAreAccounted == Spec => []EveryIncrementAccounted
<1>1. MetricsIInv => EveryIncrementAccounted
  BY DEF MetricsIInv
<1>2. QED
  BY <1>1, MainImplementsMetrics, MetricsInductive, PTL

----------------------------------------------------------------------------

(* The owner has been told of what is on record or about to be.             *)
NoticeInv ==
  /\ RecordedMeansTold
  /\ phase = "mark" => sha \in told

(* A version that could not be announced is never recorded as announced, at *)
(* any number of versions, failures and restarts (deploy_notify.go:12).     *)
THEOREM NoticesAreNotSilenced == Spec => []RecordedMeansTold
<1>1. Init => NoticeInv
  BY DEF Init, NoticeInv, RecordedMeansTold
<1>2. NoticeInv /\ [Next]_vars => NoticeInv'
  <2> SUFFICES ASSUME NoticeInv, [Next]_vars
               PROVE  NoticeInv'
    OBVIOUS
  <2> USE DEF NoticeInv, RecordedMeansTold
  <2>1. CASE ReadRecord
    BY <2>1 DEF ReadRecord
  <2>2. CASE SendMessage
    BY <2>2 DEF SendMessage, Send, SendThenMark
  <2>3. CASE MarkNotified
    BY <2>3 DEF MarkNotified
  <2>4. ASSUME NEW w \in Worker, NEW c \in Command, Receive(w, c)
        PROVE  NoticeInv'
    BY <2>4 DEF Receive
  <2>5. ASSUME NEW w \in Worker, Handle(w)
        PROVE  NoticeInv'
    BY <2>5 DEF Handle, Increment, HandlerReturns, HandlerFails
  <2>6. CASE Flush
    BY <2>6 DEF Flush
  <2>7. CASE Signal \/ StopListening \/ Start
    BY <2>7 DEF Signal, StopListening, Start
  <2>8. CASE Exit \/ Crash
    BY <2>8 DEF Exit, Crash, Ends
  <2>9. CASE UNCHANGED vars
    BY <2>9 DEF vars
  <2>10. QED
    BY <2>1, <2>2, <2>3, <2>4, <2>5, <2>6, <2>7, <2>8, <2>9 DEF Next, Boot
<1>3. NoticeInv => RecordedMeansTold
  BY DEF NoticeInv
<1>4. QED
  BY <1>1, <1>2, <1>3, PTL DEF Spec

----------------------------------------------------------------------------

(* The types of main's own variables, and where a request is while it       *)
(* increments.                                                              *)
MainIInv ==
  /\ phase \in {"read", "send", "mark", "serving", "draining", "down"}
  /\ stopping \in BOOLEAN
  /\ sha \in Sha /\ record \in Sha \cup {None} /\ told \subseteq Sha
  /\ starts \in 1 .. MaxStarts
  /\ pc \in [Worker -> {"idle", "command", "handler", "error"}]
  /\ \A w \in Worker : incAt[w] # "no" <=> pc[w] \in {"command", "error"}
  /\ phase \notin {"serving", "draining"} => \A w \in Worker : pc[w] = "idle"

(* A request's handler moves on by one step, and only while there is a      *)
(* server: the others stay where they are, and so does main.                *)
LEMMA RequestStep ==
  ASSUME MetricsTypeOK, MainIInv, NEW w \in Worker,
         NEW at \in {"no", "add", "create"},
         NEW label \in {"idle", "command", "handler", "error"},
         phase = "serving" \/ pc[w] # "idle",
         incAt' = [incAt EXCEPT ![w] = at], Goto(w, label),
         at # "no" <=> label \in {"command", "error"},
         UNCHANGED <<phase, stopping, sha, starts, record, told>>
  PROVE  MainIInv'
<1>1. pc' \in [Worker -> {"idle", "command", "handler", "error"}]
  BY DEF MainIInv, Goto
<1>2. \A v \in Worker : incAt'[v] # "no" <=> pc'[v] \in {"command", "error"}
  BY DEF MainIInv, MetricsTypeOK, Goto, Worker
<1>3. phase \in {"serving", "draining"}
  BY DEF MainIInv
<1>4. QED
  BY <1>1, <1>2, <1>3 DEF MainIInv

(* The types, at every number of requests, versions and processes; and a    *)
(* request is inside inc exactly when its handler called it                 *)
(* (dispatcher.go, metrics.IncCommand), in a process that listens.          *)
LEMMA MainTypes == Spec => []MainIInv
<1> USE MainAssumption
<1>1. Init => MainIInv
  <2> SUFFICES ASSUME Init
               PROVE  MainIInv
    OBVIOUS
  <2>1. /\ incAt = [w \in Worker |-> "no"]
        /\ pc = [w \in Worker |-> "idle"]
    BY DEF Init, MetricsInit, Fresh, Worker
  <2>2. /\ pc \in [Worker -> {"idle", "command", "handler", "error"}]
        /\ \A w \in Worker : incAt[w] = "no" /\ pc[w] = "idle"
    BY <2>1
  <2>3. starts \in 1 .. MaxStarts
    BY DEF Init
  <2>4. QED
    BY <2>2, <2>3 DEF Init, MainIInv
<1>2. MetricsIInv /\ MainIInv /\ [Next]_vars => MainIInv'
  <2> SUFFICES ASSUME MetricsIInv, MainIInv, [Next]_vars
               PROVE  MainIInv'
    OBVIOUS
  <2>0. MetricsTypeOK
    BY DEF MetricsIInv
  <2>1. CASE Boot
    BY <2>1 DEF Boot, ReadRecord, SendMessage, Send, SendThenMark, MarkNotified,
                MainIInv, metricsVars
  <2>2. ASSUME NEW w \in Worker, NEW c \in Command, Receive(w, c)
        PROVE  MainIInv'
    <3>1. PICK at \in {"add", "create"} : incAt' = [incAt EXCEPT ![w] = at]
      BY <2>2 DEF Receive, Find
    <3>2. QED
      BY <2>0, <2>2, <3>1, RequestStep DEF Receive
  <2>3. ASSUME NEW w \in Worker, Increment(w)
        PROVE  MainIInv'
    <3>1. incAt' = [incAt EXCEPT ![w] = "no"] /\ incAt[w] # "no"
      BY <2>3 DEF Increment, Add, Create, Counted
    <3>2. pc[w] # "idle"
      BY <3>1 DEF MainIInv
    <3>3. PICK label \in {"handler", "idle"} : Goto(w, label)
      BY <2>3 DEF Increment
    <3>4. QED
      BY <2>0, <2>3, <3>1, <3>2, <3>3, RequestStep DEF Increment
  <2>4. ASSUME NEW w \in Worker, HandlerReturns(w)
        PROVE  MainIInv'
    <3>1. incAt[w] = "no" /\ pc[w] = "handler"
      BY <2>0, <2>4 DEF HandlerReturns, MainIInv, MetricsTypeOK, Worker
    <3>2. incAt' = [incAt EXCEPT ![w] = "no"]
      BY <2>0, <2>4, <3>1 DEF HandlerReturns, metricsVars, MetricsTypeOK, Worker
    <3>3. QED
      BY <2>0, <2>4, <3>1, <3>2, RequestStep DEF HandlerReturns
  <2>5. ASSUME NEW w \in Worker, HandlerFails(w)
        PROVE  MainIInv'
    <3>1. PICK at \in {"add", "create"} : incAt' = [incAt EXCEPT ![w] = at]
      BY <2>5 DEF HandlerFails, Find
    <3>2. QED
      BY <2>0, <2>5, <3>1, RequestStep DEF HandlerFails
  <2>6. CASE Flush
    <3>1. UNCHANGED incAt
      BY <2>6 DEF Flush, StartFlush, Drain, Drained, WriteLine
    <3>2. QED
      BY <2>6, <3>1 DEF Flush, MainIInv
  <2>7. CASE Signal \/ StopListening \/ Start
    <3>1. /\ UNCHANGED <<incAt, record, told, pc>>
          /\ stopping' \in BOOLEAN /\ sha' \in Sha
      BY <2>7 DEF Signal, StopListening, Start, MainIInv, metricsVars
    <3>2. starts' \in 1 .. MaxStarts
      <4>1. starts' = starts \/ (starts < MaxStarts /\ starts' = starts + 1)
        BY <2>7 DEF Signal, StopListening, Start
      <4>2. starts \in 1 .. MaxStarts
        BY DEF MainIInv
      <4>3. QED
        BY <4>1, <4>2
    <3>3. /\ phase' \in {"read", "send", "mark", "serving", "draining", "down"}
          /\ phase' \notin {"serving", "draining"} => phase \notin {"serving", "draining"}
      BY <2>7 DEF Signal, StopListening, Start, MainIInv
    <3>4. QED
      BY <3>1, <3>2, <3>3 DEF MainIInv
  <2>8. CASE Exit \/ Crash
    <3>1. /\ phase' = "down" /\ stopping' = FALSE
          /\ pc' = [w \in Worker |-> "idle"]
          /\ incAt' = [w \in Worker |-> "no"]
          /\ UNCHANGED <<sha, starts, record, told>>
      BY <2>8 DEF Exit, Crash, Ends, Reset, Fresh, Worker
    <3>2. QED
      BY <3>1 DEF MainIInv
  <2>9. CASE UNCHANGED vars
    BY <2>9 DEF vars, metricsVars, MainIInv
  <2>10. QED
    BY <2>1, <2>2, <2>3, <2>4, <2>5, <2>6, <2>7, <2>8, <2>9 DEF Next, Handle
<1>3. QED
  BY <1>1, <1>2, MainImplementsMetrics, MetricsInductive, PTL DEF Spec

(* At any number of requests, flushes, versions, failures, signals and      *)
(* restarts the types are right, a version on record is one the owner was   *)
(* told of (deploy_notify.go:12), and each increment is in one log line or  *)
(* about to be (counters.go:12).                                            *)
THEOREM ProcessesAreSound == Spec => [](MainInv /\ EveryIncrementAccounted)
<1>1. MetricsIInv /\ MainIInv /\ RecordedMeansTold => MainInv
  BY DEF MetricsIInv, MainIInv, TypeOK, MainInv
<1>2. QED
  BY <1>1, MainTypes, MainImplementsMetrics, MetricsInductive,
     NoticesAreNotSilenced, IncrementsAreAccounted, PTL

=============================================================================
