----------------------------- MODULE RateLimit -----------------------------
(***************************************************************************)
(* ai.PerUserLimiter (internal/ai/ratelimit.go) in one process: a map from *)
(* subjects to token buckets, looked up or filled under the mutex, and the *)
(* bucket, a golang.org/x/time/rate Limiter, asked after it is released.   *)
(*                                                                         *)
(* Time is counted in ticks and levels in units, such that a bucket        *)
(* regains one unit a tick and a call takes Cost of them: with the bot's   *)
(* 5 calls and 5/60 per second a tick is 12/Cost seconds, and a bucket     *)
(* refills in Capacity ticks, a minute.                                    *)
(***************************************************************************)
EXTENDS Naturals, Goroutines

CONSTANTS Subject,
          Burst,    \* the `burst` given to NewPerUserLimiter
          Cost,     \* units a call takes
          MaxTime   \* bound on the ticks

ASSUME RateLimitAssumption ==
  /\ Burst \in Nat
  /\ Cost \in Nat \ {0}
  /\ MaxTime \in Nat
  /\ None \notin (Subject \X Caller)

VARIABLES
  buckets,  \* the map: the bucket of each subject
  level,    \* units left in each bucket ever made
  callAt,   \* per caller: the next call of Allow
  who,      \* per caller: the subject it asks for
  held,     \* per caller: b, the bucket it looked up
  now,      \* ticks since the process started
  spent,    \* history: units each subject was granted
  mark      \* history: what it had been granted when each tick began

limitVars == <<buckets, level, callAt, who, held, now, spent, mark>>

(* A bucket is named by the subject and the caller that made it. *)
Bucket == Subject \X Caller

(* burst < 1 is raised to 1. *)
Capacity == Cost * (IF Burst < 1 THEN 1 ELSE Burst)

RateLimitInit ==
  /\ buckets = [s \in Subject |-> None]
  /\ level = [b \in Bucket |-> Capacity]
  /\ callAt = [c \in Caller |-> "idle"]
  /\ who \in [Caller -> Subject]
  /\ held = [c \in Caller |-> None]
  /\ now = 0
  /\ spent = [s \in Subject |-> 0]
  /\ mark = [s \in Subject |-> [t \in 0 .. MaxTime |-> 0]]

----------------------------------------------------------------------------

Call(c, s) ==
  /\ callAt[c] = "idle"
  /\ callAt' = [callAt EXCEPT ![c] = "lookup"]
  /\ who' = [who EXCEPT ![c] = s]
  /\ UNCHANGED <<buckets, level, held, now, spent, mark>>

StoredOrNew(c, s) == IF buckets[s] = None THEN <<s, c>> ELSE buckets[s]

(* The check and the store in two critical sections: a late caller's bucket *)
(* replaces an earlier one's.                                               *)
AlwaysNew(c, s) == <<s, c>>

(* The first bucket made serves every subject. *)
OneBucketForAll(c, s) ==
  IF \E z \in Subject : buckets[z] # None
  THEN buckets[CHOOSE z \in Subject : buckets[z] # None]
  ELSE <<s, c>>

BucketFor(c, s) == StoredOrNew(c, s)

(* The critical section of p.mu. *)
Lookup(c) ==
  LET b == BucketFor(c, who[c])
  IN  /\ callAt[c] = "lookup"
      /\ buckets' = [buckets EXCEPT ![who[c]] = b]
      /\ held' = [held EXCEPT ![c] = b]
      /\ callAt' = [callAt EXCEPT ![c] = "take"]
      /\ UNCHANGED <<level, who, now, spent, mark>>

Return(c) ==
  /\ callAt' = [callAt EXCEPT ![c] = "idle"]
  /\ held' = [held EXCEPT ![c] = None]

(* b.Allow(): the bucket has a mutex of its own. *)
Grant(c) ==
  /\ callAt[c] = "take"
  /\ level[held[c]] >= Cost
  /\ level' = [level EXCEPT ![held[c]] = @ - Cost]
  /\ spent' = [spent EXCEPT ![who[c]] = @ + Cost]
  /\ Return(c)
  /\ UNCHANGED <<buckets, who, now, mark>>

Drop(c) ==
  /\ callAt[c] = "take"
  /\ level[held[c]] < Cost
  /\ Return(c)
  /\ UNCHANGED <<buckets, level, who, now, spent, mark>>

Refilled(l) == IF l < Capacity THEN l + 1 ELSE l

Tick ==
  /\ now < MaxTime
  /\ now' = now + 1
  /\ level' = [b \in Bucket |-> Refilled(level[b])]
  /\ mark' = [s \in Subject |-> [mark[s] EXCEPT ![now + 1] = spent[s]]]
  /\ UNCHANGED <<buckets, callAt, who, held, spent>>

RateLimitNext ==
  \/ \E c \in Caller : \E s \in Subject : Call(c, s)
  \/ \E c \in Caller : Lookup(c) \/ Grant(c) \/ Drop(c)
  \/ Tick

RateLimitSpec == RateLimitInit /\ [][RateLimitNext]_limitVars

----------------------------------------------------------------------------

(* The values the variables take; a caller past the map holds the bucket   *)
(* that is in it for its subject.                                          *)
LimitTypeOK ==
  /\ buckets \in [Subject -> Bucket \cup {None}]
  /\ level \in [Bucket -> 0 .. Capacity]
  /\ callAt \in [Caller -> {"idle", "lookup", "take"}]
  /\ who \in [Caller -> Subject]
  /\ held \in [Caller -> Bucket \cup {None}]
  /\ now \in 0 .. MaxTime
  /\ spent \in [Subject -> Nat]
  /\ mark \in [Subject -> [0 .. MaxTime -> Nat]]

OneBucketEach ==
  /\ \A s \in Subject :
       IF buckets[s] = None
       THEN \A c \in Caller : level[<<s, c>>] = Capacity
       ELSE \E c \in Caller : buckets[s] = <<s, c>>
  /\ \A c \in Caller :
       callAt[c] = "take" => held[c] # None /\ held[c] = buckets[who[c]]

(* Granted to s since the beginning of tick t. *)
Since(s, t) == spent[s] - mark[s][t]

Level(s) == IF buckets[s] = None THEN Capacity ELSE level[buckets[s]]

(* What was granted since any tick and what is left never exceed a full    *)
(* bucket and the refill since, nor fall short of the refill or of a full  *)
(* bucket.                                                                 *)
Accounts ==
  \A s \in Subject : \A t \in 0 .. now :
    /\ mark[s][t] <= spent[s]
    /\ Since(s, t) + Level(s) <= Capacity + (now - t)
    /\ Since(s, t) + Level(s) >= IF now - t < Capacity THEN now - t ELSE Capacity

RateLimitIInv == LimitTypeOK /\ OneBucketEach /\ Accounts

(* In no stretch of time, however many callers ask at once, is a subject   *)
(* granted more than a burst and what is refilled in that time.            *)
BurstAndRefill ==
  \A s \in Subject : \A t \in 0 .. now : Since(s, t) <= Capacity + (now - t)

(* A subject is only dropped over its own calls: over any stretch that     *)
(* ends with it short of a token it was granted all that its bucket        *)
(* regained, but for less than one call (ratelimit.go:9 "gives each        *)
(* subject [...] its own token bucket").                                   *)
DroppedOnlyWhenSpent ==
  \A c \in Caller :
    callAt[c] = "take" /\ level[held[c]] < Cost =>
      \A t \in 0 .. now :
        Since(who[c], t) + Cost > IF now - t < Capacity THEN now - t ELSE Capacity

(* A subject is granted its own allowance, no more and no less: both of    *)
(* the above.                                                              *)
AllowanceIsExact == BurstAndRefill /\ DroppedOnlyWhenSpent

(* The allowance, with the accounts that make it exact.                    *)
RateLimitInv == RateLimitIInv /\ AllowanceIsExact

============================================================================
