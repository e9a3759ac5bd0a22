------------------------------ MODULE KeyLock ------------------------------
(***************************************************************************)
(* The per-key mutexes of internal/keylock: a sync.Map from a key to a     *)
(* lazily created *sync.Mutex.  Acquire is two steps that other goroutines *)
(* can fall between: LoadOrStore, which every caller enters with a mutex   *)
(* it has just allocated, and Lock on whichever mutex the map kept.        *)
(*                                                                         *)
(* A mutex is identified by the call that allocated it, so two callers of  *)
(* one key exclude each other only if LoadOrStore gave them the same one.  *)
(***************************************************************************)
EXTENDS Goroutines

CONSTANT Key  \* chat, user or subject identifiers

ASSUME KeyLockAssumption == None \notin Caller \cup Key \cup Caller \X Key

Mutex == Caller \X Key

VARIABLES
  table,   \* sync.Map: the mutex stored under each key
  holder,  \* the goroutine that holds each mutex
  lockAt,  \* where each goroutine is
  key,     \* the key each goroutine works on
  mu       \* v.(*sync.Mutex): the mutex Acquire got from the map

lockVars == <<table, holder, lockAt, key, mu>>

KeyLockInit ==
  /\ table = [k \in Key |-> None]
  /\ holder = [m \in Mutex |-> None]
  /\ lockAt = [w \in Caller |-> "idle"]
  /\ key = [w \in Caller |-> None]
  /\ mu = [w \in Caller |-> None]

(* The mutex a caller leaves LoadOrStore with: the one stored under the    *)
(* key, or the caller's own if the key was absent.                         *)
StoredOrOwn(w, k) == IF table[k] = None THEN <<w, k>> ELSE table[k]

(* A bug LoadOrStore avoids: a Load, then a Store of one's own mutex, lets *)
(* a later caller replace the mutex an earlier one is using.               *)
OwnAlways(w, k) == <<w, k>>

(* A single mutex behind every key. *)
OneForAll(w, k) ==
  IF \E j \in Key : table[j] # None
  THEN table[CHOOSE j \in Key : table[j] # None] ELSE <<w, k>>

(* What the map holds after the call. *)
MutexFor(w, k) == StoredOrOwn(w, k)

LoadOrStore(w, k) ==
  /\ lockAt[w] = "idle"
  /\ lockAt' = [lockAt EXCEPT ![w] = "waiting"]
  /\ key' = [key EXCEPT ![w] = k]
  /\ mu' = [mu EXCEPT ![w] = MutexFor(w, k)]
  /\ table' = [table EXCEPT ![k] = MutexFor(w, k)]
  /\ UNCHANGED holder

(* sync.Mutex promises no order among those that wait: in its normal mode  *)
(* a newcomer may take the mutex ahead of a goroutine it has just woken,   *)
(* whatever the comment on Acquire says of the order of calls.             *)
Lock(w) ==
  /\ lockAt[w] = "waiting"
  /\ holder[mu[w]] = None
  /\ holder' = [holder EXCEPT ![mu[w]] = w]
  /\ lockAt' = [lockAt EXCEPT ![w] = "critical"]
  /\ UNCHANGED <<table, key, mu>>

UnlockHeld(w) == [holder EXCEPT ![mu[w]] = None]

(* A handler that leaves on some path without calling the returned func. *)
UnlockForgotten(w) == holder

(* `defer m.Acquire(key)()` gives one mutex: the one locked is unlocked.   *)
Released(w) == UnlockHeld(w)

Unlock(w) ==
  /\ lockAt[w] = "critical"
  /\ holder' = Released(w)
  /\ lockAt' = [lockAt EXCEPT ![w] = "idle"]
  /\ key' = [key EXCEPT ![w] = None]
  /\ mu' = [mu EXCEPT ![w] = None]
  /\ UNCHANGED table

KeyLockNext ==
  \/ \E w \in Caller, k \in Key : LoadOrStore(w, k)
  \/ \E w \in Caller : Lock(w)
  \/ \E w \in Caller : Unlock(w)

KeyLockSpec == KeyLockInit /\ [][KeyLockNext]_lockVars

(* A handler always returns, so it always unlocks (weak fairness).  A      *)
(* goroutine that has waited 1ms switches the mutex to starvation mode and *)
(* is handed it next, which is what strong fairness of Lock says.          *)
LockFairness == \A w \in Caller : WF_lockVars(Unlock(w)) /\ SF_lockVars(Lock(w))

FairKeyLockSpec == KeyLockSpec /\ LockFairness

----------------------------------------------------------------------------

(* The values the variables take.                                         *)
LockTypeOK ==
  /\ table \in [Key -> Mutex \cup {None}]
  /\ holder \in [Mutex -> Caller \cup {None}]
  /\ lockAt \in [Caller -> {"idle", "waiting", "critical"}]
  /\ key \in [Caller -> Key \cup {None}]
  /\ mu \in [Caller -> Mutex \cup {None}]

(* All callers of a key agree on its mutex: the one in the map, allocated  *)
(* for that key, which its holder alone holds, in its critical section.    *)
MutexAgreement ==
  /\ \A k \in Key : table[k] # None => table[k][2] = k
  /\ \A w \in Caller :
       lockAt[w] # "idle" =>
         key[w] \in Key /\ mu[w] \in Mutex /\ mu[w] = table[key[w]]
  /\ \A w \in Caller : lockAt[w] = "critical" => holder[mu[w]] = w
  /\ \A m \in Mutex :
       holder[m] # None => lockAt[holder[m]] = "critical" /\ mu[holder[m]] = m

(* What makes the properties below inductive. *)
LockIInv == LockTypeOK /\ MutexAgreement

(* Two goroutines that work on the same key are never in their critical    *)
(* sections together, however their LoadOrStore calls met on a new key:    *)
(* what every handler's Get, mutate, Put relies on.                        *)
MutualExclusion ==
  \A v, w \in Caller :
    /\ v # w
    /\ lockAt[v] = "critical"
    /\ lockAt[w] = "critical"
    => key[v] # key[w]

(* Distinct keys never block each other (keylock.go:27): a mutex that      *)
(* makes a goroutine wait is holder by one working on the same key.          *)
DistinctKeysNeverBlock ==
  \A w \in Caller :
    lockAt[w] = "waiting" /\ holder[mu[w]] # None => key[holder[mu[w]]] = key[w]

(* The lock a caller gets is the lock of its key, no less and no more:     *)
(* both of the above.                                                      *)
LocksArePerKey == MutualExclusion /\ DistinctKeysNeverBlock

(* Every goroutine that calls Acquire gets the lock, whoever else keeps    *)
(* asking for the same key.                                                *)
AcquireReturns == \A w \in Caller : lockAt[w] = "waiting" ~> lockAt[w] = "critical"

(* Both, with the agreement that makes them hold.                          *)
KeyLockInv == LockIInv /\ LocksArePerKey

============================================================================
