------------------------------ MODULE Metrics ------------------------------
(***************************************************************************)
(* The in-process counters of internal/metrics: a map from names to atomic *)
(* counters guarded by an RWMutex, increments by any goroutine, and one    *)
(* goroutine that drains the counters into a log line every minute and     *)
(* once more when the process is told to stop.                             *)
(*                                                                         *)
(* An increment is two steps: it finds the counter under the read lock and *)
(* adds to it, or creates it, after the lock is released.  A flush can     *)
(* fall between them.  A counter is identified by its name and the caller  *)
(* that created it.  The three categories are one set of names: snapshot   *)
(* drains them under one lock.                                             *)
(***************************************************************************)
EXTENDS Naturals, Goroutines

CONSTANT Name  \* names of counters, of commands, errors and AI models

ASSUME MetricsAssumption == None \notin Name \cup (Name \X Caller)

VARIABLES
  counters, \* r.commands, r.errors, r.ai: the counter under each name
  value,    \* of each counter ever created
  incAt,    \* per caller: the step inc takes next
  incName,  \* per caller: the name it increments
  found,    \* per caller: c, the counter it found
  flusher,  \* where Run is
  last,     \* it has seen ctx.Done()
  left,     \* names drain has not come to
  out,      \* cmds, errs, ai: what it drained
  logged,   \* history: the sum of the log lines
  counted   \* history: increments that returned

metricsVars ==
  <<counters, value, incAt, incName, found, flusher, last, left, out, logged,
    counted>>

Counter == Name \X Caller

Zero == [n \in Name |-> 0]

Fresh == [counters |-> [n \in Name |-> None],
          value    |-> [x \in Counter |-> 0],
          incAt    |-> [c \in Caller |-> "no"],
          incName  |-> [c \in Caller |-> None],
          found    |-> [c \in Caller |-> None]]

MetricsInit ==
  /\ counters = Fresh.counters
  /\ value = Fresh.value
  /\ incAt = Fresh.incAt
  /\ incName = Fresh.incName
  /\ found = Fresh.found
  /\ flusher = "wait"
  /\ last = FALSE
  /\ left = {}
  /\ out = Zero
  /\ logged = Zero
  /\ counted = Zero

----------------------------------------------------------------------------

(* r.mu is held by a snapshot; the other critical sections are one step. *)
Locked == flusher = "drain"

(* The look under the read lock. *)
Find(c, n) ==
  /\ incAt[c] = "no"
  /\ ~Locked
  /\ incName' = [incName EXCEPT ![c] = n]
  /\ found' = [found EXCEPT ![c] = counters[n]]
  /\ incAt' = [incAt EXCEPT ![c] = IF counters[n] = None THEN "create" ELSE "add"]
  /\ UNCHANGED <<counters, value, flusher, last, left, out, logged, counted>>

Counted(c) ==
  /\ counted' = [counted EXCEPT ![incName[c]] = @ + 1]
  /\ incAt' = [incAt EXCEPT ![c] = "no"]
  /\ incName' = [incName EXCEPT ![c] = None]
  /\ found' = [found EXCEPT ![c] = None]
  /\ UNCHANGED <<flusher, last, left, out, logged>>

(* c.Add(1), without a lock. *)
Add(c) ==
  /\ incAt[c] = "add"
  /\ value' = [value EXCEPT ![found[c]] = @ + 1]
  /\ UNCHANGED counters
  /\ Counted(c)

(* A second caller that did not find the counter finds it now. *)
FoundOnSecondLook(n) == counters[n] # None

(* The second look forgotten. *)
NoSecondLook(n) == FALSE

SecondLook(n) == FoundOnSecondLook(n)

(* The write-locked part of inc. *)
Create(c) ==
  LET n == incName[c]
  IN  /\ incAt[c] = "create"
      /\ ~Locked
      /\ IF SecondLook(n)
         THEN /\ value' = [value EXCEPT ![counters[n]] = @ + 1]
              /\ UNCHANGED counters
         ELSE /\ value' = [value EXCEPT ![<<n, c>>] = 1]
              /\ counters' = [counters EXCEPT ![n] = <<n, c>>]
      /\ Counted(c)

----------------------------------------------------------------------------

(* snapshot takes the lock; `done` is whether ctx.Done() woke the loop. *)
StartFlush(done) ==
  /\ flusher = "wait"
  /\ flusher' = "drain"
  /\ last' = done
  /\ left' = {n \in Name : counters[n] # None}
  /\ UNCHANGED <<counters, value, incAt, incName, found, out, logged, counted>>

KeptEntry(n) == counters

(* Removed from the map as it is drained. *)
RemovedEntry(n) == [counters EXCEPT ![n] = None]

(* "The map keys are kept": a goroutine may still hold the counter. *)
AfterDrain(n) == KeptEntry(n)

(* v.Swap(0) on one counter after the other. *)
Drain(n) ==
  /\ flusher = "drain"
  /\ n \in left
  /\ left' = left \ {n}
  /\ out' = [out EXCEPT ![n] = value[counters[n]]]
  /\ value' = [value EXCEPT ![counters[n]] = 0]
  /\ counters' = AfterDrain(n)
  /\ UNCHANGED <<incAt, incName, found, flusher, last, logged, counted>>

Drained ==
  /\ flusher = "drain"
  /\ left = {}
  /\ flusher' = "log"
  /\ UNCHANGED <<counters, value, incAt, incName, found, last, left, out,
                 logged, counted>>

(* Run's loop goes on after a tick, for as long as the context lives. *)
AfterLine == IF last THEN "stopped" ELSE "wait"

(* A loop that ends with its first flush. *)
AfterLineStops == "stopped"

NextAfterLine == AfterLine

(* The log line; a line of nothing is left out, which changes nothing here. *)
WriteLine ==
  /\ flusher = "log"
  /\ logged' = [n \in Name |-> logged[n] + out[n]]
  /\ out' = Zero
  /\ flusher' = NextAfterLine
  /\ UNCHANGED <<counters, value, incAt, incName, found, last, left, counted>>

(* The process ends, and what it had not logged is lost; another begins    *)
(* with an empty registry.                                                 *)
Reset ==
  /\ counters' = Fresh.counters
  /\ value' = Fresh.value
  /\ incAt' = Fresh.incAt
  /\ incName' = Fresh.incName
  /\ found' = Fresh.found
  /\ flusher' = "wait"
  /\ last' = FALSE
  /\ left' = {}
  /\ out' = Zero
  /\ logged' = Zero
  /\ counted' = Zero

MetricsNext ==
  \/ \E c \in Caller : (\E n \in Name : Find(c, n)) \/ Add(c) \/ Create(c)
  \/ \E done \in BOOLEAN : StartFlush(done)
  \/ \E n \in Name : Drain(n)
  \/ Drained \/ WriteLine \/ Reset

MetricsSpec == MetricsInit /\ [][MetricsNext]_metricsVars

----------------------------------------------------------------------------

(* The values the variables take; the counter a caller is about to add to  *)
(* is the one in the map, and only a flush has drained anything.           *)
MetricsTypeOK ==
  /\ counters \in [Name -> Counter \cup {None}]
  /\ value \in [Counter -> Nat]
  /\ incAt \in [Caller -> {"no", "add", "create"}]
  /\ incName \in [Caller -> Name \cup {None}]
  /\ found \in [Caller -> Counter \cup {None}]
  /\ flusher \in {"wait", "drain", "log", "stopped"}
  /\ last \in BOOLEAN
  /\ left \in SUBSET Name
  /\ out \in [Name -> Nat]
  /\ logged \in [Name -> Nat]
  /\ counted \in [Name -> Nat]

CountersAgree ==
  /\ \A n \in Name : counters[n] # None => \E c \in Caller : counters[n] = <<n, c>>
  /\ \A c \in Caller : incAt[c] # "no" => incName[c] \in Name
  /\ \A c \in Caller :
       incAt[c] = "add" => found[c] # None /\ found[c] = counters[incName[c]]
  /\ \A n \in left : flusher = "drain" /\ counters[n] # None
  /\ \A n \in Name : n \in left \/ flusher \in {"wait", "stopped"} => out[n] = 0

(* What the map holds under a name. *)
Pending(n) == IF counters[n] = None THEN 0 ELSE value[counters[n]]

(* "Counters are reset on flush so the log line represents a delta"        *)
(* (counters.go:12): each increment is in exactly one log line, in what a  *)
(* flush has drained, or in the counter that the next flush will drain,    *)
(* wherever a flush falls between the steps of concurrent increments.      *)
EveryIncrementAccounted ==
  \A n \in Name : counted[n] = logged[n] + out[n] + Pending(n)

(* What makes it inductive. *)
MetricsIInv == MetricsTypeOK /\ CountersAgree /\ EveryIncrementAccounted

============================================================================
