-------------------------------- MODULE Main --------------------------------
(***************************************************************************)
(* The life of a process (cmd/server/main.go): it starts the metrics loop, *)
(* tells the owner of a new version (internal/deploynotify), serves until  *)
(* a signal cancels its context, lets Shutdown drain the requests, and     *)
(* ends; or it dies at any point.  Another one, of this version or         *)
(* another, may follow.  The store's record of the notice survives it, the *)
(* counters of Metrics, which the requests increment, do not.              *)
(***************************************************************************)
EXTENDS Metrics

CONSTANTS Command,
          HandlerError,  \* "handler-error"
          Sha,           \* what gitSHA may be; None if the build set none
          Owner,         \* BOT_OWNER_ID, None if unset
          MaxCount,      \* bound: no request for a command counted so often
          MaxStarts      \* bound on the processes started

Worker == Caller

ASSUME MainAssumption ==
  /\ Command \cup {HandlerError} \subseteq Name /\ HandlerError \notin Command
  /\ MaxCount \in Nat /\ MaxStarts \in Nat \ {0}

VARIABLES
  phase,    \* where main is
  stopping, \* rootCtx is cancelled
  sha,      \* gitSHA of the running binary
  starts,   \* history: processes started
  record,   \* store, "last_notified_sha"
  told,     \* history: the versions the owner got a message about
  pc        \* per worker: the next call of the request it serves

vars == <<metricsVars, phase, stopping, sha, starts, record, told, pc>>

Init ==
  /\ MetricsInit
  /\ phase = "read"
  /\ stopping = FALSE
  /\ sha \in Sha
  /\ starts = 1
  /\ record = None
  /\ told = {}
  /\ pc = [w \in Worker |-> "idle"]

----------------------------------------------------------------------------
(* deploynotify.Run, before the server listens. *)

Skips == sha = None \/ Owner = None

(* skipReason and shouldNotify: a failed Get counts as no record. *)
ReadRecord ==
  /\ phase = "read"
  /\ phase' \in IF Skips THEN {"serving"}
                ELSE IF record = sha THEN {"serving", "send"} ELSE {"send"}
  /\ UNCHANGED <<metricsVars, stopping, sha, starts, record, told, pc>>

(* A message whose sending failed may have arrived. *)
SendThenMark ==
  \/ phase' = "mark" /\ told' = told \cup {sha}
  \/ phase' = "serving" /\ told' \in {told, told \cup {sha}}

(* The record written whether or not the message was sent. *)
SendAndMarkAnyway ==
  phase' = "mark" /\ told' \in {told, told \cup {sha}}

Send == SendThenMark

SendMessage ==
  /\ phase = "send"
  /\ Send
  /\ UNCHANGED <<metricsVars, stopping, sha, starts, record, pc>>

(* A Put that reports an error may have been applied. *)
MarkNotified ==
  /\ phase = "mark"
  /\ phase' = "serving"
  /\ record' \in {record, sha}
  /\ UNCHANGED <<metricsVars, stopping, sha, starts, told, pc>>

Boot == ReadRecord \/ SendMessage \/ MarkNotified

----------------------------------------------------------------------------
(* The requests, as far as they increment: the command run, its failure. *)

Goto(w, label) == pc' = [pc EXCEPT ![w] = label]

Receive(w, c) ==
  /\ phase = "serving"
  /\ pc[w] = "idle"
  /\ counted[c] < MaxCount
  /\ Find(w, c)
  /\ Goto(w, "command")
  /\ UNCHANGED <<phase, stopping, sha, starts, record, told>>

Increment(w) ==
  /\ Add(w) \/ Create(w)
  /\ Goto(w, IF pc[w] = "command" THEN "handler" ELSE "idle")
  /\ UNCHANGED <<phase, stopping, sha, starts, record, told>>

(* nil, or a panic, which the webhook recovers and nothing counts. *)
HandlerReturns(w) ==
  /\ pc[w] = "handler"
  /\ Goto(w, "idle")
  /\ UNCHANGED <<metricsVars, phase, stopping, sha, starts, record, told>>

HandlerFails(w) ==
  /\ pc[w] = "handler"
  /\ Find(w, HandlerError)
  /\ Goto(w, "error")
  /\ UNCHANGED <<phase, stopping, sha, starts, record, told>>

Handle(w) == Increment(w) \/ HandlerReturns(w) \/ HandlerFails(w)

----------------------------------------------------------------------------
(* metrics.Run, and the end of main. *)

(* A cancelled context and a tick that is due are chosen between at random. *)
Flush ==
  /\ phase # "down"
  /\ \/ StartFlush(FALSE)
     \/ stopping /\ StartFlush(TRUE)
     \/ \E n \in Name : Drain(n)
     \/ Drained
     \/ WriteLine
  /\ UNCHANGED <<phase, stopping, sha, starts, record, told, pc>>

Signal ==
  /\ phase # "down" /\ ~stopping
  /\ stopping' = TRUE
  /\ UNCHANGED <<metricsVars, phase, sha, starts, record, told, pc>>

(* srv.Shutdown: no request is accepted any more. *)
StopListening ==
  /\ phase = "serving" /\ stopping
  /\ phase' = "draining"
  /\ UNCHANGED <<metricsVars, stopping, sha, starts, record, told, pc>>

Ends ==
  /\ phase' = "down"
  /\ stopping' = FALSE
  /\ pc' = [w \in Worker |-> "idle"]
  /\ Reset
  /\ UNCHANGED <<sha, starts, record, told>>

(* The requests have returned or their 15 seconds are over; main does not   *)
(* wait for the last flush.                                                 *)
Exit == phase = "draining" /\ Ends

Crash == phase \notin {"draining", "down"} /\ Ends

Start ==
  /\ phase = "down" /\ starts < MaxStarts
  /\ phase' = "read"
  /\ sha' \in Sha
  /\ starts' = starts + 1
  /\ UNCHANGED <<metricsVars, stopping, record, told, pc>>

Next ==
  \/ Boot
  \/ \E w \in Worker : \E c \in Command : Receive(w, c)
  \/ \E w \in Worker : Handle(w)
  \/ Flush
  \/ Signal \/ StopListening \/ Exit \/ Crash \/ Start

Spec == Init /\ [][Next]_vars

(* The ticker ticks, a log line is written, and Shutdown is bounded; main   *)
(* itself is not awaited by any property.                                   *)
FairSpec == Spec /\ WF_vars(Flush)

----------------------------------------------------------------------------

(* The values the variables take, and Metrics' own agreement; a request is *)
(* in inc exactly when its handler called it, and none is served by a      *)
(* process that does not listen.                                           *)
TypeOK ==
  /\ MetricsTypeOK /\ CountersAgree
  /\ phase \in {"read", "send", "mark", "serving", "draining", "down"}
  /\ stopping \in BOOLEAN
  /\ sha \in Sha /\ record \in Sha \cup {None} /\ told \subseteq Sha
  /\ starts \in 1 .. MaxStarts
  /\ pc \in [Worker -> {"idle", "command", "handler", "error"}]
  /\ \A w \in Worker : incAt[w] # "no" <=> pc[w] \in {"command", "error"}
  /\ phase \notin {"serving", "draining"} => \A w \in Worker : pc[w] = "idle"

(* A version is on record only once the owner was told of it: "a transient *)
(* Telegram failure doesn't permanently silence retries"                   *)
(* (deploy_notify.go:12), whatever fails, dies or starts in between.       *)
RecordedMeansTold == record # None => record \in told

(* As long as the process is not told to stop, each increment reaches a    *)
(* log line.                                                               *)
EveryIncrementLogged ==
  \A n \in Name : \A i \in 1 .. MaxCount :
    counted[n] = i ~> (logged[n] >= i \/ stopping \/ phase = "down")

(* With the types: what a start reads of an earlier one.                   *)
MainInv == TypeOK /\ RecordedMeansTold

============================================================================
