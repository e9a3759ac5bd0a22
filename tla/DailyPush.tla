----------------------------- MODULE DailyPush -----------------------------
(***************************************************************************)
(* The subscribers of the daily digest (internal/modules/lolschedule,      *)
(* subscribers.go, cron.go and the two commands of handlers.go) in one     *)
(* process.  The whole list is one entry of the store; commands and the    *)
(* pruning of a push edit it by Get, change and Put under one mutex, while *)
(* a push reads the list it sends to without it.                           *)
(*                                                                         *)
(* The scheduler may deliver a push again, even while one is running.      *)
(* What Telegram answers is arbitrary; the text sent is left out.          *)
(***************************************************************************)
EXTENDS Lolschedule

CONSTANTS Pusher,     \* bound: the workers a push may run on
          Chat, Thread,
          Sub,        \* the topics that exist, General being one
          Threshold   \* 30, the subscribers above which sends are throttled

ASSUME DailyPushAssumption ==
  /\ Pusher \subseteq Worker
  /\ Sub \subseteq Chat \X Thread
  /\ Threshold \in Nat
  /\ None \notin Worker \cup Thread

VARIABLES
  subs,     \* store, "subscribers"
  mu,       \* subscribersMu: its holder
  req,      \* per worker: the request
  list,     \* per push: the subscribers it read
  outcome,  \* per push: how each send so far went
  todo,     \* per worker: edits of the list still to make
  copy,     \* per worker: the list it read under the mutex, and
  edit      \* the edit it is about to Put

memory == <<list, outcome, todo, copy, edit>>
vars == <<subs, mu, pc, req, memory>>

Request ==
  [cmd : {"subscribe", "unsubscribe"}, sub : Sub] \cup {[cmd |-> "push"]}

Idle == [cmd |-> "none"]

(* An edit adds or removes one entry, or removes all those of a chat.      *)
Edit == [op : {"add", "remove"}, chat : Chat, thread : Thread]
        \cup [op : {"removeChat"}, chat : Chat, thread : {None}]

NoEdit == [op |-> "none", chat |-> None, thread |-> None]

Init ==
  /\ subs = <<>>
  /\ mu = None
  /\ pc = [w \in Worker |-> "idle"]
  /\ req = [w \in Worker |-> Idle]
  /\ list = [w \in Worker |-> <<>>]
  /\ outcome = [w \in Worker |-> <<>>]
  /\ todo = [w \in Worker |-> {}]
  /\ copy = [w \in Worker |-> <<>>]
  /\ edit = [w \in Worker |-> NoEdit]

----------------------------------------------------------------------------

Command(w, r) ==
  LET op == IF r.cmd = "subscribe" THEN "add" ELSE "remove"
  IN  /\ pc[w] = "idle" /\ r.cmd # "push"
      /\ req' = [req EXCEPT ![w] = r]
      /\ todo' = [todo EXCEPT ![w] = {[op |-> op, chat |-> r.sub[1], thread |-> r.sub[2]]}]
      /\ Goto(w, "lock")
      /\ UNCHANGED <<subs, mu, list, outcome, copy, edit>>

StartPush(w) ==
  /\ pc[w] = "idle" /\ w \in Pusher
  /\ req' = [req EXCEPT ![w] = [cmd |-> "push"]]
  /\ Goto(w, "list")
  /\ UNCHANGED <<subs, mu, memory>>

ListSubscribers(w) ==
  /\ pc[w] = "list"
  /\ \/ /\ list' = [list EXCEPT ![w] = subs]
        /\ Goto(w, IF subs = <<>> THEN "ok" ELSE "fetch")
     \/ Goto(w, "failed") /\ UNCHANGED list
  /\ UNCHANGED <<subs, mu, req, outcome, todo, copy, edit>>

(* GetEventsCached. *)
FetchMatches(w) ==
  /\ pc[w] = "fetch"
  /\ Goto(w, "send") \/ Goto(w, "failed")
  /\ UNCHANGED <<subs, mu, req, memory>>

(* classifyTerminal: "kept" is a failure that is not terminal.             *)
Failure == {"kept", "chatDead", "topicDead"}

ContinueAfterSend(w, result) ==
  IF Len(outcome[w]) + 1 < Len(list[w]) THEN "send" ELSE "collect"

(* The first bad chat ends the batch. *)
StopAtFailure(w, result) ==
  IF result = "sent" /\ Len(outcome[w]) + 1 < Len(list[w]) THEN "send" ELSE "collect"

NextAfterSend(w, result) == ContinueAfterSend(w, result)

Send(w) ==
  /\ pc[w] = "send"
  /\ \E result \in Failure \cup {"sent"} :
       /\ outcome' = [outcome EXCEPT ![w] = Append(@, result)]
       /\ Goto(w, NextAfterSend(w, result))
  /\ UNCHANGED <<subs, mu, req, list, todo, copy, edit>>

(* The context ends in the pause between two throttled sends: the push     *)
(* returns without pruning.                                                *)
Expire(w) ==
  /\ pc[w] = "send"
  /\ Len(list[w]) > Threshold /\ outcome[w] # <<>>
  /\ Goto(w, "failed")
  /\ UNCHANGED <<subs, mu, req, memory>>

Reported(w, kind) ==
  {list[w][i] : i \in {j \in DOMAIN outcome[w] : outcome[w][j] = kind}}

(* pruneDeadSubscribers leaves a topic alone whose whole chat goes.        *)
DeadEntries(w) ==
  LET chats == {s[1] : s \in Reported(w, "chatDead")}
      topics == {s \in Reported(w, "topicDead") : s[1] \notin chats}
  IN  {[op |-> "removeChat", chat |-> c, thread |-> None] : c \in chats}
      \cup {[op |-> "remove", chat |-> s[1], thread |-> s[2]] : s \in topics}

(* A topic the bot may not write to taken for a dead chat. *)
DeadChatsOnly(w) ==
  {[op |-> "removeChat", chat |-> s[1], thread |-> None] :
     s \in Reported(w, "chatDead") \cup Reported(w, "topicDead")}

Prunable(w) == DeadEntries(w)

CollectDead(w) ==
  /\ pc[w] = "collect"
  /\ todo' = [todo EXCEPT ![w] = Prunable(w)]
  /\ Goto(w, IF Prunable(w) = {} THEN "ok" ELSE "lock")
  /\ UNCHANGED <<subs, mu, req, list, outcome, copy, edit>>

Free == mu = None

(* No mutex around Get, change and Put. *)
NeverHeld == TRUE

CanLock == Free

Lock(w) ==
  /\ pc[w] = "lock"
  /\ CanLock
  /\ mu' = w
  /\ Goto(w, "get")
  /\ UNCHANGED <<subs, req, memory>>

AddIfAbsent(l, s) == IF Contains(l, s) THEN l ELSE Append(l, s)

(* A second entry for the same topic. *)
AddAlways(l, s) == Append(l, s)

Added(l, s) == AddIfAbsent(l, s)

Edited(l, e) ==
  CASE e.op = "add"        -> Added(l, <<e.chat, e.thread>>)
    [] e.op = "remove"     -> Keeping(l, Sub \ {<<e.chat, e.thread>>})
    [] e.op = "removeChat" -> Keeping(l, {s \in Sub : s[1] # e.chat})

(* A failed or needless edit is given up and the next one tried.           *)
Finish(w, e) ==
  /\ todo' = [todo EXCEPT ![w] = @ \ {e}]
  /\ copy' = [copy EXCEPT ![w] = <<>>]
  /\ edit' = [edit EXCEPT ![w] = NoEdit]
  /\ Goto(w, IF todo[w] = {e} THEN "unlock" ELSE "get")

(* Dead chats go before dead topics.                                       *)
Get(w) ==
  /\ pc[w] = "get"
  /\ \E e \in todo[w] :
       /\ e.op = "remove" => \A f \in todo[w] : f.op # "removeChat"
       /\ \/ Finish(w, e)
          \/ /\ Edited(subs, e) # subs
             /\ copy' = [copy EXCEPT ![w] = subs]
             /\ edit' = [edit EXCEPT ![w] = e]
             /\ Goto(w, "put")
             /\ UNCHANGED todo
  /\ UNCHANGED <<subs, mu, req, list, outcome>>

Put(w) ==
  /\ pc[w] = "put"
  /\ subs' \in {subs, Edited(copy[w], edit[w])}
  /\ Finish(w, edit[w])
  /\ UNCHANGED <<mu, req, list, outcome>>

Unlock(w) ==
  /\ pc[w] = "unlock"
  /\ mu' = None
  /\ Goto(w, "ok")
  /\ UNCHANGED <<subs, req, memory>>

Return(w) ==
  /\ pc[w] \in {"ok", "failed"}
  /\ Goto(w, "idle")
  /\ req' = [req EXCEPT ![w] = Idle]
  /\ list' = [list EXCEPT ![w] = <<>>]
  /\ outcome' = [outcome EXCEPT ![w] = <<>>]
  /\ UNCHANGED <<subs, mu, todo, copy, edit>>

Crash ==
  /\ mu' = None
  /\ pc' = [w \in Worker |-> "idle"]
  /\ req' = [w \in Worker |-> Idle]
  /\ list' = [w \in Worker |-> <<>>]
  /\ outcome' = [w \in Worker |-> <<>>]
  /\ todo' = [w \in Worker |-> {}]
  /\ copy' = [w \in Worker |-> <<>>]
  /\ edit' = [w \in Worker |-> NoEdit]
  /\ UNCHANGED <<subs>>

Next ==
  \/ \E w \in Worker : \E r \in Request : Command(w, r)
  \/ \E w \in Worker :
       \/ StartPush(w) \/ ListSubscribers(w) \/ FetchMatches(w) \/ Send(w)
       \/ Expire(w) \/ CollectDead(w) \/ Lock(w) \/ Get(w) \/ Put(w)
       \/ Unlock(w) \/ Return(w)
  \/ Crash

Spec == Init /\ [][Next]_vars

----------------------------------------------------------------------------

(* The values the variables take; the mutex names the worker past Lock.    *)
TypeOK ==
  /\ subs \in Seq(Sub)
  /\ mu \in Worker \cup {None}
  /\ pc \in [Worker -> {"idle", "list", "fetch", "send", "collect", "lock", "get",
                        "put", "unlock", "ok", "failed"}]
  /\ req \in [Worker -> Request \cup {Idle}]
  /\ list \in [Worker -> Seq(Sub)]
  /\ outcome \in [Worker -> Seq(Failure \cup {"sent"})]
  /\ todo \in [Worker -> SUBSET Edit]
  /\ copy \in [Worker -> Seq(Sub)]
  /\ edit \in [Worker -> Edit \cup {NoEdit}]
  /\ \A w \in Worker : pc[w] \in {"get", "put", "unlock"} => mu = w

S == INSTANCE SubscriberSet WITH members <- ToSet(subs)

(* The stored list is a set that changes by one request at a time: two     *)
(* subscriptions at the same moment, or one during a push's pruning, are   *)
(* both kept.                                                              *)
ImplementsSubscriberSet == S!Spec

(* An entry leaves the list when its own topic unsubscribes, when a push   *)
(* found its whole chat gone, or when a push could not write to exactly    *)
(* that topic; a transient failure, or one of another topic, costs nobody  *)
(* the subscription.                                                       *)
RemovedForCause ==
  [][\A s \in ToSet(subs) \ ToSet(subs') :
       \E w \in Worker :
         \/ req[w] = [cmd |-> "unsubscribe", sub |-> s]
         \/ s \in Reported(w, "topicDead")
         \/ \E dead \in Reported(w, "chatDead") : dead[1] = s[1]]_vars

(* "one bad chat does not deny the rest" (cron.go:124): a push answers OK  *)
(* only after it tried everyone who was subscribed when it began.          *)
OkMeansEveryoneTried ==
  \A w \in Worker :
    req[w].cmd = "push" /\ pc[w] \in {"collect", "lock", "get", "put", "unlock", "ok"} =>
      Len(outcome[w]) = Len(list[w])

(* A push sends its digest to a topic at most once, whatever commands,     *)
(* pushes and failed writes the list it read came from.                    *)
OneDigestPerPush == \A w \in Worker : IsInjective(list[w])

(* With the types: a push that answers OK has done what it is for.         *)
DailyPushInv == TypeOK /\ OkMeansEveryoneTried

============================================================================
