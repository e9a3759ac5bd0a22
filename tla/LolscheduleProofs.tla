------------------------- MODULE LolscheduleProofs --------------------------
(* Proofs about DailyPush, Schedule, ScheduleDate and SchedulePage: for every *)
(* set of workers, of which any may run pushes, of topics, events, windows,  *)
(* texts and leagues, every schedule whose pages ascend, and every threshold,*)
(* page budget and age.                                                      *)
EXTENDS DailyPush, SchedulePage, Loops

----------------------------------------------------------------------------
(* DailyPush: the edits of the list.                                         *)

(* A list with one more entry. *)
LEMMA Appended ==
  ASSUME NEW out \in Seq(Sub), NEW s \in Sub
  PROVE  /\ Append(out, s) \in Seq(Sub)
         /\ ToSet(Append(out, s)) = ToSet(out) \cup {s}
         /\ IsInjective(out) /\ s \notin ToSet(out) => IsInjective(Append(out, s))
<1> DEFINE new == Append(out, s)
<1>1. /\ new \in Seq(Sub) /\ DOMAIN new = 1 .. Len(out) + 1
      /\ \A i \in 1 .. Len(out) : new[i] = out[i]
      /\ new[Len(out) + 1] = s
      /\ DOMAIN out = 1 .. Len(out) /\ Len(out) \in Nat
  OBVIOUS
<1> HIDE DEF new
<1>2. ToSet(new) = ToSet(out) \cup {s}
  BY <1>1 DEF ToSet
<1>3. IsInjective(out) /\ s \notin ToSet(out) => IsInjective(new)
  BY <1>1 DEF IsInjective, ToSet
<1>4. QED
  BY <1>1, <1>2, <1>3 DEF new

(* The two edits, on the set of the entries.                                 *)
LEMMA AddedIsUnion ==
  ASSUME NEW l \in Seq(Sub), NEW s \in Sub
  PROVE  /\ Added(l, s) \in Seq(Sub)
         /\ ToSet(Added(l, s)) = ToSet(l) \cup {s}
         /\ IsInjective(l) => IsInjective(Added(l, s))
<1>1. Contains(l, s) <=> s \in ToSet(l)
  BY DEF Contains, ToSet
<1>2. CASE Contains(l, s)
  BY <1>1, <1>2 DEF Added, AddIfAbsent
<1>3. CASE ~Contains(l, s)
  BY <1>1, <1>3, Appended DEF Added, AddIfAbsent
<1>4. QED
  BY <1>2, <1>3

----------------------------------------------------------------------------
(* DailyPush: the invariant.                                                 *)

(* Every edit under way has its cause, and while a worker edits, the copy it  *)
(* edits is the list.                                                        *)
Caused(w, e) ==
  CASE e.op = "add"        -> req[w] = [cmd |-> "subscribe", sub |-> <<e.chat, e.thread>>]
    [] e.op = "remove"     -> \/ req[w] = [cmd |-> "unsubscribe", sub |-> <<e.chat, e.thread>>]
                              \/ <<e.chat, e.thread>> \in Reported(w, "topicDead")
    [] e.op = "removeChat" -> \E dead \in Reported(w, "chatDead") : dead[1] = e.chat

EditsCaused(w) ==
  /\ \A e \in todo[w] : Caused(w, e)
  /\ pc[w] \notin {"lock", "get", "put"} => todo[w] = {}
  /\ pc[w] = "put" => edit[w] \in todo[w] /\ copy[w] = subs

(* How far a push is, by its next call.                                      *)
Advances(w) ==
  /\ pc[w] \in {"list", "fetch", "send", "collect"} => req[w].cmd = "push"
  /\ pc[w] \in {"idle", "list"} => list[w] = <<>>
  /\ pc[w] \in {"idle", "list", "fetch"} => outcome[w] = <<>>
  /\ pc[w] = "fetch" => list[w] # <<>>
  /\ pc[w] = "send" => Len(outcome[w]) < Len(list[w])
  /\ pc[w] = "collect" => Len(outcome[w]) = Len(list[w])

(* What makes it inductive. *)
DailyPushIInv ==
  /\ DailyPushInv /\ OneDigestPerPush /\ IsInjective(subs)
  /\ \A w \in Worker : EditsCaused(w) /\ Advances(w)

(* Entries of a list that was read are topics that exist.                    *)
LEMMA ReportedIsSub ==
  ASSUME TypeOK, DailyPushIInv, NEW w \in Worker, NEW kind,
         Len(outcome[w]) <= Len(list[w])
  PROVE  Reported(w, kind) \subseteq Sub
<1>1. list[w] \in Seq(Sub) /\ outcome[w] \in Seq(Failure \cup {"sent"})
  BY DEF TypeOK
<1>2. \A i \in DOMAIN outcome[w] : i \in DOMAIN list[w]
  BY <1>1
<1>3. \A i \in DOMAIN list[w] : list[w][i] \in Sub
  BY <1>1
<1>4. QED
  BY <1>2, <1>3 DEF Reported

(* What an edit makes of the list is a list of topics, each once.            *)
LEMMA EditedType ==
  ASSUME NEW l \in Seq(Sub), NEW e \in Edit, e.op = "add" => <<e.chat, e.thread>> \in Sub
  PROVE  /\ Edited(l, e) \in Seq(Sub)
         /\ IsInjective(l) => IsInjective(Edited(l, e))
         /\ ToSet(Edited(l, e)) =
              CASE e.op = "add"        -> ToSet(l) \cup {<<e.chat, e.thread>>}
                [] e.op = "remove"     -> ToSet(l) \ {<<e.chat, e.thread>>}
                [] e.op = "removeChat" -> {s \in ToSet(l) : s[1] # e.chat}
<1>1. CASE e.op = "add"
  BY <1>1, AddedIsUnion DEF Edited
<1> DEFINE keep == IF e.op = "remove" THEN Sub \ {<<e.chat, e.thread>>}
                   ELSE {s \in Sub : s[1] # e.chat}
<1>2. /\ Keeping(l, keep) \in Seq(Sub)
      /\ ToSet(Keeping(l, keep)) = ToSet(l) \cap keep
      /\ IsInjective(l) => IsInjective(Keeping(l, keep))
  <2> HIDE DEF keep
  <2> QED BY KeepingKeeps
<1>3. CASE e.op \in {"remove", "removeChat"}
  <2>1. Edited(l, e) = Keeping(l, keep)
    BY <1>3 DEF Edited
  <2>2. \A i \in DOMAIN l : l[i] \in Sub
    OBVIOUS
  <2>3. ToSet(l) \subseteq Sub
    BY <2>2 DEF ToSet
  <2>4. ToSet(l) \cap keep = IF e.op = "remove" THEN ToSet(l) \ {<<e.chat, e.thread>>}
                            ELSE {s \in ToSet(l) : s[1] # e.chat}
    BY <2>3
  <2> HIDE DEF keep
  <2>5. QED
    BY <1>2, <1>3, <2>1, <2>4
<1>4. e.op \in {"add", "remove", "removeChat"}
  BY DEF Edit
<1>5. QED
  BY <1>1, <1>2, <1>3, <1>4

(* An edit under way adds a topic that exists.                               *)
LEMMA CausedAddsSub ==
  ASSUME TypeOK, NEW w \in Worker, NEW e \in Edit, Caused(w, e), e.op = "add"
  PROVE  <<e.chat, e.thread>> \in Sub
<1>1. req[w] = [cmd |-> "subscribe", sub |-> <<e.chat, e.thread>>]
  BY DEF Caused
<1>2. req[w] \in Request \cup {Idle}
  BY DEF TypeOK
<1>3. QED
  BY <1>1, <1>2 DEF Request, Idle

(* The invariant holds of a step if it holds of the worker that took it, and *)
(* the step left the others and the list alone.                              *)
Local(w) ==
  /\ \A v \in Worker \ {w} :
       /\ pc'[v] = pc[v] /\ req'[v] = req[v] /\ list'[v] = list[v]
       /\ outcome'[v] = outcome[v] /\ todo'[v] = todo[v] /\ copy'[v] = copy[v]
       /\ edit'[v] = edit[v]

Tried(w) ==
  req[w].cmd = "push" /\ pc[w] \in {"collect", "lock", "get", "put", "unlock", "ok"} =>
    Len(outcome[w]) = Len(list[w])

(* An edit keeps its cause as long as its worker does what it does.          *)
LEMMA CauseStays ==
  ASSUME NEW w, req'[w] = req[w], list'[w] = list[w], outcome'[w] = outcome[w]
  PROVE  \A e : Caused(w, e) => Caused(w, e)'
BY DEF Caused, Reported

LEMMA LocalStep ==
  ASSUME DailyPushIInv, TypeOK', NEW w \in Worker, Local(w),
         subs' = subs \/ mu = w, IsInjective(subs'), IsInjective(list'[w]),
         Tried(w)', EditsCaused(w)', Advances(w)'
  PROVE  DailyPushIInv'
<1>1. ASSUME NEW v \in Worker \ {w}
      PROVE  /\ Tried(v)' /\ Advances(v)' /\ IsInjective(list'[v])
             /\ EditsCaused(v)'
  <2>1. /\ pc'[v] = pc[v] /\ req'[v] = req[v] /\ list'[v] = list[v]
        /\ outcome'[v] = outcome[v] /\ todo'[v] = todo[v] /\ copy'[v] = copy[v]
        /\ edit'[v] = edit[v]
    BY DEF Local
  <2>2. Tried(v) /\ Advances(v) /\ EditsCaused(v) /\ IsInjective(list[v])
    BY DEF DailyPushIInv, DailyPushInv, OkMeansEveryoneTried, OneDigestPerPush, Tried
  <2>3. Tried(v)' /\ Advances(v)' /\ IsInjective(list'[v])
    BY <2>1, <2>2 DEF Tried, Advances
  <2>4. \A e : Caused(v, e) => Caused(v, e)'
    BY <2>1, CauseStays
  <2>5. pc[v] = "put" => subs' = subs
    BY DEF DailyPushIInv, DailyPushInv, TypeOK
  <2>6. EditsCaused(v)'
    BY <2>1, <2>2, <2>4, <2>5 DEF EditsCaused
  <2>7. QED
    BY <2>3, <2>6
<1>2. \A v \in Worker : Tried(v)' /\ Advances(v)' /\ IsInjective(list'[v]) /\ EditsCaused(v)'
  BY <1>1
<1>3. OkMeansEveryoneTried'
  BY <1>2 DEF Tried, OkMeansEveryoneTried
<1>4. OneDigestPerPush'
  BY <1>2 DEF OneDigestPerPush
<1>5. QED
  BY <1>2, <1>3, <1>4 DEF DailyPushIInv, DailyPushInv

(* Every step keeps the types.                                               *)
LEMMA TypesStep ==
  ASSUME DailyPushIInv, [Next]_vars
  PROVE  TypeOK'
<1> USE DailyPushAssumption
<1>1. TypeOK
  BY DEF DailyPushIInv, DailyPushInv
<1> USE <1>1 DEF TypeOK
<1>2. ASSUME NEW w \in Worker, NEW r \in Request, Command(w, r)
      PROVE  TypeOK'
  <2>1. r.sub \in Sub /\ r.sub[1] \in Chat /\ r.sub[2] \in Thread
    BY <1>2 DEF Command, Request
  <2>2. {[op |-> IF r.cmd = "subscribe" THEN "add" ELSE "remove",
          chat |-> r.sub[1], thread |-> r.sub[2]]} \in SUBSET Edit
    BY <2>1 DEF Edit
  <2>3. QED
    BY <1>2, <2>2 DEF Command, Goto
<1>3. ASSUME NEW w \in Worker, StartPush(w)
      PROVE  TypeOK'
  BY <1>3 DEF StartPush, Goto, memory, Request
<1>4. ASSUME NEW w \in Worker, ListSubscribers(w)
      PROVE  TypeOK'
  <2>1. list' \in [Worker -> Seq(Sub)]
    BY <1>4 DEF ListSubscribers
  <2>2. \E label \in {"ok", "fetch", "failed"} : Goto(w, label)
    BY <1>4 DEF ListSubscribers
  <2>3. UNCHANGED <<subs, mu, req, outcome, todo, copy, edit>> /\ pc[w] = "list"
    BY <1>4 DEF ListSubscribers
  <2>4. QED
    BY <2>1, <2>2, <2>3 DEF Goto
<1>5. ASSUME NEW w \in Worker, FetchMatches(w)
      PROVE  TypeOK'
  BY <1>5 DEF FetchMatches, Goto, memory
<1>6. ASSUME NEW w \in Worker, Send(w)
      PROVE  TypeOK'
  <2>1. PICK result \in Failure \cup {"sent"} :
          /\ outcome' = [outcome EXCEPT ![w] = Append(@, result)]
          /\ Goto(w, NextAfterSend(w, result))
    BY <1>6 DEF Send
  <2>2. NextAfterSend(w, result) \in {"send", "collect"}
    BY DEF NextAfterSend, ContinueAfterSend
  <2>3. Append(outcome[w], result) \in Seq(Failure \cup {"sent"})
    OBVIOUS
  <2>4. UNCHANGED <<subs, mu, req, list, todo, copy, edit>>
    BY <1>6 DEF Send
  <2>5. outcome' \in [Worker -> Seq(Failure \cup {"sent"})]
    BY <2>1, <2>3
  <2>6. QED
    BY <1>6, <2>1, <2>2, <2>4, <2>5 DEF Goto, Send
<1>7. ASSUME NEW w \in Worker, Expire(w)
      PROVE  TypeOK'
  BY <1>7 DEF Expire, Goto, memory
<1>8. ASSUME NEW w \in Worker, CollectDead(w)
      PROVE  TypeOK'
  <2>1. Reported(w, "chatDead") \subseteq Sub /\ Reported(w, "topicDead") \subseteq Sub
    <3>1. Len(outcome[w]) = Len(list[w])
      BY <1>8 DEF CollectDead, DailyPushIInv, Advances
    <3>2. Len(outcome[w]) <= Len(list[w])
      BY <3>1
    <3>3. QED
      BY <3>2, ReportedIsSub
  <2>2. Prunable(w) \in SUBSET Edit
    BY <2>1 DEF Prunable, DeadEntries, Edit
  <2>3. QED
    BY <1>8, <2>2 DEF CollectDead, Goto
<1>9. ASSUME NEW w \in Worker, Lock(w)
      PROVE  TypeOK'
  BY <1>9 DEF Lock, CanLock, Free, Goto, memory
<1>10. ASSUME NEW w \in Worker, Get(w)
       PROVE  TypeOK'
  <2>1. PICK e \in todo[w] :
          \/ Finish(w, e)
          \/ /\ copy' = [copy EXCEPT ![w] = subs]
             /\ edit' = [edit EXCEPT ![w] = e]
             /\ Goto(w, "put")
             /\ UNCHANGED todo
    BY <1>10 DEF Get
  <2>2. pc[w] = "get" /\ UNCHANGED <<subs, mu, req, list, outcome>>
    BY <1>10 DEF Get
  <2>3. CASE Finish(w, e)
    BY <2>2, <2>3 DEF Finish, Goto
  <2>4. CASE /\ copy' = [copy EXCEPT ![w] = subs]
             /\ edit' = [edit EXCEPT ![w] = e]
             /\ Goto(w, "put")
             /\ UNCHANGED todo
    BY <2>2, <2>4 DEF Goto
  <2>5. QED
    BY <2>1, <2>3, <2>4
<1>11. ASSUME NEW w \in Worker, Put(w)
       PROVE  TypeOK'
  <2>1. edit[w] \in todo[w] /\ edit[w] \in Edit /\ Caused(w, edit[w])
    BY <1>11 DEF Put, DailyPushIInv, EditsCaused
  <2>2. edit[w].op = "add" => <<edit[w].chat, edit[w].thread>> \in Sub
    BY <2>1, CausedAddsSub
  <2>3. Edited(copy[w], edit[w]) \in Seq(Sub)
    BY <2>1, <2>2, EditedType
  <2>4. QED
    BY <1>11, <2>3 DEF Put, Finish, Goto
<1>12. ASSUME NEW w \in Worker, Unlock(w)
       PROVE  TypeOK'
  BY <1>12 DEF Unlock, Goto, memory
<1>13. ASSUME NEW w \in Worker, Return(w)
       PROVE  TypeOK'
  BY <1>13 DEF Return, Goto
<1>14. CASE Crash
  BY <1>14 DEF Crash
<1>15. CASE UNCHANGED vars
  BY <1>15 DEF vars, memory
<1>16. QED
  BY <1>2, <1>3, <1>4, <1>5, <1>6, <1>7, <1>8, <1>9, <1>10, <1>11, <1>12, <1>13, <1>14, <1>15
     DEF Next

(* Every step keeps the invariant.                                           *)
LEMMA InvariantStep ==
  ASSUME DailyPushIInv, [Next]_vars
  PROVE  DailyPushIInv'
<1>1. TypeOK /\ TypeOK' /\ IsInjective(subs)
  BY TypesStep DEF DailyPushIInv, DailyPushInv
<1>2. \A w \in Worker : /\ IsInjective(list[w]) /\ Tried(w)
                        /\ EditsCaused(w) /\ Advances(w)
  BY DEF DailyPushIInv, DailyPushInv, OneDigestPerPush, OkMeansEveryoneTried, Tried
<1>3. ASSUME NEW w \in Worker, NEW r \in Request, Command(w, r)
      PROVE  DailyPushIInv'
  <2>1. /\ r \in [cmd : {"subscribe", "unsubscribe"}, sub : Sub]
        /\ pc[w] = "idle" /\ pc'[w] = "lock" /\ req'[w] = r /\ UNCHANGED <<subs, list, outcome>>
        /\ todo'[w] = {[op |-> IF r.cmd = "subscribe" THEN "add" ELSE "remove",
                        chat |-> r.sub[1], thread |-> r.sub[2]]}
    BY <1>1, <1>3 DEF Command, Goto, Request, TypeOK
  <2>2. Local(w)
    BY <1>1, <1>3 DEF Local, Command, Goto, TypeOK
  <2>3. r.sub = <<r.sub[1], r.sub[2]>>
    BY <2>1, DailyPushAssumption
  <2>4. EditsCaused(w)'
    <3>1. r = [cmd |-> r.cmd, sub |-> <<r.sub[1], r.sub[2]>>]
      BY <2>1, <2>3
    <3>2. CASE r.cmd = "subscribe"
      BY <2>1, <3>1, <3>2 DEF EditsCaused, Caused
    <3>3. CASE r.cmd = "unsubscribe"
      BY <2>1, <3>1, <3>3 DEF EditsCaused, Caused
    <3>4. QED
      BY <2>1, <3>2, <3>3
  <2>5. Advances(w)' /\ Tried(w)'
    BY <2>1 DEF Advances, Tried
  <2>6. QED
    BY <1>1, <1>2, <2>1, <2>2, <2>4, <2>5, LocalStep
<1>4. ASSUME NEW w \in Worker, StartPush(w)
      PROVE  DailyPushIInv'
  <2>1. /\ pc[w] = "idle" /\ pc'[w] = "list"
        /\ req'[w] = [cmd |-> "push"] /\ UNCHANGED <<subs, list, outcome, todo>>
    BY <1>1, <1>4 DEF StartPush, Goto, memory, TypeOK
  <2>2. Local(w)
    BY <1>1, <1>4 DEF Local, StartPush, Goto, memory, TypeOK
  <2>3. EditsCaused(w)' /\ Advances(w)' /\ Tried(w)'
    BY <1>2, <2>1 DEF EditsCaused, Advances, Tried
  <2>4. QED
    BY <1>1, <1>2, <2>1, <2>2, <2>3, LocalStep
<1>5. ASSUME NEW w \in Worker, ListSubscribers(w)
      PROVE  DailyPushIInv'
  <2>1. /\ pc[w] = "list" /\ UNCHANGED <<subs, req, outcome, todo>>
        /\ \/ list'[w] = subs /\ pc'[w] = (IF subs = <<>> THEN "ok" ELSE "fetch")
           \/ pc'[w] = "failed" /\ list' = list
    BY <1>1, <1>5 DEF ListSubscribers, Goto, TypeOK
  <2>2. Local(w)
    BY <1>1, <1>5 DEF Local, ListSubscribers, Goto, TypeOK
  <2>3. EditsCaused(w)' /\ Advances(w)' /\ Tried(w)' /\ IsInjective(list'[w])
    BY <1>1, <1>2, <2>1 DEF EditsCaused, Advances, Tried
  <2>4. QED
    BY <1>1, <2>1, <2>2, <2>3, LocalStep
<1>6. ASSUME NEW w \in Worker, FetchMatches(w)
      PROVE  DailyPushIInv'
  <2>1. /\ pc[w] = "fetch" /\ pc'[w] \in {"send", "failed"}
        /\ UNCHANGED <<subs, req, list, outcome, todo>>
    BY <1>1, <1>6 DEF FetchMatches, Goto, memory, TypeOK
  <2>2. Local(w)
    BY <1>1, <1>6 DEF Local, FetchMatches, Goto, memory, TypeOK
  <2>3. Len(outcome[w]) < Len(list[w])
    <3>1. list[w] \in Seq(Sub) /\ list[w] # <<>> /\ outcome[w] = <<>>
      BY <1>1, <1>2, <2>1 DEF Advances, TypeOK
    <3>2. QED
      BY <3>1
  <2>4. EditsCaused(w)' /\ Advances(w)' /\ Tried(w)'
    BY <1>2, <2>1, <2>3 DEF EditsCaused, Advances, Tried
  <2>5. QED
    BY <1>1, <1>2, <2>1, <2>2, <2>4, LocalStep
<1>7. ASSUME NEW w \in Worker, Send(w)
      PROVE  DailyPushIInv'
  <2>1. PICK result \in Failure \cup {"sent"} :
          /\ outcome' = [outcome EXCEPT ![w] = Append(@, result)]
          /\ Goto(w, NextAfterSend(w, result))
    BY <1>7 DEF Send
  <2>2. pc[w] = "send" /\ UNCHANGED <<subs, mu, req, list, todo, copy, edit>>
    BY <1>7 DEF Send
  <2>3. Local(w)
    BY <1>1, <2>1, <2>2 DEF Local, Goto, TypeOK
  <2>4. outcome[w] \in Seq(Failure \cup {"sent"}) /\ list[w] \in Seq(Sub)
    BY <1>1 DEF TypeOK
  <2>5. Len(outcome'[w]) = Len(outcome[w]) + 1 /\ pc'[w] = NextAfterSend(w, result)
    BY <1>1, <2>1, <2>4 DEF Goto, TypeOK
  <2>6. /\ pc'[w] = "send" => Len(outcome'[w]) < Len(list'[w])
        /\ pc'[w] = "collect" => Len(outcome'[w]) = Len(list'[w])
        /\ pc'[w] \in {"send", "collect"}
    BY <1>2, <2>2, <2>4, <2>5 DEF Advances, NextAfterSend, ContinueAfterSend
  <2>7. EditsCaused(w)' /\ Advances(w)' /\ Tried(w)'
    BY <1>2, <2>2, <2>6 DEF EditsCaused, Advances, Tried
  <2>8. QED
    BY <1>1, <1>2, <2>2, <2>3, <2>7, LocalStep
<1>8. ASSUME NEW w \in Worker, Expire(w)
      PROVE  DailyPushIInv'
  <2>1. /\ pc[w] = "send" /\ pc'[w] = "failed"
        /\ UNCHANGED <<subs, req, list, outcome, todo>>
    BY <1>1, <1>8 DEF Expire, Goto, memory, TypeOK
  <2>2. Local(w)
    BY <1>1, <1>8 DEF Local, Expire, Goto, memory, TypeOK
  <2>3. EditsCaused(w)' /\ Advances(w)' /\ Tried(w)'
    BY <1>2, <2>1 DEF EditsCaused, Advances, Tried
  <2>4. QED
    BY <1>1, <1>2, <2>1, <2>2, <2>3, LocalStep
<1>9. ASSUME NEW w \in Worker, CollectDead(w)
      PROVE  DailyPushIInv'
  <2>1. /\ pc[w] = "collect" /\ pc'[w] = (IF Prunable(w) = {} THEN "ok" ELSE "lock")
        /\ todo'[w] = Prunable(w) /\ UNCHANGED <<subs, req, list, outcome>>
    BY <1>1, <1>9 DEF CollectDead, Goto, TypeOK
  <2>2. Local(w)
    BY <1>1, <1>9 DEF Local, CollectDead, Goto, TypeOK
  <2>3. Reported(w, "chatDead") \subseteq Sub /\ Reported(w, "topicDead") \subseteq Sub
    <3>1. Len(outcome[w]) <= Len(list[w])
      BY <1>1, <1>2, <2>1 DEF Advances, TypeOK
    <3>2. QED
      BY <1>1, <3>1, ReportedIsSub
  <2>4. \A s \in Sub : s = <<s[1], s[2]>>
    BY DailyPushAssumption
  <2>5. ASSUME NEW e \in Prunable(w)
        PROVE  Caused(w, e)'
    <3>1. CASE e.op = "removeChat"
      <4>1. \E s \in Reported(w, "chatDead") : s[1] = e.chat
        BY <3>1 DEF Prunable, DeadEntries
      <4>2. QED
        BY <2>1, <3>1, <4>1 DEF Caused, Reported
    <3>2. CASE e.op = "remove"
      <4>1. PICK s \in Reported(w, "topicDead") : e.chat = s[1] /\ e.thread = s[2]
        BY <3>2 DEF Prunable, DeadEntries
      <4>2. s = <<e.chat, e.thread>>
        BY <2>3, <2>4, <4>1
      <4>3. QED
        BY <2>1, <3>2, <4>1, <4>2 DEF Caused, Reported
    <3>3. QED
      BY <3>1, <3>2 DEF Prunable, DeadEntries
  <2>6. EditsCaused(w)'
    BY <2>1, <2>5 DEF EditsCaused
  <2>7. Advances(w)' /\ Tried(w)'
    BY <1>2, <2>1 DEF Advances, Tried
  <2>8. QED
    BY <1>1, <1>2, <2>1, <2>2, <2>6, <2>7, LocalStep
<1>10. ASSUME NEW w \in Worker, Lock(w)
       PROVE  DailyPushIInv'
  <2>1. /\ pc[w] = "lock" /\ pc'[w] = "get" /\ UNCHANGED <<subs, req, list, outcome, todo>>
    BY <1>1, <1>10 DEF Lock, Goto, memory, TypeOK
  <2>2. Local(w)
    BY <1>1, <1>10 DEF Local, Lock, Goto, memory, TypeOK
  <2>3. \A e : Caused(w, e) => Caused(w, e)'
    BY <2>1, CauseStays
  <2>4. EditsCaused(w)'
    BY <1>2, <2>1, <2>3 DEF EditsCaused
  <2>5. Advances(w)' /\ Tried(w)'
    BY <1>2, <2>1 DEF Advances, Tried
  <2>6. QED
    BY <1>1, <1>2, <2>1, <2>2, <2>4, <2>5, LocalStep
<1>11. ASSUME NEW w \in Worker, Get(w)
       PROVE  DailyPushIInv'
  <2>1. PICK e \in todo[w] :
          \/ Finish(w, e)
          \/ /\ copy' = [copy EXCEPT ![w] = subs]
             /\ edit' = [edit EXCEPT ![w] = e]
             /\ Goto(w, "put")
             /\ UNCHANGED todo
    BY <1>11 DEF Get
  <2>2. pc[w] = "get" /\ UNCHANGED <<subs, mu, req, list, outcome>>
    BY <1>11 DEF Get
  <2>3. Local(w)
    BY <1>1, <2>1, <2>2 DEF Local, Finish, Goto, TypeOK
  <2>4. \/ todo'[w] = todo[w] \ {e} /\ pc'[w] = (IF todo[w] = {e} THEN "unlock" ELSE "get")
        \/ todo'[w] = todo[w] /\ pc'[w] = "put" /\ edit'[w] = e /\ copy'[w] = subs
    BY <1>1, <2>1 DEF Finish, Goto, TypeOK
  <2>5. EditsCaused(w)'
    <3>1. \A f : Caused(w, f) => Caused(w, f)'
      BY <2>2, CauseStays
    <3>2. QED
      BY <1>2, <2>2, <2>4, <3>1 DEF EditsCaused
  <2>6. Advances(w)' /\ Tried(w)'
    BY <1>2, <2>2, <2>4 DEF Advances, Tried
  <2>7. QED
    BY <1>1, <1>2, <2>2, <2>3, <2>5, <2>6, LocalStep
<1>12. ASSUME NEW w \in Worker, Put(w)
       PROVE  DailyPushIInv'
  <2>1. /\ pc[w] = "put" /\ subs' \in {subs, Edited(copy[w], edit[w])}
        /\ Finish(w, edit[w]) /\ UNCHANGED <<mu, req, list, outcome>>
    BY <1>12 DEF Put
  <2>2. Local(w) /\ mu = w
    BY <1>1, <2>1 DEF Local, Finish, Goto, TypeOK
  <2>3. /\ edit[w] \in todo[w] /\ edit[w] \in Edit /\ Caused(w, edit[w])
        /\ copy[w] = subs /\ copy[w] \in Seq(Sub)
    BY <1>1, <1>2, <2>1 DEF EditsCaused, TypeOK
  <2>4. edit[w].op = "add" => <<edit[w].chat, edit[w].thread>> \in Sub
    BY <1>1, <2>3, CausedAddsSub
  <2>5. IsInjective(subs')
    BY <1>1, <2>1, <2>3, <2>4, EditedType
  <2>6. /\ todo'[w] = todo[w] \ {edit[w]}
        /\ pc'[w] = (IF todo[w] = {edit[w]} THEN "unlock" ELSE "get")
    BY <1>1, <2>1 DEF Finish, Goto, TypeOK
  <2>7. EditsCaused(w)'
    <3>1. \A f : Caused(w, f) => Caused(w, f)'
      BY <2>1, CauseStays
    <3>2. QED
      BY <1>2, <2>1, <2>6, <3>1 DEF EditsCaused
  <2>8. Advances(w)' /\ Tried(w)'
    BY <1>2, <2>1, <2>6 DEF Advances, Tried
  <2>9. QED
    BY <1>1, <1>2, <2>1, <2>2, <2>5, <2>7, <2>8, LocalStep
<1>13. ASSUME NEW w \in Worker, Unlock(w)
       PROVE  DailyPushIInv'
  <2>1. /\ pc[w] = "unlock" /\ pc'[w] = "ok" /\ UNCHANGED <<subs, req, list, outcome, todo>>
    BY <1>1, <1>13 DEF Unlock, Goto, memory, TypeOK
  <2>2. Local(w)
    BY <1>1, <1>13 DEF Local, Unlock, Goto, memory, TypeOK
  <2>3. EditsCaused(w)' /\ Advances(w)' /\ Tried(w)'
    BY <1>2, <2>1 DEF EditsCaused, Advances, Tried
  <2>4. QED
    BY <1>1, <1>2, <2>1, <2>2, <2>3, LocalStep
<1>14. ASSUME NEW w \in Worker, Return(w)
       PROVE  DailyPushIInv'
  <2>1. /\ pc[w] \in {"ok", "failed"} /\ pc'[w] = "idle" /\ UNCHANGED <<subs, todo>>
        /\ req'[w] = Idle /\ list'[w] = <<>> /\ outcome'[w] = <<>>
    BY <1>1, <1>14 DEF Return, Goto, TypeOK
  <2>2. Local(w)
    BY <1>1, <1>14 DEF Local, Return, Goto, TypeOK
  <2>3. EditsCaused(w)' /\ Advances(w)' /\ Tried(w)' /\ IsInjective(list'[w])
    BY <1>2, <2>1 DEF EditsCaused, Advances, Tried, IsInjective
  <2>4. QED
    BY <1>1, <2>1, <2>2, <2>3, LocalStep
<1>15. CASE Crash
  <2>1. /\ IsInjective(subs')
        /\ \A w \in Worker : IsInjective(list'[w])
        /\ OkMeansEveryoneTried'
    BY <1>1, <1>15 DEF Crash, IsInjective, OkMeansEveryoneTried
  <2>2. \A w \in Worker : EditsCaused(w)' /\ Advances(w)'
    BY <1>15 DEF Crash, EditsCaused, Advances
  <2>3. QED
    BY <1>1, <2>1, <2>2 DEF DailyPushIInv, DailyPushInv, OneDigestPerPush
<1>16. CASE UNCHANGED vars
  <2>1. UNCHANGED <<subs, mu, pc, req, list, outcome, todo, copy, edit>>
    BY <1>16 DEF vars, memory
  <2>2. OkMeansEveryoneTried' /\ OneDigestPerPush' /\ IsInjective(subs')
    BY <2>1 DEF DailyPushIInv, DailyPushInv, OkMeansEveryoneTried, OneDigestPerPush
  <2>3. ASSUME NEW w \in Worker
        PROVE  EditsCaused(w)' /\ Advances(w)'
    <3>1. \A e : Caused(w, e) => Caused(w, e)'
      BY <2>1, CauseStays
    <3>2. QED
      BY <1>2, <2>1, <3>1 DEF EditsCaused, Advances
  <2>4. QED
    BY <1>1, <2>2, <2>3 DEF DailyPushIInv, DailyPushInv
<1>17. QED
  BY <1>3, <1>4, <1>5, <1>6, <1>7, <1>8, <1>9, <1>10, <1>11, <1>12, <1>13, <1>14, <1>15,
     <1>16 DEF Next

(* The subscribers, the pushes and the edits agree in every reachable state. *)
LEMMA PushesAgree == Spec => []DailyPushIInv
<1>1. Init => DailyPushIInv
  <2> SUFFICES ASSUME Init PROVE DailyPushIInv
    OBVIOUS
  <2>1. TypeOK
    BY DailyPushAssumption DEF Init, TypeOK
  <2>2. OkMeansEveryoneTried /\ OneDigestPerPush /\ IsInjective(subs)
    BY DEF Init, OkMeansEveryoneTried, OneDigestPerPush, IsInjective
  <2>3. \A w \in Worker : EditsCaused(w) /\ Advances(w)
    BY DEF Init, EditsCaused, Advances
  <2>4. QED
    BY <2>1, <2>2, <2>3 DEF DailyPushIInv, DailyPushInv
<1>2. DailyPushIInv /\ [Next]_vars => DailyPushIInv'
  BY InvariantStep
<1>3. QED
  BY <1>1, <1>2, PTL DEF Spec

----------------------------------------------------------------------------
(* DailyPush: what follows from it.                                          *)

(* However many workers run pushes while others subscribe, and whatever      *)
(* Telegram answers, a push that answers OK tried everyone who was           *)
(* subscribed when it began (cron.go).                                       *)
THEOREM PushesTryEveryone == Spec => []DailyPushInv
<1>1. DailyPushIInv => DailyPushInv
  BY DEF DailyPushIInv
<1>2. QED
  BY <1>1, PushesAgree, PTL

(* No push ever sends its digest to a topic twice: the loops that edit the   *)
(* list and the mutex around them keep its entries distinct (subscribers.go). *)
THEOREM DigestsAreNotRepeated == Spec => []OneDigestPerPush
<1>1. DailyPushIInv => OneDigestPerPush
  BY DEF DailyPushIInv
<1>2. QED
  BY <1>1, PushesAgree, PTL

(* Only a Put changes the list: to what its edit makes of it.                *)
LEMMA OnlyPutsChange ==
  ASSUME DailyPushIInv, [Next]_vars, subs' # subs
  PROVE  \E w \in Worker : \E e \in todo[w] :
           /\ e \in Edit /\ Caused(w, e) /\ subs' = Edited(subs, e)
           /\ e.op = "add" => <<e.chat, e.thread>> \in Sub
<1>1. PICK w \in Worker : Put(w)
  BY DEF Next, Command, StartPush, ListSubscribers, FetchMatches, Send, Expire, CollectDead,
         Lock, Get, Unlock, Return, Crash, vars
<1>2. TypeOK /\ EditsCaused(w)
  BY DEF DailyPushIInv, DailyPushInv
<1>3. pc[w] = "put" /\ subs' = Edited(copy[w], edit[w])
  BY <1>1 DEF Put
<1>4. edit[w] \in todo[w] /\ copy[w] = subs /\ Caused(w, edit[w]) /\ edit[w] \in Edit
  BY <1>2, <1>3 DEF EditsCaused, TypeOK
<1>5. edit[w].op = "add" => <<edit[w].chat, edit[w].thread>> \in Sub
  BY <1>2, <1>4, CausedAddsSub
<1>6. QED
  BY <1>3, <1>4, <1>5

(* Nobody loses a subscription over a failure of another topic or one that   *)
(* passes (cron.go, pruneDeadSubscribers): whatever a step removes           *)
(* unsubscribed, or was reported gone by a push.                             *)
THEOREM NobodyIsRemovedWithoutCause == Spec => RemovedForCause
<1> DEFINE Cause(s) == \E w \in Worker :
                         \/ req[w] = [cmd |-> "unsubscribe", sub |-> s]
                         \/ s \in Reported(w, "topicDead")
                         \/ \E dead \in Reported(w, "chatDead") : dead[1] = s[1]
<1>1. ASSUME DailyPushIInv, [Next]_vars, NEW s \in ToSet(subs) \ ToSet(subs')
      PROVE  Cause(s)
  <2>1. subs' # subs
    OBVIOUS
  <2>2. PICK w \in Worker : \E e \in todo[w] :
           /\ e \in Edit /\ Caused(w, e) /\ subs' = Edited(subs, e)
           /\ e.op = "add" => <<e.chat, e.thread>> \in Sub
    BY <1>1, <2>1, OnlyPutsChange
  <2>3. PICK e \in todo[w] :
           /\ e \in Edit /\ Caused(w, e) /\ subs' = Edited(subs, e)
           /\ e.op = "add" => <<e.chat, e.thread>> \in Sub
    BY <2>2
  <2>4. subs \in Seq(Sub)
    BY <1>1 DEF DailyPushIInv, DailyPushInv, TypeOK
  <2>5. ToSet(subs') = CASE e.op = "add"        -> ToSet(subs) \cup {<<e.chat, e.thread>>}
                         [] e.op = "remove"     -> ToSet(subs) \ {<<e.chat, e.thread>>}
                         [] e.op = "removeChat" -> {t \in ToSet(subs) : t[1] # e.chat}
    BY <2>3, <2>4, EditedType
  <2>6. e.op \in {"add", "remove", "removeChat"}
    BY <2>3 DEF Edit
  <2>7. CASE e.op = "add"
    BY <2>5, <2>7
  <2>8. CASE e.op = "remove"
    <3>1. s = <<e.chat, e.thread>>
      BY <2>5, <2>8
    <3>2. \/ req[w] = [cmd |-> "unsubscribe", sub |-> s]
          \/ s \in Reported(w, "topicDead")
      BY <2>3, <2>8, <3>1 DEF Caused
    <3>3. QED
      BY <3>2
  <2>9. CASE e.op = "removeChat"
    <3>1. s[1] = e.chat
      BY <2>5, <2>9
    <3>2. \E dead \in Reported(w, "chatDead") : dead[1] = s[1]
      BY <2>3, <2>9, <3>1 DEF Caused
    <3>3. QED
      BY <3>2
  <2>10. QED
    BY <2>6, <2>7, <2>8, <2>9
<1>2. DailyPushIInv /\ [Next]_vars => [\A s \in ToSet(subs) \ ToSet(subs') : Cause(s)]_vars
  BY <1>1
<1>3. QED
  BY <1>2, PushesAgree, PTL DEF Spec, RemovedForCause

(* The one stored list behaves as a set that changes by one request at a     *)
(* time: of two requests at the same moment neither undoes the other.        *)
THEOREM ListImplementsSubscriberSet == Spec => ImplementsSubscriberSet
<1>1. Init => S!Init
  BY DEF Init, S!Init, ToSet
<1>2. DailyPushIInv /\ [Next]_vars => [S!Next]_(ToSet(subs))
  <2> SUFFICES ASSUME DailyPushIInv, [Next]_vars, ToSet(subs') # ToSet(subs)
               PROVE  S!Next
    OBVIOUS
  <2>1. PICK w \in Worker : \E e \in todo[w] :
           /\ e \in Edit /\ Caused(w, e) /\ subs' = Edited(subs, e)
           /\ e.op = "add" => <<e.chat, e.thread>> \in Sub
    BY OnlyPutsChange
  <2>2. PICK e \in todo[w] :
           /\ e \in Edit /\ Caused(w, e) /\ subs' = Edited(subs, e)
           /\ e.op = "add" => <<e.chat, e.thread>> \in Sub
    BY <2>1
  <2>3. TypeOK
    BY DEF DailyPushIInv, DailyPushInv
  <2>4. ToSet(subs') = CASE e.op = "add"        -> ToSet(subs) \cup {<<e.chat, e.thread>>}
                         [] e.op = "remove"     -> ToSet(subs) \ {<<e.chat, e.thread>>}
                         [] e.op = "removeChat" -> {t \in ToSet(subs) : t[1] # e.chat}
    BY <2>2, <2>3, EditedType DEF TypeOK
  <2>5. CASE e.op = "add"
    BY <2>2, <2>4, <2>5 DEF S!Next, S!Subscribe
  <2>6. CASE e.op = "remove"
    <3>1. <<e.chat, e.thread>> \in ToSet(subs)
      BY <2>4, <2>6
    <3>2. <<e.chat, e.thread>> \in Sub
      <4>1. subs \in Seq(Sub)
        BY <2>3 DEF TypeOK
      <4>2. \A i \in DOMAIN subs : subs[i] \in Sub
        BY <4>1
      <4>3. QED
        BY <3>1, <4>2 DEF ToSet
    <3>3. QED
      BY <2>4, <2>6, <3>2 DEF S!Next, S!Unsubscribe
  <2>7. CASE e.op = "removeChat"
    BY <2>2, <2>4, <2>7 DEF S!Next, S!DropChat, Edit
  <2>8. QED
    BY <2>2, <2>5, <2>6, <2>7 DEF Edit
<1>3. QED
  BY <1>1, <1>2, PushesAgree, PTL DEF Spec, ImplementsSubscriberSet, S!Spec

----------------------------------------------------------------------------
(* Schedule: the pages and what is read off them.                            *)

(* The pages a .. b are a page and the pages around it.                      *)
LEMMA ListedGrows ==
  ASSUME NEW a \in 1 .. Len(Page), NEW b \in a .. Len(Page)
  PROVE  /\ Listed(a, b) \in Seq(Event)
         /\ Listed(a, a) = Page[a]
         /\ a > 1 => Listed(a - 1, b) = Page[a - 1] \o Listed(a, b)
         /\ b < Len(Page) => Listed(a, b + 1) = Listed(a, b) \o Page[b + 1]
         /\ ToSet(Listed(a, b)) = UNION {ToSet(Page[p]) : p \in a .. b}
<1> DEFINE n == Len(Page)
           sub == SubSeq(Page, a, b)
<1>1. /\ Page \in Seq(Seq(Event)) /\ n \in Nat
      /\ \A p \in 1 .. n : Page[p] \in Seq(Event)
      /\ a \in 1 .. n /\ b \in a .. n /\ b \in 1 .. n
  BY ScheduleAssumption
<1>2. /\ sub \in Seq(Seq(Event)) /\ sub # <<>> /\ Len(sub) = b - a + 1
      /\ \A i \in 1 .. b - a + 1 : sub[i] = Page[a + i - 1]
  <2>1. Len(sub) = b - a + 1 /\ b - a + 1 \in Nat \ {0}
    BY <1>1
  <2>2. \A i \in 1 .. b - a + 1 : sub[i] = Page[a + i - 1]
    BY <1>1
  <2>3. sub \in Seq(Seq(Event))
    BY <1>1
  <2> HIDE DEF sub
  <2>4. QED
    BY <2>1, <2>2, <2>3
<1>3. a > 1 => SubSeq(Page, a - 1, b) = <<Page[a - 1]>> \o sub
  BY <1>1
<1>4. b < n => SubSeq(Page, a, b + 1) = Append(sub, Page[b + 1])
  BY <1>1
<1>5. SubSeq(Page, a, a) = <<Page[a]>>
  <2>1. /\ SubSeq(Page, a, a) \in Seq(Seq(Event))
        /\ Len(SubSeq(Page, a, a)) = 1 /\ SubSeq(Page, a, a)[1] = Page[a]
    BY <1>1
  <2>2. ASSUME NEW s \in Seq(Seq(Event)), Len(s) = 1 PROVE s = <<s[1]>>
    BY <2>2
  <2>3. QED
    BY <2>1, <2>2
<1>6. ASSUME NEW p \in a .. b
      PROVE  p - a + 1 \in 1 .. b - a + 1 /\ sub[p - a + 1] = Page[p]
  <2>1. p - a + 1 \in 1 .. b - a + 1 /\ a + (p - a + 1) - 1 = p
    BY <1>1
  <2> HIDE DEF sub
  <2>2. sub[p - a + 1] = Page[a + (p - a + 1) - 1]
    BY <1>2, <2>1
  <2>3. QED
    BY <2>1, <2>2
<1>7. \A i \in 1 .. b - a + 1 : a + i - 1 \in a .. b
  BY <1>1
<1> HIDE DEF sub, n
<1>8. ToSet(FlattenSeq(sub)) = UNION {ToSet(sub[i]) : i \in 1 .. b - a + 1}
  <2>1. ToSet(FlattenSeq(sub)) = UNION {ToSet(sub[i]) : i \in 1 .. Len(sub)}
    BY <1>2, FlattenElements
  <2>2. QED
    BY <1>2, <2>1
<1>9. UNION {ToSet(sub[i]) : i \in 1 .. b - a + 1} = UNION {ToSet(Page[p]) : p \in a .. b}
  BY <1>2, <1>6, <1>7
<1>10. Listed(a, b) = FlattenSeq(sub)
  BY DEF Listed, sub
<1>11. FlattenSeq(sub) \in Seq(Event)
  BY <1>1, <1>2, FlattenAppend
<1>12. Listed(a, a) = Page[a]
  <2>1. FlattenSeq(<<Page[a]>>) = Page[a]
    BY <1>1, FlattenOne
  <2>2. QED
    BY <1>5, <2>1 DEF Listed
<1>13. ASSUME a > 1
       PROVE  Listed(a - 1, b) = Page[a - 1] \o Listed(a, b)
  <2>1. Page[a - 1] \in Seq(Event)
    BY <1>1, <1>13
  <2>2. FlattenSeq(<<Page[a - 1]>> \o sub) = Page[a - 1] \o FlattenSeq(sub)
    BY <1>2, <2>1, FlattenPrepend
  <2>3. QED
    BY <1>3, <1>10, <1>13, <2>2 DEF Listed
<1>14. ASSUME b < n
       PROVE  Listed(a, b + 1) = Listed(a, b) \o Page[b + 1]
  <2>1. Page[b + 1] \in Seq(Event)
    BY <1>1, <1>14
  <2>2. FlattenSeq(Append(sub, Page[b + 1])) = FlattenSeq(sub) \o Page[b + 1]
    BY <1>2, <2>1, FlattenAppend
  <2>3. QED
    BY <1>4, <1>10, <1>14, <2>2 DEF Listed
<1>15. QED
  BY <1>8, <1>9, <1>10, <1>11, <1>12, <1>13, <1>14 DEF n

(* What a walk collects, and where it may go on.                             *)
Walked(k, a, b) ==
  /\ b - a + 1 = k.pages /\ k.events = Listed(a, b)
  /\ k.older = Older(a) /\ k.newer = Newer(b)

Adjacent(k) == \E a \in 1 .. Len(Page) : \E b \in a .. Len(Page) : Walked(k, a, b)

WalkedBack(k, r) == k.older = 0 \/ ReachesBack(k, r)
WalkedOn(k, r) == k.newer = 0 \/ ReachesAhead(k, r)

Walk == [events : Seq(Event), older : 0 .. Len(Page), newer : 0 .. Len(Page),
         pages : 0 .. MaxPages, asOf : 0 .. MaxTime]

(* The walk on leaves the first event with a time where it is.               *)
LEMMA ReachesBackStays ==
  ASSUME NEW k, NEW r, k.events \in Seq(Event), NEW more \in Seq(Event), NEW k1,
         k1.events = k.events \o more, ReachesBack(k, r)
  PROVE  ReachesBack(k1, r)
<1> DEFINE l == k.events
           m == k1.events
<1>1. /\ Len(l) \in Nat /\ Len(m) \in Nat /\ Len(l) <= Len(m)
      /\ DOMAIN l = 1 .. Len(l) /\ DOMAIN m = 1 .. Len(m)
      /\ \A i \in 1 .. Len(l) : m[i] = l[i]
  OBVIOUS
<1>2. PICK e \in Event : Earliest(l, e) /\ Start[e] <= r.from
  BY DEF ReachesBack
<1> HIDE DEF l, m
<1>3. PICK i \in DOMAIN l :
        l[i] = e /\ e \in Timed /\ \A j \in 1 .. i - 1 : l[j] \notin Timed
  BY <1>2 DEF Earliest
<1>4. i \in DOMAIN m /\ m[i] = e
  BY <1>1, <1>3
<1>5. \A j \in 1 .. i - 1 : j \in 1 .. Len(l)
  BY <1>1, <1>3
<1>6. \A j \in 1 .. i - 1 : m[j] \notin Timed
  BY <1>1, <1>3, <1>5
<1>7. Earliest(m, e)
  BY <1>3, <1>4, <1>6 DEF Earliest
<1>8. QED
  BY <1>2, <1>7 DEF ReachesBack, m

(* A walk that stopped on both sides has all events of the range, those at   *)
(* its very beginning aside.                                                 *)
LEMMA WalkIsComplete ==
  ASSUME NEW k, NEW a \in 1 .. Len(Page), NEW b \in a .. Len(Page), Walked(k, a, b),
         NEW r \in Window, WalkedBack(k, r), WalkedOn(k, r),
         NEW e \in InRange(r), Start[e] # r.from
  PROVE  e \in ToSet(k.events)
<1>1. /\ e \in Event /\ e \in Timed /\ Start[e] \in Nat /\ r.from \in Nat /\ r.to \in Nat
      /\ r.from <= Start[e] /\ Start[e] < r.to
  <2>1. e \in Timed /\ r.from <= Start[e] /\ Start[e] < r.to
    BY DEF InRange
  <2>2. Start[e] \in Nat
    BY <2>1, ScheduleAssumption DEF Timed
  <2>3. r.from \in Nat /\ r.to \in Nat
    BY ScheduleAssumption
  <2>4. QED
    BY <2>1, <2>2, <2>3 DEF Timed
<1>2. PICK p \in DOMAIN Page : e \in ToSet(Page[p])
  BY <1>1, ScheduleAssumption
<1>3. Len(Page) \in Nat /\ DOMAIN Page = 1 .. Len(Page)
  BY ScheduleAssumption
<1>4. ToSet(k.events) = UNION {ToSet(Page[q]) : q \in a .. b}
  BY ListedGrows DEF Walked
<1>5. ASSUME NEW f \in Event, f \in Timed, f \in ToSet(k.events)
      PROVE  /\ Start[f] \in Nat
             /\ p < a => Start[e] <= Start[f]
             /\ p > b => Start[f] <= Start[e]
  <2>1. PICK q \in a .. b : f \in ToSet(Page[q])
    BY <1>4, <1>5
  <2>2. q \in DOMAIN Page /\ (p < a => p < q) /\ (p > b => q < p)
    BY <1>3, <2>1
  <2>3. Start[f] \in Nat /\ Start[f] # Unparsed /\ Start[e] # Unparsed
    BY <1>1, <1>5, ScheduleAssumption DEF Timed
  <2>4. QED
    BY <1>2, <2>1, <2>2, <2>3, ScheduleAssumption DEF PagesAscend
<1>6. CASE p < a
  <2>1. k.older # 0
    BY <1>3, <1>6 DEF Walked, Older
  <2>2. PICK f \in Event : Earliest(k.events, f) /\ Start[f] <= r.from
    BY <2>1 DEF WalkedBack, ReachesBack
  <2>3. f \in Timed /\ f \in ToSet(k.events)
    BY <2>2 DEF Earliest, ToSet
  <2>4. Start[f] \in Nat /\ Start[e] <= Start[f]
    BY <1>5, <1>6, <2>3
  <2>5. QED
    BY <1>1, <2>2, <2>4
<1>7. CASE p > b
  <2>1. k.newer # 0
    BY <1>3, <1>7 DEF Walked, Newer
  <2>2. PICK f \in Event : Latest(k.events, f) /\ Start[f] >= r.to
    BY <2>1 DEF WalkedOn, ReachesAhead
  <2>3. f \in Timed /\ f \in ToSet(k.events)
    BY <2>2 DEF Latest, ToSet
  <2>4. Start[f] \in Nat /\ Start[f] <= Start[e]
    BY <1>5, <1>7, <2>3
  <2>5. QED
    BY <1>1, <2>2, <2>4
<1>8. CASE p \in a .. b
  BY <1>2, <1>4, <1>8
<1>9. QED
  BY <1>3, <1>6, <1>7, <1>8

(* What the walk has of the range follows the schedule.                      *)
LEMMA WalkFollowed ==
  ASSUME NEW k \in Walk, Adjacent(k), NEW r \in Window, NEW rec,
         rec.events = Keeping(k.events, InRange(r)), rec.pages = k.pages,
         k.pages = MaxPages \/ (WalkedBack(k, r) /\ WalkedOn(k, r))
  PROVE  rec.events \in Seq(Event) /\ Follows(rec, r)
<1>1. PICK a \in 1 .. Len(Page) : \E b \in a .. Len(Page) : Walked(k, a, b)
  BY DEF Adjacent
<1>2. PICK b \in a .. Len(Page) : Walked(k, a, b)
  BY <1>1
<1>3. k.events \in Seq(Event)
  BY DEF Walk
<1>4. /\ rec.events \in Seq(Event)
      /\ ToSet(rec.events) = ToSet(k.events) \cap InRange(r)
  BY <1>3, KeepingKeeps
<1>5. Selects(rec.events, Listed(a, b), InRange(r))
  BY <1>2, <1>3, KeepingSelects DEF Walked
<1>6. ASSUME k.pages # MaxPages, NEW e \in InRange(r), Start[e] # r.from
      PROVE  e \in ToSet(rec.events)
  BY <1>2, <1>4, <1>6, WalkIsComplete
<1>7. b - a + 1 = rec.pages
  BY <1>2 DEF Walked
<1>8. QED
  BY <1>4, <1>5, <1>6, <1>7 DEF Follows

----------------------------------------------------------------------------
(* Schedule: the invariant.                                                  *)

(* A record follows the schedule, and is no older than its stamp says.       *)
Sound(rec, r) == rec # None => Follows(rec, r) /\ rec.ts <= rec.asOf

(* A walk's pages are adjacent, and it goes on where its next call says.     *)
WalkFollows(w) ==
  LET k == walk[w]
      r == range[w]
  IN  pc[w] \in {"older", "newer", "put"} =>
        /\ Adjacent(k) /\ began[w] <= k.asOf
        /\ pc[w] = "older" => k.older # 0
        /\ pc[w] = "newer" => k.newer # 0 /\ WalkedBack(k, r)
        /\ pc[w] = "put" => k.pages = MaxPages \/ (WalkedBack(k, r) /\ WalkedOn(k, r))

Answers(a, r, start) ==
  a # None => /\ Follows(a, r)
              /\ start < a.asOf + (IF a.stale THEN StaleMaxAge ELSE CacheTTL)

LookupFollows(w) ==
  /\ range[w] = None <=> pc[w] = "idle"
  /\ began[w] <= now
  /\ cached[w] # None => pc[w] \notin {"idle", "return"}
  /\ Sound(cached[w], range[w])
  /\ answer[w] # None => pc[w] = "return"
  /\ Answers(answer[w], range[w], began[w])
  /\ WalkFollows(w)

(* What makes it inductive.                                                  *)
ScheduleIInv ==
  /\ ScheduleTypeOK
  /\ \A r \in Window : Sound(cache[r], r)
  /\ \A w \in Worker : LookupFollows(w)

(* A walk with one page more is a walk.                                      *)
LEMMA WalkGrows ==
  ASSUME NEW k \in Walk, NEW events \in Seq(Event), NEW p \in 0 .. Len(Page),
         k.pages < MaxPages
  PROVE  /\ [k EXCEPT !.events = events, !.older = p, !.pages = @ + 1] \in Walk
         /\ [k EXCEPT !.events = events, !.newer = p, !.pages = @ + 1] \in Walk
<1>1. k.pages + 1 \in 0 .. MaxPages
  BY ScheduleAssumption DEF Walk
<1>2. QED
  BY <1>1 DEF Walk

(* A step of one worker leaves the others' lookups alone.                    *)
LEMMA OthersFollow ==
  ASSUME ScheduleIInv, ScheduleTypeOK', NEW w \in Worker, now' = now,
         \A r \in Window : Sound(cache[r], r)',
         \A v \in Worker \ {w} :
           /\ pc'[v] = pc[v] /\ range'[v] = range[v] /\ began'[v] = began[v]
           /\ cached'[v] = cached[v] /\ walk'[v] = walk[v] /\ answer'[v] = answer[v],
         LookupFollows(w)'
  PROVE  ScheduleIInv'
<1>1. ASSUME NEW v \in Worker \ {w} PROVE LookupFollows(v)'
  <2>1. LookupFollows(v)
    BY DEF ScheduleIInv
  <2>2. /\ pc'[v] = pc[v] /\ range'[v] = range[v] /\ began'[v] = began[v]
        /\ cached'[v] = cached[v] /\ walk'[v] = walk[v] /\ answer'[v] = answer[v]
    OBVIOUS
  <2>3. WalkFollows(v)'
    BY <2>1, <2>2 DEF LookupFollows, WalkFollows
  <2>4. QED
    BY <2>1, <2>2, <2>3 DEF LookupFollows
<1>2. QED
  BY <1>1 DEF ScheduleIInv

(* A page fetched leaves a walk that goes on, or ends, where it may.         *)
LEMMA FetchedStep ==
  ASSUME ScheduleIInv, NEW w \in Worker, pc[w] \in {"first", "older", "newer"},
         NEW k \in Walk, Adjacent(k), began[w] <= k.asOf,
         pc[w] = "newer" => WalkedBack(k, range[w]),
         Fetched(w, k), UNCHANGED <<cache, now, range, began>>
  PROVE  ScheduleIInv'
<1>1. ScheduleTypeOK /\ LookupFollows(w) /\ MaxPages \in Nat /\ k.pages \in 0 .. MaxPages
  BY ScheduleAssumption DEF ScheduleIInv, Walk
<1> DEFINE label == NextPage(w, k)
           r == range[w]
<1>2. /\ label \in {"older", "newer", "put"}
      /\ label \in {"older", "newer"} => k.pages < MaxPages
      /\ label = "older" => k.older # 0
      /\ label = "newer" => k.newer # 0 /\ WalkedBack(k, r)
      /\ label = "put" => k.pages = MaxPages \/ (WalkedBack(k, r) /\ WalkedOn(k, r))
  BY <1>1 DEF NextPage, WalksBack, WalksOn, MayFetch, UnderBudget, WalkedBack, WalkedOn
<1> HIDE DEF label
<1>3. /\ pc' = [pc EXCEPT ![w] = label] /\ walk' = [walk EXCEPT ![w] = k]
      /\ UNCHANGED <<cached, answer>>
  BY DEF Fetched, Goto, label
<1>4. /\ pc' \in [Worker -> {"idle", "get", "first", "older", "newer", "put", "return"}]
      /\ walk' \in [Worker -> Walk]
      /\ \A v \in Worker : pc'[v] = IF v = w THEN label ELSE pc[v]
      /\ \A v \in Worker : walk'[v] = IF v = w THEN k ELSE walk[v]
  BY <1>1, <1>2, <1>3 DEF ScheduleTypeOK, Walk
<1>5. ScheduleTypeOK'
  <2>1. \A v \in Worker : pc'[v] \in {"older", "newer"} => walk'[v].pages < MaxPages
    BY <1>1, <1>2, <1>4 DEF ScheduleTypeOK
  <2>2. QED
    BY <1>1, <1>3, <1>4, <2>1 DEF ScheduleTypeOK, Walk
<1>6. LookupFollows(w)'
  <2>1. WalkFollows(w)'
    BY <1>2, <1>4 DEF WalkFollows
  <2>2. answer[w] = None
    BY <1>1 DEF LookupFollows
  <2>3. /\ pc'[w] = label /\ label \notin {"idle", "return"} /\ pc[w] # "idle"
        /\ range'[w] = range[w] /\ began'[w] = began[w] /\ cached'[w] = cached[w]
        /\ answer'[w] = None /\ now' = now
    BY <1>2, <1>3, <1>4, <2>2
  <2>4. QED
    BY <1>1, <2>1, <2>3 DEF LookupFollows, Answers
<1>7. \A q \in Window : Sound(cache[q], q)'
  BY DEF ScheduleIInv
<1>8. QED
  BY <1>3, <1>4, <1>5, <1>6, <1>7, OthersFollow

(* A lookup that returns.                                                    *)
LEMMA ReturnsStep ==
  ASSUME ScheduleIInv, NEW w \in Worker, pc[w] # "idle",
         NEW a \in Answer \cup {None}, Answers(a, range[w], began[w]),
         cache' \in [Window -> Record \cup {None}],
         \A r \in Window : Sound(cache[r], r)',
         Returns(w, a), UNCHANGED <<now, range, began>>
  PROVE  ScheduleIInv'
<1>1. ScheduleTypeOK /\ LookupFollows(w)
  BY DEF ScheduleIInv
<1>2. /\ pc' = [pc EXCEPT ![w] = "return"] /\ walk' = [walk EXCEPT ![w] = NoWalk]
      /\ cached' = [cached EXCEPT ![w] = None] /\ answer' = [answer EXCEPT ![w] = a]
  BY DEF Returns, Goto
<1>3. NoWalk \in Walk
  BY ScheduleAssumption DEF NoWalk, Walk
<1>4. /\ pc' \in [Worker -> {"idle", "get", "first", "older", "newer", "put", "return"}]
      /\ walk' \in [Worker -> Walk]
      /\ cached' \in [Worker -> Record \cup {None}]
      /\ answer' \in [Worker -> Answer \cup {None}]
      /\ \A v \in Worker \ {w} : /\ pc'[v] = pc[v] /\ walk'[v] = walk[v]
                                 /\ cached'[v] = cached[v] /\ answer'[v] = answer[v]
      /\ pc'[w] = "return" /\ cached'[w] = None /\ answer'[w] = a
  BY <1>1, <1>2, <1>3 DEF ScheduleTypeOK, Walk
<1>5. ScheduleTypeOK'
  <2>1. \A v \in Worker : pc'[v] \in {"older", "newer"} => walk'[v].pages < MaxPages
    BY <1>1, <1>4 DEF ScheduleTypeOK
  <2>2. QED
    BY <1>1, <1>4, <2>1 DEF ScheduleTypeOK, Walk
<1>6. LookupFollows(w)'
  <2>1. WalkFollows(w)'
    BY <1>4 DEF WalkFollows
  <2>2. Sound(cached'[w], range'[w])
    BY <1>4 DEF Sound
  <2>3. QED
    BY <1>1, <1>4, <2>1, <2>2 DEF LookupFollows
<1>7. QED
  BY <1>4, <1>5, <1>6, OthersFollow

(* The fetch failed: what was looked up before answers, or nothing.          *)
LEMMA FetchFailsStep ==
  ASSUME ScheduleIInv, NEW w \in Worker, pc[w] # "idle",
         FetchFails(w), UNCHANGED <<cache, now, range, began>>
  PROVE  ScheduleIInv'
<1>1. ScheduleTypeOK /\ LookupFollows(w)
  BY DEF ScheduleIInv
<1> DEFINE a == IF cached[w] # None /\ began[w] < cached[w].ts + StaleMaxAge
                THEN AnswerOf(cached[w], TRUE) ELSE None
<1>2. a \in Answer \cup {None} /\ Answers(a, range[w], began[w])
  <2>1. CASE cached[w] # None /\ began[w] < cached[w].ts + StaleMaxAge
    <3>1. /\ cached[w] \in Record /\ began[w] \in Nat /\ StaleMaxAge \in Nat
          /\ cached[w].ts \in Nat /\ cached[w].asOf \in Nat
      <4>1. cached[w] \in Record /\ began[w] \in Nat
        BY <1>1, <2>1 DEF ScheduleTypeOK
      <4>2. QED
        BY <4>1, ScheduleAssumption DEF Record
    <3>2. Follows(cached[w], range[w]) /\ cached[w].ts <= cached[w].asOf
      BY <1>1, <2>1 DEF LookupFollows, Sound
    <3>3. a = AnswerOf(cached[w], TRUE)
      BY <2>1
    <3>4. a \in Answer
      <4>1. cached[w].events \in Seq(Event) /\ cached[w].pages \in Nat
        BY <3>1 DEF Record
      <4> HIDE DEF a
      <4>2. QED
        BY <3>1, <3>3, <4>1 DEF AnswerOf, Answer
    <3>5. Follows(a, range[w])
      BY <3>2, <3>3 DEF Follows, AnswerOf
    <3>6. began[w] < a.asOf + StaleMaxAge /\ a.stale
      BY <2>1, <3>1, <3>2, <3>3 DEF AnswerOf
    <3>7. QED
      BY <3>4, <3>5, <3>6 DEF Answers
  <2>2. CASE ~ (cached[w] # None /\ began[w] < cached[w].ts + StaleMaxAge)
    BY <2>2 DEF Answers
  <2>3. QED
    BY <2>1, <2>2
<1>3. Returns(w, a)
  BY DEF FetchFails
<1> HIDE DEF a
<1>4. cache' \in [Window -> Record \cup {None}] /\ \A r \in Window : Sound(cache[r], r)'
  BY <1>1 DEF ScheduleIInv, ScheduleTypeOK
<1>5. QED
  BY <1>2, <1>3, <1>4, ReturnsStep

LEMMA ScheduleStep == ScheduleIInv /\ [ScheduleNext]_scheduleVars => ScheduleIInv'
<1> SUFFICES ASSUME ScheduleIInv, [ScheduleNext]_scheduleVars PROVE ScheduleIInv'
  OBVIOUS
<1> USE DEF Goto
<1>1. /\ ScheduleTypeOK /\ \A w \in Worker : LookupFollows(w)
      /\ \A r \in Window : Sound(cache[r], r)
      /\ None \notin Window
  BY ScheduleAssumption DEF ScheduleIInv
<1>2. Len(Page) \in Nat /\ MaxPages \in Nat \ {0} /\ MaxTime \in Nat
      /\ \A p \in 1 .. Len(Page) : Page[p] \in Seq(Event)
  BY ScheduleAssumption
<1>3. ASSUME NEW w \in Worker, NEW r \in Window, Lookup(w, r)
      PROVE  ScheduleIInv'
  <2>1. ScheduleTypeOK'
    BY <1>1, <1>3 DEF Lookup, ScheduleTypeOK
  <2>2. LookupFollows(w)'
    <3>1. LookupFollows(w) /\ pc[w] = "idle"
      BY <1>1, <1>3 DEF Lookup
    <3>2. /\ pc'[w] = "get" /\ range'[w] = r /\ began'[w] = now /\ now' = now
          /\ cached'[w] = None /\ answer'[w] = None /\ now \in Nat
      BY <1>1, <1>3, <3>1 DEF Lookup, LookupFollows, ScheduleTypeOK
    <3>3. QED
      BY <1>1, <3>2 DEF LookupFollows, Sound, Answers, WalkFollows
  <2>3. now' = now /\ \A q \in Window : Sound(cache[q], q)'
    BY <1>1, <1>3 DEF Lookup
  <2>4. \A v \in Worker \ {w} :
          /\ pc'[v] = pc[v] /\ range'[v] = range[v] /\ began'[v] = began[v]
          /\ cached'[v] = cached[v] /\ walk'[v] = walk[v] /\ answer'[v] = answer[v]
    BY <1>1, <1>3 DEF Lookup, ScheduleTypeOK
  <2>5. QED
    BY <2>1, <2>2, <2>3, <2>4, OthersFollow
<1>4. ASSUME NEW w \in Worker, GetCached(w)
      PROVE  ScheduleIInv'
  <2> DEFINE rec == cache[range[w]]
  <2>1. /\ LookupFollows(w) /\ pc[w] = "get" /\ range[w] \in Window
        /\ rec \in Record \cup {None} /\ Sound(rec, range[w])
        /\ began[w] \in Nat /\ CacheTTL \in Nat
        /\ UNCHANGED <<cache, now, range, began>>
    BY <1>1, <1>4, ScheduleAssumption DEF GetCached, ScheduleTypeOK, LookupFollows
  <2>2. CASE rec # None /\ began[w] < rec.ts + CacheTTL /\ Returns(w, AnswerOf(rec, FALSE))
    <3> DEFINE a == AnswerOf(rec, FALSE)
    <3>1. /\ rec \in Record /\ rec.ts \in Nat /\ rec.asOf \in Nat
          /\ Follows(rec, range[w]) /\ rec.ts <= rec.asOf
      BY <2>1, <2>2 DEF Record, Sound
    <3>2. a \in Answer /\ a.asOf = rec.asOf /\ ~a.stale
      BY <3>1 DEF AnswerOf, Answer, Record
    <3>3. Follows(a, range[w])
      BY <3>1 DEF Follows, AnswerOf
    <3>4. Answers(a, range[w], began[w])
      <4> HIDE DEF a, rec
      <4>1. began[w] < a.asOf + CacheTTL
        BY <2>1, <2>2, <3>1, <3>2
      <4>2. QED
        BY <3>2, <3>3, <4>1 DEF Answers
    <3>5. cache' \in [Window -> Record \cup {None}] /\ \A r \in Window : Sound(cache[r], r)'
      BY <1>1, <2>1 DEF ScheduleTypeOK
    <3>6. a \in Answer \cup {None} /\ pc[w] # "idle" /\ UNCHANGED <<now, range, began>>
      BY <2>1, <3>2
    <3>7. Returns(w, a)
      BY <2>2
    <3> HIDE DEF a
    <3>8. QED
      BY <3>4, <3>5, <3>6, <3>7, ReturnsStep
  <2>3. CASE /\ cached' = [cached EXCEPT ![w] = rec] \/ UNCHANGED cached
             /\ Goto(w, "first") /\ UNCHANGED <<walk, answer>>
    <3>1. /\ \A v \in Worker \ {w} :
               /\ pc'[v] = pc[v] /\ range'[v] = range[v] /\ began'[v] = began[v]
               /\ cached'[v] = cached[v] /\ walk'[v] = walk[v] /\ answer'[v] = answer[v]
          /\ pc'[w] = "first" /\ cached'[w] \in {rec, cached[w]}
      BY <1>1, <2>1, <2>3 DEF ScheduleTypeOK
    <3>2. ScheduleTypeOK'
      BY <1>1, <2>1, <2>3 DEF ScheduleTypeOK
    <3>3. Sound(cached'[w], range[w])
      BY <2>1, <3>1 DEF LookupFollows
    <3>4. LookupFollows(w)'
      BY <2>1, <2>3, <3>1, <3>3 DEF LookupFollows, WalkFollows
    <3>5. now' = now /\ \A q \in Window : Sound(cache[q], q)'
      BY <1>1, <2>1
    <3>6. QED
      BY <3>1, <3>2, <3>4, <3>5, OthersFollow
  <2>4. QED
    BY <1>4, <2>2, <2>3 DEF GetCached
<1>5. ASSUME NEW w \in Worker, FetchFirst(w)
      PROVE  ScheduleIInv'
  <2>1. LookupFollows(w) /\ pc[w] = "first" /\ UNCHANGED <<cache, now, range, began>>
    BY <1>1, <1>5 DEF FetchFirst
  <2>2. ASSUME NEW p \in Home, NEW k,
               k = [events |-> Page[p], older |-> Older(p), newer |-> Newer(p),
                    pages |-> 1, asOf |-> now],
               Fetched(w, k)
        PROVE  ScheduleIInv'
    <3>1. p \in 1 .. Len(Page) /\ p \in p .. Len(Page) /\ Page[p] \in Seq(Event)
      BY <1>2, ScheduleAssumption
    <3>2. k \in Walk
      BY <1>1, <1>2, <2>2, <3>1 DEF Walk, Older, Newer, ScheduleTypeOK
    <3>3. Listed(p, p) = Page[p]
      BY <3>1, ListedGrows
    <3>4. Walked(k, p, p)
      BY <2>2, <3>1, <3>3 DEF Walked
    <3>5. Adjacent(k)
      BY <3>1, <3>4 DEF Adjacent
    <3>6. began[w] <= k.asOf
      BY <2>1, <2>2 DEF LookupFollows
    <3>7. QED
      BY <2>1, <2>2, <3>2, <3>5, <3>6, FetchedStep
  <2>3. QED
    BY <1>5, <2>1, <2>2, FetchFailsStep DEF FetchFirst
<1>6. ASSUME NEW w \in Worker, FetchOlder(w)
      PROVE  ScheduleIInv'
  <2> DEFINE k == walk[w]
             k1 == [k EXCEPT !.events = WithOlder(k, k.older),
                             !.older = Older(k.older), !.pages = @ + 1]
  <2>1. /\ LookupFollows(w) /\ pc[w] = "older" /\ UNCHANGED <<cache, now, range, began>>
        /\ k \in Walk /\ k.pages < MaxPages
    BY <1>1, <1>6 DEF FetchOlder, ScheduleTypeOK, Walk
  <2>2. WalkFollows(w)
    BY <2>1 DEF LookupFollows
  <2>3. Adjacent(k) /\ began[w] <= k.asOf /\ k.older # 0
    BY <2>1, <2>2 DEF WalkFollows
  <2>4. CASE Fetched(w, k1)
    <3>1. PICK a \in 1 .. Len(Page) : \E b \in a .. Len(Page) : Walked(k, a, b)
      BY <2>3 DEF Adjacent
    <3>2. PICK b \in a .. Len(Page) : Walked(k, a, b)
      BY <3>1
    <3>3. /\ k.older = a - 1 /\ a > 1 /\ a - 1 \in 1 .. Len(Page) /\ b \in (a - 1) .. Len(Page)
          /\ Page[a - 1] \in Seq(Event)
      BY <1>2, <2>3, <3>2 DEF Walked, Older
    <3>4. /\ k.events \in Seq(Event) /\ k.pages \in Nat /\ k.newer \in 0 .. Len(Page)
          /\ k.asOf \in 0 .. MaxTime /\ DOMAIN k = {"events", "older", "newer", "pages", "asOf"}
      BY <2>1 DEF Walk
    <3>5. /\ k1.events = Page[a - 1] \o k.events /\ k1.older = Older(a - 1)
          /\ k1.newer = k.newer /\ k1.pages = k.pages + 1 /\ k1.asOf = k.asOf
      BY <2>1, <3>3 DEF WithOlder, Prepended, Walk
    <3>6. Page[a - 1] \o k.events \in Seq(Event)
      BY <3>3, <3>4
    <3>7. k1 \in Walk
      <4>1. Older(a - 1) \in 0 .. Len(Page)
        BY <1>2, <3>3 DEF Older
      <4>2. k1 = [k EXCEPT !.events = Page[a - 1] \o k.events, !.older = Older(a - 1),
                           !.pages = @ + 1]
        BY <3>3 DEF WithOlder, Prepended
      <4> HIDE DEF k1
      <4>3. QED
        BY <2>1, <3>6, <4>1, <4>2, WalkGrows
    <3>8. Listed(a - 1, b) = Page[a - 1] \o Listed(a, b)
      BY <3>2, <3>3, ListedGrows
    <3> HIDE DEF k1
    <3>9. Walked(k1, a - 1, b)
      BY <3>2, <3>3, <3>4, <3>5, <3>8 DEF Walked
    <3>10. Adjacent(k1)
      BY <3>3, <3>9 DEF Adjacent
    <3>11. QED
      BY <2>1, <2>3, <2>4, <3>5, <3>7, <3>10, FetchedStep
  <2>5. QED
    BY <1>6, <2>1, <2>4, FetchFailsStep DEF FetchOlder
<1>7. ASSUME NEW w \in Worker, FetchNewer(w)
      PROVE  ScheduleIInv'
  <2> DEFINE k == walk[w]
             k1 == [k EXCEPT !.events = @ \o Page[k.newer],
                             !.newer = Newer(k.newer), !.pages = @ + 1]
  <2>1. /\ LookupFollows(w) /\ pc[w] = "newer" /\ UNCHANGED <<cache, now, range, began>>
        /\ k \in Walk /\ k.pages < MaxPages
    BY <1>1, <1>7 DEF FetchNewer, ScheduleTypeOK, Walk
  <2>2. WalkFollows(w)
    BY <2>1 DEF LookupFollows
  <2>3. Adjacent(k) /\ began[w] <= k.asOf /\ k.newer # 0 /\ WalkedBack(k, range[w])
    BY <2>1, <2>2 DEF WalkFollows
  <2>4. CASE Fetched(w, k1)
    <3>1. PICK a \in 1 .. Len(Page) : \E b \in a .. Len(Page) : Walked(k, a, b)
      BY <2>3 DEF Adjacent
    <3>2. PICK b \in a .. Len(Page) : Walked(k, a, b)
      BY <3>1
    <3>3. /\ k.newer = b + 1 /\ b < Len(Page) /\ b + 1 \in a .. Len(Page)
          /\ Page[b + 1] \in Seq(Event)
      BY <1>2, <2>3, <3>2 DEF Walked, Newer
    <3>4. /\ k.events \in Seq(Event) /\ k.pages \in Nat /\ k.older \in 0 .. Len(Page)
          /\ k.asOf \in 0 .. MaxTime
      BY <2>1 DEF Walk
    <3>5. /\ k1.events = k.events \o Page[b + 1] /\ k1.newer = Newer(b + 1)
          /\ k1.older = k.older /\ k1.pages = k.pages + 1 /\ k1.asOf = k.asOf
      BY <2>1, <3>3 DEF Walk
    <3>6. k.events \o Page[b + 1] \in Seq(Event)
      BY <3>3, <3>4
    <3>7. k1 \in Walk
      <4>1. Newer(b + 1) \in 0 .. Len(Page)
        BY <1>2, <3>3 DEF Newer
      <4>2. k1 = [k EXCEPT !.events = k.events \o Page[b + 1], !.newer = Newer(b + 1),
                           !.pages = @ + 1]
        BY <3>3
      <4> HIDE DEF k1
      <4>3. QED
        BY <2>1, <3>6, <4>1, <4>2, WalkGrows
    <3>8. Listed(a, b + 1) = Listed(a, b) \o Page[b + 1]
      BY <3>2, <3>3, ListedGrows
    <3> HIDE DEF k1
    <3>9. Walked(k1, a, b + 1)
      <4>1. k1.events = Listed(a, b + 1)
        BY <3>2, <3>5, <3>8, Zenon DEF Walked
      <4>2. (b + 1) - a + 1 = k1.pages /\ k1.older = Older(a) /\ k1.newer = Newer(b + 1)
        BY <3>2, <3>3, <3>4, <3>5 DEF Walked
      <4>3. QED
        BY <4>1, <4>2 DEF Walked
    <3>10. Adjacent(k1)
      BY <3>3, <3>9 DEF Adjacent
    <3>11. WalkedBack(k1, range[w])
      BY <2>3, <3>3, <3>4, <3>5, ReachesBackStays DEF WalkedBack
    <3>12. QED
      BY <2>1, <2>3, <2>4, <3>5, <3>7, <3>10, <3>11, FetchedStep
  <2>5. QED
    BY <1>7, <2>1, <2>4, FetchFailsStep DEF FetchNewer
<1>8. ASSUME NEW w \in Worker, PutCached(w)
      PROVE  ScheduleIInv'
  <2> DEFINE r == range[w]
             k == walk[w]
             rec == [ts |-> Stamp(w), events |-> Keeping(k.events, InRange(r)),
                     asOf |-> k.asOf, pages |-> k.pages]
             a == AnswerOf(rec, FALSE)
  <2>1. /\ LookupFollows(w) /\ pc[w] = "put" /\ r \in Window /\ k \in Walk
        /\ began[w] \in Nat /\ CacheTTL \in Nat \ {0}
    <3>1. LookupFollows(w) /\ pc[w] = "put"
      BY <1>1, <1>8 DEF PutCached
    <3>2. r \in Window
      BY <1>1, <3>1 DEF ScheduleTypeOK, LookupFollows
    <3>3. k \in Walk /\ began[w] \in Nat
      BY <1>1 DEF ScheduleTypeOK, Walk
    <3>4. QED
      BY <3>1, <3>2, <3>3, ScheduleAssumption
  <2>2. /\ cache' \in {cache, [cache EXCEPT ![r] = rec]} /\ Returns(w, a)
        /\ UNCHANGED <<now, range, began>>
    BY <1>8 DEF PutCached
  <2>3. WalkFollows(w)
    BY <2>1 DEF LookupFollows
  <2>4. /\ Adjacent(k) /\ began[w] <= k.asOf
        /\ k.pages = MaxPages \/ (WalkedBack(k, r) /\ WalkedOn(k, r))
    BY <2>1, <2>3 DEF WalkFollows
  <2>5. k.asOf \in Nat /\ k.pages \in Nat
    BY <1>2, <2>1 DEF Walk
  <2>6. /\ rec.events = Keeping(k.events, InRange(r)) /\ rec.pages = k.pages
        /\ rec.ts = began[w] /\ rec.asOf = k.asOf
    BY DEF Stamp, StampedAtStart
  <2> HIDE DEF rec, k, r
  <2>7. rec.events \in Seq(Event) /\ Follows(rec, r)
    BY <2>1, <2>4, <2>6, WalkFollowed
  <2>8. rec \in Record /\ Sound(rec, r)
    BY <2>1, <2>4, <2>5, <2>6, <2>7 DEF rec, Record, Sound
  <2>9. a \in Answer /\ a.asOf = k.asOf /\ ~a.stale /\ Follows(a, r)
    BY <2>5, <2>6, <2>7 DEF AnswerOf, Answer, Follows
  <2> HIDE DEF a
  <2>10. a \in Answer \cup {None} /\ Answers(a, range[w], began[w])
    BY <2>1, <2>4, <2>5, <2>9 DEF Answers, r
  <2>11. /\ cache' \in [Window -> Record \cup {None}]
         /\ \A q \in Window : cache'[q] = cache[q] \/ (q = r /\ cache'[q] = rec)
    <3>1. cache \in [Window -> Record \cup {None}] /\ rec \in Record
      BY <1>1, <2>8 DEF ScheduleTypeOK
    <3>2. CASE cache' = cache
      BY <3>1, <3>2
    <3>3. CASE cache' = [cache EXCEPT ![r] = rec]
      BY <2>1, <3>1, <3>3
    <3>4. QED
      BY <2>2, <3>2, <3>3
  <2>12. \A q \in Window : Sound(cache[q], q)'
    BY <1>1, <2>8, <2>11
  <2>13. pc[w] # "idle"
    BY <2>1
  <2>14. QED
    BY <2>2, <2>10, <2>11, <2>12, <2>13, ReturnsStep
<1>9. ASSUME NEW w \in Worker, Leave(w)
      PROVE  ScheduleIInv'
  <2>1. LookupFollows(w) /\ pc[w] = "return"
    BY <1>1, <1>9 DEF Leave
  <2>2. ScheduleTypeOK'
    BY <1>1, <1>2, <1>9 DEF Leave, ScheduleTypeOK
  <2>3. /\ pc'[w] = "idle" /\ range'[w] = None /\ began'[w] = 0 /\ answer'[w] = None
        /\ \A v \in Worker \ {w} :
             /\ pc'[v] = pc[v] /\ range'[v] = range[v] /\ began'[v] = began[v]
             /\ cached'[v] = cached[v] /\ walk'[v] = walk[v] /\ answer'[v] = answer[v]
        /\ UNCHANGED <<cache, now, cached, walk>>
    BY <1>1, <1>9 DEF Leave, ScheduleTypeOK
  <2>4. cached'[w] = None /\ now' \in Nat
    BY <1>1, <1>2, <2>1, <2>3 DEF LookupFollows, ScheduleTypeOK
  <2>5. LookupFollows(w)'
    BY <2>3, <2>4 DEF LookupFollows, Sound, Answers, WalkFollows
  <2>6. \A q \in Window : Sound(cache[q], q)'
    BY <1>1, <2>3
  <2>7. now' = now
    BY <2>3
  <2>8. QED
    BY <2>2, <2>3, <2>5, <2>6, <2>7, OthersFollow
<1>10. CASE Tick
  <2>1. ScheduleTypeOK'
    BY <1>1, <1>2, <1>10 DEF Tick, ScheduleTypeOK, locals
  <2>2. now \in Nat /\ now' = now + 1 /\ UNCHANGED <<cache, pc, range, began, cached, walk, answer>>
    BY <1>1, <1>10 DEF Tick, ScheduleTypeOK, locals
  <2>3. ASSUME NEW w \in Worker PROVE LookupFollows(w)'
    <3>1. LookupFollows(w) /\ began[w] \in Nat
      BY <1>1 DEF ScheduleTypeOK
    <3>2. WalkFollows(w)'
      BY <2>2, <3>1 DEF LookupFollows, WalkFollows
    <3>3. QED
      BY <2>2, <3>1, <3>2 DEF LookupFollows
  <2>4. QED
    BY <1>1, <2>1, <2>2, <2>3 DEF ScheduleIInv
<1>11. CASE Restart
  <2>1. NoWalk \in Walk
    BY ScheduleAssumption DEF NoWalk, Walk
  <2>2. ScheduleTypeOK'
    BY <1>1, <1>2, <1>11, <2>1 DEF Restart, ScheduleTypeOK, Walk
  <2>3. ASSUME NEW w \in Worker PROVE LookupFollows(w)'
    <3>1. /\ pc'[w] = "idle" /\ range'[w] = None /\ began'[w] = 0
          /\ cached'[w] = None /\ answer'[w] = None /\ now' = now /\ now \in Nat
      BY <1>1, <1>11 DEF Restart, ScheduleTypeOK
    <3>2. QED
      BY <3>1 DEF LookupFollows, Sound, Answers, WalkFollows
  <2>4. \A r \in Window : Sound(cache[r], r)'
    BY <1>1, <1>11 DEF Restart
  <2>5. QED
    BY <2>2, <2>3, <2>4 DEF ScheduleIInv
<1>12. CASE UNCHANGED scheduleVars
  <2>1. UNCHANGED <<cache, now, pc, range, began, cached, walk, answer>>
    BY <1>12 DEF scheduleVars, locals
  <2>2. ScheduleTypeOK' /\ \A r \in Window : Sound(cache[r], r)'
    BY <1>1, <2>1 DEF ScheduleTypeOK
  <2>3. ASSUME NEW w \in Worker PROVE LookupFollows(w)'
    <3>1. WalkFollows(w)'
      BY <1>1, <2>1 DEF LookupFollows, WalkFollows
    <3>2. QED
      BY <1>1, <2>1, <3>1 DEF LookupFollows
  <2>4. QED
    BY <2>2, <2>3 DEF ScheduleIInv
<1>13. QED
  BY <1>3, <1>4, <1>5, <1>6, <1>7, <1>8, <1>9, <1>10, <1>11, <1>12
     DEF ScheduleNext, GetEventsCached

LEMMA LookupsAgree == ScheduleSpec => []ScheduleIInv
<1>1. ScheduleInit => ScheduleIInv
  <2> SUFFICES ASSUME ScheduleInit PROVE ScheduleIInv
    OBVIOUS
  <2>1. NoWalk \in Walk
    BY ScheduleAssumption DEF NoWalk, Walk
  <2>2. ScheduleTypeOK
    BY <2>1, ScheduleAssumption DEF ScheduleInit, ScheduleTypeOK, Walk
  <2>3. \A r \in Window : Sound(cache[r], r)
    BY DEF ScheduleInit, Sound
  <2>4. \A w \in Worker : LookupFollows(w)
    BY DEF ScheduleInit, LookupFollows, Sound, Answers, WalkFollows
  <2>5. QED
    BY <2>2, <2>3, <2>4 DEF ScheduleIInv
<1>2. QED
  BY <1>1, ScheduleStep, PTL DEF ScheduleSpec

(* However lookups overwrite each other's records, fail, or are cut off by   *)
(* the end of the process, and for every age that counts as fresh or usable: *)
(* what a lookup answers is no older than GetEventsCached says               *)
(* (api_client.go:274).                                                      *)
THEOREM AnswersAreFresh == ScheduleSpec => []ScheduleInv
<1>1. ScheduleIInv => ScheduleInv
  BY DEF ScheduleIInv, ScheduleInv, AnswersAreRecent, LookupFollows, Answers
<1>2. QED
  BY <1>1, LookupsAgree, PTL

(* For every schedule whose pages ascend, every page to begin at and every   *)
(* page budget: an answer lists in order what the pages walked have of the   *)
(* range, and if the budget was not spent all of the range but events at its *)
(* very beginning (fetchEventsInRange, api_client.go).                       *)
THEOREM AnswersListTheRange == ScheduleSpec => []AnswersFollowSchedule
<1>1. ScheduleIInv => AnswersFollowSchedule
  BY DEF ScheduleIInv, AnswersFollowSchedule, LookupFollows, Answers
<1>2. QED
  BY <1>1, LookupsAgree, PTL

----------------------------------------------------------------------------
(* ScheduleDate: the calendar.                                               *)

(* The months and the years the code takes. *)
Month == 1 .. 12
Year == 1970 .. 2100

(* The days of a year before its m-th month. *)
DaysBefore(m, y) ==
  <<0, 31, 59, 90, 120, 151, 181, 212, 243, 273, 304, 334>>[m]
    + (IF m > 2 /\ Leap(y) THEN 1 ELSE 0)

(* A month has 28 to 31 days. *)
LEMMA MonthLength ==
  ASSUME NEW y \in Int, NEW m \in Month
  PROVE  DaysIn(m, y) \in 28 .. 31 /\ DaysBefore(m, y) \in Nat
<1>1. Leap(y) \in BOOLEAN
  BY DEF Leap
<1>2. m \in {1, 2, 3, 4, 5, 6, 7, 8, 9, 10, 11, 12}
  BY DEF Month
<1>3. DaysIn(m, y) \in 28 .. 31
  BY <1>1, <1>2 DEF DaysIn
<1>4. DaysBefore(m, y) \in Nat
  BY <1>1, <1>2 DEF DaysBefore
<1>5. QED
  BY <1>3, <1>4

(* The days before a month are those before the last one, and its own.      *)
LEMMA MonthsAddUp ==
  ASSUME NEW y \in Int, NEW m \in Month \ {1}
  PROVE  DaysBefore(m, y) = DaysBefore(m - 1, y) + DaysIn(m - 1, y)
<1>1. Leap(y) \in BOOLEAN
  BY DEF Leap
<1>2. m \in {2, 3, 4, 5, 6, 7, 8, 9, 10, 11, 12}
  BY DEF Month
<1>3. QED
  BY <1>1, <1>2 DEF DaysIn, DaysBefore

(* The months of a year are as long as the year. *)
LEMMA YearLength ==
  ASSUME NEW y \in Int
  PROVE  /\ DaysBefore(1, y) = 0
         /\ DaysBefore(12, y) + DaysIn(12, y) = IF Leap(y) THEN 366 ELSE 365
BY DEF DaysBefore, DaysIn

(* What FirstOf counts up to. *)
LEMMA FirstOfMonth ==
  ASSUME NEW y \in Int, NEW m \in Month
  PROVE  FirstOf(m, y) = NewYear(y) + DaysBefore(m, y)
<1> DEFINE Loop(g) == g = [k \in 1 .. 12 |-> IF k = 1 THEN NewYear(y)
                                             ELSE g[k - 1] + DaysIn(k - 1, y)]
           g0 == CHOOSE g : Loop(g)
           f == [k \in 1 .. 12 |-> NewYear(y) + DaysBefore(k, y)]
<1>1. FirstOf(m, y) = g0[m]
  BY DEF FirstOf
<1>2. NewYear(y) \in Int /\ DaysBefore(1, y) = 0
  BY YearLength DEF NewYear
<1>3. \A k \in 1 .. 12 : k # 1 =>
        /\ k - 1 \in 1 .. 12 /\ DaysBefore(k - 1, y) \in Nat /\ DaysIn(k - 1, y) \in Nat
        /\ DaysBefore(k, y) = DaysBefore(k - 1, y) + DaysIn(k - 1, y)
  <2> TAKE k \in 1 .. 12
  <2> HAVE k # 1
  <2>1. k - 1 \in 1 .. 12 /\ k - 1 \in Month /\ k \in Month \ {1}
    BY DEF Month
  <2>2. DaysIn(k - 1, y) \in 28 .. 31 /\ DaysBefore(k - 1, y) \in Nat
    BY <2>1, MonthLength
  <2>3. QED
    BY <2>1, <2>2, MonthsAddUp
<1>4. Loop(f)
  <2>1. \A k \in 1 .. 12 : f[k] = IF k = 1 THEN NewYear(y) ELSE f[k - 1] + DaysIn(k - 1, y)
    BY <1>2, <1>3
  <2>2. f = [k \in 1 .. 12 |-> f[k]]
    OBVIOUS
  <2> HIDE DEF f
  <2>3. f = [k \in 1 .. 12 |-> IF k = 1 THEN NewYear(y) ELSE f[k - 1] + DaysIn(k - 1, y)]
    BY <2>1, <2>2
  <2>4. QED
    BY <2>3
<1>5. Loop(g0)
  <2> HIDE DEF Loop
  <2> QED BY <1>4
<1> HIDE DEF g0
<1>6. \A k \in 1 .. 12 : g0[k] = IF k = 1 THEN NewYear(y) ELSE g0[k - 1] + DaysIn(k - 1, y)
  BY <1>5
<1> HIDE DEF Loop
<1> DEFINE g == [k \in 0 .. 11 |-> k + 1]
           T == {k \in 1 .. 12 : g0[k] = NewYear(y) + DaysBefore(k, y)}
<1>7. \A i \in 0 .. 11 : g[i] = i + 1
  OBVIOUS
<1> HIDE DEF g
<1>8. g[0] \in T
  BY <1>2, <1>6, <1>7
<1>9. \A i \in 1 .. 11 : g[i - 1] \in T => g[i] \in T
  <2> SUFFICES ASSUME NEW i \in 1 .. 11, g[i - 1] \in T PROVE g[i] \in T
    OBVIOUS
  <2>1. g[i - 1] = i /\ g[i] = i + 1 /\ i + 1 \in 1 .. 12 /\ i + 1 # 1 /\ (i + 1) - 1 = i
    BY <1>7
  <2>2. g0[i] = NewYear(y) + DaysBefore(i, y) /\ g0[i + 1] = g0[i] + DaysIn(i, y)
    BY <1>6, <2>1
  <2>3. DaysBefore(i, y) \in Nat /\ DaysIn(i, y) \in Nat /\ DaysBefore(i + 1, y) = DaysBefore(i, y) + DaysIn(i, y)
    BY <1>3, <2>1
  <2>4. g0[i + 1] = NewYear(y) + DaysBefore(i + 1, y)
    BY <1>2, <2>2, <2>3
  <2>5. QED
    BY <2>1, <2>4
<1> HIDE DEF T
<1>10. \A i \in 0 .. 11 : g[i] \in T
  BY <1>8, <1>9, Steps
<1>11. m - 1 \in 0 .. 11 /\ g[m - 1] = m
  BY <1>7 DEF Month
<1>12. QED
  BY <1>1, <1>10, <1>11 DEF T

(* A year is as long as its months. *)
LEMMA YearsFollow ==
  ASSUME NEW y \in Int
  PROVE  NewYear(y + 1) = NewYear(y) + (IF Leap(y) THEN 366 ELSE 365)
<1>1. (y - 1968) \div 4 - (y - 1969) \div 4 = IF y % 4 = 0 THEN 1 ELSE 0
  OBVIOUS
<1>2. (y - 1900) \div 100 - (y - 1901) \div 100 = IF y % 100 = 0 THEN 1 ELSE 0
  OBVIOUS
<1>3. (y - 1600) \div 400 - (y - 1601) \div 400 = IF y % 400 = 0 THEN 1 ELSE 0
  OBVIOUS
<1>4. (y % 400 = 0 => y % 100 = 0) /\ (y % 100 = 0 => y % 4 = 0)
  OBVIOUS
<1>5. /\ (y + 1) - 1969 = y - 1968 /\ (y + 1) - 1901 = y - 1900 /\ (y + 1) - 1601 = y - 1600
      /\ 365 * ((y + 1) - 1970) = 365 * (y - 1970) + 365
  OBVIOUS
<1>6. QED
  BY <1>1, <1>2, <1>3, <1>4, <1>5 DEF NewYear, Leap

(* Years follow each other. *)
LEMMA YearsAscend ==
  ASSUME NEW y \in Int, NEW z \in Int, y < z
  PROVE  NewYear(y + 1) <= NewYear(z)
<1> DEFINE n == z - y - 1
           g == [i \in 0 .. n |-> NewYear(y + 1 + i)]
           T == {x \in Int : NewYear(y + 1) <= x}
<1>1. n \in Nat /\ y + 1 + n = z
  OBVIOUS
<1>2. \A x \in Int : NewYear(x) \in Int
  BY DEF NewYear
<1> HIDE DEF n
<1>3. \A i \in 0 .. n : g[i] = NewYear(y + 1 + i)
  OBVIOUS
<1> HIDE DEF g
<1>4. g[0] \in T
  BY <1>1, <1>2, <1>3
<1>5. \A i \in 1 .. n : g[i - 1] \in T => g[i] \in T
  <2> SUFFICES ASSUME NEW i \in 1 .. n, g[i - 1] \in T PROVE g[i] \in T
    OBVIOUS
  <2> DEFINE x == y + 1 + (i - 1)
  <2>1. /\ i \in 0 .. n /\ i - 1 \in 0 .. n /\ x \in Int /\ y + 1 + i = x + 1
    BY <1>1
  <2>2. g[i - 1] = NewYear(x) /\ g[i] = NewYear(x + 1)
    BY <1>3, <2>1
  <2> HIDE DEF x
  <2>3. NewYear(x + 1) = NewYear(x) + (IF Leap(x) THEN 366 ELSE 365)
    BY <2>1, YearsFollow
  <2>4. NewYear(x) \in Int /\ NewYear(x + 1) \in Int
    BY <1>2, <2>1
  <2>5. NewYear(x) <= NewYear(x + 1)
    BY <2>3, <2>4
  <2>6. QED
    BY <1>2, <2>2, <2>4, <2>5
<1> HIDE DEF T
<1>6. g[n] \in T
  <2>1. n \in 0 .. n
    BY <1>1
  <2>2. QED
    BY <1>1, <1>4, <1>5, <2>1, Steps
<1>7. QED
  BY <1>1, <1>3, <1>6 DEF T

(* The year, the month and the day of the month that a day lies in are its   *)
(* date.                                                                     *)
LEMMA CivilOf ==
  ASSUME NEW y \in Year, NEW m \in Month, NEW d \in 1 .. DaysIn(m, y)
  PROVE  Civil(FirstOf(m, y) + d - 1) = [day |-> d, month |-> m, year |-> y]
<1> DEFINE day == FirstOf(m, y) + d - 1
           IsYear(z) == NewYear(z) <= day /\ day < NewYear(z + 1)
           IsMonth(k, z) == FirstOf(k, z) <= day /\ day < FirstOf(k, z) + DaysIn(k, z)
           y0 == CHOOSE z \in Year : IsYear(z)
           m0 == CHOOSE k \in Month : IsMonth(k, y0)
<1>1. Civil(day) = [day |-> day - FirstOf(m0, y0) + 1, month |-> m0, year |-> y0]
  BY DEF Civil, Month, Year
<1>2. /\ y \in Int /\ NewYear(y) \in Int
      /\ \A k \in Month : /\ DaysIn(k, y) \in 28 .. 31 /\ DaysBefore(k, y) \in Nat
                            /\ FirstOf(k, y) = NewYear(y) + DaysBefore(k, y)
      /\ DaysBefore(1, y) = 0
  <2>1. y \in Int
    BY DEF Year
  <2>2. \A k \in Month : DaysIn(k, y) \in 28 .. 31 /\ DaysBefore(k, y) \in Nat
    BY <2>1, MonthLength
  <2>3. \A k \in Month : FirstOf(k, y) = NewYear(y) + DaysBefore(k, y)
    BY <2>1, FirstOfMonth
  <2>4. NewYear(y) \in Int
    BY <2>1 DEF NewYear
  <2>5. DaysBefore(1, y) = 0
    BY <2>1, YearLength
  <2>6. QED
    BY <2>1, <2>2, <2>3, <2>4, <2>5
<1>3. /\ day = NewYear(y) + DaysBefore(m, y) + d - 1 /\ day \in Int
      /\ d \in Nat /\ DaysIn(m, y) \in Nat /\ DaysBefore(m, y) \in Nat
  BY <1>2
<1>4. \A j, k \in Month : j < k => DaysBefore(j, y) + DaysIn(j, y) <= DaysBefore(k, y)
  <2>1. Leap(y) \in BOOLEAN
    BY DEF Leap
  <2> DEFINE leap == Leap(y)
  <2>2. \A k \in Month : DaysIn(k, y) = CASE k = 2 -> IF leap THEN 29 ELSE 28
                         [] k \in {4, 6, 9, 11} -> 30
                         [] OTHER -> 31
    BY DEF DaysIn, Month
  <2>3. \A k \in Month :
          DaysBefore(k, y) = <<0, 31, 59, 90, 120, 151, 181, 212, 243, 273, 304, 334>>[k]
             + (IF k > 2 /\ leap THEN 1 ELSE 0)
    BY DEF DaysBefore, Month
  <2> HIDE DEF leap
  <2> QED
    BY <2>1, <2>2, <2>3 DEF Month
<1>5. DaysBefore(m, y) + DaysIn(m, y) <= IF Leap(y) THEN 366 ELSE 365
  <2>1. DaysBefore(12, y) + DaysIn(12, y) = IF Leap(y) THEN 366 ELSE 365
    BY <1>2, YearLength
  <2>2. 12 \in Month /\ DaysBefore(12, y) \in Nat /\ DaysIn(12, y) \in 28 .. 31
    <3>1. 12 \in Month
      BY DEF Month
    <3>2. QED
      BY <1>2, <3>1
  <2>3. m = 12 \/ m < 12
    BY DEF Month
  <2>4. QED
    BY <1>2, <1>3, <1>4, <2>1, <2>2, <2>3
<1>6. NewYear(y + 1) = NewYear(y) + (IF Leap(y) THEN 366 ELSE 365)
  BY <1>2, YearsFollow
<1> DEFINE b == DaysBefore(m, y)
           len == DaysIn(m, y)
           start == NewYear(y)
           next == NewYear(y + 1)
<1>7. d <= len
  OBVIOUS
<1> HIDE DEF day
<1>8. NewYear(y) <= day /\ day < NewYear(y + 1)
  <2>1. start \in Int /\ b \in Nat /\ len \in Nat /\ day = start + b + d - 1
    BY <1>2, <1>3
  <2>2. b + len <= 366 /\ (~Leap(y) => b + len <= 365)
    BY <1>3, <1>5
  <2>3. next = start + (IF Leap(y) THEN 366 ELSE 365)
    BY <1>6
  <2> HIDE DEF b, len, start, next
  <2>4. start <= day /\ day < next
    BY <1>3, <1>7, <2>1, <2>2, <2>3
  <2>5. QED
    BY <2>4 DEF start, next
<1>9. \A z \in Year : IsYear(z) => z = y
  <2> SUFFICES ASSUME NEW z \in Year, IsYear(z), z # y PROVE FALSE
    OBVIOUS
  <2>0. z \in Int /\ y \in Int
    BY DEF Year
  <2>1. NewYear(z) \in Int /\ NewYear(z + 1) \in Int /\ NewYear(y + 1) \in Int /\ y + 1 \in Int /\ z \in Int
    BY <2>0 DEF NewYear
  <2>2. CASE y < z
    <3>1. NewYear(y + 1) <= NewYear(z)
      BY <1>2, <2>1, <2>2, YearsAscend
    <3>2. QED
      BY <1>3, <1>8, <2>1, <3>1
  <2>3. CASE z < y
    <3>1. NewYear(z + 1) <= NewYear(y)
      BY <1>2, <2>1, <2>3, YearsAscend
    <3>2. QED
      BY <1>2, <1>3, <1>8, <2>1, <3>1
  <2>4. QED
    BY <2>0, <2>2, <2>3
<1>10. y0 = y
  <2>1. IsYear(y)
    BY <1>8
  <2> HIDE DEF IsYear
  <2>2. QED
    BY <1>9, <2>1
<1>11. IsMonth(m, y)
  BY <1>2, <1>3, <1>7
<1>12. \A k \in Month : IsMonth(k, y) => k = m
  <2> SUFFICES ASSUME NEW k \in Month, IsMonth(k, y), k # m PROVE FALSE
    OBVIOUS
  <2> DEFINE bk == DaysBefore(k, y)
             lk == DaysIn(k, y)
  <2>1. /\ start \in Int /\ bk \in Nat /\ lk \in Nat /\ b \in Nat /\ len \in Nat
        /\ start + bk <= day /\ day < start + bk + lk
        /\ day = start + b + d - 1
    BY <1>2, <1>3
  <2>2. k < m => bk + lk <= b
    BY <1>4
  <2>3. m < k => b + len <= bk
    BY <1>4
  <2> HIDE DEF bk, lk, b, len, start
  <2>4. k < m \/ m < k
    BY DEF Month
  <2>5. QED
    BY <1>3, <1>7, <2>1, <2>2, <2>3, <2>4
<1> HIDE DEF y0
<1>13. m0 = m
  <2> HIDE DEF IsMonth
  <2> QED BY <1>10, <1>11, <1>12
<1> HIDE DEF m0
<1>14. day - FirstOf(m, y) + 1 = d
  BY <1>2, <1>3
<1>15. QED
  BY <1>1, <1>10, <1>13, <1>14 DEF day

(* A day lies in a month. *)
Dated(day, y, m) == \E d \in 1 .. DaysIn(m, y) : day = FirstOf(m, y) + d - 1

(* Every day of the years the code takes lies in one.                        *)
LEMMA DaysHaveDates ==
  ASSUME NEW day \in Int, 0 <= day, day < NewYear(2101)
  PROVE  \E y \in Year : \E m \in Month : Dated(day, y, m)
<1> DEFINE B == {z \in Year : day < NewYear(z + 1)}
<1>1. B \in SUBSET Nat /\ 2100 \in B
  BY DEF Year
<1>2. PICK c \in B : \A z \in B : c <= z
  <2> HIDE DEF B
  <2> QED BY <1>1, Least
<1>3. c \in Year /\ day < NewYear(c + 1) /\ c \in Int
  BY DEF Year
<1>4. NewYear(c) <= day
  <2>1. CASE c = 1970
    <3>1. NewYear(1970) = 0
      BY DEF NewYear
    <3>2. QED
      BY <2>1, <3>1
  <2>2. CASE c # 1970
    <3>1. c - 1 \in Year /\ (c - 1) + 1 = c /\ ~ (c <= c - 1)
      BY <1>3, <2>2 DEF Year
    <3>2. c - 1 \notin B
      BY <1>2, <3>1
    <3>3. ~ (day < NewYear(c))
      BY <3>1, <3>2
    <3>4. NewYear(c) \in Int
      BY <1>3 DEF NewYear
    <3>5. QED
      BY <3>3, <3>4
  <2>3. QED
    BY <2>1, <2>2
<1> HIDE DEF B
<1> DEFINE n == day - NewYear(c)
<1>5. NewYear(c) \in Int /\ NewYear(c + 1) = NewYear(c) + (IF Leap(c) THEN 366 ELSE 365)
  BY <1>3, YearsFollow DEF NewYear
<1>6. n \in Nat /\ n < IF Leap(c) THEN 366 ELSE 365
  BY <1>3, <1>4, <1>5
<1> HIDE DEF n
<1>7. \E k \in Month : DaysBefore(k, c) <= n /\ n < DaysBefore(k, c) + DaysIn(k, c)
  <2> DEFINE C == {q \in Month : n < DaysBefore(q, c) + DaysIn(q, c)}
  <2>1. C \in SUBSET Nat
    BY DEF Month
  <2>2. 12 \in C
    <3>1. DaysBefore(12, c) + DaysIn(12, c) = IF Leap(c) THEN 366 ELSE 365
      BY <1>3, YearLength
    <3>2. 12 \in Month
      BY DEF Month
    <3>3. QED
      BY <1>6, <3>1, <3>2
  <2>3. PICK k \in C : \A q \in C : k <= q
    <3> HIDE DEF C
    <3> QED BY <2>1, <2>2, Least
  <2>4. k \in Month /\ n < DaysBefore(k, c) + DaysIn(k, c)
    OBVIOUS
  <2>5. DaysBefore(k, c) <= n
    <3>1. CASE k = 1
      <4>1. DaysBefore(1, c) = 0
        BY <1>3, YearLength
      <4>2. QED
        BY <1>6, <3>1, <4>1
    <3>2. CASE k # 1
      <4>1. k - 1 \in Month /\ k \in Month \ {1} /\ ~ (k <= k - 1)
        BY <2>4, <3>2 DEF Month
      <4>2. k - 1 \notin C
        BY <2>3, <4>1
      <4>3. ~ (n < DaysBefore(k - 1, c) + DaysIn(k - 1, c))
        BY <4>1, <4>2
      <4>4. DaysBefore(k, c) = DaysBefore(k - 1, c) + DaysIn(k - 1, c) /\ DaysBefore(k, c) \in Nat
        <5>1. c \in Int /\ k \in Month
          BY <1>3, <2>4
        <5>2. DaysBefore(k, c) \in Nat
          BY <5>1, MonthLength
        <5>3. DaysBefore(k, c) = DaysBefore(k - 1, c) + DaysIn(k - 1, c)
          BY <4>1, <5>1, MonthsAddUp
        <5>4. QED
          BY <5>2, <5>3
      <4>5. QED
        BY <1>6, <4>3, <4>4
    <3>3. QED
      BY <3>1, <3>2
  <2>6. QED
    BY <2>4, <2>5
<1>8. PICK k \in Month : DaysBefore(k, c) <= n /\ n < DaysBefore(k, c) + DaysIn(k, c)
  BY <1>7
<1>9. /\ DaysBefore(k, c) \in Nat /\ DaysIn(k, c) \in 28 .. 31
      /\ FirstOf(k, c) = NewYear(c) + DaysBefore(k, c)
  <2>1. c \in Int
    BY <1>3
  <2>2. DaysBefore(k, c) \in Nat /\ DaysIn(k, c) \in 28 .. 31
    BY <2>1, MonthLength
  <2>3. FirstOf(k, c) = NewYear(c) + DaysBefore(k, c)
    BY <2>1, FirstOfMonth
  <2>4. QED
    BY <2>2, <2>3
<1>10. n - DaysBefore(k, c) + 1 \in 1 .. DaysIn(k, c)
  BY <1>6, <1>8, <1>9
<1>11. day = FirstOf(k, c) + (n - DaysBefore(k, c) + 1) - 1
  BY <1>5, <1>6, <1>9 DEF n
<1>12. QED
  <2>1. Dated(day, c, k)
    BY <1>10, <1>11 DEF Dated
  <2>2. c \in Year
    BY <1>3
  <2>3. k \in Month
    OBVIOUS
  <2>4. \E m \in Month : Dated(day, c, m)
    BY <2>1, <2>3
  <2>5. QED
    BY <2>2, <2>4

(* The day an hour lies in. *)
LEMMA DayIs ==
  ASSUME NEW x \in Int, NEW d \in Int, Hours(d) - ictOffset <= x, x < Hours(d + 1) - ictOffset
  PROVE  DayOf(x) = d /\ ictDayStartOf(x) = Hours(d) - ictOffset
<1>1. 24 * d <= x + 7 /\ x + 7 < 24 * (d + 1)
  BY DEF Hours, ictOffset
<1>2. (x + 7) \div 24 = d
  BY <1>1
<1>3. DayOf(x) = d
  BY <1>2 DEF DayOf, IctDay, ictOffset
<1>4. QED
  BY <1>3 DEF ictDayStartOf

(* Every hour lies in its day. *)
LEMMA DayOfType ==
  ASSUME NEW x \in Int
  PROVE  DayOf(x) \in Int /\ Hours(DayOf(x)) - ictOffset <= x /\ x < Hours(DayOf(x) + 1) - ictOffset
<1> DEFINE d == (x + 7) \div 24
<1>1. d \in Int /\ 24 * d <= x + 7 /\ x + 7 < 24 * (d + 1)
  OBVIOUS
<1>2. DayOf(x) = d
  BY DEF DayOf, IctDay, ictOffset
<1>3. QED
  BY <1>1, <1>2 DEF Hours, ictOffset

(* The Monday of the week of a day. *)
Monday(q) == Weekday(q) = 1

(* Every day lies in a week. *)
LEMMA MondayBefore ==
  ASSUME NEW d \in Int
  PROVE  \E q \in Int : \E k \in 0 .. 6 : Monday(q) /\ d = q + k
<1> DEFINE k == (((d + 4) % 7) + 6) % 7
<1>1. k \in 0 .. 6 /\ ((d - k) + 4) % 7 = 1
  OBVIOUS
<1>2. Monday(d - k)
  BY <1>1 DEF Monday, Weekday
<1> HIDE DEF k
<1>3. d - k \in Int /\ d = (d - k) + k
  BY <1>1
<1>4. QED
  BY <1>1, <1>2, <1>3

(* The week an hour lies in. *)
LEMMA WeekIs ==
  ASSUME NEW x \in Int, NEW q \in Int, Monday(q), NEW k \in 0 .. 6, DayOf(x) = q + k
  PROVE  ictWeekStartOf(x) = Hours(q) - ictOffset
<1>1. (q + 4) % 7 = 1
  BY DEF Monday, Weekday
<1>2. (((q + k + 4) % 7) + 6) % 7 = k
  BY <1>1
<1>3. (Weekday(DayOf(x)) + 6) % 7 = k
  BY <1>2 DEF Weekday
<1>4. ictWeekStartOf(x) = (Hours(q + k) - ictOffset) - Hours(k)
  BY <1>3 DEF ictWeekStartOf, ictDayStartOf
<1>5. QED
  BY <1>4 DEF Hours, ictOffset

(* The instants lie in the years that have dates. *)
LEMMA InstantType ==
  ASSUME NEW at \in Instant
  PROVE  at \in Int /\ 0 <= at + ictOffset /\ at + ictOffset < Hours(NewYear(2101))
BY DateAssumption DEF ictOffset

(* The ICT days tile time, and so do the weeks. *)
LEMMA DaysAndWeeksTile == WindowsTile
<1> SUFFICES ASSUME NEW at \in Instant
             PROVE  LET day == ictDayStartOf(at)
                        week == ictWeekStartOf(at)
                    IN  /\ day <= at /\ at < addDays(day, 1)
                        /\ ictDayStartOf(addDays(day, 1)) = addDays(day, 1)
                        /\ ictDayStartOf(addDays(day, 1) - 1) = day
                        /\ Weekday((week + ictOffset) \div 24) = 1
                        /\ \E k \in 0 .. 6 : day = addDays(week, k)
                        /\ \A k \in 0 .. 6 : ictWeekStartOf(addDays(week, k)) = week
  BY DEF WindowsTile
<1> DEFINE d == DayOf(at)
           day == ictDayStartOf(at)
           week == ictWeekStartOf(at)
<1>1. at \in Int
  BY InstantType
<1>2. /\ d \in Int /\ Hours(d) - ictOffset <= at /\ at < Hours(d + 1) - ictOffset
      /\ day = Hours(d) - ictOffset
  BY <1>1, DayOfType DEF ictDayStartOf
<1> HIDE DEF d, day
<1>3. /\ addDays(day, 1) = Hours(d + 1) - ictOffset /\ addDays(day, 1) \in Int
      /\ addDays(day, 1) - 1 \in Int /\ Hours(d + 1) - ictOffset < Hours((d + 1) + 1) - ictOffset
      /\ Hours(d) - ictOffset <= addDays(day, 1) - 1
      /\ addDays(day, 1) - 1 < Hours(d + 1) - ictOffset
      /\ d + 1 \in Int
      /\ addDays(day, 1) <= addDays(day, 1)
  BY <1>2 DEF addDays, Hours, ictOffset
<1>4. ictDayStartOf(addDays(day, 1)) = addDays(day, 1)
  BY <1>3, DayIs
<1>5. ictDayStartOf(addDays(day, 1) - 1) = day
  BY <1>2, <1>3, DayIs
<1>6. PICK q \in Int : \E k \in 0 .. 6 : Monday(q) /\ d = q + k
  BY <1>2, MondayBefore
<1>7. PICK k \in 0 .. 6 : Monday(q) /\ d = q + k
  BY <1>6
<1>8. week = Hours(q) - ictOffset
  BY <1>1, <1>7, WeekIs DEF d
<1> HIDE DEF week
<1>9. Weekday((week + ictOffset) \div 24) = 1
  <2>1. (24 * q) \div 24 = q
    OBVIOUS
  <2>2. week + ictOffset = 24 * q
    BY <1>8 DEF Hours, ictOffset
  <2>3. QED
    BY <1>7, <2>1, <2>2 DEF Monday
<1>10. day = addDays(week, k)
  BY <1>2, <1>7, <1>8 DEF addDays, Hours, ictOffset
<1>11. \A j \in 0 .. 6 : ictWeekStartOf(addDays(week, j)) = week
  <2> TAKE j \in 0 .. 6
  <2>1. /\ addDays(week, j) = Hours(q + j) - ictOffset /\ addDays(week, j) \in Int
        /\ addDays(week, j) < Hours((q + j) + 1) - ictOffset
        /\ q + j \in Int
        /\ Hours(q + j) - ictOffset <= addDays(week, j)
    BY <1>8 DEF addDays, Hours, ictOffset
  <2>2. DayOf(addDays(week, j)) = q + j
    BY <2>1, DayIs
  <2>3. ictWeekStartOf(addDays(week, j)) = Hours(q) - ictOffset
    BY <1>7, <2>1, <2>2, WeekIs
  <2>4. QED
    BY <1>8, <2>3
<1>12. day <= at /\ at < addDays(day, 1)
  BY <1>2, <1>3
<1>13. \E i \in 0 .. 6 : day = addDays(week, i)
  BY <1>10
<1>14. QED
  BY <1>4, <1>5, <1>9, <1>11, <1>12, <1>13 DEF day, week

----------------------------------------------------------------------------
(* Numbers.                                                                  *)

(* The values Number goes through. *)
Reads(v, digits) ==
  /\ v[0] = 0
  /\ \A i \in 1 .. Len(digits) : v[i] = 10 * v[i - 1] + DigitValue[digits[i]]
  /\ Number(digits) = v[Len(digits)]

(* The value of a digit. *)
LEMMA DigitType ==
  ASSUME NEW c \in Digit
  PROVE  DigitValue[c] \in Nat /\ DigitValue[c] <= 9
<1>1. DigitValue \in [Digit -> 0 .. 9]
  BY DigitAssumption, Zenon
<1>2. QED
  BY <1>1

(* They are what it computes. *)
LEMMA NumberReads ==
  ASSUME NEW digits \in Seq(Digit)
  PROVE  \E v : Reads(v, digits)
<1> DEFINE n == Len(digits)
           V(i) == DigitValue[digits[i]]
           F == [i \in 1 .. n |-> [r \in Nat |-> 10 * r + V(i)]]
           Loop(g) == g = [i \in 0 .. n |-> IF i = 0 THEN 0 ELSE 10 * g[i - 1] + V(i)]
           g0 == CHOOSE g : Loop(g)
<1>1. n \in Nat /\ \A i \in 1 .. n : V(i) \in Nat
  BY DigitType
<1>2. Number(digits) = g0[n]
  BY DEF Number
<1> HIDE DEF n, V
<1>3. /\ F \in [1 .. n -> [Nat -> Nat]]
      /\ \A i \in 1 .. n : \A r \in Nat : F[i][r] = 10 * r + V(i)
  BY <1>1
<1> HIDE DEF F
<1>4. PICK f \in [0 .. n -> Nat] : Rounds(f, 0, n, F)
  BY <1>1, <1>3, RoundsExist
<1>5. f[0] = 0 /\ \A i \in 1 .. n : i - 1 \in 0 .. n /\ f[i] = 10 * f[i - 1] + V(i)
  <2>1. f[0] = 0 /\ \A i \in 1 .. n : f[i] = F[i][f[i - 1]]
    BY <1>4 DEF Rounds
  <2>2. \A i \in 1 .. n : i - 1 \in 0 .. n
    BY <1>1
  <2>3. \A i \in 1 .. n : f[i - 1] \in Nat
    BY <2>2
  <2>4. QED
    BY <1>3, <2>1, <2>2, <2>3
<1>6. Loop(f)
  <2>1. \A i \in 0 .. n : i = 0 \/ i \in 1 .. n
    BY <1>1
  <2>2. \A i \in 0 .. n : f[i] = IF i = 0 THEN 0 ELSE 10 * f[i - 1] + V(i)
    BY <1>5, <2>1
  <2>3. f = [i \in 0 .. n |-> f[i]]
    OBVIOUS
  <2>4. QED
    BY <2>2, <2>3
<1>7. Loop(g0)
  <2> HIDE DEF Loop
  <2> QED BY <1>6
<1> HIDE DEF g0
<1>8. \A i \in 0 .. n : g0[i] = IF i = 0 THEN 0 ELSE 10 * g0[i - 1] + V(i)
  BY <1>7
<1> HIDE DEF Loop
<1>9. g0[0] = 0 /\ \A i \in 1 .. n : g0[i] = 10 * g0[i - 1] + V(i)
  <2>1. 0 \in 0 .. n /\ \A i \in 1 .. n : i \in 0 .. n /\ i # 0
    BY <1>1
  <2>2. QED
    BY <1>8, <2>1
<1>10. Reads(g0, digits)
  BY <1>2, <1>9 DEF Reads, n, V
<1>11. QED
  BY <1>10

(* What a number of two digits, or of four, is.                              *)
LEMMA NumberOfTwo ==
  ASSUME NEW digits \in Seq(Digit), Len(digits) = 2
  PROVE  Number(digits) = 10 * DigitValue[digits[1]] + DigitValue[digits[2]]
<1>1. PICK v : Reads(v, digits)
  BY NumberReads
<1>2. /\ v[0] = 0 /\ v[1] = 10 * v[0] + DigitValue[digits[1]]
      /\ v[2] = 10 * v[1] + DigitValue[digits[2]] /\ Number(digits) = v[2]
  <2>1. 1 \in 1 .. Len(digits) /\ 2 \in 1 .. Len(digits) /\ 1 - 1 = 0 /\ 2 - 1 = 1
    OBVIOUS
  <2>2. v[1] = 10 * v[1 - 1] + DigitValue[digits[1]]
    BY <1>1, <2>1 DEF Reads
  <2>3. v[2] = 10 * v[2 - 1] + DigitValue[digits[2]]
    BY <1>1, <2>1 DEF Reads
  <2>4. QED
    BY <1>1, <2>1, <2>2, <2>3 DEF Reads
<1>3. DigitValue[digits[1]] \in Nat /\ DigitValue[digits[2]] \in Nat
  <2>1. \A i \in 1 .. Len(digits) : digits[i] \in Digit
    OBVIOUS
  <2>2. 1 \in 1 .. Len(digits) /\ 2 \in 1 .. Len(digits)
    OBVIOUS
  <2>3. QED
    BY <2>1, <2>2, DigitType
<1>4. QED
  BY <1>2, <1>3

LEMMA NumberOfFour ==
  ASSUME NEW digits \in Seq(Digit), Len(digits) = 4
  PROVE  Number(digits) = 1000 * DigitValue[digits[1]] + 100 * DigitValue[digits[2]]
                          + 10 * DigitValue[digits[3]] + DigitValue[digits[4]]
<1>1. PICK v : Reads(v, digits)
  BY NumberReads
<1>2. /\ v[0] = 0 /\ v[1] = 10 * v[0] + DigitValue[digits[1]]
      /\ v[2] = 10 * v[1] + DigitValue[digits[2]]
      /\ v[3] = 10 * v[2] + DigitValue[digits[3]]
      /\ v[4] = 10 * v[3] + DigitValue[digits[4]] /\ Number(digits) = v[4]
  <2>1. /\ 1 \in 1 .. Len(digits) /\ 2 \in 1 .. Len(digits)
        /\ 3 \in 1 .. Len(digits) /\ 4 \in 1 .. Len(digits)
        /\ 1 - 1 = 0 /\ 2 - 1 = 1 /\ 3 - 1 = 2 /\ 4 - 1 = 3
    OBVIOUS
  <2>2. /\ v[1] = 10 * v[1 - 1] + DigitValue[digits[1]]
        /\ v[2] = 10 * v[2 - 1] + DigitValue[digits[2]]
    BY <1>1, <2>1 DEF Reads
  <2>3. /\ v[3] = 10 * v[3 - 1] + DigitValue[digits[3]]
        /\ v[4] = 10 * v[4 - 1] + DigitValue[digits[4]]
    BY <1>1, <2>1 DEF Reads
  <2>4. QED
    BY <1>1, <2>1, <2>2, <2>3 DEF Reads
<1>3. /\ DigitValue[digits[1]] \in Nat /\ DigitValue[digits[2]] \in Nat
      /\ DigitValue[digits[3]] \in Nat /\ DigitValue[digits[4]] \in Nat
  <2>1. \A i \in 1 .. Len(digits) : digits[i] \in Digit
    OBVIOUS
  <2>2. /\ 1 \in 1 .. Len(digits) /\ 2 \in 1 .. Len(digits)
        /\ 3 \in 1 .. Len(digits) /\ 4 \in 1 .. Len(digits)
    OBVIOUS
  <2>3. QED
    BY <2>1, <2>2, DigitType
<1> DEFINE a == DigitValue[digits[1]]
           b == DigitValue[digits[2]]
           c == DigitValue[digits[3]]
           d == DigitValue[digits[4]]
<1>4. a \in Nat /\ b \in Nat /\ c \in Nat /\ d \in Nat
  BY <1>3
<1>5. /\ v[0] = 0 /\ v[1] = 10 * v[0] + a /\ v[2] = 10 * v[1] + b
      /\ v[3] = 10 * v[2] + c /\ v[4] = 10 * v[3] + d /\ Number(digits) = v[4]
  BY <1>2
<1> HIDE DEF a, b, c, d
<1>6. v[2] = 10 * a + b
  BY <1>4, <1>5
<1>7. v[3] = 100 * a + 10 * b + c
  BY <1>4, <1>5, <1>6
<1>8. v[4] = 1000 * a + 100 * b + 10 * c + d
  BY <1>4, <1>5, <1>7
<1>9. QED
  BY <1>5, <1>8 DEF a, b, c, d

(* The digit of a value. *)
DigitFor(n) == CHOOSE c \in Digit : DigitValue[c] = n

(* There is one. *)
LEMMA DigitForIs ==
  ASSUME NEW n \in Nat, n <= 9
  PROVE  DigitFor(n) \in Digit /\ DigitValue[DigitFor(n)] = n
<1>1. \E c \in Digit : DigitValue[c] = n
  <2>1. \A k \in 0 .. 9 : \E c \in Digit : DigitValue[c] = k
    BY DigitAssumption, Zenon
  <2>2. QED
    BY <2>1
<1>2. QED
  BY <1>1 DEF DigitFor

(* What is written is read again.                                            *)
LEMMA WrittenTwo ==
  ASSUME NEW n \in Nat, n < 100
  PROVE  /\ Written(n, 2) \in Seq(Digit) /\ Len(Written(n, 2)) = 2
         /\ Number(Written(n, 2)) = n
<1> DEFINE w == [i \in 1 .. 2 |-> DigitFor((n \div <<1, 10, 100, 1000>>[2 - i + 1]) % 10)]
           a == (n \div 10) % 10
           b == (n \div 1) % 10
<1>1. Written(n, 2) = w
  BY DEF Written, DigitFor
<1>2. a \in Nat /\ a <= 9 /\ b \in Nat /\ b <= 9 /\ n = 10 * a + b
  OBVIOUS
<1>3. w[1] = DigitFor(a) /\ w[2] = DigitFor(b)
  BY DEF w
<1> HIDE DEF a, b
<1>4. /\ DigitFor(a) \in Digit /\ DigitFor(b) \in Digit
      /\ DigitValue[DigitFor(a)] = a /\ DigitValue[DigitFor(b)] = b
  BY <1>2, DigitForIs
<1>5. w = [i \in 1 .. 2 |-> w[i]]
  OBVIOUS
<1> HIDE DEF w
<1>6. w \in Seq(Digit) /\ Len(w) = 2
  <2>1. w = <<DigitFor(a), DigitFor(b)>>
    BY <1>3, <1>5
  <2>2. QED
    BY <1>4, <2>1
<1>7. Number(w) = n
  BY <1>2, <1>3, <1>4, <1>6, NumberOfTwo
<1>8. QED
  BY <1>1, <1>6, <1>7

LEMMA WrittenFour ==
  ASSUME NEW n \in Nat, n < 10000
  PROVE  /\ Written(n, 4) \in Seq(Digit) /\ Len(Written(n, 4)) = 4
         /\ Number(Written(n, 4)) = n
<1> DEFINE w == [i \in 1 .. 4 |-> DigitFor((n \div <<1, 10, 100, 1000>>[4 - i + 1]) % 10)]
           a == (n \div 1000) % 10
           b == (n \div 100) % 10
           c == (n \div 10) % 10
           d == (n \div 1) % 10
<1>1. Written(n, 4) = w
  BY DEF Written, DigitFor
<1>2. /\ a \in Nat /\ a <= 9 /\ b \in Nat /\ b <= 9
      /\ c \in Nat /\ c <= 9 /\ d \in Nat /\ d <= 9
      /\ n = 1000 * a + 100 * b + 10 * c + d
  OBVIOUS
<1>3. w[1] = DigitFor(a) /\ w[2] = DigitFor(b) /\ w[3] = DigitFor(c) /\ w[4] = DigitFor(d)
  BY DEF w
<1> HIDE DEF a, b, c, d
<1>4. /\ DigitFor(a) \in Digit /\ DigitValue[DigitFor(a)] = a
      /\ DigitFor(b) \in Digit /\ DigitValue[DigitFor(b)] = b
      /\ DigitFor(c) \in Digit /\ DigitValue[DigitFor(c)] = c
      /\ DigitFor(d) \in Digit /\ DigitValue[DigitFor(d)] = d
  BY <1>2, DigitForIs
<1>5. w = [i \in 1 .. 4 |-> w[i]]
  OBVIOUS
<1> HIDE DEF w
<1>6. w \in Seq(Digit) /\ Len(w) = 4
  <2>1. w = <<DigitFor(a), DigitFor(b), DigitFor(c), DigitFor(d)>>
    BY <1>3, <1>5
  <2>2. QED
    BY <1>4, <2>1
<1>7. Number(w) = 1000 * DigitValue[w[1]] + 100 * DigitValue[w[2]]
                  + 10 * DigitValue[w[3]] + DigitValue[w[4]]
  BY <1>6, NumberOfFour
<1>8. Number(w) = n
  BY <1>2, <1>3, <1>4, <1>7
<1>9. QED
  BY <1>1, <1>6, <1>8

(* The cuts f of a text, in order, its ends included.                        *)
InCuts(f, K, cuts) ==
  /\ \A k \in 0 .. K : f[k] \in Int
  /\ \A j, k \in 0 .. K : j < k => f[j] < f[k]
  /\ cuts = {f[k] : k \in 0 .. K}

(* The k-th cut is the one with k before it. *)
LEMMA CutsInOrder ==
  ASSUME NEW K \in Nat, NEW f, NEW cuts, InCuts(f, K, cuts)
  PROVE  /\ Cardinality(cuts) = K + 1
         /\ \A k \in 0 .. K : Cut(cuts, k) = f[k]
<1>1. /\ \A k \in 0 .. K : f[k] \in Int
      /\ \A j, k \in 0 .. K : j < k => f[j] < f[k]
      /\ \A k \in 0 .. K : f[k] \in cuts
      /\ \A c \in cuts : \E k \in 0 .. K : f[k] = c
  BY DEF InCuts
<1>2. \A j, k \in 0 .. K : f[j] = f[k] => j = k
  <2> SUFFICES ASSUME NEW j \in 0 .. K, NEW k \in 0 .. K, f[j] = f[k], j # k
               PROVE  FALSE
    OBVIOUS
  <2>1. j < k \/ k < j
    OBVIOUS
  <2>2. f[j] < f[k] \/ f[k] < f[j]
    BY <1>1, <2>1
  <2>3. f[j] \in Int /\ f[k] \in Int
    BY <1>1
  <2>4. QED
    BY <2>2, <2>3
<1> DEFINE g == [j \in 1 .. K + 1 |-> f[j - 1]]
<1>3. \A j \in 1 .. K + 1 : j - 1 \in 0 .. K /\ g[j] = f[j - 1]
  OBVIOUS
<1> HIDE DEF g
<1>4. \A k \in 0 .. K : k + 1 \in 1 .. K + 1 /\ g[k + 1] = f[k]
  <2> TAKE k \in 0 .. K
  <2>1. k + 1 \in 1 .. K + 1 /\ (k + 1) - 1 = k
    OBVIOUS
  <2>2. g[k + 1] = f[(k + 1) - 1]
    BY <1>3, <2>1
  <2>3. QED
    BY <2>1, <2>2
<1>5. Cardinality(cuts) = K + 1
  <2>1. \A j \in 1 .. K + 1 : g[j] \in cuts
    BY <1>1, <1>3
  <2>2. \A c \in cuts : \E j \in 1 .. K + 1 : g[j] = c
    BY <1>1, <1>4
  <2>3. \A i, j \in 1 .. K + 1 : g[i] = g[j] => i = j
    <3> TAKE i, j \in 1 .. K + 1
    <3>1. g[i] = g[j] => i - 1 = j - 1
      BY <1>2, <1>3
    <3>2. QED
      BY <3>1
  <2>4. K + 1 \in Nat
    OBVIOUS
  <2>5. QED
    BY <2>1, <2>2, <2>3, <2>4, Enumerated
<1>6. ASSUME NEW k \in 0 .. K
      PROVE  Cardinality({d \in cuts : d < f[k]}) = k
  <2> DEFINE A == {d \in cuts : d < f[k]}
  <2>1. k \in Nat /\ \A j \in 1 .. k : j - 1 \in 0 .. K /\ j - 1 < k /\ j \in 1 .. K + 1
    OBVIOUS
  <2>2. \A j \in 1 .. k : g[j] \in A
    <3> TAKE j \in 1 .. k
    <3>1. g[j] = f[j - 1] /\ j - 1 \in 0 .. K /\ j - 1 < k
      BY <1>3, <2>1
    <3>2. f[j - 1] < f[k] /\ f[j - 1] \in cuts
      BY <1>1, <3>1
    <3>3. QED
      BY <3>1, <3>2
  <2>3. \A d \in A : \E j \in 1 .. k : g[j] = d
    <3> TAKE d \in A
    <3>1. PICK i \in 0 .. K : f[i] = d
      BY <1>1
    <3>2. f[i] \in Int /\ f[k] \in Int /\ f[i] < f[k]
      BY <1>1, <3>1
    <3>3. i # k /\ ~ (k < i)
      <4>1. k < i => f[k] < f[i]
        BY <1>1
      <4>2. QED
        BY <3>2, <4>1
    <3>4. i + 1 \in 1 .. k
      BY <3>3
    <3>5. QED
      BY <1>4, <3>1, <3>4
  <2>4. \A i, j \in 1 .. k : g[i] = g[j] => i = j
    <3> TAKE i, j \in 1 .. k
    <3>0. g[i] = f[i - 1] /\ g[j] = f[j - 1] /\ i - 1 \in 0 .. K /\ j - 1 \in 0 .. K
      BY <1>3, <2>1
    <3>1. g[i] = g[j] => i - 1 = j - 1
      BY <1>2, <3>0
    <3>2. QED
      BY <3>1
  <2> HIDE DEF A
  <2>5. Cardinality(A) = k
    BY <2>1, <2>2, <2>3, <2>4, Enumerated
  <2>6. QED
    BY <2>5 DEF A
<1>7. ASSUME NEW k \in 0 .. K
      PROVE  Cut(cuts, k) = f[k]
  <2> DEFINE Is(c) == Cardinality({d \in cuts : d < c}) = k
  <2>1. f[k] \in cuts /\ Is(f[k])
    BY <1>1, <1>6
  <2>2. \A c \in cuts : Is(c) => c = f[k]
    <3> SUFFICES ASSUME NEW c \in cuts, Is(c) PROVE c = f[k]
      OBVIOUS
    <3>1. PICK i \in 0 .. K : f[i] = c
      BY <1>1
    <3>2. Cardinality({d \in cuts : d < f[i]}) = i
      BY <1>6
    <3>3. i = k
      BY <3>1, <3>2
    <3>4. QED
      BY <3>1, <3>3
  <2>3. Cut(cuts, k) = CHOOSE c \in cuts : Is(c)
    BY DEF Cut
  <2> HIDE DEF Is
  <2>4. QED
    BY <2>1, <2>2, <2>3
<1>8. QED
  BY <1>5, <1>7

(* The pieces are what lies between the cuts. *)
LEMMA PiecesAre ==
  ASSUME NEW text, NEW K \in Nat, NEW f, InCuts(f, K, Cuts(text))
  PROVE  Pieces(text) = [k \in 1 .. K |-> SubSeq(text, f[k - 1] + 1, f[k] - 1)]
<1> DEFINE cuts == Cuts(text)
<1>1. Cardinality(cuts) = K + 1 /\ \A k \in 0 .. K : Cut(cuts, k) = f[k]
  BY CutsInOrder
<1> HIDE DEF cuts
<1>2. Pieces(text) = [k \in 1 .. Cardinality(cuts) - 1 |->
                        SubSeq(text, Cut(cuts, k - 1) + 1, Cut(cuts, k) - 1)]
  BY DEF Pieces, cuts
<1>3. Cardinality(cuts) - 1 = K
  BY <1>1
<1>4. \A k \in 1 .. K : k \in 0 .. K /\ k - 1 \in 0 .. K
  OBVIOUS
<1>5. \A k \in 1 .. K : Cut(cuts, k - 1) = f[k - 1] /\ Cut(cuts, k) = f[k]
  BY <1>1, <1>4
<1>6. QED
  BY <1>2, <1>3, <1>5

(* No digit is a delimiter. *)
LEMMA NoDelimiter ==
  ASSUME NEW c \in Digit
  PROVE  c \notin {"-", "/"}
<1>1. "-" \notin Digit /\ "/" \notin Digit
  BY DigitAssumption, Zenon
<1>2. QED
  BY <1>1

(* Digits without a delimiter are one piece.                                 *)
LEMMA OnePiece ==
  ASSUME NEW text \in Seq(Digit)
  PROVE  Pieces(text) = <<text>>
<1> DEFINE n == Len(text)
           f == [k \in 0 .. 1 |-> IF k = 0 THEN 0 ELSE n + 1]
<1>1. n \in Nat /\ DOMAIN text = 1 .. n /\ \A i \in 1 .. n : text[i] \in Digit
  OBVIOUS
<1>2. Cuts(text) = {0, n + 1}
  <2>1. \A i \in 1 .. n : text[i] \notin {"-", "/"}
    BY <1>1, NoDelimiter
  <2>2. QED
    BY <1>1, <2>1 DEF Cuts
<1>3. f[0] = 0 /\ f[1] = n + 1 /\ 0 .. 1 = {0, 1}
  OBVIOUS
<1> HIDE DEF n, f
<1>4. InCuts(f, 1, Cuts(text))
  BY <1>1, <1>2, <1>3 DEF InCuts
<1>5. Pieces(text) = [k \in 1 .. 1 |-> SubSeq(text, f[k - 1] + 1, f[k] - 1)]
  BY <1>4, PiecesAre
<1>6. SubSeq(text, 1, n) = text
  BY <1>1 DEF n
<1>7. 1 .. 1 = {1}
  OBVIOUS
<1>8. Pieces(text) = [k \in 1 .. 1 |-> text]
  <2>1. \A k \in 1 .. 1 : SubSeq(text, f[k - 1] + 1, f[k] - 1) = text
    <3> TAKE k \in 1 .. 1
    <3>1. k - 1 = 0 /\ k = 1
      OBVIOUS
    <3>2. f[k - 1] + 1 = 1 /\ f[k] - 1 = n
      BY <1>1, <1>3, <3>1
    <3>3. QED
      BY <1>6, <3>2
  <2>2. QED
    BY <1>5, <2>1
<1>9. [k \in 1 .. 1 |-> text] = <<text>>
  OBVIOUS
<1>10. QED
  BY <1>8, <1>9

(* What has a length is not empty. *)
LEMMA NotEmpty ==
  ASSUME NEW a, Len(a) # 0
  PROVE  a # <<>>
<1>1. Len(<<>>) = 0
  OBVIOUS
<1>2. QED
  BY <1>1

(* The part s of a text, behind its first lo letters.                        *)
HasAt(text, lo, s) ==
  /\ lo \in Nat /\ lo + Len(s) <= Len(text)
  /\ \A i \in 1 .. Len(s) : text[lo + i] = s[i]

(* A text has itself as a part. *)
LEMMA HasItself ==
  ASSUME NEW Letter, NEW s \in Seq(Letter)
  PROVE  HasAt(s, 0, s)
<1>1. Len(s) \in Nat /\ \A i \in 1 .. Len(s) : 0 + i = i
  OBVIOUS
<1>2. QED
  BY <1>1 DEF HasAt

(* Texts put together have the parts of both. *)
LEMMA HasBoth ==
  ASSUME NEW Letter, NEW s \in Seq(Letter), NEW t \in Seq(Letter)
  PROVE  /\ s \o t \in Seq(Letter) /\ Len(s \o t) = Len(s) + Len(t)
         /\ HasAt(s \o t, Len(s), t)
         /\ \A lo, u : Len(u) \in Nat /\ HasAt(s, lo, u) => HasAt(s \o t, lo, u)
<1> DEFINE c == s \o t
<1>1. /\ c \in Seq(Letter) /\ Len(c) = Len(s) + Len(t)
      /\ Len(s) \in Nat /\ Len(t) \in Nat
      /\ \A i \in 1 .. Len(s) : c[i] = s[i]
      /\ \A i \in 1 .. Len(t) : c[Len(s) + i] = t[i]
  OBVIOUS
<1> HIDE DEF c
<1>2. HasAt(c, Len(s), t)
  BY <1>1 DEF HasAt
<1>3. ASSUME NEW lo, NEW u, Len(u) \in Nat, HasAt(s, lo, u) PROVE HasAt(c, lo, u)
  <2>1. /\ lo \in Nat /\ lo + Len(u) <= Len(s)
        /\ \A i \in 1 .. Len(u) : s[lo + i] = u[i]
    BY <1>3 DEF HasAt
  <2>2. \A i \in 1 .. Len(u) : lo + i \in 1 .. Len(s)
    BY <1>1, <1>3, <2>1
  <2>3. \A i \in 1 .. Len(u) : c[lo + i] = u[i]
    BY <1>1, <2>1, <2>2
  <2>4. lo + Len(u) <= Len(c)
    BY <1>1, <1>3, <2>1
  <2>5. QED
    BY <2>1, <2>3, <2>4 DEF HasAt
<1>4. QED
  BY <1>1, <1>2, <1>3 DEF c

(* A part is what SubSeq cuts out there. *)
LEMMA Slice ==
  ASSUME NEW Letter, NEW text \in Seq(Letter), NEW s \in Seq(Letter), NEW lo \in Nat, HasAt(text, lo, s)
  PROVE  SubSeq(text, lo + 1, lo + Len(s)) = s
<1> DEFINE n == Len(s)
           c == SubSeq(text, lo + 1, lo + n)
<1>1. /\ n \in Nat /\ Len(text) \in Nat /\ lo + n <= Len(text)
      /\ \A i \in 1 .. n : text[lo + i] = s[i]
  BY DEF HasAt
<1>2. s = [i \in 1 .. n |-> s[i]]
  OBVIOUS
<1> HIDE DEF n
<1>3. c = [i \in 1 .. n |-> text[lo + i]]
  <2>1. c = [i \in 1 .. (1 + (lo + n)) - (lo + 1) |-> text[i + (lo + 1) - 1]]
    BY <1>1
  <2>2. (1 + (lo + n)) - (lo + 1) = n
    BY <1>1
  <2>3. \A i \in 1 .. n : i + (lo + 1) - 1 = lo + i
    BY <1>1
  <2> HIDE DEF c
  <2>4. QED
    BY <2>1, <2>2, <2>3
<1> HIDE DEF c
<1>4. QED
  BY <1>1, <1>2, <1>3 DEF c, n

(* A delimiter between each two of three numbers parts them.                 *)
Dashed(a, b, c, x) == a \o <<x>> \o b \o <<x>> \o c

(* The parts of such a text. *)
LEMMA DashedHas ==
  ASSUME NEW Letter, NEW a \in Seq(Letter), NEW b \in Seq(Letter), NEW c \in Seq(Letter), NEW x \in Letter,
         Len(a) = 2, Len(b) = 2, Len(c) = 4
  PROVE  /\ Dashed(a, b, c, x) \in Seq(Letter) /\ Len(Dashed(a, b, c, x)) = 10
         /\ HasAt(Dashed(a, b, c, x), 0, a)
         /\ HasAt(Dashed(a, b, c, x), 2, <<x>>)
         /\ HasAt(Dashed(a, b, c, x), 3, b)
         /\ HasAt(Dashed(a, b, c, x), 5, <<x>>)
         /\ HasAt(Dashed(a, b, c, x), 6, c)
<1> DEFINE y == <<x>>
           p == a \o y
           q == p \o b
           r == q \o y
           t == r \o c
<1>1. y \in Seq(Letter) /\ Len(y) = 1
  OBVIOUS
<1>2. Dashed(a, b, c, x) = t
  BY DEF Dashed
<1> HIDE DEF y
<1>3. HasAt(a, 0, a)
  BY HasItself
<1>4. /\ p \in Seq(Letter) /\ Len(p) = 3 /\ HasAt(p, 0, a) /\ HasAt(p, 2, y)
  <2>1. /\ p \in Seq(Letter) /\ Len(p) = Len(a) + Len(y) /\ HasAt(p, Len(a), y)
        /\ \A lo, u : Len(u) \in Nat /\ HasAt(a, lo, u) => HasAt(p, lo, u)
    BY <1>1, HasBoth
  <2> HIDE DEF p
  <2>2. QED
    BY <1>1, <1>3, <2>1
<1> HIDE DEF p
<1>5. /\ q \in Seq(Letter) /\ Len(q) = 5 /\ HasAt(q, 0, a) /\ HasAt(q, 2, y) /\ HasAt(q, 3, b)
  <2>1. /\ q \in Seq(Letter) /\ Len(q) = Len(p) + Len(b) /\ HasAt(q, Len(p), b)
        /\ \A lo, u : Len(u) \in Nat /\ HasAt(p, lo, u) => HasAt(q, lo, u)
    BY <1>4, HasBoth
  <2> HIDE DEF q
  <2>2. QED
    BY <1>1, <1>4, <2>1
<1> HIDE DEF q
<1>6. /\ r \in Seq(Letter) /\ Len(r) = 6 /\ HasAt(r, 0, a) /\ HasAt(r, 2, y) /\ HasAt(r, 3, b)
      /\ HasAt(r, 5, y)
  <2>1. /\ r \in Seq(Letter) /\ Len(r) = Len(q) + Len(y) /\ HasAt(r, Len(q), y)
        /\ \A lo, u : Len(u) \in Nat /\ HasAt(q, lo, u) => HasAt(r, lo, u)
    BY <1>1, <1>5, HasBoth
  <2> HIDE DEF r
  <2>2. QED
    BY <1>1, <1>5, <2>1
<1> HIDE DEF r
<1>7. /\ t \in Seq(Letter) /\ Len(t) = 10 /\ HasAt(t, 0, a) /\ HasAt(t, 2, y) /\ HasAt(t, 3, b)
      /\ HasAt(t, 5, y) /\ HasAt(t, 6, c)
  <2>1. /\ t \in Seq(Letter) /\ Len(t) = Len(r) + Len(c) /\ HasAt(t, Len(r), c)
        /\ \A lo, u : Len(u) \in Nat /\ HasAt(r, lo, u) => HasAt(t, lo, u)
    BY <1>6, HasBoth
  <2> HIDE DEF t
  <2>2. QED
    BY <1>1, <1>6, <2>1
<1> HIDE DEF t
<1>8. QED
  BY <1>2, <1>7 DEF y

(* They are its pieces. *)
LEMMA ThreePieces ==
  ASSUME NEW a \in Seq(Digit), NEW b \in Seq(Digit), NEW c \in Seq(Digit), NEW x \in {"-", "/"},
         Len(a) = 2, Len(b) = 2, Len(c) = 4
  PROVE  /\ Pieces(Dashed(a, b, c, x)) = <<a, b, c>>
         /\ Dashed(a, b, c, x) # <<>>
<1> DEFINE text == Dashed(a, b, c, x)
           Letter == Digit \cup {x}
           f == [k \in 0 .. 3 |-> IF k = 0 THEN 0 ELSE IF k = 1 THEN 3
                                  ELSE IF k = 2 THEN 6 ELSE 11]
<1>1. a \in Seq(Letter) /\ b \in Seq(Letter) /\ c \in Seq(Letter) /\ x \in Letter
  OBVIOUS
<1> HIDE DEF Letter
<1>2. /\ text \in Seq(Letter) /\ Len(text) = 10
      /\ HasAt(text, 0, a) /\ HasAt(text, 2, <<x>>) /\ HasAt(text, 3, b)
      /\ HasAt(text, 5, <<x>>) /\ HasAt(text, 6, c)
  BY <1>1, DashedHas
<1> HIDE DEF text
<1>3. /\ SubSeq(text, 1, 2) = a /\ SubSeq(text, 4, 5) = b /\ SubSeq(text, 7, 10) = c
  <2>1. SubSeq(text, 0 + 1, 0 + Len(a)) = a
    BY <1>1, <1>2, Slice
  <2>2. SubSeq(text, 3 + 1, 3 + Len(b)) = b
    BY <1>1, <1>2, Slice
  <2>3. SubSeq(text, 6 + 1, 6 + Len(c)) = c
    BY <1>1, <1>2, Slice
  <2>4. QED
    BY <2>1, <2>2, <2>3
<1>4. /\ \A i \in 1 .. 2 : text[i] \notin {"-", "/"} /\ text[3 + i] \notin {"-", "/"}
      /\ \A i \in 1 .. 4 : text[6 + i] \notin {"-", "/"}
  <2>1. /\ \A i \in 1 .. 2 : a[i] \in Digit
        /\ \A i \in 1 .. 2 : b[i] \in Digit
        /\ \A i \in 1 .. 4 : c[i] \in Digit
    OBVIOUS
  <2>2. /\ \A i \in 1 .. 2 : text[0 + i] = a[i]
        /\ \A i \in 1 .. 2 : text[3 + i] = b[i]
        /\ \A i \in 1 .. 4 : text[6 + i] = c[i]
    BY <1>2 DEF HasAt
  <2>3. QED
    BY <2>1, <2>2, NoDelimiter
<1>5. text[3] = x /\ text[6] = x
  <2>1. /\ \A i \in 1 .. 1 : text[2 + i] = <<x>>[i]
        /\ \A i \in 1 .. 1 : text[5 + i] = <<x>>[i]
    BY <1>2 DEF HasAt
  <2>2. 1 \in 1 .. 1 /\ <<x>>[1] = x
    OBVIOUS
  <2>3. QED
    BY <2>1, <2>2
<1>6. Cuts(text) = {0, 3, 6, 11}
  <2> DEFINE inside == {i \in DOMAIN text : text[i] \in {"-", "/"}}
  <2>1. DOMAIN text = 1 .. 10
    BY <1>2
  <2>2. \A i \in 1 .. 10 : i = 3 \/ i = 6 \/ i \in 1 .. 2 \/ i - 3 \in 1 .. 2 \/ i - 6 \in 1 .. 4
    OBVIOUS
  <2>3. \A i \in 1 .. 10 : i = 3 + (i - 3) /\ i = 6 + (i - 6)
    OBVIOUS
  <2>4. \A i \in 1 .. 10 : text[i] \in {"-", "/"} <=> i = 3 \/ i = 6
    <3> TAKE i \in 1 .. 10
    <3>1. CASE i = 3 \/ i = 6
      BY <1>5, <3>1
    <3>2. CASE i \in 1 .. 2
      BY <1>4, <3>2
    <3>3. CASE i - 3 \in 1 .. 2
      <4>1. text[3 + (i - 3)] \notin {"-", "/"} /\ i # 3 /\ i # 6
        BY <1>4, <3>3
      <4>2. QED
        BY <2>3, <4>1
    <3>4. CASE i - 6 \in 1 .. 4
      <4>1. text[6 + (i - 6)] \notin {"-", "/"} /\ i # 3 /\ i # 6
        BY <1>4, <3>4
      <4>2. QED
        BY <2>3, <4>1
    <3>5. QED
      BY <2>2, <3>1, <3>2, <3>3, <3>4
  <2>5. 3 \in 1 .. 10 /\ 6 \in 1 .. 10
    OBVIOUS
  <2>6. inside = {3, 6}
    BY <2>1, <2>4, <2>5
  <2>7. Cuts(text) = inside \cup {0, 11}
    BY <1>2 DEF Cuts
  <2> HIDE DEF inside
  <2>8. QED
    BY <2>6, <2>7
<1>7. f[0] = 0 /\ f[1] = 3 /\ f[2] = 6 /\ f[3] = 11 /\ 0 .. 3 = {0, 1, 2, 3}
  OBVIOUS
<1> HIDE DEF f
<1>8. InCuts(f, 3, Cuts(text))
  BY <1>6, <1>7 DEF InCuts
<1>9. Pieces(text) = [k \in 1 .. 3 |-> SubSeq(text, f[k - 1] + 1, f[k] - 1)]
  BY <1>8, PiecesAre
<1> DEFINE P(k) == SubSeq(text, f[k - 1] + 1, f[k] - 1)
<1>10. P(1) = a /\ P(2) = b /\ P(3) = c
  <2>1. f[1 - 1] + 1 = 1 /\ f[1] - 1 = 2
    BY <1>7
  <2>2. f[2 - 1] + 1 = 4 /\ f[2] - 1 = 5
    BY <1>7
  <2>3. f[3 - 1] + 1 = 7 /\ f[3] - 1 = 10
    BY <1>7
  <2>4. QED
    BY <1>3, <2>1, <2>2, <2>3
<1>11. Pieces(text) = [k \in 1 .. 3 |-> P(k)]
  BY <1>9
<1> HIDE DEF P
<1>12. [k \in 1 .. 3 |-> P(k)] = <<P(1), P(2), P(3)>>
  OBVIOUS
<1>13. text # <<>>
  <2>1. Len(text) # 0
    BY <1>2
  <2>2. QED
    BY <2>1, NotEmpty, Zenon
<1>14. QED
  BY <1>10, <1>11, <1>12, <1>13 DEF text

----------------------------------------------------------------------------
(* Candidate and ParseScheduleDate on the parts of a text.                   *)

(* A date that is accepted. *)
Accepted(date) == [ok |-> TRUE, date |-> date]

(* A date is accepted if the month has the day.                              *)
LEMMA CandidateExact ==
  ASSUME NEW y \in Year, NEW m \in Month, NEW d \in Nat, 1 <= d, d <= 31
  PROVE  Candidate(d, m, y) = IF d <= DaysIn(m, y)
                              THEN Accepted(Hours(FirstOf(m, y) + d - 1) - ictOffset)
                              ELSE Refused
<1> DEFINE day == FirstOf(m, y) + d - 1
           date == [day |-> d, month |-> m, year |-> y]
           n == DaysIn(m, y)
<1>1. y \in Int /\ n \in Nat /\ 28 <= n /\ n <= 31
  <2>1. y \in Int
    BY DEF Year
  <2>2. n \in 28 .. 31
    BY <2>1, MonthLength
  <2>3. QED
    BY <2>1, <2>2
<1>2. Candidate(d, m, y) = IF Civil(day) # date THEN Refused ELSE Accepted(Hours(day) - ictOffset)
  BY DEF Candidate, Accepted
<1>3. CASE d <= n
  <2>1. d \in 1 .. n
    BY <1>1, <1>3
  <2>2. Civil(day) = date
    BY <2>1, CivilOf
  <2>3. QED
    BY <1>2, <1>3, <2>2
<1>4. CASE ~ (d <= n)
  <2>1. m \in Month /\ m # 12
    BY <1>1, <1>4 DEF DaysIn
  <2>2. m + 1 \in Month \ {1} /\ (m + 1) - 1 = m
    BY <2>1 DEF Month
  <2>3. FirstOf(m + 1, y) = FirstOf(m, y) + n
    <3>1. DaysBefore(m + 1, y) = DaysBefore((m + 1) - 1, y) + DaysIn((m + 1) - 1, y)
      BY <1>1, <2>2, MonthsAddUp
    <3>2. FirstOf(m, y) = NewYear(y) + DaysBefore(m, y)
      BY <1>1, FirstOfMonth
    <3>3. FirstOf(m + 1, y) = NewYear(y) + DaysBefore(m + 1, y)
      BY <1>1, <2>2, FirstOfMonth
    <3>4. NewYear(y) \in Int
      BY <1>1 DEF NewYear
    <3>5. DaysBefore(m, y) \in Nat
      BY <1>1, MonthLength
    <3> HIDE DEF n
    <3>6. QED
      BY <1>1, <2>2, <3>1, <3>2, <3>3, <3>4, <3>5 DEF n
  <2>4. DaysIn(m + 1, y) \in 28 .. 31 /\ FirstOf(m + 1, y) \in Int
    <3>1. DaysIn(m + 1, y) \in 28 .. 31 /\ DaysBefore(m + 1, y) \in Nat
      BY <1>1, <2>2, MonthLength
    <3>2. FirstOf(m + 1, y) = NewYear(y) + DaysBefore(m + 1, y)
      BY <1>1, <2>2, FirstOfMonth
    <3>3. NewYear(y) \in Int
      BY <1>1 DEF NewYear
    <3>4. QED
      BY <3>1, <3>2, <3>3
  <2>5. FirstOf(m, y) \in Int
    <3>1. DaysBefore(m, y) \in Nat
      BY <1>1, MonthLength
    <3>2. FirstOf(m, y) = NewYear(y) + DaysBefore(m, y)
      BY <1>1, FirstOfMonth
    <3>3. NewYear(y) \in Int
      BY <1>1 DEF NewYear
    <3>4. QED
      BY <3>1, <3>2, <3>3
  <2>6. d - n \in Nat /\ 1 <= d - n /\ d - n <= 3
    BY <1>1, <1>4
  <2>7. d - n \in 1 .. DaysIn(m + 1, y)
    BY <2>4, <2>6
  <2>8. Civil(FirstOf(m + 1, y) + (d - n) - 1) = [day |-> d - n, month |-> m + 1, year |-> y]
    BY <2>2, <2>7, CivilOf
  <2>9. FirstOf(m + 1, y) + (d - n) - 1 = day
    BY <1>1, <2>3, <2>5
  <2>10. Civil(day).day = d - n
    BY <2>8, <2>9
  <2>11. d - n # d
    BY <1>1
  <2> HIDE DEF n, day
  <2>12. Civil(day) # date
    BY <2>10, <2>11
  <2>13. QED
    BY <1>2, <1>4, <2>12 DEF n
<1>5. QED
  BY <1>3, <1>4

(* What is made of the numbers.                                              *)
Taken(day, month, year) == day \in 1 .. 31 /\ month \in 1 .. 12 /\ year \in 1970 .. 2100

DateOf(day, month, year) ==
  IF Taken(day, month, year) THEN Candidate(day, month, year) ELSE Refused

(* Digits are a number. *)
LEMMA NumberText ==
  ASSUME NEW a \in Seq(Digit), a # <<>>
  PROVE  IsNumber(a)
<1>1. \A i \in DOMAIN a : a[i] \in Digit
  OBVIOUS
<1>2. ToSet(a) \subseteq Digit
  BY <1>1 DEF ToSet
<1>3. QED
  BY <1>2 DEF IsNumber

(* A date with delimiters is the one of its three numbers. *)
LEMMA DashedReads ==
  ASSUME NEW a \in Seq(Digit), NEW b \in Seq(Digit), NEW c \in Seq(Digit), NEW x \in {"-", "/"},
         Len(a) = 2, Len(b) = 2, Len(c) = 4, NEW at
  PROVE  ParseScheduleDate(Dashed(a, b, c, x), at) = DateOf(Number(a), Number(b), Number(c))
<1> DEFINE text == Dashed(a, b, c, x)
           parts == <<a, b, c>>
<1>1. Pieces(text) = parts /\ text # <<>>
  BY ThreePieces
<1> HIDE DEF text
<1>2. IsNumber(a) /\ IsNumber(b) /\ IsNumber(c)
  <2>0. Len(a) # 0 /\ Len(b) # 0 /\ Len(c) # 0
    OBVIOUS
  <2>1. a # <<>> /\ b # <<>> /\ c # <<>>
    BY <2>0, NotEmpty, Zenon
  <2>2. IsNumber(a)
    BY <2>1, NumberText
  <2>3. IsNumber(b)
    BY <2>1, NumberText
  <2>4. IsNumber(c)
    BY <2>1, NumberText
  <2>5. QED
    BY <2>2, <2>3, <2>4
<1>3. /\ Len(parts) = 3 /\ DOMAIN parts = {1, 2, 3}
      /\ parts[1] = a /\ parts[2] = b /\ parts[3] = c
  OBVIOUS
<1> HIDE DEF parts
<1>4. splitParts(text) = parts
  <2>1. Len(parts) <= 3 /\ Len(parts) > 1
    BY <1>3
  <2>2. \A i \in DOMAIN parts : IsNumber(parts[i])
    BY <1>2, <1>3
  <2>3. ~ (Len(parts) > 3 \/ \E i \in DOMAIN parts : ~IsNumber(parts[i]))
    BY <2>1, <2>2, <1>3
  <2>4. QED
    BY <1>1, <2>1, <2>3 DEF splitParts
<1>5. parts # <<>>
  <2>1. Len(parts) # 0
    BY <1>3
  <2>2. QED
    BY <2>1, NotEmpty, Zenon
<1>6. ParseScheduleDate(text, at) =
        LET day == Number(parts[1])
            month == IF Len(parts) >= 2 THEN Number(parts[2]) ELSE Civil(DayOf(at)).month
            year == IF Len(parts) >= 3 THEN Number(parts[3]) ELSE Civil(DayOf(at)).year
        IN  DateOf(day, month, year)
  BY <1>1, <1>4, <1>5 DEF ParseScheduleDate, DateOf, Taken
<1>7. Len(parts) >= 2 /\ Len(parts) >= 3
  BY <1>3
<1>8. ParseScheduleDate(text, at) = DateOf(Number(a), Number(b), Number(c))
  BY <1>3, <1>6, <1>7, Zenon
<1>9. QED
  BY <1>8 DEF text

(* A text is the date of the numbers it splits into, and of today.          *)
LEMMA PartsRead ==
  ASSUME NEW text, NEW parts, NEW at, text # <<>>, splitParts(text) = parts, parts # <<>>
  PROVE  ParseScheduleDate(text, at) =
           DateOf(Number(parts[1]),
                  IF Len(parts) >= 2 THEN Number(parts[2]) ELSE Civil(DayOf(at)).month,
                  IF Len(parts) >= 3 THEN Number(parts[3]) ELSE Civil(DayOf(at)).year)
BY DEF ParseScheduleDate, DateOf, Taken

(* A number of n digits is parted by its length.                             *)
LEMMA NumberParted ==
  ASSUME NEW text \in Seq(Digit), text # <<>>
  PROVE  /\ Len(text) <= 2 => splitParts(text) = <<text>>
         /\ Len(text) = 4 => splitParts(text) = <<SubSeq(text, 1, 2), SubSeq(text, 3, 4)>>
         /\ Len(text) = 8 => splitParts(text) = <<SubSeq(text, 1, 2), SubSeq(text, 3, 4),
                                                  SubSeq(text, 5, 8)>>
<1> DEFINE parts == <<text>>
<1>1. Pieces(text) = parts
  BY OnePiece
<1>2. Len(parts) = 1 /\ DOMAIN parts = {1} /\ parts[1] = text
  OBVIOUS
<1> HIDE DEF parts
<1>3. IsNumber(text)
  BY NumberText
<1>4. ~ (Len(parts) > 3 \/ \E i \in DOMAIN parts : ~IsNumber(parts[i]))
  BY <1>2, <1>3
<1>5. ~ (Len(parts) > 1)
  BY <1>2
<1>6. splitParts(text) =
        IF Len(text) <= 2 THEN parts
        ELSE IF Len(text) = 4 THEN <<SubSeq(text, 1, 2), SubSeq(text, 3, 4)>>
        ELSE IF Len(text) = 8 THEN <<SubSeq(text, 1, 2), SubSeq(text, 3, 4), SubSeq(text, 5, 8)>>
        ELSE <<>>
  BY <1>1, <1>4, <1>5 DEF splitParts
<1> DEFINE n == Len(text)
<1>7. n \in Nat
  OBVIOUS
<1> HIDE DEF n
<1>8. (n = 4 => ~ (n <= 2)) /\ (n = 8 => n # 4 /\ ~ (n <= 2))
  BY <1>7
<1>9. Len(text) <= 2 => splitParts(text) = <<text>>
  BY <1>6 DEF parts
<1>10. Len(text) = 4 => splitParts(text) = <<SubSeq(text, 1, 2), SubSeq(text, 3, 4)>>
  BY <1>6, <1>8, Zenon DEF n
<1>11. Len(text) = 8 => splitParts(text) = <<SubSeq(text, 1, 2), SubSeq(text, 3, 4),
                                             SubSeq(text, 5, 8)>>
  BY <1>6, <1>8, Zenon DEF n
<1>12. QED
  BY <1>9, <1>10, <1>11

(* Two digits are a day of this month. *)
LEMMA OneReads ==
  ASSUME NEW a \in Seq(Digit), Len(a) = 2, NEW at
  PROVE  ParseScheduleDate(a, at) =
           DateOf(Number(a), Civil(DayOf(at)).month, Civil(DayOf(at)).year)
<1> DEFINE parts == <<a>>
<1>1. a # <<>>
  <2>1. Len(a) # 0
    OBVIOUS
  <2>2. QED
    BY <2>1, NotEmpty, Zenon
<1>2. splitParts(a) = parts
  <2>1. Len(a) <= 2 => splitParts(a) = <<a>>
    BY <1>1, NumberParted
  <2>2. Len(a) <= 2
    OBVIOUS
  <2>3. QED
    BY <2>1, <2>2
<1>3. Len(parts) = 1 /\ parts[1] = a
  OBVIOUS
<1> HIDE DEF parts
<1>4. Len(parts) # 0 /\ ~ (Len(parts) >= 2) /\ ~ (Len(parts) >= 3)
  BY <1>3
<1>5. parts # <<>>
  BY <1>4, NotEmpty, Zenon
<1>6. ParseScheduleDate(a, at) =
        DateOf(Number(parts[1]),
               IF Len(parts) >= 2 THEN Number(parts[2]) ELSE Civil(DayOf(at)).month,
               IF Len(parts) >= 3 THEN Number(parts[3]) ELSE Civil(DayOf(at)).year)
  BY <1>1, <1>2, <1>5, PartsRead
<1>7. QED
  BY <1>3, <1>4, <1>6, Zenon

(* Four are a day and a month of this year. *)
LEMMA TwoRead ==
  ASSUME NEW a \in Seq(Digit), NEW b \in Seq(Digit), Len(a) = 2, Len(b) = 2, NEW at
  PROVE  ParseScheduleDate(a \o b, at) = DateOf(Number(a), Number(b), Civil(DayOf(at)).year)
<1> DEFINE parts == <<a, b>>
           text == a \o b
<1>1. /\ text \in Seq(Digit) /\ Len(text) = 4 /\ HasAt(text, 0, a) /\ HasAt(text, 2, b)
  <2>0. HasAt(a, 0, a)
    BY HasItself
  <2>1. /\ text \in Seq(Digit) /\ Len(text) = Len(a) + Len(b) /\ HasAt(text, Len(a), b)
        /\ \A lo, u : Len(u) \in Nat /\ HasAt(a, lo, u) => HasAt(text, lo, u)
    BY HasBoth
  <2> HIDE DEF text
  <2>2. QED
    BY <2>0, <2>1
<1> HIDE DEF text
<1>2. SubSeq(text, 1, 2) = a /\ SubSeq(text, 3, 4) = b
  <2>1. SubSeq(text, 0 + 1, 0 + Len(a)) = a
    BY <1>1, Slice
  <2>2. SubSeq(text, 2 + 1, 2 + Len(b)) = b
    BY <1>1, Slice
  <2>3. QED
    BY <2>1, <2>2
<1>3. text # <<>>
  <2>1. Len(text) # 0
    BY <1>1
  <2>2. QED
    BY <2>1, NotEmpty, Zenon
<1>4. splitParts(text) = parts
  <2>1. splitParts(text) = <<SubSeq(text, 1, 2), SubSeq(text, 3, 4)>>
    BY <1>1, <1>3, NumberParted
  <2>2. QED
    BY <1>2, <2>1
<1>5. Len(parts) = 2 /\ parts[1] = a /\ parts[2] = b
  OBVIOUS
<1> HIDE DEF parts
<1>6. Len(parts) # 0 /\ Len(parts) >= 2 /\ ~ (Len(parts) >= 3)
  BY <1>5
<1>7. parts # <<>>
  BY <1>6, NotEmpty, Zenon
<1>8. ParseScheduleDate(text, at) =
        DateOf(Number(parts[1]),
               IF Len(parts) >= 2 THEN Number(parts[2]) ELSE Civil(DayOf(at)).month,
               IF Len(parts) >= 3 THEN Number(parts[3]) ELSE Civil(DayOf(at)).year)
  BY <1>3, <1>4, <1>7, PartsRead
<1>9. ParseScheduleDate(text, at) = DateOf(Number(a), Number(b), Civil(DayOf(at)).year)
  BY <1>5, <1>6, <1>8, Zenon
<1>10. QED
  BY <1>9 DEF text

(* Eight are a date. *)
LEMMA ThreeRead ==
  ASSUME NEW a \in Seq(Digit), NEW b \in Seq(Digit), NEW c \in Seq(Digit),
         Len(a) = 2, Len(b) = 2, Len(c) = 4, NEW at
  PROVE  ParseScheduleDate(a \o b \o c, at) = DateOf(Number(a), Number(b), Number(c))
<1> DEFINE parts == <<a, b, c>>
           ab == a \o b
           text == ab \o c
<1>1. ab \in Seq(Digit) /\ Len(ab) = 4 /\ HasAt(ab, 0, a) /\ HasAt(ab, 2, b)
  <2>0. HasAt(a, 0, a)
    BY HasItself
  <2>1. /\ ab \in Seq(Digit) /\ Len(ab) = Len(a) + Len(b) /\ HasAt(ab, Len(a), b)
        /\ \A lo, u : Len(u) \in Nat /\ HasAt(a, lo, u) => HasAt(ab, lo, u)
    BY HasBoth
  <2> HIDE DEF ab
  <2>2. QED
    BY <2>0, <2>1
<1> HIDE DEF ab
<1>2. /\ text \in Seq(Digit) /\ Len(text) = 8
      /\ HasAt(text, 0, a) /\ HasAt(text, 2, b) /\ HasAt(text, 4, c)
  <2>1. /\ text \in Seq(Digit) /\ Len(text) = Len(ab) + Len(c) /\ HasAt(text, Len(ab), c)
        /\ \A lo, u : Len(u) \in Nat /\ HasAt(ab, lo, u) => HasAt(text, lo, u)
    BY <1>1, HasBoth
  <2> HIDE DEF text
  <2>2. QED
    BY <1>1, <2>1
<1> HIDE DEF text
<1>3. SubSeq(text, 1, 2) = a /\ SubSeq(text, 3, 4) = b /\ SubSeq(text, 5, 8) = c
  <2>1. SubSeq(text, 0 + 1, 0 + Len(a)) = a
    BY <1>2, Slice
  <2>2. SubSeq(text, 2 + 1, 2 + Len(b)) = b
    BY <1>2, Slice
  <2>3. SubSeq(text, 4 + 1, 4 + Len(c)) = c
    BY <1>2, Slice
  <2>4. QED
    BY <2>1, <2>2, <2>3
<1>4. text # <<>>
  <2>1. Len(text) # 0
    BY <1>2
  <2>2. QED
    BY <2>1, NotEmpty, Zenon
<1>5. splitParts(text) = parts
  <2>1. splitParts(text) = <<SubSeq(text, 1, 2), SubSeq(text, 3, 4), SubSeq(text, 5, 8)>>
    BY <1>2, <1>4, NumberParted
  <2>2. QED
    BY <1>3, <2>1
<1>6. Len(parts) = 3 /\ parts[1] = a /\ parts[2] = b /\ parts[3] = c
  OBVIOUS
<1> HIDE DEF parts
<1>7. Len(parts) # 0 /\ Len(parts) >= 2 /\ Len(parts) >= 3
  BY <1>6
<1>8. parts # <<>>
  BY <1>7, NotEmpty, Zenon
<1>9. ParseScheduleDate(text, at) =
        DateOf(Number(parts[1]),
               IF Len(parts) >= 2 THEN Number(parts[2]) ELSE Civil(DayOf(at)).month,
               IF Len(parts) >= 3 THEN Number(parts[3]) ELSE Civil(DayOf(at)).year)
  BY <1>4, <1>5, <1>8, PartsRead
<1>10. ParseScheduleDate(text, at) = DateOf(Number(a), Number(b), Number(c))
  BY <1>6, <1>7, <1>9, Zenon
<1>11. QED
  BY <1>10 DEF text, ab

(* The calendar has a day. *)
HasDay(d, m, y) == y \in 1970 .. 2100 /\ m \in 1 .. 12 /\ d \in 1 .. DaysIn(m, y)

(* In terms of the years and months the code takes. *)
LEMMA HasDayIs ==
  ASSUME NEW d \in Nat, NEW m \in Nat, NEW y \in Nat
  PROVE  /\ HasDay(d, m, y) <=> y \in Year /\ m \in Month /\ d \in 1 .. DaysIn(m, y)
         /\ Taken(d, m, y) <=> y \in Year /\ m \in Month /\ 1 <= d /\ d <= 31
         /\ y \in Year /\ m \in Month => /\ DaysIn(m, y) \in Nat /\ DaysIn(m, y) <= 31
                                         /\ d \in 1 .. DaysIn(m, y) <=> 1 <= d /\ d <= DaysIn(m, y)
<1>1. HasDay(d, m, y) <=> y \in Year /\ m \in Month /\ d \in 1 .. DaysIn(m, y)
  BY DEF HasDay, Year, Month
<1>2. Taken(d, m, y) <=> y \in Year /\ m \in Month /\ 1 <= d /\ d <= 31
  BY DEF Taken, Year, Month
<1>3. ASSUME y \in Year, m \in Month
      PROVE  /\ DaysIn(m, y) \in Nat /\ DaysIn(m, y) <= 31
             /\ d \in 1 .. DaysIn(m, y) <=> 1 <= d /\ d <= DaysIn(m, y)
  <2>1. DaysIn(m, y) \in 28 .. 31
    <3>1. y \in Int
      OBVIOUS
    <3>2. QED
      BY <1>3, <3>1, MonthLength
  <2>2. QED
    BY <2>1
<1>4. QED
  BY <1>1, <1>2, <1>3

(* A date that is accepted is one of the calendar, and begins the ICT day    *)
(* that has it.                                                              *)
LEMMA DateOfExact ==
  ASSUME NEW d \in Nat, NEW m \in Nat, NEW y \in Nat
  PROVE  /\ DateOf(d, m, y).ok <=> HasDay(d, m, y)
         /\ HasDay(d, m, y) =>
              DateOf(d, m, y) = Accepted(Hours(FirstOf(m, y) + d - 1) - ictOffset)
<1> DEFINE date == Hours(FirstOf(m, y) + d - 1) - ictOffset
<1>1. ~Refused.ok /\ Accepted(date).ok
  BY DEF Refused, Accepted
<1> HIDE DEF date
<1>2. /\ HasDay(d, m, y) <=> y \in Year /\ m \in Month /\ d \in 1 .. DaysIn(m, y)
      /\ Taken(d, m, y) <=> y \in Year /\ m \in Month /\ 1 <= d /\ d <= 31
      /\ y \in Year /\ m \in Month => /\ DaysIn(m, y) \in Nat /\ DaysIn(m, y) <= 31
                                      /\ d \in 1 .. DaysIn(m, y) <=> 1 <= d /\ d <= DaysIn(m, y)
  BY HasDayIs
<1>3. CASE Taken(d, m, y)
  <2>1. DateOf(d, m, y) = Candidate(d, m, y)
    BY <1>3, Zenon DEF DateOf
  <2>2. Candidate(d, m, y) = IF d <= DaysIn(m, y) THEN Accepted(date) ELSE Refused
    BY <1>2, <1>3, CandidateExact DEF date
  <2>3. HasDay(d, m, y) <=> d <= DaysIn(m, y)
    BY <1>2, <1>3
  <2>4. QED
    BY <1>1, <2>1, <2>2, <2>3, Zenon DEF date
<1>4. CASE ~Taken(d, m, y)
  <2>1. DateOf(d, m, y) = Refused
    BY <1>4, Zenon DEF DateOf
  <2>2. ~HasDay(d, m, y)
    BY <1>2, <1>4
  <2>3. QED
    BY <1>1, <2>1, <2>2, Zenon
<1>5. QED
  BY <1>3, <1>4, Zenon

(* The first of a month is a day. *)
LEMMA FirstOfType ==
  ASSUME NEW y \in Year, NEW m \in Month
  PROVE  y \in Int /\ FirstOf(m, y) \in Int
<1>1. y \in Int
  BY DEF Year
<1>2. DaysBefore(m, y) \in Nat
  BY <1>1, MonthLength
<1>3. FirstOf(m, y) = NewYear(y) + DaysBefore(m, y)
  BY <1>1, FirstOfMonth
<1>4. NewYear(y) \in Int
  BY <1>1 DEF NewYear
<1>5. QED
  BY <1>1, <1>2, <1>3, <1>4

(* Midnight of a day lies in that day. *)
LEMMA Midnight ==
  ASSUME NEW d \in Int
  PROVE  /\ Hours(d) - ictOffset \in Int
         /\ DayOf(Hours(d) - ictOffset) = d
         /\ (Hours(d) - ictOffset + ictOffset) \div 24 = d
         /\ ictDayStartOf(Hours(d) - ictOffset) = Hours(d) - ictOffset
<1> DEFINE x == Hours(d) - ictOffset
<1>1. /\ x \in Int /\ Hours(d) - ictOffset <= x /\ x < Hours(d + 1) - ictOffset
  BY DEF Hours, ictOffset
<1>2. (x + ictOffset) \div 24 = d
  <2>1. (24 * d - 7 + 7) \div 24 = d
    OBVIOUS
  <2>2. QED
    BY <2>1 DEF Hours, ictOffset
<1> HIDE DEF x
<1>3. DayOf(x) = d /\ ictDayStartOf(x) = Hours(d) - ictOffset
  BY <1>1, DayIs
<1>4. QED
  BY <1>1, <1>2, <1>3 DEF x

(* The three spellings of a full date are read alike, and exactly.          *)
LEMMA FullDates == FullDatesAreExact
<1> SUFFICES ASSUME NEW y \in SomeYear, NEW m \in 0 .. 13, NEW d \in 0 .. 32
             PROVE  LET at == CHOOSE t \in Instant : TRUE
                        dd == Written(d, 2)
                        mm == Written(m, 2)
                        yyyy == Written(y, 4)
                        parsed == ParseScheduleDate(dd \o mm \o yyyy, at)
                    IN  /\ \A sep \in {<<"-">>, <<"/">>} :
                             ParseScheduleDate(dd \o sep \o mm \o sep \o yyyy, at) = parsed
                        /\ parsed.ok <=> HasDay(d, m, y)
                        /\ parsed.ok =>
                             /\ Civil((parsed.date + ictOffset) \div 24) =
                                  [day |-> d, month |-> m, year |-> y]
                             /\ ictDayStartOf(parsed.date) = parsed.date
  BY DEF FullDatesAreExact, HasDay
<1> DEFINE at == CHOOSE t \in Instant : TRUE
           dd == Written(d, 2)
           mm == Written(m, 2)
           yyyy == Written(y, 4)
           parsed == ParseScheduleDate(dd \o mm \o yyyy, at)
<1>1. y \in Nat /\ y < 10000
  BY DateAssumption
<1>2. m \in Nat /\ m < 100 /\ d \in Nat /\ d < 100
  OBVIOUS
<1>3. dd \in Seq(Digit) /\ Len(dd) = 2 /\ Number(dd) = d
  BY <1>2, WrittenTwo
<1>4. mm \in Seq(Digit) /\ Len(mm) = 2 /\ Number(mm) = m
  BY <1>2, WrittenTwo
<1>5. yyyy \in Seq(Digit) /\ Len(yyyy) = 4 /\ Number(yyyy) = y
  BY <1>1, WrittenFour
<1> HIDE DEF at, dd, mm, yyyy
<1>6. parsed = DateOf(d, m, y)
  <2>1. ParseScheduleDate(dd \o mm \o yyyy, at) = DateOf(Number(dd), Number(mm), Number(yyyy))
    BY <1>3, <1>4, <1>5, ThreeRead
  <2>2. QED
    BY <1>3, <1>4, <1>5, <2>1, Zenon
<1> HIDE DEF parsed
<1>7. ASSUME NEW sep \in {<<"-">>, <<"/">>}
      PROVE  ParseScheduleDate(dd \o sep \o mm \o sep \o yyyy, at) = parsed
  <2>1. PICK x \in {"-", "/"} : sep = <<x>>
    OBVIOUS
  <2>2. ParseScheduleDate(Dashed(dd, mm, yyyy, x), at) =
          DateOf(Number(dd), Number(mm), Number(yyyy))
    BY <1>3, <1>4, <1>5, DashedReads
  <2>3. dd \o sep \o mm \o sep \o yyyy = Dashed(dd, mm, yyyy, x)
    BY <2>1, Zenon DEF Dashed
  <2>4. QED
    BY <1>3, <1>4, <1>5, <1>6, <2>2, <2>3, Zenon
<1>8. /\ parsed.ok <=> HasDay(d, m, y)
      /\ HasDay(d, m, y) => parsed = Accepted(Hours(FirstOf(m, y) + d - 1) - ictOffset)
  <2>1. /\ DateOf(d, m, y).ok <=> HasDay(d, m, y)
        /\ HasDay(d, m, y) =>
             DateOf(d, m, y) = Accepted(Hours(FirstOf(m, y) + d - 1) - ictOffset)
    BY <1>1, <1>2, DateOfExact
  <2>2. QED
    BY <1>6, <2>1, Zenon
<1>9. ASSUME parsed.ok
      PROVE  /\ Civil((parsed.date + ictOffset) \div 24) = [day |-> d, month |-> m, year |-> y]
             /\ ictDayStartOf(parsed.date) = parsed.date
  <2> DEFINE day == FirstOf(m, y) + d - 1
  <2>0. HasDay(d, m, y)
    BY <1>8, <1>9, Zenon
  <2>1. y \in Year /\ m \in Month /\ d \in 1 .. DaysIn(m, y)
    BY <1>1, <1>2, <2>0, HasDayIs
  <2>2. parsed.date = Hours(day) - ictOffset
    BY <1>8, <1>9, <2>0 DEF Accepted
  <2>3. day \in Int
    <3>1. FirstOf(m, y) \in Int
      BY <2>1, FirstOfType
    <3>2. QED
      BY <1>2, <3>1
  <2>4. Civil(day) = [day |-> d, month |-> m, year |-> y]
    BY <2>1, CivilOf
  <2> HIDE DEF day
  <2>5. /\ (Hours(day) - ictOffset + ictOffset) \div 24 = day
        /\ ictDayStartOf(Hours(day) - ictOffset) = Hours(day) - ictOffset
    BY <2>3, Midnight
  <2>6. QED
    BY <2>2, <2>4, <2>5
<1>10. /\ \A sep \in {<<"-">>, <<"/">>} :
            ParseScheduleDate(dd \o sep \o mm \o sep \o yyyy, at) = parsed
       /\ parsed.ok <=> HasDay(d, m, y)
       /\ parsed.ok =>
            /\ Civil((parsed.date + ictOffset) \div 24) = [day |-> d, month |-> m, year |-> y]
            /\ ictDayStartOf(parsed.date) = parsed.date
  BY <1>7, <1>8, <1>9, Zenon
<1>11. QED
  BY <1>10, Zenon DEF at, dd, mm, yyyy, parsed

(* A date left short is one of this month, or this year. *)
LEMMA ShortDates == ShortDatesMeanNow
<1> SUFFICES ASSUME NEW at \in Instant
             PROVE  LET today == Civil((at + ictOffset) \div 24)
                    IN  \A text \in {<<>>, Written(today.day, 2),
                                     Written(today.day, 2) \o Written(today.month, 2)} :
                          ParseScheduleDate(text, at) = [ok |-> TRUE, date |-> ictDayStartOf(at)]
  BY DEF ShortDatesMeanNow
<1> DEFINE day == DayOf(at)
           today == Civil(day)
           start == Hours(day) - ictOffset
<1>1. (at + ictOffset) \div 24 = day
  BY DEF DayOf, IctDay
<1>2. at \in Int /\ 0 <= at + ictOffset /\ at + ictOffset < Hours(NewYear(2101))
  BY InstantType
<1>3. day \in Int /\ 0 <= day /\ day < NewYear(2101)
  <2>1. NewYear(2101) \in Int
    BY DEF NewYear
  <2> DEFINE last == NewYear(2101)
             x == at + ictOffset
  <2>2. x \in Int /\ 0 <= x /\ x < 24 * last /\ last \in Int
    BY <1>2, <2>1 DEF Hours, ictOffset
  <2> HIDE DEF last, x
  <2>3. x \div 24 \in Int /\ 0 <= x \div 24 /\ x \div 24 < last
    BY <2>2
  <2>4. QED
    BY <1>1, <2>3 DEF last, x
<1>4. ictDayStartOf(at) = start
  BY DEF ictDayStartOf
<1> HIDE DEF day
<1>5. PICK y \in Year : \E m \in Month : Dated(day, y, m)
  BY <1>3, DaysHaveDates
<1>6. PICK m \in Month : Dated(day, y, m)
  BY <1>5
<1>7. PICK d \in 1 .. DaysIn(m, y) : day = FirstOf(m, y) + d - 1
  BY <1>6 DEF Dated
<1>8. today = [day |-> d, month |-> m, year |-> y]
  <2>1. Civil(FirstOf(m, y) + d - 1) = [day |-> d, month |-> m, year |-> y]
    BY CivilOf
  <2>2. QED
    BY <1>7, <2>1
<1> HIDE DEF today
<1>9. today.day = d /\ today.month = m /\ today.year = y
  BY <1>8
<1>10. d \in Nat /\ d <= 31 /\ m \in Nat /\ m <= 12 /\ y \in Nat /\ y \in Int
  <2>1. y \in Int /\ y \in Nat
    BY DEF Year
  <2>2. DaysIn(m, y) \in 28 .. 31
    BY <2>1, MonthLength
  <2>3. d \in Nat /\ d <= 31
    BY <2>2
  <2>4. m \in Month
    OBVIOUS
  <2>5. m \in Nat /\ m <= 12
    BY <2>4 DEF Month
  <2>6. QED
    BY <2>1, <2>3, <2>5
<1>11. DateOf(d, m, y) = Accepted(start)
  <2>1. y \in Year /\ m \in Month /\ d \in 1 .. DaysIn(m, y)
    OBVIOUS
  <2>2. HasDay(d, m, y)
    BY <1>10, <2>1, HasDayIs
  <2>3. HasDay(d, m, y) =>
          DateOf(d, m, y) = Accepted(Hours(FirstOf(m, y) + d - 1) - ictOffset)
    BY <1>10, DateOfExact
  <2>4. QED
    BY <1>7, <2>2, <2>3, Zenon
<1>12. Accepted(start) = [ok |-> TRUE, date |-> ictDayStartOf(at)]
  BY <1>4 DEF Accepted
<1> DEFINE dd == Written(d, 2)
           mm == Written(m, 2)
<1>13. dd \in Seq(Digit) /\ Len(dd) = 2 /\ Number(dd) = d
  <2>1. d < 100
    BY <1>10
  <2>2. QED
    BY <1>10, <2>1, WrittenTwo
<1>14. mm \in Seq(Digit) /\ Len(mm) = 2 /\ Number(mm) = m
  <2>1. m < 100
    BY <1>10
  <2>2. QED
    BY <1>10, <2>1, WrittenTwo
<1> HIDE DEF dd, mm, start
<1>15. ParseScheduleDate(dd, at) = Accepted(start)
  <2>1. ParseScheduleDate(dd, at) =
          DateOf(Number(dd), Civil(DayOf(at)).month, Civil(DayOf(at)).year)
    BY <1>13, OneReads
  <2>2. QED
    BY <1>9, <1>11, <1>13, <2>1, Zenon DEF today, day
<1>16. ParseScheduleDate(dd \o mm, at) = Accepted(start)
  <2>1. ParseScheduleDate(dd \o mm, at) = DateOf(Number(dd), Number(mm), Civil(DayOf(at)).year)
    BY <1>13, <1>14, TwoRead
  <2>2. QED
    BY <1>9, <1>11, <1>13, <1>14, <2>1, Zenon DEF today, day
<1>17. ParseScheduleDate(<<>>, at) = [ok |-> TRUE, date |-> ictDayStartOf(at)]
  BY DEF ParseScheduleDate
<1>18. \A text \in {<<>>, Written(today.day, 2), Written(today.day, 2) \o Written(today.month, 2)} :
         ParseScheduleDate(text, at) = [ok |-> TRUE, date |-> ictDayStartOf(at)]
  BY <1>9, <1>12, <1>15, <1>16, <1>17, Zenon DEF dd, mm
<1>19. QED
  BY <1>1, <1>18, Zenon DEF today

(* Every text has its cuts, the first before it and the last behind it.      *)
CutAt(f, K, text) ==
  /\ K \in Nat \ {0} /\ InCuts(f, K, Cuts(text))
  /\ f[0] = 0 /\ f[K] = Len(text) + 1
  /\ \A k \in 0 .. K : 0 <= f[k] /\ f[k] <= Len(text) + 1

(* There is such an order of the cuts. *)
LEMMA CutsExist ==
  ASSUME NEW Letter, NEW text \in Seq(Letter)
  PROVE  \E K : \E f : CutAt(f, K, text)
<1> DEFINE n == Len(text)
           cuts == Cuts(text)
<1>1. n \in Nat /\ DOMAIN text = 1 .. n
  OBVIOUS
<1>2. /\ 0 \in cuts /\ n + 1 \in cuts
      /\ \A c \in cuts : c \in Int /\ 0 <= c /\ c <= n + 1
  BY <1>1 DEF Cuts
<1> HIDE DEF n, cuts
<1>3. n + 2 \in Nat /\ -1 \in Int /\ cuts \in SUBSET ((-1) + 1 .. (-1) + (n + 2))
  BY <1>1, <1>2
<1>4. IsFiniteSet(cuts) /\ \E s : InOrder(s, cuts)
  BY <1>3, Sorted
<1>5. PICK s : InOrder(s, cuts)
  BY <1>4
<1>6. cuts \in SUBSET Int
  BY <1>2
<1>7. {s[i] : i \in DOMAIN s} = cuts
  BY <1>4, <1>5, <1>6, SortedHasAll
<1> DEFINE m == Cardinality(cuts)
<1>8. m \in Nat
  BY <1>4, FS_CardinalityType
<1>9. /\ DOMAIN s = 1 .. m /\ \A i \in 1 .. m : s[i] \in cuts
      /\ \A i, j \in 1 .. m : i < j => s[i] < s[j]
  BY <1>5 DEF InOrder
<1> HIDE DEF m
<1>10. \A c \in cuts : \E i \in 1 .. m : s[i] = c
  BY <1>7, <1>9
<1>11. PICK i0 \in 1 .. m : s[i0] = 0
  BY <1>2, <1>10
<1>12. PICK i1 \in 1 .. m : s[i1] = n + 1
  BY <1>2, <1>10
<1>13. \A i \in 1 .. m : s[i] \in Int /\ 0 <= s[i] /\ s[i] <= n + 1
  BY <1>2, <1>9
<1>14. i0 = 1
  <2>1. 1 \in 1 .. m /\ (1 < i0 \/ i0 = 1)
    BY <1>8
  <2>2. 1 < i0 => s[1] < s[i0]
    BY <1>9, <2>1
  <2>3. s[1] \in Int /\ 0 <= s[1]
    BY <1>13, <2>1
  <2>4. QED
    BY <1>11, <2>1, <2>2, <2>3
<1>15. i1 = m
  <2>1. m \in 1 .. m /\ (i1 < m \/ i1 = m)
    BY <1>8
  <2>2. i1 < m => s[i1] < s[m]
    BY <1>9, <2>1
  <2>3. s[m] \in Int /\ s[m] <= n + 1
    BY <1>13, <2>1
  <2>4. QED
    BY <1>1, <1>12, <2>1, <2>2, <2>3
<1>16. m # 1
  BY <1>1, <1>11, <1>12, <1>14, <1>15
<1> DEFINE K == m - 1
           f == [k \in 0 .. K |-> s[k + 1]]
<1>17. K \in Nat \ {0} /\ \A k \in 0 .. K : k + 1 \in 1 .. m
  BY <1>8, <1>16
<1>18. \A k \in 0 .. K : f[k] = s[k + 1]
  OBVIOUS
<1> HIDE DEF f
<1>19. InCuts(f, K, cuts)
  <2>1. \A k \in 0 .. K : f[k] \in Int
    BY <1>13, <1>17, <1>18
  <2>2. ASSUME NEW j \in 0 .. K, NEW k \in 0 .. K, j < k PROVE f[j] < f[k]
    <3>1. j + 1 \in 1 .. m /\ k + 1 \in 1 .. m /\ j + 1 < k + 1
      BY <1>17, <2>2
    <3>2. s[j + 1] < s[k + 1]
      BY <1>9, <3>1
    <3>3. QED
      BY <1>18, <3>2
  <2>3. \A k \in 0 .. K : f[k] \in cuts
    BY <1>9, <1>17, <1>18
  <2>4. \A c \in cuts : \E k \in 0 .. K : f[k] = c
    <3> TAKE c \in cuts
    <3>1. PICK i \in 1 .. m : s[i] = c
      BY <1>10
    <3>2. i - 1 \in 0 .. K /\ (i - 1) + 1 = i
      BY <1>8
    <3>3. QED
      BY <1>18, <3>1, <3>2
  <2>5. cuts = {f[k] : k \in 0 .. K}
    BY <2>3, <2>4
  <2> HIDE DEF K
  <2>6. QED
    BY <2>1, <2>2, <2>5 DEF InCuts
<1>20. f[0] = 0 /\ f[K] = n + 1
  <2>1. 0 \in 0 .. K /\ K \in 0 .. K /\ 0 + 1 = 1 /\ K + 1 = m
    BY <1>8, <1>17
  <2>2. f[0] = s[0 + 1] /\ f[K] = s[K + 1]
    BY <1>18, <2>1
  <2>3. QED
    BY <1>11, <1>12, <1>14, <1>15, <2>1, <2>2
<1>21. \A k \in 0 .. K : 0 <= f[k] /\ f[k] <= n + 1
  BY <1>13, <1>17, <1>18
<1> HIDE DEF K
<1>22. CutAt(f, K, text)
  BY <1>17, <1>19, <1>20, <1>21 DEF CutAt, cuts, n
<1>23. QED
  BY <1>22

(* What lies between two cuts is in a piece.                                 *)
LEMMA BetweenCuts ==
  ASSUME NEW Letter, NEW text \in Seq(Letter), NEW K, NEW f, CutAt(f, K, text),
         NEW i \in 1 .. Len(text), i \notin Cuts(text)
  PROVE  \E k \in 1 .. K : f[k - 1] < i /\ i < f[k]
<1> DEFINE n == Len(text)
           B == {k \in 0 .. K : i < f[k]}
<1>1. n \in Nat /\ i \in 1 .. n
  OBVIOUS
<1>2. /\ K \in Nat \ {0} /\ f[0] = 0 /\ f[K] = n + 1
      /\ \A k \in 0 .. K : f[k] \in Int /\ f[k] \in Cuts(text)
  BY DEF CutAt, InCuts
<1> HIDE DEF n
<1>3. B \in SUBSET Nat /\ K \in B
  BY <1>1, <1>2
<1>4. PICK k \in B : \A j \in B : k <= j
  BY <1>3, Least
<1>5. k \in 0 .. K /\ i < f[k]
  OBVIOUS
<1>6. k # 0
  BY <1>1, <1>2, <1>5
<1>7. k - 1 \in 0 .. K /\ ~ (k <= k - 1)
  BY <1>2, <1>5, <1>6
<1>8. k - 1 \notin B
  BY <1>4, <1>7
<1>9. ~ (i < f[k - 1])
  BY <1>7, <1>8
<1>10. f[k - 1] \in Int /\ f[k - 1] # i
  BY <1>2, <1>7
<1>11. f[k - 1] < i
  BY <1>1, <1>9, <1>10
<1>12. k \in 1 .. K
  BY <1>2, <1>5, <1>6
<1>13. QED
  BY <1>5, <1>11, <1>12

(* The letters of a piece. *)
LEMMA PieceOf ==
  ASSUME NEW Letter, NEW text \in Seq(Letter), NEW lo \in Int, NEW hi \in Int,
         0 <= lo, lo < hi, hi <= Len(text) + 1,
         IsNumber(SubSeq(text, lo + 1, hi - 1))
  PROVE  /\ lo + 1 < hi
         /\ \A i \in Int : lo < i /\ i < hi => text[i] \in Digit
<1> DEFINE n == Len(text)
           piece == SubSeq(text, lo + 1, hi - 1)
<1>1. n \in Nat
  OBVIOUS
<1>2. CASE lo + 1 = hi
  <2>1. ~ (lo + 1 <= hi - 1)
    BY <1>2
  <2>2. piece = <<>>
    BY <1>1, <2>1
  <2>3. QED
    BY <2>2 DEF IsNumber
<1>3. CASE lo + 1 < hi
  <2>1. piece = [j \in 1 .. (1 + (hi - 1)) - (lo + 1) |-> text[j + (lo + 1) - 1]]
    BY <1>1, <1>3
  <2>2. (1 + (hi - 1)) - (lo + 1) = hi - lo - 1
    OBVIOUS
  <2> HIDE DEF piece
  <2>3. DOMAIN piece = 1 .. hi - lo - 1
    BY <2>1, <2>2
  <2>4. \A j \in 1 .. hi - lo - 1 : piece[j] = text[j + (lo + 1) - 1]
    BY <2>1, <2>2
  <2>5. ToSet(piece) \subseteq Digit
    BY DEF IsNumber, piece
  <2>6. \A j \in DOMAIN piece : piece[j] \in Digit
    BY <2>5 DEF ToSet
  <2>7. ASSUME NEW i \in Int, lo < i, i < hi PROVE text[i] \in Digit
    <3>1. i - lo \in 1 .. hi - lo - 1 /\ (i - lo) + (lo + 1) - 1 = i
      BY <2>7
    <3>2. piece[i - lo] = text[(i - lo) + (lo + 1) - 1] /\ piece[i - lo] \in Digit
      BY <2>3, <2>4, <2>6, <3>1
    <3>3. QED
      BY <3>1, <3>2
  <2>8. QED
    BY <1>3, <2>7
<1>4. QED
  BY <1>2, <1>3

(* What splits into numbers.                                                 *)
LEMMA SplitIntoNumbers ==
  ASSUME NEW Letter, NEW text \in Seq(Letter), splitParts(text) # <<>>
  PROVE  /\ ToSet(text) \subseteq Digit \cup {"-", "/"}
         /\ Cardinality({i \in DOMAIN text : text[i] \notin Digit}) <= 2
         /\ \A i \in DOMAIN text : text[i] \notin Digit => 1 < i /\ i < Len(text)
<1> DEFINE n == Len(text)
           parts == Pieces(text)
           cuts == Cuts(text)
           alien == {i \in DOMAIN text : text[i] \notin Digit}
<1>1. n \in Nat /\ DOMAIN text = 1 .. n
  OBVIOUS
<1>2. ~ (Len(parts) > 3 \/ \E i \in DOMAIN parts : ~IsNumber(parts[i]))
  BY Zenon DEF splitParts
<1>3. PICK K : \E f : CutAt(f, K, text)
  BY CutsExist
<1>4. PICK f : CutAt(f, K, text)
  BY <1>3
<1>5. /\ K \in Nat \ {0} /\ InCuts(f, K, cuts) /\ f[0] = 0 /\ f[K] = n + 1
      /\ \A k \in 0 .. K : 0 <= f[k] /\ f[k] <= n + 1
  BY <1>4 DEF CutAt
<1>6. /\ \A k \in 0 .. K : f[k] \in Int
      /\ \A j, k \in 0 .. K : j < k => f[j] < f[k]
      /\ \A k \in 0 .. K : f[k] \in cuts
      /\ \A c \in cuts : \E k \in 0 .. K : f[k] = c
  BY <1>5 DEF InCuts
<1>7. parts = [k \in 1 .. K |-> SubSeq(text, f[k - 1] + 1, f[k] - 1)]
  BY <1>5, PiecesAre
<1>8. Cardinality(cuts) = K + 1
  BY <1>5, CutsInOrder
<1>9. cuts = {i \in 1 .. n : text[i] \in {"-", "/"}} \cup {0, n + 1}
  BY <1>1 DEF Cuts
<1> HIDE DEF n, parts, cuts
<1>10. DOMAIN parts = 1 .. K /\ Len(parts) = K
  BY <1>5, <1>7
<1>11. K <= 3
  BY <1>2, <1>5, <1>10
<1>12. ASSUME NEW k \in 1 .. K
       PROVE  /\ f[k - 1] + 1 < f[k]
              /\ \A i \in Int : f[k - 1] < i /\ i < f[k] => text[i] \in Digit
  <2>1. k - 1 \in 0 .. K /\ k \in 0 .. K /\ k - 1 < k
    BY <1>5
  <2>2. /\ f[k - 1] \in Int /\ f[k] \in Int /\ 0 <= f[k - 1] /\ f[k - 1] < f[k]
        /\ f[k] <= Len(text) + 1
    BY <1>5, <1>6, <2>1 DEF n
  <2>3. IsNumber(SubSeq(text, f[k - 1] + 1, f[k] - 1))
    BY <1>2, <1>7, <1>10
  <2>4. QED
    BY <2>2, <2>3, PieceOf
<1>13. ASSUME NEW i \in 1 .. n, text[i] \notin Digit
       PROVE  i \in cuts
  <2>1. SUFFICES ASSUME i \notin cuts PROVE FALSE
    OBVIOUS
  <2>2. PICK k \in 1 .. K : f[k - 1] < i /\ i < f[k]
    <3>1. i \notin Cuts(text) /\ i \in 1 .. Len(text)
      BY <2>1 DEF cuts, n
    <3>2. \E k \in 1 .. K : f[k - 1] < i /\ i < f[k]
      BY <1>4, <3>1, BetweenCuts
    <3>3. QED
      BY <3>2
  <2>3. i \in Int
    BY <1>1
  <2>4. QED
    BY <1>12, <1>13, <2>2, <2>3
<1>14. \A i \in 1 .. n : text[i] \notin Digit => text[i] \in {"-", "/"}
  BY <1>1, <1>9, <1>13
<1>15. ToSet(text) \subseteq Digit \cup {"-", "/"}
  BY <1>1, <1>14 DEF ToSet
<1>16. ASSUME NEW i \in DOMAIN text, text[i] \notin Digit
       PROVE  1 < i /\ i < n
  <2>1. i \in 1 .. n /\ i \in cuts
    BY <1>1, <1>13, <1>16
  <2>2. PICK k \in 0 .. K : f[k] = i
    BY <1>6, <2>1
  <2>3. k # 0 /\ k # K
    BY <1>1, <1>5, <2>1, <2>2
  <2>4. k \in 1 .. K /\ k + 1 \in 1 .. K /\ (k + 1) - 1 = k /\ k - 1 \in 0 .. K /\ k + 1 \in 0 .. K
    BY <1>5, <2>3
  <2>5. f[k - 1] + 1 < f[k]
    BY <1>12, <2>4
  <2>6. f[(k + 1) - 1] + 1 < f[k + 1]
    BY <1>12, <2>4
  <2>7. f[k - 1] \in Int /\ 0 <= f[k - 1] /\ f[k + 1] \in Int /\ f[k + 1] <= n + 1
    BY <1>5, <1>6, <2>4
  <2>8. QED
    BY <1>1, <2>1, <2>2, <2>4, <2>5, <2>6, <2>7
<1>17. Cardinality(alien) <= 2
  <2>1. alien = cuts \ {0, n + 1}
    <3>1. \A i \in 1 .. n : text[i] \notin Digit <=> text[i] \in {"-", "/"}
      BY <1>14, NoDelimiter
    <3>2. 0 \notin 1 .. n /\ n + 1 \notin 1 .. n
      BY <1>1
    <3>3. QED
      BY <1>1, <1>9, <3>1, <3>2
  <2>2. IsFiniteSet(cuts)
    <3>1. n + 2 \in Nat /\ -1 \in Int /\ cuts \in SUBSET ((-1) + 1 .. (-1) + (n + 2))
      BY <1>1, <1>9
    <3>2. QED
      BY <3>1, Sorted
  <2>3. 0 \in cuts /\ n + 1 \in cuts /\ 0 # n + 1
    BY <1>1, <1>9
  <2> DEFINE A == cuts \ {0}
             B == A \ {n + 1}
  <2>4. IsFiniteSet(A) /\ Cardinality(A) = Cardinality(cuts) - 1
    BY <2>2, <2>3, FS_RemoveElement
  <2>5. n + 1 \in A
    BY <2>3
  <2>6. B = alien
    BY <2>1
  <2> HIDE DEF A, B
  <2>7. IsFiniteSet(B) /\ Cardinality(B) = Cardinality(A) - 1
    <3>1. B = A \ {n + 1}
      BY DEF B
    <3>2. QED
      BY <2>4, <2>5, <3>1, FS_RemoveElement
  <2> HIDE DEF alien
  <2>8. Cardinality(alien) = (K + 1) - 1 - 1
    BY <1>8, <2>4, <2>6, <2>7
  <2>9. QED
    BY <1>5, <1>11, <2>8
<1>18. QED
  BY <1>15, <1>16, <1>17 DEF n

(* What is accepted consists of digits and delimiters between them.         *)
LEMMA OnlyDates == NoTextPassesForADate
<1> SUFFICES ASSUME NEW text \in Argument, NEW at \in Instant,
                    ParseScheduleDate(text, at).ok, text # <<>>
             PROVE  /\ ToSet(text) \subseteq Digit \cup {"-", "/"}
                    /\ Cardinality({i \in DOMAIN text : text[i] \notin Digit}) <= 2
                    /\ \A i \in DOMAIN text : text[i] \notin Digit => 1 < i /\ i < Len(text)
  BY DEF NoTextPassesForADate
<1>1. text \in Seq(ToSet(text))
  BY DateAssumption
<1>2. splitParts(text) # <<>>
  <2>1. ~Refused.ok
    BY DEF Refused
  <2>2. splitParts(text) = <<>> => ParseScheduleDate(text, at) = Refused
    BY DEF ParseScheduleDate
  <2>3. QED
    BY <2>1, <2>2
<1>3. QED
  BY <1>1, <1>2, SplitIntoNumbers

----------------------------------------------------------------------------
(* What the commands ask for.                                                *)

(* A range is the ICT day d, or the week that begins with it.                *)
IsDay(r, d) == r.from = Hours(d) - ictOffset /\ r.to = addDays(r.from, 1)
IsWeek(r, d) == Monday(d) /\ r.from = Hours(d) - ictOffset /\ r.to = addDays(r.from, 7)

(* A date that was read is a day. *)
LEMMA ParsedIsDay ==
  ASSUME NEW text, NEW at \in Int, ParseScheduleDate(text, at).ok
  PROVE  \E d \in Int : IsDay(DayFrom(ParseScheduleDate(text, at).date), d)
<1> DEFINE parsed == ParseScheduleDate(text, at)
<1>1. ASSUME NEW d \in Int, parsed = Accepted(Hours(d) - ictOffset)
      PROVE  IsDay(DayFrom(parsed.date), d)
  <2>1. parsed.date = Hours(d) - ictOffset
    BY <1>1 DEF Accepted
  <2> HIDE DEF parsed
  <2>2. QED
    BY <2>1 DEF IsDay, DayFrom
<1>2. CASE text = <<>>
  <2>1. parsed = Accepted(Hours(DayOf(at)) - ictOffset)
    BY <1>2 DEF ParseScheduleDate, Accepted, ictDayStartOf
  <2>2. DayOf(at) \in Int
    BY DayOfType
  <2> HIDE DEF parsed
  <2>3. IsDay(DayFrom(parsed.date), DayOf(at))
    BY <1>1, <2>1, <2>2
  <2>4. QED
    BY <2>2, <2>3 DEF parsed
<1>3. CASE text # <<>>
  <2> DEFINE parts == splitParts(text)
             d == Number(parts[1])
             m == IF Len(parts) >= 2 THEN Number(parts[2]) ELSE Civil(DayOf(at)).month
             y == IF Len(parts) >= 3 THEN Number(parts[3]) ELSE Civil(DayOf(at)).year
  <2>1. parts # <<>>
    BY <1>3 DEF ParseScheduleDate, Refused
  <2>2. parsed = DateOf(d, m, y)
    BY <1>3, <2>1, PartsRead
  <2> HIDE DEF d, m, y, parts
  <2>3. Taken(d, m, y)
    BY <2>2 DEF DateOf, Refused
  <2>4. parsed = Candidate(d, m, y)
    BY <2>2, <2>3 DEF DateOf
  <2> DEFINE day == FirstOf(m, y) + d - 1
  <2>5. parsed = Accepted(Hours(day) - ictOffset)
    BY <2>4 DEF Candidate, Refused, Accepted
  <2>6. day \in Int
    <3>1. y \in Year /\ m \in Month /\ d \in Int
      BY <2>3 DEF Taken, Year, Month
    <3>2. FirstOf(m, y) \in Int
      BY <3>1, FirstOfType
    <3>3. QED
      BY <3>1, <3>2
  <2> HIDE DEF day, parsed
  <2>7. IsDay(DayFrom(parsed.date), day)
    BY <1>1, <2>5, <2>6
  <2>8. QED
    BY <2>6, <2>7 DEF parsed
<1>4. QED
  BY <1>2, <1>3

(* Each of the commands asks for a day, or for a week. *)
LEMMA AskedIs ==
  ASSUME NEW c \in Issued, NEW r \in Asked(c)
  PROVE  \E d \in Int : IsDay(r, d) \/ IsWeek(r, d)
<1>1. c.cmd \in {"schedule", "today", "week"} /\ c.now \in Nat
  BY PageAssumption
<1>2. CASE c.cmd = "schedule"
  <2>1. ParseScheduleDate(c.arg, c.now).ok /\ r = DayFrom(ParseScheduleDate(c.arg, c.now).date)
    BY <1>2 DEF Asked
  <2>2. \E d \in Int : IsDay(DayFrom(ParseScheduleDate(c.arg, c.now).date), d)
    BY <1>1, <2>1, ParsedIsDay
  <2>3. QED
    BY <2>1, <2>2
<1>3. CASE c.cmd = "today"
  <2>1. r = DayFrom(ictDayStartOf(c.now))
    BY <1>3 DEF Asked
  <2>2. DayOf(c.now) \in Int
    BY <1>1, DayOfType
  <2>3. IsDay(r, DayOf(c.now))
    BY <2>1 DEF IsDay, DayFrom, ictDayStartOf
  <2>4. QED
    BY <2>2, <2>3
<1>4. CASE c.cmd = "week"
  <2>1. r = [from |-> ictWeekStartOf(c.now), to |-> addDays(ictWeekStartOf(c.now), 7)]
    BY <1>4 DEF Asked
  <2>2. DayOf(c.now) \in Int
    BY <1>1, DayOfType
  <2>3. PICK q \in Int : \E k \in 0 .. 6 : Monday(q) /\ DayOf(c.now) = q + k
    BY <2>2, MondayBefore
  <2>4. PICK k \in 0 .. 6 : Monday(q) /\ DayOf(c.now) = q + k
    BY <2>3
  <2>5. ictWeekStartOf(c.now) = Hours(q) - ictOffset
    BY <1>1, <2>4, WeekIs
  <2>6. IsWeek(r, q)
    BY <2>1, <2>4, <2>5 DEF IsWeek
  <2>7. QED
    BY <2>6
<1>5. QED
  BY <1>1, <1>2, <1>3, <1>4

(* The hours of a day begin where it does. *)
LEMMA DayHolds ==
  ASSUME NEW r, NEW d \in Int, IsDay(r, d)
  PROVE  /\ r.from \in Int /\ r.to = Hours(d + 1) - ictOffset
         /\ \A t \in r.from .. r.to - 1 : ictDayStartOf(t) = r.from
<1>1. /\ r.from = Hours(d) - ictOffset /\ r.from \in Int
      /\ r.to = Hours(d + 1) - ictOffset /\ r.to \in Int
  BY DEF IsDay, addDays, Hours, ictOffset
<1>2. ASSUME NEW t \in r.from .. r.to - 1 PROVE ictDayStartOf(t) = r.from
  <2>1. t \in Int /\ Hours(d) - ictOffset <= t /\ t < Hours(d + 1) - ictOffset
    <3> DEFINE a == r.from
               b == r.to
    <3>1. a \in Int /\ b \in Int /\ t \in a .. b - 1
      BY <1>1
    <3> HIDE DEF a, b
    <3>2. t \in Int /\ a <= t /\ t < b
      BY <3>1
    <3>3. QED
      BY <1>1, <3>2 DEF a, b
  <2>2. ictDayStartOf(t) = Hours(d) - ictOffset
    BY <2>1, DayIs
  <2>3. QED
    BY <1>1, <2>2
<1>3. QED
  BY <1>1, <1>2

(* So do the first and the last hour of a week. *)
LEMMA WeekHolds ==
  ASSUME NEW r, NEW q \in Int, IsWeek(r, q)
  PROVE  /\ r.from \in Int /\ r.to = Hours(q + 7) - ictOffset
         /\ \A t \in {r.from, r.to - 1} : ictWeekStartOf(t) = r.from
<1> DEFINE a == r.from
           b == r.to - 1
<1>1. /\ Monday(q) /\ a = Hours(q) - ictOffset /\ a \in Int
      /\ r.to = Hours(q + 7) - ictOffset /\ b \in Int
      /\ Hours(q) - ictOffset <= a /\ a < Hours(q + 1) - ictOffset
      /\ Hours(q + 6) - ictOffset <= b /\ b < Hours((q + 6) + 1) - ictOffset
      /\ q + 6 \in Int
  BY DEF IsWeek, addDays, Hours, ictOffset
<1> HIDE DEF a, b
<1>2. DayOf(a) = q
  BY <1>1, DayIs
<1>3. DayOf(b) = q + 6
  BY <1>1, DayIs
<1>4. 0 \in 0 .. 6 /\ 6 \in 0 .. 6 /\ q = q + 0
  OBVIOUS
<1>5. ictWeekStartOf(a) = Hours(q) - ictOffset
  <2>1. DayOf(a) = q + 0
    BY <1>2
  <2>2. QED
    BY <1>1, <1>4, <2>1, WeekIs
<1>6. ictWeekStartOf(b) = Hours(q) - ictOffset
  BY <1>1, <1>3, <1>4, WeekIs
<1>7. QED
  BY <1>1, <1>5, <1>6 DEF a, b

(* What is looked up is a day, or a week. *)
LEMMA WindowsAreAsked ==
  ASSUME LookupsAreAsked, NEW r \in Window
  PROVE  \E d \in Int : IsDay(r, d) \/ IsWeek(r, d)
<1>1. PICK c \in Issued : r \in Asked(c)
  BY DEF LookupsAreAsked
<1>2. QED
  BY <1>1, AskedIs

(* Whatever the digits look like and however long the texts and the years    *)
(* looked at, every command asks for a day, or a week, of Vietnam's          *)
(* calendar, the one its argument names or now falls in, and no text that is *)
(* not a date is taken for one (handlers.go, parse_date.go).                 *)
THEOREM DaysAreAskedFor == LookupsAreAsked => (ScheduleSpec => []CommandsAskForTheirDays)
<1>1. ASSUME LookupsAreAsked, ScheduleTypeOK
      PROVE  CommandsAskForTheirDays
  <2>1. WindowsTile
    BY DaysAndWeeksTile
  <2>2. FullDatesAreExact
    BY FullDates
  <2>3. ShortDatesMeanNow
    BY ShortDates
  <2>4. NoTextPassesForADate
    BY OnlyDates
  <2>5. ASSUME NEW w \in Worker, range[w] # None
        PROVE  LET r == range[w]
               IN  \/ \A t \in r.from .. r.to - 1 : ictDayStartOf(t) = r.from
                   \/ \A t \in {r.from, r.to - 1} : ictWeekStartOf(t) = r.from
    <3> DEFINE r == range[w]
    <3>1. r \in Window
      BY <1>1, <2>5 DEF ScheduleTypeOK
    <3> HIDE DEF r
    <3>2. PICK d \in Int : IsDay(r, d) \/ IsWeek(r, d)
      BY <1>1, <3>1, WindowsAreAsked
    <3>3. CASE IsDay(r, d)
      <4>1. \A t \in r.from .. r.to - 1 : ictDayStartOf(t) = r.from
        BY <3>3, DayHolds
      <4>2. QED
        BY <4>1 DEF r
    <3>4. CASE IsWeek(r, d)
      <4>1. \A t \in {r.from, r.to - 1} : ictWeekStartOf(t) = r.from
        BY <3>4, WeekHolds
      <4>2. QED
        BY <4>1 DEF r
    <3>5. QED
      BY <3>2, <3>3, <3>4
  <2>6. QED
    BY <1>1, <2>1, <2>2, <2>3, <2>4, <2>5 DEF CommandsAskForTheirDays
<1>2. LookupsAreAsked => [](LookupsAreAsked)
  <2>1. LookupsAreAsked => LookupsAreAsked'
    BY DEF LookupsAreAsked
  <2>2. QED
    BY <2>1, PTL
<1>3. ScheduleIInv => ScheduleTypeOK
  BY DEF ScheduleIInv
<1>4. QED
  BY <1>1, <1>2, <1>3, LookupsAgree, PTL

----------------------------------------------------------------------------
(* The pages made of an answer.                                              *)

(* A list of events that shows what another has of the set keep.             *)
HasOf(l, ev, keep) ==
  /\ l \in Seq(Event) /\ ToSet(l) = ToSet(ev) \cap keep
  /\ IsInjective(ev) => IsInjective(l)

(* Keeping shows just this. *)
LEMMA KeptIs ==
  ASSUME NEW ev \in Seq(Event), NEW keep
  PROVE  HasOf(Keeping(ev, keep), ev, keep)
BY KeepingKeeps DEF HasOf

(* The events of a league, and the leagues groupByLeague meets. *)
OfLeague(league) == {e \in Event : League[e] = league}
MetLeagues(ev) == Keeping(leagueOrder, {League[e] : e \in ToSet(ev)})

(* The elements of a list. *)
LEMMA ToSetIn ==
  ASSUME NEW Letter, NEW s \in Seq(Letter)
  PROVE  ToSet(s) \subseteq Letter /\ DOMAIN s = 1 .. Len(s) /\ \A i \in DOMAIN s : s[i] \in ToSet(s)
<1>1. DOMAIN s = 1 .. Len(s) /\ \A i \in DOMAIN s : s[i] \in Letter
  OBVIOUS
<1>2. QED
  BY <1>1 DEF ToSet

(* The leagues of a page: by prestige, each once, all there are.             *)
LEMMA MetIs ==
  ASSUME NEW ev \in Seq(Event), ToSet(ev) \subseteq Major
  PROVE  LET met == MetLeagues(ev)
         IN  /\ DOMAIN met = 1 .. Len(met) /\ Len(met) \in Nat
             /\ \A i, j \in DOMAIN met : i < j => Rank(met[i]) < Rank(met[j])
             /\ \A i, j \in DOMAIN met : met[i] = met[j] => i = j
             /\ \A e \in ToSet(ev) : \E i \in DOMAIN met : League[e] = met[i]
<1> DEFINE met == MetLeagues(ev)
           L == ToSet(leagueOrder)
           K == {League[e] : e \in ToSet(ev)}
           n == Len(leagueOrder)
<1>1. leagueOrder \in Seq(L) /\ IsInjective(leagueOrder)
  BY PageAssumption
<1> HIDE DEF L
<1>2. n \in Nat /\ DOMAIN leagueOrder = 1 .. n
  BY <1>1
<1>3. /\ met \in Seq(L) /\ ToSet(met) = L \cap K
      /\ IsInjective(met)
  BY <1>1, KeepingKeeps DEF MetLeagues, L
<1>4. \E f : Picks(f, met, leagueOrder, K, n)
  BY <1>1, KeepingPicks DEF MetLeagues
<1>5. PICK f : Picks(f, met, leagueOrder, K, n)
  BY <1>4
<1> HIDE DEF met, K
<1>6. DOMAIN met = 1 .. Len(met) /\ Len(met) \in Nat
  BY <1>3
<1> HIDE DEF n
<1>7. /\ \A i \in 1 .. Len(met) : f[i] \in 1 .. n /\ met[i] = leagueOrder[f[i]]
      /\ \A i, j \in 1 .. Len(met) : i < j => f[i] < f[j]
  BY <1>5 DEF Picks
<1>8. ASSUME NEW i \in 1 .. Len(met) PROVE Rank(met[i]) = f[i]
  <2>1. f[i] \in DOMAIN leagueOrder /\ leagueOrder[f[i]] = met[i]
    BY <1>2, <1>7
  <2>2. \A j \in DOMAIN leagueOrder : leagueOrder[j] = met[i] => j = f[i]
    BY <1>1, <2>1, Zenon DEF IsInjective
  <2>3. QED
    BY <2>1, <2>2 DEF Rank
<1>9. \A i, j \in DOMAIN met : i < j => Rank(met[i]) < Rank(met[j])
  BY <1>6, <1>7, <1>8
<1>10. \A i, j \in DOMAIN met : met[i] = met[j] => i = j
  BY <1>3, Zenon DEF IsInjective
<1>11. ASSUME NEW e \in ToSet(ev) PROVE \E i \in DOMAIN met : League[e] = met[i]
  <2>1. League[e] \in L
    BY DEF Major, L
  <2>2. League[e] \in K
    BY DEF K
  <2>3. League[e] \in ToSet(met)
    BY <1>3, <2>1, <2>2
  <2>4. QED
    BY <2>3 DEF ToSet
<1>12. QED
  BY <1>6, <1>9, <1>10, <1>11 DEF met

(* A section shows what there is of its league.                              *)
IsSection(sec, league, ev, week) ==
  sec.league = league /\ HasOf(Shown(sec, week), ev, OfLeague(league))

(* What Shows asks of the leagues of a page. *)
ShowsAll(page, week, ev) ==
  LET all == FlattenSeq([i \in DOMAIN page |-> Shown(page[i], week)])
  IN  /\ ToSet(all) = ToSet(ev)
      /\ IsInjective(ev) => IsInjective(all)
      /\ \A i, j \in DOMAIN page : i < j => Rank(page[i].league) < Rank(page[j].league)
      /\ \A i \in DOMAIN page : \A e \in ToSet(Shown(page[i], week)) : League[e] = page[i].league

(* A page of such sections, one for each league, shows all there is.        *)
LEMMA SectionsShowAll ==
  ASSUME NEW ev \in Seq(Event), ToSet(ev) \subseteq Major, NEW week, NEW page,
         DOMAIN page = DOMAIN MetLeagues(ev),
         \A i \in DOMAIN page : IsSection(page[i], MetLeagues(ev)[i], ev, week)
  PROVE  ShowsAll(page, week, ev)
<1> DEFINE met == MetLeagues(ev)
           ss == [i \in DOMAIN page |-> Shown(page[i], week)]
           all == FlattenSeq(ss)
<1>1. /\ DOMAIN met = 1 .. Len(met) /\ Len(met) \in Nat
      /\ \A i, j \in DOMAIN met : i < j => Rank(met[i]) < Rank(met[j])
      /\ \A i, j \in DOMAIN met : met[i] = met[j] => i = j
      /\ \A e \in ToSet(ev) : \E i \in DOMAIN met : League[e] = met[i]
  BY MetIs
<1> HIDE DEF met
<1>2. \A i \in DOMAIN page : page[i].league = met[i] /\ HasOf(Shown(page[i], week), ev, OfLeague(met[i]))
  BY DEF IsSection, met
<1>3. DOMAIN page = 1 .. Len(met)
  BY <1>1 DEF met
<1>4. DOMAIN ss = 1 .. Len(met) /\ \A i \in 1 .. Len(met) : ss[i] = Shown(page[i], week)
  BY <1>3
<1>5. ss = [i \in 1 .. Len(met) |-> Shown(page[i], week)]
  BY <1>3
<1> HIDE DEF ss
<1>6. ASSUME NEW i \in 1 .. Len(met)
      PROVE  /\ ss[i] \in Seq(Event)
             /\ ToSet(ss[i]) = ToSet(ev) \cap OfLeague(met[i])
             /\ IsInjective(ev) => IsInjective(ss[i])
  BY <1>2, <1>3, <1>4 DEF HasOf
<1>7. ss \in Seq(Seq(Event))
  <2>1. \A i \in 1 .. Len(met) : Shown(page[i], week) \in Seq(Event)
    BY <1>4, <1>6
  <2>2. QED
    BY <1>1, <1>5, <2>1
<1>8. Disjoint(ss)
  <2>1. ASSUME NEW i \in 1 .. Len(met), NEW j \in 1 .. Len(met), i # j
        PROVE  ToSet(ss[i]) \cap ToSet(ss[j]) = {}
    <3>1. met[i] # met[j]
      BY <1>1, <2>1
    <3>2. OfLeague(met[i]) \cap OfLeague(met[j]) = {}
      BY <3>1 DEF OfLeague
    <3>3. QED
      BY <1>6, <3>2
  <2>2. QED
    BY <1>4, <2>1 DEF Disjoint
<1>9. /\ ToSet(all) = UNION {ToSet(ss[i]) : i \in DOMAIN ss}
      /\ Disjoint(ss) /\ (\A i \in DOMAIN ss : IsInjective(ss[i])) => IsInjective(all)
  BY <1>7, FlattenAll
<1> HIDE DEF all
<1>10. ToSet(all) = ToSet(ev)
  <2>1. \A x \in ToSet(all) : x \in ToSet(ev)
    BY <1>4, <1>6, <1>9
  <2>2. ASSUME NEW x \in ToSet(ev) PROVE x \in ToSet(all)
    <3>1. PICK i \in DOMAIN met : League[x] = met[i]
      BY <1>1
    <3>2. x \in Event
      BY ToSetIn
    <3>3. x \in OfLeague(met[i])
      BY <3>1, <3>2 DEF OfLeague
    <3>4. i \in DOMAIN ss /\ x \in ToSet(ss[i])
      BY <1>1, <1>4, <1>6, <3>3
    <3>5. QED
      BY <1>9, <3>4
  <2>3. QED
    BY <2>1, <2>2
<1>11. IsInjective(ev) => IsInjective(all)
  BY <1>4, <1>6, <1>8, <1>9
<1>12. \A i, j \in DOMAIN page : i < j => Rank(page[i].league) < Rank(page[j].league)
  BY <1>1, <1>2, <1>3
<1>13. ASSUME NEW i \in DOMAIN page, NEW e \in ToSet(Shown(page[i], week))
       PROVE  League[e] = page[i].league
  <2>1. e \in ToSet(ss[i]) /\ page[i].league = met[i]
    BY <1>2, <1>3, <1>4, <1>13
  <2>2. QED
    BY <1>3, <1>6, <2>1 DEF OfLeague
<1>14. QED
  BY <1>10, <1>11, <1>12, <1>13 DEF ShowsAll, all, ss

----------------------------------------------------------------------------
(* The days of a week.                                                       *)

(* The days of a list of events, in order, and the events of one.           *)
DaysOf(l) == {DayKey(e) : e \in ToSet(Keeping(l, Timed))}
DaySeq(l) == CHOOSE s \in [1 .. Cardinality(DaysOf(l)) -> DaysOf(l)] :
               \A i, j \in DOMAIN s : i < j => s[i] < s[j]
OfDay(d) == {e \in Timed : DayKey(e) = d}

(* Events that are shown of a range. *)
Fit(l, r) ==
  /\ l \in Seq(Event)
  /\ \A e \in ToSet(l) : e \in Timed /\ Start[e] \in Nat /\ r.from <= Start[e] /\ Start[e] < r.to

(* An hour of a week lies in one of its days. *)
LEMMA DayInWeek ==
  ASSUME NEW q \in Int, NEW r, r.from = Hours(q) - ictOffset, r.to = Hours(q + 7) - ictOffset,
         NEW x \in Nat, r.from <= x, x < r.to
  PROVE  /\ DayOf(x) \in Int /\ q <= DayOf(x) /\ DayOf(x) <= q + 6
         /\ LET start == Hours(DayOf(x)) - ictOffset
            IN  /\ r.from <= start /\ addDays(start, 1) <= r.to
                /\ start <= x /\ x < addDays(start, 1)
<1> DEFINE d == DayOf(x)
<1>1. d \in Int /\ Hours(d) - ictOffset <= x /\ x < Hours(d + 1) - ictOffset
  <2>1. x \in Int
    OBVIOUS
  <2>2. QED
    BY <2>1, DayOfType
<1> HIDE DEF d
<1>2. 24 * d <= x + 7 /\ x + 7 < 24 * (d + 1) /\ 24 * q <= x + 7 /\ x + 7 < 24 * (q + 7)
  BY <1>1 DEF Hours, ictOffset
<1>3. q <= d /\ d <= q + 6
  BY <1>1, <1>2
<1>4. LET start == Hours(d) - ictOffset
      IN  /\ r.from <= start /\ addDays(start, 1) <= r.to
          /\ start <= x /\ x < addDays(start, 1)
  BY <1>1, <1>2, <1>3 DEF Hours, ictOffset, addDays
<1>5. QED
  BY <1>1, <1>3, <1>4 DEF d

(* ByDay shows all events under their days, in order. *)
LEMMA ByDayShows ==
  ASSUME NEW q \in Int, NEW r, r.from = Hours(q) - ictOffset, r.to = Hours(q + 7) - ictOffset,
         NEW l, Fit(l, r)
  PROVE  /\ HasOf(FlattenSeq([k \in DOMAIN ByDay(l) |-> ByDay(l)[k].lines]), l, Event)
         /\ DaysInOrder(ByDay(l), r)
<1> DEFINE shown == Keeping(l, Timed)
           D == DaysOf(l)
           s == DaySeq(l)
           m == Cardinality(D)
           b == ByDay(l)
           ss == [k \in DOMAIN b |-> b[k].lines]
           all == FlattenSeq(ss)
<1>1. /\ l \in Seq(Event)
      /\ \A e \in ToSet(l) : /\ e \in Event /\ e \in Timed /\ Start[e] \in Nat
                             /\ r.from <= Start[e] /\ Start[e] < r.to
  BY ToSetIn DEF Fit
<1>2. /\ shown \in Seq(Event) /\ ToSet(shown) = ToSet(l)
      /\ IsInjective(l) => IsInjective(shown)
  <2>1. HasOf(shown, l, Timed)
    BY <1>1, KeptIs
  <2>2. ToSet(l) \cap Timed = ToSet(l)
    BY <1>1
  <2> HIDE DEF shown
  <2>3. QED
    BY <2>1, <2>2 DEF HasOf
<1>3. D = {DayKey(e) : e \in ToSet(l)}
  BY <1>2 DEF DaysOf
<1>4. ASSUME NEW e \in ToSet(l)
      PROVE  /\ DayKey(e) \in Int /\ q <= DayKey(e) /\ DayKey(e) <= q + 6
             /\ LET start == Hours(DayKey(e)) - ictOffset
                IN  /\ r.from <= start /\ addDays(start, 1) <= r.to
                    /\ start <= Start[e] /\ Start[e] < addDays(start, 1)
  <2>1. Start[e] \in Nat /\ r.from <= Start[e] /\ Start[e] < r.to
    BY <1>1
  <2>2. DayKey(e) = DayOf(Start[e])
    BY DEF DayKey, IctDayKey
  <2>3. /\ DayOf(Start[e]) \in Int /\ q <= DayOf(Start[e]) /\ DayOf(Start[e]) <= q + 6
        /\ LET start == Hours(DayOf(Start[e])) - ictOffset
           IN  /\ r.from <= start /\ addDays(start, 1) <= r.to
               /\ start <= Start[e] /\ Start[e] < addDays(start, 1)
    BY <2>1, DayInWeek
  <2>4. QED
    BY <2>2, <2>3
<1>5. b = [i \in DOMAIN s |-> [day |-> s[i], lines |-> Keeping(shown, OfDay(s[i]))]]
  BY DEF ByDay, DaySeq, DaysOf, OfDay
<1> HIDE DEF D, shown
<1>6. D \in SUBSET ((q - 1) + 1 .. (q - 1) + 7) /\ q - 1 \in Int /\ 7 \in Nat
  BY <1>3, <1>4
<1>7. IsFiniteSet(D) /\ \E t : InOrder(t, D)
  BY <1>6, Sorted
<1>8. InOrder(s, D)
  <2>1. PICK t : InOrder(t, D)
    BY <1>7
  <2>2. s = CHOOSE t1 \in [1 .. m -> D] : \A i, j \in DOMAIN t1 : i < j => t1[i] < t1[j]
    BY DEF DaySeq, D
  <2>3. QED
    BY <2>1, <2>2, Zenon DEF InOrder
<1> HIDE DEF s
<1>9. D \in SUBSET Int
  BY <1>6
<1>10. {s[i] : i \in DOMAIN s} = D
  BY <1>7, <1>8, <1>9, SortedHasAll
<1>11. m \in Nat
  BY <1>7, FS_CardinalityType
<1> HIDE DEF m
<1>12. /\ DOMAIN s = 1 .. m /\ \A i \in 1 .. m : s[i] \in D
       /\ \A i, j \in 1 .. m : i < j => s[i] < s[j]
  BY <1>8 DEF InOrder, m
<1>13. DOMAIN b = 1 .. m /\ \A i \in 1 .. m : b[i].day = s[i] /\ b[i].lines = Keeping(shown, OfDay(s[i]))
  BY <1>5, <1>12
<1> HIDE DEF b
<1>14. ASSUME NEW i \in 1 .. m
       PROVE  /\ b[i].lines \in Seq(Event)
              /\ ToSet(b[i].lines) = ToSet(l) \cap OfDay(s[i])
              /\ IsInjective(l) => IsInjective(b[i].lines)
  <2>1. HasOf(Keeping(shown, OfDay(s[i])), shown, OfDay(s[i]))
    BY <1>2, KeptIs
  <2>2. QED
    BY <1>2, <1>13, <2>1 DEF HasOf
<1>15. ss = [k \in 1 .. m |-> b[k].lines]
  BY <1>13
<1>16. /\ ss \in Seq(Seq(Event)) /\ DOMAIN ss = 1 .. m
       /\ \A k \in 1 .. m : ss[k] = b[k].lines
  BY <1>11, <1>14, <1>15
<1> HIDE DEF ss
<1>17. Disjoint(ss)
  <2>1. ASSUME NEW i \in 1 .. m, NEW j \in 1 .. m, i # j
        PROVE  ToSet(ss[i]) \cap ToSet(ss[j]) = {}
    <3>1. i < j \/ j < i
      BY <1>11, <2>1
    <3>2. s[i] < s[j] \/ s[j] < s[i]
      BY <1>12, <3>1
    <3>3. s[i] \in Int /\ s[j] \in Int
      BY <1>9, <1>12
    <3>4. s[i] # s[j]
      BY <3>2, <3>3
    <3>5. OfDay(s[i]) \cap OfDay(s[j]) = {}
      BY <3>4 DEF OfDay
    <3>6. ToSet(ss[i]) \subseteq OfDay(s[i]) /\ ToSet(ss[j]) \subseteq OfDay(s[j])
      BY <1>14, <1>16
    <3>7. QED
      BY <3>5, <3>6
  <2>2. QED
    BY <1>16, <2>1 DEF Disjoint
<1>18. /\ all \in Seq(Event)
       /\ ToSet(all) = UNION {ToSet(ss[i]) : i \in DOMAIN ss}
       /\ Disjoint(ss) /\ (\A i \in DOMAIN ss : IsInjective(ss[i])) => IsInjective(all)
  BY <1>16, FlattenAll
<1> HIDE DEF all
<1>19. ToSet(all) = ToSet(l) \cap Event
  <2>1. \A x \in ToSet(all) : x \in ToSet(l)
    BY <1>14, <1>16, <1>18
  <2>2. ASSUME NEW x \in ToSet(l) PROVE x \in ToSet(all)
    <3>1. DayKey(x) \in D
      BY <1>3
    <3>2. PICK i \in 1 .. m : s[i] = DayKey(x)
      BY <1>10, <1>12, <3>1
    <3>3. x \in OfDay(s[i])
      BY <1>1, <3>2 DEF OfDay
    <3>4. i \in DOMAIN ss /\ x \in ToSet(ss[i])
      BY <1>14, <1>16, <3>3
    <3>5. QED
      BY <1>18, <3>4
  <2>3. QED
    BY <1>1, <2>1, <2>2
<1>20. IsInjective(l) => IsInjective(all)
  BY <1>14, <1>16, <1>17, <1>18
<1>21. HasOf(all, l, Event)
  BY <1>18, <1>19, <1>20 DEF HasOf
<1>22. DaysInOrder(b, r)
  <2>1. ASSUME NEW k \in 1 .. m
        PROVE  LET start == Hours(b[k].day) - ictOffset
               IN  /\ r.from <= start /\ addDays(start, 1) <= r.to
                   /\ \A e \in ToSet(b[k].lines) :
                        start <= Start[e] /\ Start[e] < addDays(start, 1)
    <3>1. b[k].day = s[k] /\ s[k] \in D
      BY <1>12, <1>13
    <3>2. PICK f \in ToSet(l) : s[k] = DayKey(f)
      BY <1>3, <3>1
    <3>3. LET start == Hours(DayKey(f)) - ictOffset
          IN  r.from <= start /\ addDays(start, 1) <= r.to
      BY <1>4
    <3>4. ASSUME NEW e \in ToSet(b[k].lines)
          PROVE  LET start == Hours(s[k]) - ictOffset
                 IN  start <= Start[e] /\ Start[e] < addDays(start, 1)
      <4>1. e \in ToSet(l) /\ DayKey(e) = s[k]
        BY <1>14 DEF OfDay
      <4>2. LET start == Hours(DayKey(e)) - ictOffset
            IN  start <= Start[e] /\ Start[e] < addDays(start, 1)
        BY <1>4, <4>1
      <4>3. QED
        BY <4>1, <4>2
    <3>5. QED
      BY <3>1, <3>2, <3>3, <3>4
  <2>2. \A k, j \in 1 .. m : k < j => b[k].day < b[j].day
    BY <1>12, <1>13
  <2>3. QED
    BY <1>13, <2>1, <2>2 DEF DaysInOrder
<1>23. QED
  BY <1>21, <1>22 DEF all, ss, b

(* groupByLeague, by these names. *)
LEMMA GroupsAre ==
  ASSUME NEW ev
  PROVE  groupByLeague(ev) =
           [i \in DOMAIN MetLeagues(ev) |->
              [league |-> MetLeagues(ev)[i], lines |-> Keeping(ev, OfLeague(MetLeagues(ev)[i]))]]
BY DEF groupByLeague, MetLeagues, Of, OfLeague

(* A page of one day. *)
LEMMA TodayShows ==
  ASSUME NEW ev \in Seq(Event), ToSet(ev) \subseteq Major
  PROVE  ShowsAll(RenderToday(ev), FALSE, ev)
<1> DEFINE page == RenderToday(ev)
           met == MetLeagues(ev)
<1>1. page = [i \in DOMAIN met |-> [league |-> met[i], lines |-> Keeping(ev, OfLeague(met[i]))]]
  BY GroupsAre DEF RenderToday
<1> HIDE DEF page, met
<1>2. DOMAIN page = DOMAIN met
  BY <1>1
<1>3. ASSUME NEW i \in DOMAIN page PROVE IsSection(page[i], met[i], ev, FALSE)
  <2>1. page[i].league = met[i] /\ page[i].lines = Keeping(ev, OfLeague(met[i]))
    BY <1>1, <1>2
  <2>2. Shown(page[i], FALSE) = page[i].lines
    BY DEF Shown
  <2>3. HasOf(Keeping(ev, OfLeague(met[i])), ev, OfLeague(met[i]))
    BY KeptIs
  <2>4. QED
    BY <2>1, <2>2, <2>3, Zenon DEF IsSection
<1>4. ShowsAll(page, FALSE, ev)
  BY <1>2, <1>3, SectionsShowAll DEF met
<1>5. QED
  BY <1>4 DEF page

(* A page of a week. *)
LEMMA WeekShows ==
  ASSUME NEW q \in Int, NEW r, r.from = Hours(q) - ictOffset, r.to = Hours(q + 7) - ictOffset,
         NEW ev, Fit(ev, r), ToSet(ev) \subseteq Major
  PROVE  /\ ShowsAll(RenderWeek(ev), TRUE, ev)
         /\ \A i \in DOMAIN RenderWeek(ev) : DaysInOrder(RenderWeek(ev)[i].days, r)
<1> DEFINE page == RenderWeek(ev)
           met == MetLeagues(ev)
           Lines(i) == Keeping(ev, OfLeague(met[i]))
<1>1. page = [i \in DOMAIN met |-> [league |-> met[i], days |-> ByDay(Lines(i))]]
  BY GroupsAre DEF RenderWeek
<1>2. ev \in Seq(Event)
  BY DEF Fit
<1> HIDE DEF page, met
<1>3. DOMAIN page = DOMAIN met
  BY <1>1
<1>4. ASSUME NEW i \in DOMAIN page
      PROVE  IsSection(page[i], met[i], ev, TRUE) /\ DaysInOrder(page[i].days, r)
  <2> DEFINE l == Lines(i)
             all == FlattenSeq([k \in DOMAIN ByDay(l) |-> ByDay(l)[k].lines])
  <2>1. HasOf(l, ev, OfLeague(met[i]))
    BY <1>2, KeptIs
  <2>2. page[i].league = met[i] /\ page[i].days = ByDay(l)
    BY <1>1, <1>3
  <2> HIDE DEF l
  <2>3. Fit(l, r)
    BY <2>1 DEF Fit, HasOf
  <2>4. HasOf(all, l, Event) /\ DaysInOrder(ByDay(l), r)
    BY <2>3, ByDayShows
  <2>5. Shown(page[i], TRUE) = all
    BY <2>2, Zenon DEF Shown
  <2> HIDE DEF all
  <2>6. HasOf(all, ev, OfLeague(met[i]))
    BY <2>1, <2>4 DEF HasOf, OfLeague
  <2>7. QED
    BY <2>2, <2>4, <2>5, <2>6, Zenon DEF IsSection
<1>5. ShowsAll(page, TRUE, ev)
  BY <1>2, <1>3, <1>4, SectionsShowAll DEF met
<1>6. QED
  BY <1>4, <1>5 DEF page

(* The page of an answer. *)
LEMMA PageShows ==
  ASSUME LookupsAreAsked, NEW r \in Window, NEW events, Fit(events, r)
  PROVE  Shows(IF r.to = addDays(r.from, 7) THEN RenderWeek(FilterMajor(events))
               ELSE RenderToday(FilterMajor(events)),
               r, events)
<1> DEFINE ev == FilterMajor(events)
           page == IF r.to = addDays(r.from, 7) THEN RenderWeek(ev) ELSE RenderToday(ev)
           week == r.to # addDays(r.from, 1)
<1>1. events \in Seq(Event)
  BY DEF Fit
<1>2. HasOf(ev, events, Major)
  BY <1>1, KeptIs DEF FilterMajor
<1> HIDE DEF ev
<1>3. ev \in Seq(Event) /\ ToSet(ev) = ToSet(events) \cap Major
      /\ (IsInjective(events) => IsInjective(ev))
  BY <1>2 DEF HasOf
<1>4. Fit(ev, r)
  BY <1>3 DEF Fit
<1>5. ToSet(ev) \subseteq Major
  BY <1>3
<1>6. ShowsAll(page, week, ev) /\ (week => \A i \in DOMAIN page : DaysInOrder(page[i].days, r))
  <2>1. PICK d \in Int : IsDay(r, d) \/ IsWeek(r, d)
    BY WindowsAreAsked
  <2>2. CASE IsDay(r, d)
    <3>1. r.to = addDays(r.from, 1) /\ r.from \in Int
      BY <2>2, DayHolds DEF IsDay
    <3>2. r.to # addDays(r.from, 7)
      BY <3>1 DEF addDays, Hours
    <3>3. page = RenderToday(ev) /\ week = FALSE
      BY <3>1, <3>2
    <3>4. ShowsAll(RenderToday(ev), FALSE, ev)
      BY <1>3, <1>5, TodayShows
    <3> HIDE DEF page, week
    <3>5. QED
      BY <3>3, <3>4
  <2>3. CASE IsWeek(r, d)
    <3>1. r.to = addDays(r.from, 7) /\ r.from \in Int /\ r.from = Hours(d) - ictOffset
          /\ r.to = Hours(d + 7) - ictOffset
      BY <2>3, WeekHolds DEF IsWeek
    <3>2. r.to # addDays(r.from, 1)
      BY <3>1 DEF addDays, Hours
    <3>3. page = RenderWeek(ev) /\ week = TRUE
      BY <3>1, <3>2
    <3>4. /\ ShowsAll(RenderWeek(ev), TRUE, ev)
          /\ \A i \in DOMAIN RenderWeek(ev) : DaysInOrder(RenderWeek(ev)[i].days, r)
      BY <1>4, <1>5, <3>1, WeekShows
    <3> HIDE DEF page, week
    <3>5. QED
      BY <3>3, <3>4
  <2>4. QED
    BY <2>1, <2>2, <2>3
<1> HIDE DEF page, week
<1> DEFINE all == FlattenSeq([i \in DOMAIN page |-> Shown(page[i], week)])
<1>7. /\ ToSet(all) = ToSet(ev)
      /\ IsInjective(ev) => IsInjective(all)
      /\ \A i, j \in DOMAIN page : i < j => Rank(page[i].league) < Rank(page[j].league)
      /\ \A i \in DOMAIN page : \A e \in ToSet(Shown(page[i], week)) : League[e] = page[i].league
  BY <1>6, Zenon DEF ShowsAll
<1> HIDE DEF all
<1>8. /\ ToSet(all) = ToSet(events) \cap Major
      /\ IsInjective(events) => IsInjective(all)
      /\ \A i, j \in DOMAIN page : i < j => Rank(page[i].league) < Rank(page[j].league)
      /\ \A i \in DOMAIN page : \A e \in ToSet(Shown(page[i], week)) : League[e] = page[i].league
      /\ week => \A i \in DOMAIN page : DaysInOrder(page[i].days, r)
  BY <1>3, <1>6, <1>7, Zenon
<1>9. Shows(page, r, events)
  BY <1>8, Zenon DEF Shows, all, week
<1>10. QED
  BY <1>9, Zenon DEF page, ev

(* What follows the schedule is of the range. *)
LEMMA FollowsFit ==
  ASSUME NEW a \in Answer, NEW r \in Window, Follows(a, r),
         \A x \in 1 .. Len(Page) : \A y \in x .. Len(Page) : Listed(x, y) \in Seq(Event)
  PROVE  Fit(a.events, r)
<1>1. PICK x \in 1 .. Len(Page) : \E y \in x .. Len(Page) :
             Selects(a.events, Listed(x, y), InRange(r))
  BY DEF Follows
<1>2. PICK y \in x .. Len(Page) : Selects(a.events, Listed(x, y), InRange(r))
  BY <1>1
<1>3. Listed(x, y) \in Seq(Event)
  OBVIOUS
<1>4. \A k \in DOMAIN a.events : a.events[k] \in InRange(r)
  BY <1>2, <1>3, SelectedIsKept
<1>5. a.events \in Seq(Event)
  BY DEF Answer
<1>6. ASSUME NEW e \in ToSet(a.events)
      PROVE  e \in Timed /\ Start[e] \in Nat /\ r.from <= Start[e] /\ Start[e] < r.to
  <2>1. e \in InRange(r)
    BY <1>4 DEF ToSet
  <2>2. Start \in [Event -> Nat \cup {Unparsed}]
    BY ScheduleAssumption
  <2>3. QED
    BY <2>1, <2>2 DEF InRange, Timed
<1>7. QED
  BY <1>5, <1>6 DEF Fit

(* However lookups race, fail or answer from the store, whatever the leagues *)
(* and their order: a page shows all that the answer has of the major        *)
(* leagues and nothing else, each event under its league and, in a week,     *)
(* under the day it is played on in Vietnam (format.go).                     *)
THEOREM PagesShow == LookupsAreAsked => (ScheduleSpec => []PagesShowTheAnswer)
<1>1. ASSUME LookupsAreAsked, ScheduleTypeOK, AnswersFollowSchedule,
             \A w \in Worker : range[w] = None => answer[w] = None
      PROVE  PagesShowTheAnswer
  <2>1. ASSUME NEW w \in Worker, answer[w] # None
        PROVE  Shows(Reply(w), range[w], answer[w].events)
    <3> DEFINE a == answer[w]
               r == range[w]
    <3>1. a \in Answer /\ r \in Window /\ Follows(a, r)
      BY <1>1, <2>1 DEF ScheduleTypeOK, AnswersFollowSchedule
    <3> HIDE DEF a, r
    <3>2. Fit(a.events, r)
      <4>1. \A x \in 1 .. Len(Page) : \A y \in x .. Len(Page) : Listed(x, y) \in Seq(Event)
        BY ListedGrows
      <4>2. QED
        BY <3>1, <4>1, FollowsFit
    <3>3. Shows(IF r.to = addDays(r.from, 7) THEN RenderWeek(FilterMajor(a.events))
                ELSE RenderToday(FilterMajor(a.events)),
                r, a.events)
      BY <1>1, <3>1, <3>2, PageShows
    <3>4. Reply(w) = IF r.to = addDays(r.from, 7) THEN RenderWeek(FilterMajor(a.events))
                     ELSE RenderToday(FilterMajor(a.events))
      BY DEF Reply, a, r
    <3>5. QED
      BY <3>3, <3>4, Zenon DEF a, r
  <2>2. QED
    BY <2>1 DEF PagesShowTheAnswer
<1>2. LookupsAreAsked => [](LookupsAreAsked)
  <2>1. LookupsAreAsked => LookupsAreAsked'
    BY DEF LookupsAreAsked
  <2>2. QED
    BY <2>1, PTL
<1>3. ScheduleIInv => /\ ScheduleTypeOK /\ AnswersFollowSchedule
                      /\ \A w \in Worker : range[w] = None => answer[w] = None
  <2>1. ASSUME ScheduleIInv, NEW w \in Worker
        PROVE  /\ range[w] = None => answer[w] = None
               /\ answer[w] # None => Follows(answer[w], range[w])
    <3>1. /\ range[w] = None => pc[w] = "idle"
          /\ answer[w] # None => pc[w] = "return"
          /\ Answers(answer[w], range[w], began[w])
      BY <2>1 DEF ScheduleIInv, LookupFollows
    <3>2. QED
      BY <3>1 DEF Answers
  <2>2. QED
    BY <2>1 DEF ScheduleIInv, AnswersFollowSchedule
<1>4. QED
  BY <1>1, <1>2, <1>3, LookupsAgree, PTL

=============================================================================
