--------------------------- MODULE TwentyqProofs ---------------------------
(* Proofs about Twentyq for every set of workers, subjects, targets and     *)
(* questions, whatever the limiter and the upstream model answer.           *)
EXTENDS Twentyq, Loops

Playing == {"turn", "allowTurn", "judge"}
Starting == {"allowStart", "generate", "saveFresh"}

(* What a handler has found out by the time it is at each label.            *)
ControlOf(w) ==
  /\ pc[w] \in {"lock"} \cup Locking =>
       req[w] \in Request /\ req[w].subject \in Subject
  /\ pc[w] \in Starting \cup Playing \cup {"clearSolved", "save"} => req[w].cmd = "ask"
  /\ pc[w] \in {"allowTurn", "judge"} =>
       req[w].arg \in Question /\ req[w].arg \notin ToSet(round[w].turns)

(* A round to be played on: the stored one, unsolved and uncounted.         *)
PlayableOf(w) ==
  LET s == req[w].subject
  IN  /\ game[s] \in Round /\ ~game[s].solved
      /\ IsInjective(game[s].turns)
      /\ faulty[s] \/ results[s] = <<>>

(* The round after one more question that did not solve it.                 *)
WithTurn(g, q) == [g EXCEPT !.turns = Append(@, q)]

(* What a handler holds in memory against what is stored.                   *)
MemoryOf(w) ==
  LET s == req[w].subject
  IN  /\ pc[w] \in Playing => PlayableOf(w) /\ round[w] = game[s]
      /\ pc[w] = "save" =>
           /\ PlayableOf(w)
           /\ \E q \in Question \ ToSet(game[s].turns) :
                round[w] = WithTurn(game[s], q)
      /\ pc[w] \in Starting => game[s] = None \/ game[s].solved
      /\ pc[w] = "clearSolved" => game[s] # None /\ game[s].solved
      /\ pc[w] = "saveFresh" =>
           round[w] \in Round /\ round[w].turns = <<>> /\ ~round[w].solved
      /\ pc[w] \in {"loadStats", "putStats"} =>
           round[w] \in Round /\ (req[w].cmd = "ask" => round[w].turns # <<>>)
      /\ pc[w] = "putStats" => score[w] = stats[s]

(* Of a stored round: no question twice, and counted only while a handler   *)
(* is about to clear it.                                                    *)
RoundOf(s) ==
  game[s] # None =>
    /\ IsInjective(game[s].turns)
    /\ \/ faulty[s]
       \/ results[s] = <<>>
       \/ \E w \in Worker : pc[w] = "clear" /\ req[w].subject = s

ClearingOf(w) ==
  LET s == req[w].subject
  IN  pc[w] = "clear" /\ ~faulty[s] /\ game[s] # None => Len(results[s]) = 1

Sum(st) ==
  /\ st.solved <= st.played
  /\ (st.best = None) <=> (st.solved = 0)
  /\ st.best # None => st.best >= 1 /\ st.solved * st.best <= st.turns

IInv ==
  /\ TypeOK
  /\ \A w \in Worker : ControlOf(w) /\ MemoryOf(w) /\ ClearingOf(w)
  /\ \A s \in Subject : RoundOf(s) /\ Sum(stats[s])

----------------------------------------------------------------------------

LEMMA RequestParts ==
  ASSUME NEW r \in Request
  PROVE  /\ r.subject \in Subject \cup {None}
         /\ r.cmd \in {"ask", "giveup"}
         /\ r.cmd = "ask" => r.arg \in Question \cup {NoArg, BadArg}
BY DEF Request

(* A result counted keeps the stats a score that rounds can add up to.      *)
LEMMA ScoredAddsUp ==
  ASSUME NEW st \in Stats, NEW won \in BOOLEAN, NEW count \in Nat,
         Sum(st), won => count >= 1
  PROVE  Result(st, won, count) \in Stats /\ Sum(Result(st, won, count))
<1> USE ConstantsAssumption
<1>1. /\ st.played \in Nat /\ st.solved \in Nat /\ st.turns \in Nat
      /\ st.best \in Nat \cup {None}
  BY DEF Stats
<1>2. PICK r : r = Result(st, won, count)
  OBVIOUS
<1>3. /\ r.played = st.played + 1
      /\ r.solved = IF won THEN st.solved + 1 ELSE st.solved
      /\ r.turns = st.turns + count
      /\ r.best = IF won /\ (st.best = None \/ count < st.best) THEN count ELSE st.best
      /\ r \in Stats
  BY <1>1, <1>2 DEF Result, Scored, Stats
<1>4. CASE ~won
  <2>1. r.best = st.best /\ r.solved = st.solved /\ r.turns = st.turns + count
    BY <1>3, <1>4
  <2>2. r.best # None => r.solved * r.best <= r.turns
    <3>1. r.best # None => st.solved * st.best \in Nat
      BY <1>1, <2>1
    <3>2. r.best # None => st.solved * st.best <= st.turns
      BY <2>1 DEF Sum
    <3>3. r.best # None => st.solved * st.best <= r.turns
      BY <1>1, <2>1, <3>1, <3>2
    <3>4. QED
      BY <2>1, <3>3
  <2>3. Sum(r)
    BY <1>1, <1>3, <1>4, <2>1, <2>2 DEF Sum
  <2>4. QED
    BY <1>2, <1>3, <2>3
<1>5. CASE won /\ st.best = None
  <2>1. r.solved = 1 /\ r.best = count
    BY <1>1, <1>3, <1>5 DEF Sum
  <2>2. r.solved * r.best = count
    BY <2>1
  <2>3. r.solved <= r.played /\ r.best # None /\ r.best >= 1 /\ count <= r.turns
    BY <1>1, <1>3, <1>5, <2>1
  <2>4. r.solved * r.best <= r.turns
    BY <2>2, <2>3
  <2>5. Sum(r)
    BY <2>1, <2>3, <2>4 DEF Sum
  <2>6. QED
    BY <1>2, <1>3, <2>5
<1>6. CASE won /\ st.best # None
  <2>1. PICK b \in Nat : b = r.best
    BY <1>1, <1>3, <1>6
  <2>2. b <= st.best /\ b <= count /\ b >= 1
    BY <1>1, <1>3, <1>6, <2>1 DEF Sum
  <2>3. st.solved * b <= st.solved * st.best
    <3>1. \A n, x, y \in Nat : x <= y => n * x <= n * y
      OBVIOUS
    <3>2. QED
      BY <1>1, <1>6, <2>2, <3>1
  <2>4. (st.solved + 1) * b = st.solved * b + b
    BY <1>1
  <2>5. st.solved * b \in Nat /\ st.solved * st.best \in Nat
    BY <1>1, <1>6
  <2>6. r.solved * r.best <= r.turns
    BY <1>1, <1>3, <1>6, <2>1, <2>2, <2>3, <2>4, <2>5 DEF Sum
  <2>7. r.solved <= r.played /\ r.solved # 0 /\ r.best # None /\ r.best >= 1
    BY <1>1, <1>3, <1>6, <2>1, <2>2 DEF Sum
  <2>8. QED
    BY <1>2, <1>3, <2>6, <2>7 DEF Sum
<1>7. QED
  BY <1>4, <1>5, <1>6

(* Appending a question the round does not hold keeps them distinct.        *)
LEMMA StaysDistinct ==
  ASSUME NEW t \in Seq(Question), NEW q \in Question,
         IsInjective(t), q \notin ToSet(t)
  PROVE  /\ Append(t, q) \in Seq(Question) /\ Append(t, q) # <<>>
         /\ IsInjective(Append(t, q))
<1> DEFINE h == Append(t, q)
<1>1. /\ h \in Seq(Question) /\ h # <<>>
      /\ DOMAIN h = 1 .. Len(t) + 1 /\ h[Len(t) + 1] = q
      /\ \A i \in 1 .. Len(t) : h[i] = t[i]
      /\ DOMAIN t = 1 .. Len(t) /\ Len(t) \in Nat
  OBVIOUS
<1> HIDE DEF h
<1>2. \A i \in 1 .. Len(t) : t[i] # q
  BY <1>1 DEF ToSet
<1>3. ASSUME NEW i \in 1 .. Len(t), NEW j \in 1 .. Len(t), h[i] = h[j]
      PROVE  i = j
  BY <1>1, <1>3 DEF IsInjective
<1>4. IsInjective(h)
  BY <1>1, <1>2, <1>3 DEF IsInjective
<1>5. QED
  BY <1>1, <1>4 DEF h

LEMMA WithTurnParts ==
  ASSUME NEW g \in Round, NEW q
  PROVE  WithTurn(g, q) =
           [target |-> g.target, turns |-> Append(g.turns, q), solved |-> g.solved]
<1>1. PICK h : h = [g EXCEPT !.turns = Append(g.turns, q)]
  OBVIOUS
<1>2. h = [target |-> g.target, turns |-> Append(g.turns, q), solved |-> g.solved]
  BY <1>1 DEF Round
<1>3. QED
  BY <1>1, <1>2 DEF WithTurn

LEMMA InitIInv == Init => IInv
<1> SUFFICES ASSUME Init
             PROVE  IInv
  OBVIOUS
<1>1. NoStats \in Stats /\ Sum(NoStats)
  BY ConstantsAssumption DEF NoStats, Stats, Sum
<1>2. Lingering \subseteq Round
  <2> SUFFICES ASSUME NEW t \in Target, NEW q \in Question
               PROVE  [target |-> t, turns |-> <<q>>, solved |-> TRUE] \in Round
    BY DEF Lingering
  <2>1. <<q>> \in Seq(Question)
    OBVIOUS
  <2>2. QED
    BY <2>1 DEF Round
<1>3. ASSUME NEW g \in Lingering
      PROVE  IsInjective(g.turns)
  BY <1>3 DEF Lingering, IsInjective
<1>4. TypeOK
  BY <1>1, <1>2 DEF Init, TypeOK, Locking
<1>5. ASSUME NEW w \in Worker
      PROVE  ControlOf(w) /\ MemoryOf(w) /\ ClearingOf(w)
  BY DEF Init, ControlOf, MemoryOf, ClearingOf, Locking, Starting, Playing
<1>6. ASSUME NEW s \in Subject
      PROVE  RoundOf(s) /\ Sum(stats[s])
  BY <1>1, <1>3 DEF Init, RoundOf
<1>7. QED
  BY <1>4, <1>5, <1>6 DEF IInv

----------------------------------------------------------------------------

(* The lock lets one handler at a time past Acquire for a subject.          *)
LEMMA OneHandlerPerSubject ==
  ASSUME TypeOK, NEW v \in Worker, NEW w \in Worker,
         pc[v] \in Locking, pc[w] \in Locking, req[v].subject = req[w].subject
  PROVE  v = w
BY DEF TypeOK

(* A worker before Acquire, or past its last call, leaves the invariant as  *)
(* it is for the others.                                                    *)
LEMMA OutsideFrame ==
  ASSUME IInv, NEW w \in Worker,
         pc[w] # "clear", pc'[w] \in {"idle", "reply", "lock", "load"},
         pc' = [pc EXCEPT ![w] = pc'[w]], req' = [req EXCEPT ![w] = req'[w]],
         round' = [round EXCEPT ![w] = round'[w]],
         score' = [score EXCEPT ![w] = score'[w]],
         UNCHANGED <<store, history>>,
         TypeOK', ControlOf(w)'
  PROVE  IInv'
<1> USE DEF IInv, TypeOK, store, history
<1>1. ASSUME NEW v \in Worker, v # w
      PROVE  ControlOf(v)' /\ MemoryOf(v)' /\ ClearingOf(v)'
  <2>1. /\ pc'[v] = pc[v] /\ req'[v] = req[v]
        /\ round'[v] = round[v] /\ score'[v] = score[v]
    BY <1>1
  <2>2. UNCHANGED <<game, stats, results, faulty>>
    OBVIOUS
  <2>3. ControlOf(v)'
    BY <2>1 DEF ControlOf
  <2>4. MemoryOf(v)'
    <3>1. PlayableOf(v)' <=> PlayableOf(v)
      BY <2>1, <2>2 DEF PlayableOf
    <3>2. MemoryOf(v)
      OBVIOUS
    <3> HIDE DEF IInv, TypeOK
    <3>3. QED
      BY <2>1, <2>2, <3>1, <3>2 DEF MemoryOf
  <2>5. ClearingOf(v)'
    BY <2>1, <2>2 DEF ClearingOf
  <2>6. QED
    BY <2>3, <2>4, <2>5
<1>2. MemoryOf(w)' /\ ClearingOf(w)'
  BY DEF MemoryOf, ClearingOf, Playing, Starting
<1>3. ASSUME NEW s \in Subject
      PROVE  RoundOf(s)' /\ Sum(stats[s])'
  <2>1. ASSUME NEW v \in Worker, pc[v] = "clear" /\ req[v].subject = s
        PROVE  pc'[v] = "clear" /\ req'[v].subject = s
    BY <2>1
  <2>2. QED
    BY <2>1 DEF RoundOf
<1>4. QED
  BY <1>1, <1>2, <1>3

LEMMA ReceiveStep ==
  ASSUME IInv, NEW w \in Worker, NEW r \in Request, Receive(w, r)
  PROVE  IInv'
<1> USE DEF memory, Goto
<1>1. /\ pc[w] = "idle"
      /\ req' = [req EXCEPT ![w] = r]
      /\ pc' = [pc EXCEPT ![w] = pc'[w]]
      /\ pc'[w] \in {"reply", "lock"}
      /\ pc'[w] = "lock" => r.subject \in Subject
      /\ UNCHANGED <<store, lock, memory, history>>
  BY RequestParts DEF Receive, IInv, TypeOK
<1>2. TypeOK'
  <2>1. ASSUME NEW v \in Worker, pc'[v] \in Locking
        PROVE  lock'[req'[v].subject] = v
    BY <1>1, <2>1 DEF IInv, TypeOK, Locking
  <2>2. pc' \in [Worker -> {"idle", "reply", "lock"} \cup Locking]
    BY <1>1 DEF IInv, TypeOK
  <2>3. req' \in [Worker -> Request \cup {Idle}]
    BY <1>1 DEF IInv, TypeOK
  <2>4. QED
    BY <1>1, <2>1, <2>2, <2>3 DEF IInv, TypeOK, store, history, memory
<1>3. ControlOf(w)'
  BY <1>1 DEF IInv, TypeOK, ControlOf, Locking, Starting, Playing
<1>4. /\ round' = [round EXCEPT ![w] = round'[w]]
      /\ score' = [score EXCEPT ![w] = score'[w]]
      /\ req' = [req EXCEPT ![w] = req'[w]]
  BY <1>1 DEF IInv, TypeOK
<1>5. QED
  BY <1>1, <1>2, <1>3, <1>4, OutsideFrame

LEMMA AcquireStep ==
  ASSUME IInv, NEW w \in Worker, Acquire(w)
  PROVE  IInv'
<1> USE DEF memory, Goto
<1>1. /\ pc[w] = "lock" /\ req[w].subject \in Subject
      /\ lock[req[w].subject] = None
      /\ lock' = [lock EXCEPT ![req[w].subject] = w]
      /\ pc' = [pc EXCEPT ![w] = "load"]
      /\ UNCHANGED <<store, req, memory, history>>
  BY DEF Acquire, CanLock, Free, IInv, TypeOK, ControlOf
<1>2. TypeOK'
  <2>1. ASSUME NEW v \in Worker, pc'[v] \in Locking
        PROVE  lock'[req'[v].subject] = v
    BY <1>1, <2>1, ConstantsAssumption DEF IInv, TypeOK, Locking
  <2>2. lock' \in [Subject -> Worker \cup {None}]
    BY <1>1 DEF IInv, TypeOK
  <2>3. pc' \in [Worker -> {"idle", "reply", "lock"} \cup Locking]
    BY <1>1 DEF IInv, TypeOK, Locking
  <2>4. QED
    BY <1>1, <2>1, <2>2, <2>3 DEF IInv, TypeOK, store, history
<1>3. ControlOf(w)'
  BY <1>1 DEF IInv, TypeOK, ControlOf, Locking, Starting, Playing
<1>4. /\ round' = [round EXCEPT ![w] = round'[w]]
      /\ score' = [score EXCEPT ![w] = score'[w]]
      /\ req' = [req EXCEPT ![w] = req'[w]]
      /\ pc' = [pc EXCEPT ![w] = pc'[w]] /\ pc'[w] = "load"
  BY <1>1 DEF IInv, TypeOK
<1>5. QED
  BY <1>1, <1>2, <1>3, <1>4, OutsideFrame

LEMMA ForgetStep ==
  ASSUME IInv, NEW w \in Worker, ReplyUnlocked(w) \/ ReturnAndUnlock(w)
  PROVE  IInv'
<1> USE DEF Goto, Forget
<1>1. /\ pc[w] \in {"reply", "done"}
      /\ pc' = [pc EXCEPT ![w] = "idle"]
      /\ req' = [req EXCEPT ![w] = Idle]
      /\ round' = [round EXCEPT ![w] = None]
      /\ score' = [score EXCEPT ![w] = NoStats]
      /\ UNCHANGED <<store, history>>
      /\ \/ UNCHANGED lock
         \/ pc[w] = "done" /\ lock' = [lock EXCEPT ![req[w].subject] = None]
  BY DEF ReplyUnlocked, ReturnAndUnlock
<1>2. TypeOK'
  <2>1. ASSUME NEW v \in Worker, pc'[v] \in Locking
        PROVE  lock'[req'[v].subject] = v
    <3>1. v # w /\ pc[v] \in Locking /\ req'[v] = req[v] /\ lock[req[v].subject] = v
      BY <1>1, <2>1 DEF IInv, TypeOK, Locking
    <3>2. pc[w] = "done" => req[v].subject # req[w].subject
      BY <3>1, OneHandlerPerSubject DEF IInv, Locking
    <3>3. req[v].subject \in Subject
      BY <3>1 DEF IInv, ControlOf
    <3>4. QED
      BY <1>1, <3>1, <3>2, <3>3 DEF IInv, TypeOK
  <2>2. lock' \in [Subject -> Worker \cup {None}]
    BY <1>1 DEF IInv, TypeOK
  <2>3. pc' \in [Worker -> {"idle", "reply", "lock"} \cup Locking]
    BY <1>1 DEF IInv, TypeOK, Locking
  <2>4. NoStats \in Stats
    BY DEF NoStats, Stats
  <2>5. QED
    BY <1>1, <2>1, <2>2, <2>3, <2>4 DEF IInv, TypeOK, store, history
<1>3. ControlOf(w)'
  BY <1>1 DEF IInv, TypeOK, ControlOf, Locking, Starting, Playing
<1>4. /\ round' = [round EXCEPT ![w] = round'[w]]
      /\ score' = [score EXCEPT ![w] = score'[w]]
      /\ req' = [req EXCEPT ![w] = req'[w]]
      /\ pc' = [pc EXCEPT ![w] = pc'[w]] /\ pc'[w] = "idle"
  BY <1>1 DEF IInv, TypeOK
<1>5. QED
  BY <1>1, <1>2, <1>3, <1>4, OutsideFrame

----------------------------------------------------------------------------

(* A call of the handler that holds a subject's lock changes what concerns  *)
(* the subject and this worker only, and is judged by them alone.           *)
LockedFrame(w, s) ==
  /\ UNCHANGED <<lock, req>>
  /\ pc' = [pc EXCEPT ![w] = pc'[w]]
  /\ round' = [round EXCEPT ![w] = round'[w]]
  /\ score' = [score EXCEPT ![w] = score'[w]]
  /\ game' = [game EXCEPT ![s] = game'[s]]
  /\ stats' = [stats EXCEPT ![s] = stats'[s]]
  /\ results' = [results EXCEPT ![s] = results'[s]]
  /\ faulty' = [faulty EXCEPT ![s] = faulty'[s]]

NewTypes(w, s) ==
  /\ pc'[w] \in Locking
  /\ round'[w] \in Round \cup {None}
  /\ score'[w] \in Stats
  /\ game'[s] \in Round \cup {None}
  /\ stats'[s] \in Stats /\ Sum(stats'[s])
  /\ results'[s] \in Seq(BOOLEAN)
  /\ faulty'[s] \in BOOLEAN

LEMMA LockedStep ==
  ASSUME IInv, NEW w \in Worker, NEW s \in Subject,
         pc[w] \in Locking, req[w].subject = s,
         LockedFrame(w, s), NewTypes(w, s),
         ControlOf(w)', MemoryOf(w)', ClearingOf(w)', RoundOf(s)'
  PROVE  IInv'
<1> USE DEF IInv, TypeOK, LockedFrame, NewTypes
<1>1. TypeOK'
  <2>1. ASSUME NEW v \in Worker, pc'[v] \in Locking
        PROVE  lock'[req'[v].subject] = v
    BY <2>1 DEF Locking
  <2>2. pc' \in [Worker -> {"idle", "reply", "lock"} \cup Locking]
    OBVIOUS
  <2>3. /\ round' \in [Worker -> Round \cup {None}]
        /\ score' \in [Worker -> Stats]
        /\ game' \in [Subject -> Round \cup {None}]
    OBVIOUS
  <2>4. /\ stats' \in [Subject -> Stats]
        /\ results' \in [Subject -> Seq(BOOLEAN)]
        /\ faulty' \in [Subject -> BOOLEAN]
    OBVIOUS
  <2>5. QED
    BY <2>1, <2>2, <2>3, <2>4
<1>2. ASSUME NEW v \in Worker, v # w
      PROVE  ControlOf(v)' /\ MemoryOf(v)' /\ ClearingOf(v)'
  <2>1. pc[v] \in Locking => req[v].subject \in Subject /\ req[v].subject # s
    BY <1>2, OneHandlerPerSubject DEF ControlOf
  <2>2. /\ pc'[v] = pc[v] /\ req'[v] = req[v]
        /\ round'[v] = round[v] /\ score'[v] = score[v]
    BY <1>2
  <2>3. ControlOf(v)'
    BY <2>2 DEF ControlOf
  <2>4. pc[v] \in Locking =>
          /\ game'[req[v].subject] = game[req[v].subject]
          /\ stats'[req[v].subject] = stats[req[v].subject]
          /\ results'[req[v].subject] = results[req[v].subject]
          /\ faulty'[req[v].subject] = faulty[req[v].subject]
    BY <2>1
  <2>5. /\ Playing \subseteq Locking /\ Starting \subseteq Locking
        /\ {"save", "clearSolved", "loadStats", "putStats", "clear"} \subseteq Locking
    BY DEF Playing, Starting, Locking
  <2>6. CASE pc[v] \in Locking
    <3>1. PICK t : t = req[v].subject
      OBVIOUS
    <3>2. /\ t = req'[v].subject /\ game'[t] = game[t] /\ stats'[t] = stats[t]
          /\ results'[t] = results[t] /\ faulty'[t] = faulty[t]
      BY <2>2, <2>4, <2>6, <3>1
    <3>3. MemoryOf(v) /\ ClearingOf(v)
      OBVIOUS
    <3> HIDE DEF IInv, TypeOK, LockedFrame, NewTypes
    <3>4. MemoryOf(v)'
      BY <2>2, <3>1, <3>2, <3>3 DEF MemoryOf, PlayableOf
    <3>5. ClearingOf(v)'
      BY <2>2, <3>1, <3>2, <3>3 DEF ClearingOf
    <3>6. QED
      BY <2>3, <3>4, <3>5
  <2>7. CASE pc[v] \notin Locking
    <3>1. MemoryOf(v)' /\ ClearingOf(v)'
      BY <2>2, <2>5, <2>7 DEF MemoryOf, ClearingOf
    <3>2. QED
      BY <2>3, <3>1
  <2>8. QED
    BY <2>6, <2>7
<1>3. ASSUME NEW t \in Subject, t # s
      PROVE  RoundOf(t)' /\ Sum(stats[t])'
  <2>1. ASSUME NEW v \in Worker, pc[v] = "clear" /\ req[v].subject = t
        PROVE  pc'[v] = "clear" /\ req'[v].subject = t
    BY <1>3, <2>1
  <2>2. /\ game'[t] = game[t] /\ results'[t] = results[t]
        /\ faulty'[t] = faulty[t] /\ stats'[t] = stats[t]
    BY <1>3
  <2>3. QED
    BY <2>1, <2>2 DEF RoundOf
<1>4. QED
  BY <1>1, <1>2, <1>3

LEMMA LockedFacts ==
  ASSUME IInv, NEW w \in Worker, pc[w] \in Locking
  PROVE  LET s == req[w].subject
         IN  /\ s \in Subject
             /\ req[w] \in Request /\ req[w].cmd \in {"ask", "giveup"}
             /\ round[w] \in Round \cup {None}
             /\ score[w] \in Stats
             /\ game[s] \in Round \cup {None}
             /\ stats[s] \in Stats /\ Sum(stats[s])
             /\ results[s] \in Seq(BOOLEAN)
             /\ faulty[s] \in BOOLEAN
             /\ game[s] # None /\ ~faulty[s] /\ pc[w] # "clear" => results[s] = <<>>
<1> DEFINE s == req[w].subject
<1>1. s \in Subject /\ req[w] \in Request /\ req[w].cmd \in {"ask", "giveup"}
  BY RequestParts DEF IInv, ControlOf
<1>2. ASSUME pc[w] # "clear", NEW v \in Worker, pc[v] = "clear", req[v].subject = s
      PROVE  FALSE
  BY <1>2, OneHandlerPerSubject DEF IInv, Locking
<1>3. game[s] # None /\ ~faulty[s] /\ pc[w] # "clear" => results[s] = <<>>
  BY <1>1, <1>2 DEF IInv, RoundOf
<1>4. QED
  BY <1>1, <1>3 DEF IInv, TypeOK

LEMMA LoadGameStep ==
  ASSUME IInv, NEW w \in Worker, LoadGame(w)
  PROVE  IInv'
<1> USE DEF store, memory, history, Goto, Fails
<1>0. pc[w] \in Locking
  BY DEF LoadGame, Locking
<1>a. PICK s \in Subject : s = req[w].subject
  BY <1>0, LockedFacts
<1>1. /\ s = req[w].subject
      /\ req[w] \in Request /\ req[w].cmd \in {"ask", "giveup"}
      /\ round[w] \in Round \cup {None}
      /\ score[w] \in Stats
      /\ game[s] \in Round \cup {None}
      /\ stats[s] \in Stats /\ Sum(stats[s])
      /\ results[s] \in Seq(BOOLEAN)
      /\ faulty[s] \in BOOLEAN
      /\ game[s] # None /\ ~faulty[s] /\ pc[w] # "clear" => results[s] = <<>>
      /\ game[s] # None => IsInjective(game[s].turns)
      /\ RoundOf(s)
  BY <1>0, <1>a, LockedFacts DEF RoundOf, IInv
<1>2. /\ pc[w] = "load"
      /\ UNCHANGED <<store, lock, req, score, results>>
      /\ \/ /\ round' = [round EXCEPT ![w] = game[s]]
            /\ pc' = [pc EXCEPT ![w] = AfterLoad(w, game[s])]
            /\ UNCHANGED faulty
         \/ /\ pc' = [pc EXCEPT ![w] = "done"]
            /\ faulty' = [faulty EXCEPT ![s] = TRUE]
            /\ UNCHANGED round
  BY <1>1 DEF LoadGame, NextAfterLoad
<1>3. LET l == AfterLoad(w, game[s])
      IN  /\ l \in {"done", "loadStats", "allowStart", "clearSolved", "turn"}
          /\ l \in {"allowStart", "clearSolved", "turn"} => req[w].cmd = "ask"
          /\ l = "loadStats" => game[s] # None /\ req[w].cmd # "ask"
          /\ l = "allowStart" => game[s] = None
          /\ l = "clearSolved" => game[s] # None /\ game[s].solved
          /\ l = "turn" => game[s] # None /\ ~game[s].solved
  BY <1>1 DEF AfterLoad
<1>4. LockedFrame(w, s) /\ NewTypes(w, s)
  <2>1. /\ pc' = [pc EXCEPT ![w] = pc'[w]] /\ pc'[w] \in Locking
        /\ faulty' = [faulty EXCEPT ![s] = faulty'[s]] /\ faulty'[s] \in BOOLEAN
    BY <1>1, <1>2, <1>3 DEF IInv, TypeOK, Locking
  <2>2. /\ round' = [round EXCEPT ![w] = round'[w]] /\ round'[w] \in Round \cup {None}
        /\ score' = [score EXCEPT ![w] = score'[w]] /\ score'[w] \in Stats
    BY <1>1, <1>2, <1>3 DEF IInv, TypeOK
  <2>3. /\ game' = [game EXCEPT ![s] = game'[s]] /\ game'[s] \in Round \cup {None}
        /\ stats' = [stats EXCEPT ![s] = stats'[s]]
        /\ stats'[s] \in Stats /\ Sum(stats'[s])
    BY <1>1, <1>2, <1>3 DEF IInv, TypeOK
  <2>4. results' = [results EXCEPT ![s] = results'[s]] /\ results'[s] \in Seq(BOOLEAN)
    BY <1>1, <1>2, <1>3 DEF IInv, TypeOK
  <2>5. QED
    BY <1>1, <1>2, <1>3, <2>1, <2>2, <2>3, <2>4 DEF LockedFrame, NewTypes
<1>5. ControlOf(w)'
  BY <1>1, <1>2, <1>3 DEF ControlOf, IInv, TypeOK, Locking, Starting, Playing
<1>6. MemoryOf(w)'
  BY <1>1, <1>2, <1>3 DEF MemoryOf, PlayableOf, IInv, TypeOK, Starting, Playing
<1>7. ClearingOf(w)'
  BY <1>1, <1>2, <1>3 DEF ClearingOf, IInv, TypeOK
<1>8. RoundOf(s)'
  BY <1>1, <1>2, <1>3 DEF RoundOf, IInv, TypeOK
<1>9. QED
  BY <1>0, <1>1, <1>4, <1>5, <1>6, <1>7, <1>8, LockedStep

LEMMA ClearSolvedStep ==
  ASSUME IInv, NEW w \in Worker, ClearSolved(w)
  PROVE  IInv'
<1> USE DEF store, memory, history, Goto, Fails
<1>0. pc[w] \in Locking
  BY DEF ClearSolved, Locking
<1>a. PICK s \in Subject : s = req[w].subject
  BY <1>0, LockedFacts
<1>1. /\ s = req[w].subject
      /\ req[w] \in Request /\ req[w].cmd \in {"ask", "giveup"}
      /\ round[w] \in Round \cup {None}
      /\ score[w] \in Stats
      /\ game[s] \in Round \cup {None}
      /\ stats[s] \in Stats /\ Sum(stats[s])
      /\ results[s] \in Seq(BOOLEAN)
      /\ faulty[s] \in BOOLEAN
      /\ game[s] # None /\ ~faulty[s] /\ pc[w] # "clear" => results[s] = <<>>
      /\ game[s] # None => IsInjective(game[s].turns)
      /\ RoundOf(s)
  BY <1>0, <1>a, LockedFacts DEF RoundOf, IInv
<1>2. /\ pc[w] = "clearSolved" /\ req[w].cmd = "ask"
      /\ game[s] # None /\ game[s].solved
      /\ game' \in {game, [game EXCEPT ![s] = None]}
      /\ round' = [round EXCEPT ![w] = None]
      /\ pc' = [pc EXCEPT ![w] = "allowStart"]
      /\ UNCHANGED <<stats, lock, req, score, history>>
  BY <1>1 DEF ClearSolved, IInv, ControlOf, MemoryOf
<1>3. LockedFrame(w, s) /\ NewTypes(w, s)
  <2>1. /\ pc' = [pc EXCEPT ![w] = pc'[w]] /\ pc'[w] \in Locking
        /\ faulty' = [faulty EXCEPT ![s] = faulty'[s]] /\ faulty'[s] \in BOOLEAN
    BY <1>1, <1>2 DEF IInv, TypeOK, Locking
  <2>2. /\ round' = [round EXCEPT ![w] = round'[w]] /\ round'[w] \in Round \cup {None}
        /\ score' = [score EXCEPT ![w] = score'[w]] /\ score'[w] \in Stats
    BY <1>1, <1>2 DEF IInv, TypeOK
  <2>3. /\ game' = [game EXCEPT ![s] = game'[s]] /\ game'[s] \in Round \cup {None}
        /\ stats' = [stats EXCEPT ![s] = stats'[s]]
        /\ stats'[s] \in Stats /\ Sum(stats'[s])
    BY <1>1, <1>2 DEF IInv, TypeOK
  <2>4. results' = [results EXCEPT ![s] = results'[s]] /\ results'[s] \in Seq(BOOLEAN)
    BY <1>1, <1>2 DEF IInv, TypeOK
  <2>5. QED
    BY <1>1, <1>2, <2>1, <2>2, <2>3, <2>4 DEF LockedFrame, NewTypes
<1>4. ControlOf(w)'
  BY <1>1, <1>2 DEF ControlOf, IInv, TypeOK, Locking, Starting, Playing
<1>5. MemoryOf(w)'
  BY <1>1, <1>2 DEF MemoryOf, PlayableOf, IInv, TypeOK, Starting, Playing
<1>6. ClearingOf(w)'
  BY <1>1, <1>2 DEF ClearingOf, IInv, TypeOK
<1>7. RoundOf(s)'
  BY <1>1, <1>2 DEF RoundOf, IInv, TypeOK
<1>8. QED
  BY <1>0, <1>1, <1>3, <1>4, <1>5, <1>6, <1>7, LockedStep

LEMMA AllowStep ==
  ASSUME IInv, NEW w \in Worker, Allow(w)
  PROVE  IInv'
<1> USE DEF store, memory, history, Goto, Fails
<1>0. pc[w] \in Locking
  BY DEF Allow, Locking
<1>a. PICK s \in Subject : s = req[w].subject
  BY <1>0, LockedFacts
<1>1. /\ s = req[w].subject
      /\ req[w] \in Request /\ req[w].cmd \in {"ask", "giveup"}
      /\ round[w] \in Round \cup {None}
      /\ score[w] \in Stats
      /\ game[s] \in Round \cup {None}
      /\ stats[s] \in Stats /\ Sum(stats[s])
      /\ results[s] \in Seq(BOOLEAN)
      /\ faulty[s] \in BOOLEAN
      /\ game[s] # None /\ ~faulty[s] /\ pc[w] # "clear" => results[s] = <<>>
      /\ game[s] # None => IsInjective(game[s].turns)
      /\ RoundOf(s)
  BY <1>0, <1>a, LockedFacts DEF RoundOf, IInv
<1>2. /\ UNCHANGED <<store, lock, req, memory, history>>
      /\ req[w].cmd = "ask"
      /\ \/ pc[w] \in {"allowStart", "allowTurn"} /\ pc' = [pc EXCEPT ![w] = "done"]
         \/ /\ pc[w] = "allowStart" /\ pc' = [pc EXCEPT ![w] = "generate"]
            /\ game[s] = None \/ game[s].solved
         \/ /\ pc[w] = "allowTurn" /\ pc' = [pc EXCEPT ![w] = "judge"]
            /\ req[w].arg \in Question /\ req[w].arg \notin ToSet(round[w].turns)
            /\ PlayableOf(w) /\ round[w] = game[s]
  BY <1>1 DEF Allow, IInv, ControlOf, MemoryOf, Starting, Playing
<1>3. LockedFrame(w, s) /\ NewTypes(w, s)
  <2>1. /\ pc' = [pc EXCEPT ![w] = pc'[w]] /\ pc'[w] \in Locking
        /\ faulty' = [faulty EXCEPT ![s] = faulty'[s]] /\ faulty'[s] \in BOOLEAN
    BY <1>1, <1>2 DEF IInv, TypeOK, Locking
  <2>2. /\ round' = [round EXCEPT ![w] = round'[w]] /\ round'[w] \in Round \cup {None}
        /\ score' = [score EXCEPT ![w] = score'[w]] /\ score'[w] \in Stats
    BY <1>1, <1>2 DEF IInv, TypeOK
  <2>3. /\ game' = [game EXCEPT ![s] = game'[s]] /\ game'[s] \in Round \cup {None}
        /\ stats' = [stats EXCEPT ![s] = stats'[s]]
        /\ stats'[s] \in Stats /\ Sum(stats'[s])
    BY <1>1, <1>2 DEF IInv, TypeOK
  <2>4. results' = [results EXCEPT ![s] = results'[s]] /\ results'[s] \in Seq(BOOLEAN)
    BY <1>1, <1>2 DEF IInv, TypeOK
  <2>5. QED
    BY <1>1, <1>2, <2>1, <2>2, <2>3, <2>4 DEF LockedFrame, NewTypes
<1>4. ControlOf(w)'
  BY <1>1, <1>2 DEF ControlOf, IInv, TypeOK, Locking, Starting, Playing
<1>5. MemoryOf(w)'
  BY <1>1, <1>2 DEF MemoryOf, PlayableOf, IInv, TypeOK, Starting, Playing
<1>6. ClearingOf(w)'
  BY <1>1, <1>2 DEF ClearingOf, IInv, TypeOK
<1>7. RoundOf(s)'
  BY <1>1, <1>2 DEF RoundOf, IInv, TypeOK
<1>8. QED
  BY <1>0, <1>1, <1>3, <1>4, <1>5, <1>6, <1>7, LockedStep

LEMMA GenerateRoundStep ==
  ASSUME IInv, NEW w \in Worker, GenerateRound(w)
  PROVE  IInv'
<1> USE DEF store, memory, history, Goto, Fails
<1>0. pc[w] \in Locking
  BY DEF GenerateRound, Locking
<1>a. PICK s \in Subject : s = req[w].subject
  BY <1>0, LockedFacts
<1>1. /\ s = req[w].subject
      /\ req[w] \in Request /\ req[w].cmd \in {"ask", "giveup"}
      /\ round[w] \in Round \cup {None}
      /\ score[w] \in Stats
      /\ game[s] \in Round \cup {None}
      /\ stats[s] \in Stats /\ Sum(stats[s])
      /\ results[s] \in Seq(BOOLEAN)
      /\ faulty[s] \in BOOLEAN
      /\ game[s] # None /\ ~faulty[s] /\ pc[w] # "clear" => results[s] = <<>>
      /\ game[s] # None => IsInjective(game[s].turns)
      /\ RoundOf(s)
  BY <1>0, <1>a, LockedFacts DEF RoundOf, IInv
<1>2. PICK g \in Round \cup {None} :
        /\ round' = [round EXCEPT ![w] = g]
        /\ \/ /\ g \in Round /\ g.turns = <<>> /\ ~g.solved
              /\ pc' = [pc EXCEPT ![w] = "saveFresh"]
           \/ pc' = [pc EXCEPT ![w] = "done"]
  <2>1. ASSUME NEW t \in Target,
               round' = [round EXCEPT ![w] = [target |-> t, turns |-> <<>>, solved |-> FALSE]],
               pc' = [pc EXCEPT ![w] = "saveFresh"]
        PROVE  \E g \in Round :
                 /\ round' = [round EXCEPT ![w] = g]
                 /\ g.turns = <<>> /\ ~g.solved
    <3>1. PICK g : g = [target |-> t, turns |-> <<>>, solved |-> FALSE]
      OBVIOUS
    <3>2. <<>> \in Seq(Question)
      OBVIOUS
    <3>3. g \in Round /\ g.turns = <<>> /\ ~g.solved
      BY <3>1, <3>2 DEF Round
    <3>4. QED
      BY <2>1, <3>1, <3>3
  <2>2. CASE pc' = [pc EXCEPT ![w] = "done"] /\ UNCHANGED round
    BY <1>1, <2>2 DEF IInv, TypeOK
  <2>3. QED
    BY <2>1, <2>2 DEF GenerateRound
<1>3. /\ pc[w] = "generate" /\ req[w].cmd = "ask"
      /\ game[s] = None \/ game[s].solved
      /\ UNCHANGED <<store, lock, req, score, history>>
  BY <1>1 DEF GenerateRound, IInv, ControlOf, MemoryOf, Starting
<1>4. LockedFrame(w, s) /\ NewTypes(w, s)
  <2>1. /\ pc' = [pc EXCEPT ![w] = pc'[w]] /\ pc'[w] \in Locking
        /\ faulty' = [faulty EXCEPT ![s] = faulty'[s]] /\ faulty'[s] \in BOOLEAN
    BY <1>1, <1>2, <1>3 DEF IInv, TypeOK, Locking
  <2>2. /\ round' = [round EXCEPT ![w] = round'[w]] /\ round'[w] \in Round \cup {None}
        /\ score' = [score EXCEPT ![w] = score'[w]] /\ score'[w] \in Stats
    BY <1>1, <1>2, <1>3 DEF IInv, TypeOK
  <2>3. /\ game' = [game EXCEPT ![s] = game'[s]] /\ game'[s] \in Round \cup {None}
        /\ stats' = [stats EXCEPT ![s] = stats'[s]]
        /\ stats'[s] \in Stats /\ Sum(stats'[s])
    BY <1>1, <1>2, <1>3 DEF IInv, TypeOK
  <2>4. results' = [results EXCEPT ![s] = results'[s]] /\ results'[s] \in Seq(BOOLEAN)
    BY <1>1, <1>2, <1>3 DEF IInv, TypeOK
  <2>5. QED
    BY <1>1, <1>2, <1>3, <2>1, <2>2, <2>3, <2>4 DEF LockedFrame, NewTypes
<1>5. ControlOf(w)'
  BY <1>1, <1>2, <1>3 DEF ControlOf, IInv, TypeOK, Locking, Starting, Playing
<1>6. MemoryOf(w)'
  BY <1>1, <1>2, <1>3 DEF MemoryOf, PlayableOf, IInv, TypeOK, Starting, Playing
<1>7. ClearingOf(w)'
  BY <1>1, <1>2, <1>3 DEF ClearingOf, IInv, TypeOK
<1>8. RoundOf(s)'
  BY <1>1, <1>2, <1>3 DEF RoundOf, IInv, TypeOK
<1>9. QED
  BY <1>0, <1>1, <1>4, <1>5, <1>6, <1>7, <1>8, LockedStep

LEMMA SaveFreshStep ==
  ASSUME IInv, NEW w \in Worker, SaveFresh(w)
  PROVE  IInv'
<1> USE DEF store, memory, history, Goto, Fails
<1>0. pc[w] \in Locking
  BY DEF SaveFresh, Locking
<1>a. PICK s \in Subject : s = req[w].subject
  BY <1>0, LockedFacts
<1>1. /\ s = req[w].subject
      /\ req[w] \in Request /\ req[w].cmd \in {"ask", "giveup"}
      /\ round[w] \in Round \cup {None}
      /\ score[w] \in Stats
      /\ game[s] \in Round \cup {None}
      /\ stats[s] \in Stats /\ Sum(stats[s])
      /\ results[s] \in Seq(BOOLEAN)
      /\ faulty[s] \in BOOLEAN
      /\ game[s] # None /\ ~faulty[s] /\ pc[w] # "clear" => results[s] = <<>>
      /\ game[s] # None => IsInjective(game[s].turns)
      /\ RoundOf(s)
  BY <1>0, <1>a, LockedFacts DEF RoundOf, IInv
<1>2. /\ pc[w] = "saveFresh" /\ req[w].cmd = "ask"
      /\ round[w] \in Round /\ round[w].turns = <<>> /\ ~round[w].solved
      /\ IsInjective(round[w].turns)
      /\ UNCHANGED <<stats, lock, req, memory>>
  BY <1>1 DEF SaveFresh, IInv, ControlOf, MemoryOf, Starting, IsInjective
<1>3. \/ /\ game' = [game EXCEPT ![s] = round[w]]
         /\ results' = [results EXCEPT ![s] = <<>>]
         /\ \/ /\ \/ pc' = [pc EXCEPT ![w] = "done"]
                  \/ pc' = [pc EXCEPT ![w] = "turn"]
               /\ faulty' = [faulty EXCEPT ![s] = FALSE]
            \/ /\ pc' = [pc EXCEPT ![w] = "done"]
               /\ faulty' = [faulty EXCEPT ![s] = TRUE]
      \/ /\ pc' = [pc EXCEPT ![w] = "done"]
         /\ faulty' = [faulty EXCEPT ![s] = TRUE]
         /\ UNCHANGED <<game, results>>
  BY <1>1 DEF SaveFresh
<1>4. LockedFrame(w, s) /\ NewTypes(w, s)
  <2>1. /\ pc' = [pc EXCEPT ![w] = pc'[w]] /\ pc'[w] \in Locking
        /\ faulty' = [faulty EXCEPT ![s] = faulty'[s]] /\ faulty'[s] \in BOOLEAN
    BY <1>1, <1>2, <1>3 DEF IInv, TypeOK, Locking
  <2>2. /\ round' = [round EXCEPT ![w] = round'[w]] /\ round'[w] \in Round \cup {None}
        /\ score' = [score EXCEPT ![w] = score'[w]] /\ score'[w] \in Stats
    BY <1>1, <1>2, <1>3 DEF IInv, TypeOK
  <2>3. /\ game' = [game EXCEPT ![s] = game'[s]] /\ game'[s] \in Round \cup {None}
        /\ stats' = [stats EXCEPT ![s] = stats'[s]]
        /\ stats'[s] \in Stats /\ Sum(stats'[s])
    BY <1>1, <1>2, <1>3 DEF IInv, TypeOK
  <2>4. results' = [results EXCEPT ![s] = results'[s]] /\ results'[s] \in Seq(BOOLEAN)
    <3>1. <<>> \in Seq(BOOLEAN)
      OBVIOUS
    <3>2. QED
      BY <1>1, <1>2, <1>3, <3>1 DEF IInv, TypeOK
  <2>5. QED
    BY <1>1, <1>2, <1>3, <2>1, <2>2, <2>3, <2>4 DEF LockedFrame, NewTypes
<1>5. ControlOf(w)'
  BY <1>1, <1>2, <1>3 DEF ControlOf, IInv, TypeOK, Locking, Starting, Playing
<1>6. MemoryOf(w)'
  BY <1>1, <1>2, <1>3 DEF MemoryOf, PlayableOf, IInv, TypeOK, Starting, Playing
<1>7. ClearingOf(w)'
  BY <1>1, <1>2, <1>3 DEF ClearingOf, IInv, TypeOK
<1>8. RoundOf(s)'
  BY <1>1, <1>2, <1>3 DEF RoundOf, IInv, TypeOK
<1>9. QED
  BY <1>0, <1>1, <1>4, <1>5, <1>6, <1>7, <1>8, LockedStep

LEMMA SubmitTurnStep ==
  ASSUME IInv, NEW w \in Worker, SubmitTurn(w)
  PROVE  IInv'
<1> USE DEF store, memory, history, Goto, Fails
<1>0. pc[w] \in Locking
  BY DEF SubmitTurn, Locking
<1>a. PICK s \in Subject : s = req[w].subject
  BY <1>0, LockedFacts
<1>1. /\ s = req[w].subject
      /\ req[w] \in Request /\ req[w].cmd \in {"ask", "giveup"}
      /\ round[w] \in Round \cup {None}
      /\ score[w] \in Stats
      /\ game[s] \in Round \cup {None}
      /\ stats[s] \in Stats /\ Sum(stats[s])
      /\ results[s] \in Seq(BOOLEAN)
      /\ faulty[s] \in BOOLEAN
      /\ game[s] # None /\ ~faulty[s] /\ pc[w] # "clear" => results[s] = <<>>
      /\ game[s] # None => IsInjective(game[s].turns)
      /\ RoundOf(s)
  BY <1>0, <1>a, LockedFacts DEF RoundOf, IInv
<1>2. /\ pc[w] = "turn" /\ req[w].cmd = "ask"
      /\ UNCHANGED <<store, lock, req, memory, history>>
      /\ PlayableOf(w) /\ round[w] = game[s]
      /\ \/ pc' = [pc EXCEPT ![w] = "done"]
         \/ /\ pc' = [pc EXCEPT ![w] = "allowTurn"]
            /\ req[w].arg \in Question /\ req[w].arg \notin ToSet(round[w].turns)
  BY <1>1, RequestParts DEF SubmitTurn, OnlyReplied, IInv, ControlOf, MemoryOf, Playing
<1>3. LockedFrame(w, s) /\ NewTypes(w, s)
  <2>1. /\ pc' = [pc EXCEPT ![w] = pc'[w]] /\ pc'[w] \in Locking
        /\ faulty' = [faulty EXCEPT ![s] = faulty'[s]] /\ faulty'[s] \in BOOLEAN
    BY <1>1, <1>2 DEF IInv, TypeOK, Locking
  <2>2. /\ round' = [round EXCEPT ![w] = round'[w]] /\ round'[w] \in Round \cup {None}
        /\ score' = [score EXCEPT ![w] = score'[w]] /\ score'[w] \in Stats
    BY <1>1, <1>2 DEF IInv, TypeOK
  <2>3. /\ game' = [game EXCEPT ![s] = game'[s]] /\ game'[s] \in Round \cup {None}
        /\ stats' = [stats EXCEPT ![s] = stats'[s]]
        /\ stats'[s] \in Stats /\ Sum(stats'[s])
    BY <1>1, <1>2 DEF IInv, TypeOK
  <2>4. results' = [results EXCEPT ![s] = results'[s]] /\ results'[s] \in Seq(BOOLEAN)
    BY <1>1, <1>2 DEF IInv, TypeOK
  <2>5. QED
    BY <1>1, <1>2, <2>1, <2>2, <2>3, <2>4 DEF LockedFrame, NewTypes
<1>4. ControlOf(w)'
  BY <1>1, <1>2 DEF ControlOf, IInv, TypeOK, Locking, Starting, Playing
<1>5. MemoryOf(w)'
  BY <1>1, <1>2 DEF MemoryOf, PlayableOf, IInv, TypeOK, Starting, Playing
<1>6. ClearingOf(w)'
  BY <1>1, <1>2 DEF ClearingOf, IInv, TypeOK
<1>7. RoundOf(s)'
  BY <1>1, <1>2 DEF RoundOf, IInv, TypeOK
<1>8. QED
  BY <1>0, <1>1, <1>3, <1>4, <1>5, <1>6, <1>7, LockedStep

LEMMA JudgeStep ==
  ASSUME IInv, NEW w \in Worker, Judge(w)
  PROVE  IInv'
<1> USE DEF store, memory, history, Goto, Fails
<1>0. pc[w] \in Locking
  BY DEF Judge, Locking
<1>a. PICK s \in Subject : s = req[w].subject
  BY <1>0, LockedFacts
<1>1. /\ s = req[w].subject
      /\ req[w] \in Request /\ req[w].cmd \in {"ask", "giveup"}
      /\ round[w] \in Round \cup {None}
      /\ score[w] \in Stats
      /\ game[s] \in Round \cup {None}
      /\ stats[s] \in Stats /\ Sum(stats[s])
      /\ results[s] \in Seq(BOOLEAN)
      /\ faulty[s] \in BOOLEAN
      /\ game[s] # None /\ ~faulty[s] /\ pc[w] # "clear" => results[s] = <<>>
      /\ game[s] # None => IsInjective(game[s].turns)
      /\ RoundOf(s)
  BY <1>0, <1>a, LockedFacts DEF RoundOf, IInv
<1>2. /\ pc[w] = "judge" /\ req[w].cmd = "ask"
      /\ req[w].arg \in Question /\ req[w].arg \notin ToSet(game[s].turns)
      /\ UNCHANGED <<store, lock, req, score, history>>
      /\ PlayableOf(w) /\ round[w] = game[s] /\ game[s] \in Round /\ ~game[s].solved
  BY <1>1 DEF Judge, IInv, ControlOf, MemoryOf, PlayableOf, Playing
<1>3. /\ game[s].turns \in Seq(Question)
      /\ Append(game[s].turns, req[w].arg) \in Seq(Question)
      /\ Append(game[s].turns, req[w].arg) # <<>>
  <2>1. game[s].turns \in Seq(Question)
    BY <1>2 DEF Round
  <2>2. QED
    BY <1>2, <2>1
<1>4. ASSUME NEW won \in BOOLEAN
      PROVE  LET g == [game[s] EXCEPT !.turns = Append(@, req[w].arg), !.solved = won]
             IN  /\ g \in Round /\ g.turns # <<>>
                 /\ ~won => g = WithTurn(game[s], req[w].arg)
  <2>1. PICK g : g = [game[s] EXCEPT !.turns = Append(@, req[w].arg), !.solved = won]
    OBVIOUS
  <2>2. g = [target |-> game[s].target, turns |-> Append(game[s].turns, req[w].arg),
             solved |-> won]
    BY <1>2, <2>1 DEF Round
  <2>3. g \in Round /\ g.turns # <<>>
    BY <1>2, <1>3, <2>2 DEF Round
  <2>4. WithTurn(game[s], req[w].arg) =
          [target |-> game[s].target, turns |-> Append(game[s].turns, req[w].arg),
           solved |-> FALSE]
    <3>1. WithTurn(game[s], req[w].arg) =
            [target |-> game[s].target, turns |-> Append(game[s].turns, req[w].arg),
             solved |-> game[s].solved]
      BY <1>2, WithTurnParts
    <3>2. game[s].solved = FALSE
      BY <1>2 DEF Round
    <3>3. QED
      BY <3>1, <3>2
  <2>5. QED
    BY <2>1, <2>2, <2>3, <2>4
<1>5. \/ \E g \in Round :
           /\ g.turns # <<>> /\ round' = [round EXCEPT ![w] = g]
           /\ pc' = [pc EXCEPT ![w] = "loadStats"]
      \/ /\ WithTurn(game[s], req[w].arg) \in Round
         /\ round' = [round EXCEPT ![w] = WithTurn(game[s], req[w].arg)]
         /\ pc' = [pc EXCEPT ![w] = "save"]
      \/ pc' = [pc EXCEPT ![w] = "done"] /\ UNCHANGED round
  <2>1. CASE pc' = [pc EXCEPT ![w] = "done"] /\ UNCHANGED round
    BY <2>1
  <2>2. ASSUME NEW won \in BOOLEAN,
               round' = [round EXCEPT ![w].turns = Append(@, req[w].arg),
                                      ![w].solved = won],
               pc' = [pc EXCEPT ![w] = IF won THEN "loadStats" ELSE "save"]
        PROVE  \/ \E g \in Round :
                    /\ g.turns # <<>> /\ round' = [round EXCEPT ![w] = g]
                    /\ pc' = [pc EXCEPT ![w] = "loadStats"]
               \/ /\ WithTurn(game[s], req[w].arg) \in Round
                  /\ round' = [round EXCEPT ![w] = WithTurn(game[s], req[w].arg)]
                  /\ pc' = [pc EXCEPT ![w] = "save"]
    <3>1. PICK g : g = [game[s] EXCEPT !.turns = Append(@, req[w].arg), !.solved = won]
      OBVIOUS
    <3>2. round' = [round EXCEPT ![w] = g]
      BY <1>2, <2>2, <3>1 DEF IInv, TypeOK
    <3>3. g \in Round /\ g.turns # <<>> /\ (~won => g = WithTurn(game[s], req[w].arg))
      BY <1>4, <3>1
    <3>4. QED
      BY <2>2, <3>2, <3>3
  <2>3. \A payload \in Payload : Wins(payload) \in BOOLEAN
    BY DEF Wins
  <2>4. QED
    BY <2>1, <2>2, <2>3 DEF Judge
<1>6. LockedFrame(w, s) /\ NewTypes(w, s)
  <2>1. /\ pc' = [pc EXCEPT ![w] = pc'[w]] /\ pc'[w] \in Locking
        /\ faulty' = [faulty EXCEPT ![s] = faulty'[s]] /\ faulty'[s] \in BOOLEAN
    BY <1>1, <1>2, <1>5 DEF IInv, TypeOK, Locking
  <2>2. /\ round' = [round EXCEPT ![w] = round'[w]] /\ round'[w] \in Round \cup {None}
        /\ score' = [score EXCEPT ![w] = score'[w]] /\ score'[w] \in Stats
    BY <1>1, <1>2, <1>5 DEF IInv, TypeOK
  <2>3. /\ game' = [game EXCEPT ![s] = game'[s]] /\ game'[s] \in Round \cup {None}
        /\ stats' = [stats EXCEPT ![s] = stats'[s]]
        /\ stats'[s] \in Stats /\ Sum(stats'[s])
    BY <1>1, <1>2, <1>5 DEF IInv, TypeOK
  <2>4. results' = [results EXCEPT ![s] = results'[s]] /\ results'[s] \in Seq(BOOLEAN)
    BY <1>1, <1>2, <1>5 DEF IInv, TypeOK
  <2>5. QED
    BY <1>1, <1>2, <1>5, <2>1, <2>2, <2>3, <2>4 DEF LockedFrame, NewTypes
<1>7. ControlOf(w)'
  BY <1>1, <1>2, <1>5 DEF ControlOf, IInv, TypeOK, Locking, Starting, Playing
<1>8. MemoryOf(w)'
  BY <1>1, <1>2, <1>5 DEF MemoryOf, PlayableOf, IInv, TypeOK, Starting, Playing
<1>9. ClearingOf(w)'
  BY <1>1, <1>2, <1>5 DEF ClearingOf, IInv, TypeOK
<1>10. RoundOf(s)'
  BY <1>1, <1>2, <1>5 DEF RoundOf, IInv, TypeOK
<1>11. QED
  BY <1>0, <1>1, <1>6, <1>7, <1>8, <1>9, <1>10, LockedStep

LEMMA SaveGameStep ==
  ASSUME IInv, NEW w \in Worker, SaveGame(w)
  PROVE  IInv'
<1> USE DEF store, memory, history, Goto, Fails
<1>0. pc[w] \in Locking
  BY DEF SaveGame, Locking
<1>a. PICK s \in Subject : s = req[w].subject
  BY <1>0, LockedFacts
<1>1. /\ s = req[w].subject
      /\ req[w] \in Request /\ req[w].cmd \in {"ask", "giveup"}
      /\ round[w] \in Round \cup {None}
      /\ score[w] \in Stats
      /\ game[s] \in Round \cup {None}
      /\ stats[s] \in Stats /\ Sum(stats[s])
      /\ results[s] \in Seq(BOOLEAN)
      /\ faulty[s] \in BOOLEAN
      /\ game[s] # None /\ ~faulty[s] /\ pc[w] # "clear" => results[s] = <<>>
      /\ game[s] # None => IsInjective(game[s].turns)
      /\ RoundOf(s)
  BY <1>0, <1>a, LockedFacts DEF RoundOf, IInv
<1>2. /\ pc[w] = "save" /\ PlayableOf(w) /\ game[s] \in Round
      /\ UNCHANGED <<stats, lock, req, memory, results>>
      /\ \/ /\ game' = [game EXCEPT ![s] = round[w]]
            /\ pc' = [pc EXCEPT ![w] = "done"]
            /\ faulty' \in {faulty, [faulty EXCEPT ![s] = TRUE]}
         \/ /\ pc' = [pc EXCEPT ![w] = "done"]
            /\ faulty' = [faulty EXCEPT ![s] = TRUE]
            /\ UNCHANGED game
  BY <1>1 DEF SaveGame, IInv, MemoryOf, PlayableOf
<1>3. round[w] \in Round /\ IsInjective(round[w].turns)
  <2>1. PICK q \in Question \ ToSet(game[s].turns) : round[w] = WithTurn(game[s], q)
    BY <1>1, <1>2 DEF IInv, MemoryOf
  <2>2. game[s].turns \in Seq(Question)
    BY <1>2 DEF Round
  <2>3. round[w] = [target |-> game[s].target, turns |-> Append(game[s].turns, q),
                    solved |-> game[s].solved]
    BY <1>2, <2>1, WithTurnParts
  <2>4. Append(game[s].turns, q) \in Seq(Question) /\ IsInjective(Append(game[s].turns, q))
    BY <1>1, <1>2, <2>1, <2>2, StaysDistinct DEF PlayableOf
  <2>5. QED
    BY <1>2, <2>3, <2>4 DEF Round
<1>4. LockedFrame(w, s) /\ NewTypes(w, s)
  <2>1. /\ pc' = [pc EXCEPT ![w] = pc'[w]] /\ pc'[w] \in Locking
        /\ faulty' = [faulty EXCEPT ![s] = faulty'[s]] /\ faulty'[s] \in BOOLEAN
    BY <1>1, <1>2, <1>3 DEF IInv, TypeOK, Locking
  <2>2. /\ round' = [round EXCEPT ![w] = round'[w]] /\ round'[w] \in Round \cup {None}
        /\ score' = [score EXCEPT ![w] = score'[w]] /\ score'[w] \in Stats
    BY <1>1, <1>2, <1>3 DEF IInv, TypeOK
  <2>3. /\ game' = [game EXCEPT ![s] = game'[s]] /\ game'[s] \in Round \cup {None}
        /\ stats' = [stats EXCEPT ![s] = stats'[s]]
        /\ stats'[s] \in Stats /\ Sum(stats'[s])
    BY <1>1, <1>2, <1>3 DEF IInv, TypeOK
  <2>4. results' = [results EXCEPT ![s] = results'[s]] /\ results'[s] \in Seq(BOOLEAN)
    BY <1>1, <1>2, <1>3 DEF IInv, TypeOK
  <2>5. QED
    BY <1>1, <1>2, <1>3, <2>1, <2>2, <2>3, <2>4 DEF LockedFrame, NewTypes
<1>5. ControlOf(w)'
  BY <1>1, <1>2, <1>3 DEF ControlOf, IInv, TypeOK, Locking, Starting, Playing
<1>6. MemoryOf(w)'
  BY <1>1, <1>2, <1>3 DEF MemoryOf, PlayableOf, IInv, TypeOK, Starting, Playing
<1>7. ClearingOf(w)'
  BY <1>1, <1>2, <1>3 DEF ClearingOf, IInv, TypeOK
<1>8. RoundOf(s)'
  <2>1. \/ game'[s] = round[w] /\ (faulty'[s] \/ faulty'[s] = faulty[s])
        \/ game'[s] = game[s] /\ faulty'[s]
    BY <1>1, <1>2 DEF IInv, TypeOK
  <2>2. faulty[s] \/ results'[s] = <<>>
    BY <1>1, <1>2 DEF PlayableOf
  <2>3. QED
    BY <1>1, <1>3, <2>1, <2>2 DEF RoundOf
<1>9. QED
  BY <1>0, <1>1, <1>4, <1>5, <1>6, <1>7, <1>8, LockedStep

LEMMA LoadStatsStep ==
  ASSUME IInv, NEW w \in Worker, LoadStats(w)
  PROVE  IInv'
<1> USE DEF store, memory, history, Goto, Fails
<1>0. pc[w] \in Locking
  BY DEF LoadStats, Locking
<1>a. PICK s \in Subject : s = req[w].subject
  BY <1>0, LockedFacts
<1>1. /\ s = req[w].subject
      /\ req[w] \in Request /\ req[w].cmd \in {"ask", "giveup"}
      /\ round[w] \in Round \cup {None}
      /\ score[w] \in Stats
      /\ game[s] \in Round \cup {None}
      /\ stats[s] \in Stats /\ Sum(stats[s])
      /\ results[s] \in Seq(BOOLEAN)
      /\ faulty[s] \in BOOLEAN
      /\ game[s] # None /\ ~faulty[s] /\ pc[w] # "clear" => results[s] = <<>>
      /\ game[s] # None => IsInjective(game[s].turns)
      /\ RoundOf(s)
  BY <1>0, <1>a, LockedFacts DEF RoundOf, IInv
<1>2. /\ pc[w] = "loadStats"
      /\ round[w] \in Round /\ (req[w].cmd = "ask" => round[w].turns # <<>>)
      /\ UNCHANGED <<store, lock, req, round, results>>
      /\ \/ /\ score' = [score EXCEPT ![w] = stats[s]]
            /\ pc' = [pc EXCEPT ![w] = "putStats"]
            /\ UNCHANGED faulty
         \/ /\ pc' = [pc EXCEPT ![w] = "done"]
            /\ faulty' = [faulty EXCEPT ![s] = TRUE]
            /\ UNCHANGED score
  BY <1>1 DEF LoadStats, IInv, MemoryOf
<1>3. LockedFrame(w, s) /\ NewTypes(w, s)
  <2>1. /\ pc' = [pc EXCEPT ![w] = pc'[w]] /\ pc'[w] \in Locking
        /\ faulty' = [faulty EXCEPT ![s] = faulty'[s]] /\ faulty'[s] \in BOOLEAN
    BY <1>1, <1>2 DEF IInv, TypeOK, Locking
  <2>2. /\ round' = [round EXCEPT ![w] = round'[w]] /\ round'[w] \in Round \cup {None}
        /\ score' = [score EXCEPT ![w] = score'[w]] /\ score'[w] \in Stats
    BY <1>1, <1>2 DEF IInv, TypeOK
  <2>3. /\ game' = [game EXCEPT ![s] = game'[s]] /\ game'[s] \in Round \cup {None}
        /\ stats' = [stats EXCEPT ![s] = stats'[s]]
        /\ stats'[s] \in Stats /\ Sum(stats'[s])
    BY <1>1, <1>2 DEF IInv, TypeOK
  <2>4. results' = [results EXCEPT ![s] = results'[s]] /\ results'[s] \in Seq(BOOLEAN)
    BY <1>1, <1>2 DEF IInv, TypeOK
  <2>5. QED
    BY <1>1, <1>2, <2>1, <2>2, <2>3, <2>4 DEF LockedFrame, NewTypes
<1>4. ControlOf(w)'
  BY <1>1, <1>2 DEF ControlOf, IInv, TypeOK, Locking, Starting, Playing
<1>5. MemoryOf(w)'
  BY <1>1, <1>2 DEF MemoryOf, PlayableOf, IInv, TypeOK, Starting, Playing
<1>6. ClearingOf(w)'
  BY <1>1, <1>2 DEF ClearingOf, IInv, TypeOK
<1>7. RoundOf(s)'
  BY <1>1, <1>2 DEF RoundOf, IInv, TypeOK
<1>8. QED
  BY <1>0, <1>1, <1>3, <1>4, <1>5, <1>6, <1>7, LockedStep

LEMMA PutStatsStep ==
  ASSUME IInv, NEW w \in Worker, PutStats(w)
  PROVE  IInv'
<1> USE DEF store, memory, history, Goto, Fails
<1>0. pc[w] \in Locking
  BY DEF PutStats, Locking
<1>a. PICK s \in Subject : s = req[w].subject
  BY <1>0, LockedFacts
<1>1. /\ s = req[w].subject
      /\ req[w] \in Request /\ req[w].cmd \in {"ask", "giveup"}
      /\ round[w] \in Round \cup {None}
      /\ score[w] \in Stats
      /\ game[s] \in Round \cup {None}
      /\ stats[s] \in Stats /\ Sum(stats[s])
      /\ results[s] \in Seq(BOOLEAN)
      /\ faulty[s] \in BOOLEAN
      /\ game[s] # None /\ ~faulty[s] /\ pc[w] # "clear" => results[s] = <<>>
      /\ game[s] # None => IsInjective(game[s].turns)
      /\ RoundOf(s)
  BY <1>0, <1>a, LockedFacts DEF RoundOf, IInv
<1>2. PICK scored : scored = Result(score[w], Won(w), Len(round[w].turns))
  OBVIOUS
<1>3. /\ pc[w] = "putStats"
      /\ UNCHANGED <<game, lock, req, memory>>
      /\ \/ /\ stats' = [stats EXCEPT ![s] = scored]
            /\ results' = [results EXCEPT ![s] = Append(results[s], Won(w))]
            /\ \/ pc' = [pc EXCEPT ![w] = "clear"] /\ UNCHANGED faulty
               \/ /\ pc' = [pc EXCEPT ![w] = "done"]
                  /\ faulty' = [faulty EXCEPT ![s] = TRUE]
         \/ /\ pc' = [pc EXCEPT ![w] = "done"]
            /\ faulty' = [faulty EXCEPT ![s] = TRUE]
            /\ UNCHANGED <<stats, results>>
  BY <1>1, <1>2 DEF PutStats, NextAfterResult, AfterResult, IInv, TypeOK
<1>4. /\ scored \in Stats /\ Sum(scored)
      /\ Append(results[s], Won(w)) \in Seq(BOOLEAN)
      /\ results[s] = <<>> => Len(Append(results[s], Won(w))) = 1
  <2>1. Won(w) \in BOOLEAN
    BY DEF Won
  <2>2. /\ round[w] \in Round /\ (Won(w) => round[w].turns # <<>>)
        /\ score[w] = stats[s]
    BY <1>1, <1>3 DEF IInv, MemoryOf, Won
  <2>3. round[w].turns \in Seq(Question)
    BY <2>2 DEF Round
  <2>4. Len(round[w].turns) \in Nat /\ (Won(w) => Len(round[w].turns) >= 1)
    BY <2>2, <2>3
  <2>5. scored \in Stats /\ Sum(scored)
    BY <1>1, <1>2, <2>1, <2>2, <2>4, ScoredAddsUp
  <2>6. QED
    BY <1>1, <2>1, <2>5
<1>5. LockedFrame(w, s) /\ NewTypes(w, s)
  <2>1. /\ pc' = [pc EXCEPT ![w] = pc'[w]] /\ pc'[w] \in Locking
        /\ faulty' = [faulty EXCEPT ![s] = faulty'[s]] /\ faulty'[s] \in BOOLEAN
    BY <1>1, <1>3, <1>4 DEF IInv, TypeOK, Locking
  <2>2. /\ round' = [round EXCEPT ![w] = round'[w]] /\ round'[w] \in Round \cup {None}
        /\ score' = [score EXCEPT ![w] = score'[w]] /\ score'[w] \in Stats
    BY <1>1, <1>3, <1>4 DEF IInv, TypeOK
  <2>3. /\ game' = [game EXCEPT ![s] = game'[s]] /\ game'[s] \in Round \cup {None}
        /\ stats' = [stats EXCEPT ![s] = stats'[s]]
        /\ stats'[s] \in Stats /\ Sum(stats'[s])
    BY <1>1, <1>3, <1>4 DEF IInv, TypeOK
  <2>4. results' = [results EXCEPT ![s] = results'[s]] /\ results'[s] \in Seq(BOOLEAN)
    BY <1>1, <1>3, <1>4 DEF IInv, TypeOK
  <2>5. QED
    BY <1>1, <1>3, <1>4, <2>1, <2>2, <2>3, <2>4 DEF LockedFrame, NewTypes
<1>6. ControlOf(w)'
  BY <1>1, <1>3, <1>4 DEF ControlOf, IInv, TypeOK, Locking, Starting, Playing
<1>7. MemoryOf(w)'
  BY <1>1, <1>3, <1>4 DEF MemoryOf, PlayableOf, IInv, TypeOK, Starting, Playing
<1>8. ClearingOf(w)'
  BY <1>1, <1>3, <1>4 DEF ClearingOf, IInv, TypeOK
<1>9. RoundOf(s)'
  <2>1. (pc'[w] = "clear" /\ req'[w].subject = s) \/ faulty'[s]
    BY <1>1, <1>3 DEF IInv, TypeOK
  <2>2. game'[s] = game[s]
    BY <1>3
  <2>3. QED
    BY <1>1, <2>1, <2>2 DEF RoundOf
<1>10. QED
  BY <1>0, <1>1, <1>5, <1>6, <1>7, <1>8, <1>9, LockedStep

LEMMA ClearGameStep ==
  ASSUME IInv, NEW w \in Worker, ClearGame(w)
  PROVE  IInv'
<1> USE DEF store, memory, history, Goto, Fails
<1>0. pc[w] \in Locking
  BY DEF ClearGame, Locking
<1>a. PICK s \in Subject : s = req[w].subject
  BY <1>0, LockedFacts
<1>1. /\ s = req[w].subject
      /\ req[w] \in Request /\ req[w].cmd \in {"ask", "giveup"}
      /\ round[w] \in Round \cup {None}
      /\ score[w] \in Stats
      /\ game[s] \in Round \cup {None}
      /\ stats[s] \in Stats /\ Sum(stats[s])
      /\ results[s] \in Seq(BOOLEAN)
      /\ faulty[s] \in BOOLEAN
      /\ game[s] # None /\ ~faulty[s] /\ pc[w] # "clear" => results[s] = <<>>
      /\ game[s] # None => IsInjective(game[s].turns)
      /\ RoundOf(s)
  BY <1>0, <1>a, LockedFacts DEF RoundOf, IInv
<1>2. /\ pc[w] = "clear"
      /\ pc' = [pc EXCEPT ![w] = "done"]
      /\ UNCHANGED <<stats, lock, req, memory, results>>
      /\ \/ /\ game' = [game EXCEPT ![s] = None]
            /\ faulty' \in {faulty, [faulty EXCEPT ![s] = TRUE]}
         \/ UNCHANGED game /\ faulty' = [faulty EXCEPT ![s] = TRUE]
  BY <1>1 DEF ClearGame
<1>3. LockedFrame(w, s) /\ NewTypes(w, s)
  <2>1. /\ pc' = [pc EXCEPT ![w] = pc'[w]] /\ pc'[w] \in Locking
        /\ faulty' = [faulty EXCEPT ![s] = faulty'[s]] /\ faulty'[s] \in BOOLEAN
    BY <1>1, <1>2 DEF IInv, TypeOK, Locking
  <2>2. /\ round' = [round EXCEPT ![w] = round'[w]] /\ round'[w] \in Round \cup {None}
        /\ score' = [score EXCEPT ![w] = score'[w]] /\ score'[w] \in Stats
    BY <1>1, <1>2 DEF IInv, TypeOK
  <2>3. /\ game' = [game EXCEPT ![s] = game'[s]] /\ game'[s] \in Round \cup {None}
        /\ stats' = [stats EXCEPT ![s] = stats'[s]]
        /\ stats'[s] \in Stats /\ Sum(stats'[s])
    BY <1>1, <1>2 DEF IInv, TypeOK
  <2>4. results' = [results EXCEPT ![s] = results'[s]] /\ results'[s] \in Seq(BOOLEAN)
    BY <1>1, <1>2 DEF IInv, TypeOK
  <2>5. QED
    BY <1>1, <1>2, <2>1, <2>2, <2>3, <2>4 DEF LockedFrame, NewTypes
<1>4. ControlOf(w)'
  BY <1>1, <1>2 DEF ControlOf, IInv, TypeOK, Locking, Starting, Playing
<1>5. MemoryOf(w)'
  BY <1>1, <1>2 DEF MemoryOf, PlayableOf, IInv, TypeOK, Starting, Playing
<1>6. ClearingOf(w)'
  BY <1>1, <1>2 DEF ClearingOf, IInv, TypeOK
<1>7. RoundOf(s)'
  <2>1. game'[s] = None \/ (game'[s] = game[s] /\ faulty'[s])
    BY <1>1, <1>2 DEF IInv, TypeOK
  <2>2. QED
    BY <1>1, <2>1 DEF RoundOf
<1>8. QED
  BY <1>0, <1>1, <1>3, <1>4, <1>5, <1>6, <1>7, LockedStep

LEMMA CrashStep ==
  ASSUME IInv, Crash
  PROVE  IInv'
<1>1. /\ pc' = [w \in Worker |-> "idle"]
      /\ req' = [w \in Worker |-> Idle]
      /\ round' = [w \in Worker |-> None]
      /\ score' = [w \in Worker |-> NoStats]
      /\ lock' = [s \in Subject |-> None]
      /\ faulty' = [s \in Subject |-> faulty[s] \/ Busy(s)]
      /\ UNCHANGED <<game, stats, results>>
  BY DEF Crash, store
<1>2. TypeOK'
  <2>1. faulty' \in [Subject -> BOOLEAN]
    BY <1>1, Zenon DEF Busy, IInv, TypeOK
  <2>2. NoStats \in Stats
    BY DEF NoStats, Stats
  <2>3. QED
    BY <1>1, <2>1, <2>2 DEF IInv, TypeOK, Locking
<1>3. ASSUME NEW w \in Worker
      PROVE  ControlOf(w)' /\ MemoryOf(w)' /\ ClearingOf(w)'
  BY <1>1 DEF ControlOf, MemoryOf, ClearingOf, Locking, Playing, Starting
<1>4. ASSUME NEW s \in Subject
      PROVE  RoundOf(s)' /\ Sum(stats[s])'
  <2>1. faulty[s] => faulty'[s]
    BY <1>1
  <2>2. (\E w \in Worker : pc[w] = "clear" /\ req[w].subject = s) => faulty'[s]
    BY <1>1 DEF Busy, Locking
  <2>3. RoundOf(s) /\ Sum(stats[s])
    BY DEF IInv
  <2>4. QED
    BY <1>1, <2>1, <2>2, <2>3 DEF RoundOf
<1>5. QED
  BY <1>2, <1>3, <1>4 DEF IInv

----------------------------------------------------------------------------

LEMMA Inductive == Spec => []IInv
<1>1. IInv /\ [Next]_vars => IInv'
  <2> SUFFICES ASSUME IInv, [Next]_vars
               PROVE  IInv'
    OBVIOUS
  <2>1. ASSUME NEW w \in Worker, NEW r \in Request, Receive(w, r)
        PROVE  IInv'
    BY <2>1, ReceiveStep
  <2>2. ASSUME NEW w \in Worker, Acquire(w) \/ Handle(w)
        PROVE  IInv'
    BY <2>2, AcquireStep, LoadGameStep, ClearSolvedStep, AllowStep, GenerateRoundStep,
       SaveFreshStep, SubmitTurnStep, JudgeStep, SaveGameStep, LoadStatsStep,
       PutStatsStep, ClearGameStep, ForgetStep DEF Handle
  <2>3. CASE Crash
    BY <2>3, CrashStep
  <2>4. CASE UNCHANGED vars
    <3>1. UNCHANGED <<game, stats, lock, pc, req, round, score, results, faulty>>
      BY <2>4 DEF vars, store, memory, history
    <3>2. TypeOK'
      BY <3>1 DEF IInv, TypeOK
    <3>3. ASSUME NEW w \in Worker
          PROVE  ControlOf(w)' /\ MemoryOf(w)' /\ ClearingOf(w)'
      <4>1. PlayableOf(w)' <=> PlayableOf(w)
        BY <3>1 DEF PlayableOf
      <4>2. ControlOf(w) /\ MemoryOf(w) /\ ClearingOf(w)
        BY DEF IInv
      <4>3. MemoryOf(w)'
        BY <3>1, <4>1, <4>2 DEF MemoryOf
      <4>4. QED
        BY <3>1, <4>2, <4>3 DEF ControlOf, ClearingOf
    <3>4. \A s \in Subject : RoundOf(s)' /\ Sum(stats[s])'
      BY <3>1 DEF IInv, RoundOf
    <3>5. QED
      BY <3>2, <3>3, <3>4 DEF IInv
  <2>5. QED
    BY <2>1, <2>2, <2>3, <2>4 DEF Next
<1>2. QED
  BY InitIInv, <1>1, PTL DEF Spec

(* While a question is under way, however long the limiter and the model    *)
(* take, the round it was asked of stays the stored one (handlers.go holds  *)
(* the subject's lock over the call).                                       *)
THEOREM QuestionsAreJudgedOnTheirRound == Spec => []TwentyqInv
<1>1. IInv => TwentyqInv
  <2> SUFFICES ASSUME IInv
               PROVE  TwentyqInv
    OBVIOUS
  <2>1. JudgedOnCurrentRound
    BY DEF IInv, MemoryOf, Playing, JudgedOnCurrentRound
  <2>2. QED
    BY <2>1 DEF IInv, TwentyqInv
<1>2. QED
  BY Inductive, <1>1, PTL

(* However many rounds are counted, the stats stay a score rounds can add   *)
(* up to (recordResult, state.go).                                          *)
THEOREM ScoresAddUp == Spec => []StatsAddUp
<1>1. IInv => StatsAddUp
  BY DEF IInv, Sum, StatsAddUp
<1>2. QED
  BY Inductive, <1>1, PTL

(* No stored round holds a question twice, repeats being refused before the *)
(* model is asked (submitTurn).                                             *)
THEOREM QuestionsAreDistinct ==
  Spec => [](\A s \in Subject : game[s] # None => IsInjective(game[s].turns))
<1>1. IInv => \A s \in Subject : game[s] # None => IsInjective(game[s].turns)
  BY DEF IInv, RoundOf
<1>2. QED
  BY Inductive, <1>1, PTL

(* What a step does to a stored round, and whose step it is.                *)
LEMMA StoredByStep ==
  ASSUME IInv, Next, NEW s \in Subject, game'[s] # game[s]
  PROVE  \/ /\ game'[s] = None
            /\ \/ game[s] # None /\ game[s].solved
               \/ \E w \in Worker : pc[w] = "clear" /\ req[w].subject = s
         \/ /\ game'[s] \in Round /\ game'[s].turns = <<>> /\ ~game'[s].solved
            /\ game[s] = None \/ game[s].solved
         \/ /\ game'[s] \in Round /\ game[s] \in Round
            /\ \E q \in Question \ ToSet(game[s].turns) : game'[s] = WithTurn(game[s], q)
<1> USE DEF store, Goto, Fails
<1>1. ASSUME NEW w \in Worker, ClearSolved(w)
      PROVE  game'[s] = None /\ game[s] # None /\ game[s].solved
  <2>1. /\ pc[w] = "clearSolved"
        /\ game' \in {game, [game EXCEPT ![req[w].subject] = None]}
    BY <1>1 DEF ClearSolved
  <2>2. game[req[w].subject] # None /\ game[req[w].subject].solved
    BY <2>1 DEF IInv, MemoryOf
  <2>3. QED
    BY <2>1, <2>2 DEF IInv, TypeOK
<1>2. ASSUME NEW w \in Worker, ClearGame(w)
      PROVE  game'[s] = None /\ pc[w] = "clear" /\ req[w].subject = s
  BY <1>2 DEF ClearGame, IInv, TypeOK
<1>3. ASSUME NEW w \in Worker, SaveFresh(w)
      PROVE  /\ game'[s] \in Round /\ game'[s].turns = <<>> /\ ~game'[s].solved
             /\ game[s] = None \/ game[s].solved
  <2>1. /\ pc[w] = "saveFresh"
        /\ game' = game \/ game' = [game EXCEPT ![req[w].subject] = round[w]]
    BY <1>3 DEF SaveFresh
  <2>2. /\ round[w] \in Round /\ round[w].turns = <<>> /\ ~round[w].solved
        /\ game[req[w].subject] = None \/ game[req[w].subject].solved
    BY <2>1 DEF IInv, MemoryOf, Starting
  <2>3. QED
    BY <2>1, <2>2 DEF IInv, TypeOK
<1>4. ASSUME NEW w \in Worker, SaveGame(w)
      PROVE  /\ game'[s] \in Round /\ game[s] \in Round
             /\ \E q \in Question \ ToSet(game[s].turns) : game'[s] = WithTurn(game[s], q)
  <2>1. /\ pc[w] = "save"
        /\ game' = game \/ game' = [game EXCEPT ![req[w].subject] = round[w]]
    BY <1>4 DEF SaveGame
  <2>2. req[w].subject = s /\ game'[s] = round[w]
    BY <2>1 DEF IInv, TypeOK
  <2>3. /\ game[s] \in Round
        /\ \E q \in Question \ ToSet(game[s].turns) : round[w] = WithTurn(game[s], q)
    BY <2>1, <2>2 DEF IInv, MemoryOf, PlayableOf
  <2>4. PICK q \in Question \ ToSet(game[s].turns) : round[w] = WithTurn(game[s], q)
    BY <2>3
  <2>5. game[s].turns \in Seq(Question) /\ Append(game[s].turns, q) \in Seq(Question)
    <3>1. game[s].turns \in Seq(Question)
      BY <2>3 DEF Round
    <3>2. QED
      BY <3>1
  <2>6. WithTurn(game[s], q) \in Round
    <3>1. WithTurn(game[s], q) = [target |-> game[s].target,
                                  turns |-> Append(game[s].turns, q),
                                  solved |-> game[s].solved]
      BY <2>3, WithTurnParts
    <3>2. game[s].target \in Target /\ game[s].solved \in BOOLEAN
      BY <2>3 DEF Round
    <3>3. QED
      BY <2>5, <3>1, <3>2 DEF Round
  <2>7. QED
    BY <2>2, <2>3, <2>4, <2>6
<1>5. ASSUME ~\E w \in Worker : \/ ClearSolved(w) \/ ClearGame(w)
                               \/ SaveFresh(w) \/ SaveGame(w)
      PROVE  game' = game
  BY <1>5 DEF Next, Handle, Receive, Acquire, LoadGame, Allow, GenerateRound, SubmitTurn,
              Judge, LoadStats, PutStats, ReplyUnlocked, ReturnAndUnlock, Crash
<1>6. QED
  BY <1>1, <1>2, <1>3, <1>4, <1>5

(* A stored round moves by the rules: it gains one new question, ends, or   *)
(* replaces one that was over; no turn is lost (handlers.go).               *)
THEOREM TurnsAreKept == Spec => NoTurnIsLost
<1>1. IInv /\ [Next]_vars =>
        [\A s \in Subject :
           game'[s] # game[s] =>
             \/ game'[s] = None
             \/ /\ game[s] = None \/ game[s].solved
                /\ game'[s].turns = <<>> /\ ~game'[s].solved
             \/ /\ game[s] # None
                /\ \E q \in Question \ ToSet(game[s].turns) :
                     game'[s] = [game[s] EXCEPT !.turns = Append(@, q)]]_vars
  BY StoredByStep, ConstantsAssumption DEF WithTurn
<1>2. QED
  BY Inductive, <1>1, PTL DEF Spec, NoTurnIsLost

(* Unless a call fails, a round is counted in the stats exactly once, by    *)
(* the handler that takes it out of the store (handlers.go, state.go).      *)
THEOREM EachRoundIsCountedOnce == Spec => RoundsCountedOnce
<1>1. IInv => OpenMeansUncounted
  BY DEF IInv, RoundOf, OpenMeansUncounted, Busy, Locking
<1>2. IInv /\ [Next]_vars => [ClearedMeansCounted]_vars
  <2> SUFFICES ASSUME IInv, Next, NEW s \in Subject,
                      game[s] # None, game'[s] = None, ~faulty[s]
               PROVE  Len(results[s]) = 1 \/ game[s].solved
    BY DEF ClearedMeansCounted
  <2>1. game[s].solved \/ \E w \in Worker : pc[w] = "clear" /\ req[w].subject = s
    BY StoredByStep, ConstantsAssumption
  <2>2. QED
    BY <2>1 DEF IInv, ClearingOf
<1>3. QED
  BY Inductive, <1>1, <1>2, PTL DEF Spec, RoundsCountedOnce

----------------------------------------------------------------------------
(* How texts are read (validate.go, parser.go).                             *)

(* The characters picked, by their positions. *)
IsPick(p, f, m, text, P) ==
  /\ Enumerates(f, m, P)
  /\ p = [k \in 1 .. m |-> text[f[k]]]

(* Picked takes the positions in order.                                     *)
LEMMA PickedIs ==
  ASSUME NEW S, NEW text \in Seq(S), NEW P \in SUBSET (1 .. Len(text))
  PROVE  \E f, m : IsPick(Picked(text, P), f, m, text, P)
<1> DEFINE n == Len(text)
           l == [i \in 1 .. n |-> i]
           chosen == Keeping(l, P)
<1>1. n \in Nat /\ DOMAIN text = 1 .. n
  OBVIOUS
<1>2. P \cap (1 .. n) = P
  OBVIOUS
<1>3. Enumerates(chosen, Len(chosen), P)
  BY <1>1, <1>2, EnumeratedList
<1>4. chosen \in Seq(Int)
  <2>1. l \in Seq(Int)
    BY <1>1
  <2> HIDE DEF l
  <2>2. QED
    BY <2>1, KeepingPicks
<1>5. Picked(text, P) = [k \in DOMAIN chosen |-> text[chosen[k]]]
  BY <1>1 DEF Picked
<1> HIDE DEF chosen
<1>6. DOMAIN chosen = 1 .. Len(chosen)
  BY <1>4
<1>7. QED
  BY <1>3, <1>5, <1>6 DEF IsPick

(* Small letters, character by character; blanks stay blanks.               *)
LEMMA Lowered ==
  ASSUME NEW text \in Seq(Char)
  PROVE  /\ Lower(text) \in Seq(Char) /\ Len(Lower(text)) = Len(text)
         /\ \A i \in 1 .. Len(text) : Lower(text)[i] = LowerCase[text[i]]
         /\ Solid(Lower(text)) = Solid(text) /\ Solid(text) \in SUBSET (1 .. Len(text))
<1>1. /\ Len(text) \in Nat /\ DOMAIN text = 1 .. Len(text)
      /\ \A i \in 1 .. Len(text) : text[i] \in Char
  OBVIOUS
<1>2. /\ LowerCase \in [Char -> Char]
      /\ \A c \in Char : c = " " <=> LowerCase[c] = " "
  BY AnswerAssumption
<1>3. Lower(text) = [i \in 1 .. Len(text) |-> LowerCase[text[i]]]
  BY <1>1 DEF Lower
<1>4. \A i \in 1 .. Len(text) : LowerCase[text[i]] \in Char
  BY <1>1, <1>2
<1>5. /\ Lower(text) \in Seq(Char) /\ Len(Lower(text)) = Len(text)
      /\ \A i \in 1 .. Len(text) : Lower(text)[i] = LowerCase[text[i]]
  BY <1>1, <1>3, <1>4
<1>6. DOMAIN Lower(text) = 1 .. Len(text)
  BY <1>3
<1>7. Solid(Lower(text)) = Solid(text)
  BY <1>1, <1>2, <1>5, <1>6 DEF Solid
<1>8. QED
  BY <1>1, <1>5, <1>7 DEF Solid

(* The letters of a text in small letters, as SameWords compares them.      *)
LettersOf(low, f, m) ==
  [k \in 1 .. m |-> <<low[f[k]], k = 1 \/ f[k] - 1 \in Solid(low)>>]

(* The same, as SameWords writes it.                                        *)
LettersIn(text) ==
  LET Words == Picked([i \in DOMAIN text |->
                         <<LowerCase[text[i]], i - 1 \in Solid(text)>>], Solid(text))
  IN  [k \in DOMAIN Words |-> <<Words[k][1], k = 1 \/ Words[k][2]>>]

(* The two agree.                                                           *)
LEMMA LettersAre ==
  ASSUME NEW text \in Seq(Char)
  PROVE  \E f, m : /\ Enumerates(f, m, Solid(text))
                   /\ LettersIn(text) = LettersOf(Lower(text), f, m)
<1> DEFINE S == Solid(text)
           low == Lower(text)
           l == [i \in DOMAIN text |-> <<LowerCase[text[i]], i - 1 \in S>>]
           Words == Picked(l, S)
<1>1. /\ S \in SUBSET (1 .. Len(text)) /\ Len(text) \in Nat
      /\ DOMAIN text = 1 .. Len(text)
      /\ \A i \in 1 .. Len(text) : low[i] = LowerCase[text[i]]
      /\ low \in Seq(Char) /\ Len(low) = Len(text) /\ Solid(low) = S
  <2>1. Len(text) \in Nat /\ DOMAIN text = 1 .. Len(text)
    OBVIOUS
  <2>2. QED
    BY <2>1, Lowered, Zenon
<1>2. \A i \in 1 .. Len(text) : low[i] \in Char
  BY <1>1
<1>3. /\ l \in Seq(Char \X BOOLEAN) /\ Len(l) = Len(text)
      /\ \A i \in 1 .. Len(text) : l[i] = <<low[i], i - 1 \in S>>
  <2>1. l = [i \in 1 .. Len(text) |-> <<low[i], i - 1 \in S>>]
    BY <1>1
  <2>2. \A i \in 1 .. Len(text) : <<low[i], i - 1 \in S>> \in Char \X BOOLEAN
    <3> HIDE DEF S, low
    <3> TAKE i \in 1 .. Len(text)
    <3>1. low[i] \in Char
      BY <1>2
    <3>2. (i - 1 \in S) \in BOOLEAN
      OBVIOUS
    <3>3. QED
      BY <3>1, <3>2, Zenon
  <2> HIDE DEF l, S, low
  <2>3. QED
    BY <1>1, <2>1, <2>2
<1> HIDE DEF l, S, low
<1>4. PICK f, m : IsPick(Words, f, m, l, S)
  <2>1. S \in SUBSET (1 .. Len(l))
    BY <1>1, <1>3
  <2>2. QED
    BY <1>3, <2>1, PickedIs
<1> HIDE DEF Words
<1>5. /\ m \in Nat /\ f \in [1 .. m -> S] /\ Words = [k \in 1 .. m |-> l[f[k]]]
  BY <1>4 DEF IsPick, Enumerates
<1>6. \A k \in 1 .. m : f[k] \in 1 .. Len(text)
  BY <1>1, <1>5
<1>7. DOMAIN Words = 1 .. m
  BY <1>5
<1>8. \A k \in 1 .. m : Words[k] = <<low[f[k]], f[k] - 1 \in S>>
  BY <1>3, <1>5, <1>6
<1>9. \A k \in 1 .. m : Words[k][1] = low[f[k]] /\ Words[k][2] = (f[k] - 1 \in S)
  BY <1>8
<1>10. LettersIn(text) = [k \in DOMAIN Words |-> <<Words[k][1], k = 1 \/ Words[k][2]>>]
  BY DEF LettersIn, Words, l, S
<1>11. [k \in 1 .. m |-> <<Words[k][1], k = 1 \/ Words[k][2]>>]
        = [k \in 1 .. m |-> <<low[f[k]], k = 1 \/ f[k] - 1 \in S>>]
  BY <1>9
<1>12. LettersIn(text) = LettersOf(low, f, m)
  BY <1>1, <1>7, <1>10, <1>11 DEF LettersOf
<1>13. QED
  BY <1>4, <1>12 DEF IsPick, S, low

(* A text without a blank to spare.                                         *)
Canonical(t) ==
  /\ t \in Seq(Char)
  /\ t # <<>> => t[1] # " " /\ t[Len(t)] # " "
  /\ \A i \in 1 .. Len(t) - 1 : t[i] # " " \/ t[i + 1] # " "

(* What strings.Fields and strings.Join keep.                               *)
Kept(raw) ==
  {i \in DOMAIN raw : \/ raw[i] # " "
                      \/ i - 1 \in Solid(raw) /\ \E j \in Solid(raw) : i < j}

(* The positions of a collapsed text in the text it was made of.            *)
IsCollapse(t, g, n, raw) ==
  /\ Enumerates(g, n, Kept(raw))
  /\ t \in Seq(Char) /\ Len(t) = n
  /\ \A k \in 1 .. n : t[k] = raw[g[k]]

(* The positions Collapsed takes.                                           *)
LEMMA CollapsedIs ==
  ASSUME NEW raw \in Seq(Char)
  PROVE  \E g, n : IsCollapse(Collapsed(raw), g, n, raw)
<1> DEFINE C == Kept(raw)
<1>1. C \in SUBSET (1 .. Len(raw)) /\ \A i \in 1 .. Len(raw) : raw[i] \in Char
  <2>1. DOMAIN raw = 1 .. Len(raw) /\ \A i \in 1 .. Len(raw) : raw[i] \in Char
    OBVIOUS
  <2>2. C \subseteq 1 .. Len(raw)
    BY <2>1, Zenon DEF Kept
  <2>3. QED
    BY <2>1, <2>2
<1>2. Collapsed(raw) = Picked(raw, C)
  BY DEF Collapsed, Kept
<1> HIDE DEF C
<1>3. PICK g, n : IsPick(Picked(raw, C), g, n, raw, C)
  BY <1>1, PickedIs
<1>4. /\ n \in Nat /\ g \in [1 .. n -> C] /\ Collapsed(raw) = [k \in 1 .. n |-> raw[g[k]]]
  BY <1>2, <1>3 DEF IsPick, Enumerates
<1>5. \A k \in 1 .. n : raw[g[k]] \in Char
  BY <1>1, <1>4
<1>6. Collapsed(raw) \in Seq(Char) /\ Len(Collapsed(raw)) = n
  BY <1>4, <1>5
<1>7. QED
  BY <1>3, <1>4, <1>6 DEF IsCollapse, IsPick, C

(* Nothing listed lies between two that are listed one after the other.     *)
LEMMA NothingBetween ==
  ASSUME NEW P \in SUBSET Int, NEW g, NEW n, Enumerates(g, n, P),
         NEW k \in 1 .. n, NEW p \in P
  PROVE  /\ p < g[k] => k > 1 /\ p <= g[k - 1]
         /\ p > g[k] => k < n /\ p >= g[k + 1]
<1>1. /\ n \in Nat /\ \A j \in 1 .. n : g[j] \in P /\ g[j] \in Int
      /\ \A i, j \in 1 .. n : i < j => g[i] < g[j]
  BY DEF Enumerates
<1>2. PICK j \in 1 .. n : g[j] = p
  BY DEF Enumerates
<1>3. k \in Int /\ j \in Int /\ p = g[j] /\ g[k] \in Int /\ p \in Int
  BY <1>1, <1>2
<1>4. ASSUME p < g[k] PROVE k > 1 /\ p <= g[k - 1]
  <2>1. j < k
    <3>1. SUFFICES ASSUME j >= k PROVE FALSE
      BY <1>3
    <3>2. j = k \/ k < j
      BY <1>3, <3>1
    <3>3. QED
      BY <1>1, <1>2, <1>3, <1>4, <3>2
  <2>2. k - 1 \in 1 .. n /\ (j = k - 1 \/ j < k - 1)
    BY <1>1, <2>1
  <2>3. p <= g[k - 1]
    BY <1>1, <1>2, <1>3, <2>2
  <2>4. QED
    BY <2>1, <2>2, <2>3
<1>5. ASSUME p > g[k] PROVE k < n /\ p >= g[k + 1]
  <2>1. j > k
    <3>1. SUFFICES ASSUME j <= k PROVE FALSE
      BY <1>3
    <3>2. j = k \/ j < k
      BY <1>3, <3>1
    <3>3. QED
      BY <1>1, <1>2, <1>3, <1>5, <3>2
  <2>2. k + 1 \in 1 .. n /\ (j = k + 1 \/ k + 1 < j)
    BY <1>1, <2>1
  <2>3. p >= g[k + 1]
    BY <1>1, <1>2, <1>3, <2>2
  <2>4. QED
    BY <1>1, <2>1, <2>2, <2>3
<1>6. QED
  BY <1>4, <1>5

(* What is kept: all but blanks, and one blank between two words.           *)
LEMMA KeptAre ==
  ASSUME NEW raw \in Seq(Char)
  PROVE  /\ Kept(raw) \in SUBSET Int /\ Solid(raw) \subseteq Kept(raw)
         /\ \A i \in Kept(raw) : i \in 1 .. Len(raw)
         /\ \A i \in Solid(raw) : i \in 1 .. Len(raw) /\ raw[i] # " "
         /\ \A i \in 1 .. Len(raw) : raw[i] # " " => i \in Solid(raw)
         /\ \A i \in Kept(raw) \ Solid(raw) :
              i - 1 \in Solid(raw) /\ \E j \in Solid(raw) : i < j
         /\ \A i \in Solid(raw) : (\E j \in Solid(raw) : i + 1 < j) => i + 1 \in Kept(raw)
<1>1. Len(raw) \in Nat /\ DOMAIN raw = 1 .. Len(raw)
  OBVIOUS
<1>2. \A i \in Kept(raw) : i \in 1 .. Len(raw)
  BY <1>1, Zenon DEF Kept
<1>3. /\ \A i \in Solid(raw) : i \in 1 .. Len(raw) /\ raw[i] # " "
      /\ \A i \in 1 .. Len(raw) : raw[i] # " " => i \in Solid(raw)
  BY <1>1, Zenon DEF Solid
<1>4. Solid(raw) \subseteq Kept(raw)
  BY DEF Solid, Kept
<1>5. \A i \in Kept(raw) \ Solid(raw) : i - 1 \in Solid(raw) /\ \E j \in Solid(raw) : i < j
  BY Zenon DEF Solid, Kept
<1>6. ASSUME NEW i \in Solid(raw), NEW j \in Solid(raw), i + 1 < j
      PROVE  i + 1 \in Kept(raw)
  <2>0. i \in 1 .. Len(raw) /\ j \in 1 .. Len(raw)
    BY <1>3, Zenon
  <2>1. i \in 1 .. Len(raw) /\ j \in 1 .. Len(raw) /\ i \in Int
    BY <1>1, <2>0
  <2>2. i + 1 \in 1 .. Len(raw) /\ (i + 1) - 1 = i
    BY <1>1, <1>6, <2>1
  <2>3. (i + 1) - 1 \in Solid(raw)
    BY <2>2
  <2>4. i + 1 \in DOMAIN raw
    BY <1>1, <2>2
  <2>5. QED
    BY <1>6, <2>3, <2>4, Zenon DEF Kept
<1>7. Kept(raw) \in SUBSET Int
  BY <1>1, <1>2
<1>8. QED
  BY <1>2, <1>3, <1>4, <1>5, <1>6, <1>7

(* A collapsed text has no blank to spare.                                  *)
LEMMA CollapsedIsCanonical ==
  ASSUME NEW raw \in Seq(Char), NEW t, NEW g, NEW n, IsCollapse(t, g, n, raw)
  PROVE  Canonical(t)
<1> DEFINE C == Kept(raw)
           S == Solid(raw)
<1>1. /\ C \in SUBSET Int /\ S \subseteq C
      /\ \A i \in C : i \in 1 .. Len(raw)
      /\ \A i \in S : raw[i] # " "
      /\ \A i \in 1 .. Len(raw) : raw[i] # " " => i \in S
      /\ \A i \in C \ S : i - 1 \in S /\ \E j \in S : i < j
  BY KeptAre
<1>2. /\ Enumerates(g, n, C) /\ t \in Seq(Char) /\ Len(t) = n
      /\ \A k \in 1 .. n : t[k] = raw[g[k]]
  BY DEF IsCollapse
<1> HIDE DEF C, S
<1>0. n \in Nat
  BY <1>2 DEF Enumerates
<1>3. /\ \A k \in 1 .. n : g[k] \in C /\ g[k] \in Int
      /\ \A k \in 1 .. n : t[k] # " " <=> g[k] \in S
  <2>1. \A k \in 1 .. n : g[k] \in C
    BY <1>2 DEF Enumerates
  <2>2. QED
    BY <1>1, <1>2, <2>1
<1>4. \A k \in 1 .. n : \A p \in C : /\ p < g[k] => k > 1 /\ p <= g[k - 1]
                                     /\ p > g[k] => k < n /\ p >= g[k + 1]
  BY <1>1, <1>2, NothingBetween
<1>5. ASSUME n # 0 PROVE t[1] # " " /\ t[n] # " "
  <2>1. 1 \in 1 .. n /\ n \in 1 .. n
    BY <1>0, <1>5
  <2>0. g[1] \in Int /\ g[n] \in Int
    BY <1>3, <2>1
  <2>2. g[1] \in S
    <3>1. SUFFICES ASSUME g[1] \notin S PROVE FALSE
      OBVIOUS
    <3>2. g[1] - 1 \in C
      BY <1>1, <1>3, <2>1, <3>1
    <3>3. g[1] - 1 < g[1]
      BY <2>0
    <3>4. QED
      BY <1>4, <2>1, <3>2, <3>3
  <2>3. g[n] \in S
    <3>1. SUFFICES ASSUME g[n] \notin S PROVE FALSE
      OBVIOUS
    <3>2. PICK j \in S : g[n] < j
      BY <1>1, <1>3, <2>1, <3>1
    <3>3. j \in C /\ j > g[n]
      BY <1>1, <1>3, <2>1, <3>2
    <3>4. n < n
      BY <1>4, <2>1, <3>3
    <3>5. QED
      BY <1>0, <3>4
  <2>4. QED
    BY <1>3, <2>1, <2>2, <2>3
<1>6. ASSUME NEW i \in 1 .. n - 1, t[i] = " ", t[i + 1] = " " PROVE FALSE
  <2>1. i \in 1 .. n /\ i + 1 \in 1 .. n /\ i < i + 1 /\ (i + 1) - 1 = i
    BY <1>0
  <2>0. g[i] \in Int /\ g[i + 1] \in Int
    BY <1>3, <2>1
  <2>2. g[i] \notin S /\ g[i + 1] \notin S
    BY <1>3, <1>6, <2>1
  <2>3. g[i + 1] - 1 \in S /\ g[i + 1] - 1 \in C
    BY <1>1, <1>3, <2>1, <2>2
  <2>4. g[i + 1] - 1 <= g[i]
    <3>1. g[i + 1] - 1 < g[i + 1]
      BY <2>0
    <3>2. g[i + 1] - 1 <= g[(i + 1) - 1]
      BY <1>4, <2>1, <2>3, <3>1
    <3>3. QED
      BY <2>1, <3>2
  <2>5. g[i] < g[i + 1]
    <3>1. \A j, k \in 1 .. n : j < k => g[j] < g[k]
      BY <1>2 DEF Enumerates
    <3>2. QED
      BY <2>1, <3>1
  <2>6. g[i] = g[i + 1] - 1
    BY <2>0, <2>4, <2>5
  <2>7. QED
    BY <2>2, <2>3, <2>6
<1>7. t # <<>> => n # 0
  BY <1>2
<1>8. \A i \in 1 .. n - 1 : t[i] # " " \/ t[i + 1] # " "
  BY <1>6
<1>9. QED
  BY <1>2, <1>5, <1>7, <1>8 DEF Canonical

(* Collapsing keeps the letters, and what is glued to what.                 *)
LEMMA CollapsedHasItsLetters ==
  ASSUME NEW raw \in Seq(Char), NEW t, NEW g, NEW n, IsCollapse(t, g, n, raw),
         NEW f, NEW m, Enumerates(f, m, Solid(raw)),
         NEW h, NEW l, Enumerates(h, l, Solid(t))
  PROVE  LettersOf(Lower(t), h, l) = LettersOf(Lower(raw), f, m)
<1> DEFINE C == Kept(raw)
           S == Solid(raw)
           Q == Solid(t)
<1>1. /\ C \in SUBSET Int /\ S \subseteq C
      /\ \A i \in C : i \in 1 .. Len(raw)
      /\ \A i \in S : i \in 1 .. Len(raw) /\ raw[i] # " "
      /\ \A i \in 1 .. Len(raw) : raw[i] # " " => i \in S
      /\ \A i \in S : (\E j \in S : i + 1 < j) => i + 1 \in C
  BY KeptAre
<1>2. /\ Enumerates(g, n, C) /\ t \in Seq(Char) /\ Len(t) = n
      /\ \A k \in 1 .. n : t[k] = raw[g[k]]
  BY DEF IsCollapse
<1>3. /\ Lower(t) \in Seq(Char)
      /\ \A i \in 1 .. n : Lower(t)[i] = LowerCase[t[i]]
      /\ Solid(Lower(t)) = Q /\ Q \in SUBSET (1 .. n)
  BY <1>2, Lowered
<1>4. /\ \A i \in 1 .. Len(raw) : Lower(raw)[i] = LowerCase[raw[i]]
      /\ Solid(Lower(raw)) = S
  BY Lowered
<1>0. n \in Nat /\ DOMAIN t = 1 .. n
  BY <1>2
<1>5. \A k \in 1 .. n : g[k] \in C /\ g[k] \in Int /\ g[k] \in 1 .. Len(raw)
  <2>1. \A k \in 1 .. n : g[k] \in C
    BY <1>2 DEF Enumerates
  <2>2. QED
    BY <1>1, <2>1
<1>6. \A k \in 1 .. n : k \in Q <=> g[k] \in S
  <2> TAKE k \in 1 .. n
  <2>1. k \in Q <=> t[k] # " "
    BY <1>0 DEF Q, Solid
  <2>2. g[k] \in S <=> raw[g[k]] # " "
    BY <1>1, <1>5
  <2>3. QED
    BY <1>2, <2>1, <2>2
<1>7. \A k \in 1 .. n : \A p \in C : /\ p < g[k] => k > 1 /\ p <= g[k - 1]
                                     /\ p > g[k] => k < n /\ p >= g[k + 1]
  BY <1>1, <1>2, NothingBetween
<1>8. /\ \A p \in C : \E k \in 1 .. n : g[k] = p
      /\ \A j, k \in 1 .. n : j < k => g[j] < g[k]
  BY <1>2 DEF Enumerates
<1>9. /\ l \in Nat /\ \A k \in 1 .. l : h[k] \in Q
      /\ \A j, k \in 1 .. l : j < k => h[j] < h[k]
      /\ \A q \in Q : \E k \in 1 .. l : h[k] = q
  BY DEF Enumerates, Q
<1> HIDE DEF C, S, Q
<1>10. \A k \in 1 .. l : h[k] \in 1 .. n /\ h[k] \in Int /\ g[h[k]] \in S
  <2> TAKE k \in 1 .. l
  <2>1. h[k] \in Q
    BY <1>9
  <2>2. h[k] \in 1 .. n
    BY <1>3, <2>1
  <2>3. g[h[k]] \in S
    BY <1>6, <2>1, <2>2
  <2>4. QED
    BY <1>0, <2>2, <2>3
<1> DEFINE e == [k \in 1 .. l |-> g[h[k]]]
<1>11. Enumerates(e, l, S)
  <2>1. e \in [1 .. l -> S]
    BY <1>10
  <2>2. \A j, k \in 1 .. l : j < k => e[j] < e[k]
    BY <1>8, <1>9, <1>10
  <2>3. ASSUME NEW p \in S PROVE \E k \in 1 .. l : e[k] = p
    <3>1. PICK q \in 1 .. n : g[q] = p
      BY <1>1, <1>8
    <3>2. q \in Q
      BY <1>6, <3>1
    <3>3. PICK k \in 1 .. l : h[k] = q
      BY <1>9, <3>2
    <3>4. QED
      BY <3>1, <3>3
  <2> HIDE DEF e
  <2>4. QED
    BY <1>9, <2>1, <2>2, <2>3 DEF Enumerates
<1>12. l = m /\ \A k \in 1 .. l : g[h[k]] = f[k]
  <2>1. S \in SUBSET Int /\ Enumerates(f, m, S)
    BY <1>1 DEF S
  <2>2. l = m /\ \A k \in 1 .. l : e[k] = f[k]
    <3> HIDE DEF e
    <3> QED BY <1>11, <2>1, EnumeratedOnce
  <2>3. QED
    BY <2>2
<1>13. \A k \in 1 .. l : Lower(t)[h[k]] = Lower(raw)[f[k]]
  <2> TAKE k \in 1 .. l
  <2>1. h[k] \in 1 .. n /\ g[h[k]] = f[k] /\ g[h[k]] \in 1 .. Len(raw)
    BY <1>5, <1>10, <1>12
  <2>2. Lower(t)[h[k]] = LowerCase[raw[g[h[k]]]]
    BY <1>2, <1>3, <2>1
  <2>3. Lower(raw)[f[k]] = LowerCase[raw[f[k]]]
    BY <1>4, <2>1
  <2>4. QED
    BY <2>1, <2>2, <2>3
<1>14. ASSUME NEW k \in 1 .. l, k # 1 PROVE (h[k] - 1 \in Q) = (f[k] - 1 \in S)
  <2>1. /\ k - 1 \in 1 .. l /\ k \in Int /\ h[k] \in 1 .. n /\ g[h[k]] = f[k]
        /\ h[k - 1] \in 1 .. n /\ g[h[k - 1]] = f[k - 1] /\ f[k] \in S /\ f[k - 1] \in S
        /\ f[k] \in Int /\ f[k - 1] \in Int /\ f[k - 1] < f[k] /\ h[k - 1] < h[k]
    <3>1. k - 1 \in 1 .. l /\ k \in Int /\ k - 1 < k
      BY <1>9, <1>14
    <3>2. h[k] \in 1 .. n /\ h[k - 1] \in 1 .. n /\ h[k - 1] < h[k]
      BY <1>9, <1>10, <3>1
    <3>3. g[h[k]] = f[k] /\ g[h[k - 1]] = f[k - 1] /\ f[k] \in S /\ f[k - 1] \in S
      BY <1>10, <1>12, <3>1
    <3>4. f[k] \in Int /\ f[k - 1] \in Int /\ f[k - 1] < f[k]
      BY <1>5, <1>8, <3>2, <3>3
    <3>5. QED
      BY <3>1, <3>2, <3>3, <3>4
  <2>2. ASSUME f[k] - 1 \in S PROVE h[k] - 1 \in Q
    <3>1. f[k] - 1 \in C
      BY <1>1, <2>2
    <3>0. f[k] - 1 < g[h[k]]
      BY <2>1
    <3>2. h[k] > 1 /\ f[k] - 1 <= g[h[k] - 1]
      BY <1>7, <2>1, <3>0, <3>1
    <3>3. h[k] - 1 \in 1 .. n /\ h[k] - 1 < h[k]
      BY <1>0, <2>1, <3>2
    <3>4. g[h[k] - 1] < g[h[k]] /\ g[h[k] - 1] \in Int
      BY <1>5, <1>8, <2>1, <3>3
    <3>5. g[h[k] - 1] = f[k] - 1
      BY <2>1, <3>2, <3>4
    <3>6. QED
      BY <1>6, <2>2, <3>3, <3>5
  <2>3. ASSUME h[k] - 1 \in Q PROVE f[k] - 1 \in S
    <3>1. h[k] - 1 \in 1 .. n
      BY <1>3, <2>3
    <3>2. PICK j \in 1 .. l : h[j] = h[k] - 1
      BY <1>9, <2>3
    <3>3. j \in Int /\ j = k - 1
      <4>1. j \in Int /\ h[j] \in Int /\ h[k] \in Int /\ h[k - 1] \in Int
        BY <1>9, <1>10, <2>1
      <4>2. j < k
        <5>1. SUFFICES ASSUME k < j \/ j = k PROVE FALSE
          BY <2>1, <4>1
        <5>2. QED
          BY <1>9, <3>2, <4>1, <5>1
      <4>3. ~ (j < k - 1)
        <5>1. SUFFICES ASSUME j < k - 1 PROVE FALSE
          OBVIOUS
        <5>2. h[j] < h[k - 1]
          BY <1>9, <2>1, <5>1
        <5>3. QED
          BY <2>1, <3>2, <4>1, <5>2
      <4>4. QED
        BY <2>1, <4>1, <4>2, <4>3
    <3>4. g[h[k] - 1] = f[k - 1]
      BY <2>1, <3>2, <3>3
    <3>5. SUFFICES ASSUME f[k] # f[k - 1] + 1 PROVE FALSE
      BY <2>1
    <3>6. f[k - 1] + 1 < f[k]
      BY <2>1, <3>5
    <3>7. f[k - 1] + 1 \in C
      BY <1>1, <2>1, <3>6
    <3>8. f[k - 1] + 1 <= g[h[k] - 1]
      BY <1>7, <2>1, <3>6, <3>7
    <3>9. QED
      BY <2>1, <3>4, <3>8
  <2>4. QED
    BY <2>2, <2>3
<1> HIDE DEF e
<1>15. \A k \in 1 .. l : <<Lower(t)[h[k]], k = 1 \/ h[k] - 1 \in Q>>
                          = <<Lower(raw)[f[k]], k = 1 \/ f[k] - 1 \in S>>
  BY <1>13, <1>14
<1>16. LettersOf(Lower(t), h, l) = [k \in 1 .. l |-> <<Lower(t)[h[k]], k = 1 \/ h[k] - 1 \in Q>>]
  BY <1>3 DEF LettersOf
<1>17. LettersOf(Lower(raw), f, m) = [k \in 1 .. l |-> <<Lower(raw)[f[k]], k = 1 \/ f[k] - 1 \in S>>]
  BY <1>4, <1>12 DEF LettersOf
<1>18. QED
  BY <1>15, <1>16, <1>17

(* Of a text without a blank to spare, the letters say how far apart they   *)
(* stand.                                                                   *)
LEMMA Spacing ==
  ASSUME NEW t, Canonical(t), NEW f, NEW m, Enumerates(f, m, Solid(t))
  PROVE  /\ (m = 0) <=> (Len(t) = 0)
         /\ m # 0 => f[1] = 1 /\ f[m] = Len(t)
         /\ \A k \in 2 .. m : f[k] = IF f[k] - 1 \in Solid(t) THEN f[k - 1] + 1 ELSE f[k - 1] + 2
<1> DEFINE S == Solid(t)
<1>1. /\ t \in Seq(Char)
      /\ t # <<>> => t[1] # " " /\ t[Len(t)] # " "
      /\ \A i \in 1 .. Len(t) - 1 : t[i] # " " \/ t[i + 1] # " "
  BY DEF Canonical
<1>0. t \in Seq(Char)
  BY <1>1
<1>2. Len(t) \in Nat /\ DOMAIN t = 1 .. Len(t)
  BY <1>0
<1>3. /\ \A i \in S : i \in 1 .. Len(t) /\ t[i] # " "
      /\ \A i \in 1 .. Len(t) : t[i] # " " => i \in S
  BY <1>2 DEF Solid
<1>4. S \in SUBSET Int
  <2> HIDE DEF S
  <2>1. \A i \in S : i \in 1 .. Len(t)
    BY <1>3, Zenon
  <2>2. QED
    BY <1>2, <2>1
<1>5. \A k \in 1 .. m : \A p \in S : /\ p < f[k] => k > 1 /\ p <= f[k - 1]
                                     /\ p > f[k] => k < m /\ p >= f[k + 1]
  BY <1>4, NothingBetween
<1>6. /\ m \in Nat /\ \A k \in 1 .. m : f[k] \in S
      /\ \A j, k \in 1 .. m : j < k => f[j] < f[k]
      /\ \A p \in S : \E k \in 1 .. m : f[k] = p
  BY DEF Enumerates
<1> HIDE DEF S
<1>7. \A k \in 1 .. m : f[k] \in 1 .. Len(t) /\ f[k] \in Int
  <2> TAKE k \in 1 .. m
  <2>1. f[k] \in 1 .. Len(t)
    BY <1>3, <1>6, Zenon
  <2>2. QED
    BY <1>2, <2>1
<1>8. ASSUME Len(t) # 0 PROVE m # 0 /\ f[1] = 1 /\ f[m] = Len(t)
  <2>1. 1 \in 1 .. Len(t) /\ Len(t) \in 1 .. Len(t) /\ t # <<>>
    BY <1>2, <1>8
  <2>2. 1 \in S /\ Len(t) \in S
    BY <1>1, <1>3, <2>1
  <2>3. m # 0
    BY <1>6, <2>2
  <2>4. 1 \in 1 .. m /\ m \in 1 .. m
    BY <1>6, <2>3
  <2>5. f[1] \in 1 .. Len(t) /\ f[m] \in 1 .. Len(t)
    BY <1>7, <2>4
  <2>6. f[1] = 1
    <3>1. ~ (1 < f[1])
      BY <1>5, <2>2, <2>4
    <3>2. QED
      BY <1>2, <2>5, <3>1
  <2>7. f[m] = Len(t)
    <3>1. SUFFICES ASSUME Len(t) > f[m] PROVE FALSE
      BY <1>2, <2>5
    <3>2. m < m
      BY <1>5, <2>2, <2>4, <3>1
    <3>3. QED
      BY <1>6, <3>2
  <2>8. QED
    BY <2>3, <2>6, <2>7
<1>9. ASSUME m # 0 PROVE Len(t) # 0
  <2>1. 1 \in 1 .. m
    BY <1>6, <1>9
  <2>2. f[1] \in 1 .. Len(t)
    BY <1>7, <2>1
  <2>3. QED
    BY <1>2, <2>2
<1>10. ASSUME NEW k \in 2 .. m
       PROVE  f[k] = IF f[k] - 1 \in S THEN f[k - 1] + 1 ELSE f[k - 1] + 2
  <2>1. k \in 1 .. m /\ k - 1 \in 1 .. m /\ k - 1 < k
    BY <1>6
  <2>2. /\ f[k] \in 1 .. Len(t) /\ f[k - 1] \in 1 .. Len(t) /\ f[k - 1] \in S
        /\ f[k] \in Int /\ f[k - 1] \in Int /\ f[k - 1] < f[k]
    BY <1>6, <1>7, <2>1
  <2>3. CASE f[k] - 1 \in S
    <3>1. f[k] - 1 < f[k]
      BY <2>2
    <3>2. f[k] - 1 <= f[k - 1]
      BY <1>5, <2>1, <2>3, <3>1
    <3>3. QED
      BY <2>2, <2>3, <3>2
  <2>4. CASE f[k] - 1 \notin S
    <3>1. f[k - 1] # f[k] - 1
      BY <2>2, <2>4
    <3>2. f[k] - 1 \in 1 .. Len(t) /\ f[k] - 2 \in 1 .. Len(t) - 1 /\ f[k] - 2 \in 1 .. Len(t)
          /\ (f[k] - 2) + 1 = f[k] - 1 /\ f[k] - 2 < f[k]
      BY <1>2, <2>2, <3>1
    <3>3. t[f[k] - 1] = " "
      BY <1>3, <2>4, <3>2
    <3>4. t[f[k] - 2] # " "
      BY <1>1, <3>2, <3>3
    <3>5. f[k] - 2 \in S
      BY <1>3, <3>2, <3>4
    <3>6. f[k] - 2 <= f[k - 1]
      BY <1>5, <2>1, <3>2, <3>5
    <3>7. f[k] = f[k - 1] + 2
      BY <2>2, <3>1, <3>6
    <3>8. QED
      BY <2>4, <3>7
  <2>5. QED
    BY <2>3, <2>4
<1>11. \A k \in 2 .. m : f[k] = IF f[k] - 1 \in S THEN f[k - 1] + 1 ELSE f[k - 1] + 2
  BY <1>10
<1>12. (m = 0) <=> (Len(t) = 0)
  BY <1>8, <1>9
<1>13. m # 0 => f[1] = 1 /\ f[m] = Len(t)
  BY <1>8, <1>9
<1>14. QED
  BY <1>11, <1>12, <1>13, Zenon DEF S

(* Two such texts of the same letters are one text.                         *)
LEMMA SpelledByLetters ==
  ASSUME NEW t, NEW u, Canonical(t), Canonical(u),
         NEW f, NEW m, Enumerates(f, m, Solid(t)),
         NEW g, NEW n, Enumerates(g, n, Solid(u)),
         LettersOf(t, f, m) = LettersOf(u, g, n)
  PROVE  t = u
<1>1. m \in Nat /\ n \in Nat
  BY DEF Enumerates
<1>2. m = n
  <2>1. DOMAIN LettersOf(t, f, m) = 1 .. m /\ DOMAIN LettersOf(u, g, n) = 1 .. n
    BY DEF LettersOf
  <2>2. 1 .. m = 1 .. n
    BY <2>1
  <2>3. QED
    BY <1>1, <2>2
<1>3. \A k \in 1 .. m : /\ t[f[k]] = u[g[k]]
                        /\ k # 1 => (f[k] - 1 \in Solid(t)) = (g[k] - 1 \in Solid(u))
  <2> TAKE k \in 1 .. m
  <2>1. /\ LettersOf(t, f, m)[k] = <<t[f[k]], k = 1 \/ f[k] - 1 \in Solid(t)>>
        /\ LettersOf(u, g, n)[k] = <<u[g[k]], k = 1 \/ g[k] - 1 \in Solid(u)>>
    BY <1>2, Zenon DEF LettersOf
  <2>2. <<t[f[k]], k = 1 \/ f[k] - 1 \in Solid(t)>> = <<u[g[k]], k = 1 \/ g[k] - 1 \in Solid(u)>>
    BY <2>1
  <2>3. t[f[k]] = u[g[k]] /\ (k = 1 \/ f[k] - 1 \in Solid(t)) = (k = 1 \/ g[k] - 1 \in Solid(u))
    BY <2>2
  <2>4. QED
    BY <2>3
<1>4. /\ (m = 0) <=> (Len(t) = 0)
      /\ m # 0 => f[1] = 1 /\ f[m] = Len(t)
      /\ \A k \in 2 .. m : f[k] = IF f[k] - 1 \in Solid(t) THEN f[k - 1] + 1 ELSE f[k - 1] + 2
  BY Spacing
<1>5. /\ (n = 0) <=> (Len(u) = 0)
      /\ n # 0 => g[1] = 1 /\ g[n] = Len(u)
      /\ \A k \in 2 .. n : g[k] = IF g[k] - 1 \in Solid(u) THEN g[k - 1] + 1 ELSE g[k - 1] + 2
  BY Spacing
<1> DEFINE D == {j \in 0 .. m : j = 0 \/ f[j] = g[j]}
           h == [j \in 0 .. m |-> j]
<1>6. \A j \in 0 .. m : h[j] = j
  OBVIOUS
<1> HIDE DEF h
<1>7. h[0] \in D
  BY <1>1, <1>6
<1>8. ASSUME NEW j \in 1 .. m, h[j - 1] \in D PROVE h[j] \in D
  <2>1. j \in 0 .. m /\ (j - 1 = 0 \/ f[j - 1] = g[j - 1])
    BY <1>1, <1>6, <1>8
  <2>2. CASE j = 1
    <3>1. f[1] = 1 /\ g[1] = 1
      BY <1>1, <1>2, <1>4, <1>5
    <3>2. QED
      BY <1>6, <2>1, <2>2, <3>1
  <2>3. CASE j # 1
    <3>1. j \in 2 .. m /\ j \in 2 .. n /\ f[j - 1] = g[j - 1]
      BY <1>1, <1>2, <2>1, <2>3
    <3>2. (f[j] - 1 \in Solid(t)) = (g[j] - 1 \in Solid(u))
      BY <1>3, <2>3
    <3>3. f[j] = g[j]
      BY <1>4, <1>5, <3>1, <3>2
    <3>4. QED
      BY <1>6, <2>1, <3>3
  <2>4. QED
    BY <2>2, <2>3
<1>9. \A j \in 0 .. m : h[j] \in D
  <2> HIDE DEF D
  <2> QED BY <1>1, <1>7, <1>8, Steps
<1>10. \A k \in 1 .. m : f[k] = g[k]
  BY <1>1, <1>6, <1>9
<1>11. Len(t) = Len(u)
  <2>1. CASE m = 0
    BY <1>2, <1>4, <1>5, <2>1
  <2>2. CASE m # 0
    <3>1. m \in 1 .. m
      BY <1>1, <2>2
    <3>2. QED
      BY <1>2, <1>4, <1>5, <1>10, <2>2, <3>1
  <2>3. QED
    BY <2>1, <2>2
<1>12. t \in Seq(Char) /\ u \in Seq(Char)
  BY DEF Canonical
<1>13. ASSUME NEW i \in 1 .. Len(t) PROVE t[i] = u[i]
  <2>1. (i \in Solid(t) <=> t[i] # " ") /\ (i \in Solid(u) <=> u[i] # " ")
    <3>1. i \in DOMAIN t /\ i \in DOMAIN u
      BY <1>11, <1>12
    <3>2. QED
      BY <3>1, Zenon DEF Solid
  <2>2. CASE i \in Solid(t)
    <3>1. PICK k \in 1 .. m : f[k] = i
      BY <2>2 DEF Enumerates
    <3>2. QED
      BY <1>3, <1>10, <3>1
  <2>3. CASE i \notin Solid(t)
    <3>1. i \notin Solid(u)
      <4>1. SUFFICES ASSUME i \in Solid(u) PROVE FALSE
        OBVIOUS
      <4>2. PICK k \in 1 .. n : g[k] = i
        BY <4>1 DEF Enumerates
      <4>3. f[k] = i /\ f[k] \in Solid(t)
        BY <1>2, <1>10, <4>2 DEF Enumerates
      <4>4. QED
        BY <2>3, <4>3
    <3>2. QED
      BY <2>1, <2>3, <3>1
  <2>4. QED
    BY <2>2, <2>3
<1>14. QED
  BY <1>11, <1>12, <1>13

(* Small letters add no blank.                                              *)
LEMMA LoweredCanonical ==
  ASSUME NEW t, Canonical(t)
  PROVE  Canonical(Lower(t))
<1>1. /\ t \in Seq(Char)
      /\ t # <<>> => t[1] # " " /\ t[Len(t)] # " "
      /\ \A i \in 1 .. Len(t) - 1 : t[i] # " " \/ t[i + 1] # " "
  BY DEF Canonical
<1>0. t \in Seq(Char)
  BY <1>1
<1>00. Len(t) \in Nat /\ \A i \in 1 .. Len(t) : t[i] \in Char
  BY <1>0
<1>2. /\ Lower(t) \in Seq(Char) /\ Len(Lower(t)) = Len(t)
      /\ \A i \in 1 .. Len(t) : Lower(t)[i] = LowerCase[t[i]]
  BY <1>0, Lowered
<1>3. \A i \in 1 .. Len(t) : Lower(t)[i] = " " <=> t[i] = " "
  <2> TAKE i \in 1 .. Len(t)
  <2>1. t[i] \in Char
    BY <1>00
  <2>2. QED
    BY <1>2, <2>1, AnswerAssumption
<1>4. ASSUME Lower(t) # <<>> PROVE Lower(t)[1] # " " /\ Lower(t)[Len(t)] # " "
  <2>1. Len(t) # 0 /\ t # <<>>
    <3>1. Len(Lower(t)) # 0
      BY <1>2, <1>4
    <3>2. QED
      BY <1>0, <1>2, <3>1
  <2>2. 1 \in 1 .. Len(t) /\ Len(t) \in 1 .. Len(t)
    BY <1>00, <2>1
  <2>3. QED
    BY <1>1, <1>3, <2>1, <2>2
<1>5. ASSUME NEW i \in 1 .. Len(t) - 1 PROVE Lower(t)[i] # " " \/ Lower(t)[i + 1] # " "
  <2>1. i \in 1 .. Len(t) /\ i + 1 \in 1 .. Len(t)
    BY <1>00
  <2>2. QED
    BY <1>1, <1>3, <2>1
<1>6. QED
  BY <1>2, <1>4, <1>5 DEF Canonical

(* The texts of users and hints.                                            *)
LEMMA TextsAre ==
  ASSUME NEW text \in Text
  PROVE  text \in Seq(Char) /\ \A i \in 1 .. Len(text) : text[i] # "redacted"
<1>1. text \in Seq(Char \ {"redacted"})
  BY AnswerAssumption
<1>2. Char \ {"redacted"} \subseteq Char
  OBVIOUS
<1>3. QED
  BY <1>1, <1>2

(* Whatever the texts.                                                      *)
LEMMA RepeatsSeen == RepeatsAreSeen
<1> SUFFICES ASSUME NEW a \in Text, NEW b \in Text
             PROVE  SameQuestion(a, b) <=> SameWords(a, b)
  BY DEF RepeatsAreSeen
<1> DEFINE ca == Collapsed(a)
           cb == Collapsed(b)
<1>1. a \in Seq(Char) /\ b \in Seq(Char)
  BY TextsAre
<1>2. SameQuestion(a, b) <=> Lower(ca) = Lower(cb)
  BY DEF SameQuestion, validateQuestion
<1>3. SameWords(a, b) <=> LettersIn(a) = LettersIn(b)
  BY Zenon DEF SameWords, LettersIn
<1>4. PICK ga, na : IsCollapse(ca, ga, na, a)
  BY <1>1, CollapsedIs
<1>5. PICK gb, nb : IsCollapse(cb, gb, nb, b)
  BY <1>1, CollapsedIs
<1>6. Canonical(ca) /\ Canonical(cb)
  BY <1>1, <1>4, <1>5, CollapsedIsCanonical
<1>7. PICK fa, ma : Enumerates(fa, ma, Solid(a)) /\ LettersIn(a) = LettersOf(Lower(a), fa, ma)
  BY <1>1, LettersAre
<1>8. PICK fb, mb : Enumerates(fb, mb, Solid(b)) /\ LettersIn(b) = LettersOf(Lower(b), fb, mb)
  BY <1>1, LettersAre
<1>9. ca \in Seq(Char) /\ cb \in Seq(Char)
  BY <1>6 DEF Canonical
<1>10. PICK ha, la : Enumerates(ha, la, Solid(ca))
  BY <1>9, LettersAre
<1>11. PICK hb, lb : Enumerates(hb, lb, Solid(cb))
  BY <1>9, LettersAre
<1>12. LettersOf(Lower(ca), ha, la) = LettersIn(a)
  BY <1>1, <1>4, <1>7, <1>10, CollapsedHasItsLetters
<1>13. LettersOf(Lower(cb), hb, lb) = LettersIn(b)
  BY <1>1, <1>5, <1>8, <1>11, CollapsedHasItsLetters
<1>14. Canonical(Lower(ca)) /\ Canonical(Lower(cb))
  BY <1>6, LoweredCanonical
<1>15. Solid(Lower(ca)) = Solid(ca) /\ Solid(Lower(cb)) = Solid(cb)
  BY <1>9, Lowered
<1> HIDE DEF ca, cb
<1>16. ASSUME LettersIn(a) = LettersIn(b) PROVE Lower(ca) = Lower(cb)
  <2>1. LettersOf(Lower(ca), ha, la) = LettersOf(Lower(cb), hb, lb)
    BY <1>12, <1>13, <1>16, Zenon
  <2>2. Enumerates(ha, la, Solid(Lower(ca))) /\ Enumerates(hb, lb, Solid(Lower(cb)))
    BY <1>10, <1>11, <1>15, Zenon
  <2>3. QED
    BY <1>14, <2>1, <2>2, SpelledByLetters, Zenon
<1>17. ASSUME Lower(ca) = Lower(cb) PROVE LettersIn(a) = LettersIn(b)
  <2>1. Enumerates(hb, lb, Solid(ca)) /\ Solid(ca) \in SUBSET Int
    <3>1. Solid(ca) = Solid(cb)
      BY <1>15, <1>17, Zenon
    <3>2. Solid(ca) \in SUBSET (1 .. Len(ca))
      BY <1>9, Lowered
    <3>3. Len(ca) \in Nat
      BY <1>9
    <3>4. QED
      BY <1>11, <3>1, <3>2, <3>3
  <2>2. la = lb /\ \A k \in 1 .. la : ha[k] = hb[k]
    BY <1>10, <2>1, EnumeratedOnce
  <2>3. LettersOf(Lower(ca), ha, la) = LettersOf(Lower(ca), hb, lb)
    BY <2>2 DEF LettersOf
  <2>4. QED
    BY <1>12, <1>13, <1>17, <2>3, Zenon
<1>18. QED
  BY <1>2, <1>3, <1>16, <1>17 DEF ca, cb

(* The word target stands in text from its i-th character on.               *)
WordFrom(text, target, i) ==
  /\ i \in 1 .. Len(text) /\ i + Len(target) - 1 <= Len(text)
  /\ \A k \in 1 .. Len(target) :
       /\ LowerCase[text[i + k - 1]] = LowerCase[target[k]]
       /\ InWord(text, i + k - 1)
  /\ ~ InWord(text, i - 1) /\ ~ InWord(text, i + Len(target))

(* Equal in small letters, character by character.                          *)
LEMMA SameLetters ==
  ASSUME NEW text \in Seq(Char), NEW target \in Seq(Char), NEW i \in 1 .. Len(text),
         i + Len(target) - 1 <= Len(text)
  PROVE  Lower(SubSeq(text, i, i + Len(target) - 1)) = Lower(target) <=>
           \A k \in 1 .. Len(target) : LowerCase[text[i + k - 1]] = LowerCase[target[k]]
<1> DEFINE L == Len(target)
           part == SubSeq(text, i, i + L - 1)
<1>1. L \in Nat /\ Len(text) \in Nat /\ i \in Int /\ DOMAIN target = 1 .. L
  OBVIOUS
<1>2. /\ part \in Seq(Char) /\ Len(part) = L
      /\ \A k \in 1 .. L : part[k] = text[i + k - 1]
  BY <1>1
<1>3. DOMAIN part = 1 .. L
  BY <1>2
<1> HIDE DEF part, L
<1>4. Lower(part) = [k \in 1 .. L |-> LowerCase[part[k]]]
  BY <1>3, Zenon DEF Lower
<1>5. Lower(target) = [k \in 1 .. L |-> LowerCase[target[k]]]
  BY <1>1, Zenon DEF Lower
<1>6. ASSUME Lower(part) = Lower(target), NEW k \in 1 .. L
      PROVE  LowerCase[text[i + k - 1]] = LowerCase[target[k]]
  <2>1. Lower(part)[k] = LowerCase[part[k]] /\ Lower(target)[k] = LowerCase[target[k]]
    BY <1>4, <1>5
  <2>2. QED
    BY <1>2, <1>6, <2>1
<1>7. ASSUME \A k \in 1 .. L : LowerCase[text[i + k - 1]] = LowerCase[target[k]]
      PROVE  Lower(part) = Lower(target)
  <2>1. \A k \in 1 .. L : LowerCase[part[k]] = LowerCase[target[k]]
    BY <1>2, <1>7
  <2>2. QED
    BY <1>4, <1>5, <2>1
<1>8. QED
  BY <1>6, <1>7 DEF part, L

(* Secrets are words.                                                       *)
LEMMA SecretsAre ==
  ASSUME NEW target \in Secret
  PROVE  /\ target \in Seq(Char) /\ Len(target) \in Nat \ {0}
         /\ \A k \in 1 .. Len(target) : target[k] \in WordChar
<1>1. target \in Seq(WordChar) /\ target # <<>>
  BY AnswerAssumption
<1>2. WordChar \subseteq Char
  BY DEF Char
<1>3. \A k \in 1 .. Len(target) : target[k] \in WordChar
  BY <1>1
<1>4. Len(target) \in Nat \ {0}
  BY <1>1
<1>5. target \in Seq(Char)
  BY <1>1, <1>2
<1>6. QED
  BY <1>3, <1>4, <1>5

(* What the expression of redactSecret matches.                             *)
LEMMA MatchesAreWords ==
  ASSUME NEW text \in Seq(Char), NEW target \in Secret, NEW i \in 1 .. Len(text)
  PROVE  MatchAt(text, target, i) <=> WordFrom(text, target, i)
<1> DEFINE L == Len(target)
<1>1. /\ target \in Seq(Char) /\ L \in Nat \ {0}
      /\ \A k \in 1 .. L : target[k] \in WordChar
  BY SecretsAre
<1>2. /\ Len(text) \in Nat /\ i \in Int /\ DOMAIN text = 1 .. Len(text)
      /\ \A k \in 1 .. Len(text) : text[k] \in Char
  OBVIOUS
<1>3. /\ (i + L) - 1 = i + L - 1
      /\ MatchAt(text, target, i) <=>
           /\ i + L - 1 <= Len(text)
           /\ Lower(SubSeq(text, i, i + L - 1)) = Lower(target)
           /\ Boundary(text, i) /\ Boundary(text, i + L)
  BY <1>1, <1>2 DEF MatchAt
<1>4. i + L - 1 <= Len(text) =>
        (Lower(SubSeq(text, i, i + L - 1)) = Lower(target) <=>
           \A k \in 1 .. L : LowerCase[text[i + k - 1]] = LowerCase[target[k]])
  BY <1>1, SameLetters
<1> HIDE DEF L
<1>5. ASSUME i + L - 1 <= Len(text), NEW k \in 1 .. L,
             LowerCase[text[i + k - 1]] = LowerCase[target[k]]
      PROVE  InWord(text, i + k - 1)
  <2>1. i + k - 1 \in 1 .. Len(text)
    BY <1>1, <1>2, <1>5
  <2>2. text[i + k - 1] \in Char /\ target[k] \in WordChar /\ target[k] \in Char
    BY <1>1, <1>2, <2>1 DEF Char
  <2>3. LowerCase[target[k]] \in WordChar
    BY <2>2, AnswerAssumption
  <2>4. text[i + k - 1] \in WordChar
    BY <1>5, <2>2, <2>3, AnswerAssumption
  <2>5. QED
    BY <1>2, <2>1, <2>4 DEF InWord
<1>6. 1 \in 1 .. L /\ L \in 1 .. L /\ i + 1 - 1 = i /\ (i + L) - 1 = i + L - 1
  BY <1>1, <1>2
<1>7. ASSUME MatchAt(text, target, i) PROVE WordFrom(text, target, i)
  <2>1. /\ i + L - 1 <= Len(text)
        /\ \A k \in 1 .. L : LowerCase[text[i + k - 1]] = LowerCase[target[k]]
        /\ Boundary(text, i) /\ Boundary(text, i + L)
    BY <1>3, <1>4, <1>7
  <2>2. \A k \in 1 .. L : InWord(text, i + k - 1)
    BY <1>5, <2>1
  <2>3. InWord(text, i) /\ InWord(text, (i + L) - 1)
    <3>1. InWord(text, i + 1 - 1) /\ InWord(text, i + L - 1)
      BY <1>6, <2>2
    <3>2. QED
      BY <1>6, <3>1
  <2>4. ~ InWord(text, i - 1) /\ ~ InWord(text, i + L)
    <3>1. InWord(text, i - 1) # InWord(text, i)
      BY <2>1, Zenon DEF Boundary
    <3>2. InWord(text, (i + L) - 1) # InWord(text, i + L)
      BY <2>1, Zenon DEF Boundary
    <3>3. \A j : InWord(text, j) \in BOOLEAN
      BY Zenon DEF InWord
    <3>4. QED
      BY <2>3, <3>1, <3>2, <3>3
  <2>5. QED
    BY <2>1, <2>2, <2>4, Zenon DEF WordFrom, L
<1>8. ASSUME WordFrom(text, target, i) PROVE MatchAt(text, target, i)
  <2>1. /\ i + L - 1 <= Len(text)
        /\ \A k \in 1 .. L : LowerCase[text[i + k - 1]] = LowerCase[target[k]] /\ InWord(text, i + k - 1)
        /\ ~ InWord(text, i - 1) /\ ~ InWord(text, i + L)
    BY <1>8, Zenon DEF WordFrom, L
  <2>2. InWord(text, i) /\ InWord(text, (i + L) - 1)
    <3>1. InWord(text, i + 1 - 1) /\ InWord(text, i + L - 1)
      BY <1>6, <2>1
    <3>2. QED
      BY <1>6, <3>1
  <2>3. Boundary(text, i) /\ Boundary(text, i + L)
    BY <2>1, <2>2 DEF Boundary
  <2>4. QED
    BY <1>3, <1>4, <2>1, <2>3
<1>9. QED
  BY <1>7, <1>8

(* The positions at which the secret begins, and those it covers.           *)
Starts(text, target) == {i \in 1 .. Len(text) : WordFrom(text, target, i)}
Covered(text, target) ==
  {i \in 1 .. Len(text) : \E s \in Starts(text, target) : s <= i /\ i < s + Len(target)}

(* Matches are apart: between two of them is no word character.             *)
LEMMA CoveredAre ==
  ASSUME NEW text \in Seq(Char), NEW target \in Secret
  PROVE  /\ \A s \in Starts(text, target) :
              /\ s \in 1 .. Len(text) /\ s + Len(target) - 1 <= Len(text)
              /\ ~ InWord(text, s - 1) /\ ~ InWord(text, s + Len(target))
              /\ s \in Covered(text, target)
              /\ \A i \in s .. s + Len(target) - 1 :
                   i \in Covered(text, target) /\ InWord(text, i)
         /\ \A i \in Covered(text, target) :
              \E s \in Starts(text, target) : s <= i /\ i < s + Len(target)
         /\ \A s, r \in Starts(text, target) : s < r => s + Len(target) < r
<1> DEFINE N == Len(text)
           L == Len(target)
           B == Starts(text, target)
           C == Covered(text, target)
<1>1. N \in Nat /\ L \in Nat \ {0}
  BY SecretsAre
<1>2. ASSUME NEW s \in B
      PROVE  /\ s \in 1 .. N /\ s + L - 1 <= N /\ ~ InWord(text, s - 1) /\ ~ InWord(text, s + L)
             /\ \A k \in 1 .. L : InWord(text, s + k - 1)
  BY <1>2, Zenon DEF Starts, WordFrom
<1>3. \A i \in C : \E s \in B : s <= i /\ i < s + L
  BY Zenon DEF Covered
<1>4. \A i \in 1 .. N : (\E s \in B : s <= i /\ i < s + L) => i \in C
  BY Zenon DEF Covered
<1> HIDE DEF B, C, L, N
<1>5. ASSUME NEW s \in B, NEW i \in s .. s + L - 1
      PROVE  i \in C /\ InWord(text, i)
  <2>1. s \in 1 .. N /\ s + L - 1 <= N
    BY <1>2
  <2>2. i \in 1 .. N /\ s <= i /\ i < s + L /\ i - s + 1 \in 1 .. L /\ s + (i - s + 1) - 1 = i
    BY <1>1, <2>1
  <2>3. InWord(text, s + (i - s + 1) - 1)
    BY <1>2, <2>2
  <2>4. QED
    BY <1>4, <2>2, <2>3
<1>6. ASSUME NEW s \in B PROVE s \in C
  <2>1. s \in 1 .. N
    BY <1>2
  <2>2. s \in s .. s + L - 1
    BY <1>1, <2>1
  <2>3. QED
    BY <1>5, <2>2
<1>7. ASSUME NEW s \in B, NEW r \in B, s < r PROVE s + L < r
  <2>1. s \in 1 .. N /\ r \in 1 .. N /\ s \in Int /\ r \in Int
    BY <1>1, <1>2
  <2>2. SUFFICES ASSUME r <= s + L PROVE FALSE
    BY <1>1, <2>1
  <2>3. r # s + L
    <3>1. 1 \in 1 .. L
      BY <1>1
    <3>2. InWord(text, r + 1 - 1)
      BY <1>2, <3>1
    <3>3. r + 1 - 1 = r
      BY <2>1
    <3>4. InWord(text, r) /\ ~ InWord(text, s + L)
      BY <1>2, <3>2, <3>3
    <3>5. QED
      BY <3>4
  <2>4. r - 1 \in s .. s + L - 1
    BY <1>1, <1>7, <2>1, <2>2, <2>3
  <2>5. InWord(text, r - 1)
    BY <1>5, <2>4
  <2>6. QED
    BY <1>2, <2>5
<1>8. QED
  BY <1>2, <1>3, <1>5, <1>6, <1>7 DEF B, C, L, N

(* A list of what stands at some positions, one position more.              *)
LEMMA OneMorePicked ==
  ASSUME NEW S, NEW mark, NEW p \in Seq(Int), NEW x \in Int,
         mark[x] \in S, \A k \in 1 .. Len(p) : mark[p[k]] \in S
  PROVE  Append([k \in 1 .. Len(p) |-> mark[p[k]]], mark[x])
           = [k \in 1 .. Len(Append(p, x)) |-> mark[Append(p, x)[k]]]
<1> DEFINE n == Len(p)
           a == [k \in 1 .. n |-> mark[p[k]]]
           q == Append(p, x)
           b == [k \in 1 .. n + 1 |-> mark[q[k]]]
<1>1. n \in Nat /\ Len(q) = n + 1 /\ q[n + 1] = x /\ \A k \in 1 .. n : q[k] = p[k]
  OBVIOUS
<1>2. a \in Seq(S) /\ Len(a) = n /\ \A k \in 1 .. n : a[k] = mark[p[k]]
  BY <1>1
<1> HIDE DEF q, n
<1>3. \A k \in 1 .. n + 1 : b[k] = IF k = n + 1 THEN mark[x] ELSE mark[p[k]]
  BY <1>1
<1>4. b \in Seq(S) /\ Len(b) = n + 1
  <2>1. \A k \in 1 .. n + 1 : mark[q[k]] \in S
    <3> TAKE k \in 1 .. n + 1
    <3>1. k \in 1 .. n \/ k = n + 1
      BY <1>1
    <3>2. QED
      BY <1>1, <3>1 DEF n
  <2>2. QED
    BY <1>1, <2>1
<1> HIDE DEF a, b
<1>5. /\ Append(a, mark[x]) \in Seq(S) /\ Len(Append(a, mark[x])) = n + 1
      /\ \A k \in 1 .. n : Append(a, mark[x])[k] = a[k]
      /\ Append(a, mark[x])[n + 1] = mark[x]
  BY <1>2
<1>6. \A k \in 1 .. n + 1 : Append(a, mark[x])[k] = b[k]
  <2> TAKE k \in 1 .. n + 1
  <2>1. k \in 1 .. n \/ k = n + 1
    BY <1>1
  <2>2. ASSUME k \in 1 .. n PROVE Append(a, mark[x])[k] = b[k]
    <3>1. k # n + 1
      BY <1>1, <2>2
    <3>2. QED
      BY <1>2, <1>3, <1>5, <2>2, <3>1
  <2>3. QED
    BY <1>3, <1>5, <2>1, <2>2
<1>7. Append(a, mark[x]) = b
  BY <1>1, <1>4, <1>5, <1>6
<1>8. QED
  BY <1>1, <1>7 DEF a, b, q, n

(* What redactSecret does at one character.                                 *)
Redact(acc, i, hint, target) ==
  IF acc.skip > 0 THEN [acc EXCEPT !.skip = @ - 1]
  ELSE IF MatchAt(hint, target, i)
  THEN [out |-> Append(acc.out, "redacted"), skip |-> Len(target) - 1]
  ELSE [acc EXCEPT !.out = Append(@, hint[i])]

(* The states of its loop.                                                  *)
Redacts(d, hint, target) ==
  /\ d[0] = [out |-> <<>>, skip |-> 0]
  /\ \A j \in 1 .. Len(hint) : d[j] = Redact(d[j - 1], j, hint, target)
  /\ \A j \in 0 .. Len(hint) : d[j] \in [out : Seq(Char), skip : Nat]
  /\ redactSecret(hint, target) = d[Len(hint)].out

(* There are such states.                                                   *)
LEMMA RedactRuns ==
  ASSUME NEW hint \in Seq(Char), NEW target \in Secret
  PROVE  \E d : Redacts(d, hint, target)
<1> DEFINE n == Len(hint)
           T == [out : Seq(Char), skip : Nat]
           base == [out |-> <<>>, skip |-> 0]
           Pass(acc, i) == Redact(acc, i, hint, target)
           F == [i \in 1 .. n |-> [acc \in T |-> Pass(acc, i)]]
           Loop(g) == g = [i \in 0 .. n |-> IF i = 0 THEN base ELSE Pass(g[i - 1], i)]
           g0 == CHOOSE g : Loop(g)
<1>1. n \in Nat /\ \A i \in 1 .. n : hint[i] \in Char
  OBVIOUS
<1>2. redactSecret(hint, target) = g0[n].out
  BY DEF redactSecret, Redact
<1>3. base \in T
  OBVIOUS
<1>4. \A i \in 1 .. n : \A acc \in T : Pass(acc, i) \in T
  <2> TAKE i \in 1 .. n
  <2> TAKE acc \in T
  <2>1. acc.out \in Seq(Char) /\ acc.skip \in Nat /\ hint[i] \in Char
    BY <1>1
  <2>2. "redacted" \in Char /\ Len(target) - 1 \in Nat
    <3>1. "redacted" \in Char
      BY AnswerAssumption DEF Char
    <3>2. Len(target) \in Nat \ {0}
      BY SecretsAre
    <3>3. QED
      BY <3>1, <3>2
  <2>3. CASE acc.skip > 0
    <3>1. [acc EXCEPT !.skip = @ - 1] \in T
      BY <2>1, <2>3
    <3>2. QED
      BY <2>3, <3>1 DEF Redact
  <2>4. CASE ~ (acc.skip > 0) /\ MatchAt(hint, target, i)
    <3>1. Append(acc.out, "redacted") \in Seq(Char)
      BY <2>1, <2>2
    <3>2. [out |-> Append(acc.out, "redacted"), skip |-> Len(target) - 1] \in T
      BY <2>2, <3>1
    <3>3. QED
      BY <2>4, <3>2 DEF Redact
  <2>5. CASE ~ (acc.skip > 0) /\ ~ MatchAt(hint, target, i)
    <3>1. Append(acc.out, hint[i]) \in Seq(Char)
      BY <2>1
    <3>2. [acc EXCEPT !.out = Append(@, hint[i])] \in T
      BY <2>1, <3>1
    <3>3. QED
      BY <2>5, <3>2 DEF Redact
  <2>6. QED
    BY <2>3, <2>4, <2>5
<1> HIDE DEF n, base, T, Pass
<1>5. /\ F \in [1 .. n -> [T -> T]]
      /\ \A i \in 1 .. n : \A acc \in T : F[i][acc] = Pass(acc, i)
  BY <1>4
<1> HIDE DEF F
<1>6. PICK f \in [0 .. n -> T] : Rounds(f, base, n, F)
  BY <1>1, <1>3, <1>5, RoundsExist
<1>7. \A j \in 1 .. n : f[j] = Pass(f[j - 1], j)
  <2> TAKE j \in 1 .. n
  <2>1. j - 1 \in 0 .. n /\ f[j] = F[j][f[j - 1]]
    BY <1>1, <1>6 DEF Rounds
  <2>2. f[j - 1] \in T
    BY <2>1
  <2>3. QED
    BY <1>5, <2>1, <2>2
<1>8. f[0] = base
  BY <1>6 DEF Rounds
<1>9. Loop(f)
  <2>1. \A i \in 0 .. n : f[i] = IF i = 0 THEN base ELSE Pass(f[i - 1], i)
    <3> TAKE i \in 0 .. n
    <3>1. i = 0 \/ (i # 0 /\ i \in 1 .. n)
      BY <1>1
    <3>2. QED
      BY <1>7, <1>8, <3>1
  <2>2. f = [i \in 0 .. n |-> f[i]]
    OBVIOUS
  <2>3. QED
    BY <2>1, <2>2
<1>10. Loop(g0)
  <2> HIDE DEF Loop
  <2> QED BY <1>9
<1> HIDE DEF g0
<1>11. /\ g0[0] = base
       /\ \A j \in 1 .. n : g0[j] = Pass(g0[j - 1], j)
  <2>1. 0 \in 0 .. n /\ \A j \in 1 .. n : j \in 0 .. n /\ j # 0
    BY <1>1
  <2>2. QED
    BY <1>10, <2>1
<1> HIDE DEF Loop
<1>12. \A i \in 0 .. n : g0[i] \in T
  <2>1. g0[0] \in T
    BY <1>3, <1>11
  <2>2. \A j \in 1 .. n : g0[j - 1] \in T => g0[j] \in T
    BY <1>4, <1>11
  <2>3. QED
    BY <1>1, <2>1, <2>2, Steps
<1>13. QED
  BY <1>2, <1>11, <1>12 DEF Redacts, n, base, T, Pass

(* Where redactSecret puts a character: not inside of a match.              *)
Visible(hint, target) ==
  {i \in 1 .. Len(hint) : i \notin Covered(hint, target) \/ i \in Starts(hint, target)}

(* What it puts there.                                                      *)
Mark(hint, target) ==
  [i \in 1 .. Len(hint) |-> IF i \in Starts(hint, target) THEN "redacted" ELSE hint[i]]

(* The loop after j characters, p being the visible positions among them.   *)
RedactedSoFar(acc, j, p, hint, target) ==
  /\ acc.out = [k \in 1 .. Len(p) |-> Mark(hint, target)[p[k]]]
  /\ j \notin Covered(hint, target) => acc.skip = 0
  /\ \A s \in Starts(hint, target) :
       s <= j /\ j < s + Len(target) => acc.skip = s + Len(target) - 1 - j

(* A round of the loop keeps that up.                                       *)
LEMMA OneMoreRedacted ==
  ASSUME NEW hint \in Seq(Char), NEW target \in Secret, NEW j \in 1 .. Len(hint),
         NEW p \in Seq(Int), \A k \in 1 .. Len(p) : p[k] \in 1 .. Len(hint),
         NEW acc \in [out : Seq(Char), skip : Nat],
         RedactedSoFar(acc, j - 1, p, hint, target)
  PROVE  RedactedSoFar(Redact(acc, j, hint, target), j,
                       IF j \in Visible(hint, target) THEN Append(p, j) ELSE p, hint, target)
<1> DEFINE N == Len(hint)
           L == Len(target)
           B == Starts(hint, target)
           C == Covered(hint, target)
           V == Visible(hint, target)
           mark == Mark(hint, target)
           new == Redact(acc, j, hint, target)
           out(q) == [k \in 1 .. Len(q) |-> mark[q[k]]]
<1>1. /\ N \in Nat /\ L \in Nat \ {0} /\ j \in Int
      /\ \A i \in 1 .. N : hint[i] \in Char
  BY SecretsAre
<1>2. /\ \A s \in B : s \in 1 .. N /\ s \in C
      /\ \A s \in B : \A i \in s .. s + L - 1 : i \in C
      /\ \A i \in C : \E s \in B : s <= i /\ i < s + L
      /\ \A s, r \in B : s < r => s + L < r
  BY CoveredAre
<1>3. MatchAt(hint, target, j) <=> j \in B
  BY MatchesAreWords DEF Starts
<1>4. j \in V <=> j \notin C \/ j \in B
  BY DEF Visible
<1>5. \A i \in 1 .. N : mark[i] = IF i \in B THEN "redacted" ELSE hint[i]
  BY DEF Mark
<1>6. "redacted" \in Char
  BY AnswerAssumption DEF Char
<1>7. /\ acc.out = out(p) /\ acc.skip \in Nat
      /\ j - 1 \notin C => acc.skip = 0
      /\ \A s \in B : s <= j - 1 /\ j - 1 < s + L => acc.skip = s + L - 1 - (j - 1)
  BY DEF RedactedSoFar
<1>8. \A i \in 1 .. N : mark[i] \in Char
  BY <1>1, <1>5, <1>6
<1>9. Append(out(p), mark[j]) = out(Append(p, j))
  <2>1. mark[j] \in Char /\ \A k \in 1 .. Len(p) : mark[p[k]] \in Char
    BY <1>8
  <2> HIDE DEF mark
  <2>2. QED
    BY <1>1, <2>1, OneMorePicked
<1> HIDE DEF B, C, V, L, mark, N
<1>10. ASSUME NEW s \in B, s <= j, j < s + L, NEW r \in B, r <= j, j < r + L PROVE s = r
  <2>1. s \in Int /\ r \in Int
    BY <1>1, <1>2
  <2>2. s < r \/ r < s \/ s = r
    BY <2>1
  <2>3. QED
    BY <1>1, <1>2, <1>10, <2>1, <2>2
<1>11. CASE acc.skip > 0
  <2>1. new.out = acc.out /\ new.skip = acc.skip - 1
    BY <1>7, <1>11 DEF Redact
  <2>2. PICK s \in B : s <= j - 1 /\ j - 1 < s + L
    BY <1>2, <1>7, <1>11
  <2>3. s \in Int /\ acc.skip = s + L - j
    BY <1>1, <1>2, <1>7, <2>2
  <2>4. s <= j /\ j < s + L /\ s # j /\ j \in s .. s + L - 1
    BY <1>1, <1>11, <2>2, <2>3
  <2>5. j \in C /\ j \notin B
    <3>1. j \in C
      BY <1>2, <2>4
    <3>2. SUFFICES ASSUME j \in B PROVE FALSE
      BY <3>1
    <3>3. s + L < j
      BY <1>1, <1>2, <2>3, <2>4, <3>2
    <3>4. QED
      BY <1>1, <2>3, <2>4, <3>3
  <2>6. j \notin V
    BY <1>4, <2>5
  <2>7. new.skip = s + L - 1 - j
    BY <1>1, <2>1, <2>3
  <2>8. \A r \in B : r <= j /\ j < r + L => new.skip = r + L - 1 - j
    BY <1>10, <2>4, <2>7
  <2>9. QED
    BY <1>7, <2>1, <2>5, <2>6, <2>8 DEF RedactedSoFar, B, C, V, L, mark
<1>12. CASE ~ (acc.skip > 0) /\ j \in B
  <2>1. new = [out |-> Append(acc.out, "redacted"), skip |-> L - 1]
    BY <1>3, <1>12 DEF Redact, L
  <2>2. new.out = Append(acc.out, "redacted") /\ new.skip = L - 1
    BY <2>1
  <2>3. mark[j] = "redacted"
    BY <1>5, <1>12 DEF N
  <2>4. new.out = out(Append(p, j))
    BY <1>7, <1>9, <2>2, <2>3
  <2>5. j \in C /\ j \in V
    BY <1>2, <1>4, <1>12
  <2>6. j <= j /\ j < j + L /\ L - 1 = j + L - 1 - j
    BY <1>1
  <2>7. \A r \in B : r <= j /\ j < r + L => new.skip = r + L - 1 - j
    <3> TAKE r \in B
    <3> HAVE r <= j /\ j < r + L
    <3>1. r = j
      BY <1>10, <1>12, <2>6
    <3>2. QED
      BY <2>2, <2>6, <3>1
  <2>8. QED
    BY <2>4, <2>5, <2>7 DEF RedactedSoFar, B, C, V, L, mark
<1>13. CASE ~ (acc.skip > 0) /\ j \notin B
  <2>1. new = [acc EXCEPT !.out = Append(@, hint[j])]
    BY <1>3, <1>13 DEF Redact
  <2>2. new.out = Append(acc.out, hint[j]) /\ new.skip = acc.skip /\ acc.skip = 0
    BY <1>7, <1>13, <2>1
  <2>3. j \notin C
    <3>1. SUFFICES ASSUME j \in C PROVE FALSE
      OBVIOUS
    <3>2. PICK s \in B : s <= j /\ j < s + L
      BY <1>2, <3>1
    <3>3. s \in Int /\ s # j
      BY <1>1, <1>2, <1>13, <3>2
    <3>4. s <= j - 1 /\ j - 1 < s + L
      BY <1>1, <3>2, <3>3
    <3>5. acc.skip = s + L - 1 - (j - 1)
      BY <1>7, <3>4
    <3>6. QED
      BY <1>1, <2>2, <3>2, <3>3, <3>5
  <2>4. mark[j] = hint[j]
    BY <1>5, <1>13 DEF N
  <2>5. new.out = out(Append(p, j))
    BY <1>7, <1>9, <2>2, <2>4
  <2>6. j \in V
    BY <1>4, <2>3
  <2>7. \A r \in B : ~ (r <= j /\ j < r + L)
    <3>1. SUFFICES ASSUME NEW r \in B, r <= j, j < r + L PROVE FALSE
      OBVIOUS
    <3>2. r \in Int
      BY <1>1, <1>2
    <3>3. j \in r .. r + L - 1
      BY <1>1, <3>1, <3>2
    <3>4. QED
      BY <1>2, <2>3, <3>3
  <2>8. QED
    BY <2>2, <2>5, <2>6, <2>7 DEF RedactedSoFar, B, C, V, L, mark
<1>14. QED
  BY <1>11, <1>12, <1>13

(* What redactSecret shows, position by position.                           *)
IsRedaction(shown, v, m, hint, target) ==
  /\ Enumerates(v, m, Visible(hint, target))
  /\ shown \in Seq(Char) /\ Len(shown) = m
  /\ \A k \in 1 .. m : shown[k] = Mark(hint, target)[v[k]]

(* Whatever the hint.                                                       *)
LEMMA RedactedIs ==
  ASSUME NEW hint \in Seq(Char), NEW target \in Secret
  PROVE  \E v, m : IsRedaction(redactSecret(hint, target), v, m, hint, target)
<1> DEFINE N == Len(hint)
           V == Visible(hint, target)
           l == [i \in 1 .. N |-> i]
           v == Keeping(l, V)
           T == [out : Seq(Char), skip : Nat]
<1>1. N \in Nat /\ V \in SUBSET (1 .. N) /\ V \cap (1 .. N) = V
  BY DEF Visible
<1>2. l \in Seq(Int) /\ Len(l) = N /\ \A i \in 1 .. N : l[i] = i
  OBVIOUS
<1>3. PICK d : Redacts(d, hint, target)
  BY RedactRuns
<1>4. /\ d[0] = [out |-> <<>>, skip |-> 0]
      /\ \A j \in 1 .. N : d[j] = Redact(d[j - 1], j, hint, target)
      /\ \A j \in 0 .. N : d[j] \in T
      /\ redactSecret(hint, target) = d[N].out
  BY <1>3, Zenon DEF Redacts
<1>5. Enumerates(v, Len(v), V)
  BY <1>1, EnumeratedList
<1> HIDE DEF V, l, N
<1>6. PICK h : Keeps(h, Int, l, V)
  BY <1>2, KeepingRuns
<1>7. /\ h \in [0 .. N -> Seq(Int)] /\ h[0] = <<>>
      /\ \A j \in 1 .. N : h[j] = IF l[j] \in V THEN Append(h[j - 1], l[j]) ELSE h[j - 1]
      /\ v = h[N]
  BY <1>2, <1>6 DEF Keeps
<1> HIDE DEF v, T
<1> DEFINE Good(j) == /\ \A k \in 1 .. Len(h[j]) : h[j][k] \in 1 .. N
                      /\ RedactedSoFar(d[j], j, h[j], hint, target)
           D == {j \in 0 .. N : Good(j)}
           g == [j \in 0 .. N |-> j]
<1>8. \A j \in 0 .. N : g[j] = j
  OBVIOUS
<1> HIDE DEF g
<1>9. g[0] \in D
  <2>1. 0 \in 0 .. N /\ g[0] = 0
    BY <1>1, <1>8
  <2>2. Len(h[0]) = 0
    BY <1>7
  <2>3. d[0].out = <<>> /\ d[0].skip = 0
    BY <1>4
  <2>4. \A s \in Starts(hint, target) : ~ (s <= 0)
    BY DEF Starts
  <2>5. [k \in 1 .. Len(h[0]) |-> Mark(hint, target)[h[0][k]]] = <<>>
    BY <2>2
  <2>6. RedactedSoFar(d[0], 0, h[0], hint, target)
    BY <2>3, <2>4, <2>5 DEF RedactedSoFar
  <2>7. \A k \in 1 .. Len(h[0]) : h[0][k] \in 1 .. N
    BY <2>2
  <2>8. QED
    BY <2>1, <2>6, <2>7
<1>10. ASSUME NEW j \in 1 .. N, g[j - 1] \in D PROVE g[j] \in D
  <2>1. j \in 0 .. N /\ j - 1 \in 0 .. N /\ j \in Int
    BY <1>1
  <2>2. g[j] = j /\ Good(j - 1)
    BY <1>8, <1>10, <2>1
  <2>3. h[j] = IF j \in V THEN Append(h[j - 1], j) ELSE h[j - 1]
    BY <1>2, <1>7
  <2>4. h[j - 1] \in Seq(Int) /\ d[j - 1] \in T /\ d[j] = Redact(d[j - 1], j, hint, target)
    BY <1>4, <1>7, <2>1
  <2>5. RedactedSoFar(d[j], j, IF j \in V THEN Append(h[j - 1], j) ELSE h[j - 1], hint, target)
    <3>1. /\ j \in 1 .. Len(hint) /\ d[j - 1] \in [out : Seq(Char), skip : Nat]
          /\ \A k \in 1 .. Len(h[j - 1]) : h[j - 1][k] \in 1 .. Len(hint)
          /\ RedactedSoFar(d[j - 1], j - 1, h[j - 1], hint, target)
      BY <2>2, <2>4 DEF N, T
    <3>2. RedactedSoFar(Redact(d[j - 1], j, hint, target), j,
            IF j \in Visible(hint, target) THEN Append(h[j - 1], j) ELSE h[j - 1], hint, target)
      BY <2>4, <3>1, OneMoreRedacted, Zenon
    <3>3. QED
      BY <2>4, <3>2, Zenon DEF V
  <2>6. RedactedSoFar(d[j], j, h[j], hint, target)
    BY <2>3, <2>5, Zenon
  <2>7. \A k \in 1 .. Len(h[j]) : h[j][k] \in 1 .. N
    <3>1. CASE j \in V
      <4>1. h[j] = Append(h[j - 1], j)
        BY <2>3, <3>1
      <4>2. \A k \in 1 .. Len(h[j - 1]) : h[j - 1][k] \in 1 .. N
        BY <2>2
      <4>3. QED
        BY <2>4, <4>1, <4>2
    <3>2. CASE j \notin V
      <4>1. h[j] = h[j - 1]
        BY <2>3, <3>2
      <4>2. QED
        BY <2>2, <4>1
    <3>3. QED
      BY <3>1, <3>2
  <2>8. QED
    BY <2>1, <2>2, <2>6, <2>7
<1>11. \A j \in 0 .. N : g[j] \in D
  <2> HIDE DEF D
  <2> QED BY <1>1, <1>9, <1>10, Steps
<1>12. N \in 0 .. N
  BY <1>1
<1>13. RedactedSoFar(d[N], N, v, hint, target)
  BY <1>7, <1>8, <1>11, <1>12
<1> DEFINE shown == redactSecret(hint, target)
<1>14. shown = [k \in 1 .. Len(v) |-> Mark(hint, target)[v[k]]]
  BY <1>4, <1>13 DEF RedactedSoFar
<1>15. shown \in Seq(Char)
  BY <1>4, <1>12 DEF T
<1> HIDE DEF shown
<1>16. Len(v) \in Nat
  BY <1>5 DEF Enumerates
<1>17. Len(shown) = Len(v) /\ \A k \in 1 .. Len(v) : shown[k] = Mark(hint, target)[v[k]]
  BY <1>14, <1>15, <1>16
<1>18. IsRedaction(shown, v, Len(v), hint, target)
  BY <1>5, <1>15, <1>17 DEF IsRedaction, V
<1>19. QED
  BY <1>18 DEF shown

(* The i-th character belongs to a word that is the secret.                 *)
NamedAt(hint, target, i) ==
  \E j \in DOMAIN hint :
    /\ WordAt(hint, i) = j .. j + Len(target) - 1
    /\ Lower(SubSeq(hint, j, j + Len(target) - 1)) = Lower(target)

(* These are the characters that matches cover.                             *)
LEMMA NamedAreCovered ==
  ASSUME NEW hint \in Seq(Char), NEW target \in Secret, NEW i \in 1 .. Len(hint)
  PROVE  NamedAt(hint, target, i) <=> i \in Covered(hint, target)
<1> DEFINE N == Len(hint)
           L == Len(target)
           B == Starts(hint, target)
           C == Covered(hint, target)
           W == WordAt(hint, i)
<1>1. N \in Nat /\ L \in Nat \ {0} /\ i \in Int /\ DOMAIN hint = 1 .. N
  BY SecretsAre
<1>2. /\ \A s \in B : s \in 1 .. N /\ s + L - 1 <= N /\ ~ InWord(hint, s - 1) /\ ~ InWord(hint, s + L)
      /\ \A s \in B : \A k \in s .. s + L - 1 : k \in C /\ InWord(hint, k)
      /\ \A k \in C : \E s \in B : s <= k /\ k < s + L
  BY CoveredAre
<1>3. W = {j \in 1 .. N : \A k \in 1 .. N :
             (i <= k /\ k <= j) \/ (j <= k /\ k <= i) => InWord(hint, k)}
  BY <1>1, Zenon DEF WordAt
<1>4. \A k \in 1 .. N : WordFrom(hint, target, k) <=> k \in B
  BY Zenon DEF Starts
<1>5. target \in Seq(Char)
  BY SecretsAre
<1>6. \A k : InWord(hint, k) => k \in 1 .. N
  BY <1>1, Zenon DEF InWord
<1>7. ASSUME i \in C PROVE NamedAt(hint, target, i)
  <2>1. PICK s \in B : s <= i /\ i < s + L
    BY <1>2, <1>7
  <2>2. /\ s \in 1 .. N /\ s \in Int /\ s + L - 1 <= N
        /\ ~ InWord(hint, s - 1) /\ ~ InWord(hint, s + L)
        /\ \A k \in s .. s + L - 1 : InWord(hint, k)
    <3>1. s \in 1 .. N
      BY <1>2
    <3>2. s \in Int
      BY <1>1, <3>1
    <3>3. QED
      BY <1>2, <3>1, <3>2
  <2> HIDE DEF N, L, B, C, W
  <2>3. ASSUME NEW j \in s .. s + L - 1 PROVE j \in W
    <3>1. j \in 1 .. N
      BY <1>1, <2>2
    <3>2. ASSUME NEW k \in 1 .. N, (i <= k /\ k <= j) \/ (j <= k /\ k <= i)
          PROVE  InWord(hint, k)
      <4>1. k \in s .. s + L - 1
        BY <1>1, <2>1, <2>2, <3>2
      <4>2. QED
        BY <2>2, <4>1
    <3>3. QED
      BY <1>3, <3>1, <3>2
  <2>4. ASSUME NEW j \in W PROVE j \in s .. s + L - 1
    <3>1. /\ j \in 1 .. N
          /\ \A k \in 1 .. N : (i <= k /\ k <= j) \/ (j <= k /\ k <= i) => InWord(hint, k)
      BY <1>3, <2>4
    <3>2. ~ (j < s)
      <4>1. SUFFICES ASSUME j < s PROVE FALSE
        OBVIOUS
      <4>2. s - 1 \in 1 .. N /\ j <= s - 1 /\ s - 1 <= i
        BY <1>1, <2>1, <2>2, <3>1, <4>1
      <4>3. QED
        BY <2>2, <3>1, <4>2
    <3>3. ~ (j > s + L - 1)
      <4>1. SUFFICES ASSUME j > s + L - 1 PROVE FALSE
        OBVIOUS
      <4>2. s + L \in 1 .. N /\ i <= s + L /\ s + L <= j
        BY <1>1, <2>1, <2>2, <3>1, <4>1
      <4>3. QED
        BY <2>2, <3>1, <4>2
    <3>4. QED
      BY <1>1, <2>2, <3>1, <3>2, <3>3
  <2>5. W = s .. s + L - 1
    BY <2>3, <2>4
  <2>6. WordFrom(hint, target, s)
    BY <1>4, <2>2
  <2>7. \A k \in 1 .. L : LowerCase[hint[s + k - 1]] = LowerCase[target[k]]
    BY <2>6 DEF WordFrom, L
  <2>8. Lower(SubSeq(hint, s, s + L - 1)) = Lower(target)
    BY <1>5, <2>2, <2>7, SameLetters DEF L, N
  <2>9. s \in DOMAIN hint
    BY <1>1, <2>2
  <2>10. QED
    BY <2>5, <2>8, <2>9, Zenon DEF NamedAt, W, L
<1>8. ASSUME NamedAt(hint, target, i) PROVE i \in C
  <2>1. PICK j \in 1 .. N : W = j .. j + L - 1 /\ Lower(SubSeq(hint, j, j + L - 1)) = Lower(target)
    BY <1>1, <1>8, Zenon DEF NamedAt
  <2> HIDE DEF N, L, B, C, W
  <2>2. j \in Int /\ j \in W /\ j + L - 1 \in W
    BY <1>1, <2>1
  <2>3. \A x \in W : /\ x \in 1 .. N
                     /\ \A k \in 1 .. N : (i <= k /\ k <= x) \/ (x <= k /\ k <= i) => InWord(hint, k)
    BY <1>3
  <2>4. InWord(hint, i)
    BY <1>1, <2>2, <2>3
  <2>5. i \in W
    <3>1. \A k \in 1 .. N : (i <= k /\ k <= i) \/ (i <= k /\ k <= i) => InWord(hint, k)
      <4> TAKE k \in 1 .. N
      <4> HAVE (i <= k /\ k <= i) \/ (i <= k /\ k <= i)
      <4>1. k = i
        BY <1>1
      <4>2. QED
        BY <2>4, <4>1
    <3>2. i \in 1 .. N
      BY DEF N
    <3>3. QED
      BY <1>3, <3>1, <3>2
  <2>6. j <= i /\ i < j + L /\ j + L - 1 \in 1 .. N
    BY <1>1, <2>1, <2>2, <2>3, <2>5
  <2>7. \A k \in j .. j + L - 1 : InWord(hint, k)
    <3> TAKE k \in j .. j + L - 1
    <3>1. k \in 1 .. N
      BY <1>1, <2>2, <2>6
    <3>2. k \in W
      BY <2>1
    <3>3. (i <= k /\ k <= k) \/ (k <= k /\ k <= i)
      BY <1>1, <3>1
    <3>4. QED
      BY <2>3, <3>1, <3>2, <3>3
  <2>8. ~ InWord(hint, j - 1)
    <3>1. SUFFICES ASSUME InWord(hint, j - 1) PROVE FALSE
      OBVIOUS
    <3>2. j - 1 \in 1 .. N
      BY <1>6, <3>1
    <3>3. ASSUME NEW k \in 1 .. N, (i <= k /\ k <= j - 1) \/ (j - 1 <= k /\ k <= i)
          PROVE  InWord(hint, k)
      <4>1. k = j - 1 \/ k \in j .. j + L - 1
        BY <1>1, <2>2, <2>6, <3>3
      <4>2. QED
        BY <2>7, <3>1, <4>1
    <3>4. j - 1 \in W
      BY <1>3, <3>2, <3>3
    <3>5. QED
      BY <1>1, <2>1, <2>2, <3>4
  <2>9. ~ InWord(hint, j + L)
    <3>1. SUFFICES ASSUME InWord(hint, j + L) PROVE FALSE
      OBVIOUS
    <3>2. j + L \in 1 .. N
      BY <1>6, <3>1
    <3>3. ASSUME NEW k \in 1 .. N, (i <= k /\ k <= j + L) \/ (j + L <= k /\ k <= i)
          PROVE  InWord(hint, k)
      <4>1. k = j + L \/ k \in j .. j + L - 1
        BY <1>1, <2>2, <2>6, <3>3
      <4>2. QED
        BY <2>7, <3>1, <4>1
    <3>4. j + L \in W
      BY <1>3, <3>2, <3>3
    <3>5. QED
      BY <1>1, <2>1, <2>2, <3>4
  <2>10. \A k \in 1 .. L : LowerCase[hint[j + k - 1]] = LowerCase[target[k]]
    <3>1. j \in 1 .. Len(hint) /\ j + Len(target) - 1 <= Len(hint)
      BY <1>1, <2>6 DEF L, N
    <3>2. QED
      BY <1>5, <2>1, <3>1, SameLetters DEF L
  <2>11. \A k \in 1 .. L : InWord(hint, j + k - 1)
    <3> TAKE k \in 1 .. L
    <3>1. j + k - 1 \in j .. j + L - 1
      BY <1>1, <2>2
    <3>2. QED
      BY <2>7, <3>1
  <2>12. j + L - 1 <= N
    BY <1>1, <2>6
  <2>13. WordFrom(hint, target, j)
    BY <2>8, <2>9, <2>10, <2>11, <2>12, Zenon DEF WordFrom, L, N
  <2>14. j \in B /\ i \in j .. j + L - 1
    BY <1>1, <1>4, <2>2, <2>6, <2>13
  <2>15. QED
    BY <1>2, <2>14
<1>9. QED
  BY <1>7, <1>8

(* What is neither covered nor put in the place of a word.                  *)
LEMMA ShownAre ==
  ASSUME NEW hint \in Seq(Char), NEW target \in Secret,
         \A i \in 1 .. Len(hint) : hint[i] # "redacted",
         NEW shown, NEW v, NEW m, IsRedaction(shown, v, m, hint, target)
  PROVE  \A k \in 1 .. m :
           /\ v[k] \in 1 .. Len(hint) /\ v[k] \in Visible(hint, target)
           /\ shown[k] = "redacted" <=> v[k] \in Covered(hint, target)
           /\ v[k] \notin Covered(hint, target) => shown[k] = hint[v[k]]
<1> TAKE k \in 1 .. m
<1>1. v[k] \in Visible(hint, target) /\ shown[k] = Mark(hint, target)[v[k]]
  BY DEF IsRedaction, Enumerates
<1>2. /\ v[k] \in 1 .. Len(hint)
      /\ v[k] \notin Covered(hint, target) \/ v[k] \in Starts(hint, target)
  BY <1>1 DEF Visible
<1>3. v[k] \in Starts(hint, target) <=> v[k] \in Covered(hint, target)
  BY <1>2, CoveredAre
<1>4. shown[k] = IF v[k] \in Starts(hint, target) THEN "redacted" ELSE hint[v[k]]
  BY <1>1, <1>2, Zenon DEF Mark
<1>5. QED
  BY <1>1, <1>2, <1>3, <1>4

(* Taking words out makes no new one.                                       *)
LEMMA NothingNamed ==
  ASSUME NEW hint \in Seq(Char), NEW target \in Secret,
         \A i \in 1 .. Len(hint) : hint[i] # "redacted",
         NEW shown, NEW v, NEW m, IsRedaction(shown, v, m, hint, target),
         NEW i \in 1 .. m
  PROVE  ~ MatchAt(shown, target, i)
<1> DEFINE N == Len(hint)
           L == Len(target)
           B == Starts(hint, target)
           C == Covered(hint, target)
           V == Visible(hint, target)
<1>1. N \in Nat /\ L \in Nat \ {0} /\ i \in Int
  BY SecretsAre
<1>2. /\ \A s \in B : s \in 1 .. N /\ ~ InWord(hint, s - 1) /\ ~ InWord(hint, s + L)
      /\ \A s \in B : \A k \in s .. s + L - 1 : k \in C
      /\ \A k \in C : \E s \in B : s <= k /\ k < s + L
  BY CoveredAre
<1>3. \A k \in 1 .. m : /\ v[k] \in 1 .. N /\ v[k] \in V
                        /\ shown[k] = "redacted" <=> v[k] \in C
                        /\ v[k] \notin C => shown[k] = hint[v[k]]
  BY ShownAre
<1>4. Enumerates(v, m, V) /\ V \in SUBSET Int /\ m \in Nat
      /\ \A j, k \in 1 .. m : j < k => v[j] < v[k]
  BY DEF IsRedaction, Enumerates, Visible
<1>5. \A k \in 1 .. m : \A p \in V : /\ p < v[k] => k > 1 /\ p <= v[k - 1]
                                     /\ p > v[k] => k < m /\ p >= v[k + 1]
  BY <1>4, NothingBetween
<1>6. \A k \in 1 .. N : k \in V <=> k \notin C \/ k \in B
  BY DEF Visible
<1>7. "redacted" \notin WordChar
  BY AnswerAssumption
<1>8. /\ \A k \in 1 .. m : InWord(shown, k) <=> shown[k] \in WordChar
      /\ \A k \in 1 .. N : InWord(hint, k) <=> hint[k] \in WordChar
      /\ \A k : InWord(hint, k) => k \in 1 .. N
  <2>1. DOMAIN shown = 1 .. m /\ DOMAIN hint = 1 .. N
    BY DEF IsRedaction
  <2>2. QED
    BY <2>1, Zenon DEF InWord
<1>9. /\ shown \in Seq(Char) /\ Len(shown) = m
  BY DEF IsRedaction
<1>10. SUFFICES ASSUME WordFrom(shown, target, i) PROVE FALSE
  BY <1>9, MatchesAreWords
<1>11. /\ i + L - 1 <= m
       /\ \A k \in 1 .. L : /\ LowerCase[shown[i + k - 1]] = LowerCase[target[k]]
                            /\ InWord(shown, i + k - 1)
       /\ ~ InWord(shown, i - 1) /\ ~ InWord(shown, i + L)
  BY <1>9, <1>10, Zenon DEF WordFrom
<1>12. \A k \in 1 .. N : MatchAt(hint, target, k) <=> k \in B
  BY MatchesAreWords DEF Starts
<1>13. \A k \in 1 .. N : WordFrom(hint, target, k) => k \in B
  BY Zenon DEF Starts
<1> HIDE DEF N, L, B, C, V
<1>14. \A j, k \in 1 .. m : j < k => v[j] < v[k]
  BY <1>4
<1>15. \A k \in 1 .. L : /\ i + k - 1 \in 1 .. m /\ v[i + k - 1] \notin C
                         /\ shown[i + k - 1] = hint[v[i + k - 1]]
                         /\ InWord(hint, v[i + k - 1]) /\ v[i + k - 1] \in 1 .. N
  <2> TAKE k \in 1 .. L
  <2>1. i + k - 1 \in 1 .. m
    BY <1>1, <1>4, <1>11
  <2>2. shown[i + k - 1] \in WordChar
    BY <1>8, <1>11, <2>1
  <2>3. v[i + k - 1] \notin C
    BY <1>3, <1>7, <2>1, <2>2
  <2>4. shown[i + k - 1] = hint[v[i + k - 1]] /\ v[i + k - 1] \in 1 .. N
    BY <1>3, <2>1, <2>3
  <2>5. InWord(hint, v[i + k - 1])
    BY <1>8, <2>2, <2>4
  <2>6. QED
    BY <2>1, <2>3, <2>4, <2>5
(* A position next to one of them is shown next to it.                      *)
<1>16. ASSUME NEW p \in 1 .. N, NEW k \in 1 .. m, v[k] \notin C, InWord(hint, v[k]),
              p = v[k] + 1 \/ p = v[k] - 1, InWord(hint, p)
       PROVE  p \notin C /\ p \in V
  <2>1. v[k] \in 1 .. N /\ v[k] \in Int /\ p \in Int
    BY <1>1, <1>3
  <2>2. p \notin C
    <3>1. SUFFICES ASSUME p \in C PROVE FALSE
      OBVIOUS
    <3>2. PICK s \in B : s <= p /\ p < s + L
      BY <1>2, <3>1
    <3>3. s \in Int
      BY <1>1, <1>2
    <3>4. v[k] \notin s .. s + L - 1
      BY <1>2, <1>16
    <3>5. v[k] = s - 1 \/ v[k] = s + L
      BY <1>1, <1>16, <2>1, <3>2, <3>3, <3>4
    <3>6. QED
      BY <1>2, <1>16, <3>5
  <2>3. QED
    BY <1>6, <2>2
<1>17. \A k \in 1 .. L : v[i + k - 1] = v[i] + k - 1
  <2> DEFINE D == {j \in 0 .. L - 1 : v[i + j] = v[i] + j}
             g == [j \in 0 .. L - 1 |-> j]
  <2>1. \A j \in 0 .. L - 1 : g[j] = j
    OBVIOUS
  <2> HIDE DEF g
  <2>2. v[i] \in Int /\ \A j \in 0 .. L - 1 : i + j \in 1 .. m /\ v[i + j] \in 1 .. N /\ v[i + j] \in Int
    <3>1. \A j \in 0 .. L - 1 : i + j \in 1 .. m
      BY <1>1, <1>4, <1>11
    <3>2. \A j \in 0 .. L - 1 : v[i + j] \in 1 .. N
      BY <1>3, <3>1
    <3>3. v[i] \in 1 .. N
      BY <1>3
    <3>4. \A x \in 1 .. N : x \in Int
      BY <1>1
    <3>5. QED
      BY <3>1, <3>2, <3>3, <3>4, Zenon
  <2>3. g[0] \in D
    <3>1. 0 \in 0 .. L - 1 /\ i + 0 = i
      BY <1>1
    <3>2. v[i] + 0 = v[i]
      BY <2>2
    <3>3. QED
      BY <2>1, <3>1, <3>2
  <2>4. ASSUME NEW j \in 1 .. L - 1, g[j - 1] \in D PROVE g[j] \in D
    <3>1. j \in 0 .. L - 1 /\ j - 1 \in 0 .. L - 1 /\ j \in 1 .. L /\ j \in Int
      BY <1>1
    <3>2. v[i + (j - 1)] = v[i] + (j - 1)
      BY <2>1, <2>4, <3>1
    <3>3. i + (j - 1) = i + j - 1 /\ (i + j - 1) + 1 = i + j
      BY <1>1, <3>1
    <3> DEFINE q == i + j - 1
    <3>4. /\ q \in 1 .. m /\ v[q] \notin C /\ InWord(hint, v[q]) /\ v[q] \in 1 .. N
      BY <1>15, <3>1
    <3>5. i + j \in 1 .. m /\ v[i + j] \in 1 .. N /\ v[i + j] \in Int /\ v[q] \in Int
      BY <1>1, <2>2, <3>1, <3>4
    <3>6. v[q] < v[i + j]
      <4>1. q < i + j
        BY <1>1, <3>1
      <4>2. QED
        BY <1>14, <3>4, <3>5, <4>1
    <3>7. v[q] + 1 \in 1 .. N
      BY <1>1, <3>4, <3>5, <3>6
    <3>8. v[q] + 1 \in V
      <4>1. SUFFICES ASSUME v[q] + 1 \notin V PROVE FALSE
        OBVIOUS
      <4>2. v[q] + 1 \in C /\ v[q] + 1 \notin B
        BY <1>6, <3>7, <4>1
      <4>3. PICK s \in B : s <= v[q] + 1 /\ v[q] + 1 < s + L
        BY <1>2, <4>2
      <4>4. s \in Int /\ s # v[q] + 1
        BY <1>1, <1>2, <4>2, <4>3
      <4>5. v[q] \in s .. s + L - 1
        BY <1>1, <3>5, <4>3, <4>4
      <4>6. QED
        BY <1>2, <3>4, <4>5
    <3>9. v[q] + 1 > v[q]
      BY <3>5
    <3>10. v[q] + 1 >= v[q + 1]
      BY <1>5, <3>4, <3>8, <3>9
    <3>11. v[i + j] = v[q] + 1
      BY <3>3, <3>5, <3>6, <3>10
    <3>12. v[q] = v[i] + (j - 1)
      BY <3>2, <3>3
    <3>13. v[i + j] = v[i] + j
      BY <2>2, <3>1, <3>5, <3>11, <3>12
    <3>14. QED
      BY <2>1, <3>1, <3>13
  <2>5. L - 1 \in Nat
    BY <1>1
  <2>6. \A j \in 0 .. L - 1 : g[j] \in D
    <3> HIDE DEF D
    <3> QED BY <2>3, <2>4, <2>5, Steps
  <2>7. \A j \in 0 .. L - 1 : v[i + j] = v[i] + j
    BY <2>1, <2>6
  <2> TAKE k \in 1 .. L
  <2>8. k - 1 \in 0 .. L - 1 /\ i + (k - 1) = i + k - 1 /\ v[i] + (k - 1) = v[i] + k - 1
    BY <1>1, <2>2
  <2>9. QED
    BY <2>7, <2>8
<1>18. /\ v[i] \in 1 .. N /\ v[i] \in Int /\ v[i] \notin C /\ InWord(hint, v[i])
       /\ i + L - 1 \in 1 .. m /\ v[i + L - 1] = v[i] + L - 1 /\ v[i] + L - 1 \in 1 .. N
       /\ v[i + L - 1] \notin C /\ InWord(hint, v[i + L - 1])
  <2>1. 1 \in 1 .. L /\ L \in 1 .. L /\ i + 1 - 1 = i
    BY <1>1
  <2>2. /\ v[i] \in 1 .. N /\ v[i] \notin C /\ InWord(hint, v[i])
    BY <1>15, <2>1
  <2>3. /\ i + L - 1 \in 1 .. m /\ v[i + L - 1] \notin C /\ InWord(hint, v[i + L - 1])
        /\ v[i + L - 1] \in 1 .. N /\ v[i + L - 1] = v[i] + L - 1
    BY <1>15, <1>17, <2>1
  <2>4. v[i] \in Int
    BY <1>1, <2>2
  <2>5. QED
    BY <2>2, <2>3, <2>4
<1>19. ~ InWord(hint, v[i] - 1)
  <2>1. SUFFICES ASSUME InWord(hint, v[i] - 1) PROVE FALSE
    OBVIOUS
  <2> DEFINE p == v[i] - 1
  <2>2. p \in 1 .. N
    BY <1>8, <2>1
  <2>3. p \notin C /\ p \in V
    BY <1>16, <1>18, <2>1, <2>2
  <2>4. p < v[i] /\ p \in Int
    BY <1>18
  <2>5. i > 1 /\ p <= v[i - 1]
    BY <1>5, <2>3, <2>4
  <2>6. i - 1 \in 1 .. m /\ i - 1 < i
    BY <1>1, <1>4, <2>5
  <2>7. v[i - 1] < v[i] /\ v[i - 1] \in 1 .. N
    BY <1>3, <1>14, <2>6
  <2>8. v[i - 1] = p
    BY <1>1, <1>18, <2>5, <2>7
  <2>9. shown[i - 1] = hint[p]
    BY <1>3, <2>3, <2>6, <2>8
  <2>10. hint[p] \in WordChar
    BY <1>8, <2>1, <2>2
  <2>11. InWord(shown, i - 1)
    BY <1>8, <2>6, <2>9, <2>10
  <2>12. QED
    BY <1>11, <2>11
<1>20. ~ InWord(hint, v[i] + L)
  <2>1. SUFFICES ASSUME InWord(hint, v[i] + L) PROVE FALSE
    OBVIOUS
  <2> DEFINE p == v[i] + L
             q == i + L - 1
  <2>2. p \in 1 .. N /\ p = v[q] + 1 /\ p > v[q] /\ p \in Int /\ v[q] \in Int
    <3>1. p \in 1 .. N
      BY <1>8, <2>1
    <3>2. QED
      BY <1>1, <1>18, <3>1
  <2>3. q \in 1 .. m /\ v[q] \notin C /\ InWord(hint, v[q])
    BY <1>18
  <2>4. p \notin C /\ p \in V
    BY <1>16, <2>1, <2>2, <2>3
  <2>5. q < m /\ p >= v[q + 1]
    BY <1>5, <2>2, <2>3, <2>4
  <2>6. q + 1 \in 1 .. m /\ q < q + 1 /\ q + 1 = i + L
    BY <1>1, <1>4, <2>3, <2>5
  <2>7. v[q] < v[q + 1] /\ v[q + 1] \in 1 .. N
    BY <1>3, <1>14, <2>3, <2>6
  <2>8. v[q + 1] = p
    BY <1>1, <2>2, <2>5, <2>7
  <2>9. shown[q + 1] = hint[p]
    BY <1>3, <2>4, <2>6, <2>8
  <2>10. hint[p] \in WordChar
    BY <1>8, <2>1, <2>2
  <2>11. InWord(shown, i + L)
    BY <1>8, <2>6, <2>9, <2>10
  <2>12. QED
    BY <1>11, <2>11
<1>21. \A k \in 1 .. L : /\ LowerCase[hint[v[i] + k - 1]] = LowerCase[target[k]]
                         /\ InWord(hint, v[i] + k - 1)
  <2> TAKE k \in 1 .. L
  <2>1. v[i + k - 1] = v[i] + k - 1
    BY <1>17
  <2>2. shown[i + k - 1] = hint[v[i + k - 1]] /\ InWord(hint, v[i + k - 1])
    BY <1>15
  <2>3. LowerCase[shown[i + k - 1]] = LowerCase[target[k]]
    BY <1>11
  <2>4. QED
    BY <2>1, <2>2, <2>3
<1>22. v[i] + L - 1 <= N
  BY <1>1, <1>18
<1>23. WordFrom(hint, target, v[i])
  BY <1>18, <1>19, <1>20, <1>21, <1>22, Zenon DEF WordFrom, L, N
<1>24. v[i] \in B /\ v[i] \in v[i] .. v[i] + L - 1
  BY <1>1, <1>13, <1>18, <1>23
<1>25. QED
  BY <1>2, <1>18, <1>24

(* What is left of the characters shown is what no word of the secret had.  *)
LEMMA RestIsKept ==
  ASSUME NEW hint \in Seq(Char), NEW target \in Secret,
         \A i \in 1 .. Len(hint) : hint[i] # "redacted",
         NEW shown, NEW v, NEW m, IsRedaction(shown, v, m, hint, target)
  PROVE  Keeping(shown, ToSet(shown) \ {"redacted"})
           = Picked(hint, (1 .. Len(hint)) \ Covered(hint, target))
<1> DEFINE N == Len(hint)
           B == Starts(hint, target)
           C == Covered(hint, target)
           V == Visible(hint, target)
           R == (1 .. N) \ C
           K == ToSet(shown) \ {"redacted"}
           sel == Keeping(shown, K)
           rest == Picked(hint, R)
<1>1. \A k \in 1 .. m : /\ v[k] \in 1 .. N /\ v[k] \in V
                        /\ shown[k] = "redacted" <=> v[k] \in C
                        /\ v[k] \notin C => shown[k] = hint[v[k]]
  BY ShownAre
<1>2. /\ shown \in Seq(Char) /\ Len(shown) = m
  BY DEF IsRedaction
<1>3. \A k \in 1 .. m : shown[k] \in K <=> v[k] \in R
  <2>1. \A k \in 1 .. m : shown[k] \in ToSet(shown)
    BY <1>2 DEF ToSet
  <2>2. QED
    BY <1>1, <2>1
<1>4. /\ N \in Nat /\ m \in Nat /\ \A j, k \in 1 .. m : j < k => v[j] < v[k]
      /\ \A p \in V : \E k \in 1 .. m : v[k] = p
  BY DEF IsRedaction, Enumerates
<1>5. \A p \in R : p \in V
  BY DEF Visible
<1>6. R \in SUBSET (1 .. N) /\ R \in SUBSET Int
  BY <1>4
<1>7. PICK e, l : IsPick(rest, e, l, hint, R)
  BY <1>6, PickedIs
<1> HIDE DEF K, R, V, C, B, N
<1>8. sel \in Seq(Char) /\ \E u : Picks(u, sel, shown, K, m)
  BY <1>2, KeepingPicks
<1>9. PICK u : Picks(u, sel, shown, K, m)
  BY <1>8
<1> HIDE DEF sel, rest
<1> DEFINE n == Len(sel)
<1>10. n \in Nat
  BY <1>8
<1>11. /\ u \in [1 .. n -> 1 .. m]
       /\ \A j, k \in 1 .. n : j < k => u[j] < u[k]
       /\ \A k \in 1 .. n : sel[k] = shown[u[k]] /\ shown[u[k]] \in K
       /\ \A i \in 1 .. m : shown[i] \in K => \E k \in 1 .. n : u[k] = i
  BY <1>9 DEF Picks
<1> HIDE DEF n
<1>12. \A k \in 1 .. n : /\ u[k] \in 1 .. m /\ v[u[k]] \in R /\ sel[k] = hint[v[u[k]]]
  <2> TAKE k \in 1 .. n
  <2>1. u[k] \in 1 .. m /\ shown[u[k]] \in K /\ sel[k] = shown[u[k]]
    BY <1>11
  <2>2. v[u[k]] \in R
    BY <1>3, <2>1
  <2>3. v[u[k]] \notin C
    BY <2>2 DEF R
  <2>4. QED
    BY <1>1, <2>1, <2>2, <2>3
<1> DEFINE w == [k \in 1 .. n |-> v[u[k]]]
<1>13. Enumerates(w, n, R)
  <2>1. w \in [1 .. n -> R]
    BY <1>12
  <2>2. \A j, k \in 1 .. n : j < k => w[j] < w[k]
    BY <1>4, <1>11, <1>12
  <2>3. ASSUME NEW p \in R PROVE \E k \in 1 .. n : w[k] = p
    <3>1. PICK i \in 1 .. m : v[i] = p
      BY <1>4, <1>5
    <3>2. shown[i] \in K
      BY <1>3, <3>1
    <3>3. PICK k \in 1 .. n : u[k] = i
      BY <1>11, <3>2
    <3>4. QED
      BY <3>1, <3>3
  <2> HIDE DEF w
  <2>4. QED
    BY <1>10, <2>1, <2>2, <2>3 DEF Enumerates
<1>14. Enumerates(e, l, R) /\ rest = [k \in 1 .. l |-> hint[e[k]]]
  BY <1>7, Zenon DEF IsPick
<1>15. n = l /\ \A k \in 1 .. n : w[k] = e[k]
  <2> HIDE DEF w
  <2> QED BY <1>6, <1>13, <1>14, EnumeratedOnce
<1>16. \A k \in 1 .. n : sel[k] = hint[e[k]]
  BY <1>12, <1>15
<1>17. sel = [k \in 1 .. n |-> sel[k]]
  BY <1>8 DEF n
<1>18. sel = rest
  BY <1>14, <1>15, <1>16, <1>17
<1>19. QED
  BY <1>18 DEF sel, rest, K, R, C, N

(* Whatever the hints and the secrets.                                      *)
LEMMA HintsRedacted == HintsAreRedacted
<1> SUFFICES ASSUME NEW hint \in Text, NEW target \in Secret
             PROVE  LET shown == redactSecret(hint, target)
                        kept == Picked(hint, {i \in DOMAIN hint : ~ NamedAt(hint, target, i)})
                    IN  /\ \A i \in DOMAIN shown : ~ MatchAt(shown, target, i)
                        /\ Keeping(shown, ToSet(shown) \ {"redacted"}) = kept
  BY Zenon DEF HintsAreRedacted, NamedAt
<1> DEFINE shown == redactSecret(hint, target)
           named == {i \in DOMAIN hint : ~ NamedAt(hint, target, i)}
           R == (1 .. Len(hint)) \ Covered(hint, target)
<1>1. hint \in Seq(Char) /\ \A i \in 1 .. Len(hint) : hint[i] # "redacted"
  BY TextsAre
<1>2. PICK v, m : IsRedaction(shown, v, m, hint, target)
  BY <1>1, RedactedIs
<1>3. named = R
  <2>1. DOMAIN hint = 1 .. Len(hint)
    BY <1>1
  <2>2. \A i \in 1 .. Len(hint) : NamedAt(hint, target, i) <=> i \in Covered(hint, target)
    BY <1>1, NamedAreCovered
  <2>3. QED
    BY <2>1, <2>2
<1>4. DOMAIN shown = 1 .. m
  <2>1. shown \in Seq(Char) /\ Len(shown) = m
    BY <1>2 DEF IsRedaction
  <2> HIDE DEF shown
  <2>2. QED
    BY <2>1
<1>5. \A i \in 1 .. m : ~ MatchAt(shown, target, i)
  <2> HIDE DEF shown
  <2> QED BY <1>1, <1>2, NothingNamed
<1>6. Keeping(shown, ToSet(shown) \ {"redacted"}) = Picked(hint, R)
  <2> HIDE DEF shown
  <2> QED BY <1>1, <1>2, RestIsKept
<1>7. Keeping(shown, ToSet(shown) \ {"redacted"}) = Picked(hint, named)
  BY <1>3, <1>6, Zenon
<1>8. \A i \in DOMAIN shown : ~ MatchAt(shown, target, i)
  BY <1>4, <1>5, Zenon
<1>9. QED
  BY <1>7, <1>8, Zenon

(* Whatever json.Unmarshal makes of the answers.                            *)
LEMMA GarbageLoses == GarbageWinsNothing
<1> SUFFICES ASSUME NEW payload \in Payload, Wins(payload)
             PROVE  payload # <<>> /\ payload["is_guess"] = <<"bool", TRUE>>
  BY DEF GarbageWinsNothing
<1> DEFINE v == payload["is_guess"]
<1>1. payload # <<>> /\ v[1] = "bool" /\ v[2]
  BY Zenon DEF Wins, normalizeJudgement
<1>2. payload \in [Field -> Value]
  BY <1>1, AnswerAssumption
<1>3. v \in Value
  BY <1>2 DEF Field
<1> HIDE DEF v
<1>4. v \in {"bool"} \X BOOLEAN
  BY <1>1, <1>3 DEF Value
<1>5. v = <<"bool", TRUE>>
  <2>1. PICK b \in BOOLEAN : v = <<"bool", b>>
    BY <1>4
  <2>2. v[2] = b
    BY <2>1
  <2>3. b = TRUE
    BY <1>1, <2>2, Zenon
  <2>4. QED
    BY <2>1, <2>3, Zenon
<1>6. QED
  BY <1>1, <1>5 DEF v

(* The states of the scan of parseJSON.                                     *)
ScanState == [depth : Int, inString : BOOLEAN, escaped : BOOLEAN, end : Nat]

(* Where the scan is, seen from the strings.                                 *)
Outside(s, d) == s \in ScanState /\ s.depth = d /\ s.inString = FALSE /\ s.escaped = FALSE /\ s.end = 0
Inside(s, d) == s \in ScanState /\ s.depth = d /\ s.inString = TRUE /\ s.escaped = FALSE /\ s.end = 0
Escaped(s, d) == s \in ScanState /\ s.depth = d /\ s.inString = TRUE /\ s.escaped = TRUE /\ s.end = 0

(* The scan has found the end.                                              *)
Ended(s, i) == s.end = i

(* What the scan does at one character.                                     *)
LEMMA ScansOutside ==
  ASSUME NEW d \in Int, NEW i \in Nat, NEW s, Outside(s, d)
  PROVE  /\ Inside(Scan(s, "quote", i), d)
         /\ Outside(Scan(s, "{", i), d + 1)
         /\ d # 1 => Outside(Scan(s, "}", i), d - 1)
         /\ d = 1 => Ended(Scan(s, "}", i), i)
         /\ Outside(Scan(s, "y", i), d)
<1>1. s \in ScanState /\ s.end = 0 /\ s.inString = FALSE /\ s.escaped = FALSE /\ s.depth = d
  BY DEF Outside
<1>2. /\ Scan(s, "quote", i) = [s EXCEPT !.inString = TRUE]
      /\ Scan(s, "{", i) = [s EXCEPT !.depth = @ + 1]
      /\ Scan(s, "}", i) = [s EXCEPT !.depth = @ - 1, !.end = IF s.depth = 1 THEN i ELSE 0]
      /\ Scan(s, "y", i) = s
  BY <1>1 DEF Scan
<1>3. Inside([s EXCEPT !.inString = TRUE], d)
  BY <1>1 DEF ScanState, Inside
<1>4. Outside([s EXCEPT !.depth = @ + 1], d + 1)
  BY <1>1 DEF ScanState, Outside
<1>5. ASSUME d # 1
      PROVE  Outside([s EXCEPT !.depth = @ - 1, !.end = IF s.depth = 1 THEN i ELSE 0], d - 1)
  <2>1. (IF s.depth = 1 THEN i ELSE 0) = 0 /\ 0 \in Nat
    BY <1>1, <1>5
  <2>2. Outside([s EXCEPT !.depth = @ - 1, !.end = 0], d - 1)
    <3> DEFINE t == [s EXCEPT !.depth = @ - 1, !.end = 0]
    <3>0. s.depth \in Int /\ s.depth - 1 \in Int
      BY <1>1
    <3>1. t \in ScanState
      BY <1>1, <3>0 DEF ScanState
    <3>2. t.depth = d - 1 /\ t.inString = s.inString /\ t.escaped = s.escaped /\ t.end = 0
      BY <1>1 DEF ScanState
    <3> HIDE DEF t
    <3>3. Outside(t, d - 1)
      BY <1>1, <3>1, <3>2 DEF Outside
    <3>4. QED
      BY <3>3 DEF t
  <2>3. QED
    BY <2>1, <2>2
<1>6. ASSUME d = 1
      PROVE  Ended([s EXCEPT !.depth = @ - 1, !.end = IF s.depth = 1 THEN i ELSE 0], i)
  BY <1>1, <1>6 DEF ScanState, Ended
<1>7. QED
  BY <1>2, <1>3, <1>4, <1>5, <1>6

(* What it does within a string.                                            *)
LEMMA ScansInside ==
  ASSUME NEW d \in Int, NEW i, NEW s
  PROVE  /\ Inside(s, d) => /\ Outside(Scan(s, "quote", i), d)
                            /\ Inside(Scan(s, "{", i), d)
                            /\ Inside(Scan(s, "}", i), d)
                            /\ Escaped(Scan(s, "escape", i), d)
         /\ Escaped(s, d) => /\ Inside(Scan(s, "quote", i), d)
                             /\ Inside(Scan(s, "escape", i), d)
<1>1. ASSUME Inside(s, d)
      PROVE  /\ Outside(Scan(s, "quote", i), d)
             /\ Inside(Scan(s, "{", i), d)
             /\ Inside(Scan(s, "}", i), d)
             /\ Escaped(Scan(s, "escape", i), d)
  <2>1. s \in ScanState /\ s.end = 0 /\ s.inString = TRUE /\ s.escaped = FALSE /\ s.depth = d
    BY <1>1 DEF Inside
  <2>2. /\ Scan(s, "quote", i) = [s EXCEPT !.inString = FALSE]
        /\ Scan(s, "{", i) = [s EXCEPT !.inString = TRUE]
        /\ Scan(s, "}", i) = [s EXCEPT !.inString = TRUE]
        /\ Scan(s, "escape", i) = [s EXCEPT !.escaped = TRUE]
    BY <2>1 DEF Scan, WithinString, InString
  <2>3. /\ Outside([s EXCEPT !.inString = FALSE], d)
        /\ Inside([s EXCEPT !.inString = TRUE], d)
        /\ Escaped([s EXCEPT !.escaped = TRUE], d)
    BY <2>1 DEF ScanState, Outside, Inside, Escaped
  <2>4. QED
    BY <2>2, <2>3
<1>2. ASSUME Escaped(s, d)
      PROVE  Inside(Scan(s, "quote", i), d) /\ Inside(Scan(s, "escape", i), d)
  <2>1. s \in ScanState /\ s.end = 0 /\ s.inString = TRUE /\ s.escaped = TRUE /\ s.depth = d
    BY <1>2 DEF Escaped
  <2>2. /\ Scan(s, "quote", i) = [s EXCEPT !.escaped = FALSE]
        /\ Scan(s, "escape", i) = [s EXCEPT !.escaped = FALSE]
    BY <2>1 DEF Scan, WithinString, InString
  <2>3. Inside([s EXCEPT !.escaped = FALSE], d)
    BY <2>1 DEF ScanState, Inside
  <2>4. QED
    BY <2>2, <2>3
<1>3. QED
  BY <1>1, <1>2

(* It stops at the end.                                                     *)
LEMMA ScansNoMore ==
  ASSUME NEW s, s.end # 0, NEW c, NEW i
  PROVE  Scan(s, c, i) = s
BY DEF Scan

(* Its states stay what they are.                                           *)
LEMMA ScanType ==
  ASSUME NEW s \in ScanState, NEW c, NEW i \in Nat
  PROVE  Scan(s, c, i) \in ScanState
<1>1. CASE s.end # 0
  BY <1>1, ScansNoMore
<1>2. CASE s.end = 0 /\ s.inString
  <2>1. Scan(s, c, i) = WithinString(s, c)
    BY <1>2 DEF Scan
  <2>2. /\ [s EXCEPT !.escaped = FALSE] \in ScanState
        /\ [s EXCEPT !.escaped = TRUE] \in ScanState
        /\ [s EXCEPT !.inString = (c # "quote")] \in ScanState
    BY DEF ScanState
  <2>3. QED
    BY <2>1, <2>2 DEF WithinString, InString
<1>3. CASE s.end = 0 /\ ~ s.inString
  <2>0. s.depth + 1 \in Int /\ s.depth - 1 \in Int /\ (IF s.depth = 1 THEN i ELSE 0) \in Nat
    BY DEF ScanState
  <2>1. /\ [s EXCEPT !.inString = TRUE] \in ScanState
        /\ [s EXCEPT !.depth = @ + 1] \in ScanState
        /\ [s EXCEPT !.depth = @ - 1, !.end = IF s.depth = 1 THEN i ELSE 0] \in ScanState
    <3>1. [s EXCEPT !.inString = TRUE] \in ScanState
      BY DEF ScanState
    <3>2. [s EXCEPT !.depth = @ + 1] \in ScanState
      BY <2>0 DEF ScanState
    <3>3. [s EXCEPT !.depth = @ - 1, !.end = IF s.depth = 1 THEN i ELSE 0] \in ScanState
      BY <2>0 DEF ScanState
    <3>4. QED
      BY <3>1, <3>2, <3>3
  <2>2. CASE c = "quote"
    BY <1>3, <2>1, <2>2 DEF Scan
  <2>3. CASE c = "{"
    BY <1>3, <2>1, <2>3 DEF Scan
  <2>4. CASE c = "}"
    BY <1>3, <2>1, <2>4 DEF Scan
  <2>5. CASE c # "quote" /\ c # "{" /\ c # "}"
    BY <1>3, <2>5 DEF Scan
  <2>6. QED
    BY <2>2, <2>3, <2>4, <2>5
<1>4. QED
  BY <1>1, <1>2, <1>3 DEF ScanState

(* The states of parseJSON's loop over rest.                                *)
Scans(d, rest) ==
  /\ d[0] = Scanning
  /\ \A j \in 1 .. Len(rest) : d[j] = Scan(d[j - 1], rest[j], j)

(* The function parseJSON defines.                                          *)
ScanOf(rest) ==
  LET state[i \in 0 .. Len(rest)] ==
        IF i = 0 THEN Scanning ELSE Scan(state[i - 1], rest[i], i)
  IN  state

(* It runs through these states.                                            *)
LEMMA ScanRuns ==
  ASSUME NEW S, NEW rest \in Seq(S)
  PROVE  Scans(ScanOf(rest), rest)
<1> DEFINE n == Len(rest)
           T == ScanState
           Pass(s, i) == Scan(s, rest[i], i)
           F == [i \in 1 .. n |-> [s \in T |-> Pass(s, i)]]
           Loop(g) == g = [i \in 0 .. n |-> IF i = 0 THEN Scanning ELSE Pass(g[i - 1], i)]
           g0 == CHOOSE g : Loop(g)
<1>1. n \in Nat
  OBVIOUS
<1>2. ScanOf(rest) = g0
  BY DEF ScanOf
<1>3. Scanning \in T
  BY DEF Scanning, ScanState
<1>4. \A i \in 1 .. n : \A s \in T : Pass(s, i) \in T
  <2> TAKE i \in 1 .. n
  <2>1. i \in Nat
    BY <1>1
  <2>2. QED
    BY <2>1, ScanType
<1> HIDE DEF n, T, Pass
<1>5. /\ F \in [1 .. n -> [T -> T]]
      /\ \A i \in 1 .. n : \A s \in T : F[i][s] = Pass(s, i)
  BY <1>4
<1> HIDE DEF F
<1>6. PICK f \in [0 .. n -> T] : Rounds(f, Scanning, n, F)
  BY <1>1, <1>3, <1>5, RoundsExist
<1>7. \A j \in 1 .. n : f[j] = Pass(f[j - 1], j)
  <2> TAKE j \in 1 .. n
  <2>1. j - 1 \in 0 .. n /\ f[j] = F[j][f[j - 1]]
    BY <1>1, <1>6 DEF Rounds
  <2>2. f[j - 1] \in T
    BY <2>1
  <2>3. QED
    BY <1>5, <2>1, <2>2
<1>8. f[0] = Scanning
  BY <1>6 DEF Rounds
<1>9. Loop(f)
  <2>1. \A i \in 0 .. n : f[i] = IF i = 0 THEN Scanning ELSE Pass(f[i - 1], i)
    <3> TAKE i \in 0 .. n
    <3>1. i = 0 \/ (i # 0 /\ i \in 1 .. n)
      BY <1>1
    <3>2. QED
      BY <1>7, <1>8, <3>1
  <2>2. f = [i \in 0 .. n |-> f[i]]
    OBVIOUS
  <2>3. QED
    BY <2>1, <2>2
<1>10. Loop(g0)
  <2> HIDE DEF Loop
  <2> QED BY <1>9
<1> HIDE DEF g0
<1>11. /\ g0[0] = Scanning
       /\ \A j \in 1 .. n : g0[j] = Pass(g0[j - 1], j)
  <2>1. 0 \in 0 .. n /\ \A j \in 1 .. n : j \in 0 .. n /\ j # 0
    BY <1>1
  <2>2. QED
    BY <1>10, <2>1
<1>12. QED
  BY <1>2, <1>11 DEF Scans, n, Pass

(* The characters of tokens.                                                *)
Glyph == {"{", "}", "y", "quote", "escape"}

(* The tokens, character by character.                                       *)
Spelled1(t, a) == t \in Seq(Glyph) /\ Len(t) = 1 /\ t[1] = a
Spelled3(t, a, b, c) == t \in Seq(Glyph) /\ Len(t) = 3 /\ t[1] = a /\ t[2] = b /\ t[3] = c
Spelled4(t, a, b, c, d) ==
  t \in Seq(Glyph) /\ Len(t) = 4 /\ t[1] = a /\ t[2] = b /\ t[3] = c /\ t[4] = d
Spelled5(t, a, b, c, d, e) ==
  t \in Seq(Glyph) /\ Len(t) = 5 /\ t[1] = a /\ t[2] = b /\ t[3] = c /\ t[4] = d /\ t[5] = e

(* The tokens that are a brace, and what strings hold.                      *)
Opens(t) == t = <<"{">>
Closes(t) == t = <<"}">>
Quoted == {<<"{">>, <<"}">>, <<"escape", "quote", "}">>, <<"escape", "escape">>}

(* Every token, character by character.                                     *)
LEMMA TokenShapes ==
  ASSUME NEW t \in Token
  PROVE  \/ Opens(t) /\ ~ Closes(t) /\ Spelled1(t, "{")
         \/ Closes(t) /\ ~ Opens(t) /\ Spelled1(t, "}")
         \/ /\ ~ Opens(t) /\ ~ Closes(t)
            /\ \/ Spelled1(t, "y")
               \/ Spelled3(t, "quote", "{", "quote")
               \/ Spelled3(t, "quote", "}", "quote")
               \/ Spelled5(t, "quote", "escape", "quote", "}", "quote")
               \/ Spelled4(t, "quote", "escape", "escape", "quote")
<1> DEFINE q == <<"quote">>
<1>1. /\ Spelled1(<<"{">>, "{") /\ Spelled1(<<"}">>, "}") /\ Spelled1(<<"y">>, "y")
      /\ Opens(<<"{">>) /\ ~ Closes(<<"{">>) /\ Closes(<<"}">>) /\ ~ Opens(<<"}">>)
      /\ ~ Opens(<<"y">>) /\ ~ Closes(<<"y">>)
  BY DEF Spelled1, Glyph, Opens, Closes
<1>2. q \in Seq(Glyph) /\ Len(q) = 1 /\ q[1] = "quote"
  BY DEF Glyph
<1>3. ASSUME NEW s \in Seq(Glyph), Len(s) # 0
      PROVE  LET m == q \o s \o q
             IN  /\ m \in Seq(Glyph) /\ Len(m) = Len(s) + 2
                 /\ m[1] = "quote" /\ m[Len(s) + 2] = "quote"
                 /\ \A i \in 1 .. Len(s) : m[i + 1] = s[i]
                 /\ ~ Opens(m) /\ ~ Closes(m)
  <2> DEFINE a == q \o s
             b == a \o q
  <2> HIDE DEF q
  <2>0. q \in Seq(Glyph)
    BY <1>2
  <2>1. /\ a \in Seq(Glyph) /\ Len(a) = Len(q) + Len(s)
        /\ \A i \in 1 .. Len(q) : a[i] = q[i]
        /\ \A i \in 1 .. Len(s) : a[Len(q) + i] = s[i]
    BY <2>0
  <2>2. Len(s) \in Nat /\ Len(s) # 0
    BY <1>3
  <2>21. a \in Seq(Glyph)
    BY <2>1
  <2> HIDE DEF a
  <2>3. /\ b \in Seq(Glyph) /\ Len(b) = Len(a) + Len(q)
        /\ \A i \in 1 .. Len(a) : b[i] = a[i]
        /\ \A i \in 1 .. Len(q) : b[Len(a) + i] = q[i]
    BY <2>0, <2>21
  <2> HIDE DEF b
  <2>4. Len(q) = 1
    BY <1>2
  <2>41. Len(a) = Len(s) + 1 /\ Len(b) = Len(s) + 2
    BY <2>1, <2>2, <2>3, <2>4
  <2>42. /\ 1 \in 1 .. Len(q) /\ 1 \in 1 .. Len(a)
         /\ \A i \in 1 .. Len(s) : i + 1 \in 1 .. Len(a) /\ Len(q) + i = i + 1
         /\ Len(a) + 1 = Len(s) + 2
    BY <2>2, <2>4, <2>41
  <2>43. b[1] = q[1] /\ b[Len(s) + 2] = q[1] /\ \A i \in 1 .. Len(s) : b[i + 1] = s[i]
    <3>1. b[1] = a[1] /\ a[1] = q[1]
      BY <2>1, <2>3, <2>42
    <3>2. b[Len(a) + 1] = q[1]
      BY <2>3, <2>42
    <3>3. \A i \in 1 .. Len(s) : b[i + 1] = a[i + 1] /\ a[Len(q) + i] = s[i] /\ Len(q) + i = i + 1
      BY <2>1, <2>3, <2>42
    <3>4. QED
      BY <2>42, <3>1, <3>2, <3>3
  <2>5. /\ Len(b) = Len(s) + 2 /\ b[1] = "quote" /\ b[Len(s) + 2] = "quote"
        /\ \A i \in 1 .. Len(s) : b[i + 1] = s[i]
    BY <1>2, <2>41, <2>43
  <2>6. Len(b) # 1 /\ Len(<<"{">>) = 1 /\ Len(<<"}">>) = 1
    BY <2>2, <2>5
  <2>7. ~ Opens(b) /\ ~ Closes(b)
    BY <2>6 DEF Opens, Closes
  <2>8. /\ b \in Seq(Glyph) /\ Len(b) = Len(s) + 2
        /\ b[1] = "quote" /\ b[Len(s) + 2] = "quote"
        /\ \A i \in 1 .. Len(s) : b[i + 1] = s[i]
        /\ ~ Opens(b) /\ ~ Closes(b)
    BY <2>3, <2>5, <2>7
  <2>9. QED
    BY <2>8 DEF a, b
<1>4. CASE t \in {<<"{">>, <<"}">>, <<"y">>}
  BY <1>1, <1>4
<1>5. CASE t \notin {<<"{">>, <<"}">>, <<"y">>}
  <2>1. PICK s \in Quoted : t = q \o s \o q
    BY <1>5, Zenon DEF Token, Quoted
  <2>2. s \in Seq(Glyph) /\ Len(s) # 0
    <3>1. \A x \in Quoted : x \in Seq(Glyph) /\ Len(x) # 0
      <4>1. <<"{">> \in Seq(Glyph) /\ Len(<<"{">>) = 1
        BY DEF Glyph
      <4>2. <<"}">> \in Seq(Glyph) /\ Len(<<"}">>) = 1
        BY DEF Glyph
      <4>3. <<"escape", "quote", "}">> \in Seq(Glyph) /\ Len(<<"escape", "quote", "}">>) = 3
        BY DEF Glyph
      <4>4. <<"escape", "escape">> \in Seq(Glyph) /\ Len(<<"escape", "escape">>) = 2
        BY DEF Glyph
      <4>5. 1 # 0 /\ 2 # 0 /\ 3 # 0
        OBVIOUS
      <4>6. QED
        BY <4>1, <4>2, <4>3, <4>4, <4>5, Zenon DEF Quoted
    <3>2. QED
      BY <2>1, <3>1
  <2> HIDE DEF q
  <2>3. /\ t \in Seq(Glyph) /\ Len(t) = Len(s) + 2
        /\ t[1] = "quote" /\ t[Len(s) + 2] = "quote"
        /\ \A i \in 1 .. Len(s) : t[i + 1] = s[i]
        /\ ~ Opens(t) /\ ~ Closes(t)
    BY <1>3, <2>1, <2>2
  <2>4. CASE s = <<"{">>
    <3>0. Len(s) = 1
      BY <2>4
    <3>1. s[1] = "{"
      BY <2>4
    <3>2. 1 \in 1 .. Len(s) /\ 1 + 1 = 2 /\ Len(s) + 2 = 3
      BY <3>0
    <3>3. Spelled3(t, "quote", "{", "quote")
      BY <2>3, <3>0, <3>1, <3>2 DEF Spelled3
    <3>4. QED
      BY <2>3, <3>3
  <2>5. CASE s = <<"}">>
    <3>0. Len(s) = 1
      BY <2>5
    <3>1. s[1] = "}"
      BY <2>5
    <3>2. 1 \in 1 .. Len(s) /\ 1 + 1 = 2 /\ Len(s) + 2 = 3
      BY <3>0
    <3>3. Spelled3(t, "quote", "}", "quote")
      BY <2>3, <3>0, <3>1, <3>2 DEF Spelled3
    <3>4. QED
      BY <2>3, <3>3
  <2>6. CASE s = <<"escape", "quote", "}">>
    <3>0. Len(s) = 3
      BY <2>6
    <3>1. s[1] = "escape" /\ s[2] = "quote" /\ s[3] = "}"
      BY <2>6
    <3>2. /\ 1 \in 1 .. Len(s) /\ 2 \in 1 .. Len(s) /\ 3 \in 1 .. Len(s)
          /\ 1 + 1 = 2 /\ 2 + 1 = 3 /\ 3 + 1 = 4 /\ Len(s) + 2 = 5
      BY <3>0
    <3>3. Spelled5(t, "quote", "escape", "quote", "}", "quote")
      BY <2>3, <3>0, <3>1, <3>2 DEF Spelled5
    <3>4. QED
      BY <2>3, <3>3
  <2>7. CASE s = <<"escape", "escape">>
    <3>0. Len(s) = 2
      BY <2>7
    <3>1. s[1] = "escape" /\ s[2] = "escape"
      BY <2>7
    <3>2. /\ 1 \in 1 .. Len(s) /\ 2 \in 1 .. Len(s)
          /\ 1 + 1 = 2 /\ 2 + 1 = 3 /\ Len(s) + 2 = 4
      BY <3>0
    <3>3. Spelled4(t, "quote", "escape", "escape", "quote")
      BY <2>3, <3>0, <3>1, <3>2 DEF Spelled4
    <3>4. QED
      BY <2>3, <3>3
  <2>8. QED
    BY <2>4, <2>5, <2>6, <2>7, Zenon DEF Quoted
<1>6. QED
  BY <1>4, <1>5

(* What a token adds to the depth.                                           *)
Rise(t) == IF Opens(t) THEN 1 ELSE IF Closes(t) THEN -1 ELSE 0

(* f goes through the states of the scan over t, from p on.                 *)
Reads(f, t, p) == \A j \in 1 .. Len(t) : f[p + j] = Scan(f[p + j - 1], t[j], p + j)

(* The scan over a token: behind it the scan is outside of the strings again,*)
(* or at the end.                                                            *)
LEMMA TokenScanned ==
  ASSUME NEW d \in Int, NEW p \in Nat, NEW f, NEW t \in Token, Outside(f[p], d), Reads(f, t, p)
  PROVE  /\ Closes(t) /\ d = 1 => Ended(f[p + Len(t)], p + Len(t))
         /\ ~ (Closes(t) /\ d = 1) => Outside(f[p + Len(t)], d + Rise(t))
<1>1. /\ 1 \in Nat /\ p + 1 \in Nat /\ p + 2 \in Nat /\ p + 3 \in Nat /\ p + 4 \in Nat /\ p + 5 \in Nat
      /\ p + 1 - 1 = p /\ p + 2 - 1 = p + 1 /\ p + 3 - 1 = p + 2 /\ p + 4 - 1 = p + 3
      /\ p + 5 - 1 = p + 4
  OBVIOUS
<1>2. CASE Opens(t) /\ ~ Closes(t) /\ Spelled1(t, "{")
  <2>0. Len(t) = 1
    BY <1>2 DEF Spelled1
  <2>1. t[1] = "{"
    BY <1>2 DEF Spelled1
  <2>2. f[p + 1] = Scan(f[p], "{", p + 1)
    <3>1. 1 \in 1 .. Len(t)
      BY <2>0
    <3>2. QED
      BY <1>1, <2>1, <3>1 DEF Reads
  <2>3. Outside(f[p + 1], d + 1)
    BY <1>1, <2>2, ScansOutside
  <2>4. Rise(t) = 1
    BY <1>2 DEF Rise
  <2>5. ~ Closes(t)
    BY <1>2
  <2>6. QED
    BY <2>0, <2>3, <2>4, <2>5
<1>3. CASE Closes(t) /\ ~ Opens(t) /\ Spelled1(t, "}")
  <2>0. Len(t) = 1
    BY <1>3 DEF Spelled1
  <2>1. t[1] = "}"
    BY <1>3 DEF Spelled1
  <2>2. f[p + 1] = Scan(f[p], "}", p + 1)
    <3>1. 1 \in 1 .. Len(t)
      BY <2>0
    <3>2. QED
      BY <1>1, <2>1, <3>1 DEF Reads
  <2>3. /\ d # 1 => Outside(f[p + 1], d - 1)
        /\ d = 1 => Ended(f[p + 1], p + 1)
    BY <1>1, <2>2, ScansOutside
  <2>4. Rise(t) = -1 /\ d + (-1) = d - 1
    BY <1>3 DEF Rise
  <2>5. QED
    BY <1>3, <2>0, <2>3, <2>4
<1>4. ASSUME ~ Opens(t), ~ Closes(t), Outside(f[p + Len(t)], d)
      PROVE  ~ (Closes(t) /\ d = 1) => Outside(f[p + Len(t)], d + Rise(t))
  <2>1. Rise(t) = 0 /\ d + 0 = d
    BY <1>4 DEF Rise
  <2>2. QED
    BY <1>4, <2>1
<1>5. CASE ~ Opens(t) /\ ~ Closes(t) /\ Spelled1(t, "y")
  <2>0. Len(t) = 1
    BY <1>5 DEF Spelled1
  <2>1. t[1] = "y"
    BY <1>5 DEF Spelled1
  <2>2. f[p + 1] = Scan(f[p], "y", p + 1)
    <3>1. 1 \in 1 .. Len(t)
      BY <2>0
    <3>2. QED
      BY <1>1, <2>1, <3>1 DEF Reads
  <2>3. Outside(f[p + 1], d)
    BY <1>1, <2>2, ScansOutside
  <2>4. QED
    BY <1>4, <1>5, <2>0, <2>3
<1>6. ASSUME NEW b, b = "{" \/ b = "}", ~ Opens(t), ~ Closes(t), Spelled3(t, "quote", b, "quote")
      PROVE  Outside(f[p + Len(t)], d)
  <2>0. Len(t) = 3
    BY <1>6 DEF Spelled3
  <2>1. t[1] = "quote" /\ t[2] = b /\ t[3] = "quote"
    BY <1>6 DEF Spelled3
  <2>2. 1 \in 1 .. Len(t) /\ 2 \in 1 .. Len(t) /\ 3 \in 1 .. Len(t)
    BY <2>0
  <2>3. /\ f[p + 1] = Scan(f[p], "quote", p + 1)
        /\ f[p + 2] = Scan(f[p + 1], b, p + 2)
        /\ f[p + 3] = Scan(f[p + 2], "quote", p + 3)
    BY <1>1, <2>1, <2>2 DEF Reads
  <2>4. Inside(f[p + 1], d)
    BY <1>1, <2>3, ScansOutside
  <2>5. Inside(f[p + 2], d)
    <3>1. Inside(Scan(f[p + 1], "{", p + 2), d) /\ Inside(Scan(f[p + 1], "}", p + 2), d)
      BY <2>4, ScansInside
    <3>2. QED
      BY <1>6, <2>3, <3>1, Zenon
  <2>6. Outside(f[p + 3], d)
    BY <2>3, <2>5, ScansInside
  <2>7. QED
    BY <2>0, <2>6
<1>7. CASE ~ Opens(t) /\ ~ Closes(t) /\ Spelled5(t, "quote", "escape", "quote", "}", "quote")
  <2>0. Len(t) = 5
    BY <1>7 DEF Spelled5
  <2>1. t[1] = "quote" /\ t[2] = "escape" /\ t[3] = "quote" /\ t[4] = "}" /\ t[5] = "quote"
    BY <1>7 DEF Spelled5
  <2>2. /\ 1 \in 1 .. Len(t) /\ 2 \in 1 .. Len(t) /\ 3 \in 1 .. Len(t)
        /\ 4 \in 1 .. Len(t) /\ 5 \in 1 .. Len(t)
    BY <2>0
  <2>3. /\ f[p + 1] = Scan(f[p], "quote", p + 1)
        /\ f[p + 2] = Scan(f[p + 1], "escape", p + 2)
        /\ f[p + 3] = Scan(f[p + 2], "quote", p + 3)
        /\ f[p + 4] = Scan(f[p + 3], "}", p + 4)
        /\ f[p + 5] = Scan(f[p + 4], "quote", p + 5)
    BY <1>1, <2>1, <2>2 DEF Reads
  <2>4. Inside(f[p + 1], d)
    BY <1>1, <2>3, ScansOutside
  <2>5. Escaped(f[p + 2], d)
    BY <2>3, <2>4, ScansInside
  <2>6. Inside(f[p + 3], d)
    BY <2>3, <2>5, ScansInside
  <2>7. Inside(f[p + 4], d)
    BY <2>3, <2>6, ScansInside
  <2>8. Outside(f[p + 5], d)
    BY <2>3, <2>7, ScansInside
  <2>9. QED
    BY <1>4, <1>7, <2>0, <2>8
<1>8. CASE ~ Opens(t) /\ ~ Closes(t) /\ Spelled4(t, "quote", "escape", "escape", "quote")
  <2>0. Len(t) = 4
    BY <1>8 DEF Spelled4
  <2>1. t[1] = "quote" /\ t[2] = "escape" /\ t[3] = "escape" /\ t[4] = "quote"
    BY <1>8 DEF Spelled4
  <2>2. /\ 1 \in 1 .. Len(t) /\ 2 \in 1 .. Len(t) /\ 3 \in 1 .. Len(t) /\ 4 \in 1 .. Len(t)
    BY <2>0
  <2>3. /\ f[p + 1] = Scan(f[p], "quote", p + 1)
        /\ f[p + 2] = Scan(f[p + 1], "escape", p + 2)
        /\ f[p + 3] = Scan(f[p + 2], "escape", p + 3)
        /\ f[p + 4] = Scan(f[p + 3], "quote", p + 4)
    BY <1>1, <2>1, <2>2 DEF Reads
  <2>4. Inside(f[p + 1], d)
    BY <1>1, <2>3, ScansOutside
  <2>5. Escaped(f[p + 2], d)
    BY <2>3, <2>4, ScansInside
  <2>6. Inside(f[p + 3], d)
    BY <2>3, <2>5, ScansInside
  <2>7. Outside(f[p + 4], d)
    BY <2>3, <2>6, ScansInside
  <2>8. QED
    BY <1>4, <1>8, <2>0, <2>7
<1>9. QED
  BY <1>2, <1>3, <1>4, <1>5, <1>6, <1>7, <1>8, TokenShapes

(* The depth behind a token.                                                 *)
LEMMA DepthSteps ==
  ASSUME NEW n \in Nat, NEW ts \in [1 .. n -> Token]
  PROVE  /\ Depth(ts, 0) = 0
         /\ \A j \in 0 .. n : Depth(ts, j) \in Int
         /\ \A j \in 1 .. n : Depth(ts, j) = Depth(ts, j - 1) + Rise(ts[j])
<1> DEFINE At(x, j) == {i \in 1 .. j : ts[i] = x}
<1>1. ASSUME NEW x, NEW j \in 0 .. n
      PROVE  IsFiniteSet(At(x, j)) /\ Cardinality(At(x, j)) \in Nat
  <2>1. j \in Nat
    OBVIOUS
  <2>2. IsFiniteSet(1 .. j)
    BY <2>1, FS_Interval
  <2>3. IsFiniteSet(At(x, j))
    BY <2>2, FS_Subset
  <2>4. QED
    BY <2>3, FS_CardinalityType
<1>2. ASSUME NEW x, NEW j \in 1 .. n
      PROVE  Cardinality(At(x, j)) = Cardinality(At(x, j - 1)) + (IF ts[j] = x THEN 1 ELSE 0)
  <2>1. j - 1 \in 0 .. n /\ j \notin At(x, j - 1)
    OBVIOUS
  <2>2. ts[j] = x => At(x, j) = At(x, j - 1) \cup {j}
    OBVIOUS
  <2>3. ts[j] # x => At(x, j) = At(x, j - 1)
    <3> SUFFICES ASSUME ts[j] # x PROVE At(x, j) = At(x, j - 1)
      OBVIOUS
    <3>1. \A i \in 1 .. j : i = j \/ i \in 1 .. (j - 1)
      OBVIOUS
    <3>2. \A i \in 1 .. (j - 1) : i \in 1 .. j
      OBVIOUS
    <3>3. QED
      BY <3>1, <3>2
  <2>4. IsFiniteSet(At(x, j - 1)) /\ Cardinality(At(x, j - 1)) \in Nat
    BY <1>1, <2>1
  <2> HIDE DEF At
  <2>5. CASE ts[j] = x
    <3>1. Cardinality(At(x, j)) = Cardinality(At(x, j - 1)) + 1
      BY <2>1, <2>2, <2>4, <2>5, FS_AddElement
    <3>2. QED
      BY <2>5, <3>1
  <2>6. CASE ts[j] # x
    BY <2>3, <2>4, <2>6
  <2>7. QED
    BY <2>5, <2>6
<1> DEFINE a(j) == Cardinality(At(<<"{">>, j))
           b(j) == Cardinality(At(<<"}">>, j))
<1>3. \A j \in 0 .. n : Depth(ts, j) = a(j) - b(j)
  BY Zenon DEF Depth
<1>4. a(0) = 0 /\ b(0) = 0
  <2>1. \A x : At(x, 0) = {}
    OBVIOUS
  <2>2. QED
    BY <2>1, FS_EmptySet
<1> HIDE DEF At
<1>5. \A j \in 0 .. n : a(j) \in Nat /\ b(j) \in Nat
  BY <1>1
<1>6. ASSUME NEW j \in 1 .. n
      PROVE  /\ a(j) = a(j - 1) + (IF Opens(ts[j]) THEN 1 ELSE 0)
             /\ b(j) = b(j - 1) + (IF Closes(ts[j]) THEN 1 ELSE 0)
  BY <1>2, Zenon DEF Opens, Closes
<1> HIDE DEF a, b
<1>7. Depth(ts, 0) = 0
  <2>1. 0 \in 0 .. n
    OBVIOUS
  <2>2. Depth(ts, 0) = a(0) - b(0)
    BY <1>3, <2>1
  <2>3. QED
    BY <1>4, <2>2
<1>8. \A j \in 0 .. n : Depth(ts, j) \in Int
  <2> TAKE j \in 0 .. n
  <2>1. a(j) \in Nat /\ b(j) \in Nat /\ Depth(ts, j) = a(j) - b(j)
    BY <1>3, <1>5
  <2>2. QED
    BY <2>1
<1>9. ASSUME NEW j \in 1 .. n PROVE Depth(ts, j) = Depth(ts, j - 1) + Rise(ts[j])
  <2> DEFINE t == ts[j]
  <2>1. j \in 0 .. n /\ j - 1 \in 0 .. n
    OBVIOUS
  <2>2. /\ a(j - 1) \in Nat /\ b(j - 1) \in Nat
        /\ Depth(ts, j) = a(j) - b(j) /\ Depth(ts, j - 1) = a(j - 1) - b(j - 1)
    BY <1>3, <1>5, <2>1
  <2>3. /\ a(j) = a(j - 1) + (IF Opens(t) THEN 1 ELSE 0)
        /\ b(j) = b(j - 1) + (IF Closes(t) THEN 1 ELSE 0)
    BY <1>6
  <2>4. ~ (Opens(t) /\ Closes(t))
    <3>1. <<"{">> # <<"}">>
      OBVIOUS
    <3>2. QED
      BY <3>1, Zenon DEF Opens, Closes
  <2> HIDE DEF t
  <2>5. Rise(t) = (IF Opens(t) THEN 1 ELSE 0) - (IF Closes(t) THEN 1 ELSE 0)
    BY <2>4 DEF Rise
  <2>6. QED
    BY <2>2, <2>3, <2>5 DEF t
<1>10. QED
  BY <1>7, <1>8, <1>9

(* A token has a character.                                                 *)
LEMMA TokenType ==
  ASSUME NEW t \in Token
  PROVE  t \in Seq(Glyph) /\ Len(t) \in Nat \ {0}
<1>1. t \in Seq(Glyph)
  BY TokenShapes DEF Spelled1, Spelled3, Spelled4, Spelled5
<1>2. Len(t) = 1 \/ Len(t) = 3 \/ Len(t) = 4 \/ Len(t) = 5
  BY TokenShapes DEF Spelled1, Spelled3, Spelled4, Spelled5
<1>3. QED
  BY <1>1, <1>2

(* Once the scan has ended it stays where it is.                             *)
LEMMA EndStays ==
  ASSUME NEW d, NEW rest, NEW n \in Nat, Len(rest) = n, Scans(d, rest),
         NEW m \in 1 .. n, Ended(d[m], m)
  PROVE  Ended(d[n], m)
<1> DEFINE D == {i \in 0 .. n : i >= m => Ended(d[i], m)}
           g == [i \in 0 .. n |-> i]
<1>1. \A i \in 0 .. n : g[i] = i
  OBVIOUS
<1> HIDE DEF g
<1>2. g[0] \in D
  BY <1>1
<1>3. ASSUME NEW i \in 1 .. n, g[i - 1] \in D PROVE g[i] \in D
  <2>1. i - 1 \in 0 .. n /\ i \in 0 .. n
    OBVIOUS
  <2>2. i - 1 >= m => Ended(d[i - 1], m)
    BY <1>1, <1>3, <2>1
  <2>3. ASSUME i - 1 >= m PROVE Ended(d[i], m)
    <3>1. Ended(d[i - 1], m) /\ m # 0
      BY <2>2, <2>3
    <3>2. d[i - 1].end # 0
      BY <3>1 DEF Ended
    <3>3. d[i] = Scan(d[i - 1], rest[i], i)
      BY DEF Scans
    <3>4. d[i] = d[i - 1]
      BY <3>2, <3>3, ScansNoMore
    <3>5. QED
      BY <3>1, <3>4
  <2>4. i >= m => i = m \/ i - 1 >= m
    OBVIOUS
  <2>5. i >= m => Ended(d[i], m)
    BY <2>3, <2>4
  <2>6. QED
    BY <1>1, <2>1, <2>5
<1>4. \A i \in 0 .. n : g[i] \in D
  <2> HIDE DEF D
  <2> QED BY <1>2, <1>3, Steps
<1>5. n \in 0 .. n /\ n \in D /\ n >= m
  BY <1>1, <1>4
<1>6. QED
  BY <1>5

(* The scan of a text that begins with an object ends with the object.       *)
LEMMA ObjectScanned ==
  ASSUME NEW n \in Nat, n >= 2, NEW ts \in [1 .. n -> Token],
         Depth(ts, n) = 0, \A j \in 1 .. n - 1 : Depth(ts, j) > 0,
         NEW S, NEW rest \in Seq(S), Begins(FlattenSeq(ts), rest), NEW d, Scans(d, rest)
  PROVE  Ended(d[Len(rest)], Len(FlattenSeq(ts))) /\ Len(FlattenSeq(ts)) \in 1 .. Len(rest)
<1> DEFINE object == FlattenSeq(ts)
<1>1. \A j \in 1 .. n : ts[j] \in Token /\ ts[j] \in Seq(Glyph) /\ Len(ts[j]) \in Nat \ {0}
  BY TokenType
<1>2. ts \in Seq(Seq(Glyph)) /\ Len(ts) = n /\ ts # <<>>
  <2>1. ts \in [1 .. n -> Seq(Glyph)]
    BY <1>1
  <2>2. ts \in Seq(Seq(Glyph)) /\ Len(ts) = n
    BY <2>1
  <2>3. Len(<<>>) = 0
    OBVIOUS
  <2>4. QED
    BY <2>2, <2>3
<1>3. PICK h : Joins(h, Glyph, ts)
  BY <1>2, FlattenRuns
<1>4. /\ \A j \in 1 .. n : h[j] \in Seq(Glyph)
      /\ h[1] = ts[1]
      /\ \A j \in 2 .. n : h[j] = h[j - 1] \o ts[j]
      /\ object = h[n]
  BY <1>2, <1>3 DEF Joins
<1>5. \A j \in 1 .. n : Begins(h[j], object)
  <2>1. \A j \in 1 .. Len(ts) : Begins(h[j], h[Len(ts)])
    BY <1>2, <1>3, BeginsFlattened
  <2>2. Len(ts) = n /\ object = h[n]
    BY <1>2, <1>4
  <2> HIDE DEF object
  <2>3. QED
    BY <2>1, <2>2
<1>6. Begins(object, rest) /\ Scans(d, rest)
  OBVIOUS
<1> HIDE DEF object
<1> DEFINE Edge(j) == IF j = 0 THEN 0 ELSE Len(h[j])
<1>7. Edge(0) = 0 /\ Edge(n) = Len(object) /\ \A j \in 0 .. n : Edge(j) \in Nat
  <2>1. \A j \in 1 .. n : Len(h[j]) \in Nat
    BY <1>4
  <2>2. \A j \in 0 .. n : j = 0 \/ j \in 1 .. n
    OBVIOUS
  <2>3. QED
    BY <1>4, <2>1, <2>2
<1>8. ASSUME NEW j \in 1 .. n
      PROVE  /\ Edge(j) = Edge(j - 1) + Len(ts[j])
             /\ \A i \in 1 .. Len(ts[j]) : h[j][Edge(j - 1) + i] = ts[j][i]
  <2>1. CASE j = 1
    <3>1. Edge(j - 1) = 0 /\ Edge(j) = Len(ts[j]) /\ h[j] = ts[j]
      BY <1>4, <2>1
    <3>2. Len(ts[j]) \in Nat
      BY <1>1
    <3> HIDE DEF Edge
    <3>3. \A i \in 1 .. Len(ts[j]) : 0 + i = i
      BY <3>2
    <3>4. QED
      BY <3>1, <3>2, <3>3
  <2>2. CASE j # 1
    <3>1. j \in 2 .. n /\ j - 1 \in 1 .. n /\ j # 0 /\ j - 1 # 0
      BY <2>2
    <3>2. Edge(j) = Len(h[j]) /\ Edge(j - 1) = Len(h[j - 1])
      BY <3>1
    <3>3. h[j] = h[j - 1] \o ts[j] /\ h[j - 1] \in Seq(Glyph) /\ ts[j] \in Seq(Glyph)
      BY <1>1, <1>4, <3>1
    <3> HIDE DEF Edge
    <3>4. /\ Len(h[j]) = Len(h[j - 1]) + Len(ts[j])
          /\ \A i \in 1 .. Len(ts[j]) : h[j][Len(h[j - 1]) + i] = ts[j][i]
      <4> DEFINE b == h[j - 1]
                 t == ts[j]
      <4>1. b \in Seq(Glyph) /\ t \in Seq(Glyph)
        BY <3>3
      <4> HIDE DEF b, t
      <4>2. /\ Len(b \o t) = Len(b) + Len(t)
            /\ \A i \in 1 .. Len(t) : (b \o t)[Len(b) + i] = t[i]
        BY <4>1, BeginsJoined
      <4>3. h[j] = b \o t
        BY <3>3 DEF b, t
      <4>4. QED
        BY <4>2, <4>3, Zenon DEF b, t
    <3>5. QED
      BY <3>2, <3>4
  <2>3. QED
    BY <2>1, <2>2
<1>9. ASSUME NEW j \in 1 .. n
      PROVE  /\ Edge(j) <= Len(object)
             /\ \A i \in 1 .. Len(ts[j]) : /\ Edge(j - 1) + i \in 1 .. Len(object)
                                           /\ object[Edge(j - 1) + i] = ts[j][i]
  <2>1. Edge(j) = Len(h[j]) /\ Begins(h[j], object)
    BY <1>5
  <2>2. j \in 0 .. n /\ j - 1 \in 0 .. n /\ n \in 0 .. n
    OBVIOUS
  <2>3. Edge(j) \in Nat /\ Edge(j - 1) \in Nat /\ Len(object) \in Nat /\ Len(ts[j]) \in Nat
    BY <1>1, <1>7, <2>2
  <2>4. Edge(j) = Edge(j - 1) + Len(ts[j])
    BY <1>8
  <2>5. Edge(j) <= Len(object) /\ \A i \in 1 .. Edge(j) : object[i] = h[j][i]
    BY <2>1 DEF Begins
  <2> HIDE DEF Edge
  <2>6. ASSUME NEW i \in 1 .. Len(ts[j])
        PROVE  /\ Edge(j - 1) + i \in 1 .. Len(object)
               /\ object[Edge(j - 1) + i] = ts[j][i]
    <3>1. Edge(j - 1) + i \in 1 .. Edge(j) /\ Edge(j - 1) + i \in 1 .. Len(object)
      BY <2>3, <2>4, <2>5
    <3>2. h[j][Edge(j - 1) + i] = ts[j][i]
      BY <1>8
    <3>3. QED
      BY <2>5, <3>1, <3>2
  <2>7. QED
    BY <2>5, <2>6
<1>10. /\ Len(object) <= Len(rest) /\ Len(rest) \in Nat /\ Len(object) \in Nat
       /\ \A i \in 1 .. Len(object) : rest[i] = object[i]
  <2>1. n \in 0 .. n
    OBVIOUS
  <2>2. QED
    BY <1>6, <1>7, <2>1 DEF Begins
<1> HIDE DEF Edge
<1>11. ASSUME NEW j \in 1 .. n
       PROVE  Reads(d, ts[j], Edge(j - 1))
  <2> SUFFICES ASSUME NEW i \in 1 .. Len(ts[j])
               PROVE  d[Edge(j - 1) + i] = Scan(d[Edge(j - 1) + i - 1], ts[j][i], Edge(j - 1) + i)
    BY DEF Reads
  <2> DEFINE k == Edge(j - 1) + i
  <2>1. k \in 1 .. Len(object) /\ object[k] = ts[j][i]
    BY <1>9
  <2>0. k = Edge(j - 1) + i /\ k - 1 = Edge(j - 1) + i - 1
    <3>1. j - 1 \in 0 .. n
      OBVIOUS
    <3>2. Edge(j - 1) \in Nat /\ i \in Int
      BY <1>7, <3>1
    <3>3. QED
      BY <3>2
  <2> HIDE DEF k
  <2>2. k \in 1 .. Len(rest) /\ rest[k] = object[k]
    BY <1>10, <2>1
  <2>3. d[k] = Scan(d[k - 1], rest[k], k)
    BY <1>6, <2>2 DEF Scans
  <2>4. d[k] = Scan(d[k - 1], ts[j][i], k)
    BY <2>1, <2>2, <2>3
  <2>5. QED
    BY <2>0, <2>4, Zenon
<1>12. /\ Depth(ts, 0) = 0
       /\ \A j \in 0 .. n : Depth(ts, j) \in Int
       /\ \A j \in 1 .. n : Depth(ts, j) = Depth(ts, j - 1) + Rise(ts[j])
  BY DepthSteps
<1> DEFINE Stands(j) == IF j < n THEN Outside(d[Edge(j)], Depth(ts, j)) ELSE Ended(d[Edge(j)], Edge(j))
           D == {j \in 0 .. n : Stands(j)}
           g == [j \in 0 .. n |-> j]
<1>13. \A j \in 0 .. n : g[j] = j
  OBVIOUS
<1> HIDE DEF g, Stands
<1>14. g[0] \in D
  <2>1. d[0] = Scanning
    BY <1>6 DEF Scans
  <2>2. Outside(Scanning, 0)
    BY DEF Scanning, Outside, ScanState
  <2>3. 0 < n /\ 0 \in 0 .. n
    OBVIOUS
  <2>4. Stands(0)
    BY <1>7, <1>12, <2>1, <2>2, <2>3 DEF Stands
  <2>5. QED
    BY <1>13, <2>3, <2>4
<1>15. ASSUME NEW j \in 1 .. n, g[j - 1] \in D PROVE g[j] \in D
  <2> DEFINE c == Depth(ts, j - 1)
             e == Depth(ts, j)
             p == Edge(j - 1)
             t == ts[j]
  <2>1. j - 1 \in 0 .. n /\ j \in 0 .. n /\ j - 1 < n
    OBVIOUS
  <2>2. Stands(j - 1)
    BY <1>13, <1>15, <2>1
  <2>3. Outside(d[p], c)
    BY <2>1, <2>2 DEF Stands
  <2>4. p \in Nat /\ c \in Int /\ e \in Int /\ t \in Token /\ Reads(d, t, p)
    BY <1>1, <1>7, <1>11, <1>12, <2>1
  <2>5. e = c + Rise(t) /\ Edge(j) = p + Len(t)
    BY <1>8, <1>12
  <2>6. j < n => e > 0
    <3>1. j < n => j \in 1 .. n - 1
      OBVIOUS
    <3>2. QED
      BY <3>1
  <2>7. j = n => e = 0 /\ c > 0
    <3>1. j = n => j - 1 \in 1 .. n - 1
      OBVIOUS
    <3>2. QED
      BY <3>1
  <2> HIDE DEF c, e, p, t
  <2>8. Rise(t) = (IF Opens(t) THEN 1 ELSE IF Closes(t) THEN -1 ELSE 0) /\ ~ (Opens(t) /\ Closes(t))
    <3>1. ~ (Opens(t) /\ Closes(t))
      BY <2>4, TokenShapes
    <3>2. QED
      BY <3>1 DEF Rise
  <2>9. /\ Closes(t) /\ c = 1 => Ended(d[p + Len(t)], p + Len(t))
        /\ ~ (Closes(t) /\ c = 1) => Outside(d[p + Len(t)], c + Rise(t))
    BY <2>3, <2>4, TokenScanned
  <2>10. Stands(j)
    <3>1. CASE j < n
      <4>1. ~ (Closes(t) /\ c = 1)
        BY <2>4, <2>5, <2>6, <2>8, <3>1
      <4>2. Outside(d[Edge(j)], e)
        BY <2>5, <2>9, <4>1
      <4>3. QED
        BY <3>1, <4>2 DEF Stands, e
    <3>2. CASE ~ (j < n)
      <4>1. j = n
        BY <3>2
      <4>2. Closes(t) /\ c = 1
        BY <2>4, <2>5, <2>7, <2>8, <4>1
      <4>3. Ended(d[Edge(j)], Edge(j))
        BY <2>5, <2>9, <4>2
      <4>4. QED
        BY <3>2, <4>3 DEF Stands
    <3>3. QED
      BY <3>1, <3>2
  <2>11. QED
    BY <1>13, <2>1, <2>10
<1>16. \A j \in 0 .. n : g[j] \in D
  <2> HIDE DEF D
  <2> QED BY <1>14, <1>15, Steps
<1>17. Ended(d[Len(object)], Len(object))
  <2>1. n \in 0 .. n /\ ~ (n < n)
    OBVIOUS
  <2>2. Stands(n)
    BY <1>13, <1>16, <2>1
  <2>3. QED
    BY <1>7, <2>1, <2>2 DEF Stands
<1>18. Len(object) \in 1 .. Len(rest)
  <2>1. n \in 1 .. n /\ n - 1 \in 0 .. n
    OBVIOUS
  <2>2. Edge(n) = Edge(n - 1) + Len(ts[n]) /\ Edge(n - 1) \in Nat /\ Len(ts[n]) \in Nat \ {0}
    BY <1>1, <1>7, <1>8, <2>1
  <2>3. Len(object) # 0
    BY <1>7, <2>2
  <2>4. QED
    BY <1>10, <2>3
<1>19. Ended(d[Len(rest)], Len(object))
  BY <1>6, <1>10, <1>17, <1>18, EndStays
<1>20. QED
  BY <1>18, <1>19 DEF object

(* What parseJSON makes of a text whose object is found.                     *)
Found(u) ==
  LET start == FirstAt(u, "{")
      rest == SubSeq(u, start, Len(u))
  IN  IF start = 0 THEN <<>> ELSE SubSeq(rest, 1, ScanOf(rest)[Len(rest)].end)

(* It is what parseJSON computes of the text without fences.                *)
LEMMA ParseFinds ==
  ASSUME NEW text
  PROVE  parseJSON(text) = Found(Keeping(text, ToSet(text) \ {"fence"}))
BY Zenon DEF parseJSON, Found, ScanOf, FirstAt

(* What surrounds an object in ObjectsAreFound.                             *)
Before == {<<>>, <<"fence">>, <<"y", "quote", "}">>}
After == {<<>>, <<"fence", "}">>, <<"quote", "{", "y">>}
Sign == Glyph \cup {"fence"}

(* No brace opens before the object.                                        *)
LEMMA Around ==
  /\ \A b \in Before : b \in Seq(Sign) /\ "{" \notin ToSet(b)
  /\ \A a \in After : a \in Seq(Sign)
<1>1. <<>> \in Seq(Sign) /\ "{" \notin ToSet(<<>>)
  BY DEF ToSet
<1>2. <<"fence">> \in Seq(Sign) /\ "{" \notin ToSet(<<"fence">>)
  <2>1. <<"fence">> \in Seq(Sign)
    BY DEF Sign
  <2>2. ToSet(<<"fence">>) = {"fence"}
    BY DEF ToSet
  <2>3. QED
    BY <2>1, <2>2
<1>3. <<"y", "quote", "}">> \in Seq(Sign) /\ "{" \notin ToSet(<<"y", "quote", "}">>)
  <2>1. <<"y", "quote", "}">> \in Seq(Sign)
    BY DEF Sign, Glyph
  <2> DEFINE s == <<"y", "quote", "}">>
  <2>2. DOMAIN s = 1 .. 3
    OBVIOUS
  <2>3. s[1] # "{" /\ s[2] # "{" /\ s[3] # "{"
    OBVIOUS
  <2> HIDE DEF s
  <2>4. \A i \in 1 .. 3 : i = 1 \/ i = 2 \/ i = 3
    OBVIOUS
  <2>5. \A i \in DOMAIN s : s[i] # "{"
    BY <2>2, <2>3, <2>4, Zenon
  <2>6. "{" \notin ToSet(s)
    BY <2>5, Zenon DEF ToSet
  <2>7. QED
    BY <2>1, <2>6 DEF s
<1>4. <<"fence", "}">> \in Seq(Sign) /\ <<"quote", "{", "y">> \in Seq(Sign)
  BY DEF Sign, Glyph
<1>5. QED
  BY <1>1, <1>2, <1>3, <1>4, Zenon DEF Before, After

(* A list of tokens that makes an object.                                    *)
Balanced(ts, n) ==
  /\ ts \in [1 .. n -> Token]
  /\ Opens(ts[1])
  /\ Depth(ts, n) = 0
  /\ \A j \in 1 .. n - 1 : Depth(ts, j) > 0

(* An object is found, whatever surrounds it.                               *)
LEMMA ObjectFound ==
  ASSUME NEW n \in Nat, n >= 2, NEW ts, Balanced(ts, n), NEW before \in Before, NEW after \in After
  PROVE  parseJSON(before \o FlattenSeq(ts) \o after) = FlattenSeq(ts)
<1> DEFINE object == FlattenSeq(ts)
           text == (before \o object) \o after
           keep == ToSet(text) \ {"fence"}
           b == Keeping(before, keep)
           a == Keeping(after, keep)
           u == (b \o object) \o a
           start == FirstAt(u, "{")
           rest == SubSeq(u, start, Len(u))
<1>1. before \in Seq(Sign) /\ "{" \notin ToSet(before) /\ after \in Seq(Sign)
  BY Around
<1>01. before \in Seq(Sign) /\ after \in Seq(Sign)
  BY <1>1
<1>0. ts \in [1 .. n -> Token]
  BY DEF Balanced
<1>2. ts \in Seq(Seq(Sign)) /\ Len(ts) = n /\ ts # <<>>
  <2>1. Glyph \subseteq Sign
    BY DEF Sign
  <2>2. \A t \in Seq(Glyph) : t \in Seq(Sign)
    BY <2>1
  <2>3. ts \in [1 .. n -> Seq(Sign)]
    BY <1>0, <2>2, TokenType
  <2>4. ts \in Seq(Seq(Sign)) /\ Len(ts) = n
    BY <2>3
  <2>5. Len(<<>>) = 0
    OBVIOUS
  <2>6. QED
    BY <2>4, <2>5
<1>3. object \in Seq(Sign) /\ ToSet(object) = UNION {ToSet(ts[i]) : i \in DOMAIN ts}
  BY <1>2, FlattenAll
<1>4. "fence" \notin ToSet(object)
  <2>1. \A i \in DOMAIN ts : "fence" \notin ToSet(ts[i])
    <3> TAKE i \in DOMAIN ts
    <3>1. ts[i] \in Seq(Glyph)
      BY <1>0, TokenType
    <3>2. ToSet(ts[i]) \subseteq Glyph
      BY <3>1 DEF ToSet
    <3>3. "fence" \notin Glyph
      BY DEF Glyph
    <3>4. QED
      BY <3>2, <3>3
  <2> HIDE DEF object
  <2>2. QED
    BY <1>3, <2>1
<1>5. Len(object) # 0 /\ object[1] = "{"
  <2>1. PICK h : Joins(h, Sign, ts)
    BY <1>2, FlattenRuns
  <2>2. Begins(h[1], h[n]) /\ h[1] = ts[1] /\ object = h[n] /\ h[n] \in Seq(Sign)
    <3>1. \A j \in 1 .. Len(ts) : Begins(h[j], h[Len(ts)])
      BY <1>2, <2>1, BeginsFlattened
    <3>2. 1 \in 1 .. n /\ n \in 1 .. n
      OBVIOUS
    <3>3. h[1] = ts[1] /\ object = h[n] /\ h[n] \in Seq(Sign)
      BY <1>2, <2>1, <3>2 DEF Joins
    <3>4. Begins(h[1], h[n])
      BY <1>2, <3>1, <3>2
    <3>5. QED
      BY <3>3, <3>4
  <2>3. Len(h[1]) = 1 /\ h[1][1] = "{"
    <3>1. h[1] = <<"{">>
      BY <2>2, Zenon DEF Balanced, Opens
    <3>2. Len(<<"{">>) = 1 /\ <<"{">>[1] = "{"
      OBVIOUS
    <3>3. QED
      BY <3>1, <3>2, Zenon
  <2> HIDE DEF object
  <2>4. Len(h[1]) <= Len(object) /\ Len(object) \in Nat /\ \A i \in 1 .. Len(h[1]) : object[i] = h[1][i]
    BY <1>3, <2>2 DEF Begins
  <2>5. 1 \in 1 .. 1
    OBVIOUS
  <2>6. object[1] = h[1][1]
    BY <2>3, <2>4, <2>5
  <2>7. Len(object) # 0
    <3>1. Len(h[1]) = 1 /\ Len(h[1]) <= Len(object) /\ Len(object) \in Nat
      BY <2>3, <2>4
    <3> DEFINE k == Len(object)
               e == Len(h[1])
    <3>2. e = 1 /\ e <= k /\ k \in Nat
      BY <3>1
    <3> HIDE DEF k, e
    <3>3. k # 0
      BY <3>2
    <3>4. QED
      BY <3>3 DEF k
  <2>8. QED
    BY <2>3, <2>6, <2>7
<1>6. \A r \in Seq(Sign) : \A d : Begins(object, r) /\ Scans(d, r) =>
         Ended(d[Len(r)], Len(object)) /\ Len(object) \in 1 .. Len(r)
  BY <1>0, ObjectScanned DEF Balanced
<1>31. object \in Seq(Sign)
  BY <1>3
<1> HIDE DEF object
<1>7. ToSet(object) \subseteq keep
  <2> DEFINE v == before \o object
  <2>1. v \in Seq(Sign) /\ ToSet(v) = ToSet(before) \cup ToSet(object)
    BY <1>01, <1>31, Joined
  <2>0. v \in Seq(Sign)
    BY <1>01, <1>31
  <2> HIDE DEF v
  <2>2. ToSet(v \o after) = ToSet(v) \cup ToSet(after)
    BY <1>01, <2>0, Joined
  <2>3. ToSet(object) \subseteq ToSet(v \o after)
    BY <2>1, <2>2
  <2>4. QED
    BY <1>4, <2>3 DEF v
<1>8. Keeping(text, keep) = u
  <2> HIDE DEF keep
  <2>1. Keeping(object, keep) = object
    <3>1. \A i \in 1 .. Len(object) : object[i] \in keep
      <4>1. \A i \in 1 .. Len(object) : object[i] \in ToSet(object)
        BY <1>3 DEF ToSet
      <4>2. QED
        BY <1>7, <4>1
    <3>2. QED
      BY <1>31, <3>1, KeepingAll
  <2>2. Keeping(before \o object, keep) = b \o object
    <3>1. Keeping(before \o object, keep) = b \o Keeping(object, keep)
      BY <1>01, <1>31, KeepingJoined
    <3>2. QED
      BY <2>1, <3>1, Zenon
  <2>3. before \o object \in Seq(Sign)
    BY <1>01, <1>31
  <2> DEFINE v == before \o object
  <2>4. v \in Seq(Sign)
    BY <2>3
  <2> HIDE DEF v
  <2>5. Keeping(v \o after, keep) = Keeping(v, keep) \o a
    BY <1>01, <2>4, KeepingJoined
  <2>6. QED
    BY <2>2, <2>5 DEF v
<1>9. /\ b \in Seq(Sign) /\ a \in Seq(Sign)
      /\ \A i \in 1 .. Len(b) : b[i] # "{"
  <2> HIDE DEF keep
  <2>1. b \in Seq(Sign) /\ ToSet(b) = ToSet(before) \cap keep /\ a \in Seq(Sign)
    BY <1>1, KeepingKeeps
  <2> HIDE DEF b
  <2>2. \A i \in 1 .. Len(b) : b[i] \in ToSet(b)
    BY <2>1 DEF ToSet
  <2>3. QED
    BY <1>1, <2>1, <2>2
<1> HIDE DEF a, b
<1>10. start # 0 /\ rest \in Seq(Sign) /\ Begins(object, rest)
  BY <1>3, <1>5, <1>9, FirstOne
<1>11. Found(u) = SubSeq(rest, 1, ScanOf(rest)[Len(rest)].end)
  BY <1>10, Zenon DEF Found
<1>12. parseJSON(text) = Found(u)
  BY <1>8, ParseFinds, Zenon
<1> HIDE DEF rest, text
<1>13. Scans(ScanOf(rest), rest)
  BY <1>10, ScanRuns
<1>14. Ended(ScanOf(rest)[Len(rest)], Len(object)) /\ Len(object) \in 1 .. Len(rest)
  BY <1>6, <1>10, <1>13
<1>15. SubSeq(rest, 1, Len(object)) = object
  <2> DEFINE sub == SubSeq(rest, 1, Len(object))
  <2>0. rest \in Seq(Sign) /\ Len(object) \in 1 .. Len(rest)
    BY <1>10, <1>14
  <2>1. /\ Len(object) \in Nat
        /\ \A i \in 1 .. Len(object) : rest[i] = object[i]
    <3>1. Begins(object, rest)
      BY <1>10
    <3>2. QED
      BY <1>31, <3>1 DEF Begins
  <2>2. sub \in Seq(Sign) /\ Len(sub) = Len(object) /\ \A i \in 1 .. Len(object) : sub[i] = rest[i]
    BY <2>0
  <2> HIDE DEF sub
  <2>3. sub = object
    BY <1>31, <2>1, <2>2
  <2>4. QED
    BY <2>3 DEF sub
<1>16. parseJSON(text) = object
  BY <1>11, <1>12, <1>14, <1>15, Zenon DEF Ended
<1>17. QED
  BY <1>16 DEF text, object

(* The object of an answer is found whole, however long it is.               *)
LEMMA ObjectsFound == ObjectsAreFound
<1> SUFFICES ASSUME NEW object \in Objects, NEW before \in Before, NEW after \in After
             PROVE  parseJSON(before \o object \o after) = object
  BY Zenon DEF ObjectsAreFound, Before, After
<1>1. PICK ts \in UNION {[1 .. n -> Token] : n \in 2 .. MaxTokens} :
         /\ object = FlattenSeq(ts)
         /\ ts[1] = <<"{">>
         /\ Depth(ts, Len(ts)) = 0
         /\ \A j \in 1 .. Len(ts) - 1 : Depth(ts, j) > 0
  BY Zenon DEF Objects
<1>2. PICK n \in 2 .. MaxTokens : ts \in [1 .. n -> Token]
  OBVIOUS
<1>3. MaxTokens \in Nat
  BY AnswerAssumption
<1>4. n \in Nat /\ n >= 2
  BY <1>3
<1>5. Len(ts) = n
  <2>1. ts \in Seq(Token) /\ Len(ts) = n
    BY <1>2, <1>4
  <2>2. QED
    BY <2>1
<1>6. Balanced(ts, n)
  BY <1>1, <1>2, <1>5, Zenon DEF Balanced, Opens
<1>7. parseJSON(before \o FlattenSeq(ts) \o after) = FlattenSeq(ts)
  BY <1>4, <1>6, ObjectFound
<1>8. QED
  BY <1>1, <1>7

(* Whatever the texts of users, hints and answers, they are read as the     *)
(* comments of the code promise (validate.go, parser.go), and no stored     *)
(* round holds a question twice.                                            *)
THEOREM TextReadSafely == Spec => []TextIsReadSafely
<1>1. IInv => \A s \in Subject : game[s] # None => IsInjective(game[s].turns)
  BY DEF IInv, RoundOf
<1>2. IInv => TextIsReadSafely
  BY <1>1, ObjectsFound, HintsRedacted, RepeatsSeen, GarbageLoses DEF TextIsReadSafely
<1>3. QED
  BY Inductive, <1>2, PTL

============================================================================
