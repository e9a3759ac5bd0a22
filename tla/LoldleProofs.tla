---------------------------- MODULE LoldleProofs ----------------------------
(* Proofs about Loldle for every set of workers, subjects and champions,    *)
(* every list of champions and every length of a round.                     *)
EXTENDS Loldle, Loops

(* What a handler has found out by the time it is at each label.            *)
ControlOf(w) ==
  /\ pc[w] = "setmax" => req[w].subject \in Subject /\ InRange(req[w].n)
  /\ pc[w] \in {"lock"} \cup Locking =>
       /\ req[w] \in Request
       /\ req[w].subject \in Subject
       /\ req[w].cmd \in {"loldle", "giveup"}
  /\ pc[w] \in {"getMax", "startFresh", "play"} => req[w].cmd = "loldle"
  /\ limit[w] \in (1 .. MaxGuessesCap) \cup {None}
  /\ pc[w] = "load" /\ req[w].cmd = "loldle" => limit[w] # None
  /\ pc[w] \in {"startFresh", "play"} => limit[w] # None

(* The round in its memory is the stored one, and one it replaces is spent. *)
MemoryOf(w) ==
  /\ pc[w] = "play" =>
       /\ round[w] \in Round /\ round[w] = game[req[w].subject]
       /\ round[w].target \notin ToSet(round[w].guesses)
       /\ IsInjective(round[w].guesses)
       /\ faulty[req[w].subject] \/ results[req[w].subject] = <<>>
  /\ pc[w] = "startFresh" /\ game[req[w].subject] # None =>
       Len(game[req[w].subject].guesses) >= limit[w]

(* Of a stored round: open, short of the cap, and counted only while a      *)
(* handler is about to clear it.                                            *)
RoundOf(s) ==
  game[s] # None =>
    /\ game[s].target \notin ToSet(game[s].guesses)
    /\ IsInjective(game[s].guesses)
    /\ Len(game[s].guesses) < MaxGuessesCap
    /\ \/ faulty[s]
       \/ results[s] = <<>>
       \/ \E w \in Worker : pc[w] = "clear" /\ req[w].subject = s

ClearingOf(w) ==
  LET s == req[w].subject
  IN  pc[w] = "clear" /\ ~faulty[s] /\ game[s] # None =>
        Len(results[s]) = 1 \/ game[s].target \notin roster

Types == TypeOK /\ faulty \in [Subject -> BOOLEAN]

IInv ==
  /\ Types
  /\ \A w \in Worker : ControlOf(w) /\ MemoryOf(w) /\ ClearingOf(w)
  /\ \A s \in Subject : RoundOf(s)

----------------------------------------------------------------------------

LEMMA RequestParts ==
  ASSUME NEW r \in Request
  PROVE  /\ r.subject \in Subject \cup {None}
         /\ r.cmd \in {"loldle", "giveup", "setmax"}
         /\ r.cmd = "loldle" => r.arg \in Champion \cup {NoArg}
BY DEF Request

LEMMA StatsStayStats ==
  /\ NoStats \in Stats
  /\ \A st \in Stats : \A won \in BOOLEAN : Scored(st, won) \in Stats
BY DEF NoStats, Stats, Scored

LEMMA LimitsInRange ==
  ASSUME TypeOK, NEW s \in Subject
  PROVE  EffectiveMax(s) \in 1 .. MaxGuessesCap
BY ConstantsAssumption DEF TypeOK, EffectiveMax, InRange, Settable

(* Appending a guess that is neither the target nor in the round keeps the  *)
(* round open.                                                              *)
LEMMA StaysOpen ==
  ASSUME NEW g \in Round, NEW c \in Champion,
         g.target \notin ToSet(g.guesses), IsInjective(g.guesses),
         c # g.target, c \notin ToSet(g.guesses)
  PROVE  LET h == [g EXCEPT !.guesses = Append(@, c)]
         IN  /\ h \in Round /\ h.target = g.target
             /\ h.target \notin ToSet(h.guesses) /\ IsInjective(h.guesses)
             /\ Len(h.guesses) = Len(g.guesses) + 1
<1> DEFINE h == [g EXCEPT !.guesses = Append(@, c)]
<1>1. /\ h.target = g.target /\ h.guesses = Append(g.guesses, c)
      /\ h \in Round /\ g.guesses \in Seq(Champion)
      /\ Len(h.guesses) = Len(g.guesses) + 1
  BY DEF Round
<1>2. /\ DOMAIN h.guesses = 1 .. Len(g.guesses) + 1
      /\ h.guesses[Len(g.guesses) + 1] = c
      /\ \A i \in 1 .. Len(g.guesses) : h.guesses[i] = g.guesses[i]
  BY <1>1
<1>3. DOMAIN g.guesses = 1 .. Len(g.guesses) /\ Len(g.guesses) \in Nat
  BY <1>1
<1> HIDE DEF h
<1>4. h.target \notin ToSet(h.guesses)
  BY <1>1, <1>2, <1>3 DEF ToSet
<1>5. IsInjective(h.guesses)
  <2>1. \A i \in 1 .. Len(g.guesses) : g.guesses[i] # c
    BY <1>3 DEF ToSet
  <2>2. ASSUME NEW i \in 1 .. Len(g.guesses), NEW j \in 1 .. Len(g.guesses),
               h.guesses[i] = h.guesses[j]
        PROVE  i = j
    BY <1>2, <1>3, <2>2 DEF IsInjective
  <2>3. QED
    BY <1>2, <1>3, <2>1, <2>2 DEF IsInjective
<1>6. QED
  BY <1>1, <1>4, <1>5 DEF h

LEMMA InitIInv == Init => IInv
<1> SUFFICES ASSUME Init
             PROVE  IInv
  OBVIOUS
<1>1. Types
  BY StatsStayStats DEF Init, Types, TypeOK, Locking
<1>2. ASSUME NEW w \in Worker
      PROVE  ControlOf(w) /\ MemoryOf(w) /\ ClearingOf(w)
  BY DEF Init, ControlOf, MemoryOf, ClearingOf, Locking
<1>3. ASSUME NEW s \in Subject
      PROVE  RoundOf(s)
  BY DEF Init, RoundOf
<1>4. QED
  BY <1>1, <1>2, <1>3 DEF IInv

----------------------------------------------------------------------------

(* The lock lets one handler at a time past Acquire for a subject.          *)
LEMMA OneHandlerPerSubject ==
  ASSUME TypeOK, NEW v \in Worker, NEW w \in Worker,
         pc[v] \in Locking, pc[w] \in Locking, req[v].subject = req[w].subject
  PROVE  v = w
BY DEF TypeOK

(* A worker before Acquire, or past its last call, leaves the invariant as  *)
(* it is for the others.                                                    *)
LEMMA OutsideFrame ==
  ASSUME IInv, NEW w \in Worker,
         pc[w] # "clear", pc'[w] # "clear",
         pc' = [pc EXCEPT ![w] = pc'[w]], req' = [req EXCEPT ![w] = req'[w]],
         limit' = [limit EXCEPT ![w] = limit'[w]],
         round' = [round EXCEPT ![w] = round'[w]],
         UNCHANGED <<game, roster, history>>,
         Types', ControlOf(w)', MemoryOf(w)'
  PROVE  IInv'
<1> USE DEF IInv, Types, TypeOK, history
<1>1. ASSUME NEW v \in Worker, v # w
      PROVE  ControlOf(v)' /\ MemoryOf(v)' /\ ClearingOf(v)'
  BY <1>1 DEF ControlOf, MemoryOf, ClearingOf, InRange, Settable, Locking
<1>2. ClearingOf(w)'
  BY DEF ClearingOf
<1>3. ASSUME NEW s \in Subject
      PROVE  RoundOf(s)'
  <2>1. ASSUME NEW v \in Worker, pc[v] = "clear" /\ req[v].subject = s
        PROVE  pc'[v] = "clear" /\ req'[v].subject = s
    BY <2>1
  <2>2. QED
    BY <2>1 DEF RoundOf
<1>4. QED
  BY <1>1, <1>2, <1>3

LEMMA ReceiveStep ==
  ASSUME IInv, NEW w \in Worker, NEW r \in Request, Receive(w, r)
  PROVE  IInv'
<1> USE DEF store, memory, history, Goto
<1>1. /\ pc[w] = "idle"
      /\ req' = [req EXCEPT ![w] = r]
      /\ pc' = [pc EXCEPT ![w] = pc'[w]]
      /\ pc'[w] \in {"reply", "setmax", "lock"}
      /\ UNCHANGED <<store, roster, lock, memory, history>>
  BY DEF Receive, IInv, Types, TypeOK
<1>2. /\ pc'[w] = "setmax" => r.subject \in Subject /\ InRange(r.n)
      /\ pc'[w] = "lock" => r.subject \in Subject /\ r.cmd \in {"loldle", "giveup"}
  BY RequestParts DEF Receive, IInv, Types, TypeOK
<1>3. Types'
  BY <1>1 DEF IInv, Types, TypeOK, Locking
<1>4. ControlOf(w)' /\ MemoryOf(w)'
  BY <1>1, <1>2 DEF IInv, Types, TypeOK, ControlOf, MemoryOf, Locking, InRange, Settable
<1>5. /\ limit' = [limit EXCEPT ![w] = limit'[w]]
      /\ round' = [round EXCEPT ![w] = round'[w]]
      /\ req' = [req EXCEPT ![w] = req'[w]]
  BY <1>1 DEF IInv, Types, TypeOK
<1>6. QED
  BY <1>1, <1>3, <1>4, <1>5, OutsideFrame

LEMMA SetMaxStep ==
  ASSUME IInv, NEW w \in Worker, SetMax(w)
  PROVE  IInv'
<1> USE DEF store, memory, history, Goto
<1>1. /\ pc[w] = "setmax"
      /\ pc' = [pc EXCEPT ![w] = "reply"]
      /\ UNCHANGED <<game, stats, roster, lock, req, memory, history>>
      /\ req[w].n \in 1 .. MaxGuessesCap
      /\ config' \in {config, [config EXCEPT ![req[w].subject] = req[w].n]}
  BY DEF SetMax, IInv, ControlOf, InRange, Settable
<1>2. config' \in [Subject -> (1 .. MaxGuessesCap) \cup {None}]
  BY <1>1 DEF IInv, Types, TypeOK
<1>3. Types'
  BY <1>1, <1>2 DEF IInv, Types, TypeOK, Locking
<1>4. ControlOf(w)' /\ MemoryOf(w)'
  BY <1>1 DEF IInv, Types, TypeOK, ControlOf, MemoryOf, Locking
<1>5. /\ limit' = [limit EXCEPT ![w] = limit'[w]]
      /\ round' = [round EXCEPT ![w] = round'[w]]
      /\ req' = [req EXCEPT ![w] = req'[w]]
      /\ pc' = [pc EXCEPT ![w] = pc'[w]] /\ pc'[w] = "reply"
  BY <1>1 DEF IInv, Types, TypeOK
<1>6. QED
  BY <1>1, <1>3, <1>4, <1>5, OutsideFrame

LEMMA AcquireStep ==
  ASSUME IInv, NEW w \in Worker, Acquire(w)
  PROVE  IInv'
<1> USE DEF store, memory, history, Goto
<1>1. /\ pc[w] = "lock" /\ req[w].subject \in Subject
      /\ lock[req[w].subject] = None
      /\ lock' = [lock EXCEPT ![req[w].subject] = w]
      /\ pc' = [pc EXCEPT ![w] = pc'[w]]
      /\ pc'[w] \in {"getMax", "load"}
      /\ pc'[w] = "getMax" => req[w].cmd = "loldle"
      /\ pc'[w] = "load" => req[w].cmd # "loldle"
      /\ UNCHANGED <<store, roster, req, memory, history>>
  BY DEF Acquire, IInv, Types, TypeOK, ControlOf
<1>2. Types'
  <2>1. ASSUME NEW v \in Worker, pc'[v] \in Locking
        PROVE  lock'[req'[v].subject] = v
    BY <1>1, <2>1, ConstantsAssumption DEF IInv, Types, TypeOK, Locking
  <2>2. lock' \in [Subject -> Worker \cup {None}]
    BY <1>1 DEF IInv, Types, TypeOK
  <2>3. pc' \in [Worker -> {"idle", "reply", "setmax", "lock"} \cup Locking]
    BY <1>1 DEF IInv, Types, TypeOK, Locking
  <2>4. QED
    BY <1>1, <2>1, <2>2, <2>3 DEF IInv, Types, TypeOK
<1>3. ControlOf(w)' /\ MemoryOf(w)'
  BY <1>1 DEF IInv, Types, TypeOK, ControlOf, MemoryOf, Locking
<1>4. /\ limit' = [limit EXCEPT ![w] = limit'[w]]
      /\ round' = [round EXCEPT ![w] = round'[w]]
      /\ req' = [req EXCEPT ![w] = req'[w]]
  BY <1>1 DEF IInv, Types, TypeOK
<1>5. QED
  BY <1>1, <1>2, <1>3, <1>4, OutsideFrame

LEMMA ForgetStep ==
  ASSUME IInv, NEW w \in Worker, ReplyUnlocked(w) \/ ReturnAndUnlock(w)
  PROVE  IInv'
<1> USE DEF store, history, Goto, Forget
<1>1. /\ pc[w] \in {"reply", "done"}
      /\ pc' = [pc EXCEPT ![w] = "idle"]
      /\ req' = [req EXCEPT ![w] = Idle]
      /\ limit' = [limit EXCEPT ![w] = None]
      /\ round' = [round EXCEPT ![w] = None]
      /\ score' = [score EXCEPT ![w] = NoStats]
      /\ UNCHANGED <<store, roster, history>>
      /\ \/ UNCHANGED lock
         \/ pc[w] = "done" /\ lock' = [lock EXCEPT ![req[w].subject] = None]
  BY DEF ReplyUnlocked, ReturnAndUnlock
<1>2. Types'
  <2>1. ASSUME NEW v \in Worker, pc'[v] \in Locking
        PROVE  lock'[req'[v].subject] = v
    <3>1. v # w /\ pc[v] \in Locking /\ req'[v] = req[v] /\ lock[req[v].subject] = v
      BY <1>1, <2>1 DEF IInv, Types, TypeOK, Locking
    <3>2. pc[w] = "done" => req[v].subject # req[w].subject
      BY <3>1, OneHandlerPerSubject DEF IInv, Types, Locking
    <3>3. req[v].subject \in Subject
      BY <3>1 DEF IInv, ControlOf
    <3>4. QED
      BY <1>1, <3>1, <3>2, <3>3 DEF IInv, Types, TypeOK
  <2>2. lock' \in [Subject -> Worker \cup {None}]
    BY <1>1 DEF IInv, Types, TypeOK
  <2>3. pc' \in [Worker -> {"idle", "reply", "setmax", "lock"} \cup Locking]
    BY <1>1 DEF IInv, Types, TypeOK, Locking
  <2>4. QED
    BY <1>1, <2>1, <2>2, <2>3, StatsStayStats DEF IInv, Types, TypeOK
<1>3. ControlOf(w)' /\ MemoryOf(w)'
  BY <1>1 DEF IInv, Types, TypeOK, ControlOf, MemoryOf, Locking
<1>4. /\ limit' = [limit EXCEPT ![w] = limit'[w]]
      /\ round' = [round EXCEPT ![w] = round'[w]]
      /\ req' = [req EXCEPT ![w] = req'[w]]
      /\ pc' = [pc EXCEPT ![w] = pc'[w]] /\ pc'[w] = "idle"
  BY <1>1 DEF IInv, Types, TypeOK
<1>5. QED
  BY <1>1, <1>2, <1>3, <1>4, OutsideFrame

----------------------------------------------------------------------------

(* A call of the handler that holds a subject's lock changes what concerns  *)
(* the subject and this worker only, and is judged by them alone.           *)
LockedFrame(w, s) ==
  /\ UNCHANGED <<config, roster, lock, req>>
  /\ pc' = [pc EXCEPT ![w] = pc'[w]]
  /\ limit' = [limit EXCEPT ![w] = limit'[w]]
  /\ round' = [round EXCEPT ![w] = round'[w]]
  /\ score' = [score EXCEPT ![w] = score'[w]]
  /\ game' = [game EXCEPT ![s] = game'[s]]
  /\ stats' = [stats EXCEPT ![s] = stats'[s]]
  /\ results' = [results EXCEPT ![s] = results'[s]]
  /\ faulty' = [faulty EXCEPT ![s] = faulty'[s]]

NewTypes(w, s) ==
  /\ pc'[w] \in Locking
  /\ limit'[w] \in Nat \cup {None}
  /\ round'[w] \in Round \cup {None}
  /\ score'[w] \in Stats
  /\ game'[s] \in Round \cup {None}
  /\ stats'[s] \in Stats
  /\ results'[s] \in Seq(BOOLEAN)
  /\ faulty'[s] \in BOOLEAN

LEMMA LockedStep ==
  ASSUME IInv, NEW w \in Worker, NEW s \in Subject,
         pc[w] \in Locking, req[w].subject = s,
         LockedFrame(w, s), NewTypes(w, s),
         ControlOf(w)', MemoryOf(w)', ClearingOf(w)', RoundOf(s)'
  PROVE  IInv'
<1> USE DEF IInv, Types, TypeOK, LockedFrame, NewTypes
<1>1. Types'
  <2>1. ASSUME NEW v \in Worker, pc'[v] \in Locking
        PROVE  lock'[req'[v].subject] = v
    BY <2>1 DEF Locking
  <2>2. pc' \in [Worker -> {"idle", "reply", "setmax", "lock"} \cup Locking]
    OBVIOUS
  <2>3. /\ limit' \in [Worker -> Nat \cup {None}]
        /\ round' \in [Worker -> Round \cup {None}]
        /\ score' \in [Worker -> Stats]
        /\ game' \in [Subject -> Round \cup {None}]
    OBVIOUS
  <2>4. /\ stats' \in [Subject -> Stats]
        /\ results' \in [Subject -> Seq(BOOLEAN)]
        /\ faulty' \in [Subject -> BOOLEAN]
    OBVIOUS
  <2>5. QED
    BY <2>1, <2>2, <2>3, <2>4
<1>2. ASSUME NEW v \in Worker, v # w
      PROVE  ControlOf(v)' /\ MemoryOf(v)' /\ ClearingOf(v)'
  <2>1. pc[v] \in Locking => req[v].subject \in Subject /\ req[v].subject # s
    BY <1>2, OneHandlerPerSubject DEF ControlOf
  <2>2. /\ pc'[v] = pc[v] /\ req'[v] = req[v]
        /\ limit'[v] = limit[v] /\ round'[v] = round[v]
    BY <1>2
  <2>3. ControlOf(v)'
    BY <2>2 DEF ControlOf, InRange, Settable
  <2>4. MemoryOf(v)'
    BY <2>1, <2>2 DEF MemoryOf, Locking
  <2>5. ClearingOf(v)'
    <3>1. ASSUME pc[v] = "clear"
          PROVE  LET t == req[v].subject
                 IN  /\ game'[t] = game[t] /\ results'[t] = results[t]
                     /\ faulty'[t] = faulty[t]
      BY <2>1, <3>1 DEF Locking
    <3>2. QED
      BY <2>2, <3>1 DEF ClearingOf
  <2>6. QED
    BY <2>3, <2>4, <2>5
<1>3. ASSUME NEW t \in Subject, t # s
      PROVE  RoundOf(t)'
  <2>1. ASSUME NEW v \in Worker, pc[v] = "clear" /\ req[v].subject = t
        PROVE  pc'[v] = "clear" /\ req'[v].subject = t
    BY <1>3, <2>1
  <2>2. game'[t] = game[t] /\ results'[t] = results[t] /\ faulty'[t] = faulty[t]
    BY <1>3
  <2>3. QED
    BY <2>1, <2>2 DEF RoundOf
<1>4. QED
  BY <1>1, <1>2, <1>3

LEMMA LockedFacts ==
  ASSUME IInv, NEW w \in Worker, pc[w] \in Locking
  PROVE  LET s == req[w].subject
         IN  /\ s \in Subject
             /\ req[w] \in Request /\ req[w].cmd \in {"loldle", "giveup"}
             /\ limit[w] \in (1 .. MaxGuessesCap) \cup {None}
             /\ round[w] \in Round \cup {None}
             /\ score[w] \in Stats
             /\ game[s] \in Round \cup {None}
             /\ stats[s] \in Stats
             /\ results[s] \in Seq(BOOLEAN)
             /\ faulty[s] \in BOOLEAN
             /\ game[s] # None /\ ~faulty[s] /\ pc[w] # "clear" => results[s] = <<>>
<1> DEFINE s == req[w].subject
<1>1. s \in Subject /\ req[w] \in Request /\ req[w].cmd \in {"loldle", "giveup"}
  BY DEF IInv, ControlOf
<1>2. ASSUME pc[w] # "clear", NEW v \in Worker, pc[v] = "clear", req[v].subject = s
      PROVE  FALSE
  BY <1>2, OneHandlerPerSubject DEF IInv, Types, Locking
<1>3. game[s] # None /\ ~faulty[s] /\ pc[w] # "clear" => results[s] = <<>>
  BY <1>1, <1>2 DEF IInv, RoundOf
<1>4. QED
  BY <1>1, <1>3 DEF IInv, Types, TypeOK, ControlOf

LEMMA GetMaxStep ==
  ASSUME IInv, NEW w \in Worker, GetMaxGuesses(w)
  PROVE  IInv'
<1> USE DEF store, memory, history, Goto, Fails
<1>0. pc[w] \in Locking
  BY DEF GetMaxGuesses, Locking
<1>a. PICK s \in Subject : s = req[w].subject
  BY <1>0, LockedFacts
<1>1. /\ s = req[w].subject
      /\ req[w] \in Request /\ req[w].cmd \in {"loldle", "giveup"}
      /\ limit[w] \in (1 .. MaxGuessesCap) \cup {None}
      /\ round[w] \in Round \cup {None}
      /\ score[w] \in Stats
      /\ game[s] \in Round \cup {None}
      /\ stats[s] \in Stats
      /\ results[s] \in Seq(BOOLEAN)
      /\ faulty[s] \in BOOLEAN
      /\ game[s] # None /\ ~faulty[s] /\ pc[w] # "clear" => results[s] = <<>>
  BY <1>0, <1>a, LockedFacts
<1>2. /\ pc[w] = "getMax" /\ req[w].cmd = "loldle"
      /\ UNCHANGED <<store, roster, lock, req, round, score, results>>
      /\ \/ /\ limit' = [limit EXCEPT ![w] = EffectiveMax(s)]
            /\ pc' = [pc EXCEPT ![w] = "load"]
            /\ UNCHANGED faulty
         \/ /\ pc' = [pc EXCEPT ![w] = "done"]
            /\ faulty' = [faulty EXCEPT ![s] = TRUE]
            /\ UNCHANGED limit
  BY <1>1 DEF GetMaxGuesses, IInv, ControlOf
<1>3. EffectiveMax(s) \in 1 .. MaxGuessesCap /\ MaxGuessesCap \in Nat
  BY <1>1, LimitsInRange, ConstantsAssumption DEF IInv, Types
<1>4. LockedFrame(w, s) /\ NewTypes(w, s)
  <2>1. /\ pc' = [pc EXCEPT ![w] = pc'[w]] /\ pc'[w] \in Locking
        /\ faulty' = [faulty EXCEPT ![s] = faulty'[s]] /\ faulty'[s] \in BOOLEAN
    BY <1>1, <1>2, <1>3 DEF IInv, Types, TypeOK, Locking
  <2>2. /\ limit' = [limit EXCEPT ![w] = limit'[w]] /\ limit'[w] \in Nat \cup {None}
        /\ round' = [round EXCEPT ![w] = round'[w]] /\ round'[w] \in Round \cup {None}
        /\ score' = [score EXCEPT ![w] = score'[w]] /\ score'[w] \in Stats
    BY <1>1, <1>2, <1>3, ConstantsAssumption DEF IInv, Types, TypeOK
  <2>3. QED
    BY <1>1, <1>2, <1>3, <2>1, <2>2 DEF LockedFrame, NewTypes, IInv, Types, TypeOK
<1>5. ControlOf(w)' /\ MemoryOf(w)' /\ ClearingOf(w)'
  BY <1>1, <1>2, <1>3, ConstantsAssumption
  DEF ControlOf, MemoryOf, ClearingOf, IInv, Types, TypeOK, Locking
<1>6. RoundOf(s)'
  BY <1>1, <1>2 DEF RoundOf, IInv, Types, TypeOK
<1>7. QED
  BY <1>0, <1>1, <1>4, <1>5, <1>6, LockedStep

LEMMA LoadGameStep ==
  ASSUME IInv, NEW w \in Worker, LoadGame(w)
  PROVE  IInv'
<1> USE DEF store, memory, history, Goto, Fails
<1>0. pc[w] \in Locking
  BY DEF LoadGame, Locking
<1>a. PICK s \in Subject : s = req[w].subject
  BY <1>0, LockedFacts
<1>1. /\ s = req[w].subject
      /\ req[w] \in Request /\ req[w].cmd \in {"loldle", "giveup"}
      /\ limit[w] \in (1 .. MaxGuessesCap) \cup {None}
      /\ round[w] \in Round \cup {None}
      /\ score[w] \in Stats
      /\ game[s] \in Round \cup {None}
      /\ stats[s] \in Stats
      /\ results[s] \in Seq(BOOLEAN)
      /\ faulty[s] \in BOOLEAN
      /\ game[s] # None /\ ~faulty[s] /\ pc[w] # "clear" => results[s] = <<>>
  BY <1>0, <1>a, LockedFacts
<1>2. /\ pc[w] = "load"
      /\ UNCHANGED <<store, roster, lock, req, limit, score, results>>
      /\ \/ /\ round' = [round EXCEPT ![w] = game[s]]
            /\ pc' = [pc EXCEPT ![w] = AfterLoad(w, game[s])]
            /\ UNCHANGED faulty
         \/ /\ pc' = [pc EXCEPT ![w] = "done"]
            /\ faulty' = [faulty EXCEPT ![s] = TRUE]
            /\ UNCHANGED round
  BY <1>1 DEF LoadGame, NextAfterLoad
<1>3. /\ AfterLoad(w, game[s]) \in {"done", "loadStats", "play", "startFresh"}
      /\ AfterLoad(w, game[s]) \in {"play", "startFresh"} =>
           req[w].cmd = "loldle" /\ limit[w] # None
      /\ AfterLoad(w, game[s]) = "play" => game[s] # None
      /\ AfterLoad(w, game[s]) = "startFresh" /\ game[s] # None =>
           Len(game[s].guesses) >= limit[w]
  <2>1. req[w].cmd = "loldle" => limit[w] # None
    BY <1>2 DEF IInv, ControlOf
  <2>2. game[s] # None => Len(game[s].guesses) \in Nat
    BY <1>1 DEF Round
  <2>3. limit[w] # None => limit[w] \in Nat
    BY <1>1, ConstantsAssumption
  <2>4. QED
    BY <1>1, <2>1, <2>2, <2>3 DEF AfterLoad
<1>4. LockedFrame(w, s) /\ NewTypes(w, s)
  <2>1. /\ pc' = [pc EXCEPT ![w] = pc'[w]] /\ pc'[w] \in Locking
        /\ faulty' = [faulty EXCEPT ![s] = faulty'[s]] /\ faulty'[s] \in BOOLEAN
    BY <1>1, <1>2, <1>3 DEF IInv, Types, TypeOK, Locking
  <2>2. /\ limit' = [limit EXCEPT ![w] = limit'[w]] /\ limit'[w] \in Nat \cup {None}
        /\ round' = [round EXCEPT ![w] = round'[w]] /\ round'[w] \in Round \cup {None}
        /\ score' = [score EXCEPT ![w] = score'[w]] /\ score'[w] \in Stats
    BY <1>1, <1>2, <1>3, ConstantsAssumption DEF IInv, Types, TypeOK
  <2>3. QED
    BY <1>1, <1>2, <1>3, <2>1, <2>2 DEF LockedFrame, NewTypes, IInv, Types, TypeOK
<1>5. ControlOf(w)' /\ MemoryOf(w)' /\ ClearingOf(w)'
  <2>1. game[s] # None =>
          /\ game[s] \in Round
          /\ game[s].target \notin ToSet(game[s].guesses)
          /\ IsInjective(game[s].guesses)
          /\ faulty[s] \/ results[s] = <<>>
    BY <1>1, <1>2 DEF IInv, RoundOf
  <2>2. ControlOf(w)' /\ ClearingOf(w)'
    BY <1>1, <1>2, <1>3 DEF ControlOf, ClearingOf, IInv, Types, TypeOK, Locking
  <2>3. MemoryOf(w)'
    BY <1>1, <1>2, <1>3, <2>1 DEF MemoryOf, IInv, Types, TypeOK
  <2>4. QED
    BY <2>2, <2>3
<1>6. RoundOf(s)'
  BY <1>1, <1>2 DEF RoundOf, IInv, Types, TypeOK
<1>7. QED
  BY <1>0, <1>1, <1>4, <1>5, <1>6, LockedStep

LEMMA AnswerStep ==
  ASSUME IInv, NEW w \in Worker, Answer(w)
  PROVE  IInv'
<1> USE DEF store, memory, history, Goto, Fails
<1>0. pc[w] \in Locking
  BY DEF Answer, Locking
<1>a. PICK s \in Subject : s = req[w].subject
  BY <1>0, LockedFacts
<1>1. /\ s = req[w].subject
      /\ req[w] \in Request /\ req[w].cmd \in {"loldle", "giveup"}
      /\ limit[w] \in (1 .. MaxGuessesCap) \cup {None}
      /\ round[w] \in Round \cup {None}
      /\ score[w] \in Stats
      /\ game[s] \in Round \cup {None}
      /\ stats[s] \in Stats
      /\ results[s] \in Seq(BOOLEAN)
      /\ faulty[s] \in BOOLEAN
      /\ game[s] # None /\ ~faulty[s] /\ pc[w] # "clear" => results[s] = <<>>
  BY <1>0, <1>a, LockedFacts
<1>2. /\ pc' = [pc EXCEPT ![w] = "done"]
      /\ UNCHANGED <<store, roster, lock, req, memory, history>>
      /\ pc[w] = "play"
  BY DEF Answer
<1>3. LockedFrame(w, s) /\ NewTypes(w, s)
  <2>1. /\ pc' = [pc EXCEPT ![w] = pc'[w]] /\ pc'[w] \in Locking
        /\ faulty' = [faulty EXCEPT ![s] = faulty'[s]] /\ faulty'[s] \in BOOLEAN
    BY <1>1, <1>2 DEF IInv, Types, TypeOK, Locking
  <2>2. /\ limit' = [limit EXCEPT ![w] = limit'[w]] /\ limit'[w] \in Nat \cup {None}
        /\ round' = [round EXCEPT ![w] = round'[w]] /\ round'[w] \in Round \cup {None}
        /\ score' = [score EXCEPT ![w] = score'[w]] /\ score'[w] \in Stats
    BY <1>1, <1>2, ConstantsAssumption DEF IInv, Types, TypeOK
  <2>3. QED
    BY <1>1, <1>2, <2>1, <2>2 DEF LockedFrame, NewTypes, IInv, Types, TypeOK
<1>4. ControlOf(w)' /\ MemoryOf(w)' /\ ClearingOf(w)'
  BY <1>1, <1>2 DEF ControlOf, MemoryOf, ClearingOf, IInv, Types, TypeOK, Locking
<1>5. RoundOf(s)'
  BY <1>1, <1>2 DEF RoundOf, IInv, Types, TypeOK
<1>6. QED
  BY <1>0, <1>1, <1>3, <1>4, <1>5, LockedStep

LEMMA LoadStatsStep ==
  ASSUME IInv, NEW w \in Worker, LoadStats(w)
  PROVE  IInv'
<1> USE DEF store, memory, history, Goto, Fails
<1>0. pc[w] \in Locking
  BY DEF LoadStats, Locking
<1>a. PICK s \in Subject : s = req[w].subject
  BY <1>0, LockedFacts
<1>1. /\ s = req[w].subject
      /\ req[w] \in Request /\ req[w].cmd \in {"loldle", "giveup"}
      /\ limit[w] \in (1 .. MaxGuessesCap) \cup {None}
      /\ round[w] \in Round \cup {None}
      /\ score[w] \in Stats
      /\ game[s] \in Round \cup {None}
      /\ stats[s] \in Stats
      /\ results[s] \in Seq(BOOLEAN)
      /\ faulty[s] \in BOOLEAN
      /\ game[s] # None /\ ~faulty[s] /\ pc[w] # "clear" => results[s] = <<>>
  BY <1>0, <1>a, LockedFacts
<1>2. /\ pc[w] = "loadStats"
      /\ UNCHANGED <<store, roster, lock, req, limit, round, results>>
      /\ \/ /\ score' = [score EXCEPT ![w] = stats[s]]
            /\ pc' = [pc EXCEPT ![w] = "putStats"]
            /\ UNCHANGED faulty
         \/ /\ pc' = [pc EXCEPT ![w] = "done"]
            /\ faulty' = [faulty EXCEPT ![s] = TRUE]
            /\ UNCHANGED score
  BY <1>1 DEF LoadStats
<1>3. LockedFrame(w, s) /\ NewTypes(w, s)
  <2>1. /\ pc' = [pc EXCEPT ![w] = pc'[w]] /\ pc'[w] \in Locking
        /\ faulty' = [faulty EXCEPT ![s] = faulty'[s]] /\ faulty'[s] \in BOOLEAN
    BY <1>1, <1>2 DEF IInv, Types, TypeOK, Locking
  <2>2. /\ limit' = [limit EXCEPT ![w] = limit'[w]] /\ limit'[w] \in Nat \cup {None}
        /\ round' = [round EXCEPT ![w] = round'[w]] /\ round'[w] \in Round \cup {None}
        /\ score' = [score EXCEPT ![w] = score'[w]] /\ score'[w] \in Stats
    BY <1>1, <1>2, ConstantsAssumption DEF IInv, Types, TypeOK
  <2>3. QED
    BY <1>1, <1>2, <2>1, <2>2 DEF LockedFrame, NewTypes, IInv, Types, TypeOK
<1>4. ControlOf(w)' /\ MemoryOf(w)' /\ ClearingOf(w)'
  BY <1>1, <1>2 DEF ControlOf, MemoryOf, ClearingOf, IInv, Types, TypeOK, Locking
<1>5. RoundOf(s)'
  BY <1>1, <1>2 DEF RoundOf, IInv, Types, TypeOK
<1>6. QED
  BY <1>0, <1>1, <1>3, <1>4, <1>5, LockedStep

LEMMA ClearGameStep ==
  ASSUME IInv, NEW w \in Worker, ClearGame(w)
  PROVE  IInv'
<1> USE DEF store, memory, history, Goto, Fails
<1>0. pc[w] \in Locking
  BY DEF ClearGame, Locking
<1>a. PICK s \in Subject : s = req[w].subject
  BY <1>0, LockedFacts
<1>1. /\ s = req[w].subject
      /\ req[w] \in Request /\ req[w].cmd \in {"loldle", "giveup"}
      /\ limit[w] \in (1 .. MaxGuessesCap) \cup {None}
      /\ round[w] \in Round \cup {None}
      /\ score[w] \in Stats
      /\ game[s] \in Round \cup {None}
      /\ stats[s] \in Stats
      /\ results[s] \in Seq(BOOLEAN)
      /\ faulty[s] \in BOOLEAN
      /\ game[s] # None /\ ~faulty[s] /\ pc[w] # "clear" => results[s] = <<>>
  BY <1>0, <1>a, LockedFacts
<1>2. /\ pc[w] = "clear"
      /\ pc' = [pc EXCEPT ![w] = "done"]
      /\ UNCHANGED <<stats, config, roster, lock, req, memory, results>>
      /\ \/ /\ game' = [game EXCEPT ![s] = None]
            /\ faulty' \in {faulty, [faulty EXCEPT ![s] = TRUE]}
         \/ UNCHANGED game /\ faulty' = [faulty EXCEPT ![s] = TRUE]
  BY <1>1 DEF ClearGame
<1>3. LockedFrame(w, s) /\ NewTypes(w, s)
  <2>1. /\ pc' = [pc EXCEPT ![w] = pc'[w]] /\ pc'[w] \in Locking
        /\ faulty' = [faulty EXCEPT ![s] = faulty'[s]] /\ faulty'[s] \in BOOLEAN
    BY <1>1, <1>2 DEF IInv, Types, TypeOK, Locking
  <2>2. /\ limit' = [limit EXCEPT ![w] = limit'[w]] /\ limit'[w] \in Nat \cup {None}
        /\ round' = [round EXCEPT ![w] = round'[w]] /\ round'[w] \in Round \cup {None}
        /\ score' = [score EXCEPT ![w] = score'[w]] /\ score'[w] \in Stats
    BY <1>1, <1>2, ConstantsAssumption DEF IInv, Types, TypeOK
  <2>3. /\ game' = [game EXCEPT ![s] = game'[s]] /\ game'[s] \in Round \cup {None}
        /\ stats' = [stats EXCEPT ![s] = stats'[s]] /\ stats'[s] \in Stats
    BY <1>1, <1>2 DEF IInv, Types, TypeOK
  <2>4. results' = [results EXCEPT ![s] = results'[s]] /\ results'[s] \in Seq(BOOLEAN)
    BY <1>1, <1>2 DEF IInv, Types, TypeOK
  <2>5. QED
    BY <1>1, <1>2, <2>1, <2>2, <2>3, <2>4 DEF LockedFrame, NewTypes
<1>4. ControlOf(w)' /\ MemoryOf(w)' /\ ClearingOf(w)'
  BY <1>1, <1>2 DEF ControlOf, MemoryOf, ClearingOf, IInv, Types, TypeOK, Locking
<1>5. RoundOf(s)'
  BY <1>1, <1>2 DEF RoundOf, IInv, Types, TypeOK
<1>6. QED
  BY <1>0, <1>1, <1>3, <1>4, <1>5, LockedStep

LEMMA PutStatsStep ==
  ASSUME IInv, NEW w \in Worker, PutStats(w)
  PROVE  IInv'
<1> USE DEF store, memory, history, Goto, Fails
<1>0. pc[w] \in Locking
  BY DEF PutStats, Locking
<1>a. PICK s \in Subject : s = req[w].subject
  BY <1>0, LockedFacts
<1>1. /\ s = req[w].subject
      /\ req[w] \in Request /\ req[w].cmd \in {"loldle", "giveup"}
      /\ limit[w] \in (1 .. MaxGuessesCap) \cup {None}
      /\ round[w] \in Round \cup {None}
      /\ score[w] \in Stats
      /\ game[s] \in Round \cup {None}
      /\ stats[s] \in Stats
      /\ results[s] \in Seq(BOOLEAN)
      /\ faulty[s] \in BOOLEAN
      /\ game[s] # None /\ ~faulty[s] /\ pc[w] # "clear" => results[s] = <<>>
  BY <1>0, <1>a, LockedFacts
<1>2. /\ pc[w] = "putStats"
      /\ UNCHANGED <<game, config, roster, lock, req, memory>>
      /\ \/ /\ stats' = [stats EXCEPT ![s] = Scored(score[w], Won(w))]
            /\ results' = [results EXCEPT ![s] = Append(results[s], Won(w))]
            /\ \/ pc' = [pc EXCEPT ![w] = "clear"] /\ UNCHANGED faulty
               \/ /\ pc' = [pc EXCEPT ![w] = "done"]
                  /\ faulty' = [faulty EXCEPT ![s] = TRUE]
         \/ /\ pc' = [pc EXCEPT ![w] = "done"]
            /\ faulty' = [faulty EXCEPT ![s] = TRUE]
            /\ UNCHANGED <<stats, results>>
  BY <1>1 DEF PutStats, NextAfterResult, AfterResult, IInv, Types, TypeOK
<1>3. Won(w) \in BOOLEAN /\ Scored(score[w], Won(w)) \in Stats
  BY <1>1, StatsStayStats DEF Won
<1>4. /\ Append(results[s], Won(w)) \in Seq(BOOLEAN)
      /\ results[s] = <<>> => Len(Append(results[s], Won(w))) = 1
  BY <1>1, <1>3
<1>5. LockedFrame(w, s) /\ NewTypes(w, s)
  <2>1. /\ pc' = [pc EXCEPT ![w] = pc'[w]] /\ pc'[w] \in Locking
        /\ faulty' = [faulty EXCEPT ![s] = faulty'[s]] /\ faulty'[s] \in BOOLEAN
    BY <1>1, <1>2, <1>3, <1>4 DEF IInv, Types, TypeOK, Locking
  <2>2. /\ limit' = [limit EXCEPT ![w] = limit'[w]] /\ limit'[w] \in Nat \cup {None}
        /\ round' = [round EXCEPT ![w] = round'[w]] /\ round'[w] \in Round \cup {None}
        /\ score' = [score EXCEPT ![w] = score'[w]] /\ score'[w] \in Stats
    BY <1>1, <1>2, <1>3, <1>4, ConstantsAssumption DEF IInv, Types, TypeOK
  <2>3. /\ game' = [game EXCEPT ![s] = game'[s]] /\ game'[s] \in Round \cup {None}
        /\ stats' = [stats EXCEPT ![s] = stats'[s]] /\ stats'[s] \in Stats
    BY <1>1, <1>2, <1>3, <1>4 DEF IInv, Types, TypeOK
  <2>4. results' = [results EXCEPT ![s] = results'[s]] /\ results'[s] \in Seq(BOOLEAN)
    BY <1>1, <1>2, <1>3, <1>4 DEF IInv, Types, TypeOK
  <2>5. QED
    BY <1>1, <1>2, <1>3, <1>4, <2>1, <2>2, <2>3, <2>4 DEF LockedFrame, NewTypes
<1>6. ControlOf(w)' /\ MemoryOf(w)' /\ ClearingOf(w)'
  BY <1>1, <1>2, <1>4 DEF ControlOf, MemoryOf, ClearingOf, IInv, Types, TypeOK, Locking
<1>7. RoundOf(s)'
  <2>1. (pc'[w] = "clear" /\ req'[w].subject = s) \/ faulty'[s]
    BY <1>1, <1>2 DEF IInv, Types, TypeOK
  <2>2. game[s] # None => game'[s] = game[s] /\ RoundOf(s)
    BY <1>1, <1>2 DEF IInv
  <2>3. game'[s] = game[s]
    BY <1>2
  <2>4. QED
    BY <2>1, <2>2, <2>3 DEF RoundOf
<1>8. QED
  BY <1>0, <1>1, <1>5, <1>6, <1>7, LockedStep

LEMMA StartFreshStep ==
  ASSUME IInv, NEW w \in Worker, StartFreshGame(w)
  PROVE  IInv'
<1> USE DEF store, memory, history, Goto, Fails
<1>0. pc[w] \in Locking
  BY DEF StartFreshGame, Locking
<1>a. PICK s \in Subject : s = req[w].subject
  BY <1>0, LockedFacts
<1>1. /\ s = req[w].subject
      /\ req[w] \in Request /\ req[w].cmd \in {"loldle", "giveup"}
      /\ limit[w] \in (1 .. MaxGuessesCap) \cup {None}
      /\ round[w] \in Round \cup {None}
      /\ score[w] \in Stats
      /\ game[s] \in Round \cup {None}
      /\ stats[s] \in Stats
      /\ results[s] \in Seq(BOOLEAN)
      /\ faulty[s] \in BOOLEAN
      /\ game[s] # None /\ ~faulty[s] /\ pc[w] # "clear" => results[s] = <<>>
  BY <1>0, <1>a, LockedFacts
<1>2. PICK target \in roster :
        LET g == [target |-> target, guesses |-> <<>>]
        IN  /\ round' = [round EXCEPT ![w] = g]
            /\ \/ /\ game' = [game EXCEPT ![s] = g]
                  /\ results' = [results EXCEPT ![s] = <<>>]
                  /\ \/ /\ pc' = [pc EXCEPT ![w] = "play"]
                        /\ faulty' = [faulty EXCEPT ![s] = FALSE]
                     \/ /\ pc' = [pc EXCEPT ![w] = "done"]
                        /\ faulty' = [faulty EXCEPT ![s] = TRUE]
               \/ /\ pc' = [pc EXCEPT ![w] = "done"]
                  /\ faulty' = [faulty EXCEPT ![s] = TRUE]
                  /\ UNCHANGED <<game, results>>
  BY <1>1 DEF StartFreshGame
<1>3. PICK g : g = [target |-> target, guesses |-> <<>>]
  OBVIOUS
<1>4. /\ pc[w] = "startFresh" /\ req[w].cmd = "loldle" /\ limit[w] # None
      /\ UNCHANGED <<stats, config, roster, lock, req, limit, score>>
      /\ round' = [round EXCEPT ![w] = g]
      /\ \/ /\ game' = [game EXCEPT ![s] = g]
            /\ results' = [results EXCEPT ![s] = <<>>]
            /\ \/ /\ pc' = [pc EXCEPT ![w] = "play"]
                  /\ faulty' = [faulty EXCEPT ![s] = FALSE]
               \/ /\ pc' = [pc EXCEPT ![w] = "done"]
                  /\ faulty' = [faulty EXCEPT ![s] = TRUE]
         \/ /\ pc' = [pc EXCEPT ![w] = "done"]
            /\ faulty' = [faulty EXCEPT ![s] = TRUE]
            /\ UNCHANGED <<game, results>>
  BY <1>2, <1>3 DEF StartFreshGame, IInv, ControlOf
<1>5. /\ g \in Round /\ g.guesses = <<>> /\ Len(g.guesses) < MaxGuessesCap
      /\ g.target \notin ToSet(g.guesses) /\ IsInjective(g.guesses)
  <2>1. target \in Champion
    BY ConstantsAssumption DEF IInv, Types, TypeOK
  <2>2. g.guesses = <<>> /\ g \in Round
    BY <1>3, <2>1 DEF Round
  <2>3. QED
    BY <2>2, ConstantsAssumption DEF ToSet, IsInjective
<1>6. <<>> \in Seq(BOOLEAN)
  OBVIOUS
<1>7. LockedFrame(w, s) /\ NewTypes(w, s)
  <2>1. /\ pc' = [pc EXCEPT ![w] = pc'[w]] /\ pc'[w] \in Locking
        /\ faulty' = [faulty EXCEPT ![s] = faulty'[s]] /\ faulty'[s] \in BOOLEAN
    BY <1>1, <1>4, <1>5, <1>6 DEF IInv, Types, TypeOK, Locking
  <2>2. /\ limit' = [limit EXCEPT ![w] = limit'[w]] /\ limit'[w] \in Nat \cup {None}
        /\ round' = [round EXCEPT ![w] = round'[w]] /\ round'[w] \in Round \cup {None}
        /\ score' = [score EXCEPT ![w] = score'[w]] /\ score'[w] \in Stats
    BY <1>1, <1>4, <1>5, <1>6, ConstantsAssumption DEF IInv, Types, TypeOK
  <2>3. /\ game' = [game EXCEPT ![s] = game'[s]] /\ game'[s] \in Round \cup {None}
        /\ stats' = [stats EXCEPT ![s] = stats'[s]] /\ stats'[s] \in Stats
    BY <1>1, <1>4, <1>5, <1>6 DEF IInv, Types, TypeOK
  <2>4. results' = [results EXCEPT ![s] = results'[s]] /\ results'[s] \in Seq(BOOLEAN)
    BY <1>1, <1>4, <1>5, <1>6 DEF IInv, Types, TypeOK
  <2>5. QED
    BY <1>1, <1>4, <1>5, <1>6, <2>1, <2>2, <2>3, <2>4 DEF LockedFrame, NewTypes
<1>8. ControlOf(w)' /\ MemoryOf(w)' /\ ClearingOf(w)'
  BY <1>1, <1>4, <1>5 DEF ControlOf, MemoryOf, ClearingOf, IInv, Types, TypeOK, Locking
<1>9. RoundOf(s)'
  <2>1. CASE game'[s] = g /\ results'[s] = <<>>
    BY <1>5, <2>1 DEF RoundOf
  <2>2. CASE game'[s] = game[s] /\ faulty'[s]
    BY <2>2 DEF RoundOf, IInv
  <2>3. QED
    BY <1>1, <1>4, <2>1, <2>2 DEF IInv, Types, TypeOK
<1>10. QED
  BY <1>0, <1>1, <1>7, <1>8, <1>9, LockedStep

LEMMA GuessStep ==
  ASSUME IInv, NEW w \in Worker, Guess(w)
  PROVE  IInv'
<1> USE DEF store, memory, history, Goto, Fails
<1>0. pc[w] \in Locking
  BY DEF Guess, Locking
<1>a. PICK s \in Subject : s = req[w].subject
  BY <1>0, LockedFacts
<1>1. /\ s = req[w].subject
      /\ req[w] \in Request /\ req[w].cmd \in {"loldle", "giveup"}
      /\ limit[w] \in (1 .. MaxGuessesCap) \cup {None}
      /\ round[w] \in Round \cup {None}
      /\ score[w] \in Stats
      /\ game[s] \in Round \cup {None}
      /\ stats[s] \in Stats
      /\ results[s] \in Seq(BOOLEAN)
      /\ faulty[s] \in BOOLEAN
      /\ game[s] # None /\ ~faulty[s] /\ pc[w] # "clear" => results[s] = <<>>
  BY <1>0, <1>a, LockedFacts
<1>2. PICK h : h = [round[w] EXCEPT !.guesses = Append(round[w].guesses, req[w].arg)]
  OBVIOUS
<1>3. /\ pc[w] = "play" /\ req[w].cmd = "loldle" /\ limit[w] \in 1 .. MaxGuessesCap
      /\ UNCHANGED <<stats, config, roster, lock, req, limit, score, results>>
      /\ round[w] \in Round /\ round[w] = game[s]
      /\ round[w].target \notin ToSet(round[w].guesses)
      /\ IsInjective(round[w].guesses)
      /\ faulty[s] \/ results[s] = <<>>
      /\ ~JustAnswers(req[w].arg, round[w])
  BY <1>1 DEF Guess, IInv, ControlOf, MemoryOf
<1>4. req[w].arg \in Champion /\ req[w].arg \notin ToSet(round[w].guesses)
  BY <1>1, <1>3, RequestParts DEF JustAnswers, OnlyReplied
<1>5. h \in Round /\ h.target = round[w].target /\ Len(h.guesses) \in Nat
  <2>1. round[w].guesses \in Seq(Champion)
    BY <1>3 DEF Round
  <2>2. Append(round[w].guesses, req[w].arg) \in Seq(Champion)
    BY <1>4, <2>1
  <2>3. h = [target |-> round[w].target, guesses |-> Append(round[w].guesses, req[w].arg)]
    BY <1>2, <1>3 DEF Round
  <2>4. QED
    BY <1>3, <2>2, <2>3 DEF Round
<1>6. \/ /\ h.target \notin roster
         /\ pc' = [pc EXCEPT ![w] = "clear"]
         /\ UNCHANGED <<game, round, faulty>>
      \/ /\ round' = [round EXCEPT ![w] = h]
         /\ pc' = [pc EXCEPT ![w] = "loadStats"]
         /\ UNCHANGED <<game, faulty>>
      \/ /\ round' = [round EXCEPT ![w] = h]
         /\ req[w].arg # h.target /\ ~(Len(h.guesses) >= limit[w])
         /\ game' = [game EXCEPT ![s] = h]
         /\ pc' = [pc EXCEPT ![w] = "done"]
         /\ faulty' \in {faulty, [faulty EXCEPT ![s] = TRUE]}
      \/ /\ round' = [round EXCEPT ![w] = h]
         /\ UNCHANGED game
         /\ pc' = [pc EXCEPT ![w] = "done"]
         /\ faulty' = [faulty EXCEPT ![s] = TRUE]
  BY <1>1, <1>2 DEF Guess
<1>7. LockedFrame(w, s) /\ NewTypes(w, s)
  <2>1. /\ pc' = [pc EXCEPT ![w] = pc'[w]] /\ pc'[w] \in Locking
        /\ faulty' = [faulty EXCEPT ![s] = faulty'[s]] /\ faulty'[s] \in BOOLEAN
    BY <1>1, <1>3, <1>5, <1>6 DEF IInv, Types, TypeOK, Locking
  <2>2. /\ limit' = [limit EXCEPT ![w] = limit'[w]] /\ limit'[w] \in Nat \cup {None}
        /\ round' = [round EXCEPT ![w] = round'[w]] /\ round'[w] \in Round \cup {None}
        /\ score' = [score EXCEPT ![w] = score'[w]] /\ score'[w] \in Stats
    BY <1>1, <1>3, <1>5, <1>6, ConstantsAssumption DEF IInv, Types, TypeOK
  <2>3. /\ game' = [game EXCEPT ![s] = game'[s]] /\ game'[s] \in Round \cup {None}
        /\ stats' = [stats EXCEPT ![s] = stats'[s]] /\ stats'[s] \in Stats
    BY <1>1, <1>3, <1>5, <1>6 DEF IInv, Types, TypeOK
  <2>4. results' = [results EXCEPT ![s] = results'[s]] /\ results'[s] \in Seq(BOOLEAN)
    BY <1>1, <1>3, <1>5, <1>6 DEF IInv, Types, TypeOK
  <2>5. QED
    BY <1>1, <1>3, <1>5, <1>6, <2>1, <2>2, <2>3, <2>4 DEF LockedFrame, NewTypes
<1>8. ControlOf(w)' /\ MemoryOf(w)' /\ ClearingOf(w)'
  BY <1>1, <1>3, <1>5, <1>6
  DEF ControlOf, MemoryOf, ClearingOf, IInv, Types, TypeOK, Locking
<1>9. RoundOf(s)'
  <2>1. CASE /\ game'[s] = h /\ results'[s] = results[s]
             /\ req[w].arg # h.target /\ ~(Len(h.guesses) >= limit[w])
             /\ faulty'[s] \/ faulty'[s] = faulty[s]
    <3>1. h.target \notin ToSet(h.guesses) /\ IsInjective(h.guesses)
      BY <1>2, <1>3, <1>4, <1>5, <2>1, StaysOpen
    <3>2. Len(h.guesses) < MaxGuessesCap
      BY <1>3, <1>5, <2>1, ConstantsAssumption
    <3>3. QED
      BY <1>1, <1>3, <2>1, <3>1, <3>2 DEF RoundOf
  <2>2. CASE game'[s] = game[s] /\ faulty'[s]
    BY <2>2 DEF RoundOf, IInv
  <2>3. CASE game'[s] = game[s] /\ results'[s] = results[s] /\ faulty'[s] = faulty[s]
    <3>1. RoundOf(s)
      BY DEF IInv
    <3>2. game[s] # None /\ ~faulty[s] => results[s] = <<>>
      BY <1>1, <1>3
    <3>3. QED
      BY <1>1, <2>3, <3>1, <3>2 DEF RoundOf
  <2>4. QED
    BY <1>1, <1>3, <1>6, <2>1, <2>2, <2>3 DEF IInv, Types, TypeOK
<1>10. QED
  BY <1>0, <1>1, <1>7, <1>8, <1>9, LockedStep

LEMMA RestartStep ==
  ASSUME IInv, Restart
  PROVE  IInv'
<1> USE DEF store
<1>1. /\ pc' = [w \in Worker |-> "idle"]
      /\ req' = [w \in Worker |-> Idle]
      /\ limit' = [w \in Worker |-> None]
      /\ round' = [w \in Worker |-> None]
      /\ score' = [w \in Worker |-> NoStats]
      /\ lock' = [s \in Subject |-> None]
      /\ faulty' = [s \in Subject |-> faulty[s] \/ Busy(s)]
      /\ roster' \in Roster
      /\ UNCHANGED <<store, results>>
  BY DEF Restart
<1>2. Types'
  <2>1. faulty' \in [Subject -> BOOLEAN]
    BY <1>1, Zenon DEF Busy, IInv, Types
  <2>2. QED
    BY <1>1, <2>1, StatsStayStats DEF IInv, Types, TypeOK, Locking
<1>3. ASSUME NEW w \in Worker
      PROVE  ControlOf(w)' /\ MemoryOf(w)' /\ ClearingOf(w)'
  BY <1>1 DEF ControlOf, MemoryOf, ClearingOf, Locking
<1>4. ASSUME NEW s \in Subject
      PROVE  RoundOf(s)'
  <2>1. faulty[s] => faulty'[s]
    BY <1>1
  <2>2. (\E w \in Worker : pc[w] = "clear" /\ req[w].subject = s) => faulty'[s]
    BY <1>1 DEF Busy, Locking
  <2>3. QED
    BY <1>1, <2>1, <2>2 DEF RoundOf, IInv
<1>5. QED
  BY <1>2, <1>3, <1>4 DEF IInv

----------------------------------------------------------------------------

(* What a step leaves in the store under a subject: what was there, or, of  *)
(* StartFreshGame and Guess, a round.                                       *)
LEMMA StoredByStep ==
  ASSUME IInv, NEW s \in Subject, NEW w \in Worker, StartFreshGame(w) \/ Guess(w)
  PROVE  \/ game'[s] = game[s]
         \/ game'[s] \in Round /\ req[w].subject = s
              /\ (Guess(w) => game'[s].guesses # <<>>)
<1> USE DEF store, Goto, Fails
<1>1. CASE StartFreshGame(w)
  <2>1. PICK target \in roster :
          LET g == [target |-> target, guesses |-> <<>>]
          IN  game' = game \/ game' = [game EXCEPT ![req[w].subject] = g]
    BY <1>1 DEF StartFreshGame
  <2>2. target \in Champion
    BY ConstantsAssumption DEF IInv, Types, TypeOK
  <2>3. [target |-> target, guesses |-> <<>>] \in Round
    BY <2>2 DEF Round
  <2>4. pc[w] = "startFresh" /\ ~Guess(w)
    BY <1>1 DEF StartFreshGame, Guess
  <2>5. QED
    BY <2>1, <2>3, <2>4 DEF IInv, Types, TypeOK
<1>2. CASE Guess(w)
  <2>1. pc[w] = "play" /\ ~JustAnswers(req[w].arg, round[w])
    BY <1>2 DEF Guess
  <2>2. round[w] \in Round /\ req[w].cmd = "loldle" /\ req[w] \in Request
    BY <2>1 DEF IInv, ControlOf, MemoryOf, Locking
  <2>3. req[w].arg \in Champion
    BY <2>1, <2>2, RequestParts DEF JustAnswers, OnlyReplied
  <2>4. PICK h : h = [round[w] EXCEPT !.guesses = Append(round[w].guesses, req[w].arg)]
    OBVIOUS
  <2>5. h = [target |-> round[w].target, guesses |-> Append(round[w].guesses, req[w].arg)]
    BY <2>2, <2>4 DEF Round
  <2>6. game' = game \/ game' = [game EXCEPT ![req[w].subject] = h]
    BY <1>2, <2>4 DEF Guess
  <2>7. round[w].guesses \in Seq(Champion)
    BY <2>2 DEF Round
  <2>8. /\ Append(round[w].guesses, req[w].arg) \in Seq(Champion)
        /\ Append(round[w].guesses, req[w].arg) # <<>>
    BY <2>3, <2>7
  <2>9. h \in Round /\ h.guesses # <<>>
    BY <2>2, <2>5, <2>8 DEF Round
  <2>10. QED
    BY <2>6, <2>9 DEF IInv, Types, TypeOK
<1>3. QED
  BY <1>1, <1>2

LEMMA StoreUntouched ==
  ASSUME Next, ~\E w \in Worker : StartFreshGame(w) \/ Guess(w) \/ ClearGame(w)
  PROVE  game' = game
BY DEF Next, store, Receive, SetMax, Acquire, GetMaxGuesses, LoadGame, Answer, LoadStats,
       PutStats, ReplyUnlocked, ReturnAndUnlock, Restart

LEMMA Inductive == Spec => []IInv
<1>1. IInv /\ [Next]_vars => IInv'
  <2> SUFFICES ASSUME IInv, [Next]_vars
               PROVE  IInv'
    OBVIOUS
  <2>1. ASSUME NEW w \in Worker, NEW r \in Request, Receive(w, r)
        PROVE  IInv'
    BY <2>1, ReceiveStep
  <2>2. ASSUME NEW w \in Worker,
               \/ SetMax(w) \/ Acquire(w) \/ GetMaxGuesses(w) \/ LoadGame(w)
               \/ StartFreshGame(w) \/ Answer(w) \/ Guess(w) \/ LoadStats(w)
               \/ PutStats(w) \/ ClearGame(w) \/ ReplyUnlocked(w) \/ ReturnAndUnlock(w)
        PROVE  IInv'
    BY <2>2, SetMaxStep, AcquireStep, GetMaxStep, LoadGameStep, StartFreshStep,
       AnswerStep, GuessStep, LoadStatsStep, PutStatsStep, ClearGameStep, ForgetStep
  <2>3. CASE Restart
    BY <2>3, RestartStep
  <2>4. CASE UNCHANGED vars
    <3>1. Types' /\ \A w \in Worker : ControlOf(w)' /\ MemoryOf(w)' /\ ClearingOf(w)'
      BY <2>4 DEF vars, store, memory, history, IInv, Types, TypeOK, ControlOf,
                  MemoryOf, ClearingOf, InRange, Settable
    <3>2. \A s \in Subject : RoundOf(s)'
      BY <2>4 DEF vars, store, memory, history, IInv, RoundOf
    <3>3. QED
      BY <3>1, <3>2 DEF IInv
  <2>5. QED
    BY <2>1, <2>2, <2>3, <2>4 DEF Next
<1>2. QED
  BY InitIInv, <1>1, PTL DEF Spec

(* Whatever fails, restarts or is changed meanwhile, a stored round can be  *)
(* played on: its guesses are distinct and none is the target               *)
(* (loldle/handlers.go).                                                    *)
THEOREM RoundsStayOpen == Spec => []LoldleInv
<1>1. IInv => LoldleInv
  BY DEF IInv, Types, RoundOf, StoredRoundIsOpen, LoldleInv
<1>2. QED
  BY Inductive, <1>1, PTL

(* However /loldle_setmax changes the length while a round is open, the     *)
(* round leaves a guess to make under the longest (loldle/state.go).        *)
THEOREM RoundsLeaveAGuess ==
  Spec => [](\A s \in Subject : game[s] # None => Len(game[s].guesses) < MaxGuessesCap)
<1>1. IInv => \A s \in Subject : game[s] # None => Len(game[s].guesses) < MaxGuessesCap
  BY DEF IInv, RoundOf
<1>2. QED
  BY Inductive, <1>1, PTL

(* Unless a call fails, a round is counted in the stats exactly once, by    *)
(* the handler that takes it out of the store (handlers.go, state.go).      *)
THEOREM EachRoundIsCountedOnce == Spec => RoundsCountedOnce
<1>1. IInv => OpenMeansUncounted
  BY DEF IInv, RoundOf, OpenMeansUncounted, Busy, Locking
<1>2. IInv /\ [Next]_vars => [ClearedMeansCounted]_vars
  <2> SUFFICES ASSUME IInv, Next, NEW s \in Subject,
                      game[s] # None, game'[s] = None, ~faulty[s]
               PROVE  Len(results[s]) = 1 \/ game[s].target \notin roster
    BY DEF ClearedMeansCounted
  <2> USE DEF store, Goto, Fails
  <2>1. ASSUME NEW w \in Worker, ClearGame(w)
        PROVE  Len(results[s]) = 1 \/ game[s].target \notin roster
    <3>1. pc[w] = "clear" /\ req[w].subject \in Subject
      BY <2>1 DEF ClearGame, IInv, ControlOf, Locking
    <3>2. req[w].subject = s
      BY <2>1, <3>1 DEF ClearGame, IInv, Types, TypeOK
    <3>3. QED
      BY <3>1, <3>2 DEF IInv, ClearingOf
  <2>2. ASSUME NEW w \in Worker, StartFreshGame(w) \/ Guess(w)
        PROVE  FALSE
    BY <2>2, StoredByStep, ConstantsAssumption
  <2>3. QED
    BY <2>1, <2>2, StoreUntouched DEF Next
<1>3. QED
  BY Inductive, <1>1, <1>2, PTL DEF Spec, RoundsCountedOnce

(* A /loldle never throws away a round that can be played on                *)
(* (getOrInitGame).                                                         *)
THEOREM OnlySpentRoundsAreReplaced == Spec => ReplacedOnlyWhenSpent
<1>1. IInv /\ [Next]_vars =>
        [\A s \in Subject :
           game[s] # None /\ game'[s] # None /\ game'[s].guesses = <<>>
             /\ game'[s] # game[s] =>
             \E w \in Worker : /\ pc[w] = "startFresh" /\ req[w].subject = s
                               /\ Len(game[s].guesses) >= limit[w]]_vars
  <2> SUFFICES ASSUME IInv, Next, NEW s \in Subject,
                      game[s] # None, game'[s] # None, game'[s].guesses = <<>>,
                      game'[s] # game[s]
               PROVE  \E w \in Worker : /\ pc[w] = "startFresh" /\ req[w].subject = s
                                        /\ Len(game[s].guesses) >= limit[w]
    OBVIOUS
  <2>1. ASSUME NEW w \in Worker, ClearGame(w)
        PROVE  FALSE
    BY <2>1 DEF ClearGame, Goto, Fails, IInv, Types, TypeOK
  <2>2. ASSUME NEW w \in Worker, Guess(w)
        PROVE  FALSE
    BY <2>2, StoredByStep
  <2>3. ASSUME NEW w \in Worker, StartFreshGame(w)
        PROVE  Len(game[s].guesses) >= limit[w] /\ pc[w] = "startFresh" /\ req[w].subject = s
    <3>1. req[w].subject = s /\ pc[w] = "startFresh"
      BY <2>3, StoredByStep DEF StartFreshGame
    <3>2. QED
      BY <3>1 DEF IInv, MemoryOf
  <2>4. QED
    BY <2>1, <2>2, <2>3, StoreUntouched
<1>2. QED
  BY Inductive, <1>1, PTL DEF Spec, ReplacedOnlyWhenSpent

----------------------------------------------------------------------------
(* Champions by name and by attribute. *)

(* What is compared is a sequence. *)
LEMMA ListsCompared ==
  /\ DOMAIN Pool = 1 .. Len(Pool) /\ Len(Pool) \in Nat
  /\ \A date \in Date : date \in Seq(Char) /\ Len(date) \in Nat
  /\ \A texts \in Texts : \A i \in DOMAIN texts : texts[i] \in Seq(Char)
<1>1. Pool \in Seq({Pool[i] : i \in DOMAIN Pool})
  BY CompareAssumption, Zenon
<1>2. DOMAIN Pool = 1 .. Len(Pool) /\ Len(Pool) \in Nat
  <2> DEFINE S == {Pool[i] : i \in DOMAIN Pool}
  <2>1. Pool \in Seq(S)
    BY <1>1
  <2> HIDE DEF S
  <2>2. QED
    BY <2>1
<1>3. Date \subseteq Seq(Char) /\ Texts \subseteq Seq(Seq(Char))
  BY CompareAssumption, Zenon
<1>4. \A date \in Date : date \in Seq(Char) /\ Len(date) \in Nat
  BY <1>3
<1>5. \A texts \in Texts : \A i \in DOMAIN texts : texts[i] \in Seq(Char)
  BY <1>3
<1>6. QED
  BY <1>2, <1>4, <1>5

(* The loop of findChampion meets the least place first. *)
LEMMA FirstOf ==
  ASSUME NEW hits \in SUBSET Nat, hits # {}
  PROVE  First(hits) \in hits /\ \A j \in hits : First(hits) <= j
BY Least DEF First

(* A text finds the champion of that name, or else the one whose name       *)
(* begins so.                                                               *)
LEMMA NamesFind == NamesFindTheirChampion
<1> SUFFICES ASSUME NEW input \in Input
             PROVE  LET q == normalizeName(input)
                        Meant == {i \in DOMAIN Pool : IsPrefix(q, normalizeName(Pool[i].championName))}
                        hit == findChampion(input)
                    IN  /\ \A i \in DOMAIN Pool :
                             q # <<>> /\ q = normalizeName(Pool[i].championName) =>
                               hit # 0 /\ normalizeName(Pool[hit].championName) = q
                        /\ hit # 0 /\ q # normalizeName(Pool[hit].championName) => Meant = {hit}
                        /\ hit = 0 => q = <<>> \/ Cardinality(Meant) # 1
  BY DEF NamesFindTheirChampion
<1> DEFINE q == normalizeName(input)
           exact == {i \in DOMAIN Pool : PoolName(i) = q}
           prefixed == {i \in DOMAIN Pool : IsPrefix(q, PoolName(i))}
           hit == findChampion(input)
<1>1. hit = IF q = <<>> THEN 0
            ELSE IF exact # {} THEN First(exact)
            ELSE IF Cardinality(prefixed) = 1 THEN First(prefixed) ELSE 0
  BY DEF findChampion, Identifies, Unambiguous
<1>2. DOMAIN Pool \subseteq Nat /\ 0 \notin DOMAIN Pool
  BY ListsCompared
<1>3. exact # {} => First(exact) \in exact
  BY <1>2, FirstOf
<1>4. Cardinality(prefixed) = 1 => prefixed = {First(prefixed)}
  <2> SUFFICES ASSUME Cardinality(prefixed) = 1 PROVE prefixed = {First(prefixed)}
    OBVIOUS
  <2>1. IsFiniteSet(prefixed)
    <3>1. DOMAIN Pool = 1 .. Len(Pool) /\ Len(Pool) \in Nat
      BY ListsCompared
    <3>2. IsFiniteSet(DOMAIN Pool)
      BY <3>1, FS_Interval
    <3>3. QED
      BY <3>2, FS_Subset
  <2>2. PICK x : prefixed = {x}
    BY <2>1, FS_Singleton
  <2>3. First(prefixed) \in prefixed
    BY <1>2, <2>2, FirstOf
  <2>4. QED
    BY <2>2, <2>3
<1>5. \A i \in DOMAIN Pool : PoolName(i) = normalizeName(Pool[i].championName)
  BY DEF PoolName
<1>6. prefixed = {i \in DOMAIN Pool : IsPrefix(q, normalizeName(Pool[i].championName))}
  BY <1>5
<1>7. \A i \in DOMAIN Pool : q # <<>> /\ q = PoolName(i) => hit # 0 /\ PoolName(hit) = q /\ hit \in DOMAIN Pool
  BY <1>1, <1>2, <1>3
<1>8. hit # 0 => hit \in DOMAIN Pool
  BY <1>1, <1>3, <1>4
<1>9. hit # 0 /\ q # PoolName(hit) => prefixed = {hit}
  BY <1>1, <1>3, <1>4
<1>10. hit = 0 => q = <<>> \/ Cardinality(prefixed) # 1
  BY <1>1, <1>2, <1>3, <1>4
<1> HIDE DEF q, exact, prefixed, hit
<1>11. QED
  BY <1>5, <1>6, <1>7, <1>8, <1>9, <1>10 DEF q, hit

(* What the first four characters of a date say. *)
Dated(date) == Len(date) >= 4 /\ \A i \in 1 .. 4 : date[i] \in DOMAIN DigitValue

ByPlaces(k, l, m, n) == 1000 * k + 100 * l + 10 * m + n

YearOf(date) == ByPlaces(DigitValue[date[1]], DigitValue[date[2]],
                         DigitValue[date[3]], DigitValue[date[4]])

(* Digits stand for different values below ten. *)
LEMMA DigitsCount ==
  /\ \A c \in DOMAIN DigitValue : DigitValue[c] \in 0 .. 9
  /\ \A c, d \in DOMAIN DigitValue : DigitValue[c] = DigitValue[d] => c = d
BY CompareAssumption, Zenon

(* A year that is read is that of four digits. *)
LEMMA YearsAreRead ==
  ASSUME NEW date \in Date
  PROVE  /\ parseYear(date) \in Nat
         /\ parseYear(date) # 0 => Dated(date) /\ parseYear(date) = YearOf(date)
<1>1. Len(date) \in Nat
  BY ListsCompared
<1>2. CASE Dated(date)
  <2>1. parseYear(date) = YearOf(date)
    BY <1>1, <1>2 DEF Dated, parseYear, YearOf, ByPlaces
  <2>2. /\ DigitValue[date[1]] \in 0 .. 9 /\ DigitValue[date[2]] \in 0 .. 9
        /\ DigitValue[date[3]] \in 0 .. 9 /\ DigitValue[date[4]] \in 0 .. 9
    BY <1>2, DigitsCount DEF Dated
  <2>3. \A k, l, m, n \in 0 .. 9 : ByPlaces(k, l, m, n) \in Nat
    BY DEF ByPlaces
  <2>4. YearOf(date) \in Nat
    BY <2>2, <2>3 DEF YearOf
  <2>5. QED
    BY <1>2, <2>1, <2>4
<1>3. CASE ~Dated(date)
  BY <1>1, <1>3 DEF Dated, parseYear
<1>4. QED
  BY <1>2, <1>3

(* One cell of a board. *)
Marked(result, direction) == [result |-> result, direction |-> direction]

LEMMA AnswersMirrored ==
  ASSUME NEW result
  PROVE  /\ Mirrored(Marked(result, "")) = Marked(result, "")
         /\ Mirrored(Marked(result, "up")) = Marked(result, "down")
         /\ Mirrored(Marked(result, "down")) = Marked(result, "up")
<1>1. Opposite("") = "" /\ Opposite("up") = "down" /\ Opposite("down") = "up"
  BY DEF Opposite
<1>2. ASSUME NEW direction
      PROVE  Mirrored(Marked(result, direction)) = Marked(result, Opposite(direction))
  <2> DEFINE r == Marked(result, direction)
  <2>1. r = [result |-> result, direction |-> direction]
    BY DEF Marked
  <2>2. DOMAIN r = {"result", "direction"} /\ r.result = result /\ r.direction = direction
    BY <2>1
  <2> HIDE DEF r
  <2>3. Mirrored(r) = [r EXCEPT !.direction = Opposite(r.direction)]
    BY DEF Mirrored
  <2>4. [r EXCEPT !.direction = Opposite(r.direction)]
          = [result |-> result, direction |-> Opposite(direction)]
    BY <2>2
  <2>5. QED
    BY <2>3, <2>4 DEF r, Marked
<1>3. QED
  BY <1>1, <1>2

(* Swapping two champions swaps the hints and nothing else. *)
LEMMA BoardsMirror == BoardsAreMirrored
<1>1. ASSUME NEW g, NEW t
      PROVE  compareAttribute("exact", g, t) = Mirrored(compareAttribute("exact", t, g))
  <2> DEFINE Mark(a, b) == IF Lower(a) = Lower(b) THEN "correct" ELSE "wrong"
  <2>1. /\ compareAttribute("exact", g, t) = Marked(Mark(g, t), "")
        /\ compareAttribute("exact", t, g) = Marked(Mark(t, g), "")
    BY DEF compareAttribute, compareExact, Marked
  <2>2. Mark(g, t) = Mark(t, g)
    OBVIOUS
  <2> HIDE DEF Mark
  <2>3. Mirrored(Marked(Mark(t, g), "")) = Marked(Mark(t, g), "")
    BY AnswersMirrored
  <2>4. QED
    BY <2>1, <2>2, <2>3
<1>2. ASSUME NEW g, NEW t
      PROVE  compareAttribute("multi", g, t) = Mirrored(compareAttribute("multi", t, g))
  <2> DEFINE Mark(a, b) == IF a = b THEN "correct" ELSE IF a \cap b # {} THEN "partial" ELSE "wrong"
             s == toLowerSet(g)
             u == toLowerSet(t)
  <2>1. /\ compareAttribute("multi", g, t) = Marked(Mark(s, u), "")
        /\ compareAttribute("multi", t, g) = Marked(Mark(u, s), "")
    BY DEF compareAttribute, compareMultiValue, Marked
  <2> HIDE DEF s, u
  <2>2. Mark(s, u) = Mark(u, s)
    <3>1. s \cap u = u \cap s
      OBVIOUS
    <3>2. QED
      BY <3>1
  <2> HIDE DEF Mark
  <2>3. Mirrored(Marked(Mark(u, s), "")) = Marked(Mark(u, s), "")
    BY AnswersMirrored
  <2>4. QED
    BY <2>1, <2>2, <2>3
<1>3. ASSUME NEW g \in Date, NEW t \in Date
      PROVE  compareAttribute("year", g, t) = Mirrored(compareAttribute("year", t, g))
  <2> DEFINE x == parseYear(g)
             y == parseYear(t)
  <2>1. x \in Nat /\ y \in Nat
    BY YearsAreRead
  <2>2. /\ compareAttribute("year", g, t) = compareYear(x, y)
        /\ compareAttribute("year", t, g) = compareYear(y, x)
    BY DEF compareAttribute
  <2> HIDE DEF x, y
  <2>3. \A a, b \in Nat : compareYear(a, b) =
          IF a = 0 \/ b = 0 THEN Marked("wrong", "") ELSE IF a = b THEN Marked("correct", "")
          ELSE IF a < b THEN Marked("wrong", "up") ELSE Marked("wrong", "down")
    BY DEF compareYear, Hint, Marked
  <2>4. compareYear(x, y) = Mirrored(compareYear(y, x))
    <3>1. CASE x = 0 \/ y = 0
      <4>1. compareYear(x, y) = Marked("wrong", "") /\ compareYear(y, x) = Marked("wrong", "")
        BY <2>1, <2>3, <3>1
      <4>2. Mirrored(Marked("wrong", "")) = Marked("wrong", "")
        BY AnswersMirrored
      <4>3. QED
        BY <4>1, <4>2
    <3>2. CASE x # 0 /\ y # 0 /\ x = y
      <4>1. compareYear(x, y) = Marked("correct", "") /\ compareYear(y, x) = Marked("correct", "")
        BY <2>1, <2>3, <3>2
      <4>2. Mirrored(Marked("correct", "")) = Marked("correct", "")
        BY AnswersMirrored
      <4>3. QED
        BY <4>1, <4>2
    <3>3. CASE x # 0 /\ y # 0 /\ x < y
      <4>1. compareYear(x, y) = Marked("wrong", "up") /\ compareYear(y, x) = Marked("wrong", "down")
        <5>1. Hint(x, y) = "up" /\ Hint(y, x) = "down" /\ x # y
          BY <2>1, <3>3 DEF Hint
        <5>2. QED
          BY <3>3, <5>1 DEF compareYear, Marked
      <4>2. Mirrored(Marked("wrong", "down")) = Marked("wrong", "up")
        BY AnswersMirrored
      <4>3. QED
        BY <4>1, <4>2
    <3>4. CASE x # 0 /\ y # 0 /\ y < x
      <4>1. compareYear(x, y) = Marked("wrong", "down") /\ compareYear(y, x) = Marked("wrong", "up")
        <5>1. Hint(x, y) = "down" /\ Hint(y, x) = "up" /\ x # y
          BY <2>1, <3>4 DEF Hint
        <5>2. QED
          BY <3>4, <5>1 DEF compareYear, Marked
      <4>2. Mirrored(Marked("wrong", "up")) = Marked("wrong", "down")
        BY AnswersMirrored
      <4>3. QED
        BY <4>1, <4>2
    <3>5. QED
      BY <2>1, <3>1, <3>2, <3>3, <3>4
  <2>5. QED
    BY <2>2, <2>4
<1>4. QED
  BY <1>1, <1>2, <1>3 DEF BoardsAreMirrored

(* A champion matches itself. *)
LEMMA TargetMatches == TargetMatchesItself
<1> SUFFICES ASSUME NEW i \in DOMAIN Pool, parseYear(Pool[i].release_date) # 0,
                    NEW k \in DOMAIN classicAttributes
             PROVE  CompareChampions(Pool[i], Pool[i])[k].result = "correct"
  BY DEF TargetMatchesItself
<1> DEFINE c == Pool[i]
           a == classicAttributes[k]
<1>1. /\ a.type \in {"exact", "multi", "year"}
      /\ a.type = "year" => a.key = "release_date"
  BY DEF classicAttributes
<1>2. CompareChampions(c, c)[k] = compareAttribute(a.type, c[a.key], c[a.key])
  BY DEF CompareChampions
<1>3. \A x : /\ compareExact(x, x).result = "correct" /\ compareMultiValue(x, x).result = "correct"
             /\ x # 0 => compareYear(x, x).result = "correct"
  BY DEF compareExact, compareMultiValue, compareYear
<1> HIDE DEF a
<1>4. ASSUME a.type = "exact" PROVE compareAttribute(a.type, c[a.key], c[a.key]).result = "correct"
  BY <1>3, <1>4 DEF compareAttribute
<1>5. ASSUME a.type = "multi" PROVE compareAttribute(a.type, c[a.key], c[a.key]).result = "correct"
  BY <1>3, <1>5 DEF compareAttribute
<1>6. ASSUME a.type = "year" PROVE compareAttribute(a.type, c[a.key], c[a.key]).result = "correct"
  <2>1. c[a.key] = c.release_date
    BY <1>1, <1>6
  <2>2. \A x : compareAttribute("year", x, x) = compareYear(parseYear(x), parseYear(x))
    BY DEF compareAttribute
  <2>3. compareYear(parseYear(c.release_date), parseYear(c.release_date)).result = "correct"
    BY <1>3
  <2>4. QED
    BY <1>6, <2>1, <2>2, <2>3
<1>7. compareAttribute(a.type, c[a.key], c[a.key]).result = "correct"
  BY <1>1, <1>4, <1>5, <1>6
<1>8. QED
  BY <1>2, <1>7

(* Two years are one exactly if they are written the same. *)
LEMMA SameYear ==
  ASSUME NEW g \in Date, NEW t \in Date, Dated(g), Dated(t)
  PROVE  YearOf(g) = YearOf(t) <=> SubSeq(g, 1, 4) = SubSeq(t, 1, 4)
<1>1. \A i \in 1 .. 4 : /\ DigitValue[g[i]] \in 0 .. 9 /\ DigitValue[t[i]] \in 0 .. 9
                        /\ DigitValue[g[i]] = DigitValue[t[i]] <=> g[i] = t[i]
  BY DigitsCount DEF Dated
<1>2. /\ DigitValue[g[1]] \in 0 .. 9 /\ DigitValue[g[2]] \in 0 .. 9
      /\ DigitValue[g[3]] \in 0 .. 9 /\ DigitValue[g[4]] \in 0 .. 9
      /\ DigitValue[t[1]] \in 0 .. 9 /\ DigitValue[t[2]] \in 0 .. 9
      /\ DigitValue[t[3]] \in 0 .. 9 /\ DigitValue[t[4]] \in 0 .. 9
  BY <1>1
<1>3. ByPlaces(DigitValue[g[1]], DigitValue[g[2]], DigitValue[g[3]], DigitValue[g[4]])
        = ByPlaces(DigitValue[t[1]], DigitValue[t[2]], DigitValue[t[3]], DigitValue[t[4]])
      <=> /\ DigitValue[g[1]] = DigitValue[t[1]]
          /\ DigitValue[g[2]] = DigitValue[t[2]]
          /\ DigitValue[g[3]] = DigitValue[t[3]]
          /\ DigitValue[g[4]] = DigitValue[t[4]]
  <2> DEFINE k == DigitValue[g[1]]
             l == DigitValue[g[2]]
             m == DigitValue[g[3]]
             n == DigitValue[g[4]]
             p == DigitValue[t[1]]
             q == DigitValue[t[2]]
             r == DigitValue[t[3]]
             s == DigitValue[t[4]]
  <2>1. /\ k \in 0 .. 9 /\ l \in 0 .. 9 /\ m \in 0 .. 9 /\ n \in 0 .. 9
        /\ p \in 0 .. 9 /\ q \in 0 .. 9 /\ r \in 0 .. 9 /\ s \in 0 .. 9
    BY <1>2
  <2> HIDE DEF k, l, m, n, p, q, r, s
  <2>2. ByPlaces(k, l, m, n) = ByPlaces(p, q, r, s) <=> k = p /\ l = q /\ m = r /\ n = s
    BY <2>1 DEF ByPlaces
  <2>3. QED
    BY <2>2 DEF k, l, m, n, p, q, r, s
<1>4. YearOf(g) = YearOf(t) <=> /\ DigitValue[g[1]] = DigitValue[t[1]]
                                /\ DigitValue[g[2]] = DigitValue[t[2]]
                                /\ DigitValue[g[3]] = DigitValue[t[3]]
                                /\ DigitValue[g[4]] = DigitValue[t[4]]
  BY <1>3 DEF YearOf
<1>5. YearOf(g) = YearOf(t) <=> g[1] = t[1] /\ g[2] = t[2] /\ g[3] = t[3] /\ g[4] = t[4]
  BY <1>1, <1>4
<1>6. /\ SubSeq(g, 1, 4) \in Seq(Char) /\ Len(SubSeq(g, 1, 4)) = 4
      /\ \A i \in 1 .. 4 : SubSeq(g, 1, 4)[i] = g[i]
      /\ SubSeq(t, 1, 4) \in Seq(Char) /\ Len(SubSeq(t, 1, 4)) = 4
      /\ \A i \in 1 .. 4 : SubSeq(t, 1, 4)[i] = t[i]
  <2>1. g \in Seq(Char) /\ t \in Seq(Char) /\ Len(g) >= 4 /\ Len(t) >= 4
    BY ListsCompared DEF Dated
  <2>2. QED
    BY <2>1
<1>7. SubSeq(g, 1, 4) = SubSeq(t, 1, 4) <=> \A i \in 1 .. 4 : g[i] = t[i]
  <2> DEFINE u == SubSeq(g, 1, 4)
             v == SubSeq(t, 1, 4)
  <2>1. /\ u \in Seq(Char) /\ v \in Seq(Char) /\ Len(u) = 4 /\ Len(v) = 4
        /\ \A i \in 1 .. 4 : u[i] = g[i] /\ v[i] = t[i]
    BY <1>6
  <2> HIDE DEF u, v
  <2>2. u = v <=> \A i \in 1 .. 4 : u[i] = v[i]
    BY <2>1
  <2>3. QED
    BY <2>1, <2>2 DEF u, v
<1>8. (\A i \in 1 .. 4 : g[i] = t[i]) <=> g[1] = t[1] /\ g[2] = t[2] /\ g[3] = t[3] /\ g[4] = t[4]
  OBVIOUS
<1>9. QED
  BY <1>5, <1>7, <1>8

(* A text of nothing but blanks is blank in any case. *)
LEMMA BlankInAnyCase ==
  ASSUME NEW text \in Seq(Char)
  PROVE  TrimSpace(Lower(text)) = <<>> <=> TrimSpace(text) = <<>>
<1> DEFINE Solids(s) == {i \in DOMAIN s : s[i] # " "}
<1>1. ASSUME NEW s, DOMAIN s = 1 .. Len(s), Len(s) \in Nat
      PROVE  TrimSpace(s) = <<>> <=> Solids(s) = {}
  <2> DEFINE S == Solids(s)
             a == First(S)
             b == CHOOSE i \in S : \A j \in S : i >= j
  <2>1. TrimSpace(s) = IF S = {} THEN <<>> ELSE SubSeq(s, a, b)
    BY DEF TrimSpace
  <2>2. ASSUME S # {} PROVE a \in S /\ b \in S /\ a <= b
    <3>1. S \subseteq 1 .. Len(s)
      BY <1>1
    <3>2. Max(S) \in S /\ \A i \in S : i <= Max(S)
      <4> HIDE DEF S
      <4> QED BY <1>1, <2>2, <3>1, Greatest
    <3>3. b \in S /\ \A j \in S : b >= j
      <4> HIDE DEF S
      <4>1. \A i \in S : Max(S) >= i
        BY <3>1, <3>2
      <4>2. QED
        BY <3>2, <4>1
    <3>4. S \subseteq Nat
      <4> HIDE DEF S
      <4> QED BY <1>1, <3>1
    <3>5. a \in S /\ \A j \in S : a <= j
      <4> HIDE DEF S
      <4> QED BY <2>2, <3>4, FirstOf
    <3>6. QED
      BY <3>3, <3>5
  <2>3. ASSUME S # {} PROVE SubSeq(s, a, b) # <<>>
    <3>1. a \in 1 .. Len(s) /\ b \in 1 .. Len(s) /\ a <= b
      BY <1>1, <2>2, <2>3
    <3> HIDE DEF S, a, b
    <3>2. SubSeq(s, a, b) = [i \in 1 .. b - a + 1 |-> s[a + i - 1]]
      BY <1>1, <3>1 DEF SubSeq
    <3>3. 1 \in DOMAIN SubSeq(s, a, b) /\ DOMAIN <<>> = {}
      BY <1>1, <3>1, <3>2
    <3>4. QED
      BY <3>3, Zenon
  <2> HIDE DEF S, a, b
  <2>4. TrimSpace(s) = <<>> <=> S = {}
    BY <2>1, <2>3
  <2>5. QED
    BY <2>4 DEF S
<1>2. Lower(text) = [i \in 1 .. Len(text) |-> LowerCase[text[i]]] /\ Len(text) \in Nat
  BY DEF Lower
<1>3. DOMAIN Lower(text) = 1 .. Len(text) /\ Len(Lower(text)) = Len(text)
  BY <1>2
<1>4. \A i \in 1 .. Len(text) : Lower(text)[i] = LowerCase[text[i]] /\ text[i] \in Char
  BY <1>2
<1>5. \A c \in Char : LowerCase[c] = " " <=> c = " "
  BY CompareAssumption, Zenon
<1>6. Solids(Lower(text)) = Solids(text)
  <2>1. DOMAIN text = 1 .. Len(text)
    OBVIOUS
  <2>2. \A i \in 1 .. Len(text) : Lower(text)[i] # " " <=> text[i] # " "
    BY <1>4, <1>5
  <2>3. QED
    BY <1>3, <2>1, <2>2
<1> HIDE DEF Solids
<1>7. QED
  BY <1>1, <1>2, <1>3, <1>6

(* Lists compared by what their values are but for case and blanks. *)
Same(a, b, i) == \E j \in DOMAIN b : TrimSpace(Lower(a[i])) = TrimSpace(Lower(b[j]))
Blanked(a, i) == TrimSpace(a[i]) = <<>>
Covered(a, b) == \A i \in DOMAIN a : Blanked(a, i) \/ Same(a, b, i)

LEMMA ListsMarked ==
  ASSUME NEW g \in Texts, NEW t \in Texts
  PROVE  compareMultiValue(g, t).result =
           IF Covered(g, t) /\ Covered(t, g) THEN "correct"
           ELSE IF \E i \in DOMAIN g : ~Blanked(g, i) /\ Same(g, t, i) THEN "partial" ELSE "wrong"
<1> DEFINE Key(a, i) == TrimSpace(Lower(a[i]))
<1>1. ASSUME NEW a \in Texts
      PROVE  toLowerSet(a) = {Key(a, i) : i \in {j \in DOMAIN a : ~Blanked(a, j)}}
  <2>1. \A i \in DOMAIN a : Key(a, i) = <<>> <=> Blanked(a, i)
    BY ListsCompared, BlankInAnyCase DEF Blanked
  <2>2. toLowerSet(a) = {Key(a, i) : i \in DOMAIN a} \ {<<>>}
    BY DEF toLowerSet, ToSet
  <2> HIDE DEF Key
  <2>3. QED
    BY <2>1, <2>2
<1>2. ASSUME NEW a \in Texts, NEW b \in Texts
      PROVE  toLowerSet(a) \subseteq toLowerSet(b) <=> Covered(a, b)
  <2>1. \A i \in DOMAIN a, j \in DOMAIN b : Key(a, i) = Key(b, j) => (Blanked(a, i) <=> Blanked(b, j))
    BY ListsCompared, BlankInAnyCase DEF Blanked
  <2>2. \A i \in DOMAIN a : Same(a, b, i) <=> \E j \in DOMAIN b : Key(a, i) = Key(b, j)
    BY DEF Same
  <2>3. /\ \A x : x \in toLowerSet(a) <=> \E i \in DOMAIN a : ~Blanked(a, i) /\ x = Key(a, i)
        /\ \A x : x \in toLowerSet(b) <=> \E i \in DOMAIN b : ~Blanked(b, i) /\ x = Key(b, i)
    BY <1>1
  <2> HIDE DEF Key
  <2>4. ASSUME toLowerSet(a) \subseteq toLowerSet(b) PROVE Covered(a, b)
    <3> SUFFICES ASSUME NEW i \in DOMAIN a, ~Blanked(a, i) PROVE Same(a, b, i)
      BY DEF Covered
    <3>1. Key(a, i) \in toLowerSet(b)
      BY <2>3, <2>4
    <3>2. QED
      BY <2>2, <2>3, <3>1
  <2>5. ASSUME Covered(a, b), NEW x \in toLowerSet(a) PROVE x \in toLowerSet(b)
    <3>1. PICK i \in DOMAIN a : ~Blanked(a, i) /\ x = Key(a, i)
      BY <2>3
    <3>2. PICK k \in DOMAIN b : Key(a, i) = Key(b, k)
      BY <2>2, <2>5, <3>1 DEF Covered
    <3>3. QED
      BY <2>1, <2>3, <3>1, <3>2
  <2>6. QED
    BY <2>4, <2>5
<1>3. toLowerSet(g) = toLowerSet(t) <=> Covered(g, t) /\ Covered(t, g)
  <2>1. /\ toLowerSet(g) \subseteq toLowerSet(t) <=> Covered(g, t)
        /\ toLowerSet(t) \subseteq toLowerSet(g) <=> Covered(t, g)
    BY <1>2
  <2>2. QED
    BY <2>1
<1>4. toLowerSet(g) \cap toLowerSet(t) # {}
        <=> \E i \in DOMAIN g : ~Blanked(g, i) /\ Same(g, t, i)
  <2>1. \A i \in DOMAIN g, j \in DOMAIN t : Key(g, i) = Key(t, j) => (Blanked(g, i) <=> Blanked(t, j))
    BY ListsCompared, BlankInAnyCase DEF Blanked
  <2>2. \A i \in DOMAIN g : Same(g, t, i) <=> \E j \in DOMAIN t : Key(g, i) = Key(t, j)
    BY DEF Same
  <2>3. /\ toLowerSet(g) = {Key(g, i) : i \in {j \in DOMAIN g : ~Blanked(g, j)}}
        /\ toLowerSet(t) = {Key(t, i) : i \in {j \in DOMAIN t : ~Blanked(t, j)}}
    BY <1>1
  <2> HIDE DEF Key
  <2>4. QED
    BY <2>1, <2>2, <2>3
<1>5. compareMultiValue(g, t).result =
        IF toLowerSet(g) = toLowerSet(t) THEN "correct"
        ELSE IF toLowerSet(g) \cap toLowerSet(t) # {} THEN "partial" ELSE "wrong"
  BY DEF compareMultiValue
<1>6. QED
  BY <1>3, <1>4, <1>5

(* Hints order the years, and lists are compared as sets. *)
LEMMA HintsLead == HintsLeadToTheTarget
<1>1. ASSUME NEW g \in Date, NEW m \in Date, NEW t \in Date
      PROVE  LET up(a, b) == compareYear(parseYear(a), parseYear(b)).direction = "up"
             IN  up(g, m) /\ up(m, t) => up(g, t)
  <2>1. \A x, y \in Nat : compareYear(x, y).direction = "up" <=> x # 0 /\ y # 0 /\ x < y
    <3> TAKE x, y \in Nat
    <3>1. Hint(x, y) = "up" <=> x < y
      BY DEF Hint
    <3>2. QED
      BY <3>1 DEF compareYear
  <2>2. parseYear(g) \in Nat /\ parseYear(m) \in Nat /\ parseYear(t) \in Nat
    BY YearsAreRead
  <2>3. QED
    BY <2>1, <2>2
<1>2. ASSUME NEW g \in Date, NEW t \in Date, parseYear(g) # 0, parseYear(t) # 0
      PROVE  compareYear(parseYear(g), parseYear(t)).result = "correct"
               <=> SubSeq(g, 1, 4) = SubSeq(t, 1, 4)
  <2>1. /\ Dated(g) /\ Dated(t)
        /\ parseYear(g) = YearOf(g) /\ parseYear(t) = YearOf(t)
    BY <1>2, YearsAreRead
  <2>2. compareYear(parseYear(g), parseYear(t)).result = "correct" <=> parseYear(g) = parseYear(t)
    BY <1>2 DEF compareYear
  <2>3. QED
    BY <2>1, <2>2, SameYear
<1>3. ASSUME NEW g \in Texts, NEW t \in Texts
      PROVE  LET Shares(a, b, i) == \E j \in DOMAIN b : TrimSpace(Lower(a[i])) = TrimSpace(Lower(b[j]))
                 Blank(a, i) == TrimSpace(a[i]) = <<>>
                 both == {<<g, t>>, <<t, g>>}
                 some == \E i \in DOMAIN g : ~Blank(g, i) /\ Shares(g, t, i)
                 all == \A p \in both : \A i \in DOMAIN p[1] :
                          Blank(p[1], i) \/ Shares(p[1], p[2], i)
             IN  compareMultiValue(g, t).result =
                   IF all THEN "correct" ELSE IF some THEN "partial" ELSE "wrong"
  <2> DEFINE Shares(a, b, i) == \E j \in DOMAIN b : TrimSpace(Lower(a[i])) = TrimSpace(Lower(b[j]))
             Blank(a, i) == TrimSpace(a[i]) = <<>>
             some == \E i \in DOMAIN g : ~Blank(g, i) /\ Shares(g, t, i)
             all == \A p \in {<<g, t>>, <<t, g>>} : \A i \in DOMAIN p[1] :
                      Blank(p[1], i) \/ Shares(p[1], p[2], i)
  <2>1. some <=> \E i \in DOMAIN g : ~Blanked(g, i) /\ Same(g, t, i)
    BY DEF Blanked, Same
  <2>2. all <=> Covered(g, t) /\ Covered(t, g)
    <3>1. /\ <<g, t>>[1] = g /\ <<g, t>>[2] = t
          /\ <<t, g>>[1] = t /\ <<t, g>>[2] = g
      OBVIOUS
    <3>2. \A a, b : (\A i \in DOMAIN a : Blank(a, i) \/ Shares(a, b, i)) <=> Covered(a, b)
      BY DEF Covered, Blanked, Same
    <3> HIDE DEF Blank, Shares
    <3>3. QED
      BY <3>1, <3>2
  <2> HIDE DEF some, all
  <2>3. compareMultiValue(g, t).result = IF all THEN "correct" ELSE IF some THEN "partial" ELSE "wrong"
    BY <2>1, <2>2, ListsMarked
  <2>4. QED
    BY <2>3 DEF some, all
<1>4. QED
  BY <1>1, <1>2, <1>3 DEF HintsLeadToTheTarget

(* Whatever champions there are and whatever is typed: a name finds its     *)
(* champion and an abbreviation only the one it can mean; boards are the    *)
(* same from either side, their hints lead to the year and the target       *)
(* matches itself; and a stored round leaves a guess to make                *)
(* (loldle/lookup.go, compare.go, state.go).                                *)
THEOREM GuessesAreAnswered == Spec => []GuessesAreAnsweredRight
<1>1. IInv => \A s \in Subject : game[s] # None => Len(game[s].guesses) < MaxGuessesCap
  BY DEF IInv, RoundOf
<1>2. IInv => GuessesAreAnsweredRight
  BY <1>1, NamesFind, BoardsMirror, HintsLead, TargetMatches DEF GuessesAreAnsweredRight
<1>3. QED
  BY Inductive, <1>2, PTL

=============================================================================
