---------------------------- MODULE WordleProofs ----------------------------
(* Proofs about Wordle for every set of workers, subjects and words, and    *)
(* every number of guesses a round may take; and about WordScore for words  *)
(* and texts of every alphabet and length.                                  *)
EXTENDS Wordle, Loops

(* The results recorded for a round that is through with its handler.       *)
Fits(g, r) ==
  /\ ~Finished(g) => r = <<>>
  /\ Finished(g) /\ g.solved => r = <<TRUE>>
  /\ Finished(g) /\ ~g.solved => r # <<>> /\ ToSet(r) = {FALSE}

(* Those of one about to get its next: none yet of a round just solved, and *)
(* losses at most of one given up or abandoned.                             *)
Awaits(g, r) ==
  /\ ToSet(r) \subseteq {FALSE}
  /\ g.solved => r = <<>>

ControlOf(w) ==
  pc[w] \in {"lock"} \cup Locking =>
    req[w] \in Request /\ req[w].subject \in Subject

(* What a handler holds in memory against what is stored, and how far the   *)
(* results are with its round.                                              *)
MemoryOf(w) ==
  LET s == req[w].subject
  IN  /\ pc[w] \in {"load", "done"} /\ ~faulty[s] /\ game[s] # None =>
           Fits(game[s], results[s])
      /\ pc[w] = "startFresh" /\ game[s] # None =>
           Finished(game[s]) \/ results[s] # <<>>
      /\ pc[w] = "play" =>
           /\ game[s] # None /\ round[w] = game[s]
           /\ faulty[s] \/ Fits(game[s], results[s])
      /\ pc[w] \in {"loadStats", "putStats"} =>
           /\ game[s] # None /\ round[w] = game[s]
           /\ req[w].cmd # "new" => Finished(game[s])
           /\ faulty[s] \/ Awaits(game[s], results[s])
      /\ pc[w] = "putStats" => score[w] = stats[s]

RoundOf(s) ==
  ~Busy(s) /\ ~faulty[s] /\ game[s] # None => Fits(game[s], results[s])

IInv ==
  /\ TypeOK
  /\ \A w \in Worker : ControlOf(w) /\ MemoryOf(w)
  /\ \A s \in Subject : RoundOf(s)

----------------------------------------------------------------------------

LEMMA RequestParts ==
  ASSUME NEW r \in Request
  PROVE  /\ r.subject \in Subject \cup {None}
         /\ r.cmd \in {"wordle", "new", "giveup"}
         /\ r.cmd = "wordle" => r.arg \in Word \cup {NoArg, BadArg}
BY DEF Request

LEMMA StatsStayStats ==
  /\ NoStats \in Stats
  /\ \A st \in Stats : \A won \in BOOLEAN : Scored(st, won) \in Stats
BY DEF NoStats, Stats, Scored

LEMMA FreshRoundFits ==
  ASSUME NEW target \in Word
  PROVE  /\ FreshRound(target) \in Round
         /\ Fits(FreshRound(target), <<>>)
<1>1. PICK g : g = FreshRound(target)
  OBVIOUS
<1>2. g.guesses = <<>> /\ ~g.solved /\ ~g.giveup /\ g \in Round
  BY <1>1 DEF FreshRound, Round
<1>3. ~Finished(g)
  BY <1>2, ConstantsAssumption DEF Finished
<1>4. QED
  BY <1>1, <1>2, <1>3 DEF Fits

(* A guess added to an unfinished round, and a round given up.              *)
LEMMA GuessedAwaits ==
  ASSUME NEW g \in Round, NEW word \in Word, NEW r, ~Finished(g), Fits(g, r)
  PROVE  /\ Awaits(Guessed(g, word), r)
         /\ ~Finished(Guessed(g, word)) => Fits(Guessed(g, word), r)
<1>1. r = <<>>
  BY DEF Fits
<1>2. QED
  BY <1>1 DEF Fits, Awaits, ToSet

LEMMA GuessedIsRound ==
  ASSUME NEW g \in Round, NEW word \in Word
  PROVE  Guessed(g, word) \in Round
<1>1. PICK h : h = Guessed(g, word)
  OBVIOUS
<1>2. g.guesses \in Seq(Word)
  BY DEF Round
<1>3. Append(g.guesses, word) \in Seq(Word)
  BY <1>2
<1>4. h = [target |-> g.target, guesses |-> Append(g.guesses, word),
           solved |-> word = g.target, giveup |-> g.giveup]
  BY <1>1 DEF Guessed, Round
<1>5. QED
  BY <1>1, <1>3, <1>4 DEF Round

LEMMA GivenUpAwaits ==
  ASSUME NEW g \in Round, ~g.solved
  PROVE  LET h == [g EXCEPT !.giveup = TRUE]
         IN  /\ h \in Round /\ Finished(h) /\ ~h.solved
             /\ \A r : Fits(g, r) => Awaits(h, r)
<1>1. PICK h : h = [g EXCEPT !.giveup = TRUE]
  OBVIOUS
<1>2. h \in Round /\ h.giveup /\ ~h.solved
  BY <1>1 DEF Round
<1>3. ASSUME NEW r, Fits(g, r)
      PROVE  Awaits(h, r)
  <2>1. CASE Finished(g)
    BY <1>2, <1>3, <2>1 DEF Fits, Awaits
  <2>2. CASE ~Finished(g)
    <3>1. r = <<>>
      BY <1>3, <2>2 DEF Fits
    <3>2. ToSet(r) = {}
      BY <3>1 DEF ToSet
    <3>3. QED
      BY <3>1, <3>2 DEF Awaits
  <2>3. QED
    BY <2>1, <2>2
<1>4. QED
  BY <1>1, <1>2, <1>3 DEF Finished

LEMMA AppendedSet ==
  ASSUME NEW S, NEW seq \in Seq(S), NEW e \in S
  PROVE  Append(seq, e) # <<>> /\ ToSet(Append(seq, e)) = ToSet(seq) \cup {e}
<1> DEFINE h == Append(seq, e)
<1>1. /\ h # <<>> /\ DOMAIN h = 1 .. Len(seq) + 1 /\ h[Len(seq) + 1] = e
      /\ \A i \in 1 .. Len(seq) : h[i] = seq[i]
      /\ DOMAIN seq = 1 .. Len(seq) /\ Len(seq) \in Nat
  OBVIOUS
<1> HIDE DEF h
<1>2. ToSet(h) = ToSet(seq) \cup {e}
  BY <1>1 DEF ToSet
<1>3. QED
  BY <1>1, <1>2 DEF h

LEMMA ResultFits ==
  ASSUME NEW g \in Round, NEW r \in Seq(BOOLEAN), Finished(g), Awaits(g, r)
  PROVE  Fits(g, Append(r, g.solved))
<1>1. g.solved \in BOOLEAN
  BY DEF Round
<1>2. CASE g.solved
  <2>1. r = <<>> /\ g.solved = TRUE
    BY <1>1, <1>2 DEF Awaits
  <2>2. Append(r, g.solved) = <<TRUE>>
    <3>1. Append(r, TRUE) = <<TRUE>>
      BY <2>1
    <3>2. QED
      BY <2>1, <3>1, Zenon
  <2>3. QED
    BY <1>2, <2>2 DEF Fits
<1>3. CASE ~g.solved
  <2>1. /\ Append(r, g.solved) # <<>>
        /\ ToSet(Append(r, g.solved)) = ToSet(r) \cup {g.solved}
    BY <1>1, AppendedSet
  <2>2. g.solved = FALSE
    BY <1>1, <1>3
  <2>3. ToSet(r) \cup {g.solved} = {FALSE}
    BY <2>2 DEF Awaits
  <2>4. QED
    BY <1>3, <2>1, <2>3 DEF Fits
<1>4. QED
  BY <1>2, <1>3

LEMMA InitIInv == Init => IInv
<1> SUFFICES ASSUME Init
             PROVE  IInv
  OBVIOUS
<1>1. TypeOK
  BY StatsStayStats DEF Init, TypeOK, Locking
<1>2. ASSUME NEW w \in Worker
      PROVE  ControlOf(w) /\ MemoryOf(w)
  BY DEF Init, ControlOf, MemoryOf, Locking
<1>3. ASSUME NEW s \in Subject
      PROVE  RoundOf(s)
  BY DEF Init, RoundOf
<1>4. QED
  BY <1>1, <1>2, <1>3 DEF IInv

----------------------------------------------------------------------------

(* The lock lets one handler at a time past Acquire for a subject.          *)
LEMMA OneHandlerPerSubject ==
  ASSUME TypeOK, NEW v \in Worker, NEW w \in Worker,
         pc[v] \in Locking, pc[w] \in Locking, req[v].subject = req[w].subject
  PROVE  v = w
BY DEF TypeOK

(* A worker that takes or leaves a lock, or holds none, changes nothing for *)
(* the others.                                                              *)
LEMMA OutsideFrame ==
  ASSUME IInv, NEW w \in Worker,
         pc' = [pc EXCEPT ![w] = pc'[w]], req' = [req EXCEPT ![w] = req'[w]],
         round' = [round EXCEPT ![w] = round'[w]],
         score' = [score EXCEPT ![w] = score'[w]],
         UNCHANGED <<game, stats, results, faulty>>,
         TypeOK', ControlOf(w)', MemoryOf(w)',
         \A s \in Subject : RoundOf(s)'
  PROVE  IInv'
<1> USE DEF IInv, TypeOK
<1>1. ASSUME NEW v \in Worker, v # w
      PROVE  ControlOf(v)' /\ MemoryOf(v)'
  <2>1. /\ pc'[v] = pc[v] /\ req'[v] = req[v]
        /\ round'[v] = round[v] /\ score'[v] = score[v]
    BY <1>1
  <2>2. ControlOf(v) /\ MemoryOf(v)
    OBVIOUS
  <2> HIDE DEF IInv, TypeOK
  <2>3. PICK s : s = req[v].subject
    OBVIOUS
  <2>4. MemoryOf(v)'
    BY <2>1, <2>2, <2>3 DEF MemoryOf, Finished
  <2>5. QED
    BY <2>1, <2>2, <2>4 DEF ControlOf
<1>2. QED
  BY <1>1

LEMMA ReceiveStep ==
  ASSUME IInv, NEW w \in Worker, NEW r \in Request, Receive(w, r)
  PROVE  IInv'
<1> USE DEF Goto
<1>1. /\ pc[w] = "idle"
      /\ req' = [req EXCEPT ![w] = r]
      /\ pc' = [pc EXCEPT ![w] = pc'[w]]
      /\ pc'[w] \in {"reply", "lock"}
      /\ pc'[w] = "lock" => r.subject \in Subject
      /\ UNCHANGED <<game, stats, lock, round, score, results, faulty>>
  BY RequestParts DEF Receive, IInv, TypeOK
<1>2. TypeOK'
  <2>1. ASSUME NEW v \in Worker, pc'[v] \in Locking
        PROVE  lock'[req'[v].subject] = v
    BY <1>1, <2>1 DEF IInv, TypeOK, Locking
  <2>2. pc' \in [Worker -> {"idle", "reply", "lock"} \cup Locking]
    BY <1>1 DEF IInv, TypeOK
  <2>3. req' \in [Worker -> Request \cup {Idle}]
    BY <1>1 DEF IInv, TypeOK
  <2>4. QED
    BY <1>1, <2>1, <2>2, <2>3 DEF IInv, TypeOK
<1>3. ControlOf(w)' /\ MemoryOf(w)'
  BY <1>1 DEF IInv, TypeOK, ControlOf, MemoryOf, Locking
<1>4. ASSUME NEW s \in Subject
      PROVE  RoundOf(s)'
  <2>1. Busy(s) => Busy(s)'
    BY <1>1 DEF Busy, IInv, TypeOK, Locking
  <2>2. QED
    BY <1>1, <2>1 DEF RoundOf, IInv
<1>5. /\ round' = [round EXCEPT ![w] = round'[w]]
      /\ score' = [score EXCEPT ![w] = score'[w]]
      /\ req' = [req EXCEPT ![w] = req'[w]]
  BY <1>1 DEF IInv, TypeOK
<1>6. QED
  BY <1>1, <1>2, <1>3, <1>4, <1>5, OutsideFrame

LEMMA AcquireStep ==
  ASSUME IInv, NEW w \in Worker, Acquire(w)
  PROVE  IInv'
<1> USE DEF Goto
<1>a. PICK s \in Subject : s = req[w].subject
  BY DEF Acquire, IInv, ControlOf
<1>1. /\ pc[w] = "lock" /\ req[w].subject = s /\ lock[s] = None
      /\ lock' = [lock EXCEPT ![s] = w]
      /\ pc' = [pc EXCEPT ![w] = "load"]
      /\ UNCHANGED <<game, stats, req, round, score, results, faulty>>
  BY <1>a DEF Acquire, CanLock, Free
<1>2. TypeOK'
  <2>1. ASSUME NEW v \in Worker, pc'[v] \in Locking
        PROVE  lock'[req'[v].subject] = v
    BY <1>1, <2>1, ConstantsAssumption DEF IInv, TypeOK, Locking
  <2>2. lock' \in [Subject -> Worker \cup {None}]
    BY <1>1 DEF IInv, TypeOK
  <2>3. pc' \in [Worker -> {"idle", "reply", "lock"} \cup Locking]
    BY <1>1 DEF IInv, TypeOK, Locking
  <2>4. QED
    BY <1>1, <2>1, <2>2, <2>3 DEF IInv, TypeOK
<1>3. ControlOf(w)'
  BY <1>1 DEF IInv, TypeOK, ControlOf, Locking
<1>4. MemoryOf(w)'
  <2>1. ~Busy(s)
    BY <1>1, ConstantsAssumption DEF Busy, IInv, TypeOK
  <2>2. ~faulty[s] /\ game[s] # None => Fits(game[s], results[s])
    BY <2>1 DEF IInv, RoundOf
  <2>3. pc'[w] = "load" /\ req'[w].subject = s
    BY <1>1 DEF IInv, TypeOK
  <2>4. QED
    BY <1>1, <2>2, <2>3 DEF MemoryOf
<1>5. ASSUME NEW t \in Subject
      PROVE  RoundOf(t)'
  <2>1. Busy(t) => Busy(t)'
    BY <1>1 DEF Busy, IInv, TypeOK, Locking
  <2>2. QED
    BY <1>1, <2>1 DEF RoundOf, IInv
<1>6. /\ round' = [round EXCEPT ![w] = round'[w]]
      /\ score' = [score EXCEPT ![w] = score'[w]]
      /\ req' = [req EXCEPT ![w] = req'[w]]
      /\ pc' = [pc EXCEPT ![w] = pc'[w]]
  BY <1>1 DEF IInv, TypeOK
<1>7. QED
  BY <1>1, <1>2, <1>3, <1>4, <1>5, <1>6, OutsideFrame

LEMMA ForgetStep ==
  ASSUME IInv, NEW w \in Worker, ReplyUnlocked(w) \/ ReturnAndUnlock(w)
  PROVE  IInv'
<1> USE DEF Goto, Forget
<1>1. /\ pc[w] \in {"reply", "done"}
      /\ pc' = [pc EXCEPT ![w] = "idle"]
      /\ req' = [req EXCEPT ![w] = Idle]
      /\ round' = [round EXCEPT ![w] = None]
      /\ score' = [score EXCEPT ![w] = NoStats]
      /\ UNCHANGED <<game, stats, results, faulty>>
      /\ \/ UNCHANGED lock
         \/ pc[w] = "done" /\ lock' = [lock EXCEPT ![req[w].subject] = None]
  BY DEF ReplyUnlocked, ReturnAndUnlock, AfterReturn, Unlocked
<1>2. TypeOK'
  <2>1. ASSUME NEW v \in Worker, pc'[v] \in Locking
        PROVE  lock'[req'[v].subject] = v
    <3>1. v # w /\ pc[v] \in Locking /\ req'[v] = req[v] /\ lock[req[v].subject] = v
      BY <1>1, <2>1 DEF IInv, TypeOK, Locking
    <3>2. pc[w] = "done" => req[v].subject # req[w].subject
      BY <3>1, OneHandlerPerSubject DEF IInv, Locking
    <3>3. req[v].subject \in Subject
      BY <3>1 DEF IInv, ControlOf
    <3>4. QED
      BY <1>1, <3>1, <3>2, <3>3 DEF IInv, TypeOK
  <2>2. lock' \in [Subject -> Worker \cup {None}]
    BY <1>1 DEF IInv, TypeOK
  <2>3. pc' \in [Worker -> {"idle", "reply", "lock"} \cup Locking]
    BY <1>1 DEF IInv, TypeOK, Locking
  <2>4. QED
    BY <1>1, <2>1, <2>2, <2>3, StatsStayStats DEF IInv, TypeOK
<1>3. ControlOf(w)' /\ MemoryOf(w)'
  BY <1>1 DEF IInv, TypeOK, ControlOf, MemoryOf, Locking
<1>4. ASSUME NEW s \in Subject
      PROVE  RoundOf(s)'
  <2>1. CASE pc[w] = "done" /\ req[w].subject = s
    <3>1. ~faulty[s] /\ game[s] # None => Fits(game[s], results[s])
      BY <2>1 DEF IInv, MemoryOf
    <3>2. QED
      BY <1>1, <3>1 DEF RoundOf
  <2>2. CASE ~(pc[w] = "done" /\ req[w].subject = s)
    <3>1. Busy(s) => Busy(s)'
      BY <1>1, <2>2 DEF Busy, IInv, TypeOK, Locking
    <3>2. QED
      BY <1>1, <3>1 DEF RoundOf, IInv
  <2>3. QED
    BY <2>1, <2>2
<1>5. /\ round' = [round EXCEPT ![w] = round'[w]]
      /\ score' = [score EXCEPT ![w] = score'[w]]
      /\ req' = [req EXCEPT ![w] = req'[w]]
      /\ pc' = [pc EXCEPT ![w] = pc'[w]]
  BY <1>1 DEF IInv, TypeOK
<1>6. QED
  BY <1>1, <1>2, <1>3, <1>4, <1>5, OutsideFrame

----------------------------------------------------------------------------

(* A call of the handler that holds a subject's lock changes what concerns  *)
(* the subject and this worker only, and is judged by them alone.           *)
LockedFrame(w, s) ==
  /\ UNCHANGED <<lock, req>>
  /\ pc' = [pc EXCEPT ![w] = pc'[w]]
  /\ round' = [round EXCEPT ![w] = round'[w]]
  /\ score' = [score EXCEPT ![w] = score'[w]]
  /\ game' = [game EXCEPT ![s] = game'[s]]
  /\ stats' = [stats EXCEPT ![s] = stats'[s]]
  /\ results' = [results EXCEPT ![s] = results'[s]]
  /\ faulty' = [faulty EXCEPT ![s] = faulty'[s]]

NewTypes(w, s) ==
  /\ pc'[w] \in Locking
  /\ round'[w] \in Round \cup {None}
  /\ score'[w] \in Stats
  /\ game'[s] \in Round \cup {None}
  /\ stats'[s] \in Stats
  /\ results'[s] \in Seq(BOOLEAN)
  /\ faulty'[s] \in BOOLEAN

LEMMA LockedStep ==
  ASSUME IInv, NEW w \in Worker, NEW s \in Subject,
         pc[w] \in Locking, req[w].subject = s,
         LockedFrame(w, s), NewTypes(w, s), MemoryOf(w)'
  PROVE  IInv'
<1> USE DEF IInv, TypeOK, LockedFrame, NewTypes
<1>1. TypeOK'
  <2>1. ASSUME NEW v \in Worker, pc'[v] \in Locking
        PROVE  lock'[req'[v].subject] = v
    BY <2>1 DEF Locking
  <2>2. pc' \in [Worker -> {"idle", "reply", "lock"} \cup Locking]
    OBVIOUS
  <2>3. /\ round' \in [Worker -> Round \cup {None}]
        /\ score' \in [Worker -> Stats]
        /\ game' \in [Subject -> Round \cup {None}]
    OBVIOUS
  <2>4. /\ stats' \in [Subject -> Stats]
        /\ results' \in [Subject -> Seq(BOOLEAN)]
        /\ faulty' \in [Subject -> BOOLEAN]
    OBVIOUS
  <2>5. QED
    BY <2>1, <2>2, <2>3, <2>4
<1>2. ControlOf(w)'
  BY DEF ControlOf
<1>3. ASSUME NEW v \in Worker, v # w
      PROVE  ControlOf(v)' /\ MemoryOf(v)'
  <2>1. pc[v] \in Locking => req[v].subject \in Subject /\ req[v].subject # s
    BY <1>3, OneHandlerPerSubject DEF ControlOf
  <2>2. /\ pc'[v] = pc[v] /\ req'[v] = req[v]
        /\ round'[v] = round[v] /\ score'[v] = score[v]
    BY <1>3
  <2>3. ControlOf(v)'
    BY <2>2 DEF ControlOf
  <2>4. pc[v] \in Locking =>
          /\ game'[req[v].subject] = game[req[v].subject]
          /\ stats'[req[v].subject] = stats[req[v].subject]
          /\ results'[req[v].subject] = results[req[v].subject]
          /\ faulty'[req[v].subject] = faulty[req[v].subject]
    BY <2>1
  <2>5. MemoryOf(v)'
    <3>1. PICK t : t = req[v].subject
      OBVIOUS
    <3>2. CASE pc[v] \in Locking
      <4>1. /\ game'[t] = game[t] /\ stats'[t] = stats[t]
            /\ results'[t] = results[t] /\ faulty'[t] = faulty[t]
        BY <2>4, <3>1, <3>2
      <4>2. MemoryOf(v)
        OBVIOUS
      <4> HIDE DEF IInv, TypeOK, LockedFrame, NewTypes
      <4>3. QED
        BY <2>2, <3>1, <4>1, <4>2 DEF MemoryOf
    <3>3. CASE pc[v] \notin Locking
      BY <2>2, <3>3 DEF MemoryOf, Locking
    <3>4. QED
      BY <3>2, <3>3
  <2>6. QED
    BY <2>3, <2>5
<1>4. ASSUME NEW t \in Subject
      PROVE  RoundOf(t)'
  <2>1. CASE t = s
    <3>1. Busy(t)'
      BY <2>1 DEF Busy
    <3>2. QED
      BY <3>1 DEF RoundOf
  <2>2. CASE t # s
    <3>1. game'[t] = game[t] /\ results'[t] = results[t] /\ faulty'[t] = faulty[t]
      BY <2>2
    <3>2. Busy(t) => Busy(t)'
      BY <2>2 DEF Busy
    <3>3. QED
      BY <3>1, <3>2 DEF RoundOf
  <2>3. QED
    BY <2>1, <2>2
<1>5. QED
  BY <1>1, <1>2, <1>3, <1>4

LEMMA LockedFacts ==
  ASSUME IInv, NEW w \in Worker, pc[w] \in Locking
  PROVE  LET s == req[w].subject
         IN  /\ s \in Subject
             /\ req[w] \in Request
             /\ req[w].cmd \in {"wordle", "new", "giveup"}
             /\ round[w] \in Round \cup {None}
             /\ score[w] \in Stats
             /\ game[s] \in Round \cup {None}
             /\ stats[s] \in Stats
             /\ results[s] \in Seq(BOOLEAN)
             /\ faulty[s] \in BOOLEAN
<1>1. req[w].subject \in Subject /\ req[w] \in Request
  BY DEF IInv, ControlOf
<1>2. QED
  BY <1>1, RequestParts DEF IInv, TypeOK

LEMMA LoadGameStep ==
  ASSUME IInv, NEW w \in Worker, LoadGame(w)
  PROVE  IInv'
<1> USE DEF Goto, Fails
<1>0. pc[w] \in Locking
  BY DEF LoadGame, Locking
<1>a. PICK s \in Subject : s = req[w].subject
  BY <1>0, LockedFacts
<1>1. /\ s = req[w].subject
      /\ req[w] \in Request /\ req[w].cmd \in {"wordle", "new", "giveup"}
      /\ round[w] \in Round \cup {None}
      /\ score[w] \in Stats
      /\ game[s] \in Round \cup {None}
      /\ stats[s] \in Stats
      /\ results[s] \in Seq(BOOLEAN)
      /\ faulty[s] \in BOOLEAN
  BY <1>0, <1>a, LockedFacts
<1>2. /\ pc[w] = "load"
      /\ UNCHANGED <<game, stats, lock, req, score, results>>
      /\ ~faulty[s] /\ game[s] # None => Fits(game[s], results[s])
      /\ \/ /\ round' = [round EXCEPT ![w] = game[s]]
            /\ pc' = [pc EXCEPT ![w] = AfterLoad(w, game[s])]
            /\ UNCHANGED faulty
         \/ /\ pc' = [pc EXCEPT ![w] = "done"]
            /\ faulty' = [faulty EXCEPT ![s] = TRUE]
            /\ UNCHANGED round
  BY <1>1 DEF LoadGame, NextAfterLoad, IInv, MemoryOf
<1>3. LET l == AfterLoad(w, game[s])
      IN  /\ l \in {"loadStats", "startFresh", "play"}
          /\ l = "loadStats" =>
               game[s] # None /\ req[w].cmd = "new" /\ ~Finished(game[s])
          /\ l = "startFresh" => game[s] = None \/ Finished(game[s])
          /\ l = "play" => game[s] # None
  BY <1>1 DEF AfterLoad
<1>4. game[s] # None /\ ~faulty[s] /\ ~Finished(game[s]) => Awaits(game[s], results[s])
  <2>1. ASSUME game[s] # None, ~faulty[s], ~Finished(game[s])
        PROVE  Awaits(game[s], results[s])
    <3>1. results[s] = <<>>
      BY <1>2, <2>1 DEF Fits
    <3>2. ToSet(results[s]) = {}
      BY <3>1 DEF ToSet
    <3>3. QED
      BY <3>1, <3>2 DEF Awaits
  <2>2. QED
    BY <2>1
<1>5. LockedFrame(w, s) /\ NewTypes(w, s)
  <2>1. /\ pc' = [pc EXCEPT ![w] = pc'[w]] /\ pc'[w] \in Locking
        /\ faulty' = [faulty EXCEPT ![s] = faulty'[s]] /\ faulty'[s] \in BOOLEAN
    BY <1>1, <1>2, <1>3, <1>4 DEF IInv, TypeOK, Locking
  <2>2. /\ round' = [round EXCEPT ![w] = round'[w]] /\ round'[w] \in Round \cup {None}
        /\ score' = [score EXCEPT ![w] = score'[w]] /\ score'[w] \in Stats
    BY <1>1, <1>2, <1>3, <1>4 DEF IInv, TypeOK
  <2>3. /\ game' = [game EXCEPT ![s] = game'[s]] /\ game'[s] \in Round \cup {None}
        /\ stats' = [stats EXCEPT ![s] = stats'[s]] /\ stats'[s] \in Stats
    BY <1>1, <1>2, <1>3, <1>4 DEF IInv, TypeOK
  <2>4. results' = [results EXCEPT ![s] = results'[s]] /\ results'[s] \in Seq(BOOLEAN)
    BY <1>1, <1>2, <1>3, <1>4 DEF IInv, TypeOK
  <2>5. QED
    BY <1>1, <1>2, <1>3, <1>4, <2>1, <2>2, <2>3, <2>4 DEF LockedFrame, NewTypes
<1>6. MemoryOf(w)'
  BY <1>1, <1>2, <1>3, <1>4 DEF MemoryOf, IInv, TypeOK
<1>7. QED
  BY <1>0, <1>1, <1>5, <1>6, LockedStep

LEMMA AnswerStep ==
  ASSUME IInv, NEW w \in Worker, Answer(w)
  PROVE  IInv'
<1> USE DEF Goto, Fails
<1>0. pc[w] \in Locking
  BY DEF Answer, Locking
<1>a. PICK s \in Subject : s = req[w].subject
  BY <1>0, LockedFacts
<1>1. /\ s = req[w].subject
      /\ req[w] \in Request /\ req[w].cmd \in {"wordle", "new", "giveup"}
      /\ round[w] \in Round \cup {None}
      /\ score[w] \in Stats
      /\ game[s] \in Round \cup {None}
      /\ stats[s] \in Stats
      /\ results[s] \in Seq(BOOLEAN)
      /\ faulty[s] \in BOOLEAN
  BY <1>0, <1>a, LockedFacts
<1>2. /\ pc[w] = "play"
      /\ pc' = [pc EXCEPT ![w] = "done"]
      /\ UNCHANGED <<game, stats, lock, req, round, score, results, faulty>>
      /\ faulty[s] \/ Fits(game[s], results[s])
  BY <1>1 DEF Answer, IInv, MemoryOf
<1>3. LockedFrame(w, s) /\ NewTypes(w, s)
  <2>1. /\ pc' = [pc EXCEPT ![w] = pc'[w]] /\ pc'[w] \in Locking
        /\ faulty' = [faulty EXCEPT ![s] = faulty'[s]] /\ faulty'[s] \in BOOLEAN
    BY <1>1, <1>2 DEF IInv, TypeOK, Locking
  <2>2. /\ round' = [round EXCEPT ![w] = round'[w]] /\ round'[w] \in Round \cup {None}
        /\ score' = [score EXCEPT ![w] = score'[w]] /\ score'[w] \in Stats
    BY <1>1, <1>2 DEF IInv, TypeOK
  <2>3. /\ game' = [game EXCEPT ![s] = game'[s]] /\ game'[s] \in Round \cup {None}
        /\ stats' = [stats EXCEPT ![s] = stats'[s]] /\ stats'[s] \in Stats
    BY <1>1, <1>2 DEF IInv, TypeOK
  <2>4. results' = [results EXCEPT ![s] = results'[s]] /\ results'[s] \in Seq(BOOLEAN)
    BY <1>1, <1>2 DEF IInv, TypeOK
  <2>5. QED
    BY <1>1, <1>2, <2>1, <2>2, <2>3, <2>4 DEF LockedFrame, NewTypes
<1>4. MemoryOf(w)'
  BY <1>1, <1>2 DEF MemoryOf, IInv, TypeOK
<1>5. QED
  BY <1>0, <1>1, <1>3, <1>4, LockedStep

LEMMA LoadStatsStep ==
  ASSUME IInv, NEW w \in Worker, LoadStats(w)
  PROVE  IInv'
<1> USE DEF Goto, Fails
<1>0. pc[w] \in Locking
  BY DEF LoadStats, Locking
<1>a. PICK s \in Subject : s = req[w].subject
  BY <1>0, LockedFacts
<1>1. /\ s = req[w].subject
      /\ req[w] \in Request /\ req[w].cmd \in {"wordle", "new", "giveup"}
      /\ round[w] \in Round \cup {None}
      /\ score[w] \in Stats
      /\ game[s] \in Round \cup {None}
      /\ stats[s] \in Stats
      /\ results[s] \in Seq(BOOLEAN)
      /\ faulty[s] \in BOOLEAN
  BY <1>0, <1>a, LockedFacts
<1>2. /\ pc[w] = "loadStats"
      /\ UNCHANGED <<game, stats, lock, req, round, results>>
      /\ \/ /\ score' = [score EXCEPT ![w] = stats[s]]
            /\ pc' = [pc EXCEPT ![w] = "putStats"]
            /\ UNCHANGED faulty
         \/ /\ pc' = [pc EXCEPT ![w] = "done"]
            /\ faulty' = [faulty EXCEPT ![s] = TRUE]
            /\ UNCHANGED score
  BY <1>1 DEF LoadStats
<1>3. LockedFrame(w, s) /\ NewTypes(w, s)
  <2>1. /\ pc' = [pc EXCEPT ![w] = pc'[w]] /\ pc'[w] \in Locking
        /\ faulty' = [faulty EXCEPT ![s] = faulty'[s]] /\ faulty'[s] \in BOOLEAN
    BY <1>1, <1>2 DEF IInv, TypeOK, Locking
  <2>2. /\ round' = [round EXCEPT ![w] = round'[w]] /\ round'[w] \in Round \cup {None}
        /\ score' = [score EXCEPT ![w] = score'[w]] /\ score'[w] \in Stats
    BY <1>1, <1>2 DEF IInv, TypeOK
  <2>3. /\ game' = [game EXCEPT ![s] = game'[s]] /\ game'[s] \in Round \cup {None}
        /\ stats' = [stats EXCEPT ![s] = stats'[s]] /\ stats'[s] \in Stats
    BY <1>1, <1>2 DEF IInv, TypeOK
  <2>4. results' = [results EXCEPT ![s] = results'[s]] /\ results'[s] \in Seq(BOOLEAN)
    BY <1>1, <1>2 DEF IInv, TypeOK
  <2>5. QED
    BY <1>1, <1>2, <2>1, <2>2, <2>3, <2>4 DEF LockedFrame, NewTypes
<1>4. MemoryOf(w)'
  BY <1>1, <1>2 DEF MemoryOf, IInv, TypeOK
<1>5. QED
  BY <1>0, <1>1, <1>3, <1>4, LockedStep

LEMMA PutStatsStep ==
  ASSUME IInv, NEW w \in Worker, PutStats(w)
  PROVE  IInv'
<1> USE DEF Goto, Fails
<1>0. pc[w] \in Locking
  BY DEF PutStats, Locking
<1>a. PICK s \in Subject : s = req[w].subject
  BY <1>0, LockedFacts
<1>1. /\ s = req[w].subject
      /\ req[w] \in Request /\ req[w].cmd \in {"wordle", "new", "giveup"}
      /\ round[w] \in Round \cup {None}
      /\ score[w] \in Stats
      /\ game[s] \in Round \cup {None}
      /\ stats[s] \in Stats
      /\ results[s] \in Seq(BOOLEAN)
      /\ faulty[s] \in BOOLEAN
  BY <1>0, <1>a, LockedFacts
<1>2. /\ pc[w] = "putStats" /\ game[s] \in Round /\ round[w] = game[s]
      /\ req[w].cmd # "new" => Finished(game[s])
      /\ faulty[s] \/ Awaits(game[s], results[s])
      /\ UNCHANGED <<game, lock, req, round, score>>
  BY <1>1 DEF PutStats, IInv, MemoryOf
<1>3. PICK won \in BOOLEAN : won = game[s].solved
  BY <1>2 DEF Round
<1>4. \/ /\ stats' = [stats EXCEPT ![s] = Scored(score[w], won)]
         /\ results' = [results EXCEPT ![s] = Append(results[s], won)]
         /\ \/ /\ pc' = [pc EXCEPT ![w] = IF req[w].cmd = "new" THEN "startFresh" ELSE "done"]
               /\ UNCHANGED faulty
            \/ /\ pc' = [pc EXCEPT ![w] = "done"]
               /\ faulty' = [faulty EXCEPT ![s] = TRUE]
      \/ /\ pc' = [pc EXCEPT ![w] = "done"]
         /\ faulty' = [faulty EXCEPT ![s] = TRUE]
         /\ UNCHANGED <<stats, results>>
  BY <1>1, <1>2, <1>3 DEF PutStats
<1>5. /\ Scored(score[w], won) \in Stats
      /\ Append(results[s], won) \in Seq(BOOLEAN) /\ Append(results[s], won) # <<>>
  BY <1>1, StatsStayStats, AppendedSet
<1>6. req[w].cmd # "new" /\ ~faulty[s] => Fits(game[s], Append(results[s], won))
  BY <1>1, <1>2, <1>3, ResultFits
<1>7. LockedFrame(w, s) /\ NewTypes(w, s)
  <2>1. /\ pc' = [pc EXCEPT ![w] = pc'[w]] /\ pc'[w] \in Locking
        /\ faulty' = [faulty EXCEPT ![s] = faulty'[s]] /\ faulty'[s] \in BOOLEAN
    BY <1>1, <1>2, <1>3, <1>4, <1>5, <1>6 DEF IInv, TypeOK, Locking
  <2>2. /\ round' = [round EXCEPT ![w] = round'[w]] /\ round'[w] \in Round \cup {None}
        /\ score' = [score EXCEPT ![w] = score'[w]] /\ score'[w] \in Stats
    BY <1>1, <1>2, <1>3, <1>4, <1>5, <1>6 DEF IInv, TypeOK
  <2>3. /\ game' = [game EXCEPT ![s] = game'[s]] /\ game'[s] \in Round \cup {None}
        /\ stats' = [stats EXCEPT ![s] = stats'[s]] /\ stats'[s] \in Stats
    BY <1>1, <1>2, <1>3, <1>4, <1>5, <1>6 DEF IInv, TypeOK
  <2>4. results' = [results EXCEPT ![s] = results'[s]] /\ results'[s] \in Seq(BOOLEAN)
    BY <1>1, <1>2, <1>3, <1>4, <1>5, <1>6 DEF IInv, TypeOK
  <2>5. QED
    BY <1>1, <1>2, <1>3, <1>4, <1>5, <1>6, <2>1, <2>2, <2>3, <2>4 DEF LockedFrame, NewTypes
<1>8. MemoryOf(w)'
  BY <1>1, <1>2, <1>3, <1>4, <1>5, <1>6 DEF MemoryOf, IInv, TypeOK
<1>9. QED
  BY <1>0, <1>1, <1>7, <1>8, LockedStep

LEMMA StartFreshStep ==
  ASSUME IInv, NEW w \in Worker, StartFresh(w)
  PROVE  IInv'
<1> USE DEF Goto, Fails
<1>0. pc[w] \in Locking
  BY DEF StartFresh, Locking
<1>a. PICK s \in Subject : s = req[w].subject
  BY <1>0, LockedFacts
<1>1. /\ s = req[w].subject
      /\ req[w] \in Request /\ req[w].cmd \in {"wordle", "new", "giveup"}
      /\ round[w] \in Round \cup {None}
      /\ score[w] \in Stats
      /\ game[s] \in Round \cup {None}
      /\ stats[s] \in Stats
      /\ results[s] \in Seq(BOOLEAN)
      /\ faulty[s] \in BOOLEAN
  BY <1>0, <1>a, LockedFacts
<1>2. PICK g :
        /\ g \in Round /\ Fits(g, <<>>)
        /\ round' = [round EXCEPT ![w] = g]
        /\ \/ /\ game' = [game EXCEPT ![s] = g]
              /\ results' = [results EXCEPT ![s] = <<>>]
              /\ \/ /\ pc' = [pc EXCEPT ![w] = IF req[w].cmd = "new" THEN "done" ELSE "play"]
                    /\ faulty' = [faulty EXCEPT ![s] = FALSE]
                 \/ /\ pc' = [pc EXCEPT ![w] = "done"]
                    /\ faulty' = [faulty EXCEPT ![s] = TRUE]
           \/ /\ pc' = [pc EXCEPT ![w] = "done"]
              /\ faulty' = [faulty EXCEPT ![s] = TRUE]
              /\ UNCHANGED <<game, results>>
  <2>1. PICK target \in Word :
          /\ round' = [round EXCEPT ![w] = FreshRound(target)]
          /\ LET saved == [game EXCEPT ![s] = FreshRound(target)]
             IN  \/ /\ game' = saved
                    /\ results' = [results EXCEPT ![s] = <<>>]
                    /\ \/ /\ Goto(w, IF req[w].cmd = "new" THEN "done" ELSE "play")
                          /\ faulty' = [faulty EXCEPT ![s] = FALSE]
                       \/ Fails(w)
                 \/ Fails(w) /\ UNCHANGED <<game, results>>
    BY <1>1 DEF StartFresh
  <2>2. PICK g : g = FreshRound(target)
    OBVIOUS
  <2>3. g \in Round /\ Fits(g, <<>>)
    BY <2>2, FreshRoundFits
  <2>4. QED
    BY <1>1, <2>1, <2>2, <2>3
<1>3. UNCHANGED <<stats, lock, req, score>> /\ g # None /\ <<>> \in Seq(BOOLEAN)
  BY <1>2, ConstantsAssumption DEF StartFresh
<1>4. LockedFrame(w, s) /\ NewTypes(w, s)
  <2>1. /\ pc' = [pc EXCEPT ![w] = pc'[w]] /\ pc'[w] \in Locking
        /\ faulty' = [faulty EXCEPT ![s] = faulty'[s]] /\ faulty'[s] \in BOOLEAN
    BY <1>1, <1>2, <1>3 DEF IInv, TypeOK, Locking
  <2>2. /\ round' = [round EXCEPT ![w] = round'[w]] /\ round'[w] \in Round \cup {None}
        /\ score' = [score EXCEPT ![w] = score'[w]] /\ score'[w] \in Stats
    BY <1>1, <1>2, <1>3 DEF IInv, TypeOK
  <2>3. /\ game' = [game EXCEPT ![s] = game'[s]] /\ game'[s] \in Round \cup {None}
        /\ stats' = [stats EXCEPT ![s] = stats'[s]] /\ stats'[s] \in Stats
    BY <1>1, <1>2, <1>3 DEF IInv, TypeOK
  <2>4. results' = [results EXCEPT ![s] = results'[s]] /\ results'[s] \in Seq(BOOLEAN)
    BY <1>1, <1>2, <1>3 DEF IInv, TypeOK
  <2>5. QED
    BY <1>1, <1>2, <1>3, <2>1, <2>2, <2>3, <2>4 DEF LockedFrame, NewTypes
<1>5. MemoryOf(w)'
  BY <1>1, <1>2, <1>3 DEF MemoryOf, IInv, TypeOK
<1>6. QED
  BY <1>0, <1>1, <1>4, <1>5, LockedStep

(* What saveGame leaves behind, and where the handler goes next.            *)
LEMMA SaveGameParts ==
  ASSUME NEW w, NEW s, NEW g, NEW then, req[w].subject = s, SaveGame(w, g, then)
  PROVE  LET saved == [game EXCEPT ![s] = g]
         IN  \/ /\ game' = saved /\ pc' = [pc EXCEPT ![w] = then]
                /\ UNCHANGED faulty
             \/ /\ game' \in {game, saved} /\ pc' = [pc EXCEPT ![w] = "done"]
                /\ faulty' = [faulty EXCEPT ![s] = TRUE]
BY DEF SaveGame, Goto, Fails

LEMMA GuessStep ==
  ASSUME IInv, NEW w \in Worker, Guess(w)
  PROVE  IInv'
<1> USE DEF Goto, Fails
<1>0. pc[w] \in Locking
  BY DEF Guess, Locking
<1>a. PICK s \in Subject : s = req[w].subject
  BY <1>0, LockedFacts
<1>1. /\ s = req[w].subject
      /\ req[w] \in Request /\ req[w].cmd \in {"wordle", "new", "giveup"}
      /\ round[w] \in Round \cup {None}
      /\ score[w] \in Stats
      /\ game[s] \in Round \cup {None}
      /\ stats[s] \in Stats
      /\ results[s] \in Seq(BOOLEAN)
      /\ faulty[s] \in BOOLEAN
  BY <1>0, <1>a, LockedFacts
<1>2. /\ pc[w] = "play" /\ req[w].cmd = "wordle"
      /\ game[s] \in Round /\ round[w] = game[s]
      /\ faulty[s] \/ Fits(game[s], results[s])
      /\ req[w].arg \in Word /\ ~Finished(game[s])
      /\ UNCHANGED <<stats, lock, req, score, results>>
  <2>1. req[w].arg \in Word \cup {NoArg, BadArg} /\ req[w].cmd = "wordle"
    BY <1>1, RequestParts DEF Guess
  <2>2. QED
    BY <1>1, <2>1 DEF Guess, OnlyAnswered, JustReplies, IInv, MemoryOf
<1>3. PICK g : g = Guessed(game[s], req[w].arg)
  OBVIOUS
<1>4. /\ g \in Round /\ g # None
      /\ ~faulty[s] => Awaits(g, results[s]) /\ (~Finished(g) => Fits(g, results[s]))
  BY <1>2, <1>3, GuessedAwaits, GuessedIsRound, ConstantsAssumption
<1>5. /\ round' = [round EXCEPT ![w] = g]
      /\ LET saved == [game EXCEPT ![s] = g]
         IN  \/ /\ game' = saved /\ UNCHANGED faulty
                /\ pc' = [pc EXCEPT ![w] = IF Finished(g) THEN "loadStats" ELSE "done"]
             \/ /\ game' \in {game, saved} /\ pc' = [pc EXCEPT ![w] = "done"]
                /\ faulty' = [faulty EXCEPT ![s] = TRUE]
  <2>1. round' = [round EXCEPT ![w] = g]
    BY <1>2, <1>3 DEF Guess
  <2>2. SaveGame(w, g, IF Finished(g) THEN "loadStats" ELSE "done")
    BY <1>2, <1>3 DEF Guess
  <2>3. QED
    BY <1>1, <2>1, <2>2, SaveGameParts
<1>6. LockedFrame(w, s) /\ NewTypes(w, s)
  <2>1. /\ pc' = [pc EXCEPT ![w] = pc'[w]] /\ pc'[w] \in Locking
        /\ faulty' = [faulty EXCEPT ![s] = faulty'[s]] /\ faulty'[s] \in BOOLEAN
    BY <1>1, <1>2, <1>3, <1>4, <1>5 DEF IInv, TypeOK, Locking
  <2>2. /\ round' = [round EXCEPT ![w] = round'[w]] /\ round'[w] \in Round \cup {None}
        /\ score' = [score EXCEPT ![w] = score'[w]] /\ score'[w] \in Stats
    BY <1>1, <1>2, <1>3, <1>4, <1>5 DEF IInv, TypeOK
  <2>3. /\ game' = [game EXCEPT ![s] = game'[s]] /\ game'[s] \in Round \cup {None}
        /\ stats' = [stats EXCEPT ![s] = stats'[s]] /\ stats'[s] \in Stats
    BY <1>1, <1>2, <1>3, <1>4, <1>5 DEF IInv, TypeOK
  <2>4. results' = [results EXCEPT ![s] = results'[s]] /\ results'[s] \in Seq(BOOLEAN)
    BY <1>1, <1>2, <1>3, <1>4, <1>5 DEF IInv, TypeOK
  <2>5. QED
    BY <1>1, <1>2, <1>3, <1>4, <1>5, <2>1, <2>2, <2>3, <2>4 DEF LockedFrame, NewTypes
<1>7. MemoryOf(w)'
  BY <1>1, <1>2, <1>3, <1>4, <1>5 DEF MemoryOf, IInv, TypeOK
<1>8. QED
  BY <1>0, <1>1, <1>6, <1>7, LockedStep

LEMMA GiveupStep ==
  ASSUME IInv, NEW w \in Worker, Giveup(w)
  PROVE  IInv'
<1> USE DEF Goto, Fails
<1>0. pc[w] \in Locking
  BY DEF Giveup, Locking
<1>a. PICK s \in Subject : s = req[w].subject
  BY <1>0, LockedFacts
<1>1. /\ s = req[w].subject
      /\ req[w] \in Request /\ req[w].cmd \in {"wordle", "new", "giveup"}
      /\ round[w] \in Round \cup {None}
      /\ score[w] \in Stats
      /\ game[s] \in Round \cup {None}
      /\ stats[s] \in Stats
      /\ results[s] \in Seq(BOOLEAN)
      /\ faulty[s] \in BOOLEAN
  BY <1>0, <1>a, LockedFacts
<1>2. /\ pc[w] = "play" /\ req[w].cmd = "giveup"
      /\ game[s] \in Round /\ round[w] = game[s] /\ ~game[s].solved
      /\ faulty[s] \/ Fits(game[s], results[s])
      /\ UNCHANGED <<stats, lock, req, score, results>>
  BY <1>1 DEF Giveup, OnlyAnswered, JustReplies, IInv, MemoryOf
<1>3. PICK g : g = [game[s] EXCEPT !.giveup = TRUE]
  OBVIOUS
<1>4. /\ g \in Round /\ g # None /\ Finished(g)
      /\ ~faulty[s] => Awaits(g, results[s])
  BY <1>2, <1>3, GivenUpAwaits, ConstantsAssumption
<1>5. /\ round' = [round EXCEPT ![w] = g]
      /\ LET saved == [game EXCEPT ![s] = g]
         IN  \/ /\ game' = saved /\ UNCHANGED faulty
                /\ pc' = [pc EXCEPT ![w] = "loadStats"]
             \/ /\ game' \in {game, saved} /\ pc' = [pc EXCEPT ![w] = "done"]
                /\ faulty' = [faulty EXCEPT ![s] = TRUE]
  <2>1. round' = [round EXCEPT ![w] = g] /\ SaveGame(w, g, "loadStats")
    BY <1>2, <1>3 DEF Giveup
  <2>2. QED
    BY <1>1, <2>1, SaveGameParts
<1>6. LockedFrame(w, s) /\ NewTypes(w, s)
  <2>1. /\ pc' = [pc EXCEPT ![w] = pc'[w]] /\ pc'[w] \in Locking
        /\ faulty' = [faulty EXCEPT ![s] = faulty'[s]] /\ faulty'[s] \in BOOLEAN
    BY <1>1, <1>2, <1>3, <1>4, <1>5 DEF IInv, TypeOK, Locking
  <2>2. /\ round' = [round EXCEPT ![w] = round'[w]] /\ round'[w] \in Round \cup {None}
        /\ score' = [score EXCEPT ![w] = score'[w]] /\ score'[w] \in Stats
    BY <1>1, <1>2, <1>3, <1>4, <1>5 DEF IInv, TypeOK
  <2>3. /\ game' = [game EXCEPT ![s] = game'[s]] /\ game'[s] \in Round \cup {None}
        /\ stats' = [stats EXCEPT ![s] = stats'[s]] /\ stats'[s] \in Stats
    BY <1>1, <1>2, <1>3, <1>4, <1>5 DEF IInv, TypeOK
  <2>4. results' = [results EXCEPT ![s] = results'[s]] /\ results'[s] \in Seq(BOOLEAN)
    BY <1>1, <1>2, <1>3, <1>4, <1>5 DEF IInv, TypeOK
  <2>5. QED
    BY <1>1, <1>2, <1>3, <1>4, <1>5, <2>1, <2>2, <2>3, <2>4 DEF LockedFrame, NewTypes
<1>7. MemoryOf(w)'
  BY <1>1, <1>2, <1>3, <1>4, <1>5 DEF MemoryOf, IInv, TypeOK
<1>8. QED
  BY <1>0, <1>1, <1>6, <1>7, LockedStep

LEMMA CrashStep ==
  ASSUME IInv, Crash
  PROVE  IInv'
<1>1. /\ pc' = [w \in Worker |-> "idle"]
      /\ req' = [w \in Worker |-> Idle]
      /\ round' = [w \in Worker |-> None]
      /\ score' = [w \in Worker |-> NoStats]
      /\ lock' = [s \in Subject |-> None]
      /\ faulty' = [s \in Subject |-> faulty[s] \/ Busy(s)]
      /\ UNCHANGED <<game, stats, results>>
  BY DEF Crash
<1>2. TypeOK'
  <2>1. faulty' \in [Subject -> BOOLEAN]
    BY <1>1, Zenon DEF Busy, IInv, TypeOK
  <2>2. QED
    BY <1>1, <2>1, StatsStayStats DEF IInv, TypeOK, Locking
<1>3. ASSUME NEW w \in Worker
      PROVE  ControlOf(w)' /\ MemoryOf(w)'
  BY <1>1 DEF ControlOf, MemoryOf, Locking
<1>4. ASSUME NEW s \in Subject
      PROVE  RoundOf(s)'
  <2>1. faulty[s] \/ Busy(s) => faulty'[s]
    BY <1>1
  <2>2. RoundOf(s)
    BY DEF IInv
  <2>3. QED
    BY <1>1, <2>1, <2>2 DEF RoundOf
<1>5. QED
  BY <1>2, <1>3, <1>4 DEF IInv

----------------------------------------------------------------------------

LEMMA Inductive == Spec => []IInv
<1>1. IInv /\ [Next]_vars => IInv'
  <2> SUFFICES ASSUME IInv, [Next]_vars
               PROVE  IInv'
    OBVIOUS
  <2>1. ASSUME NEW w \in Worker, NEW r \in Request, Receive(w, r)
        PROVE  IInv'
    BY <2>1, ReceiveStep
  <2>2. ASSUME NEW w \in Worker, Acquire(w) \/ Handle(w)
        PROVE  IInv'
    BY <2>2, AcquireStep, LoadGameStep, StartFreshStep, AnswerStep, GuessStep, GiveupStep,
       LoadStatsStep, PutStatsStep, ForgetStep DEF Handle
  <2>3. CASE Crash
    BY <2>3, CrashStep
  <2>4. CASE UNCHANGED vars
    <3>1. UNCHANGED <<game, stats, lock, pc, req, round, score, results, faulty>>
      BY <2>4 DEF vars
    <3>2. TypeOK'
      BY <3>1 DEF IInv, TypeOK
    <3>3. ASSUME NEW w \in Worker
          PROVE  ControlOf(w)' /\ MemoryOf(w)'
      BY <3>1 DEF IInv, ControlOf, MemoryOf
    <3>4. \A s \in Subject : RoundOf(s)'
      BY <3>1 DEF IInv, RoundOf, Busy
    <3>5. QED
      BY <3>2, <3>3, <3>4 DEF IInv
  <2>5. QED
    BY <2>1, <2>2, <2>3, <2>4 DEF Next
<1>2. QED
  BY InitIInv, <1>1, PTL DEF Spec

(* When nothing failed and no handler is at work on a subject, the results  *)
(* recorded for its round are what the round says (handlers.go, state.go).  *)
THEOREM ResultsFitRounds == Spec => []WordleInv
<1>1. IInv => WordleInv
  <2> SUFFICES ASSUME IInv, NEW s \in Subject, Settled(s)
               PROVE  CASE ~Finished(game[s]) -> results[s] = <<>>
                        [] game[s].solved -> results[s] = <<TRUE>>
                        [] OTHER -> results[s] # <<>> /\ ToSet(results[s]) = {FALSE}
    BY DEF IInv, WordleInv, ResultsMatchRound
  <2>1. Fits(game[s], results[s])
    BY DEF Settled, IInv, RoundOf
  <2>2. ~Finished(game[s]) => ~game[s].solved
    BY DEF Finished
  <2>3. QED
    BY <2>1, <2>2 DEF Fits
<1>2. QED
  BY Inductive, <1>1, PTL

(* No handler's result overwrites another's: each change of the stats adds  *)
(* one result to those it replaces (recordResult, state.go).                *)
THEOREM NoResultIsLost == Spec => StatsNeverLoseAResult
<1>1. ASSUME NEW st \in Stats, NEW won \in BOOLEAN
      PROVE  CountsOneResult(st, Scored(st, won))
  BY DEF Stats, Scored, CountsOneResult
<1>2. IInv /\ [Next]_vars =>
        [\A s \in Subject :
           stats'[s] # stats[s] => CountsOneResult(stats[s], stats'[s])]_vars
  <2> SUFFICES ASSUME IInv, Next, NEW s \in Subject, stats'[s] # stats[s]
               PROVE  CountsOneResult(stats[s], stats'[s])
    OBVIOUS
  <2>1. PICK w \in Worker : PutStats(w)
    BY DEF Next, Handle, Receive, Acquire, LoadGame, StartFresh, Answer, Guess, Giveup,
           LoadStats, ReplyUnlocked, ReturnAndUnlock, Crash
  <2>2. /\ pc[w] = "putStats" /\ req[w].subject \in Subject
        /\ stats' \in {stats, [stats EXCEPT ![req[w].subject] =
                                Scored(score[w], round[w].solved)]}
    BY <2>1 DEF PutStats, IInv, ControlOf, Locking
  <2>3. /\ req[w].subject = s
        /\ stats'[s] = Scored(score[w], round[w].solved)
    BY <2>2 DEF IInv, TypeOK
  <2>4. game[s] # None /\ round[w] = game[s] /\ score[w] = stats[s]
    BY <2>2, <2>3 DEF IInv, MemoryOf
  <2>5. stats[s] \in Stats /\ game[s] \in Round
    BY <2>4 DEF IInv, TypeOK
  <2>6. game[s].solved \in BOOLEAN
    BY <2>5 DEF Round
  <2>7. QED
    BY <1>1, <2>3, <2>4, <2>5, <2>6
<1>3. QED
  BY Inductive, <1>2, PTL DEF Spec, StatsNeverLoseAResult

(* A step changes a stored round by the rules of the game or not at all.    *)
MovesByRules(s) ==
  \/ /\ \E target \in Word : game'[s] = FreshRound(target)
     /\ game[s] # None /\ ~Finished(game[s]) => results[s] # <<>>
  \/ /\ game[s] # None
     /\ ~Finished(game[s])
     /\ \E word \in Word : game'[s] = Guessed(game[s], word)
  \/ /\ game[s] # None
     /\ ~game[s].solved
     /\ game'[s] = [game[s] EXCEPT !.giveup = TRUE]

LEMMA RoundSteps ==
  ASSUME IInv, Next, NEW s \in Subject, game'[s] # game[s]
  PROVE  MovesByRules(s)
<1>1. ASSUME NEW w \in Worker, StartFresh(w)
      PROVE  MovesByRules(s)
  <2>1. PICK target \in Word :
          \/ game' = game
          \/ game' = [game EXCEPT ![req[w].subject] = FreshRound(target)]
    BY <1>1 DEF StartFresh
  <2>2. req[w].subject = s /\ game'[s] = FreshRound(target)
    BY <1>1, <2>1 DEF IInv, TypeOK
  <2>3. pc[w] = "startFresh"
    BY <1>1 DEF StartFresh
  <2>4. game[s] # None => Finished(game[s]) \/ results[s] # <<>>
    BY <1>1, <2>2, <2>3 DEF IInv, MemoryOf
  <2>5. QED
    BY <2>2, <2>4 DEF MovesByRules
<1>2. ASSUME NEW w \in Worker, Guess(w)
      PROVE  MovesByRules(s)
  <2>1. /\ pc[w] = "play" /\ req[w].cmd = "wordle"
        /\ ~JustReplies(req[w], round[w])
        /\ req[w] \in Request
        /\ game' \in {game, [game EXCEPT ![req[w].subject] = Guessed(round[w], req[w].arg)]}
    BY <1>2 DEF Guess, SaveGame, OnlyAnswered, IInv, ControlOf, Locking
  <2>2. req[w].subject = s /\ game'[s] = Guessed(round[w], req[w].arg)
    BY <1>2, <2>1 DEF IInv, TypeOK
  <2>3. game[s] # None /\ round[w] = game[s]
    BY <1>2, <2>1, <2>2 DEF IInv, MemoryOf
  <2>4. req[w].arg \in Word /\ ~Finished(game[s])
    BY <2>1, <2>3, RequestParts DEF JustReplies
  <2>5. QED
    BY <2>2, <2>3, <2>4 DEF MovesByRules
<1>3. ASSUME NEW w \in Worker, Giveup(w)
      PROVE  MovesByRules(s)
  <2>1. /\ pc[w] = "play" /\ req[w].cmd = "giveup"
        /\ ~JustReplies(req[w], round[w])
        /\ game' \in {game, [game EXCEPT ![req[w].subject] =
                                [round[w] EXCEPT !.giveup = TRUE]]}
    BY <1>3 DEF Giveup, SaveGame, OnlyAnswered
  <2>2. req[w].subject = s /\ game'[s] = [round[w] EXCEPT !.giveup = TRUE]
    BY <1>3, <2>1 DEF IInv, TypeOK
  <2>3. game[s] # None /\ round[w] = game[s]
    BY <1>3, <2>1, <2>2 DEF IInv, MemoryOf
  <2>4. ~game[s].solved
    BY <2>1, <2>3 DEF JustReplies
  <2>5. QED
    BY <2>2, <2>3, <2>4 DEF MovesByRules
<1>4. PICK w \in Worker : StartFresh(w) \/ Guess(w) \/ Giveup(w)
  BY DEF Next, Handle, Receive, Acquire, LoadGame, Answer,
         LoadStats, PutStats, ReplyUnlocked, ReturnAndUnlock, Crash
<1>5. QED
  BY <1>1, <1>2, <1>3, <1>4

(* A stored round moves by the rules of the game only, and an unfinished    *)
(* one is replaced only after its loss is recorded (handlers.go:139).       *)
THEOREM RoundsFollowRules == Spec => RoundFollowsRules
<1>1. IInv /\ [Next]_vars =>
        [\A s \in Subject : game'[s] # game[s] => MovesByRules(s)]_vars
  BY RoundSteps
<1>2. QED
  BY Inductive, <1>1, PTL DEF Spec, RoundFollowsRules, MovesByRules

----------------------------------------------------------------------------
(* The letters (WordScore).                                                 *)

(* A one-to-one image of a set has as many elements.                        *)
LEMMA SameNumber ==
  ASSUME NEW A, NEW B, IsFiniteSet(A), NEW f,
         \A x \in A : f[x] \in B,
         \A y \in B : \E x \in A : f[x] = y,
         \A x, y \in A : f[x] = f[y] => x = y
  PROVE  IsFiniteSet(B) /\ Cardinality(B) = Cardinality(A)
<1> DEFINE g == [x \in A |-> f[x]]
<1>1. g \in Bijection(A, B)
  BY DEF Bijection, Injection, Surjection, IsInjective
<1>2. ExistsBijection(A, B)
  BY <1>1 DEF ExistsBijection
<1>3. QED
  BY <1>2, FS_Bijection

(* How often a letter is in a list.                                         *)
At(s, l) == {k \in DOMAIN s : s[k] = l}
Count(s, l) == Cardinality(At(s, l))

LEMMA CountsAreNumbers ==
  ASSUME NEW S, NEW s \in Seq(S), NEW l
  PROVE  /\ IsFiniteSet(At(s, l)) /\ Count(s, l) \in Nat
         /\ Contains(s, l) <=> Count(s, l) # 0
<1>1. IsFiniteSet(1 .. Len(s)) /\ DOMAIN s = 1 .. Len(s)
  BY FS_Interval
<1>2. At(s, l) \in SUBSET (1 .. Len(s))
  BY <1>1 DEF At
<1>3. IsFiniteSet(At(s, l))
  BY <1>1, <1>2, FS_Subset
<1>4. Count(s, l) \in Nat /\ (Count(s, l) = 0 <=> At(s, l) = {})
  BY <1>3, FS_CardinalityType, FS_EmptySet DEF Count
<1>5. Contains(s, l) <=> At(s, l) # {}
  BY <1>1 DEF Contains, At
<1>6. QED
  BY <1>3, <1>4, <1>5

LEMMA Removed ==
  ASSUME NEW S, NEW s \in Seq(S), NEW i \in 1 .. Len(s)
  PROVE  /\ RemoveAt(s, i) \in Seq(S) /\ Len(RemoveAt(s, i)) = Len(s) - 1
         /\ \A k \in 1 .. Len(s) - 1 :
              RemoveAt(s, i)[k] = IF k < i THEN s[k] ELSE s[k + 1]
<1> DEFINE n == Len(s)
           a == SubSeq(s, 1, i - 1)
           b == SubSeq(s, i + 1, n)
<1> DEFINE c == a \o b
<1>1. /\ a \in Seq(S) /\ Len(a) = i - 1
      /\ \A k \in 1 .. i - 1 : a[k] = s[k]
  OBVIOUS
<1>2. /\ b \in Seq(S) /\ Len(b) = n - i
      /\ \A k \in 1 .. n - i : b[k] = s[i + k]
  OBVIOUS
<1>3. n \in Nat /\ i \in 1 .. n
  OBVIOUS
<1>4. RemoveAt(s, i) = c
  BY DEF RemoveAt
<1> HIDE DEF a, b, n
<1>5. /\ c \in Seq(S) /\ Len(c) = Len(a) + Len(b)
      /\ \A k \in 1 .. Len(a) : c[k] = a[k]
      /\ \A k \in 1 .. Len(b) : c[Len(a) + k] = b[k]
  <2>1. Follow(Join(a, b), S, a, b)
    BY <1>1, <1>2, JoinedAt
  <2>2. c = Join(a, b)
    BY DEF Join
  <2> HIDE DEF c
  <2>3. QED
    BY <2>1, <2>2 DEF Follow
<1> HIDE DEF c
<1>6. ASSUME NEW k \in 1 .. n - 1
      PROVE  c[k] = IF k < i THEN s[k] ELSE s[k + 1]
  <2>1. CASE k < i
    <3>1. k \in 1 .. i - 1
      BY <1>3, <2>1
    <3>2. QED
      BY <1>1, <1>5, <2>1, <3>1
  <2>2. CASE ~ (k < i)
    <3> DEFINE m == k - (i - 1)
    <3>1. m \in 1 .. n - i /\ i + m = k + 1 /\ (i - 1) + m = k
      BY <1>3, <2>2
    <3> HIDE DEF m
    <3>2. c[(i - 1) + m] = b[m] /\ b[m] = s[i + m]
      BY <1>1, <1>2, <1>5, <3>1
    <3>3. QED
      BY <2>2, <3>1, <3>2
  <2>3. QED
    BY <2>1, <2>2
<1>7. Len(c) = n - 1
  BY <1>1, <1>2, <1>3, <1>5
<1>8. QED
  BY <1>4, <1>5, <1>6, <1>7 DEF n

(* The pool has one letter less of the kind taken from it.                  *)
LEMMA ConsumedOnce ==
  ASSUME NEW S, NEW s \in Seq(S), NEW e
  PROVE  /\ RemoveFirst(s, e) \in Seq(S)
         /\ \A l : Count(RemoveFirst(s, e), l) =
                     IF l = e /\ Contains(s, e) THEN Count(s, l) - 1 ELSE Count(s, l)
<1>1. CASE ~ Contains(s, e)
  BY <1>1 DEF RemoveFirst, Contains
<1>2. CASE Contains(s, e)
  <2> DEFINE I == {i \in 1 .. Len(s) : s[i] = e}
             i == Min(I)
             t == RemoveFirst(s, e)
             n == Len(s)
  <2>1. I # {} /\ I \in SUBSET Nat
    BY <1>2 DEF Contains
  <2>2. i \in I
    <3> HIDE DEF I
    <3>1. PICK x \in I : \A y \in I : x <= y
      BY <2>1, Least
    <3>2. QED
      BY <3>1 DEF Min
  <2>3. t = RemoveAt(s, i)
    BY <1>2, <2>1 DEF RemoveFirst, SelectInSeq, Contains
  <2>4. n \in Nat /\ i \in 1 .. n /\ s[i] = e
    BY <2>2
  <2> HIDE DEF I, t, i
  <2>5. /\ t \in Seq(S) /\ Len(t) = n - 1
        /\ \A k \in 1 .. n - 1 : t[k] = IF k < i THEN s[k] ELSE s[k + 1]
    BY <2>3, <2>4, Removed
  <2>6. ASSUME NEW l
        PROVE  Count(t, l) = IF l = e THEN Count(s, l) - 1 ELSE Count(s, l)
    <3> DEFINE f == [k \in 1 .. n - 1 |-> IF k < i THEN k ELSE k + 1]
               A == At(t, l)
               B == At(s, l) \ {i}
    <3>1. DOMAIN t = 1 .. n - 1 /\ DOMAIN s = 1 .. n
      BY <2>5
    <3>2. IsFiniteSet(A) /\ IsFiniteSet(At(s, l))
      BY <2>5, CountsAreNumbers
    <3>3. \A k \in 1 .. n - 1 : f[k] \in 1 .. n /\ f[k] # i /\ t[k] = s[f[k]]
      BY <2>4, <2>5
    <3>4. \A m \in 1 .. n : m # i => \E k \in 1 .. n - 1 : f[k] = m
      <4> TAKE m \in 1 .. n
      <4>1. CASE m < i
        BY <2>4, <4>1
      <4>2. CASE m > i
        <5>1. m - 1 \in 1 .. n - 1 /\ f[m - 1] = m
          BY <2>4, <4>2
        <5>2. QED
          BY <5>1
      <4>3. QED
        BY <2>4, <4>1, <4>2
    <3>5. \A j, k \in 1 .. n - 1 : f[j] = f[k] => j = k
      BY <2>4
    <3> HIDE DEF f, n
    <3>6. /\ \A k \in A : f[k] \in B
          /\ \A m \in B : \E k \in A : f[k] = m
          /\ \A j, k \in A : f[j] = f[k] => j = k
      BY <3>1, <3>3, <3>4, <3>5 DEF At
    <3> HIDE DEF A, B
    <3>7. Cardinality(B) = Cardinality(A)
      BY <3>2, <3>6, SameNumber DEF A
    <3>8. Cardinality(B) = IF i \in At(s, l) THEN Count(s, l) - 1 ELSE Count(s, l)
      BY <3>2, FS_RemoveElement DEF B, Count
    <3>9. i \in At(s, l) <=> l = e
      BY <2>4, <3>1 DEF At, n
    <3>10. QED
      BY <3>7, <3>8, <3>9 DEF A, Count
  <2>7. QED
    BY <1>2, <2>5, <2>6 DEF t
<1>3. QED
  BY <1>1, <1>2

(* The elements of a set of indices up to j, one index after another.       *)
UpTo(A, j) == {i \in A : i <= j}
Rank(A, j) == Cardinality(UpTo(A, j))

Ranked(A, n) ==
  /\ IsFiniteSet(A) /\ Rank(A, 0) = 0 /\ Rank(A, n) = Cardinality(A)
  /\ \A j \in 0 .. n : Rank(A, j) \in Nat
  /\ \A j \in 1 .. n : Rank(A, j) = IF j \in A THEN Rank(A, j - 1) + 1
                                    ELSE Rank(A, j - 1)

LEMMA RankSteps ==
  ASSUME NEW n \in Nat, NEW A \in SUBSET (1 .. n)
  PROVE  Ranked(A, n)
<1>0. \A i \in A : i \in 1 .. n
  OBVIOUS
<1>1. IsFiniteSet(A)
  <2>1. IsFiniteSet(1 .. n)
    BY FS_Interval
  <2>2. QED
    BY <2>1, FS_Subset
<1>2. \A j : IsFiniteSet(UpTo(A, j)) /\ Rank(A, j) \in Nat
  BY <1>1, FS_Subset, FS_CardinalityType DEF UpTo, Rank
<1>3. Rank(A, 0) = 0
  <2>1. UpTo(A, 0) = {}
    <3>1. \A i \in A : ~ (i <= 0)
      BY <1>0
    <3>2. QED
      BY <3>1 DEF UpTo
  <2>2. QED
    BY <2>1, FS_EmptySet DEF Rank
<1>4. Rank(A, n) = Cardinality(A)
  <2>1. UpTo(A, n) = A
    <3>1. \A i \in A : i <= n
      BY <1>0
    <3>2. QED
      BY <3>1 DEF UpTo
  <2>2. QED
    BY <2>1 DEF Rank
<1>5. ASSUME NEW j \in 1 .. n
      PROVE  Rank(A, j) = IF j \in A THEN Rank(A, j - 1) + 1 ELSE Rank(A, j - 1)
  <2>1. CASE j \in A
    <3>1. UpTo(A, j) = UpTo(A, j - 1) \cup {j} /\ j \notin UpTo(A, j - 1)
      <4>1. /\ \A i \in A : (i <= j <=> i <= j - 1 \/ i = j)
            /\ ~ (j <= j - 1) /\ j <= j
        BY <1>0
      <4>2. QED
        BY <2>1, <4>1 DEF UpTo
    <3>2. Cardinality(UpTo(A, j - 1) \cup {j}) = Cardinality(UpTo(A, j - 1)) + 1
      BY <1>2, <3>1, FS_AddElement
    <3>3. QED
      BY <2>1, <3>1, <3>2 DEF Rank
  <2>2. CASE j \notin A
    <3>1. UpTo(A, j) = UpTo(A, j - 1)
      <4>1. \A i \in A : (i <= j <=> i <= j - 1)
        BY <1>0, <2>2
      <4>2. QED
        BY <4>1 DEF UpTo
    <3>2. QED
      BY <2>2, <3>1 DEF Rank
  <2>3. QED
    BY <2>1, <2>2
<1>6. QED
  BY <1>1, <1>2, <1>3, <1>4, <1>5 DEF Ranked

(* Of the elements in their order, those that c can serve.                  *)
Served(A, c) == {i \in A : Rank(A, i - 1) < c}

LEMMA SmallerNumber ==
  ASSUME NEW n \in Nat, NEW A \in SUBSET (1 .. n), NEW c \in Nat
  PROVE  Cardinality(Served(A, c)) = Smaller(Cardinality(A), c)
<1> DEFINE B == Served(A, c)
           D == {j \in 0 .. n : Rank(B, j) = Smaller(Rank(A, j), c)}
           g == [j \in 0 .. n |-> j]
<1>1. B \in SUBSET (1 .. n) /\ (\A i \in A : i \in B <=> Rank(A, i - 1) < c) /\ B \subseteq A
  BY DEF Served
<1>2. \A j \in 0 .. n : g[j] = j
  OBVIOUS
<1> HIDE DEF B, g
<1>3. /\ Rank(A, 0) = 0 /\ Rank(A, n) = Cardinality(A)
      /\ Rank(B, 0) = 0 /\ Rank(B, n) = Cardinality(B)
      /\ \A j \in 0 .. n : Rank(A, j) \in Nat /\ Rank(B, j) \in Nat
      /\ \A j \in 1 .. n :
           /\ Rank(A, j) = IF j \in A THEN Rank(A, j - 1) + 1 ELSE Rank(A, j - 1)
           /\ Rank(B, j) = IF j \in B THEN Rank(B, j - 1) + 1 ELSE Rank(B, j - 1)
  <2>1. Ranked(A, n) /\ Ranked(B, n)
    BY <1>1, RankSteps
  <2>2. QED
    BY <2>1 DEF Ranked
<1>4. g[0] \in D
  BY <1>2, <1>3 DEF Smaller
<1>5. ASSUME NEW j \in 1 .. n, g[j - 1] \in D
      PROVE  g[j] \in D
  <2>1. j - 1 \in 0 .. n /\ j \in 0 .. n /\ g[j - 1] = j - 1 /\ g[j] = j
    BY <1>2
  <2>2. Rank(B, j - 1) = Smaller(Rank(A, j - 1), c)
    BY <1>5, <2>1
  <2>3. /\ Rank(A, j) = IF j \in A THEN Rank(A, j - 1) + 1 ELSE Rank(A, j - 1)
        /\ Rank(B, j) = IF j \in B THEN Rank(B, j - 1) + 1 ELSE Rank(B, j - 1)
        /\ j \in B <=> j \in A /\ Rank(A, j - 1) < c
        /\ Rank(A, j - 1) \in Nat /\ Rank(B, j - 1) \in Nat
    BY <1>1, <1>3, <2>1
  <2>4. Rank(B, j) = Smaller(Rank(A, j), c)
    BY <2>2, <2>3 DEF Smaller
  <2>5. QED
    BY <2>1, <2>4
<1> HIDE DEF D
<1>6. \A j \in 0 .. n : g[j] \in D
  BY <1>4, <1>5, Steps
<1>7. n \in D
  BY <1>2, <1>6
<1>8. QED
  BY <1>3, <1>7 DEF B, D

(* The places where guess and target differ, and a letter's among them.     *)
Misses(guess, target) == {i \in Position : guess[i] # target[i]}
Misplaced(guess, target, word, l) == {i \in Misses(guess, target) : word[i] = l}

(* Pass 1: the pool has the target's letters that are not green.            *)
LEMMA PoolHasTheRest ==
  ASSUME NEW guess \in [Position -> Letter], NEW target \in [Position -> Letter]
  PROVE  /\ Pool(guess, target) \in Seq(Letter)
         /\ \A l : Count(Pool(guess, target), l)
                     = Cardinality(Misplaced(guess, target, target, l))
<1> DEFINE places == [i \in Position |-> i]
           M == Misses(guess, target)
           sel == Keeping(places, M)
           m == Len(sel)
           P == [k \in 1 .. m |-> target[sel[k]]]
<1>1. WordLength \in Nat
  BY ScoreAssumption
<1>2. /\ places \in Seq(Position) /\ Len(places) = WordLength
      /\ \A i \in Position : places[i] = i
  BY <1>1 DEF Position
<1> HIDE DEF places
<1>3. /\ sel \in Seq(Position)
      /\ \E f : Picks(f, sel, places, M, Len(places))
  BY <1>2, KeepingPicks
<1>4. PICK f : Picks(f, sel, places, M, WordLength)
  BY <1>2, <1>3
<1> HIDE DEF sel
<1>5. m \in Nat /\ DOMAIN sel = 1 .. m /\ \A k \in 1 .. m : sel[k] \in Position
  BY <1>3
<1> HIDE DEF m
<1>6. \A k \in 1 .. m : sel[k] = f[k] /\ sel[k] \in M
  BY <1>2, <1>4 DEF Picks, Position, m
<1>7. \A i \in M : \E k \in 1 .. m : sel[k] = i
  <2> TAKE i \in M
  <2>1. i \in Position /\ places[i] \in M
    BY <1>2 DEF Misses
  <2>2. PICK k \in 1 .. m : f[k] = i
    BY <1>4, <2>1 DEF Picks, Position, m
  <2>3. QED
    BY <1>6, <2>2
<1>8. \A j, k \in 1 .. m : sel[j] = sel[k] => j = k
  <2> TAKE j, k \in 1 .. m
  <2>1. \A x, y \in 1 .. m : x < y => sel[x] < sel[y]
    BY <1>4, <1>6 DEF Picks, m
  <2>2. sel[j] \in Int /\ sel[k] \in Int
    BY <1>5 DEF Position
  <2>3. QED
    BY <1>5, <2>1, <2>2
<1>9. Pool(guess, target) = P
  <2>1. M = {i \in Position : guess[i] # target[i]}
    BY DEF Misses
  <2>2. sel = Keeping([i \in Position |-> i], {i \in Position : guess[i] # target[i]})
    BY <2>1 DEF sel, places
  <2>3. Pool(guess, target) = [k \in DOMAIN sel |-> target[sel[k]]]
    BY <2>2 DEF Pool
  <2>4. QED
    BY <1>5, <2>3
<1>10. \A k \in 1 .. m : P[k] = target[sel[k]] /\ P[k] \in Letter
  BY <1>5
<1>11. P \in Seq(Letter) /\ DOMAIN P = 1 .. m
  BY <1>5, <1>10
<1> HIDE DEF P
<1>12. ASSUME NEW l
       PROVE  Count(P, l) = Cardinality(Misplaced(guess, target, target, l))
  <2> DEFINE A == At(P, l)
             B == Misplaced(guess, target, target, l)
  <2>1. IsFiniteSet(A)
    BY <1>11, CountsAreNumbers
  <2>2. /\ \A k \in A : sel[k] \in B
        /\ \A i \in B : \E k \in A : sel[k] = i
        /\ \A j, k \in A : sel[j] = sel[k] => j = k
    BY <1>6, <1>7, <1>8, <1>10, <1>11 DEF At, Misplaced
  <2> HIDE DEF A, B
  <2>3. Cardinality(B) = Cardinality(A)
    BY <2>1, <2>2, SameNumber
  <2>4. QED
    BY <2>3 DEF A, B, Count
<1>13. QED
  BY <1>9, <1>11, <1>12

(* Pass 2: the pool after each letter of the guess.                         *)
Pools(h, guess, target) ==
  /\ h \in [0 .. WordLength -> Seq(Letter)]
  /\ h[0] = Pool(guess, target)
  /\ \A i \in Position :
       h[i] = IF guess[i] = target[i] THEN h[i - 1] ELSE RemoveFirst(h[i - 1], guess[i])
  /\ CompareWords(guess, target) =
       [i \in Position |-> IF guess[i] = target[i] THEN "correct"
                           ELSE IF Contains(h[i - 1], guess[i]) THEN "partial" ELSE "wrong"]

LEMMA PoolRuns ==
  ASSUME NEW guess \in [Position -> Letter], NEW target \in [Position -> Letter]
  PROVE  \E h : Pools(h, guess, target)
<1> DEFINE n == WordLength
           T == Seq(Letter)
           base == Pool(guess, target)
           Turn(r, i) == IF guess[i] = target[i] THEN r ELSE RemoveFirst(r, guess[i])
           F == [i \in 1 .. n |-> [r \in T |-> Turn(r, i)]]
           Loop(g) == g = [i \in 0 .. n |-> IF i = 0 THEN base
                                            ELSE IF guess[i] = target[i] THEN g[i - 1]
                                            ELSE RemoveFirst(g[i - 1], guess[i])]
           g0 == CHOOSE g : Loop(g)
<1>1. n \in Nat /\ Position = 1 .. n
  BY ScoreAssumption DEF Position
<1>2. CompareWords(guess, target) =
        [i \in Position |-> IF guess[i] = target[i] THEN "correct"
                            ELSE IF Contains(g0[i - 1], guess[i]) THEN "partial" ELSE "wrong"]
  BY DEF CompareWords, Taken, Consumed
<1>3. base \in T
  BY PoolHasTheRest
<1>4. \A i \in 1 .. n : \A r \in T : Turn(r, i) \in T
  BY ConsumedOnce
<1> HIDE DEF n, T, base
<1>5. /\ F \in [1 .. n -> [T -> T]]
      /\ \A i \in 1 .. n : \A r \in T : F[i][r] = Turn(r, i)
  <2> HIDE DEF Turn
  <2> QED BY <1>4
<1> HIDE DEF F
<1>6. PICK f \in [0 .. n -> T] : Rounds(f, base, n, F)
  BY <1>1, <1>3, <1>5, RoundsExist
<1>7. \A j \in 1 .. n : j - 1 \in 0 .. n /\ f[j] = Turn(f[j - 1], j)
  <2> TAKE j \in 1 .. n
  <2>1. j - 1 \in 0 .. n /\ f[j] = F[j][f[j - 1]]
    BY <1>1, <1>6 DEF Rounds
  <2> HIDE DEF Turn
  <2>2. QED
    BY <1>5, <2>1
<1>8. f[0] = base
  BY <1>6 DEF Rounds
<1>9. Loop(f)
  <2>1. \A i \in 0 .. n : f[i] = IF i = 0 THEN base ELSE Turn(f[i - 1], i)
    <3> TAKE i \in 0 .. n
    <3>1. i = 0 \/ (i \in 1 .. n /\ i # 0)
      BY <1>1
    <3>2. QED
      BY <1>7, <1>8, <3>1
  <2>2. f = [i \in 0 .. n |-> f[i]]
    OBVIOUS
  <2>3. QED
    BY <2>1, <2>2
<1>10. Loop(g0)
  <2> HIDE DEF Loop
  <2> QED BY <1>9
<1> HIDE DEF g0
<1>11. /\ g0[0] = base
       /\ \A j \in 1 .. n : g0[j] = Turn(g0[j - 1], j)
       /\ g0 = [i \in 0 .. n |-> g0[i]]
  <2>1. 0 \in 0 .. n /\ \A j \in 1 .. n : j \in 0 .. n /\ j # 0
    BY <1>1
  <2>2. QED
    BY <1>10, <2>1
<1> HIDE DEF Loop
<1>12. \A i \in 0 .. n : g0[i] \in T
  <2>1. ASSUME NEW j \in 1 .. n, g0[j - 1] \in T PROVE g0[j] \in T
    <3> HIDE DEF Turn
    <3> QED BY <1>4, <1>11, <2>1
  <2>2. g0[0] \in T
    BY <1>3, <1>11
  <2>3. QED
    BY <1>1, <2>1, <2>2, Steps
<1>13. g0 \in [0 .. n -> T]
  BY <1>11, <1>12
<1>14. QED
  BY <1>1, <1>2, <1>11, <1>13 DEF Pools, n, T, base

(* After j letters the pool has of each what those that asked for it, up to *)
(* j, have left.                                                            *)
LEMMA PoolLeft ==
  ASSUME NEW guess \in [Position -> Letter], NEW target \in [Position -> Letter],
         NEW h, Pools(h, guess, target), NEW l, NEW c \in Nat,
         c = Cardinality(Misplaced(guess, target, target, l)),
         NEW A, A = Misplaced(guess, target, guess, l)
  PROVE  \A j \in 0 .. WordLength :
           Count(h[j], l) = IF Rank(A, j) < c THEN c - Rank(A, j) ELSE 0
<1> DEFINE n == WordLength
           Left(j) == IF Rank(A, j) < c THEN c - Rank(A, j) ELSE 0
           D == {j \in 0 .. n : Count(h[j], l) = Left(j)}
           g == [j \in 0 .. n |-> j]
<1>1. n \in Nat /\ Position = 1 .. n
  BY ScoreAssumption DEF Position
<1>2. A \in SUBSET (1 .. n)
  BY <1>1 DEF Misplaced, Misses
<1>3. \A j \in 0 .. n : g[j] = j
  OBVIOUS
<1> HIDE DEF n, g
<1>4. /\ Rank(A, 0) = 0
      /\ \A j \in 0 .. n : Rank(A, j) \in Nat
      /\ \A j \in 1 .. n : Rank(A, j) = IF j \in A THEN Rank(A, j - 1) + 1
                                        ELSE Rank(A, j - 1)
  <2>1. Ranked(A, n)
    BY <1>1, <1>2, RankSteps
  <2>2. QED
    BY <2>1 DEF Ranked
<1>5. g[0] \in D
  <2>1. Count(h[0], l) = c
    BY PoolHasTheRest DEF Pools
  <2>2. 0 \in 0 .. n
    BY <1>1
  <2>3. QED
    BY <1>3, <1>4, <2>1, <2>2
<1>6. ASSUME NEW j \in 1 .. n, g[j - 1] \in D
      PROVE  g[j] \in D
  <2>1. j - 1 \in 0 .. n /\ j \in 0 .. n /\ g[j - 1] = j - 1 /\ g[j] = j /\ j \in Position
    BY <1>1, <1>3
  <2>2. Count(h[j - 1], l) = Left(j - 1)
    BY <1>6, <2>1
  <2>3. h[j - 1] \in Seq(Letter)
    BY <2>1 DEF Pools, n
  <2>4. h[j] = IF guess[j] = target[j] THEN h[j - 1] ELSE RemoveFirst(h[j - 1], guess[j])
    BY <2>1 DEF Pools
  <2>5. j \in A <=> guess[j] # target[j] /\ guess[j] = l
    BY <2>1 DEF Misplaced, Misses
  <2>6. Rank(A, j - 1) \in Nat /\ Rank(A, j) = IF j \in A THEN Rank(A, j - 1) + 1
                                               ELSE Rank(A, j - 1)
    BY <1>4, <2>1
  <2>7. Contains(h[j - 1], l) <=> Count(h[j - 1], l) # 0
    BY <2>3, CountsAreNumbers
  <2>8. Count(h[j], l) = IF j \in A /\ Contains(h[j - 1], l) THEN Count(h[j - 1], l) - 1
                         ELSE Count(h[j - 1], l)
    <3>1. CASE guess[j] = target[j]
      BY <2>4, <2>5, <3>1
    <3>2. CASE guess[j] # target[j]
      <4>1. h[j] = RemoveFirst(h[j - 1], guess[j])
        BY <2>4, <3>2
      <4>2. Count(RemoveFirst(h[j - 1], guess[j]), l) =
              IF l = guess[j] /\ Contains(h[j - 1], guess[j]) THEN Count(h[j - 1], l) - 1
              ELSE Count(h[j - 1], l)
        BY <2>3, ConsumedOnce
      <4>3. QED
        BY <2>5, <3>2, <4>1, <4>2
    <3>3. QED
      BY <3>1, <3>2
  <2>9. Count(h[j], l) = Left(j)
    BY <2>2, <2>6, <2>7, <2>8
  <2>10. QED
    BY <2>1, <2>9
<1> HIDE DEF D
<1>7. \A j \in 0 .. n : g[j] \in D
  BY <1>1, <1>5, <1>6, Steps
<1>8. \A j \in 0 .. n : Count(h[j], l) = Left(j)
  BY <1>3, <1>7 DEF D
<1>9. QED
  BY <1>8 DEF n

(* A set and one apart from it.                                             *)
LEMMA Apart ==
  ASSUME NEW A, NEW B, IsFiniteSet(A), IsFiniteSet(B), A \cap B = {}
  PROVE  Cardinality(A \cup B) = Cardinality(A) + Cardinality(B)
<1>1. /\ Cardinality(A \cup B) = Cardinality(A) + Cardinality(B) - Cardinality(A \cap B)
      /\ Cardinality(A \cap B) = 0
      /\ Cardinality(A) \in Nat /\ Cardinality(B) \in Nat
  BY FS_Union, FS_EmptySet, FS_CardinalityType
<1>2. QED
  BY <1>1

(* compare.go, for every guess and target.                                  *)
LEMMA ScoreTells ==
  ASSUME NEW guess \in [Position -> Letter], NEW target \in [Position -> Letter]
  PROVE  TellsTheTarget(guess, target, CompareWords(guess, target))
<1> DEFINE marks == CompareWords(guess, target)
           n == WordLength
<1>1. n \in Nat /\ Position = 1 .. n /\ IsFiniteSet(Position)
  <2>1. n \in Nat /\ Position = 1 .. n
    BY ScoreAssumption DEF Position
  <2>2. QED
    BY <2>1, FS_Interval
<1>2. PICK h : Pools(h, guess, target)
  BY PoolRuns
<1>3. marks = [i \in Position |->
                 IF guess[i] = target[i] THEN "correct"
                 ELSE IF Contains(h[i - 1], guess[i]) THEN "partial" ELSE "wrong"]
  BY <1>2 DEF Pools
<1> HIDE DEF marks
<1>4. \A i \in Position :
        /\ marks[i] \in {"correct", "partial", "wrong"}
        /\ marks[i] = "correct" <=> guess[i] = target[i]
        /\ marks[i] = "partial" <=> guess[i] # target[i] /\ Contains(h[i - 1], guess[i])
        /\ marks[i] = "wrong" <=> guess[i] # target[i] /\ ~ Contains(h[i - 1], guess[i])
  BY <1>3
<1>5. marks \in [Position -> {"correct", "partial", "wrong"}]
  BY <1>3
<1>6. ASSUME NEW l \in Letter
      PROVE  /\ Cardinality({i \in Places(guess, l) : marks[i] # "wrong"})
                  = Smaller(Cardinality(Places(guess, l)), Cardinality(Places(target, l)))
             /\ \A i, j \in Places(guess, l) :
                  marks[i] = "wrong" /\ marks[j] = "partial" => j < i
  <2> DEFINE A == Misplaced(guess, target, guess, l)
             B == Misplaced(guess, target, target, l)
             G == {i \in Position : guess[i] = target[i] /\ guess[i] = l}
             c == Cardinality(B)
             S == Served(A, c)
  <2>1. /\ A \in SUBSET Position /\ B \in SUBSET Position /\ G \in SUBSET Position
        /\ S \in SUBSET A
    BY DEF Misplaced, Misses, Served
  <2>2. /\ IsFiniteSet(A) /\ IsFiniteSet(B) /\ IsFiniteSet(G) /\ IsFiniteSet(S)
        /\ Cardinality(A) \in Nat /\ c \in Nat /\ Cardinality(G) \in Nat
    BY <1>1, <2>1, FS_Subset, FS_CardinalityType
  <2>0. \A j \in 0 .. n : Rank(A, j) \in Nat
    <3>1. n \in Nat /\ A \in SUBSET (1 .. n)
      BY <1>1, <2>1
    <3> HIDE DEF A, n
    <3>2. Ranked(A, n)
      BY <3>1, RankSteps
    <3>3. QED
      BY <3>2 DEF Ranked
  <2>3. Places(guess, l) = A \cup G /\ A \cap G = {}
    BY DEF Places, Misplaced, Misses
  <2>4. Places(target, l) = B \cup G /\ B \cap G = {}
    BY DEF Places, Misplaced, Misses
  <2>5. \A i \in A : marks[i] = (IF Rank(A, i - 1) < c THEN "partial" ELSE "wrong")
    <3> TAKE i \in A
    <3>1. i \in Position /\ guess[i] # target[i] /\ guess[i] = l /\ i - 1 \in 0 .. n
      BY <1>1, <2>1 DEF Misplaced, Misses
    <3>2. Count(h[i - 1], l) = IF Rank(A, i - 1) < c THEN c - Rank(A, i - 1) ELSE 0
      <4> HIDE DEF A, B
      <4>1. \A j \in 0 .. WordLength :
              Count(h[j], l) = IF Rank(A, j) < c THEN c - Rank(A, j) ELSE 0
        BY <1>2, <2>2, PoolLeft DEF A, B
      <4>2. QED
        BY <3>1, <4>1
    <3>3. Contains(h[i - 1], l) <=> Count(h[i - 1], l) # 0
      <4>1. h[i - 1] \in Seq(Letter)
        BY <1>2, <3>1 DEF Pools
      <4>2. QED
        BY <4>1, CountsAreNumbers
    <3>4. Rank(A, i - 1) \in Nat
      BY <2>0, <3>1
    <3> HIDE DEF A, B
    <3>5. Contains(h[i - 1], l) <=> Rank(A, i - 1) < c
      BY <2>2, <3>2, <3>3, <3>4
    <3>6. QED
      BY <1>4, <3>1, <3>5
  <2>6. {i \in Places(guess, l) : marks[i] # "wrong"} = S \cup G /\ S \cap G = {}
    <3>1. \A i \in G : marks[i] # "wrong"
      BY <1>4, <2>1
    <3>2. \A i \in A : i \in S <=> Rank(A, i - 1) < c
      BY DEF Served
    <3> HIDE DEF A, B, G, S
    <3>3. \A i \in A : i \in S <=> marks[i] # "wrong"
      BY <2>5, <3>2
    <3>4. QED
      BY <2>1, <2>3, <3>1, <3>3
  <2>7. Cardinality(S) = Smaller(Cardinality(A), c)
    <3> HIDE DEF A, B
    <3> QED BY <1>1, <2>1, <2>2, SmallerNumber
  <2>8. ASSUME NEW i \in Places(guess, l), NEW j \in Places(guess, l),
               marks[i] = "wrong", marks[j] = "partial"
        PROVE  j < i
    <3>1. i \in A /\ j \in A
      <4>1. i \in Position /\ j \in Position /\ guess[i] = l /\ guess[j] = l
        BY DEF Places
      <4>2. QED
        BY <1>4, <2>8, <4>1 DEF Misplaced, Misses
    <3>2. ~ (Rank(A, i - 1) < c) /\ Rank(A, j - 1) < c
      BY <2>5, <2>8, <3>1
    <3>3. /\ i \in 1 .. n /\ j \in 1 .. n
          /\ Rank(A, i - 1) \in Nat /\ Rank(A, j - 1) \in Nat
      <4>1. i \in 1 .. n /\ j \in 1 .. n /\ i - 1 \in 0 .. n /\ j - 1 \in 0 .. n
        BY <1>1, <2>1, <3>1
      <4>2. QED
        BY <2>0, <4>1
    <3>4. SUFFICES ASSUME i <= j PROVE FALSE
      BY <3>3
    <3>5. IsFiniteSet(UpTo(A, j - 1)) /\ UpTo(A, i - 1) \in SUBSET UpTo(A, j - 1)
      <4>1. UpTo(A, j - 1) \in SUBSET A
        BY DEF UpTo
      <4>2. \A k \in A : k \in Int
        BY <1>1, <2>1
      <4>3. \A k \in A : k <= i - 1 => k <= j - 1
        BY <3>3, <3>4, <4>2
      <4>4. IsFiniteSet(UpTo(A, j - 1))
        BY <2>2, <4>1, FS_Subset
      <4>5. QED
        BY <4>3, <4>4 DEF UpTo
    <3>6. Rank(A, i - 1) <= Rank(A, j - 1)
      BY <3>5, FS_Subset DEF Rank
    <3>7. QED
      BY <2>2, <3>2, <3>3, <3>6
  <2>9. /\ Cardinality(Places(guess, l)) = Cardinality(A) + Cardinality(G)
        /\ Cardinality(Places(target, l)) = c + Cardinality(G)
        /\ Cardinality({i \in Places(guess, l) : marks[i] # "wrong"})
             = Cardinality(S) + Cardinality(G)
    <3> HIDE DEF A, B, G, S
    <3> QED BY <2>2, <2>3, <2>4, <2>6, Apart
  <2> HIDE DEF A, B, G, S
  <2>10. QED
    BY <2>2, <2>7, <2>8, <2>9 DEF Smaller
<1>7. QED
  BY <1>4, <1>5, <1>6 DEF TellsTheTarget, marks
(* lookup.go, for every text.                                               *)
LEMMA ReadsLiberally == GuessesAreReadLiberally
<1> SUFFICES ASSUME NEW text \in ScannedText
             PROVE  LET v == validateGuess(text)
                    IN  /\ Selects(v.word, LowerLetters(text), Letter)
                        /\ v.reason = "ok" <=> v.word \in Dictionary
                        /\ v.reason = "ok" => DOMAIN v.word = Position
                        /\ v.reason = "empty"
                             <=> \A i \in DOMAIN text : LowerCase[text[i]] \notin Letter
  BY DEF GuessesAreReadLiberally
<1> DEFINE l == LowerLetters(text)
           word == normalizeWord(text)
           n == Len(text)
<1>1. /\ n \in Nat /\ DOMAIN text = 1 .. n
      /\ \A i \in 1 .. n : text[i] \in Character /\ LowerCase[text[i]] \in Character
  <2>1. text \in Seq(Character)
    BY ScoreAssumption
  <2>2. QED
    BY <2>1, ScoreAssumption
<1> HIDE DEF n
<1>2. /\ l \in Seq(Character) /\ DOMAIN l = 1 .. n
      /\ \A i \in 1 .. n : l[i] = LowerCase[text[i]]
  BY <1>1 DEF LowerLetters
<1>3. word = Keeping(l, Letter)
  BY DEF normalizeWord
<1> HIDE DEF l, word
<1>4. /\ word \in Seq(Character) /\ ToSet(word) = ToSet(l) \cap Letter
  BY <1>2, <1>3, KeepingKeeps
<1>5. Selects(word, l, Letter)
  BY <1>2, <1>3, KeepingSelects
<1>6. word = <<>> <=> \A i \in 1 .. n : LowerCase[text[i]] \notin Letter
  <2>1. word = <<>> <=> ToSet(word) = {}
    BY <1>4 DEF ToSet
  <2>2. ToSet(l) = {LowerCase[text[i]] : i \in 1 .. n}
    BY <1>2 DEF ToSet
  <2>3. QED
    BY <1>4, <2>1, <2>2
<1>7. word \in Dictionary => word # <<>> /\ Len(word) = WordLength /\ DOMAIN word = Position
  <2> HAVE word \in Dictionary
  <2>1. DOMAIN word = 1 .. WordLength /\ WordLength \in Nat \ {0}
    BY ScoreAssumption
  <2>2. DOMAIN word = 1 .. Len(word) /\ Len(word) \in Nat
    BY <1>4
  <2>3. QED
    BY <2>1, <2>2 DEF Position
<1>8. validateGuess(text) =
        [word |-> word,
         reason |-> IF word = <<>> THEN "empty"
                    ELSE IF Len(word) # WordLength THEN "length"
                    ELSE IF word \notin Dictionary THEN "unknown" ELSE "ok"]
  BY DEF validateGuess, word
<1>9. QED
  BY <1>1, <1>5, <1>6, <1>7, <1>8 DEF l

----------------------------------------------------------------------------

SolvedByTheLast(g) ==
  g # None => (g.solved <=> g.target \in ToSet(g.guesses) /\ Last(g.guesses) = g.target)

(* A text is read as the letters it has; a score tells of the target what   *)
(* its letters allow; a round is solved exactly when its last guess is the  *)
(* target (lookup.go, compare.go, handlers.go).                             *)
THEOREM GuessesAreScored == Spec => []GuessesAreScoredRight
<1>1. ASSUME NEW g \in Round, NEW word \in Word
      PROVE  SolvedByTheLast(Guessed(g, word))
  <2> DEFINE l == Append(g.guesses, word)
  <2>1. g.guesses \in Seq(Word) /\ g.target \in Word
    BY DEF Round
  <2>2. Last(l) = word /\ word \in ToSet(l)
    <3>1. /\ Len(l) \in Nat \ {0} /\ DOMAIN l = 1 .. Len(l) /\ l[Len(l)] = word
      BY <2>1
    <3> HIDE DEF l
    <3>2. QED
      BY <3>1 DEF Last, ToSet
  <2>3. /\ Guessed(g, word).target = g.target /\ Guessed(g, word).guesses = l
        /\ Guessed(g, word).solved = (word = g.target)
    BY DEF Guessed, Round
  <2> HIDE DEF l
  <2>4. QED
    BY <2>2, <2>3 DEF SolvedByTheLast
<1>2. ASSUME NEW target \in Word
      PROVE  SolvedByTheLast(FreshRound(target))
  <2>1. ToSet(<<>>) = {}
    BY DEF ToSet
  <2>2. QED
    BY <2>1 DEF SolvedByTheLast, FreshRound
<1>3. ASSUME NEW g \in Round, SolvedByTheLast(g), g # None
      PROVE  SolvedByTheLast([g EXCEPT !.giveup = TRUE])
  BY <1>3 DEF SolvedByTheLast, Round
<1> DEFINE Solved == \A s \in Subject : SolvedByTheLast(game[s])
<1>4. Init => Solved
  BY DEF Init, SolvedByTheLast
<1>5. IInv /\ Solved /\ [Next]_vars => Solved'
  <2> SUFFICES ASSUME IInv, Solved, [Next]_vars, NEW s \in Subject
               PROVE  SolvedByTheLast(game'[s])
    OBVIOUS
  <2>1. CASE game'[s] = game[s]
    BY <2>1, Zenon
  <2>2. CASE game'[s] # game[s]
    <3>1. MovesByRules(s)
      <4>1. Next
        BY <2>2 DEF vars
      <4>2. QED
        BY <2>2, <4>1, RoundSteps
    <3>2. game[s] # None => game[s] \in Round /\ SolvedByTheLast(game[s])
      BY DEF IInv, TypeOK
    <3>3. QED
      BY <1>1, <1>2, <1>3, <3>1, <3>2 DEF MovesByRules
  <2>3. QED
    BY <2>1, <2>2
<1>6. ScoresTellTheTarget
  BY ScoreTells, ScoreAssumption DEF ScoresTellTheTarget, Position
<1>7. Solved => GuessesAreScoredRight
  BY <1>6, ReadsLiberally DEF GuessesAreScoredRight, SolvedByTheLast
<1>8. QED
  BY Inductive, <1>4, <1>5, <1>7, PTL DEF Spec

============================================================================
