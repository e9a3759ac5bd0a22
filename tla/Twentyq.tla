------------------------------ MODULE Twentyq ------------------------------
(***************************************************************************)
(* The twentyq module (internal/modules/twentyq): /twentyq [question] and  *)
(* /twentyq_giveup, run by concurrent workers of one process.  A command   *)
(* may call the upstream model twice, once to start a round and once to    *)
(* judge the question, each time after asking the rate limiter and always  *)
(* with the subject's lock held.  A round is deleted when it ends, after   *)
(* its result is recorded.                                                 *)
(*                                                                         *)
(* A question stands for its normalised, lower-case text and a stored turn *)
(* for its question; hints and times are left out.  What the limiter and   *)
(* the upstream model answer is arbitrary; what is made of the model's     *)
(* answers, and of the texts before they are questions, is in ModelAnswer. *)
(***************************************************************************)
EXTENDS ModelAnswer, Naturals, Sequences, SequencesExt

CONSTANTS Worker, Subject,
          Target,       \* seeds.go
          Question,     \* what validateQuestion accepts
          MaxPlayed,    \* bound: no command arrives once this many results are in
          NoArg, BadArg,  \* no question; one validateQuestion rejects
          None

Round == [target : Target, turns : Seq(Question), solved : BOOLEAN]

ASSUME ConstantsAssumption ==
  /\ MaxPlayed \in Nat
  /\ Target # {}
  /\ Question \cap {NoArg, BadArg} = {}
  /\ None \notin Worker \cup Subject \cup Nat /\ None \notin Round

VARIABLES
  game,     \* store, "game:<subject>"
  stats,    \* store, "stats:<subject>"
  lock,     \* keylock.Map
  pc, req,  \* per worker: the next call, the command
  round,    \* per worker: the round in its memory
  score,    \* per worker: the stats it loaded
  results,  \* history: results recorded for the stored round
  faulty    \* history: a failure or crash hit a handler during the stored round

store == <<game, stats>>
memory == <<round, score>>
history == <<results, faulty>>
vars == <<store, lock, pc, req, memory, history>>

Stats == [played : Nat, solved : Nat, turns : Nat, best : Nat \cup {None}]

NoStats == [played |-> 0, solved |-> 0, turns |-> 0, best |-> None]

Request ==
  [cmd : {"ask"}, subject : Subject \cup {None}, arg : Question \cup {NoArg, BadArg}]
  \cup [cmd : {"giveup"}, subject : Subject \cup {None}]

Idle == [cmd |-> "none", subject |-> None]

(* This code stores no solved round, but its store was filled from the one *)
(* of the bot it replaces, and handleTwentyq still looks for such rounds.  *)
Lingering == {[target |-> t, turns |-> <<q>>, solved |-> TRUE] :
                t \in Target, q \in Question}

Init ==
  /\ game \in [Subject -> Lingering \cup {None}]
  /\ stats = [s \in Subject |-> NoStats]
  /\ lock = [s \in Subject |-> None]
  /\ pc = [w \in Worker |-> "idle"]
  /\ req = [w \in Worker |-> Idle]
  /\ round = [w \in Worker |-> None]
  /\ score = [w \in Worker |-> NoStats]
  /\ results = [s \in Subject |-> <<>>]
  /\ faulty = [s \in Subject |-> FALSE]

Goto(w, label) == pc' = [pc EXCEPT ![w] = label]

Fails(w) ==
  /\ Goto(w, "done")
  /\ faulty' = [faulty EXCEPT ![req[w].subject] = TRUE]

----------------------------------------------------------------------------

(* The check for a nil Chatter never refuses: without a key main passes a   *)
(* nil *ai.Client, an interface that is not nil, and its calls just fail.   *)
Receive(w, r) ==
  /\ pc[w] = "idle"
  /\ r.subject # None => stats[r.subject].played < MaxPlayed
  /\ req' = [req EXCEPT ![w] = r]
  /\ Goto(w, IF r.subject = None THEN "reply" ELSE "lock")
  /\ UNCHANGED <<store, lock, memory, history>>

Free(s) == lock[s] = None

(* No lock around the handler. *)
NeverHeld(s) == TRUE

CanLock(s) == Free(s)

Acquire(w) ==
  /\ pc[w] = "lock"
  /\ CanLock(req[w].subject)
  /\ lock' = [lock EXCEPT ![req[w].subject] = w]
  /\ Goto(w, "load")
  /\ UNCHANGED <<store, req, memory, history>>

AfterLoad(w, g) ==
  IF req[w].cmd = "giveup"
  THEN IF g = None THEN "done" ELSE "loadStats"
  ELSE CASE g = None -> "allowStart"
         [] g # None /\ g.solved -> "clearSolved"
         [] OTHER -> "turn"

(* A /twentyq_giveup that only deletes the round. *)
AfterLoadUncounted(w, g) ==
  IF req[w].cmd = "giveup" /\ g # None THEN "clear" ELSE AfterLoad(w, g)

(* A /twentyq without a question starting a new round. *)
AfterLoadFresh(w, g) ==
  IF req[w].cmd = "ask" /\ req[w].arg = NoArg THEN "allowStart" ELSE AfterLoad(w, g)

NextAfterLoad(w, g) == AfterLoad(w, g)

LoadGame(w) ==
  LET g == game[req[w].subject]
  IN  /\ pc[w] = "load"
      /\ \/ /\ round' = [round EXCEPT ![w] = g]
            /\ Goto(w, NextAfterLoad(w, g))
            /\ UNCHANGED faulty
         \/ Fails(w) /\ UNCHANGED round
      /\ UNCHANGED <<store, lock, req, score, results>>

(* The delete of a lingering solved round is best effort.                  *)
ClearSolved(w) ==
  /\ pc[w] = "clearSolved"
  /\ game' \in {game, [game EXCEPT ![req[w].subject] = None]}
  /\ round' = [round EXCEPT ![w] = None]
  /\ Goto(w, "allowStart")
  /\ UNCHANGED <<stats, lock, req, score, history>>

(* limiter.Allow: a refused command is over. *)
Allow(w) ==
  /\ pc[w] \in {"allowStart", "allowTurn"}
  /\ \/ Goto(w, "done")
     \/ Goto(w, IF pc[w] = "allowStart" THEN "generate" ELSE "judge")
  /\ UNCHANGED <<store, lock, req, memory, history>>

(* startFreshGame: an upstream error is only replied, an answer that does  *)
(* not parse is replaced by a category and hint of the bot's own.          *)
GenerateRound(w) ==
  /\ pc[w] = "generate"
  /\ \/ /\ \E t \in Target :
             round' = [round EXCEPT ![w] = [target |-> t, turns |-> <<>>, solved |-> FALSE]]
        /\ Goto(w, "saveFresh")
     \/ Goto(w, "done") /\ UNCHANGED round
  /\ UNCHANGED <<store, lock, req, score, history>>

(* The new round is introduced before the question, if any, is taken; the  *)
(* reply that introduces it can fail.                                      *)
SaveFresh(w) ==
  LET s == req[w].subject
  IN  /\ pc[w] = "saveFresh"
      /\ \/ /\ game' = [game EXCEPT ![s] = round[w]]
            /\ results' = [results EXCEPT ![s] = <<>>]
            /\ \/ /\ Goto(w, IF req[w].arg = NoArg THEN "done" ELSE "turn")
                  /\ faulty' = [faulty EXCEPT ![s] = FALSE]
               \/ Fails(w)
         \/ Fails(w) /\ UNCHANGED <<game, results>>
      /\ UNCHANGED <<stats, lock, req, memory>>

(* The board, a question rejected or already asked. *)
OnlyReplied(arg, g) == arg \in {NoArg, BadArg} \cup ToSet(g.turns)

SubmitTurn(w) ==
  /\ pc[w] = "turn"
  /\ Goto(w, IF OnlyReplied(req[w].arg, round[w]) THEN "done" ELSE "allowTurn")
  /\ UNCHANGED <<store, lock, req, memory, history>>

(* The turn is added to the round in memory; a right guess solves it.  An  *)
(* answer without an object counts as a "no".                              *)
Judge(w) ==
  /\ pc[w] = "judge"
  /\ \/ \E won \in {Wins(payload) : payload \in Payload} :
          /\ round' = [round EXCEPT ![w].turns = Append(@, req[w].arg),
                                    ![w].solved = won]
          /\ Goto(w, IF won THEN "loadStats" ELSE "save")
     \/ Goto(w, "done") /\ UNCHANGED round
  /\ UNCHANGED <<store, lock, req, score, history>>

SaveGame(w) ==
  LET saved == [game EXCEPT ![req[w].subject] = round[w]]
  IN  /\ pc[w] = "save"
      /\ \/ game' = saved /\ Goto(w, "done") /\ UNCHANGED faulty
         \/ game' \in {game, saved} /\ Fails(w)
      /\ UNCHANGED <<stats, lock, req, memory, results>>

(* recordResult: a Get and a Put, before the round is cleared.             *)
LoadStats(w) ==
  /\ pc[w] = "loadStats"
  /\ \/ /\ score' = [score EXCEPT ![w] = stats[req[w].subject]]
        /\ Goto(w, "putStats")
        /\ UNCHANGED faulty
     \/ Fails(w) /\ UNCHANGED score
  /\ UNCHANGED <<store, lock, req, round, results>>

Scored(st, won, count) ==
  [played |-> st.played + 1,
   solved |-> IF won THEN st.solved + 1 ELSE st.solved,
   turns  |-> st.turns + count,
   best   |-> IF won /\ (st.best = None \/ count < st.best) THEN count ELSE st.best]

(* A defeat's turns taken for a record. *)
ScoredAnyBest(st, won, count) ==
  [played |-> st.played + 1,
   solved |-> IF won THEN st.solved + 1 ELSE st.solved,
   turns  |-> st.turns + count,
   best   |-> IF st.best = None \/ count < st.best THEN count ELSE st.best]

Result(st, won, count) == Scored(st, won, count)

(* /twentyq_giveup passes false, even for a solved round left in the store. *)
Won(w) == req[w].cmd = "ask"

AfterResult == "clear"

(* The round left in the store once its result is recorded. *)
AfterResultKept == "done"

NextAfterResult == AfterResult

PutStats(w) ==
  LET s == req[w].subject
      scored == Result(score[w], Won(w), Len(round[w].turns))
  IN  /\ pc[w] = "putStats"
      /\ \/ /\ stats' = [stats EXCEPT ![s] = scored]
            /\ results' = [results EXCEPT ![s] = Append(@, Won(w))]
            /\ \/ Goto(w, NextAfterResult) /\ UNCHANGED faulty
               \/ Fails(w)
         \/ Fails(w) /\ UNCHANGED <<stats, results>>
      /\ UNCHANGED <<game, lock, req, memory>>

ClearGame(w) ==
  LET cleared == [game EXCEPT ![req[w].subject] = None]
  IN  /\ pc[w] = "clear"
      /\ \/ game' = cleared /\ Goto(w, "done") /\ UNCHANGED faulty
         \/ game' \in {game, cleared} /\ Fails(w)
      /\ UNCHANGED <<stats, lock, req, memory, results>>

Forget(w) ==
  /\ Goto(w, "idle")
  /\ req' = [req EXCEPT ![w] = Idle]
  /\ round' = [round EXCEPT ![w] = None]
  /\ score' = [score EXCEPT ![w] = NoStats]

ReplyUnlocked(w) ==
  /\ pc[w] = "reply"
  /\ Forget(w)
  /\ UNCHANGED <<store, lock, history>>

ReturnAndUnlock(w) ==
  /\ pc[w] = "done"
  /\ lock' = [lock EXCEPT ![req[w].subject] = None]
  /\ Forget(w)
  /\ UNCHANGED <<store, history>>

Locking == {"load", "clearSolved", "allowStart", "generate", "saveFresh", "turn",
            "allowTurn", "judge", "save", "loadStats", "putStats", "clear", "done"}
Busy(s) == \E w \in Worker : pc[w] \in Locking /\ req[w].subject = s

(* The process dies and is restarted: only the store survives.             *)
Crash ==
  /\ pc' = [w \in Worker |-> "idle"]
  /\ req' = [w \in Worker |-> Idle]
  /\ round' = [w \in Worker |-> None]
  /\ score' = [w \in Worker |-> NoStats]
  /\ lock' = [s \in Subject |-> None]
  /\ faulty' = [s \in Subject |-> faulty[s] \/ Busy(s)]
  /\ UNCHANGED <<store, results>>

Handle(w) ==
  \/ LoadGame(w) \/ ClearSolved(w) \/ Allow(w) \/ GenerateRound(w)
  \/ SaveFresh(w) \/ SubmitTurn(w) \/ Judge(w) \/ SaveGame(w) \/ LoadStats(w)
  \/ PutStats(w) \/ ClearGame(w) \/ ReplyUnlocked(w) \/ ReturnAndUnlock(w)

Next ==
  \/ \E w \in Worker : \E r \in Request : Receive(w, r)
  \/ \E w \in Worker : Acquire(w)
  \/ \E w \in Worker : Handle(w)
  \/ Crash

Spec == Init /\ [][Next]_vars

----------------------------------------------------------------------------

(* The values the variables take; the lock names the worker past Acquire.  *)
TypeOK ==
  /\ game \in [Subject -> Round \cup {None}]
  /\ stats \in [Subject -> Stats]
  /\ lock \in [Subject -> Worker \cup {None}]
  /\ pc \in [Worker -> {"idle", "reply", "lock"} \cup Locking]
  /\ req \in [Worker -> Request \cup {Idle}]
  /\ round \in [Worker -> Round \cup {None}]
  /\ score \in [Worker -> Stats]
  /\ results \in [Subject -> Seq(BOOLEAN)]
  /\ faulty \in [Subject -> BOOLEAN]
  /\ \A w \in Worker : pc[w] \in Locking => lock[req[w].subject] = w

(* While the upstream model judges a question, whatever time it takes, the *)
(* round it was shown stays the stored one: no other command of the group  *)
(* adds a turn, ends the round or starts another meanwhile.                *)
JudgedOnCurrentRound ==
  \A w \in Worker :
    pc[w] \in {"turn", "allowTurn", "judge"} => game[req[w].subject] = round[w]

(* The stored round moves by the rules only: it gains one question it did  *)
(* not have, or ends, or is a new one where there was none to play on.     *)
(* Handlers that race, fail or die in the middle lose no turn of it.       *)
NoTurnIsLost ==
  [][\A s \in Subject :
       game'[s] # game[s] =>
         \/ game'[s] = None
         \/ /\ game[s] = None \/ game[s].solved
            /\ game'[s].turns = <<>> /\ ~game'[s].solved
         \/ /\ game[s] # None
            /\ \E q \in Question \ ToSet(game[s].turns) :
                 game'[s] = [game[s] EXCEPT !.turns = Append(@, q)]]_vars

(* As long as no call failed, a stored round that nobody is working on has *)
(* no result in the stats, and one that ends has exactly one; only a       *)
(* lingering solved round may go without.                                  *)
OpenMeansUncounted ==
  \A s \in Subject :
    game[s] # None /\ ~Busy(s) /\ ~faulty[s] => results[s] = <<>>

ClearedMeansCounted ==
  \A s \in Subject :
    game[s] # None /\ game'[s] = None /\ ~faulty[s] =>
      Len(results[s]) = 1 \/ game[s].solved

(* Both: unless a call fails, each round ends up in the stats once, and only *)
(* when it has left the store.                                               *)
RoundsCountedOnce == [][OpenMeansUncounted' /\ ClearedMeansCounted]_vars

(* The stats stay a score that rounds can add up to: there is a best round *)
(* exactly when one was solved, it took at least one question, and every   *)
(* solved round took at least as many.                                     *)
StatsAddUp ==
  \A s \in Subject :
    LET st == stats[s]
    IN  /\ st.solved <= st.played
        /\ (st.best = None) <=> (st.solved = 0)
        /\ st.best # None => st.best >= 1 /\ st.solved * st.best <= st.turns

(* Texts are read as ModelAnswer promises for every text, and no stored    *)
(* round holds a question twice.                                           *)
TextIsReadSafely ==
  /\ ObjectsAreFound /\ HintsAreRedacted /\ RepeatsAreSeen /\ GarbageWinsNothing
  /\ \A s \in Subject : game[s] # None => IsInjective(game[s].turns)

(* The named invariant with the types. *)
TwentyqInv == TypeOK /\ JudgedOnCurrentRound

============================================================================
