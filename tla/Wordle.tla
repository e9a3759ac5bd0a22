------------------------------- MODULE Wordle -------------------------------
(***************************************************************************)
(* The wordle module (internal/modules/wordle): /wordle, /wordle_new and   *)
(* /wordle_giveup, run by concurrent goroutines ("workers") of one process *)
(* against two entries of the key-value store per subject, the round and   *)
(* the lifetime stats.                                                     *)
(*                                                                         *)
(* A handler holds the subject's lock from its first read to its reply,    *)
(* but the two entries are written by separate Puts: the store can fail or *)
(* the process die between them.  Each Get and Put is a step of its own.   *)
(* A guess stands for its GuessRecord, whose letter scores are a function  *)
(* of the guess and the target (WordScore, as is what makes a text a       *)
(* guess); times and wording are left out.                                 *)
(***************************************************************************)
EXTENDS WordScore, GameStats, Naturals, Sequences, SequencesExt

CONSTANTS Worker, Subject,
          Word,         \* the dictionary
          MaxGuesses,   \* 6 in the code
          MaxPlayed,    \* bound: no command arrives once this many results are in
          NoArg, BadArg,  \* no guess given; one validateGuess rejects
          None          \* no round stored, no holder, no subject

Round == [target : Word, guesses : Seq(Word), solved : BOOLEAN, giveup : BOOLEAN]

ASSUME ConstantsAssumption ==
  /\ MaxGuesses \in Nat \ {0}
  /\ MaxPlayed \in Nat
  /\ Word # {} /\ Word \cap {NoArg, BadArg} = {}
  /\ None \notin Worker \cup Subject /\ None \notin Round

VARIABLES
  game,     \* store, "game:<subject>"
  stats,    \* store, "stats:<subject>"
  lock,     \* keylock.Map: the worker that holds each subject
  pc,       \* per worker: the call its handler makes next
  req,      \* per worker: the command it handles
  round,    \* per worker: g, the round in its memory
  score,    \* per worker: the stats it loaded
  results,  \* history: results recorded for the stored round (TRUE for a win)
  faulty    \* history: a failure or crash hit a handler during the stored round

vars == <<game, stats, lock, pc, req, round, score, results, faulty>>

Request ==
  [cmd : {"wordle"}, subject : Subject \cup {None}, arg : Word \cup {NoArg, BadArg}]
  \cup [cmd : {"new", "giveup"}, subject : Subject \cup {None}]

Idle == [cmd |-> "none", subject |-> None]

FreshRound(target) ==
  [target |-> target, guesses |-> <<>>, solved |-> FALSE, giveup |-> FALSE]

Finished(g) == g.solved \/ g.giveup \/ Len(g.guesses) >= MaxGuesses

Init ==
  /\ game = [s \in Subject |-> None]
  /\ stats = [s \in Subject |-> NoStats]
  /\ lock = [s \in Subject |-> None]
  /\ pc = [w \in Worker |-> "idle"]
  /\ req = [w \in Worker |-> Idle]
  /\ round = [w \in Worker |-> None]
  /\ score = [w \in Worker |-> NoStats]
  /\ results = [s \in Subject |-> <<>>]
  /\ faulty = [s \in Subject |-> FALSE]

Goto(w, label) == pc' = [pc EXCEPT ![w] = label]

(* The call returned an error, and so does the handler. *)
Fails(w) ==
  /\ Goto(w, "done")
  /\ faulty' = [faulty EXCEPT ![req[w].subject] = TRUE]

----------------------------------------------------------------------------

Receive(w, r) ==
  /\ pc[w] = "idle"
  /\ r.subject # None => stats[r.subject].played < MaxPlayed
  /\ req' = [req EXCEPT ![w] = r]
  /\ Goto(w, IF r.subject = None THEN "reply" ELSE "lock")
  /\ UNCHANGED <<game, stats, lock, round, score, results, faulty>>

Free(s) == lock[s] = None

(* Get, mutate, Put with no lock around them. *)
NeverHeld(s) == TRUE

CanLock(s) == Free(s)

Acquire(w) ==
  /\ pc[w] = "lock"
  /\ CanLock(req[w].subject)
  /\ lock' = [lock EXCEPT ![req[w].subject] = w]
  /\ Goto(w, "load")
  /\ UNCHANGED <<game, stats, req, round, score, results, faulty>>

(* loadGame.  /wordle_new counts an unfinished round as a loss before it   *)
(* starts another; the others start one only if there is none.             *)
AfterLoad(w, g) ==
  IF req[w].cmd = "new"
  THEN IF g # None /\ ~Finished(g) THEN "loadStats" ELSE "startFresh"
  ELSE IF g = None THEN "startFresh" ELSE "play"

(* A /wordle_new that forgets the round it replaces. *)
AfterLoadUncounted(w, g) ==
  IF req[w].cmd = "new" \/ g = None THEN "startFresh" ELSE "play"

NextAfterLoad(w, g) == AfterLoad(w, g)

LoadGame(w) ==
  LET g == game[req[w].subject]
  IN  /\ pc[w] = "load"
      /\ \/ /\ round' = [round EXCEPT ![w] = g]
            /\ Goto(w, NextAfterLoad(w, g))
            /\ UNCHANGED faulty
         \/ Fails(w) /\ UNCHANGED round
      /\ UNCHANGED <<game, stats, lock, req, score, results>>

(* saveGame.  A Put that reports an error may still have been applied.     *)
SaveGame(w, g, then) ==
  LET saved == [game EXCEPT ![req[w].subject] = g]
  IN  \/ game' = saved /\ Goto(w, then) /\ UNCHANGED faulty
      \/ game' \in {game, saved} /\ Fails(w)

StartFresh(w) ==
  LET s == req[w].subject
  IN  /\ pc[w] = "startFresh"
      /\ \E target \in Word :
           /\ round' = [round EXCEPT ![w] = FreshRound(target)]
           /\ LET saved == [game EXCEPT ![s] = FreshRound(target)]
              IN  \/ /\ game' = saved
                     /\ results' = [results EXCEPT ![s] = <<>>]
                     /\ \/ /\ Goto(w, IF req[w].cmd = "new" THEN "done" ELSE "play")
                           /\ faulty' = [faulty EXCEPT ![s] = FALSE]
                        \/ Fails(w)
                  \/ Fails(w) /\ UNCHANGED <<game, results>>
      /\ UNCHANGED <<stats, lock, req, score>>

(* What /wordle <arg> and /wordle_giveup only answer, without a change. *)
JustReplies(r, g) ==
  \/ r.cmd = "wordle" /\ (r.arg \in {NoArg, BadArg} \/ Finished(g))
  \/ r.cmd = "giveup" /\ (g.solved \/ g.giveup)

(* Guesses taken after the sixth. *)
JustRepliesNoLimit(r, g) ==
  \/ r.cmd = "wordle" /\ (r.arg \in {NoArg, BadArg} \/ g.solved \/ g.giveup)
  \/ r.cmd = "giveup" /\ (g.solved \/ g.giveup)

OnlyAnswered(r, g) == JustReplies(r, g)

Answer(w) ==
  /\ pc[w] = "play"
  /\ OnlyAnswered(req[w], round[w])
  /\ Goto(w, "done")
  /\ UNCHANGED <<game, stats, lock, req, round, score, results, faulty>>

Guessed(g, word) ==
  [g EXCEPT !.guesses = Append(@, word), !.solved = word = g.target]

Guess(w) ==
  LET g == Guessed(round[w], req[w].arg)
  IN  /\ pc[w] = "play" /\ req[w].cmd = "wordle"
      /\ ~OnlyAnswered(req[w], round[w])
      /\ round' = [round EXCEPT ![w] = g]
      /\ SaveGame(w, g, IF Finished(g) THEN "loadStats" ELSE "done")
      /\ UNCHANGED <<stats, lock, req, score, results>>

Giveup(w) ==
  LET g == [round[w] EXCEPT !.giveup = TRUE]
  IN  /\ pc[w] = "play" /\ req[w].cmd = "giveup"
      /\ ~OnlyAnswered(req[w], round[w])
      /\ round' = [round EXCEPT ![w] = g]
      /\ SaveGame(w, g, "loadStats")
      /\ UNCHANGED <<stats, lock, req, score, results>>

(* recordResult: a Get and a Put. *)
LoadStats(w) ==
  /\ pc[w] = "loadStats"
  /\ \/ /\ score' = [score EXCEPT ![w] = stats[req[w].subject]]
        /\ Goto(w, "putStats")
        /\ UNCHANGED faulty
     \/ Fails(w) /\ UNCHANGED score
  /\ UNCHANGED <<game, stats, lock, req, round, results>>

PutStats(w) ==
  LET s == req[w].subject
      won == round[w].solved
  IN  /\ pc[w] = "putStats"
      /\ \/ /\ stats' = [stats EXCEPT ![s] = Scored(score[w], won)]
            /\ results' = [results EXCEPT ![s] = Append(@, won)]
            /\ \/ /\ Goto(w, IF req[w].cmd = "new" THEN "startFresh" ELSE "done")
                  /\ UNCHANGED faulty
               \/ Fails(w)
         \/ Fails(w) /\ UNCHANGED <<stats, results>>
      /\ UNCHANGED <<game, lock, req, round, score>>

Forget(w) ==
  /\ Goto(w, "idle")
  /\ req' = [req EXCEPT ![w] = Idle]
  /\ round' = [round EXCEPT ![w] = None]
  /\ score' = [score EXCEPT ![w] = NoStats]

(* "Cannot identify chat." *)
ReplyUnlocked(w) ==
  /\ pc[w] = "reply"
  /\ Forget(w)
  /\ UNCHANGED <<game, stats, lock, results, faulty>>

Unlocked(s) == [lock EXCEPT ![s] = None]

(* `s.locks.Acquire(subject)()` deferred without its last parentheses.     *)
StillLocked(s) == lock

AfterReturn(s) == Unlocked(s)

(* The reply or the returned error, then the deferred unlock. *)
ReturnAndUnlock(w) ==
  /\ pc[w] = "done"
  /\ lock' = AfterReturn(req[w].subject)
  /\ Forget(w)
  /\ UNCHANGED <<game, stats, results, faulty>>

Locking == {"load", "startFresh", "play", "loadStats", "putStats", "done"}
Busy(s) == \E w \in Worker : pc[w] \in Locking /\ req[w].subject = s

(* The process dies and is restarted: only the store survives. *)
Crash ==
  /\ pc' = [w \in Worker |-> "idle"]
  /\ req' = [w \in Worker |-> Idle]
  /\ round' = [w \in Worker |-> None]
  /\ score' = [w \in Worker |-> NoStats]
  /\ lock' = [s \in Subject |-> None]
  /\ faulty' = [s \in Subject |-> faulty[s] \/ Busy(s)]
  /\ UNCHANGED <<game, stats, results>>

Handle(w) ==
  \/ LoadGame(w) \/ StartFresh(w) \/ Answer(w) \/ Guess(w) \/ Giveup(w)
  \/ LoadStats(w) \/ PutStats(w) \/ ReplyUnlocked(w) \/ ReturnAndUnlock(w)

Next ==
  \/ \E w \in Worker : \E r \in Request : Receive(w, r)
  \/ \E w \in Worker : Acquire(w)
  \/ \E w \in Worker : Handle(w)
  \/ Crash

Spec == Init /\ [][Next]_vars

(* Each call returns, the store's included (the webhook's context expires  *)
(* after 10s), and a waiter on a mutex is not overtaken for ever.          *)
FairSpec ==
  Spec /\ \A w \in Worker : WF_vars(Handle(w)) /\ SF_vars(Acquire(w))

----------------------------------------------------------------------------

(* The values the variables take; the lock names the worker past Acquire.  *)
TypeOK ==
  /\ game \in [Subject -> Round \cup {None}]
  /\ stats \in [Subject -> Stats]
  /\ lock \in [Subject -> Worker \cup {None}]
  /\ pc \in [Worker -> {"idle", "reply", "lock"} \cup Locking]
  /\ req \in [Worker -> Request \cup {Idle}]
  /\ round \in [Worker -> Round \cup {None}]
  /\ score \in [Worker -> Stats]
  /\ results \in [Subject -> Seq(BOOLEAN)]
  /\ faulty \in [Subject -> BOOLEAN]
  /\ \A w \in Worker : pc[w] \in Locking => lock[req[w].subject] = w

(* The stored round moves by the rules of the game only: a guess is added  *)
(* to an unfinished round, never lost or replaced; a round that is not     *)
(* solved is given up; a fresh round replaces a finished one, or one whose *)
(* loss is already in the stats ("abandons any in-progress round (counts   *)
(* as giveup -> stats hit)", handlers.go:139).  Handlers that race, fail   *)
(* or die in the middle do nothing else to it.                             *)
RoundFollowsRules ==
  [][\A s \in Subject :
       game'[s] # game[s] =>
         \/ /\ \E target \in Word : game'[s] = FreshRound(target)
            /\ game[s] # None /\ ~Finished(game[s]) => results[s] # <<>>
         \/ /\ game[s] # None
            /\ ~Finished(game[s])
            /\ \E word \in Word : game'[s] = Guessed(game[s], word)
         \/ /\ game[s] # None
            /\ ~game[s].solved
            /\ game'[s] = [game[s] EXCEPT !.giveup = TRUE]]_vars

(* Every change of the stats adds one result to the stats it replaces: no  *)
(* result of a subject overwrites another's, and the best streak never     *)
(* falls.                                                                  *)
StatsNeverLoseAResult ==
  [][\A s \in Subject :
       stats'[s] # stats[s] => CountsOneResult(stats[s], stats'[s])]_vars

Settled(s) == ~Busy(s) /\ ~faulty[s] /\ game[s] # None

(* When no call failed and nobody is at work on the subject, the results   *)
(* recorded for its round are what the round says: none while it is open,  *)
(* one win if it was solved, losses otherwise.                             *)
ResultsMatchRound ==
  \A s \in Subject :
    Settled(s) =>
      CASE ~Finished(game[s]) -> results[s] = <<>>
        [] game[s].solved -> results[s] = <<TRUE>>
        [] OTHER -> results[s] # <<>> /\ ToSet(results[s]) = {FALSE}

(* A guess is read and scored as WordScore promises for every word, and a  *)
(* round is solved exactly when its last guess is the target, the one that *)
(* is scored all green.                                                    *)
GuessesAreScoredRight ==
  /\ ScoresTellTheTarget /\ GuessesAreReadLiberally
  /\ \A s \in Subject :
       game[s] # None =>
         (game[s].solved <=> game[s].target \in ToSet(game[s].guesses)
                              /\ Last(game[s].guesses) = game[s].target)

(* The named invariant with the types. *)
WordleInv == TypeOK /\ ResultsMatchRound

(* A finished round is counted once: /wordle_giveup is "Idempotent on      *)
(* already-finished rounds" (handlers.go:172).                             *)
FinishedRoundCountedOnce ==
  \A s \in Subject : Settled(s) => Len(results[s]) <= 1

(* Every command that waits for a subject gets its turn and returns.       *)
EveryCommandReturns == \A w \in Worker : pc[w] = "lock" ~> pc[w] = "idle"

============================================================================
