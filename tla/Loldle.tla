------------------------------- MODULE Loldle -------------------------------
(***************************************************************************)
(* The loldle module (internal/modules/loldle): /loldle, /loldle_giveup    *)
(* and /loldle_setmax, run by concurrent workers of one process.  Unlike   *)
(* wordle a round is deleted when it ends, its result is recorded first,   *)
(* its length is a third stored entry read anew by every guess, and the    *)
(* champions it is played with are compiled into the program, so that a    *)
(* deployment can take the target or a guess away under an open round.     *)
(* Handlers of one subject exclude each other, /loldle_setmax excepted.    *)
(* Which champion a text names and what a guess is answered with are in    *)
(* ChampionCompare.                                                        *)
(***************************************************************************)
EXTENDS ChampionCompare, GameStats, Naturals, Sequences, SequencesExt

CONSTANTS Worker, Subject,
          Champion,
          Roster,        \* the champion lists the deployments may carry
          MaxGuesses,    \* 8, the default length of a round
          MaxGuessesCap, \* 10, the longest one
          Typed,         \* the numbers users give to /loldle_setmax
          MaxPlayed,     \* bound: no command arrives once this many results are in
          NoArg, None

Round == [target : Champion, guesses : Seq(Champion)]

ASSUME ConstantsAssumption ==
  /\ Roster \subseteq (SUBSET Champion) \ {{}} /\ Roster # {}
  /\ MaxGuessesCap \in Nat /\ MaxGuesses \in 1 .. MaxGuessesCap
  /\ Typed \subseteq Int
  /\ MaxPlayed \in Nat
  /\ NoArg \notin Champion
  /\ None \notin Worker \cup Subject \cup Nat /\ None \notin Round

VARIABLES
  game,     \* store, "game:<subject>"
  stats,    \* store, "stats:<subject>"
  config,   \* store, "config:<subject>": the length set, or None
  roster,   \* champions.json of the running program
  lock,     \* keylock.Map
  pc, req,  \* per worker: the next call, the command
  limit,    \* per worker: maxGuesses as it read it
  round,    \* per worker: the round in its memory
  score,    \* per worker: the stats it loaded
  results,  \* history: results recorded for the stored round
  faulty    \* history: a failure or crash hit a handler during the stored round

store == <<game, stats, config>>
memory == <<limit, round, score>>
history == <<results, faulty>>
vars == <<store, roster, lock, pc, req, memory, history>>

Request ==
  [cmd : {"loldle"}, subject : Subject \cup {None}, arg : Champion \cup {NoArg}]
  \cup [cmd : {"giveup"}, subject : Subject \cup {None}]
  \cup [cmd : {"setmax"}, subject : Subject \cup {None}, n : Typed]

Idle == [cmd |-> "none", subject |-> None]

Init ==
  /\ game = [s \in Subject |-> None]
  /\ stats = [s \in Subject |-> NoStats]
  /\ config = [s \in Subject |-> None]
  /\ roster \in Roster
  /\ lock = [s \in Subject |-> None]
  /\ pc = [w \in Worker |-> "idle"]
  /\ req = [w \in Worker |-> Idle]
  /\ limit = [w \in Worker |-> None]
  /\ round = [w \in Worker |-> None]
  /\ score = [w \in Worker |-> NoStats]
  /\ results = [s \in Subject |-> <<>>]
  /\ faulty = [s \in Subject |-> FALSE]

Goto(w, label) == pc' = [pc EXCEPT ![w] = label]

Fails(w) ==
  /\ Goto(w, "done")
  /\ faulty' = [faulty EXCEPT ![req[w].subject] = TRUE]

----------------------------------------------------------------------------

Settable(n) == n \in 1 .. MaxGuessesCap

(* A length of no guesses let through. *)
SettableFromZero(n) == n \in 0 .. MaxGuessesCap

InRange(n) == Settable(n)

(* A subject that cannot be identified and a length out of range are only  *)
(* replied to.                                                             *)
Receive(w, r) ==
  /\ pc[w] = "idle"
  /\ r.subject # None => stats[r.subject].played < MaxPlayed
  /\ req' = [req EXCEPT ![w] = r]
  /\ Goto(w, IF r.subject = None \/ (r.cmd = "setmax" /\ ~InRange(r.n)) THEN "reply"
             ELSE IF r.cmd = "setmax" THEN "setmax" ELSE "lock")
  /\ UNCHANGED <<store, roster, lock, memory, history>>

(* The one handler that takes no lock: a single Put. *)
SetMax(w) ==
  /\ pc[w] = "setmax"
  /\ \/ config' = [config EXCEPT ![req[w].subject] = req[w].n]
     \/ UNCHANGED config
  /\ Goto(w, "reply")
  /\ UNCHANGED <<game, stats, roster, lock, req, memory, history>>

Acquire(w) ==
  /\ pc[w] = "lock"
  /\ lock[req[w].subject] = None
  /\ lock' = [lock EXCEPT ![req[w].subject] = w]
  /\ Goto(w, IF req[w].cmd = "loldle" THEN "getMax" ELSE "load")
  /\ UNCHANGED <<store, roster, req, memory, history>>

(* An override out of range would be ignored; setMaxGuesses writes none.   *)
EffectiveMax(s) ==
  IF config[s] # None /\ InRange(config[s]) THEN config[s] ELSE MaxGuesses

GetMaxGuesses(w) ==
  /\ pc[w] = "getMax"
  /\ \/ /\ limit' = [limit EXCEPT ![w] = EffectiveMax(req[w].subject)]
        /\ Goto(w, "load")
        /\ UNCHANGED faulty
     \/ Fails(w) /\ UNCHANGED limit
  /\ UNCHANGED <<store, roster, lock, req, round, score, results>>

(* getOrInitGame continues a stored round with guesses left.  The giveup   *)
(* handler loads the round itself and has nothing to do without one.       *)
AfterLoad(w, g) ==
  CASE req[w].cmd = "giveup" -> IF g = None THEN "done" ELSE "loadStats"
    [] OTHER -> IF g # None /\ Len(g.guesses) < limit[w] THEN "play" ELSE "startFresh"

(* Every /loldle starting afresh. *)
AfterLoadFresh(w, g) ==
  CASE req[w].cmd = "giveup" -> IF g = None THEN "done" ELSE "loadStats"
    [] OTHER -> "startFresh"

(* A /loldle_giveup that only deletes the round. *)
AfterLoadUncounted(w, g) ==
  IF req[w].cmd = "giveup" /\ g # None THEN "clear" ELSE AfterLoad(w, g)

NextAfterLoad(w, g) == AfterLoad(w, g)

LoadGame(w) ==
  LET g == game[req[w].subject]
  IN  /\ pc[w] = "load"
      /\ \/ /\ round' = [round EXCEPT ![w] = g]
            /\ Goto(w, NextAfterLoad(w, g))
            /\ UNCHANGED faulty
         \/ Fails(w) /\ UNCHANGED round
      /\ UNCHANGED <<store, roster, lock, req, limit, score, results>>

StartFreshGame(w) ==
  LET s == req[w].subject
  IN  /\ pc[w] = "startFresh"
      /\ \E target \in roster :
           LET g == [target |-> target, guesses |-> <<>>]
           IN  /\ round' = [round EXCEPT ![w] = g]
               /\ \/ /\ game' = [game EXCEPT ![s] = g]
                     /\ results' = [results EXCEPT ![s] = <<>>]
                     /\ \/ /\ Goto(w, "play")
                           /\ faulty' = [faulty EXCEPT ![s] = FALSE]
                        \/ Fails(w)
                  \/ Fails(w) /\ UNCHANGED <<game, results>>
      /\ UNCHANGED <<stats, config, roster, lock, req, limit, score>>

(* No argument (the board), no such champion, or one already guessed.      *)
OnlyReplied(arg, g) ==
  \/ arg = NoArg
  \/ arg \notin roster
  \/ arg \in ToSet(g.guesses)

(* A guess repeated within the round is taken again. *)
OnlyRepliedRepeats(arg, g) == arg = NoArg \/ arg \notin roster

JustAnswers(arg, g) == OnlyReplied(arg, g)

Answer(w) ==
  /\ pc[w] = "play"
  /\ JustAnswers(req[w].arg, round[w])
  /\ Goto(w, "done")
  /\ UNCHANGED <<store, roster, lock, req, memory, history>>

(* A guess ends the round (win, or the limit reached), is saved, or finds  *)
(* that the target has left the champion list, which drops the round.      *)
Guess(w) ==
  LET s == req[w].subject
      g == [round[w] EXCEPT !.guesses = Append(@, req[w].arg)]
      over == req[w].arg = g.target \/ Len(g.guesses) >= limit[w]
  IN  /\ pc[w] = "play"
      /\ ~JustAnswers(req[w].arg, round[w])
      /\ IF g.target \notin roster
         THEN Goto(w, "clear") /\ UNCHANGED <<game, round, faulty>>
         ELSE /\ round' = [round EXCEPT ![w] = g]
              /\ \/ over /\ Goto(w, "loadStats") /\ UNCHANGED <<game, faulty>>
                 \/ /\ ~over
                    /\ game' = [game EXCEPT ![s] = g]
                    /\ Goto(w, "done") /\ UNCHANGED faulty
                 \/ /\ ~over
                    /\ game' \in {game, [game EXCEPT ![s] = g]}
                    /\ Fails(w)
      /\ UNCHANGED <<stats, config, roster, lock, req, limit, score, results>>

(* recordResult: a Get and a Put, before the round is cleared.             *)
LoadStats(w) ==
  /\ pc[w] = "loadStats"
  /\ \/ /\ score' = [score EXCEPT ![w] = stats[req[w].subject]]
        /\ Goto(w, "putStats")
        /\ UNCHANGED faulty
     \/ Fails(w) /\ UNCHANGED score
  /\ UNCHANGED <<store, roster, lock, req, limit, round, results>>

(* Only the guess just made can win; /loldle_giveup records a loss.        *)
Won(w) ==
  req[w].cmd = "loldle" /\ Last(round[w].guesses) = round[w].target

AfterResult == "clear"

(* The round left in the store once its result is recorded. *)
AfterResultKept == "done"

NextAfterResult == AfterResult

PutStats(w) ==
  LET s == req[w].subject
  IN  /\ pc[w] = "putStats"
      /\ \/ /\ stats' = [stats EXCEPT ![s] = Scored(score[w], Won(w))]
            /\ results' = [results EXCEPT ![s] = Append(@, Won(w))]
            /\ \/ Goto(w, NextAfterResult) /\ UNCHANGED faulty
               \/ Fails(w)
         \/ Fails(w) /\ UNCHANGED <<stats, results>>
      /\ UNCHANGED <<game, config, roster, lock, req, memory>>

ClearGame(w) ==
  LET cleared == [game EXCEPT ![req[w].subject] = None]
  IN  /\ pc[w] = "clear"
      /\ \/ game' = cleared /\ Goto(w, "done") /\ UNCHANGED faulty
         \/ game' \in {game, cleared} /\ Fails(w)
      /\ UNCHANGED <<stats, config, roster, lock, req, memory, results>>

Forget(w) ==
  /\ Goto(w, "idle")
  /\ req' = [req EXCEPT ![w] = Idle]
  /\ limit' = [limit EXCEPT ![w] = None]
  /\ round' = [round EXCEPT ![w] = None]
  /\ score' = [score EXCEPT ![w] = NoStats]

ReplyUnlocked(w) ==
  /\ pc[w] = "reply"
  /\ Forget(w)
  /\ UNCHANGED <<store, roster, lock, history>>

ReturnAndUnlock(w) ==
  /\ pc[w] = "done"
  /\ lock' = [lock EXCEPT ![req[w].subject] = None]
  /\ Forget(w)
  /\ UNCHANGED <<store, roster, history>>

Locking == {"getMax", "load", "startFresh", "play", "loadStats", "putStats",
            "clear", "done"}
Busy(s) == \E w \in Worker : pc[w] \in Locking /\ req[w].subject = s

(* The process ends and another starts, of the same or a newer deployment: *)
(* the store survives, the champion list may be another.                   *)
Restart ==
  /\ roster' \in Roster
  /\ pc' = [w \in Worker |-> "idle"]
  /\ req' = [w \in Worker |-> Idle]
  /\ limit' = [w \in Worker |-> None]
  /\ round' = [w \in Worker |-> None]
  /\ score' = [w \in Worker |-> NoStats]
  /\ lock' = [s \in Subject |-> None]
  /\ faulty' = [s \in Subject |-> faulty[s] \/ Busy(s)]
  /\ UNCHANGED <<store, results>>

Next ==
  \/ \E w \in Worker : \E r \in Request : Receive(w, r)
  \/ \E w \in Worker :
       \/ SetMax(w) \/ Acquire(w) \/ GetMaxGuesses(w) \/ LoadGame(w)
       \/ StartFreshGame(w) \/ Answer(w) \/ Guess(w) \/ LoadStats(w)
       \/ PutStats(w) \/ ClearGame(w) \/ ReplyUnlocked(w) \/ ReturnAndUnlock(w)
  \/ Restart

Spec == Init /\ [][Next]_vars

----------------------------------------------------------------------------

(* The values the variables take; the lock names the worker past Acquire.  *)
TypeOK ==
  /\ game \in [Subject -> Round \cup {None}]
  /\ stats \in [Subject -> Stats]
  /\ config \in [Subject -> (1 .. MaxGuessesCap) \cup {None}]
  /\ roster \in Roster
  /\ lock \in [Subject -> Worker \cup {None}]
  /\ pc \in [Worker -> {"idle", "reply", "setmax", "lock"} \cup Locking]
  /\ req \in [Worker -> Request \cup {Idle}]
  /\ limit \in [Worker -> Nat \cup {None}]
  /\ round \in [Worker -> Round \cup {None}]
  /\ score \in [Worker -> Stats]
  /\ results \in [Subject -> Seq(BOOLEAN)]
  /\ \A w \in Worker : pc[w] \in Locking => lock[req[w].subject] = w

(* A stored round is open: its guesses are distinct and none of them is    *)
(* the target, whatever failed writes, restarts, new champion lists and    *)
(* changes of the limit it has been through.  (A winning guess is never    *)
(* saved, and a repeated one is refused.)                                  *)
StoredRoundIsOpen ==
  \A s \in Subject :
    game[s] # None =>
      /\ game[s].target \notin ToSet(game[s].guesses)
      /\ IsInjective(game[s].guesses)

(* Champions are named and compared as ChampionCompare promises for every  *)
(* text, and whatever lengths were set since it began, a stored round      *)
(* leaves a guess to make under the longest.                               *)
GuessesAreAnsweredRight ==
  /\ NamesFindTheirChampion /\ BoardsAreMirrored
  /\ HintsLeadToTheTarget /\ TargetMatchesItself
  /\ \A s \in Subject : game[s] # None => Len(game[s].guesses) < MaxGuessesCap

(* The named invariant with the types. *)
LoldleInv == TypeOK /\ StoredRoundIsOpen

(* As long as no call failed, a stored round that nobody is working on has *)
(* no result in the stats, and a cleared one has exactly one, unless its   *)
(* target had left the champion list.                                      *)
OpenMeansUncounted ==
  \A s \in Subject :
    game[s] # None /\ ~Busy(s) /\ ~faulty[s] => results[s] = <<>>

ClearedMeansCounted ==
  \A s \in Subject :
    game[s] # None /\ game'[s] = None /\ ~faulty[s] =>
      Len(results[s]) = 1 \/ game[s].target \notin roster

(* Both: unless a call fails, each round ends up in the stats once, and only *)
(* when it has left the store.                                               *)
RoundsCountedOnce == [][OpenMeansUncounted' /\ ClearedMeansCounted]_vars

(* A round in progress is only replaced when the limit in force leaves it  *)
(* no guess: a /loldle never throws away a round that can be played on.    *)
ReplacedOnlyWhenSpent ==
  [][\A s \in Subject :
       game[s] # None /\ game'[s] # None /\ game'[s].guesses = <<>>
         /\ game'[s] # game[s] =>
         \E w \in Worker : /\ pc[w] = "startFresh" /\ req[w].subject = s
                           /\ Len(game[s].guesses) >= limit[w]]_vars
============================================================================
