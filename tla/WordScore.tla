----------------------------- MODULE WordScore -----------------------------
(***************************************************************************)
(* The letter work of the wordle module: what validateGuess makes of the   *)
(* text after /wordle (lookup.go) and how CompareWords scores a guess      *)
(* (compare.go).  Pure functions; a word is a sequence of letters, a text  *)
(* one of characters.                                                      *)
(***************************************************************************)
EXTENDS Lists, Naturals, Sequences, SequencesExt, FiniteSets

CONSTANTS Letter,      \* a-z
          Character,   \* what a text is made of, Letter included
          LowerCase,   \* strings.ToLower, on characters
          WordLength,  \* 5
          Dictionary,  \* the words a guess may be
          ScoredWords, \* bound: the words the properties score
          ScannedText  \* bound: the texts the properties validate

ASSUME ScoreAssumption ==
  /\ WordLength \in Nat \ {0}
  /\ Letter \subseteq Character
  /\ LowerCase \in [Character -> Character]
  /\ \A l \in Letter : LowerCase[l] = l
  /\ ScannedText \subseteq Seq(Character)
  /\ ScoredWords \subseteq [1 .. WordLength -> Letter]
  /\ Dictionary \subseteq [1 .. WordLength -> Letter]

Position == 1 .. WordLength

LowerLetters(text) == [i \in DOMAIN text |-> LowerCase[text[i]]]

(* The characters lower-cased, those that are no letter dropped. *)
normalizeWord(text) == Keeping(LowerLetters(text), Letter)

validateGuess(text) ==
  LET w == normalizeWord(text)
  IN  [word |-> w,
       reason |-> IF w = <<>> THEN "empty"
                  ELSE IF Len(w) # WordLength THEN "length"
                  ELSE IF w \notin Dictionary THEN "unknown"
                  ELSE "ok"]

----------------------------------------------------------------------------

(* Pass 1: positional matches, and the target's letters they leave over.   *)
Pool(guess, target) ==
  LET left == Keeping([i \in Position |-> i], {i \in Position : guess[i] # target[i]})
  IN  [k \in DOMAIN left |-> target[left[k]]]

(* Pass 2 takes the letters it calls partial from the pool. *)
Consumed(pool, letter) == RemoveFirst(pool, letter)

(* A pool nothing is taken from: one b of the target turns two yellow. *)
Unconsumed(pool, letter) == pool

Taken(pool, letter) == Consumed(pool, letter)

CompareWords(guess, target) ==
  LET pool[i \in 0 .. WordLength] ==    \* what is left after the i-th letter
        IF i = 0 THEN Pool(guess, target)
        ELSE IF guess[i] = target[i] THEN pool[i - 1]
        ELSE Taken(pool[i - 1], guess[i])
  IN  [i \in Position |->
         IF guess[i] = target[i] THEN "correct"
         ELSE IF Contains(pool[i - 1], guess[i]) THEN "partial" ELSE "wrong"]

----------------------------------------------------------------------------

(* What a player may conclude from a score, letter by letter: green is the *)
(* letter at its place; as many places of a letter are green or yellow as  *)
(* the target can pay for; and of those not green the leftmost are yellow. *)
Places(word, l) == {i \in Position : word[i] = l}

Smaller(a, b) == IF a < b THEN a ELSE b

TellsTheTarget(guess, target, marks) ==
  /\ marks \in [Position -> {"correct", "partial", "wrong"}]
  /\ \A i \in Position : marks[i] = "correct" <=> guess[i] = target[i]
  /\ \A l \in Letter :
       /\ Cardinality({i \in Places(guess, l) : marks[i] # "wrong"})
            = Smaller(Cardinality(Places(guess, l)), Cardinality(Places(target, l)))
       /\ \A i, j \in Places(guess, l) :
            marks[i] = "wrong" /\ marks[j] = "partial" => j < i

(* The score of every guess says of the target what TellsTheTarget allows  *)
(* and no more: repeated letters are neither promised twice nor denied     *)
(* ("Two-pass marking is required to handle duplicate letters correctly",  *)
(* compare.go:27).                                                         *)
ScoresTellTheTarget ==
  \A guess, target \in ScoredWords :
    TellsTheTarget(guess, target, CompareWords(guess, target))

(* A text is read as the letters it has, in their order, however they are  *)
(* cased and whatever stands between them; it is taken if they are a word  *)
(* of the dictionary, and every word taken can be scored (CompareWords     *)
(* indexes five letters of guess and target unchecked, compare.go:41).     *)
GuessesAreReadLiberally ==
  \A text \in ScannedText :
    LET v == validateGuess(text)
    IN  /\ Selects(v.word, LowerLetters(text), Letter)
        /\ v.reason = "ok" <=> v.word \in Dictionary
        /\ v.reason = "ok" => DOMAIN v.word = Position
        /\ v.reason = "empty" <=> \A i \in DOMAIN text : LowerCase[text[i]] \notin Letter

============================================================================
