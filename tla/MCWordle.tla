------------------------------ MODULE MCWordle ------------------------------
(* Model values for Wordle: two workers contend for one subject.  Two words  *)
(* and two guesses are enough to solve, to run out of guesses and to guess   *)
(* twice; MaxPlayed 2 lets a second round follow a counted one.  Scored are  *)
(* all words of five letters out of three, read all texts of up to six       *)
(* characters out of one letter's two cases, another letter and a space.     *)
EXTENDS Wordle, TLC

CONSTANTS w1, w2, s1, apple, berry

MCWorker == {w1, w2}
MCSubject == {s1}
MCWord == {apple, berry}
MCSymmetry == Permutations(MCWorker) \cup Permutations(MCWord)

MCLetter == {"a", "b", "c"}
MCCharacter == MCLetter \cup {"A", " "}
MCLowerCase == [c \in MCCharacter |-> IF c = "A" THEN "a" ELSE c]
MCDictionary == {<<"a", "b", "b", "a", "b">>, <<"b", "a", "a", "b", "b">>}
MCScoredWords == [1 .. WordLength -> MCLetter]
MCScannedText == UNION {[1 .. n -> {"a", "A", "b", " "}] : n \in 0 .. 6}
=============================================================================
