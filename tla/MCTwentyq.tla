----------------------------- MODULE MCTwentyq -----------------------------
(* Model values for Twentyq: two workers contend for one subject.  Two       *)
(* questions let a round take a turn before the one that wins it, and repeat *)
(* one; MaxPlayed 2 lets a second result be added to the stats of a first.   *)
(* Texts: all of up to four characters out of two cases of a letter, another *)
(* letter, a blank and a question mark; objects of up to five tokens.        *)
EXTENDS Twentyq, TLC

CONSTANTS w1, w2, s1, kettle, alive, metal

MCWorker == {w1, w2}
MCSubject == {s1}
MCTarget == {kettle}
MCQuestion == {alive, metal}
MCSymmetry == Permutations(MCWorker) \cup Permutations(MCQuestion)

MCWordChar == {"y", "Y", "k", "e", "s"}
MCOtherChar == {"{", "}", "quote", "escape", "fence", "redacted", " ", "?"}
MCLowerCase == [c \in Char |-> IF c = "Y" THEN "y" ELSE c]
MCInterrogative == {<<"k">>}
MCText == UNION {[1 .. n -> {"y", "Y", "k", " ", "?"}] : n \in 0 .. 4}
MCSecret == {<<"y">>, <<"y", "k">>, <<"Y", "y">>}
MCPayload ==
  {<<>>} \cup
  [is_guess : {<<"bool", TRUE>>, <<"bool", FALSE>>, <<"string", <<"y">>>>, <<"other">>},
   answer : {<<"string", <<"Y", "e", "s">>>>, <<"string", <<" ", "y">>>>, <<"other">>},
   hint : {<<"string", <<" ">>>>, <<"other">>}]
=============================================================================
