------------------------------ MODULE MCLoldle ------------------------------
(* Model values for Loldle: two workers, one subject.  Three champions let a  *)
(* round of two guesses be lost; the roster may lose one of them.  The typed  *)
(* lengths are one below the default, the cap, and one out of range.          *)
(* The champions compared are others: one's name begins a second's, two share *)
(* a prefix, one has punctuation in its name.                                 *)
EXTENDS Loldle, TLC

CONSTANTS w1, w2, s1, ahri, braum, corki

MCWorker == {w1, w2}
MCSubject == {s1}
MCChampion == {ahri, braum, corki}
MCRoster == {{ahri, braum, corki}, {ahri, braum}}
MCTyped == {0, 1, 3}
MCSymmetry == Permutations(MCWorker) \cup Permutations({ahri, braum})

MCAlphanumeric == {"v", "i", "k"}
MCLowerCase ==
  [c \in {"v", "i", "k", "V", "'", " ", "0", "1"} |-> IF c = "V" THEN "v" ELSE c]
MCDigitValue == [c \in {"0", "1"} |-> IF c = "0" THEN 0 ELSE 1]
MCText == {<<>>, <<"v">>, <<"V">>, <<" ", "v">>, <<"k">>, <<"i", " ", "k">>}
MCTexts == UNION {[1 .. n -> MCText] : n \in 0 .. 2}
MCDate == [1 .. 4 -> {"0", "1"}] \cup [1 .. 3 -> {"0", "1"}] \cup
          {<<>>, <<"1", "0", "1", "k">>, <<"1", "0", "1", "1", "'", "0">>}

MCFighter(name, date) ==
  [championName |-> name, gender |-> <<"v">>, species |-> <<<<"v">>, <<"k">>>>,
   range_type |-> <<>>, resource |-> <<>>, regions |-> <<<<"i", " ", "k">>>>,
   positions |-> <<<<"V">>>>, release_date |-> date]
MCPool == <<MCFighter(<<"V", "i">>, <<"1", "0", "1", "1">>),
            MCFighter(<<"V", "i", "k">>, <<"1", "0", "1", "1", "'", "0">>),
            MCFighter(<<"k", "'", "v">>, <<"k">>),
            MCFighter(<<"k", " ", "k">>, <<>>)>>
MCInput == UNION {[1 .. n -> {"v", "i", "k", "V", "'", " "}] : n \in 0 .. 4}
=============================================================================
