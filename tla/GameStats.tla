----------------------------- MODULE GameStats -----------------------------
(* The lifetime score the wordle and loldle modules keep for a subject, and *)
(* how recordResult counts one result into it.                              *)
EXTENDS Naturals

Stats == [played : Nat, wins : Nat, streak : Nat, best : Nat]

NoStats == [played |-> 0, wins |-> 0, streak |-> 0, best |-> 0]

Scored(st, won) ==
  [played |-> st.played + 1,
   wins   |-> IF won THEN st.wins + 1 ELSE st.wins,
   streak |-> IF won THEN st.streak + 1 ELSE 0,
   best   |-> IF won /\ st.streak + 1 > st.best THEN st.streak + 1 ELSE st.best]

(* The stats of a subject after one more result: the games played grow by  *)
(* it, a win lengthens the streak, a loss ends it, the best never falls.   *)
CountsOneResult(before, after) ==
  /\ after.played = before.played + 1
  /\ \/ /\ after.wins = before.wins + 1
        /\ after.streak = before.streak + 1
        /\ after.best >= after.streak
     \/ after.wins = before.wins /\ after.streak = 0
  /\ after.best >= before.best

============================================================================
