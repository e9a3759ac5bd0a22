---------------------------- MODULE MCStatsViews ----------------------------
(* Values for StatsViews: two commands, users 2 and 12, one of whose ids     *)
(* ends in the other's, names they may share, and entries of a module whose  *)
(* name begins with, and of one that continues, the name of the stats.       *)
EXTENDS StatsViews

a == <<97>>
b == <<98>>
two == <<50>>
twelve == <<49, 50>>
x == <<120>>
y == <<121>>

MCCommand == {a, b}
MCMistyped == {<<Slash>>}
MCUserId == {two, twelve}
MCUsername == {x, y}
MCForeign == {<<<<115, 116, 97, 116>>, <<115>> \o countKey(a)>>}
MCStored ==
  {Empty,
   [k \in {countKey(a), countKey(b), userKey(two), userKey(twelve), pairKey(a, two),
           pairKey(a, twelve), pairKey(b, twelve)} |->
      [n |-> IF k = countKey(b) THEN 2 ELSE 1,
       username |-> IF k \in UserKeys THEN x ELSE <<>>]]}
=============================================================================
