------------------------------ MODULE MCTrading ------------------------------
(* Model values for Trading: two workers of one process contend for one      *)
(* user.  Amount 0 is refused as malformed; MaxMoney 2 is overflowed by the  *)
(* third unit; Half 2 lets the share count wrap; the market moves between    *)
(* two prices and none.                                                      *)
EXTENDS Trading, TLC

CONSTANTS w1, w2, p1, u1, T

MCWorker == {w1, w2}
MCProcess == {p1}
MChome == [w \in MCWorker |-> p1]
MCUser == {u1}
MCTicker == {T}
MCAmount == {0, 1, 2}
MCQty == {0, 1}
MCPrice == {1, 2}

MCSymmetry == Permutations(MCWorker)
==============================================================================
