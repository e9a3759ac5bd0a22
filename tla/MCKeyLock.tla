------------------------------ MODULE MCKeyLock ------------------------------
(* Model values for KeyLock: three goroutines over two keys, enough for two *)
(* waiters behind one holder and for one of them to overtake the other.     *)
EXTENDS KeyLock, TLC

CONSTANTS w1, w2, w3, k1, k2

MCCaller == {w1, w2, w3}
MCKey == {k1, k2}
==============================================================================
