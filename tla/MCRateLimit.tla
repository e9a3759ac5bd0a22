---------------------------- MODULE MCRateLimit ----------------------------
(* Model values for RateLimit: two callers and two subjects, bursts of two   *)
(* calls of two units, and time to empty a bucket, refill it and empty it    *)
(* again.                                                                    *)
EXTENDS RateLimit, TLC

CONSTANTS c1, c2, s1, s2

MCCaller == {c1, c2}
MCSubject == {s1, s2}
MCSymmetry == Permutations(MCCaller) \cup Permutations(MCSubject)
=============================================================================
