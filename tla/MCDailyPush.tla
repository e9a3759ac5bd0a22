---------------------------- MODULE MCDailyPush ----------------------------
(* Model values for DailyPush: a chat with two topics beside one with one,   *)
(* and two workers, of which one also runs pushes, one after the other, so   *)
(* that commands meet every point of a push.                                 *)
EXTENDS DailyPush

CONSTANTS w1, w2, c1, c2, t1, t2

MCWorker == {w1, w2}
MCPusher == {w1}
MCChat == {c1, c2}
MCThread == {t1, t2}
MCSub == {<<c1, t1>>, <<c1, t2>>, <<c2, t1>>}
=============================================================================
