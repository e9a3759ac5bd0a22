------------------------------- MODULE MCMain -------------------------------
(* Model values for Main: two requests at a time, which increment a command  *)
(* and an error, a version, a build without one and a restart.               *)
EXTENDS Main

CONSTANTS w1, w2, wordle, error, sha1, owner

MCCaller == {w1, w2}
MCCommand == {wordle}
MCName == {wordle, error}
MCSha == {sha1, None}
=============================================================================
