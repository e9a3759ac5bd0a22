---------------------------- MODULE Lolschedule -----------------------------
(* What the two parts of internal/modules/lolschedule share: goroutines that *)
(* run its handlers, each with the call it makes next, and loops over lists. *)
EXTENDS Naturals, Sequences, SequencesExt, Lists

CONSTANTS Worker, None

VARIABLE pc  \* per worker: the next call

Goto(w, label) == pc' = [pc EXCEPT ![w] = label]

=============================================================================
