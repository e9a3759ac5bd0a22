----------------------------- MODULE MCSchedule -----------------------------
(* Model values for SchedulePage: two lookups of a day or of the week around *)
(* it.  Four pages, one more than the budget: two events of one start time   *)
(* on either side of a boundary, an event without a time, and a page of      *)
(* nothing but "show" segments.  One event begins when the day does, one in  *)
(* the last hours of a UTC day, when it is the next day in Vietnam already.  *)
(* Time for a record to be fresh, stale and too old.                         *)
EXTENDS SchedulePage, TLC

CONSTANTS w1, w2

MCWorker == {w1, w2}

(* Wednesday 2024-02-28, 00:00 in Vietnam. *)
Wednesday == 24 * 19781 - 7

MCEvent == 1 .. 6
MCStart == <<Wednesday - 24, Wednesday, Wednesday, Unparsed, Wednesday + 25, Wednesday + 54>>
MCLeague == <<"lck", "lpl", "worlds", "lck", "lck", "minor">>
MCleagueOrder == <<"worlds", "lck", "lpl">>
MCPage == << <<1, 2>>, <<3>>, <<4, 5, 6>>, <<>> >>
MCHome == {2, 4}
MCIssued == {[cmd |-> "schedule", arg |-> <<"2", "8">>, now |-> Wednesday + 30],
              [cmd |-> "schedule", arg |-> <<"3", "0">>, now |-> Wednesday],
              [cmd |-> "today", arg |-> <<>>, now |-> Wednesday + 23],
              [cmd |-> "week", arg |-> <<>>, now |-> Wednesday + 3]}

(* Bound: of a behaviour, all lookups are of one window.  Those of another *)
(* share nothing with them but the clock: the key has both ends of it.     *)
OneWindow ==
  Cardinality({r \in Window : cache[r] # None \/ \E w \in Worker : range[w] = r}) <= 1

(* What the commands above ask for: Wednesday, and the week around it. *)
MCWindow == {[from |-> Wednesday, to |-> Wednesday + 24],
             [from |-> Wednesday - 48, to |-> Wednesday + 120]}

MCSymmetry == Permutations(MCWorker)

MCDigits == <<"0", "1", "2", "3", "4", "5", "6", "7", "8", "9">>
MCDigitValue == [c \in ToSet(MCDigits) |-> (CHOOSE i \in 1 .. 10 : MCDigits[i] = c) - 1]
(* The last hours of a month and of a year, on either side of midnight in  *)
(* Vietnam and in UTC, and the hours of a day and the midnights of a week   *)
(* with a leap day.                                                        *)
MCInstant == {Wednesday + k : k \in -8 .. 25} \cup
             {Wednesday + 24 * d + k : d \in 2 .. 6, k \in {-1, 0}} \cup
             {24 * NewYear(2025) + k : k \in {-8, -7, -1, 0}}
MCSomeYear == {1969, 1970, 2000, 2023, 2024, 2100, 2101}
MCArgument == UNION {[1 .. n -> {"1", "-", "/", "x"}] : n \in 0 .. 5}
=============================================================================
