---------------------------- MODULE ScheduleDate ----------------------------
(***************************************************************************)
(* The dates of lolschedule (parse_date.go): the ICT day and week an       *)
(* instant falls in, and the day the argument of /lolschedule names.  An   *)
(* instant is an hour since 1970 UTC, a text a sequence of characters.     *)
(***************************************************************************)
EXTENDS Integers, Sequences, SequencesExt, FiniteSets

CONSTANTS DigitValue,  \* 0 .. 9, of the characters that are digits
          Instant,     \* bound: the instants the properties look from
          SomeYear,    \* bound: the years they ask for
          Argument     \* bound: the texts they parse

ictOffset == 7
Hours(days) == 24 * days

(* Days since 1970 in ICT. *)
IctDay(at) == (at + ictOffset) \div 24

(* In UTC. *)
UtcDay(at) == at \div 24

DayOf(at) == IctDay(at)

ictDayStartOf(at) == Hours(DayOf(at)) - ictOffset

addDays(date, days) == date + Hours(days)

(* time.Weekday of a day, Sunday being 0; 1970 began on a Thursday. *)
Weekday(day) == (day + 4) % 7

ictWeekStartOf(at) ==
  ictDayStartOf(at) - Hours((Weekday(DayOf(at)) + 6) % 7)

----------------------------------------------------------------------------
(* The calendar of Go's time package, for the years the code takes.        *)

Leap(y) == y % 4 = 0 /\ (y % 100 # 0 \/ y % 400 = 0)

DaysIn(m, y) ==
  CASE m = 2 -> IF Leap(y) THEN 29 ELSE 28
    [] m \in {4, 6, 9, 11} -> 30
    [] OTHER -> 31

NewYear(y) ==
  365 * (y - 1970) + (y - 1969) \div 4 - (y - 1901) \div 100 + (y - 1601) \div 400

FirstOf(m, y) ==
  LET first[k \in 1 .. 12] == IF k = 1 THEN NewYear(y) ELSE first[k - 1] + DaysIn(k - 1, y)
  IN  first[m]

(* The date a day has. *)
Civil(day) ==
  LET y == CHOOSE z \in 1970 .. 2100 : NewYear(z) <= day /\ day < NewYear(z + 1)
      m == CHOOSE k \in 1 .. 12 : /\ FirstOf(k, y) <= day
                                  /\ day < FirstOf(k, y) + DaysIn(k, y)
  IN  [day |-> day - FirstOf(m, y) + 1, month |-> m, year |-> y]

----------------------------------------------------------------------------

Digit == DOMAIN DigitValue

ASSUME DigitAssumption ==
  /\ DigitValue \in [Digit -> 0 .. 9]
  /\ \A n \in 0 .. 9 : \E c \in Digit : DigitValue[c] = n
  /\ "-" \notin Digit /\ "/" \notin Digit

(* Instants are those of days that have a date the code takes, a year has  *)
(* four digits.                                                            *)
ASSUME DateAssumption ==
  /\ \A at \in Instant : at \in Nat /\ at + ictOffset < Hours(NewYear(2101))
  /\ \A y \in SomeYear : y \in Nat /\ y < 10000
  /\ \A text \in Argument : text \in Seq(ToSet(text))

(* strconv.Atoi; a number too long for an int is too long for a date, too. *)
Number(digits) ==
  LET value[i \in 0 .. Len(digits)] ==
        IF i = 0 THEN 0 ELSE 10 * value[i - 1] + DigitValue[digits[i]]
  IN  value[Len(digits)]

IsNumber(text) == text # <<>> /\ ToSet(text) \subseteq Digit

(* strings.Split at the dashes and slashes. *)
Cuts(text) ==
  {i \in DOMAIN text : text[i] \in {"-", "/"}} \cup {0, Len(text) + 1}

Cut(cuts, k) == CHOOSE c \in cuts : Cardinality({d \in cuts : d < c}) = k

Pieces(text) ==
  LET cuts == Cuts(text)
  IN  [k \in 1 .. Cardinality(cuts) - 1 |->
         SubSeq(text, Cut(cuts, k - 1) + 1, Cut(cuts, k) - 1)]

(* splitParts: at the delimiters, or by length; <<>> if it is no date.     *)
splitParts(text) ==
  LET parts == Pieces(text)
      n == Len(text)
  IN  IF Len(parts) > 3 \/ \E i \in DOMAIN parts : ~IsNumber(parts[i]) THEN <<>>
      ELSE IF Len(parts) > 1 \/ n <= 2 THEN parts
      ELSE IF n = 4 THEN <<SubSeq(text, 1, 2), SubSeq(text, 3, 4)>>
      ELSE IF n = 8 THEN <<SubSeq(text, 1, 2), SubSeq(text, 3, 4), SubSeq(text, 5, 8)>>
      ELSE <<>>

Refused == [ok |-> FALSE]

(* time.Date carries a day too many over into the next month, which the    *)
(* round trip notices.                                                     *)
Candidate(day, month, year) ==
  LET candidate == FirstOf(month, year) + day - 1
  IN  IF Civil(candidate) # [day |-> day, month |-> month, year |-> year] THEN Refused
      ELSE [ok |-> TRUE, date |-> Hours(candidate) - ictOffset]

(* ParseScheduleDate, of a trimmed text.                                   *)
ParseScheduleDate(text, at) ==
  LET parts == splitParts(text)
      today == Civil(DayOf(at))
      day == Number(parts[1])
      month == IF Len(parts) >= 2 THEN Number(parts[2]) ELSE today.month
      year == IF Len(parts) >= 3 THEN Number(parts[3]) ELSE today.year
  IN  IF text = <<>> THEN [ok |-> TRUE, date |-> ictDayStartOf(at)]
      ELSE IF parts # <<>> /\ day \in 1 .. 31 /\ month \in 1 .. 12 /\ year \in 1970 .. 2100
      THEN Candidate(day, month, year)
      ELSE Refused

----------------------------------------------------------------------------

(* The days tile time, and so do the weeks, which begin on a Monday and    *)
(* consist of seven of the days: whatever the hour, an instant lies in the *)
(* one ICT day and the one ICT week that the commands ask for.             *)
WindowsTile ==
  \A at \in Instant :
    LET day == ictDayStartOf(at)
        week == ictWeekStartOf(at)
    IN  /\ day <= at /\ at < addDays(day, 1)
        /\ ictDayStartOf(addDays(day, 1)) = addDays(day, 1)
        /\ ictDayStartOf(addDays(day, 1) - 1) = day
        /\ Weekday((week + ictOffset) \div 24) = 1
        /\ \E k \in 0 .. 6 : day = addDays(week, k)
        /\ \A k \in 0 .. 6 : ictWeekStartOf(addDays(week, k)) = week

(* A date of four digits for the year, two each for day and month. *)
Written(n, width) ==
  [i \in 1 .. width |->
     CHOOSE c \in Digit :
       DigitValue[c] = (n \div <<1, 10, 100, 1000>>[width - i + 1]) % 10]

(* The three spellings of a full date are one; it is accepted exactly if   *)
(* the calendar has it, and names the day that has this date in ICT.       *)
FullDatesAreExact ==
  \A y \in SomeYear : \A m \in 0 .. 13 : \A d \in 0 .. 32 :
    LET at == CHOOSE t \in Instant : TRUE
        dd == Written(d, 2)
        mm == Written(m, 2)
        yyyy == Written(y, 4)
        parsed == ParseScheduleDate(dd \o mm \o yyyy, at)
    IN  /\ \A sep \in {<<"-">>, <<"/">>} :
             ParseScheduleDate(dd \o sep \o mm \o sep \o yyyy, at) = parsed
        /\ parsed.ok <=> y \in 1970 .. 2100 /\ m \in 1 .. 12 /\ d \in 1 .. DaysIn(m, y)
        /\ parsed.ok =>
             /\ Civil((parsed.date + ictOffset) \div 24) = [day |-> d, month |-> m, year |-> y]
             /\ ictDayStartOf(parsed.date) = parsed.date

(* A date left short is one of this month, or this year, where the chat    *)
(* is, not in UTC: today's number names today, and no argument does.       *)
ShortDatesMeanNow ==
  \A at \in Instant :
    LET today == Civil((at + ictOffset) \div 24)
    IN  \A text \in {<<>>, Written(today.day, 2), Written(today.day, 2) \o Written(today.month, 2)} :
          ParseScheduleDate(text, at) = [ok |-> TRUE, date |-> ictDayStartOf(at)]

(* Nothing but digits and at most two delimiters between them is a date.   *)
NoTextPassesForADate ==
  \A text \in Argument : \A at \in Instant :
    ParseScheduleDate(text, at).ok /\ text # <<>> =>
      /\ ToSet(text) \subseteq Digit \cup {"-", "/"}
      /\ Cardinality({i \in DOMAIN text : text[i] \notin Digit}) <= 2
      /\ \A i \in DOMAIN text : text[i] \notin Digit => 1 < i /\ i < Len(text)

============================================================================
