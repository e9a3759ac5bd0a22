---------------------------- MODULE SchedulePage ----------------------------
(***************************************************************************)
(* The /lolschedule commands around the match lookup (handlers.go and      *)
(* format.go): which range each asks for, and what page it makes of the    *)
(* answer.  A page is a sequence of sections, of lines that stand for the  *)
(* event they show; wording and the formatting of a line are left out.     *)
(***************************************************************************)
EXTENDS Schedule, ScheduleDate

CONSTANTS League,      \* of each event, its slug
          leagueOrder, \* the major leagues, by prestige
          Issued       \* bound: the commands sent, as [cmd, arg, now]

ASSUME PageAssumption ==
  /\ DOMAIN League = Event
  /\ leagueOrder \in Seq(ToSet(leagueOrder)) /\ IsInjective(leagueOrder)
  /\ \A c \in Issued : c.cmd \in {"schedule", "today", "week"} /\ c.now \in Nat

DayFrom(from) == [from |-> from, to |-> addDays(from, 1)]

(* handleSchedule, handleToday and handleWeek; a text that is no date is    *)
(* only replied to.                                                        *)
Asked(c) ==
  CASE c.cmd = "schedule" ->
         LET parsed == ParseScheduleDate(c.arg, c.now)
         IN  IF parsed.ok THEN {DayFrom(parsed.date)} ELSE {}
    [] c.cmd = "today" -> {DayFrom(ictDayStartOf(c.now))}
    [] c.cmd = "week" -> {[from |-> ictWeekStartOf(c.now),
                           to |-> addDays(ictWeekStartOf(c.now), 7)]}

(* The lookups of Schedule are those the commands ask for. *)
LookupsAreAsked == Window = UNION {Asked(c) : c \in Issued}

Major == {e \in Event : League[e] \in ToSet(leagueOrder)}

FilterMajor(events) == Keeping(events, Major)

Of(league, events) == Keeping(events, {e \in Event : League[e] = league})

(* groupByLeague; leagues it does not know do not pass FilterMajor.        *)
groupByLeague(events) ==
  LET met == Keeping(leagueOrder, {League[e] : e \in ToSet(events)})
  IN  [i \in DOMAIN met |-> [league |-> met[i], lines |-> Of(met[i], events)]]

RenderToday(events) == groupByLeague(events)

(* ictDayKey *)
IctDayKey(e) == DayOf(Start[e])

(* The day of e.StartTime as it is written. *)
UtcDayKey(e) == UtcDay(Start[e])

DayKey(e) == IctDayKey(e)

(* The days of a league's events, in order, each with its lines.           *)
ByDay(events) ==
  LET shown == Keeping(events, Timed)
      days == {DayKey(e) : e \in ToSet(shown)}
      sorted == CHOOSE s \in [1 .. Cardinality(days) -> days] :
                  \A i, j \in DOMAIN s : i < j => s[i] < s[j]
  IN  [i \in DOMAIN sorted |->
         [day |-> sorted[i],
          lines |-> Keeping(shown, {e \in Timed : DayKey(e) = sorted[i]})]]

RenderWeek(events) ==
  LET groups == groupByLeague(events)
  IN  [i \in DOMAIN groups |-> [league |-> groups[i].league, days |-> ByDay(groups[i].lines)]]

(* replyForRange: the reply to a lookup of one day, or of seven.           *)
Reply(w) ==
  IF range[w].to = addDays(range[w].from, 7)
  THEN RenderWeek(FilterMajor(answer[w].events))
  ELSE RenderToday(FilterMajor(answer[w].events))

----------------------------------------------------------------------------

(* Every range asked for begins at midnight in Vietnam and holds each of    *)
(* the hours of one of its days, or of the seven from a Monday, and dates   *)
(* are read as ScheduleDate promises.                                      *)
CommandsAskForTheirDays ==
  /\ LookupsAreAsked /\ WindowsTile /\ FullDatesAreExact
  /\ ShortDatesMeanNow /\ NoTextPassesForADate
  /\ \A w \in Worker :
       range[w] # None =>
         LET r == range[w]
         IN  \/ \A t \in r.from .. r.to - 1 : ictDayStartOf(t) = r.from
             \/ \A t \in {r.from, r.to - 1} : ictWeekStartOf(t) = r.from

Rank(league) == CHOOSE i \in DOMAIN leagueOrder : leagueOrder[i] = league

(* The events a section shows, in order. *)
Shown(section, week) ==
  IF week THEN FlattenSeq([k \in DOMAIN section.days |-> section.days[k].lines])
  ELSE section.lines

DaysInOrder(days, r) ==
  \A k, l \in DOMAIN days :
    LET start == Hours(days[k].day) - ictOffset
    IN  /\ k < l => days[k].day < days[l].day
        /\ r.from <= start /\ addDays(start, 1) <= r.to
        /\ \A e \in ToSet(days[k].lines) : start <= Start[e] /\ Start[e] < addDays(start, 1)

Shows(page, r, events) ==
  LET week == r.to # addDays(r.from, 1)
      all == FlattenSeq([i \in DOMAIN page |-> Shown(page[i], week)])
  IN  /\ ToSet(all) = ToSet(events) \cap Major
      /\ IsInjective(events) => IsInjective(all)
      /\ \A i, j \in DOMAIN page : i < j => Rank(page[i].league) < Rank(page[j].league)
      /\ \A i \in DOMAIN page : \A e \in ToSet(Shown(page[i], week)) : League[e] = page[i].league
      /\ week => \A i \in DOMAIN page : DaysInOrder(page[i].days, r)

(* A page shows every event of a major league that the answer has, under   *)
(* its league, which stands before those of less prestige; a week's page   *)
(* shows it under the day it is played on in Vietnam, the days in order,   *)
(* and no event anywhere else, or more often than the answer has it.       *)
PagesShowTheAnswer ==
  \A w \in Worker :
    answer[w] # None => Shows(Reply(w), range[w], answer[w].events)

============================================================================
