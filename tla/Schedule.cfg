SPECIFICATION ScheduleSpec
CONSTANTS
  w1 = w1
  w2 = w2
  Unparsed = Unparsed
  None = None
  Worker <- MCWorker
  Window <- MCWindow
  Event <- MCEvent
  Start <- MCStart
  Page <- MCPage
  Home <- MCHome
  League <- MCLeague
  leagueOrder <- MCleagueOrder
  Issued <- MCIssued
  DigitValue <- MCDigitValue
  Instant <- MCInstant
  SomeYear <- MCSomeYear
  Argument <- MCArgument
  MaxPages = 3
  CacheTTL = 1
  StaleMaxAge = 2
  MaxTime = 2
INVARIANTS
  ScheduleInv
  AnswersFollowSchedule
  PagesShowTheAnswer
  CommandsAskForTheirDays
CONSTRAINT OneWindow
SYMMETRY MCSymmetry
