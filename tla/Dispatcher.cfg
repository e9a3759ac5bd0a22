SPECIFICATION Spec
CONSTANTS
  w1 = w1
  w2 = w2
  owner = owner
  admin = admin
  player = player
  None = None
  ModuleName <- MCModuleName
  CommandName <- MCCommandName
  Factory <- MCFactory
  Parameters <- MCParameters
  Worker <- MCWorker
  Sender <- MCSender
  Named <- MCNamed
  Owner = owner
  Admin <- MCAdmin
  Config <- MCConfig
  Request <- MCRequest
  MaxRuns = 2
CONSTRAINT CronsComeAlone
INVARIANTS
  DispatcherInv
  NothingRunsUnasked
  AnswersAreTrue
  UndisturbedUsageIsExact
PROPERTIES
  ServesWhatIsDeclared
