SPECIFICATION FairSpec
CONSTANTS
  w1 = w1
  w2 = w2
  wordle = wordle
  error = error
  sha1 = sha1
  owner = owner
  None = None
  Caller <- MCCaller
  Name <- MCName
  Command <- MCCommand
  HandlerError = error
  Sha <- MCSha
  Owner = owner
  MaxCount = 2
  MaxStarts = 2
INVARIANTS
  MainInv
  EveryIncrementAccounted
PROPERTIES
  EveryIncrementLogged
CHECK_DEADLOCK FALSE
