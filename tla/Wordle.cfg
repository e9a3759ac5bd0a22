SPECIFICATION FairSpec
CONSTANTS
  w1 = w1
  w2 = w2
  s1 = s1
  apple = apple
  berry = berry
  NoArg = NoArg
  BadArg = BadArg
  None = None
  Worker <- MCWorker
  Subject <- MCSubject
  Word <- MCWord
  MaxGuesses = 2
  MaxPlayed = 2
  Letter <- MCLetter
  Character <- MCCharacter
  LowerCase <- MCLowerCase
  WordLength = 5
  Dictionary <- MCDictionary
  ScoredWords <- MCScoredWords
  ScannedText <- MCScannedText
INVARIANTS
  WordleInv
  GuessesAreScoredRight
PROPERTIES
  RoundFollowsRules
  StatsNeverLoseAResult
  EveryCommandReturns
