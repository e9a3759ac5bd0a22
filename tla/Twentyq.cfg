SPECIFICATION Spec
CONSTANTS
  w1 = w1
  w2 = w2
  s1 = s1
  kettle = kettle
  alive = alive
  metal = metal
  NoArg = NoArg
  BadArg = BadArg
  None = None
  Worker <- MCWorker
  Subject <- MCSubject
  Target <- MCTarget
  Question <- MCQuestion
  MaxPlayed = 2
  WordChar <- MCWordChar
  OtherChar <- MCOtherChar
  LowerCase <- MCLowerCase
  MinLen = 1
  MaxLen = 3
  Interrogative <- MCInterrogative
  Text <- MCText
  Secret <- MCSecret
  Payload <- MCPayload
  MaxTokens = 5
INVARIANTS
  TwentyqInv
  TextIsReadSafely
  StatsAddUp
PROPERTIES
  NoTurnIsLost
  RoundsCountedOnce
SYMMETRY MCSymmetry
