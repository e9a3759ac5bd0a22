SPECIFICATION Spec
CONSTANTS
  w1 = w1
  w2 = w2
  s1 = s1
  ahri = ahri
  braum = braum
  corki = corki
  NoArg = NoArg
  None = None
  Worker <- MCWorker
  Subject <- MCSubject
  Champion <- MCChampion
  Roster <- MCRoster
  Typed <- MCTyped
  MaxGuesses = 2
  MaxGuessesCap = 3
  MaxPlayed = 2
  Alphanumeric <- MCAlphanumeric
  LowerCase <- MCLowerCase
  DigitValue <- MCDigitValue
  Pool <- MCPool
  Input <- MCInput
  Text <- MCText
  Texts <- MCTexts
  Date <- MCDate
INVARIANTS
  LoldleInv
  GuessesAreAnsweredRight
PROPERTIES
  RoundsCountedOnce
  ReplacedOnlyWhenSpent
SYMMETRY MCSymmetry
