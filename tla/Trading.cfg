SPECIFICATION Spec
CONSTANTS
  w1 = w1
  w2 = w2
  p1 = p1
  u1 = u1
  T = T
  None = None
  Worker <- MCWorker
  Process <- MCProcess
  home <- MChome
  User <- MCUser
  Ticker <- MCTicker
  Amount <- MCAmount
  Qty <- MCQty
  Price <- MCPrice
  MaxMoney = 2
  Half = 2
INVARIANTS
  TradingInv
  ConfirmedTopUpsKept
PROPERTY ImplementsLedger
SYMMETRY MCSymmetry
