SPECIFICATION FairKeyLockSpec
CONSTANTS
  w1 = w1
  w2 = w2
  w3 = w3
  k1 = k1
  k2 = k2
  None = None
  Caller <- MCCaller
  Key <- MCKey
INVARIANT KeyLockInv
PROPERTY AcquireReturns
