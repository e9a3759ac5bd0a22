SPECIFICATION RateLimitSpec
CONSTANTS
  c1 = c1
  c2 = c2
  s1 = s1
  s2 = s2
  None = None
  Caller <- MCCaller
  Subject <- MCSubject
  Burst = 2
  Cost = 2
  MaxTime = 5
INVARIANT RateLimitInv
SYMMETRY MCSymmetry
