SPECIFICATION Spec
CONSTANTS
  w1 = w1
  w2 = w2
  c1 = c1
  c2 = c2
  t1 = t1
  t2 = t2
  None = None
  Worker <- MCWorker
  Pusher <- MCPusher
  Chat <- MCChat
  Thread <- MCThread
  Sub <- MCSub
  Threshold = 1
INVARIANTS
  DailyPushInv
  OneDigestPerPush
PROPERTIES
  ImplementsSubscriberSet
  RemovedForCause
