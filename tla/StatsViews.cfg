SPECIFICATION ViewsSpec
CONSTANTS
  Command <- MCCommand
  Mistyped <- MCMistyped
  UserId <- MCUserId
  Username <- MCUsername
  Foreign <- MCForeign
  Stored <- MCStored
  MaxCount = 3
  MaxWrites = 2
  TopK = 1
INVARIANTS
  StatsViewsInv
  OneUserPerView
  NothingSettledIsMissing
PROPERTIES
  ImplementsStores
