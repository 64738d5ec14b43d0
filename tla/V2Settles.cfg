SPECIFICATION FairSpec
CONSTANTS
  LockDuration = 4
  MaxStartedAtDiff = 0
  RecvWait = 0
  SpendDelay = 1
  StartBy = 0
  MaxTime = 9
  CoinErrors = FALSE
  Crashers = {"maker", "taker"}
  MaxCrashes = 2
  RestartBy = 3
  StorageErrors = FALSE
  QuickRestart = FALSE
INVARIANTS
  FaultlessLeavesNothing
PROPERTIES
  SwapV2Ends
