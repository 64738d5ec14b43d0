SPECIFICATION Spec
CONSTANTS
  LockDuration = 3
  MaxStartedAtDiff = 0
  RecvWait = 0
  SpendDelay = 0
  StartBy = 0
  MaxTime = 6
  CoinErrors = TRUE
  Crashers = {"maker", "taker"}
  MaxCrashes = 1
  RestartBy = 2
  StorageErrors = TRUE
  QuickRestart = TRUE
INVARIANTS
  ReservationsFollowLog
PROPERTIES
  SwapV2IsAtomic
