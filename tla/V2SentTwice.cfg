SPECIFICATION Spec
CONSTANTS
  LockDuration = 3
  MaxStartedAtDiff = 0
  RecvWait = 0
  SpendDelay = 0
  StartBy = 0
  MaxTime = 7
  CoinErrors = FALSE
  Crashers = {"maker", "taker"}
  MaxCrashes = 1
  RestartBy = 3
  StorageErrors = FALSE
  QuickRestart = TRUE
INVARIANT SentOnceV2
