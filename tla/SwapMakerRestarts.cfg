SPECIFICATION FairSpec
CONSTANTS
  LockDuration = 4
  MaxTimeDif = 0
  RefundGrace = 1
  NegotiationWait = 0
  FeeWait = 0
  CommGrace = 0
  SpendDelay = 0
  MaxAway = 3
  StartBy = 0
  RestartBy = 9
  MaxTime = 11
  Crashers = {"maker"}
  CoinErrors = TRUE
  RandomHtlcKey = FALSE
  FeeWaived = FALSE
PROPERTIES
  FundsSettle
  MakerRevealsSecretInTime
INVARIANTS
  MakerLeftoverIsRecoverable
  MakerDataPresent
