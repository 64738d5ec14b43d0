SPECIFICATION Spec
CONSTANTS
  LockDuration = 4
  MaxTimeDif = 0
  RefundGrace = 1
  NegotiationWait = 0
  FeeWait = 0
  CommGrace = 0
  SpendDelay = 0
  MaxAway = 3
  StartBy = 0
  RestartBy = 9
  MaxTime = 11
  Crashers = {"taker"}
  CoinErrors = TRUE
  RandomHtlcKey = TRUE
  FeeWaived = FALSE
INVARIANTS
  MakerNeverLosesBoth
  PaymentsSentOnce
  TakerLeftoverIsRecoverable
  TakerDataPresent
