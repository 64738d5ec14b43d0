SPECIFICATION Spec
CONSTANTS
  LockDuration = 8
  MaxTimeDif = 1
  RefundGrace = 4
  NegotiationWait = 0
  FeeWait = 0
  CommGrace = 0
  SpendDelay = 0
  MaxAway = 4
  StartBy = 1
  RestartBy = 10
  MaxTime = 21
  Crashers = {"maker", "taker"}
  CoinErrors = FALSE
  RandomHtlcKey = FALSE
  FeeWaived = TRUE
INVARIANTS
  TakerNeverLosesBoth
PROPERTIES
  SwapIsAtomic
