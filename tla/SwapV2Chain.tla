---------------------------- MODULE SwapV2Chain ----------------------------
(* What the two roles of a version-two swap share: the clock, the swap topic  *)
(* of the p2p network and the outputs of the swap on the two chains.          *)
(*                                                                            *)
(* The taker first locks its coins in a funding output.  The maker answers    *)
(* with its payment and its half of the signature that turns the funding into *)
(* the taker payment; until then the taker can reclaim the funding at once    *)
(* with its own secret.  The two payments move                                *)
(*                                                                            *)
(*   none -> unconfirmed -> confirmed -> spending -> spent                    *)
(*                                                                            *)
(* and to refunded while their output is unspent on chain.  "spending" is a   *)
(* spend that was broadcast, its secret public, but that is not mined yet.    *)
EXTENDS Integers

CONSTANTS
  LockDuration,      \* lock_duration: the taker payment is locked this long
  MaxStartedAtDiff,  \* MAX_STARTED_AT_DIFF, 60 s
  RecvWait,          \* budget of a receive: NEGOTIATION_TIMEOUT_SEC and grace
  SpendDelay,        \* bound: a spend is mined within this time
  StartBy,           \* bound: both roles have started at this time
  MaxTime,           \* bound of the clock
  CoinErrors         \* do calls of the coin layer fail for no visible reason?

ASSUME ChainAssumption ==
  /\ LockDuration \in Nat \ {0}
  /\ MaxStartedAtDiff \in Nat
  /\ RecvWait \in Nat
  /\ SpendDelay \in Nat
  /\ StartBy \in Nat
  /\ MaxTime \in Nat
  /\ CoinErrors \in BOOLEAN

VARIABLES
  now,            \* the time
  net,            \* messages broadcast so far, <<kind, funding>>
  funding,        \* state of the last funding output that the taker sent
  fundings,       \* funding transactions ever sent
  takerPayment,   \* state of the taker payment
  makerPayment,   \* state of the last maker payment that the maker sent
  makerPayments,  \* maker payment transactions ever sent
  takerSpendAt,   \* when the spend of the taker payment was broadcast
  makerSpendAt,   \* when the spend of the maker payment was broadcast
  startedAt,      \* started_at of each role
  mFunding,       \* which funding transaction the maker was told of
  tPreimage,      \* for which funding transaction the taker got a preimage
  preimageSkipped \* skip_taker_payment_spend_preimage() of the taker coin

fundingVars == <<funding, fundings>>
makerPayVars == <<makerPayment, makerPayments, makerSpendAt>>
takerPayVars == <<takerPayment, takerSpendAt>>
chainVars == <<fundingVars, makerPayVars, takerPayVars>>
noteVars == <<startedAt, mFunding, tPreimage, preimageSkipped>>

Role == {"maker", "taker"}

PayState == {"none", "unconfirmed", "confirmed", "spending", "spent", "refunded"}

FundingState == {"none", "unconfirmed", "confirmed", "transferred", "reclaimed"}

Unspent(pay) == pay \in {"unconfirmed", "confirmed"}

SpendSeen(pay) == pay \in {"spending", "spent"}

(* A message is repeated while its state lasts, over a network that loses,    *)
(* delays and duplicates: it is received at any later time, or never.         *)
Broadcast(kind, tx) == net' = net \cup {<<kind, tx>>}

Received(kind, tx) == <<kind, tx>> \in net

(* The lock times, and the deadlines of the waits for confirmations.          *)
taker_payment_locktime == startedAt["taker"] + LockDuration

maker_payment_locktime == startedAt["maker"] + 2 * LockDuration

maker_payment_conf_timeout == startedAt["taker"] + LockDuration \div 3

taker_payment_conf_timeout == startedAt["maker"] + (LockDuration * 2) \div 3

ConfirmedBy(pay, deadline) == pay \in {"confirmed", "spending", "spent", "refunded"} /\ now <= deadline

(* The spend of a payment with the secret it carries.  The chain may accept a *)
(* second time what is only in its pool, and rejects what is mined.           *)
SpendTakerPayment ==
  \/ takerPayment = "confirmed" /\ takerPayment' = "spending" /\ takerSpendAt' = now
  \/ takerPayment = "spending" /\ UNCHANGED takerPayVars

SpendMakerPayment ==
  \/ /\ Unspent(makerPayment)
     /\ makerPayment' = "spending"
     /\ makerSpendAt' = now
     /\ UNCHANGED makerPayments
  \/ makerPayment = "spending" /\ UNCHANGED makerPayVars

(* A refund after the lock time takes what is not spent; a spend that is only *)
(* broadcast may lose to it.                                                  *)
RefundMakerPayment ==
  /\ makerPayment \in {"unconfirmed", "confirmed", "spending", "refunded"}
  /\ makerPayment' = "refunded"
  /\ UNCHANGED <<makerPayments, makerSpendAt>>

RefundTakerPayment ==
  /\ takerPayment \in {"unconfirmed", "confirmed", "spending", "refunded"}
  /\ takerPayment' = "refunded"
  /\ UNCHANGED takerSpendAt

(* The funding goes to the taker payment, or back to the taker.               *)
SpendFunding ==
  \/ /\ Unspent(funding)
     /\ funding' = "transferred"
     /\ takerPayment' = "unconfirmed"
     /\ UNCHANGED <<fundings, takerSpendAt>>
  \/ /\ funding = "transferred"
     /\ takerPayment = "unconfirmed"
     /\ UNCHANGED <<fundingVars, takerPayVars>>

ReclaimFunding ==
  /\ Unspent(funding) \/ funding = "reclaimed"
  /\ funding' = "reclaimed"
  /\ UNCHANGED fundings

Mined ==
  /\ \/ funding = "unconfirmed" /\ funding' = "confirmed" /\ UNCHANGED <<takerPayment, makerPayment>>
     \/ takerPayment = "unconfirmed" /\ takerPayment' = "confirmed" /\ UNCHANGED <<funding, makerPayment>>
     \/ takerPayment = "spending" /\ takerPayment' = "spent" /\ UNCHANGED <<funding, makerPayment>>
     \/ makerPayment = "unconfirmed" /\ makerPayment' = "confirmed" /\ UNCHANGED <<funding, takerPayment>>
     \/ makerPayment = "spending" /\ makerPayment' = "spent" /\ UNCHANGED <<funding, takerPayment>>
  /\ UNCHANGED <<fundings, makerPayments, takerSpendAt, makerSpendAt>>

ChainInit ==
  /\ now = 0
  /\ net = {}
  /\ funding = "none"
  /\ fundings = 0
  /\ takerPayment = "none"
  /\ makerPayment = "none"
  /\ makerPayments = 0
  /\ takerSpendAt = 0
  /\ makerSpendAt = 0
  /\ startedAt = [r \in Role |-> 0]
  /\ mFunding = 0
  /\ tPreimage = 0
  /\ preimageSkipped \in BOOLEAN

ChainTypeOK ==
  /\ now \in Nat
  /\ funding \in FundingState
  /\ fundings \in Nat
  /\ takerPayment \in PayState
  /\ makerPayment \in PayState
  /\ makerPayments \in Nat
  /\ takerSpendAt \in Nat
  /\ makerSpendAt \in Nat
  /\ startedAt \in [Role -> Nat]
  /\ mFunding \in Nat
  /\ tPreimage \in Nat
  /\ preimageSkipped \in BOOLEAN
=============================================================================
