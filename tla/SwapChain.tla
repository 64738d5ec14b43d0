----------------------------- MODULE SwapChain -----------------------------
(* What the two roles of a legacy atomic swap share: the wall clock, the      *)
(* swap topic of the p2p network, and the two hash-time-locked payments as    *)
(* the coin layer shows them to the swap code.                                *)
(*                                                                            *)
(* A payment is a transaction locked until a lock time: the receiver spends   *)
(* it with the secret, its sender refunds it once the lock time has passed.   *)
(* A payment moves                                                            *)
(*                                                                            *)
(*   none -> unconfirmed -> confirmed -> spending -> spent                    *)
(*                                                                            *)
(* and to refunded from any state in which its output is still unspent on     *)
(* chain.  "spending" is a spend that was broadcast, so that the secret it    *)
(* carries is public, but that is not mined yet.                              *)
EXTENDS Integers, FiniteSets

CONSTANTS
  LockDuration,   \* lock_duration: the taker payment is locked this long
  MaxTimeDif,     \* 60 s: how far the two started_at may be apart
  RefundGrace,    \* 3700 s: added to a lock time before a refund is given up
  NegotiationWait,\* budget of a negotiation receive, the 90 s grace included
  FeeWait,        \* budget of the fee and payment receives, grace included
  CommGrace,      \* BASIC_COMM_TIMEOUT
  SpendDelay,     \* bound: a spend is mined within this time of its broadcast
  MaxAway,        \* bound: how long the taker stays down once it could claim
  StartBy,        \* bound: both roles have started at this time
  RestartBy,      \* bound: crashes happen, and are repaired, before this time
  Crashers,       \* bound: the roles whose process may stop
  MaxTime,        \* bound of the clock
  CoinErrors,     \* do calls of the coin layer fail for no visible reason?
  RandomHtlcKey   \* coin.htlc_key_is_random_per_swap(), of both coins

ASSUME ConstantsAssumption ==
  /\ LockDuration \in Nat \ {0}
  /\ MaxTimeDif \in Nat
  /\ RefundGrace \in Nat
  /\ NegotiationWait \in Nat
  /\ FeeWait \in Nat
  /\ CommGrace \in Nat
  /\ SpendDelay \in Nat
  /\ MaxAway \in Nat
  /\ StartBy \in Nat
  /\ RestartBy \in Nat
  /\ Crashers \subseteq {"maker", "taker"}
  /\ MaxTime \in Nat
  /\ CoinErrors \in BOOLEAN
  /\ RandomHtlcKey \in BOOLEAN

VARIABLES
  now,           \* seconds since the trade was matched
  net,           \* kinds of swap messages broadcast so far
  makerPayment,  \* state of the maker payment on the maker coin's chain
  takerPayment,  \* state of the taker payment on the taker coin's chain
  makerTxs,      \* maker payment transactions ever sent, counted up to 2
  takerTxs,      \* taker payment transactions ever sent, counted up to 2
  takerFees,     \* taker fee transactions ever sent, counted up to 2
  makerSpendAt,  \* when the spend of the maker payment was broadcast
  takerSpendAt,  \* when the spend of the taker payment was broadcast
  away           \* time the taker was down while it could claim

chainVars == <<makerPayment, takerPayment, makerTxs, takerTxs, takerFees, makerSpendAt, takerSpendAt>>

MsgKind == {"Negotiation", "NegotiationReply", "Negotiated", "TakerFee", "MakerPayment", "TakerPayment"}

PayState == {"none", "unconfirmed", "confirmed", "spending", "spent", "refunded"}

(* Messages are repeated until an answer arrives, over a network that loses,  *)
(* delays and duplicates them: once broadcast, a message may be received at   *)
(* any later time, any number of times, or never.                             *)
Broadcast(kind) == net' = net \cup {kind}

Received(kind) == kind \in net

(* check_if_my_payment_sent finds a payment by its script, mined or not.      *)
PaymentFound(txs) == txs > 0

(* What a search for a spend of a payment's output can find.                  *)
Unspent(pay) == pay \in {"unconfirmed", "confirmed"}

SpendSeen(pay) == pay \in {"spending", "spent"}

Counted(n) == IF n < 2 THEN n + 1 ELSE n

(* A refund is valid once the lock time has passed and nothing has spent the  *)
(* payment.  A spend that is only broadcast may still lose to it.             *)
CanRefund(pay, lock) == now >= lock /\ pay \in {"unconfirmed", "confirmed", "spending"}

(* wait_for_confirmations gives up at its deadline, and is asked before it.   *)
ConfirmedBy(pay, deadline) ==
  pay \in {"confirmed", "spending", "spent", "refunded"} /\ now <= deadline

ChainInit ==
  /\ now = 0
  /\ net = {}
  /\ makerPayment = "none"
  /\ takerPayment = "none"
  /\ makerTxs = 0
  /\ takerTxs = 0
  /\ takerFees = 0
  /\ makerSpendAt = 0
  /\ takerSpendAt = 0
  /\ away = 0

(* The chains mine what was broadcast.                                        *)
MakerPaymentMined ==
  /\ \/ makerPayment = "unconfirmed" /\ makerPayment' = "confirmed"
     \/ makerPayment = "spending" /\ makerPayment' = "spent"
  /\ UNCHANGED <<takerPayment, makerTxs, takerTxs, takerFees, makerSpendAt, takerSpendAt, now, net, away>>

TakerPaymentMined ==
  /\ \/ takerPayment = "unconfirmed" /\ takerPayment' = "confirmed"
     \/ takerPayment = "spending" /\ takerPayment' = "spent"
  /\ UNCHANGED <<makerPayment, makerTxs, takerTxs, takerFees, makerSpendAt, takerSpendAt, now, net, away>>

ChainTypeOK ==
  /\ now \in Nat
  /\ net \subseteq MsgKind
  /\ makerPayment \in PayState
  /\ takerPayment \in PayState
  /\ makerTxs \in 0..2
  /\ takerTxs \in 0..2
  /\ takerFees \in 0..2
  /\ makerSpendAt \in Nat
  /\ takerSpendAt \in Nat
  /\ away \in Nat
=============================================================================
