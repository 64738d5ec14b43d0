----------------------------- MODULE LegacySwap -----------------------------
(* The maker and the taker of one legacy swap, the two chains, the network    *)
(* and the clock.                                                             *)
EXTENDS MakerSwap, TakerSwap

(* The time the handlers leave between the last moment the maker spends the   *)
(* taker payment and the taker payment's lock time, a fifth of lock_duration, *)
(* covers the mining of the spend and the difference of the two clocks.       *)
ASSUME MarginAssumption == SpendDelay + MaxTimeDif + (4 * LockDuration) \div 5 < LockDuration

vars == <<now, net, chainVars, away, makerVars, takerVars>>

(* A taker that is down while the maker payment could be claimed by it.       *)
TakerMissesClaim == tPc = "down" /\ SpendSeen(takerPayment) /\ Unspent(makerPayment)

(* The clock advances once everything that is due has happened.  Two bounds   *)
(* are facts about the world and not about the code: a spend that was         *)
(* broadcast is mined within SpendDelay, and a taker that could claim the     *)
(* maker payment is down for MaxAway at most.                                 *)
Tick ==
  /\ now < MaxTime
  /\ ~MakerMustAct
  /\ ~TakerMustAct
  /\ makerPayment = "spending" => now < makerSpendAt + SpendDelay
  /\ takerPayment = "spending" => now < takerSpendAt + SpendDelay
  /\ TakerMissesClaim => away < MaxAway
  /\ now' = now + 1
  /\ away' = IF TakerMissesClaim THEN away + 1 ELSE away
  /\ UNCHANGED <<net, chainVars, makerVars, takerVars>>

MakerStep ==
  \/ MakerStart
  \/ MakerNegotiate
  \/ MakerNegotiateRecv(tStartedAt)
  \/ MakerWaitForTakerFee
  \/ MakerTakerFeeRecv
  \/ MakerSendPayment
  \/ MakerWaitForTakerPayment
  \/ MakerPaymentConfirm
  \/ MakerTakerPaymentRecv
  \/ MakerValidateTakerPayment
  \/ MakerSpendTakerPayment
  \/ MakerConfirmTakerPaymentSpend
  \/ MakerRefundMakerPayment
  \/ MakerFinish
  \/ MakerSaveEvent

TakerStep ==
  \/ TakerStart
  \/ TakerNegotiate
  \/ TakerNegotiateRecv(mStartedAt)
  \/ TakerNegotiateAck
  \/ TakerSendTakerFee
  \/ TakerWaitForMakerPayment
  \/ TakerMakerPaymentRecv
  \/ TakerValidateMakerPayment
  \/ TakerSendTakerPayment
  \/ TakerWaitForTakerPaymentSpend
  \/ TakerPaymentConfirm
  \/ TakerPaymentSpendFound
  \/ TakerSpendMakerPayment
  \/ TakerRefundTakerPayment
  \/ TakerRefundWaitLook
  \/ TakerRefundSend
  \/ TakerFinish
  \/ TakerSaveEvent

ChainStep ==
  /\ MakerPaymentMined \/ TakerPaymentMined
  /\ UNCHANGED <<makerVars, takerVars>>

MakerRuns ==
  /\ MakerStep \/ MakerKickStart \/ MakerRecoverFunds
  /\ UNCHANGED <<now, away, takerVars>>

TakerRuns ==
  /\ TakerStep \/ TakerKickStart \/ TakerRecoverFunds
  /\ UNCHANGED <<now, away, makerVars>>

Crash ==
  /\ \/ MakerCrash /\ UNCHANGED takerVars
     \/ TakerCrash /\ UNCHANGED makerVars
  /\ UNCHANGED <<now, away>>

(* Both runs of the swap are over.                                            *)
Over == mPc \in {"end", "lost"} /\ tPc \in {"end", "lost"}

Done == Over /\ UNCHANGED vars

Init == ChainInit /\ MakerInit /\ TakerInit

Next == MakerRuns \/ TakerRuns \/ Crash \/ ChainStep \/ Tick \/ Done

Spec == Init /\ [][Next]_vars

(* The executor keeps polling the two futures, a node that was stopped is     *)
(* started again and its user recovers what can be recovered, blocks are      *)
(* mined and time passes.  Nothing is assumed about the delivery of messages  *)
(* or about crashes.                                                          *)
Fairness == WF_vars(MakerRuns) /\ WF_vars(TakerRuns) /\ WF_vars(ChainStep) /\ WF_vars(Tick)

FairSpec == Spec /\ Fairness

-----------------------------------------------------------------------------
(* Every variable has its type; in particular the lock times and deadlines    *)
(* that the two roles compute from their start are times.                     *)
TypeOK == ChainTypeOK /\ MakerTypeOK /\ TakerTypeOK

(* The maker never pays the taker without being paid: the taker payment is    *)
(* not refunded once the maker payment was claimed.  The deadlines in the     *)
(* handlers leave the maker's spend enough time to be mined before the taker  *)
(* payment's lock time.                                                       *)
MakerNeverLosesBoth == ~(SpendSeen(makerPayment) /\ takerPayment = "refunded")

(* The argument for it, strong enough to be inductive.  Beyond the            *)
(* negotiation the two start times are close, and stay what they are.         *)
Early == {"Start", "Negotiate", "Finish", "None"}

EarlyEvent == {"Started", "StartFailed", "NegotiateFailed", "Finished"}

StartsFixed ==
  /\ mStartedAt - tStartedAt \in -MaxTimeDif..MaxTimeDif
  /\ mCmd # "Start"
  /\ tCmd # "Start"

MakerPastNegotiation ==
  \/ mCmd \notin Early
  \/ mNext \notin Early
  \/ \E e \in mLog : e \notin EarlyEvent
  \/ \E i \in DOMAIN mOut : mOut[i] \notin EarlyEvent

NegotiatedInv ==
  /\ mNext # "Start"
  /\ tNext # "Start"
  /\ "NegotiationReply" \in net => tCmd # "Start"
  /\ mLast \in mLog \cup {"none"}
  /\ tLast \in tLog \cup {"none"}
  /\ MakerPastNegotiation => StartsFixed

(* A spend of the taker payment is broadcast in time, and is mined in time.   *)
SpendInTimeInv ==
  takerPayment = "spending" =>
    /\ StartsFixed
    /\ takerSpendAt <= TakerPaymentSpendBy
    /\ now <= takerSpendAt + SpendDelay

(* The taker has the secret from the maker's spend only.                      *)
TakerKnowsSecret ==
  \/ "SpendMakerPayment" \in {tCmd, tNext}
  \/ "TakerPaymentSpent" \in tLog
  \/ \E i \in DOMAIN tOut : tOut[i] = "TakerPaymentSpent"
  \/ SpendSeen(makerPayment)

SecretInv == TakerKnowsSecret => SpendSeen(takerPayment)

(* A payment that was sent is counted.                                        *)
CountedInv == (makerPayment = "none" <=> makerTxs = 0) /\ (takerPayment = "none" <=> takerTxs = 0)

MakerSafetyInv == NegotiatedInv /\ SpendInTimeInv /\ SecretInv /\ CountedInv

(* The swap is one the abstract specification allows.  The claim of the taker *)
(* payment counts from its broadcast, because the secret is public then, the  *)
(* claim of the maker payment once it is mined.                               *)
Abstract(pay, claimed) ==
  IF pay = "none" THEN "none"
  ELSE IF pay = "refunded" THEN "reclaimed"
  ELSE IF pay \in claimed THEN "claimed"
  ELSE "locked"

Atomic == INSTANCE AtomicSwap WITH
  maker <- Abstract(makerPayment, {"spent"}),
  taker <- Abstract(takerPayment, {"spending", "spent"})

(* The legacy swap implements the abstract one: its handlers lock, claim and  *)
(* reclaim the two payments in no other order.                                *)
SwapIsAtomic == Atomic!Spec

(* The argument for it, beside MakerSafetyInv.  A maker payment is sent, and  *)
(* refunded, by the maker's lock time; the taker pays only against one that   *)
(* it has seen confirmed.                                                     *)
TakerTrustsPayment ==
  \/ "SendTakerPayment" \in {tCmd, tNext}
  \/ "MakerPaymentValidatedAndConfirmed" \in tLog
  \/ \E i \in DOMAIN tOut : tOut[i] = "MakerPaymentValidatedAndConfirmed"

PaidInv ==
  /\ makerPayment # "none" => StartsFixed
  /\ makerPayment = "refunded" => now >= maker_payment_lock
  /\ TakerTrustsPayment \/ takerPayment # "none" => makerPayment # "none"

(* The taker never pays the maker without being paid: the maker payment is    *)
(* not refunded once the maker claimed the taker payment, because a taker in  *)
(* its wait or in its refund chain finds that spend.                          *)
TakerNeverLosesBoth == ~(SpendSeen(takerPayment) /\ makerPayment = "refunded")

(* No payment is sent twice, whenever a process stops and resumes between     *)
(* sending it and saving that it was sent.                                    *)
PaymentsSentOnce == makerTxs <= 1 /\ takerTxs <= 1

(* The argument for it: a process that started the swap itself and has not    *)
(* come to the end of the send has sent nothing.                              *)
MakerBeforeSend == {"Start", "Negotiate", "WaitForTakerFee", "SendPayment"}

TakerBeforeSend ==
  {"Start", "Negotiate", "SendTakerFee", "WaitForMakerPayment", "ValidateMakerPayment", "SendTakerPayment"}

SentOnceInv ==
  /\ PaymentsSentOnce
  /\ mFresh /\ (IF mPc = "save" THEN mNext ELSE mCmd) \in MakerBeforeSend => makerTxs = 0
  /\ tFresh /\ (IF tPc = "save" THEN tNext ELSE tCmd) \in TakerBeforeSend => takerTxs = 0
  /\ mFresh => mPc # "down"
  /\ tFresh => tPc # "down"

(* A swap that ends with a payment of the maker left on chain and nothing     *)
(* received for it is reported as recoverable, and recover_funds accepts it.  *)
MakerLeftoverIsRecoverable ==
  mPc = "end" /\ Unspent(makerPayment) /\ ~SpendSeen(takerPayment) => MakerIsRecoverable /\ MakerMayRecover

(* The same for the taker, whose leftover is its own payment or, once the     *)
(* maker has taken that, the maker payment.                                   *)
TakerLeftoverIsRecoverable ==
  tPc = "end" /\ (Unspent(takerPayment) \/ (SpendSeen(takerPayment) /\ Unspent(makerPayment)))
    => TakerIsRecoverable /\ TakerMayRecover

(* The data that a maker's handler unwraps was saved before the command runs, *)
(* also when a restart chose the command.                                     *)
MakerDataPresent ==
  /\ mCmd \in {"WaitForTakerPayment", "RefundMakerPayment"} => "MakerPaymentSent" \in mLog
  /\ mCmd \in {"ValidateTakerPayment", "SpendTakerPayment"} => "TakerPaymentReceived" \in mLog
  /\ mCmd = "ConfirmTakerPaymentSpend" => "TakerPaymentSpent" \in mLog

(* The data that a taker's handler unwraps, and the secret it spends with.    *)
TakerDataPresent ==
  /\ tCmd = "WaitForMakerPayment" => "TakerFeeSent" \in tLog
  /\ tCmd \in {"ValidateMakerPayment", "SpendMakerPayment"} => "MakerPaymentReceived" \in tLog
  /\ tCmd \in {"WaitForTakerPaymentSpend", "RefundTakerPayment"} => "TakerPaymentSent" \in tLog
  /\ tCmd = "SpendMakerPayment" => "TakerPaymentSpent" \in tLog

(* The secret is published before four fifths of lock_duration have passed    *)
(* and never by a maker that has turned to its refund, whatever restarts      *)
(* happen in between; later only once the taker holds the maker payment.      *)
MakerRevealsSecretInTime ==
  [][takerPayment' = "spending" /\ takerPayment # "spending" =>
       \/ now <= mStartedAt + (4 * LockDuration) \div 5 /\ "MakerPaymentWaitRefundStarted" \notin mLog
       \/ SpendSeen(makerPayment)]_vars

(* If the processes stop crashing, no payment stays on chain for ever: it is  *)
(* claimed, or refunded by the handlers or by recover_funds_of_swap.          *)
FundsSettle == <>[][~Crash]_vars => <>[](~Unspent(makerPayment) /\ ~Unspent(takerPayment))

=============================================================================
