-------------------------- MODULE LegacySwapProofs ---------------------------
(* The types of LegacySwap, that no payment is sent twice, that the maker     *)
(* does not lose both payments, and that the swap implements AtomicSwap; and  *)
(* what the saved events of the maker are good for: a command that runs, or   *)
(* that a restart chooses, finds the data it unwraps, a swap that ends with   *)
(* funds on chain can be recovered, and the secret is published in time.      *)
(* All of it for every lock duration, clock difference and mining delay that  *)
(* satisfy the assumptions of the modules.                                    *)
EXTENDS LegacySwap, TLAPS

(* What handle_command returns for the maker, one event or two, is well typed. *)
LEMMA MakerReturnsOne ==
  ASSUME MakerTypeOK, NEW next \in MakerSwapCommand, NEW e \in MakerSwapEvent,
         MakerReturns(next, <<e>>), mStartedAt' \in Nat
  PROVE  MakerTypeOK'
<1>1. <<e>> \in Seq(MakerSwapEvent) /\ <<e>> # <<>>
  OBVIOUS
<1>2. QED
  BY Zenon, <1>1 DEF MakerTypeOK, MakerReturns, MakerPc

(* The same for a handler of the maker that returns two events.               *)
LEMMA MakerReturnsTwo ==
  ASSUME MakerTypeOK, NEW next \in MakerSwapCommand, NEW e \in MakerSwapEvent, NEW f \in MakerSwapEvent,
         MakerReturns(next, <<e, f>>), mStartedAt' \in Nat
  PROVE  MakerTypeOK'
<1>1. <<e, f>> \in Seq(MakerSwapEvent) /\ <<e, f>> # <<>>
  OBVIOUS
<1>2. QED
  BY Zenon, <1>1 DEF MakerTypeOK, MakerReturns, MakerPc

(* A failure that sends the maker into its refund chain is well typed.        *)
LEMMA MakerRefundsAfterType ==
  ASSUME MakerTypeOK, NEW e \in MakerSwapEvent, MakerRefundsAfter(e), mStartedAt' \in Nat
  PROVE  MakerTypeOK'
<1>1. "RefundMakerPayment" \in MakerSwapCommand /\ "MakerPaymentWaitRefundStarted" \in MakerSwapEvent
  BY Zenon DEF MakerSwapCommand, MakerSwapEvent
<1>2. QED
  BY Zenon, <1>1, MakerReturnsTwo DEF MakerRefundsAfter

(* A wait inside a handler of the maker is well typed.                        *)
LEMMA MakerWaitsType ==
  ASSUME MakerTypeOK, NEW pc \in MakerPc \ {"save"}, NEW until \in Nat,
         MakerWaits(pc, until), mStartedAt' = mStartedAt
  PROVE  MakerTypeOK'
BY Zenon DEF MakerTypeOK, MakerWaits, MakerPc

(* The deadlines of the maker are times.                                      *)
LEMMA MakerDeadlines ==
  ASSUME MakerTypeOK
  PROVE  /\ MakerPaymentConfirmBy \in Nat
         /\ TakerPaymentSpendBy \in Nat
         /\ (3 * LockDuration) \div 5 \in Nat
         /\ mStartedAt \in Nat
BY ConstantsAssumption DEF MakerTypeOK, MakerPaymentConfirmBy, TakerPaymentSpendBy

(* Every step of run_maker_swap keeps the maker's state well typed.            *)
LEMMA MakerStepType ==
  ASSUME TypeOK, MakerStep
  PROVE  MakerTypeOK'
<1> USE DEF TypeOK
<1>1. CASE MakerStart
  BY Zenon, <1>1, MakerReturnsOne, MakerDeadlines DEF MakerStart, MakerSwapCommand, MakerSwapEvent, ChainTypeOK
<1>2. CASE MakerNegotiate
  <2>1. now + NegotiationWait \in Nat
    BY ConstantsAssumption DEF ChainTypeOK
  <2>2. QED
    BY Zenon, <1>2, <2>1, MakerWaitsType DEF MakerNegotiate, MakerPc
<1>3. CASE MakerNegotiateRecv(tStartedAt)
  BY Zenon, <1>3, MakerReturnsOne, MakerDeadlines DEF MakerNegotiateRecv, MakerSwapCommand, MakerSwapEvent
<1>4. CASE MakerWaitForTakerFee
  <2>1. now + FeeWait \in Nat
    BY ConstantsAssumption DEF ChainTypeOK
  <2>2. QED
    BY Zenon, <1>4, <2>1, MakerWaitsType DEF MakerWaitForTakerFee, MakerPc
<1>5. CASE MakerTakerFeeRecv
  BY Zenon, <1>5, MakerReturnsOne, MakerDeadlines DEF MakerTakerFeeRecv, MakerSwapCommand, MakerSwapEvent
<1>6. CASE MakerSendPayment
  BY Zenon, <1>6, MakerReturnsOne, MakerDeadlines DEF MakerSendPayment, MakerSwapCommand, MakerSwapEvent
<1>7. CASE MakerWaitForTakerPayment
  BY Zenon, <1>7, MakerWaitsType, MakerDeadlines DEF MakerWaitForTakerPayment, MakerPc
<1>8. CASE MakerPaymentConfirm
  <2>1. CASE MakerWaits("recv", now + (3 * LockDuration) \div 5 + CommGrace)
    <3>1. now + (3 * LockDuration) \div 5 + CommGrace \in Nat
      BY MakerDeadlines, ConstantsAssumption DEF ChainTypeOK
    <3>2. QED
      BY Zenon, <1>8, <2>1, <3>1, MakerWaitsType DEF MakerPaymentConfirm, MakerPc
  <2>2. CASE MakerRefundsAfter("MakerPaymentWaitConfirmFailed")
    BY Zenon, <1>8, <2>2, MakerRefundsAfterType, MakerDeadlines DEF MakerPaymentConfirm, MakerSwapEvent
  <2>3. QED
    BY Zenon, <1>8, <2>1, <2>2 DEF MakerPaymentConfirm
<1>9. CASE MakerTakerPaymentRecv
  BY <1>9, MakerReturnsTwo, MakerRefundsAfterType, MakerDeadlines, Zenon DEF MakerTakerPaymentRecv,
       MakerSwapCommand, MakerSwapEvent
<1>10. CASE MakerValidateTakerPayment
  BY Zenon, <1>10, MakerReturnsOne, MakerRefundsAfterType, MakerDeadlines DEF MakerValidateTakerPayment, MakerSwapCommand, MakerSwapEvent
<1>11. CASE MakerSpendTakerPayment
  BY <1>11, MakerReturnsTwo, MakerRefundsAfterType, MakerDeadlines, Zenon DEF MakerSpendTakerPayment,
       MakerSwapCommand, MakerSwapEvent
<1>12. CASE MakerConfirmTakerPaymentSpend
  BY Zenon, <1>12, MakerReturnsOne, MakerRefundsAfterType, MakerDeadlines DEF MakerConfirmTakerPaymentSpend, MakerSwapCommand, MakerSwapEvent
<1>13. CASE MakerRefundMakerPayment
  BY Zenon, <1>13, MakerReturnsOne, MakerDeadlines DEF MakerRefundMakerPayment, MakerSwapCommand, MakerSwapEvent
<1>14. CASE MakerFinish
  BY Zenon, <1>14, MakerReturnsOne, MakerDeadlines DEF MakerFinish, MakerSwapCommand, MakerSwapEvent
<1>15. CASE MakerSaveEvent
  <2>1. Head(mOut) \in MakerSwapEvent /\ Tail(mOut) \in Seq(MakerSwapEvent)
    BY <1>15 DEF MakerTypeOK, MakerSaveEvent
  <2>2. mLog' \subseteq MakerSwapEvent /\ mLast' \in MakerSwapEvent \cup {"none"} /\ mOut' \in Seq(MakerSwapEvent)
    BY Zenon, <1>15, <2>1 DEF MakerTypeOK, MakerSaveEvent
  <2>3. mCmd' \in MakerSwapCommand /\ mPc' \in MakerPc /\ mNext' \in MakerSwapCommand
    BY Zenon, <1>15 DEF MakerTypeOK, MakerSaveEvent, MakerPc, MakerSwapCommand
  <2>4. mPc' = "save" => mOut' # <<>>
    BY Zenon, <1>15 DEF MakerSaveEvent
  <2>5. QED
    BY Zenon, <1>15, <2>1, <2>2, <2>3, <2>4 DEF MakerTypeOK, MakerSaveEvent
<1>16. QED
  BY Zenon, <1>1, <1>2, <1>3, <1>4, <1>5, <1>6, <1>7, <1>8, <1>9, <1>10, <1>11, <1>12, <1>13, <1>14, <1>15 DEF MakerStep

(* What handle_command returns for the taker, one event or two, is well typed. *)
LEMMA TakerReturnsOne ==
  ASSUME TakerTypeOK, NEW next \in TakerSwapCommand, NEW e \in TakerSwapEvent,
         TakerReturns(next, <<e>>), tStartedAt' \in Nat
  PROVE  TakerTypeOK'
<1>1. <<e>> \in Seq(TakerSwapEvent) /\ <<e>> # <<>>
  OBVIOUS
<1>2. QED
  BY Zenon, <1>1 DEF TakerTypeOK, TakerReturns, TakerPc

(* The same for a handler of the taker that returns two events.               *)
LEMMA TakerReturnsTwo ==
  ASSUME TakerTypeOK, NEW next \in TakerSwapCommand, NEW e \in TakerSwapEvent, NEW f \in TakerSwapEvent,
         TakerReturns(next, <<e, f>>), tStartedAt' \in Nat
  PROVE  TakerTypeOK'
<1>1. <<e, f>> \in Seq(TakerSwapEvent) /\ <<e, f>> # <<>>
  OBVIOUS
<1>2. QED
  BY Zenon, <1>1 DEF TakerTypeOK, TakerReturns, TakerPc

(* A failure that sends the taker into its refund chain is well typed.        *)
LEMMA TakerRefundsAfterType ==
  ASSUME TakerTypeOK, NEW e \in TakerSwapEvent, TakerRefundsAfter(e), tStartedAt' \in Nat
  PROVE  TakerTypeOK'
<1>1. "RefundTakerPayment" \in TakerSwapCommand /\ "TakerPaymentWaitRefundStarted" \in TakerSwapEvent
  BY Zenon DEF TakerSwapCommand, TakerSwapEvent
<1>2. QED
  BY Zenon, <1>1, TakerReturnsTwo DEF TakerRefundsAfter

(* A wait inside a handler of the taker is well typed.                        *)
LEMMA TakerWaitsType ==
  ASSUME TakerTypeOK, NEW pc \in TakerPc \ {"save"}, NEW until \in Nat,
         TakerWaits(pc, until), tStartedAt' = tStartedAt
  PROVE  TakerTypeOK'
BY Zenon DEF TakerTypeOK, TakerWaits, TakerPc

(* The deadlines of the taker are times.                                      *)
LEMMA TakerDeadlines ==
  ASSUME TakerTypeOK
  PROVE  /\ TakerPaymentConfirmBy \in Nat
         /\ taker_payment_lock \in Nat
         /\ tStartedAt \in Nat
BY ConstantsAssumption DEF TakerTypeOK, TakerPaymentConfirmBy, taker_payment_lock

(* What refund_outcome_from_chain returns is well typed.                      *)
LEMMA TakerRefundOutcomeType ==
  ASSUME TakerTypeOK, TakerRefundOutcome, tStartedAt' \in Nat
  PROVE  TakerTypeOK'
BY Zenon, TakerReturnsOne DEF TakerRefundOutcome, TakerSwapCommand, TakerSwapEvent

(* Every step of run_taker_swap keeps the taker's state well typed.            *)
LEMMA TakerStepType ==
  ASSUME TypeOK, TakerStep
  PROVE  TakerTypeOK'
<1> USE DEF TypeOK
<1>1. CASE TakerStart
  BY Zenon, <1>1, TakerReturnsOne, TakerDeadlines DEF TakerStart, TakerSwapCommand, TakerSwapEvent, ChainTypeOK
<1>2. CASE TakerNegotiate
  <2>1. now + NegotiationWait \in Nat
    BY ConstantsAssumption DEF ChainTypeOK
  <2>2. QED
    BY Zenon, <1>2, <2>1, TakerWaitsType DEF TakerNegotiate, TakerPc
<1>3. CASE TakerNegotiateRecv(mStartedAt)
  <2>1. now + NegotiationWait \in Nat
    BY ConstantsAssumption DEF ChainTypeOK
  <2>2. CASE TakerWaits("ack", now + NegotiationWait)
    BY Zenon, <1>3, <2>1, <2>2, TakerWaitsType DEF TakerNegotiateRecv, TakerPc
  <2>3. CASE TakerReturns("Finish", <<"NegotiateFailed">>)
    BY Zenon, <1>3, <2>3, TakerReturnsOne, TakerDeadlines DEF TakerNegotiateRecv, TakerSwapCommand, TakerSwapEvent
  <2>4. QED
    BY Zenon, <1>3, <2>2, <2>3 DEF TakerNegotiateRecv
<1>4. CASE TakerNegotiateAck
  BY Zenon, <1>4, TakerReturnsOne, TakerDeadlines DEF TakerNegotiateAck, TakerSwapCommand, TakerSwapEvent
<1>5. CASE TakerSendTakerFee
  BY Zenon, <1>5, TakerReturnsOne, TakerDeadlines DEF TakerSendTakerFee, TakerSwapCommand, TakerSwapEvent
<1>6. CASE TakerWaitForMakerPayment
  <2>1. now + FeeWait \in Nat
    BY ConstantsAssumption DEF ChainTypeOK
  <2>2. QED
    BY Zenon, <1>6, <2>1, TakerWaitsType DEF TakerWaitForMakerPayment, TakerPc
<1>7. CASE TakerMakerPaymentRecv
  BY <1>7, TakerReturnsOne, TakerReturnsTwo, TakerDeadlines, ZenonT(40) DEF TakerMakerPaymentRecv,
       TakerSwapCommand, TakerSwapEvent
<1>8. CASE TakerValidateMakerPayment
  BY Zenon, <1>8, TakerReturnsOne, TakerDeadlines DEF TakerValidateMakerPayment, TakerSwapCommand, TakerSwapEvent
<1>9. CASE TakerSendTakerPayment
  BY Zenon, <1>9, TakerReturnsOne, TakerDeadlines DEF TakerSendTakerPayment, TakerSwapCommand, TakerSwapEvent
<1>10. CASE TakerWaitForTakerPaymentSpend
  BY Zenon, <1>10, TakerWaitsType, TakerDeadlines DEF TakerWaitForTakerPaymentSpend, TakerPc
<1>11. CASE TakerPaymentConfirm
  BY Zenon, <1>11, TakerWaitsType, TakerRefundsAfterType, TakerDeadlines DEF TakerPaymentConfirm, TakerPc, TakerSwapEvent
<1>12. CASE TakerPaymentSpendFound
  BY Zenon, <1>12, TakerReturnsOne, TakerRefundsAfterType, TakerDeadlines DEF TakerPaymentSpendFound, TakerSwapCommand, TakerSwapEvent
<1>13. CASE TakerSpendMakerPayment
  BY Zenon, <1>13, TakerReturnsOne, TakerDeadlines DEF TakerSpendMakerPayment, TakerSwapCommand, TakerSwapEvent
<1>14. CASE TakerRefundTakerPayment
  <2>1. CASE TakerWaits("gate", 0)
    BY Zenon, <1>14, <2>1, TakerWaitsType DEF TakerRefundTakerPayment, TakerPc
  <2>2. CASE TakerRefundOutcome
    BY Zenon, <1>14, <2>2, TakerRefundOutcomeType, TakerDeadlines DEF TakerRefundTakerPayment
  <2>3. QED
    BY Zenon, <1>14, <2>1, <2>2 DEF TakerRefundTakerPayment
<1>15. CASE TakerRefundWaitLook
  BY Zenon, <1>15, TakerRefundOutcomeType, TakerDeadlines DEF TakerRefundWaitLook
<1>16. CASE TakerRefundSend
  BY Zenon, <1>16, TakerReturnsOne, TakerRefundOutcomeType, TakerDeadlines DEF TakerRefundSend, TakerSwapCommand, TakerSwapEvent
<1>17. CASE TakerFinish
  BY Zenon, <1>17, TakerReturnsOne, TakerDeadlines DEF TakerFinish, TakerSwapCommand, TakerSwapEvent
<1>18. CASE TakerSaveEvent
  <2>1. Head(tOut) \in TakerSwapEvent /\ Tail(tOut) \in Seq(TakerSwapEvent)
    BY <1>18 DEF TakerTypeOK, TakerSaveEvent
  <2>2. tLog' \subseteq TakerSwapEvent /\ tLast' \in TakerSwapEvent \cup {"none"} /\ tOut' \in Seq(TakerSwapEvent)
    BY Zenon, <1>18, <2>1 DEF TakerTypeOK, TakerSaveEvent
  <2>3. tCmd' \in TakerSwapCommand /\ tPc' \in TakerPc /\ tNext' \in TakerSwapCommand
    BY Zenon, <1>18 DEF TakerTypeOK, TakerSaveEvent, TakerPc, TakerSwapCommand
  <2>4. tPc' = "save" => tOut' # <<>>
    BY Zenon, <1>18 DEF TakerSaveEvent
  <2>5. QED
    BY Zenon, <1>18, <2>1, <2>2, <2>3, <2>4 DEF TakerTypeOK, TakerSaveEvent
<1>19. QED
  BY Zenon, <1>1, <1>2, <1>3, <1>4, <1>5, <1>6, <1>7, <1>8, <1>9, <1>10, <1>11, <1>12, <1>13, <1>14, <1>15, <1>16, <1>17, <1>18 DEF TakerStep

(* A step of run_maker_swap keeps the chains and the network well typed.       *)
LEMMA MakerStepChainType ==
  ASSUME TypeOK, MakerStep, UNCHANGED <<now, away>>
  PROVE  ChainTypeOK'
<1> USE DEF TypeOK, ChainTypeOK
<1>1. CASE MakerStart \/ MakerNegotiateRecv(tStartedAt) \/ MakerTakerFeeRecv \/ MakerPaymentConfirm \/ MakerTakerPaymentRecv \/ MakerValidateTakerPayment \/ MakerConfirmTakerPaymentSpend \/ MakerFinish \/ MakerSaveEvent
  BY Zenon, <1>1 DEF chainVars, MakerStart, MakerNegotiateRecv, MakerTakerFeeRecv, MakerPaymentConfirm, MakerTakerPaymentRecv, MakerValidateTakerPayment, MakerConfirmTakerPaymentSpend, MakerFinish, MakerSaveEvent
<1>2. CASE MakerNegotiate \/ MakerWaitForTakerFee \/ MakerWaitForTakerPayment
  BY <1>2, Zenon DEF chainVars, Broadcast, MsgKind, MakerNegotiate, MakerWaitForTakerFee, MakerWaitForTakerPayment
<1>3. CASE MakerSendPayment
  BY <1>3 DEF MakerSendPayment, PayState, Counted
<1>4. CASE MakerSpendTakerPayment
  BY Zenon, <1>4 DEF MakerSpendTakerPayment, PayState, Counted
<1>5. CASE MakerRefundMakerPayment
  BY Zenon, <1>5 DEF MakerRefundMakerPayment, PayState, Counted
<1>6. QED
  BY Zenon, <1>1, <1>2, <1>3, <1>4, <1>5 DEF MakerStep

(* A step of run_taker_swap keeps the chains and the network well typed.       *)
LEMMA TakerStepChainType ==
  ASSUME TypeOK, TakerStep, UNCHANGED <<now, away>>
  PROVE  ChainTypeOK'
<1> USE DEF TypeOK, ChainTypeOK
<1>1. CASE TakerStart \/ TakerNegotiate \/ TakerNegotiateAck \/ TakerMakerPaymentRecv \/ TakerValidateMakerPayment \/ TakerPaymentConfirm \/ TakerPaymentSpendFound \/ TakerRefundTakerPayment \/ TakerRefundWaitLook \/ TakerFinish \/ TakerSaveEvent
  BY Zenon, <1>1 DEF chainVars, TakerStart, TakerNegotiate, TakerNegotiateAck, TakerMakerPaymentRecv, TakerValidateMakerPayment, TakerPaymentConfirm, TakerPaymentSpendFound, TakerRefundTakerPayment, TakerRefundWaitLook, TakerFinish, TakerSaveEvent
<1>2. CASE TakerNegotiateRecv(mStartedAt) \/ TakerWaitForMakerPayment \/ TakerWaitForTakerPaymentSpend
  BY <1>2, Zenon DEF chainVars, Broadcast, MsgKind, TakerNegotiateRecv, TakerWaitForMakerPayment,
       TakerWaitForTakerPaymentSpend
<1>3. CASE TakerSendTakerFee
  BY <1>3 DEF TakerSendTakerFee, PayState, Counted
<1>4. CASE TakerSendTakerPayment
  BY <1>4 DEF TakerSendTakerPayment, PayState, Counted
<1>5. CASE TakerSpendMakerPayment
  BY Zenon, <1>5 DEF TakerSpendMakerPayment, PayState, Counted
<1>6. CASE TakerRefundSend
  BY Zenon, <1>6 DEF TakerRefundSend, PayState, Counted
<1>7. QED
  BY Zenon, <1>1, <1>2, <1>3, <1>4, <1>5, <1>6 DEF TakerStep

(* A restart of the maker, and recover_funds on its swap, keep it well typed. *)
LEMMA MakerRestartType ==
  ASSUME TypeOK, MakerKickStart \/ MakerRecoverFunds, UNCHANGED <<now, away>>
  PROVE  MakerTypeOK' /\ ChainTypeOK'
<1> USE DEF TypeOK
<1>1. CASE MakerKickStart
  <2>1. MakerTypeOK'
    BY Zenon, <1>1 DEF MakerTypeOK, MakerKickStart, MakerPc, MakerGetCommand, MakerSwapCommand
  <2>2. QED
    BY Zenon, <1>1, <2>1 DEF MakerKickStart, ChainTypeOK, chainVars
<1>2. CASE MakerRecoverFunds
  BY Zenon, <1>2 DEF MakerRecoverFunds, makerVars, MakerTypeOK, ChainTypeOK, PayState
<1>3. QED
  BY Zenon, <1>1, <1>2

(* A restart of the taker, and recover_funds on its swap, keep it well typed. *)
LEMMA TakerRestartType ==
  ASSUME TypeOK, TakerKickStart \/ TakerRecoverFunds, UNCHANGED <<now, away>>
  PROVE  TakerTypeOK' /\ ChainTypeOK'
<1> USE DEF TypeOK
<1>1. CASE TakerKickStart
  <2>1. TakerTypeOK'
    BY Zenon, <1>1 DEF TakerTypeOK, TakerKickStart, TakerPc, TakerGetCommand, TakerSwapCommand
  <2>2. QED
    BY Zenon, <1>1, <2>1 DEF TakerKickStart, ChainTypeOK, chainVars
<1>2. CASE TakerRecoverFunds
  BY Zenon, <1>2 DEF TakerRecoverFunds, takerVars, TakerTypeOK, ChainTypeOK, PayState
<1>3. QED
  BY Zenon, <1>1, <1>2

(* A role that takes no step stays well typed.                                *)
LEMMA MakerIdleType == ASSUME MakerTypeOK, UNCHANGED makerVars PROVE MakerTypeOK'
BY Zenon DEF MakerTypeOK, makerVars

(* The same for the taker.                                                    *)
LEMMA TakerIdleType == ASSUME TakerTypeOK, UNCHANGED takerVars PROVE TakerTypeOK'
BY Zenon DEF TakerTypeOK, takerVars

(* Every step of the swap, crashes and restarts included, is well typed.      *)
LEMMA NextType == TypeOK /\ [Next]_vars => TypeOK'
<1> SUFFICES ASSUME TypeOK, [Next]_vars PROVE TypeOK'
  BY Zenon
<1>1. CASE MakerRuns
  BY Zenon, <1>1, MakerStepType, MakerStepChainType, MakerRestartType, TakerIdleType DEF MakerRuns, TypeOK
<1>2. CASE TakerRuns
  BY Zenon, <1>2, TakerStepType, TakerStepChainType, TakerRestartType, MakerIdleType DEF TakerRuns, TypeOK
<1>3. CASE Crash
  <2>1. ChainTypeOK'
    BY Zenon, <1>3 DEF Crash, MakerCrash, TakerCrash, chainVars, ChainTypeOK, TypeOK
  <2>2. CASE MakerCrash /\ UNCHANGED takerVars
    <3>1. MakerTypeOK'
      <4>1. mOut' \in Seq(MakerSwapEvent)
        BY <2>2 DEF MakerCrash
      <4>2. mCmd' \in MakerSwapCommand /\ mNext' \in MakerSwapCommand /\ mPc' \in MakerPc /\ mPc' # "save"
        BY Zenon, <2>2 DEF MakerCrash, MakerPc, MakerSwapCommand
      <4>3. mFresh' \in BOOLEAN /\ mUntil' \in Nat
        BY <2>2, Zenon DEF MakerCrash
      <4>4. UNCHANGED <<mLog, mLast, mStartedAt>>
        BY Zenon, <2>2 DEF MakerCrash
      <4>5. QED
        BY Zenon, <4>1, <4>2, <4>3, <4>4 DEF TypeOK, MakerTypeOK
    <3>2. QED
      BY Zenon, <2>1, <2>2, <3>1, TakerIdleType DEF TypeOK
  <2>3. CASE TakerCrash /\ UNCHANGED makerVars
    <3>1. TakerTypeOK'
      <4>1. tOut' \in Seq(TakerSwapEvent)
        BY <2>3 DEF TakerCrash
      <4>2. tCmd' \in TakerSwapCommand /\ tNext' \in TakerSwapCommand /\ tPc' \in TakerPc /\ tPc' # "save"
        BY Zenon, <2>3 DEF TakerCrash, TakerPc, TakerSwapCommand
      <4>3. tFresh' \in BOOLEAN /\ tUntil' \in Nat
        BY <2>3, Zenon DEF TakerCrash
      <4>4. UNCHANGED <<tLog, tLast, tStartedAt>>
        BY Zenon, <2>3 DEF TakerCrash
      <4>5. QED
        BY Zenon, <4>1, <4>2, <4>3, <4>4 DEF TypeOK, TakerTypeOK
    <3>2. QED
      BY Zenon, <2>1, <2>3, <3>1, MakerIdleType DEF TypeOK
  <2>4. QED
    BY Zenon, <1>3, <2>2, <2>3 DEF Crash
<1>4. CASE ChainStep
  <2>1. ChainTypeOK'
    BY Zenon, <1>4 DEF ChainStep, MakerPaymentMined, TakerPaymentMined, ChainTypeOK, PayState, TypeOK
  <2>2. QED
    BY Zenon, <1>4, <2>1, MakerIdleType, TakerIdleType DEF ChainStep, TypeOK
<1>5. CASE Tick
  <2>1. ChainTypeOK'
    BY <1>5 DEF Tick, chainVars, ChainTypeOK, TypeOK
  <2>2. QED
    BY Zenon, <1>5, <2>1, MakerIdleType, TakerIdleType DEF Tick, TypeOK
<1>6. CASE UNCHANGED vars
  <2>1. ChainTypeOK'
    BY Zenon, <1>6 DEF vars, chainVars, ChainTypeOK, TypeOK
  <2>2. QED
    BY Zenon, <1>6, <2>1, MakerIdleType, TakerIdleType DEF vars, TypeOK
<1>7. QED
  BY Zenon, <1>1, <1>2, <1>3, <1>4, <1>5, <1>6 DEF Next, Done

(* A swap begins well typed.                                                  *)
LEMMA InitType == Init => TypeOK
<1> SUFFICES ASSUME Init PROVE TypeOK
  BY Zenon
<1>1. ChainTypeOK
  BY DEF Init, ChainInit, ChainTypeOK, PayState
<1>2. MakerTypeOK
  BY DEF Init, MakerInit, MakerTypeOK, MakerSwapCommand, MakerPc
<1>3. TakerTypeOK
  BY DEF Init, TakerInit, TakerTypeOK, TakerSwapCommand, TakerPc
<1>4. QED
  BY Zenon, <1>1, <1>2, <1>3 DEF TypeOK

(* The commands, events, deadlines and payment states of a swap stay what the *)
(* code declares them to be, whatever crashes, restarts and lost messages.    *)
THEOREM TypeCorrect == Spec => []TypeOK
BY InitType, NextType, PTL DEF Spec

-----------------------------------------------------------------------------
(* No payment is sent twice, for coins whose keys are random per swap and for *)
(* those whose keys are not.                                                  *)

(* The command a role stands at, or goes to once its events are saved.        *)
MakerHeads == IF mPc = "save" THEN mNext ELSE mCmd

TakerHeads == IF tPc = "save" THEN tNext ELSE tCmd

(* run_maker_swap comes to a stage before the send only from such a stage,    *)
(* and without sending.                                                       *)
LEMMA MakerStepHeads ==
  ASSUME TypeOK, MakerStep, MakerHeads' \in MakerBeforeSend
  PROVE  MakerHeads \in MakerBeforeSend /\ mFresh' = mFresh /\ makerTxs' = makerTxs
<1> USE DEF MakerHeads, MakerBeforeSend, MakerAt
<1>1. CASE MakerSaveEvent
  BY Zenon, <1>1 DEF MakerSaveEvent, TypeOK, MakerTypeOK, chainVars
<1>2. CASE MakerStart \/ MakerNegotiate \/ MakerNegotiateRecv(tStartedAt)
  BY Zenon, <1>2 DEF MakerStart, MakerNegotiate, MakerNegotiateRecv, MakerReturns, MakerWaits, chainVars
<1>3. CASE MakerWaitForTakerFee \/ MakerTakerFeeRecv
  BY Zenon, <1>3 DEF MakerWaitForTakerFee, MakerTakerFeeRecv, MakerReturns, MakerWaits, chainVars
<1>4. CASE MakerSendPayment
  BY Zenon, <1>4 DEF MakerSendPayment, MakerReturns
<1>5. CASE MakerWaitForTakerPayment \/ MakerPaymentConfirm \/ MakerTakerPaymentRecv
  BY Zenon, <1>5 DEF MakerWaitForTakerPayment, MakerPaymentConfirm, MakerTakerPaymentRecv, MakerReturns, MakerWaits,
       MakerRefundsAfter
<1>6. CASE MakerValidateTakerPayment \/ MakerConfirmTakerPaymentSpend \/ MakerFinish
  BY Zenon, <1>6 DEF MakerValidateTakerPayment, MakerConfirmTakerPaymentSpend, MakerFinish, MakerReturns, MakerRefundsAfter
<1>7. CASE MakerSpendTakerPayment \/ MakerRefundMakerPayment
  BY Zenon, <1>7 DEF MakerSpendTakerPayment, MakerRefundMakerPayment, MakerReturns, MakerRefundsAfter
<1>8. QED
  BY Zenon, <1>1, <1>2, <1>3, <1>4, <1>5, <1>6, <1>7 DEF MakerStep

(* The same for run_taker_swap.                                               *)
LEMMA TakerStepHeads ==
  ASSUME TypeOK, TakerStep, TakerHeads' \in TakerBeforeSend
  PROVE  TakerHeads \in TakerBeforeSend /\ tFresh' = tFresh /\ takerTxs' = takerTxs
<1> USE DEF TakerHeads, TakerBeforeSend, TakerAt
<1>1. CASE TakerSaveEvent
  BY Zenon, <1>1 DEF TakerSaveEvent, TypeOK, TakerTypeOK, chainVars
<1>2. CASE TakerStart \/ TakerNegotiate \/ TakerNegotiateRecv(mStartedAt) \/ TakerNegotiateAck
  BY Zenon, <1>2 DEF TakerStart, TakerNegotiate, TakerNegotiateRecv, TakerNegotiateAck, TakerReturns, TakerWaits, chainVars
<1>3. CASE TakerSendTakerFee
  BY Zenon, <1>3 DEF TakerSendTakerFee, TakerReturns
<1>4. CASE TakerWaitForMakerPayment \/ TakerMakerPaymentRecv \/ TakerValidateMakerPayment
  BY Zenon, <1>4 DEF TakerWaitForMakerPayment, TakerMakerPaymentRecv, TakerValidateMakerPayment, TakerReturns, TakerWaits,
       chainVars
<1>5. CASE TakerSendTakerPayment
  BY Zenon, <1>5 DEF TakerSendTakerPayment, TakerReturns
<1>6. CASE TakerWaitForTakerPaymentSpend \/ TakerPaymentConfirm \/ TakerPaymentSpendFound
  BY Zenon, <1>6 DEF TakerWaitForTakerPaymentSpend, TakerPaymentConfirm, TakerPaymentSpendFound, TakerReturns, TakerWaits,
       TakerRefundsAfter
<1>7. CASE TakerSpendMakerPayment \/ TakerFinish
  BY Zenon, <1>7 DEF TakerSpendMakerPayment, TakerFinish, TakerReturns
<1>8. CASE TakerRefundTakerPayment \/ TakerRefundWaitLook
  BY Zenon, <1>8 DEF TakerRefundTakerPayment, TakerRefundWaitLook, TakerRefundOutcome, TakerReturns, TakerWaits
<1>9. CASE TakerRefundSend
  BY Zenon, <1>9 DEF TakerRefundSend, TakerRefundOutcome, TakerReturns
<1>10. QED
  BY Zenon, <1>1, <1>2, <1>3, <1>4, <1>5, <1>6, <1>7, <1>8, <1>9 DEF TakerStep

(* A step of run_maker_swap leaves the process running.                      *)
LEMMA MakerStepUp == ASSUME TypeOK, MakerStep PROVE mPc' # "down" /\ (mFresh' = mFresh)
BY ZenonT(40) DEF MakerStep, MakerReturns, MakerWaits, MakerRefundsAfter, MakerStart, MakerNegotiate,
     MakerNegotiateRecv, MakerWaitForTakerFee, MakerTakerFeeRecv, MakerSendPayment, MakerWaitForTakerPayment,
     MakerPaymentConfirm, MakerTakerPaymentRecv, MakerValidateTakerPayment, MakerSpendTakerPayment,
     MakerConfirmTakerPaymentSpend, MakerRefundMakerPayment, MakerFinish, MakerSaveEvent

(* A step of run_taker_swap leaves the process running.                      *)
LEMMA TakerStepUp == ASSUME TypeOK, TakerStep PROVE tPc' # "down" /\ (tFresh' = tFresh)
BY Zenon DEF TakerStep, TakerReturns, TakerWaits, TakerRefundsAfter, TakerStart, TakerNegotiate,
     TakerNegotiateRecv, TakerNegotiateAck, TakerSendTakerFee, TakerWaitForMakerPayment,
     TakerMakerPaymentRecv, TakerValidateMakerPayment, TakerSendTakerPayment, TakerWaitForTakerPaymentSpend,
     TakerPaymentConfirm, TakerPaymentSpendFound, TakerSpendMakerPayment, TakerRefundTakerPayment,
     TakerRefundWaitLook, TakerRefundSend, TakerFinish, TakerSaveEvent, TakerRefundOutcome

(* A maker that does not find its payment on chain, or does not look because  *)
(* skips_already_sent_question allows it, has not sent it.                    *)
LEMMA MakerSendsOnce ==
  ASSUME TypeOK, SentOnceInv, MakerStep
  PROVE  makerTxs' <= 1 /\ takerTxs' = takerTxs
<1>1. makerTxs \in 0..2 /\ makerTxs <= 1
  BY Zenon DEF TypeOK, ChainTypeOK, SentOnceInv, PaymentsSentOnce
<1>2. CASE MakerSendPayment
  <2>1. MakerSkipsQuestion => makerTxs = 0
    BY Zenon, <1>2 DEF MakerSkipsQuestion, SentOnceInv, MakerBeforeSend, MakerSendPayment, MakerAt
  <2>2. QED
    BY <1>1, <1>2, <2>1 DEF MakerSendPayment, PaymentFound, Counted
<1>3. CASE MakerSpendTakerPayment \/ MakerRefundMakerPayment
  BY Zenon, <1>1, <1>3 DEF MakerSpendTakerPayment, MakerRefundMakerPayment
<1>4. CASE UNCHANGED chainVars
  BY Zenon, <1>1, <1>4 DEF chainVars
<1>5. QED
  BY Zenon, <1>2, <1>3, <1>4 DEF MakerStep, MakerStart, MakerNegotiate, MakerNegotiateRecv, MakerWaitForTakerFee,
       MakerTakerFeeRecv, MakerWaitForTakerPayment, MakerPaymentConfirm, MakerTakerPaymentRecv,
       MakerValidateTakerPayment, MakerConfirmTakerPaymentSpend, MakerFinish, MakerSaveEvent

(* The same for the taker's payment.                                          *)
LEMMA TakerSendsOnce ==
  ASSUME TypeOK, SentOnceInv, TakerStep
  PROVE  takerTxs' <= 1 /\ makerTxs' = makerTxs
<1>1. takerTxs \in 0..2 /\ takerTxs <= 1
  BY Zenon DEF TypeOK, ChainTypeOK, SentOnceInv, PaymentsSentOnce
<1>2. CASE TakerSendTakerPayment
  <2>1. TakerSkipsQuestion => takerTxs = 0
    BY Zenon, <1>2 DEF TakerSkipsQuestion, SentOnceInv, TakerBeforeSend, TakerSendTakerPayment, TakerAt
  <2>2. QED
    BY <1>1, <1>2, <2>1 DEF TakerSendTakerPayment, PaymentFound, Counted
<1>3. CASE TakerSendTakerFee \/ TakerSpendMakerPayment \/ TakerRefundSend
  BY Zenon, <1>1, <1>3 DEF TakerSendTakerFee, TakerSpendMakerPayment, TakerRefundSend
<1>4. CASE UNCHANGED chainVars
  BY Zenon, <1>1, <1>4 DEF chainVars
<1>5. QED
  BY Zenon, <1>2, <1>3, <1>4 DEF TakerStep, TakerStart, TakerNegotiate, TakerNegotiateRecv, TakerNegotiateAck,
       TakerWaitForMakerPayment, TakerMakerPaymentRecv, TakerValidateMakerPayment, TakerWaitForTakerPaymentSpend,
       TakerPaymentConfirm, TakerPaymentSpendFound, TakerRefundTakerPayment, TakerRefundWaitLook, TakerFinish,
       TakerSaveEvent

(* Every step keeps the two payments sent at most once.                       *)
LEMMA NextSentOnce == TypeOK /\ SentOnceInv /\ [Next]_vars => SentOnceInv'
<1> SUFFICES ASSUME TypeOK, SentOnceInv, [Next]_vars PROVE SentOnceInv'
  BY Zenon
<1>1. CASE MakerRuns /\ MakerStep
  <2>1. mFresh' /\ MakerHeads' \in MakerBeforeSend => makerTxs' = 0
    BY <1>1, MakerStepHeads, Zenon DEF SentOnceInv, MakerHeads
  <2>2. tFresh' /\ TakerHeads' \in TakerBeforeSend => takerTxs' = 0
    BY Zenon, <1>1, MakerSendsOnce DEF SentOnceInv, TakerHeads, MakerRuns, takerVars
  <2>3. QED
    BY Zenon, <1>1, <2>1, <2>2, MakerSendsOnce, MakerStepUp DEF SentOnceInv, PaymentsSentOnce, MakerHeads, TakerHeads,
         MakerRuns, takerVars
<1>2. CASE TakerRuns /\ TakerStep
  <2>1. tFresh' /\ TakerHeads' \in TakerBeforeSend => takerTxs' = 0
    BY <1>2, TakerStepHeads, Zenon DEF SentOnceInv, TakerHeads
  <2>2. mFresh' /\ MakerHeads' \in MakerBeforeSend => makerTxs' = 0
    BY Zenon, <1>2, TakerSendsOnce DEF SentOnceInv, MakerHeads, TakerRuns, makerVars
  <2>3. QED
    BY Zenon, <1>2, <2>1, <2>2, TakerSendsOnce, TakerStepUp DEF SentOnceInv, PaymentsSentOnce, MakerHeads, TakerHeads,
         TakerRuns, makerVars
<1>3. CASE MakerRuns /\ ~MakerStep
  BY <1>3 DEF SentOnceInv, PaymentsSentOnce, MakerRuns, MakerKickStart, MakerRecoverFunds, makerVars, takerVars,
       chainVars
<1>4. CASE TakerRuns /\ ~TakerStep
  BY <1>4 DEF SentOnceInv, PaymentsSentOnce, TakerRuns, TakerKickStart, TakerRecoverFunds, makerVars, takerVars,
       chainVars
<1>5. CASE Crash
  BY <1>5 DEF SentOnceInv, PaymentsSentOnce, Crash, MakerCrash, TakerCrash, makerVars, takerVars, chainVars
<1>6. CASE ChainStep
  BY Zenon, <1>6 DEF SentOnceInv, PaymentsSentOnce, ChainStep, MakerPaymentMined, TakerPaymentMined, makerVars, takerVars
<1>7. CASE Tick \/ Done \/ UNCHANGED vars
  BY <1>7 DEF SentOnceInv, PaymentsSentOnce, Tick, Done, vars, makerVars, takerVars, chainVars
<1>8. QED
  BY Zenon, <1>1, <1>2, <1>3, <1>4, <1>5, <1>6, <1>7 DEF Next

(* The argument for it is inductive.                                          *)
LEMMA SentOnceCorrect == Spec => []SentOnceInv
<1>1. Init => SentOnceInv
  BY DEF Init, ChainInit, MakerInit, TakerInit, SentOnceInv, PaymentsSentOnce
<1>2. QED
  BY <1>1, NextSentOnce, TypeCorrect, PTL DEF Spec

(* Neither payment is ever sent twice, although a process may stop between    *)
(* sending it and saving that it was sent, and although the question whether  *)
(* it was sent is skipped for coins with random keys.                         *)
THEOREM SentOnce == Spec => []PaymentsSentOnce
<1>1. SentOnceInv => PaymentsSentOnce
  BY Zenon DEF SentOnceInv
<1>2. QED
  BY <1>1, SentOnceCorrect, PTL

-----------------------------------------------------------------------------
(* A handler that returns one event leaves the negotiation behind only if     *)
(* that event or the next command belongs to a later stage.                   *)
LEMMA PastNegotiationOne ==
  ASSUME NEW next, NEW e, MakerReturns(next, <<e>>), next \in Early, e \in EarlyEvent
  PROVE  MakerPastNegotiation' => MakerPastNegotiation
BY DEF MakerReturns, MakerPastNegotiation

(* What a handler leaves alone when it returns or waits: the start time, the  *)
(* log and, of what the negotiation fixes, everything.                        *)
MakerKeepsNegotiation ==
  /\ UNCHANGED <<mCmd, mLog, mLast, mStartedAt>>
  /\ mNext' # "Start"
  /\ "NegotiationReply" \in net' => "NegotiationReply" \in net
  /\ MakerPastNegotiation' => MakerPastNegotiation

(* Every handler of the maker between negotiate and finish keeps it.          *)
LEMMA MakerHandlersKeep ==
  ASSUME MakerStep, NegotiatedInv, ~MakerStart, ~MakerNegotiateRecv(tStartedAt), ~MakerSaveEvent
  PROVE  MakerKeepsNegotiation
<1> USE DEF MakerKeepsNegotiation, NegotiatedInv
<1>1. CASE MakerNegotiate
  BY Zenon, <1>1 DEF MakerNegotiate, MakerWaits, Broadcast, MakerPastNegotiation
<1>2. CASE MakerFinish
  BY Zenon, <1>2, PastNegotiationOne DEF MakerFinish, MakerReturns, Early, EarlyEvent
<1>3. CASE mCmd \notin Early
  <2>1. MakerPastNegotiation
    BY Zenon, <1>3 DEF MakerPastNegotiation
  <2>2. CASE MakerWaitForTakerFee \/ MakerWaitForTakerPayment
    BY Zenon, <2>1, <2>2 DEF MakerWaitForTakerFee, MakerWaitForTakerPayment, MakerWaits, Broadcast
  <2>3. CASE MakerTakerFeeRecv \/ MakerPaymentConfirm \/ MakerTakerPaymentRecv
    BY Zenon, <2>1, <2>3 DEF MakerTakerFeeRecv, MakerPaymentConfirm, MakerTakerPaymentRecv, MakerReturns, MakerWaits,
         MakerRefundsAfter
  <2>4. CASE MakerSendPayment
    BY Zenon, <2>1, <2>4 DEF MakerSendPayment, MakerReturns
  <2>5. CASE MakerValidateTakerPayment \/ MakerConfirmTakerPaymentSpend
    BY Zenon, <2>1, <2>5 DEF MakerValidateTakerPayment, MakerConfirmTakerPaymentSpend, MakerReturns, MakerRefundsAfter
  <2>6. CASE MakerSpendTakerPayment
    BY Zenon, <2>1, <2>6 DEF MakerSpendTakerPayment, MakerReturns, MakerRefundsAfter
  <2>7. CASE MakerRefundMakerPayment
    BY Zenon, <2>1, <2>7 DEF MakerRefundMakerPayment, MakerReturns
  <2>8. QED
    BY Zenon, <1>1, <1>2, <2>2, <2>3, <2>4, <2>5, <2>6, <2>7 DEF MakerStep
<1>4. QED
  BY <1>1, <1>2, <1>3, Zenon DEF MakerStep, MakerAt, Early, MakerWaitForTakerFee, MakerTakerFeeRecv, MakerSendPayment,
       MakerWaitForTakerPayment, MakerPaymentConfirm, MakerTakerPaymentRecv, MakerValidateTakerPayment,
       MakerSpendTakerPayment, MakerConfirmTakerPaymentSpend, MakerRefundMakerPayment

(* The maker's steps: its clock is close to the taker's once negotiate has    *)
(* accepted the taker's started_at, and neither changes afterwards.           *)
LEMMA MakerStepNegotiated ==
  ASSUME TypeOK, NegotiatedInv, MakerStep, UNCHANGED takerVars
  PROVE  NegotiatedInv'
<1> USE DEF takerVars
<1>1. CASE MakerStart
  <2>1. ~MakerPastNegotiation
    BY Zenon, <1>1 DEF NegotiatedInv, StartsFixed, MakerStart, MakerAt
  <2>2. ~MakerPastNegotiation'
    BY Zenon, <1>1, <2>1, PastNegotiationOne DEF MakerStart, Early, EarlyEvent
  <2>3. QED
    BY Zenon, <1>1, <2>2 DEF NegotiatedInv, MakerStart, MakerReturns
<1>2. CASE MakerNegotiateRecv(tStartedAt)
  <2>1. CASE MakerReturns("WaitForTakerFee", <<"Negotiated">>) /\ Received("NegotiationReply")
             /\ mStartedAt - tStartedAt \in -MaxTimeDif..MaxTimeDif
    <3>1. StartsFixed'
      BY Zenon, <1>2, <2>1 DEF StartsFixed, NegotiatedInv, MakerNegotiateRecv, MakerAt, MakerReturns, Received
    <3>2. QED
      BY Zenon, <1>2, <2>1, <3>1 DEF NegotiatedInv, MakerNegotiateRecv, MakerReturns
  <2>2. CASE MakerReturns("Finish", <<"NegotiateFailed">>)
    <3>1. MakerPastNegotiation' => MakerPastNegotiation
      BY Zenon, <2>2, PastNegotiationOne DEF Early, EarlyEvent
    <3>2. QED
      BY Zenon, <1>2, <2>2, <3>1 DEF NegotiatedInv, StartsFixed, MakerNegotiateRecv, MakerReturns
  <2>3. QED
    BY Zenon, <1>2, <2>1, <2>2 DEF MakerNegotiateRecv
<1>3. CASE MakerSaveEvent
  <2>1. mOut \in Seq(MakerSwapEvent) /\ mOut # <<>>
    BY Zenon, <1>3 DEF TypeOK, MakerTypeOK, MakerSaveEvent
  <2>2. \A i \in DOMAIN Tail(mOut) : i + 1 \in DOMAIN mOut /\ Tail(mOut)[i] = mOut[i + 1]
    BY <2>1
  <2>3. 1 \in DOMAIN mOut /\ Head(mOut) = mOut[1]
    BY <2>1
  <2>4. MakerPastNegotiation' => MakerPastNegotiation
    BY Zenon, <1>3, <2>2, <2>3 DEF MakerPastNegotiation, MakerSaveEvent, Early
  <2>5. QED
    BY Zenon, <1>3, <2>4 DEF NegotiatedInv, StartsFixed, MakerSaveEvent
<1>4. CASE MakerKeepsNegotiation
  BY Zenon, <1>4 DEF MakerKeepsNegotiation, NegotiatedInv, StartsFixed
<1>5. QED
  BY Zenon, <1>1, <1>2, <1>3, <1>4, MakerHandlersKeep

(* What a step of the taker does to the facts of the negotiation.             *)
TakerKeepsNegotiation ==
  /\ tNext' # "Start"
  /\ tLast' \in tLog' \cup {"none"}
  /\ tCmd # "Start" => tCmd' # "Start" /\ tStartedAt' = tStartedAt
  /\ "NegotiationReply" \in net' => "NegotiationReply" \in net \/ tCmd' # "Start"

(* Every step of run_taker_swap keeps them: only start sets started_at, and   *)
(* the reply is sent by a taker that has started.                             *)
LEMMA TakerStepKeeps ==
  ASSUME NegotiatedInv, TakerStep
  PROVE  TakerKeepsNegotiation
<1> USE DEF TakerKeepsNegotiation, NegotiatedInv, TakerAt
<1>1. CASE TakerStart \/ TakerNegotiate \/ TakerNegotiateAck
  BY Zenon, <1>1 DEF TakerStart, TakerNegotiate, TakerNegotiateAck, TakerReturns, TakerWaits
<1>2. CASE TakerNegotiateRecv(mStartedAt)
  BY Zenon, <1>2 DEF TakerNegotiateRecv, TakerReturns, TakerWaits, Broadcast
<1>3. CASE TakerSendTakerFee
  BY Zenon, <1>3 DEF TakerSendTakerFee, TakerReturns
<1>4. CASE TakerWaitForMakerPayment \/ TakerWaitForTakerPaymentSpend
  BY Zenon, <1>4 DEF TakerWaitForMakerPayment, TakerWaitForTakerPaymentSpend, TakerWaits, Broadcast
<1>5. CASE TakerMakerPaymentRecv \/ TakerValidateMakerPayment \/ TakerPaymentConfirm \/ TakerPaymentSpendFound
  BY Zenon, <1>5 DEF TakerMakerPaymentRecv, TakerValidateMakerPayment, TakerPaymentConfirm, TakerPaymentSpendFound,
       TakerReturns, TakerWaits, TakerRefundsAfter
<1>6. CASE TakerSendTakerPayment
  BY Zenon, <1>6 DEF TakerSendTakerPayment, TakerReturns
<1>7. CASE TakerSpendMakerPayment
  BY Zenon, <1>7 DEF TakerSpendMakerPayment, TakerReturns
<1>8. CASE TakerRefundTakerPayment \/ TakerRefundWaitLook
  BY Zenon, <1>8 DEF TakerRefundTakerPayment, TakerRefundWaitLook, TakerRefundOutcome, TakerReturns, TakerWaits
<1>9. CASE TakerRefundSend
  BY Zenon, <1>9 DEF TakerRefundSend, TakerRefundOutcome, TakerReturns
<1>10. CASE TakerFinish
  BY Zenon, <1>10 DEF TakerFinish, TakerReturns
<1>11. CASE TakerSaveEvent
  BY Zenon, <1>11 DEF TakerSaveEvent
<1>12. QED
  BY Zenon, <1>1, <1>2, <1>3, <1>4, <1>5, <1>6, <1>7, <1>8, <1>9, <1>10, <1>11 DEF TakerStep

(* A restart resumes the taker behind its start, and recover_funds runs on a  *)
(* swap that is over.                                                         *)
LEMMA TakerRestartKeeps ==
  ASSUME NegotiatedInv, TakerKickStart \/ TakerRecoverFunds \/ TakerCrash
  PROVE  TakerKeepsNegotiation
<1>1. TakerGetCommand(tLast) # "Start"
  BY Zenon DEF TakerGetCommand
<1>2. QED
  BY Zenon, <1>1 DEF TakerKeepsNegotiation, NegotiatedInv, TakerKickStart, TakerRecoverFunds, TakerCrash, takerVars

(* NegotiatedInv through any step of the taker.                               *)
LEMMA TakerNegotiated ==
  ASSUME NegotiatedInv, TakerKeepsNegotiation, UNCHANGED makerVars
  PROVE  NegotiatedInv'
<1>1. MakerPastNegotiation' => MakerPastNegotiation
  BY Zenon DEF MakerPastNegotiation, makerVars
<1>2. QED
  BY Zenon, <1>1 DEF NegotiatedInv, TakerKeepsNegotiation, StartsFixed, makerVars

(* NegotiatedInv through a crash or a restart of the maker: the command that  *)
(* get_command gives belongs to a later stage only if the last event does.    *)
LEMMA MakerRestartNegotiated ==
  ASSUME NegotiatedInv, MakerKickStart \/ MakerRecoverFunds \/ MakerCrash, UNCHANGED takerVars
  PROVE  NegotiatedInv'
<1> USE DEF takerVars
<1>1. CASE MakerKickStart
  <2>1. MakerGetCommand(mLast) # "Start"
    BY Zenon DEF MakerGetCommand
  <2>2. MakerGetCommand(mLast) \notin Early => mLast \notin EarlyEvent \cup {"none"}
    BY Zenon DEF MakerGetCommand, MakerRefundEvents, Early, EarlyEvent
  <2>3. MakerPastNegotiation' => MakerPastNegotiation
    BY Zenon, <1>1, <2>2 DEF MakerPastNegotiation, MakerKickStart, NegotiatedInv, Early
  <2>4. QED
    BY Zenon, <1>1, <2>1, <2>3 DEF NegotiatedInv, StartsFixed, MakerKickStart
<1>2. CASE MakerRecoverFunds
  <2>1. MakerPastNegotiation' => MakerPastNegotiation
    BY Zenon, <1>2 DEF MakerPastNegotiation, MakerRecoverFunds, makerVars
  <2>2. QED
    BY Zenon, <1>2, <2>1 DEF NegotiatedInv, StartsFixed, MakerRecoverFunds, makerVars
<1>3. CASE MakerCrash
  <2>1. MakerPastNegotiation' => MakerPastNegotiation
    BY <1>3 DEF MakerPastNegotiation, MakerCrash, Early
  <2>2. QED
    BY Zenon, <1>3, <2>1 DEF NegotiatedInv, StartsFixed, MakerCrash
<1>4. QED
  BY Zenon, <1>1, <1>2, <1>3

(* The start times, once fixed, never change.                                 *)
LEMMA MakerKeepsStart ==
  ASSUME NegotiatedInv, MakerStep \/ MakerKickStart \/ MakerRecoverFunds \/ MakerCrash, mCmd # "Start"
  PROVE  mCmd' # "Start" /\ mStartedAt' = mStartedAt
<1>1. CASE MakerNegotiateRecv(tStartedAt)
  BY Zenon, <1>1 DEF MakerNegotiateRecv, MakerReturns
<1>2. CASE MakerSaveEvent
  BY Zenon, <1>2 DEF MakerSaveEvent, NegotiatedInv
<1>3. CASE MakerKickStart \/ MakerRecoverFunds \/ MakerCrash
  BY Zenon, <1>3 DEF MakerKickStart, MakerRecoverFunds, MakerCrash, makerVars, MakerGetCommand
<1>4. CASE MakerKeepsNegotiation
  BY Zenon, <1>4 DEF MakerKeepsNegotiation
<1>5. ~MakerStart
  BY Zenon DEF MakerStart, MakerAt
<1>6. QED
  BY Zenon, <1>1, <1>2, <1>3, <1>4, <1>5, MakerHandlersKeep

(* NegotiatedInv is inductive.                                                *)
LEMMA NextNegotiated ==
  ASSUME TypeOK, NegotiatedInv, [Next]_vars
  PROVE  NegotiatedInv' /\ (StartsFixed => StartsFixed' /\ mStartedAt' = mStartedAt)
<1>1. CASE MakerRuns
  <2>1. NegotiatedInv'
    BY Zenon, <1>1, MakerStepNegotiated, MakerRestartNegotiated DEF MakerRuns
  <2>2. QED
    BY Zenon, <1>1, <2>1, MakerKeepsStart DEF MakerRuns, StartsFixed, takerVars
<1>2. CASE TakerRuns
  <2>1. TakerKeepsNegotiation
    BY Zenon, <1>2, TakerStepKeeps, TakerRestartKeeps DEF TakerRuns
  <2>2. QED
    BY Zenon, <1>2, <2>1, TakerNegotiated DEF TakerRuns, TakerKeepsNegotiation, StartsFixed, makerVars
<1>3. CASE MakerCrash /\ UNCHANGED takerVars
  BY Zenon, <1>3, MakerRestartNegotiated, MakerKeepsStart DEF StartsFixed, takerVars
<1>4. CASE TakerCrash /\ UNCHANGED makerVars
  <2>1. TakerKeepsNegotiation
    BY Zenon, <1>4, TakerRestartKeeps
  <2>2. QED
    BY Zenon, <1>4, <2>1, TakerNegotiated DEF TakerKeepsNegotiation, StartsFixed, makerVars
<1>5. CASE UNCHANGED <<net, makerVars, takerVars>>
  <2>1. MakerPastNegotiation' => MakerPastNegotiation
    BY Zenon, <1>5 DEF MakerPastNegotiation, makerVars
  <2>2. QED
    BY Zenon, <1>5, <2>1 DEF NegotiatedInv, StartsFixed, makerVars, takerVars
<1>6. QED
  BY Zenon, <1>1, <1>2, <1>3, <1>4, <1>5 DEF Next, Crash, ChainStep, MakerPaymentMined, TakerPaymentMined, Tick, Done, vars

(* The steps that touch a payment.                                            *)
MakerPays == MakerSendPayment \/ MakerSpendTakerPayment \/ MakerRefundMakerPayment \/ MakerRecoverFunds

TakerPays ==
  TakerSendTakerFee \/ TakerSendTakerPayment \/ TakerSpendMakerPayment \/ TakerRefundSend \/ TakerRecoverFunds

(* No other step of the code does.                                            *)
LEMMA NextPays ==
  ASSUME [Next]_vars
  PROVE  \/ UNCHANGED chainVars
         \/ MakerRuns /\ MakerPays
         \/ TakerRuns /\ TakerPays
         \/ ChainStep
<1>1. CASE MakerRuns
  BY <1>1, ZenonT(40) DEF MakerRuns, MakerPays, MakerStep, MakerStart, MakerNegotiate, MakerNegotiateRecv,
       MakerWaitForTakerFee, MakerTakerFeeRecv, MakerWaitForTakerPayment, MakerPaymentConfirm,
       MakerTakerPaymentRecv, MakerValidateTakerPayment, MakerConfirmTakerPaymentSpend, MakerFinish,
       MakerSaveEvent, MakerKickStart
<1>2. CASE TakerRuns
  BY <1>2, Zenon DEF TakerRuns, TakerPays, TakerStep, TakerStart, TakerNegotiate, TakerNegotiateRecv, TakerNegotiateAck,
       TakerWaitForMakerPayment, TakerMakerPaymentRecv, TakerValidateMakerPayment, TakerWaitForTakerPaymentSpend,
       TakerPaymentConfirm, TakerPaymentSpendFound, TakerRefundTakerPayment, TakerRefundWaitLook, TakerFinish,
       TakerSaveEvent, TakerKickStart
<1>3. CASE Crash \/ Tick \/ Done \/ UNCHANGED vars
  BY Zenon, <1>3 DEF Crash, MakerCrash, TakerCrash, Tick, Done, vars
<1>4. QED
  BY Zenon, <1>1, <1>2, <1>3 DEF Next

(* A payment is on chain exactly when a transaction of it was sent.           *)
LEMMA NextCounted ==
  ASSUME TypeOK, CountedInv, [Next]_vars
  PROVE  CountedInv'
<1> USE DEF CountedInv
<1>1. CASE UNCHANGED chainVars
  BY Zenon, <1>1 DEF chainVars
<1>2. CASE MakerPays
  <2>1. CASE MakerSendPayment
    <3>1. makerTxs \in Nat /\ takerTxs' = takerTxs /\ takerPayment' = takerPayment
      BY <2>1 DEF MakerSendPayment, TypeOK, ChainTypeOK
    <3>2. \/ UNCHANGED <<makerTxs, makerPayment>>
          \/ makerTxs' = Counted(makerTxs) /\ makerPayment' = IF makerTxs = 0 THEN "unconfirmed" ELSE makerPayment
      BY Zenon, <2>1 DEF MakerSendPayment
    <3>3. QED
      BY <3>1, <3>2 DEF Counted
  <2>2. QED
    BY Zenon, <1>2, <2>1 DEF MakerPays, MakerSpendTakerPayment, MakerRefundMakerPayment, MakerRecoverFunds, CanRefund,
         Unspent
<1>3. CASE TakerPays
  <2>1. CASE TakerSendTakerPayment
    BY <2>1 DEF TakerSendTakerPayment, Counted, TypeOK, ChainTypeOK
  <2>2. QED
    BY Zenon, <1>3, <2>1 DEF TakerPays, TakerSendTakerFee, TakerSpendMakerPayment, TakerRefundSend, TakerRecoverFunds,
         CanRefund, Unspent
<1>4. CASE ChainStep
  BY Zenon, <1>4 DEF ChainStep, MakerPaymentMined, TakerPaymentMined
<1>5. QED
  BY Zenon, <1>1, <1>2, <1>3, <1>4, NextPays

(* The margin: a spend that is not mined yet is older than the lock time of   *)
(* the taker payment, so no refund of the taker can displace it.              *)
LEMMA SpendBeforeLock ==
  ASSUME TypeOK, SpendInTimeInv, takerPayment = "spending"
  PROVE  ~(now >= taker_payment_lock)
<1>1. /\ now \in Nat /\ takerSpendAt \in Nat /\ mStartedAt \in Nat /\ tStartedAt \in Nat
      /\ LockDuration \in Nat /\ SpendDelay \in Nat /\ MaxTimeDif \in Nat
      /\ (4 * LockDuration) \div 5 \in Nat
  BY ConstantsAssumption DEF TypeOK, ChainTypeOK, MakerTypeOK, TakerTypeOK
<1>2. DEFINE Late == (4 * LockDuration) \div 5
<1>3. /\ mStartedAt - tStartedAt <= MaxTimeDif
      /\ takerSpendAt <= mStartedAt + Late
      /\ now <= takerSpendAt + SpendDelay
  BY <1>1 DEF SpendInTimeInv, StartsFixed, TakerPaymentSpendBy
<1>4. SpendDelay + MaxTimeDif + Late < LockDuration
  BY Zenon, MarginAssumption
<1>5. Late \in Nat
  BY Zenon, <1>1
<1> HIDE DEF Late
<1>6. now < tStartedAt + LockDuration
  BY <1>1, <1>3, <1>4, <1>5
<1>7. QED
  BY <1>1, <1>6 DEF taker_payment_lock

(* Once the maker's spend is seen it is never undone.                         *)
LEMMA SpendStays ==
  ASSUME TypeOK, MakerSafetyInv, [Next]_vars, SpendSeen(takerPayment)
  PROVE  SpendSeen(takerPayment')
<1>1. takerTxs # 0
  BY Zenon DEF MakerSafetyInv, CountedInv, SpendSeen
<1>2. CASE TakerPays
  <2>1. CASE TakerRefundSend
    BY Zenon, <2>1, SpendBeforeLock DEF MakerSafetyInv, TakerRefundSend, CanRefund, SpendSeen
  <2>2. CASE TakerSendTakerPayment
    BY Zenon, <1>1, <2>2 DEF TakerSendTakerPayment
  <2>3. QED
    BY Zenon, <1>2, <2>1, <2>2 DEF TakerPays, TakerSendTakerFee, TakerSpendMakerPayment, TakerRecoverFunds, Unspent, SpendSeen
<1>3. CASE MakerPays
  BY Zenon, <1>3 DEF MakerPays, MakerSendPayment, MakerSpendTakerPayment, MakerRefundMakerPayment, MakerRecoverFunds, SpendSeen
<1>4. CASE UNCHANGED chainVars \/ ChainStep
  BY Zenon, <1>4 DEF chainVars, ChainStep, MakerPaymentMined, TakerPaymentMined, SpendSeen
<1>5. QED
  BY Zenon, <1>2, <1>3, <1>4, NextPays

(* A step in which the maker's spend of the taker payment appears: it is      *)
(* spend_taker_payment within its deadline.  recover_funds spends only after  *)
(* the taker has claimed, which needs an earlier spend.                       *)
LEMMA SpendAppears ==
  ASSUME TypeOK, MakerSafetyInv, [Next]_vars, takerPayment # "spending", takerPayment' = "spending"
  PROVE  /\ MakerSpendTakerPayment /\ MakerRuns
         /\ now <= TakerPaymentSpendBy
         /\ takerSpendAt' = now
<1>1. CASE MakerRuns /\ MakerPays
  <2>1. ~MakerRecoverFunds
    BY Zenon DEF MakerRecoverFunds, MakerSafetyInv, SecretInv, TakerKnowsSecret, SpendSeen
  <2>2. MakerSpendTakerPayment
    BY Zenon, <1>1, <2>1 DEF MakerPays, MakerSendPayment, MakerRefundMakerPayment
  <2>3. QED
    BY Zenon, <1>1, <2>2 DEF MakerSpendTakerPayment
<1>2. CASE TakerPays
  BY Zenon, <1>2 DEF TakerPays, TakerSendTakerFee, TakerSendTakerPayment, TakerSpendMakerPayment, TakerRefundSend,
       TakerRecoverFunds
<1>3. CASE UNCHANGED chainVars \/ ChainStep
  BY Zenon, <1>3 DEF chainVars, ChainStep, MakerPaymentMined, TakerPaymentMined
<1>4. QED
  BY Zenon, <1>1, <1>2, <1>3, NextPays

(* SpendInTimeInv through every step.                                         *)
LEMMA NextSpendInTime ==
  ASSUME TypeOK, MakerSafetyInv, [Next]_vars
  PROVE  SpendInTimeInv'
<1> SUFFICES ASSUME takerPayment' = "spending"
             PROVE  StartsFixed' /\ takerSpendAt' <= TakerPaymentSpendBy' /\ now' <= takerSpendAt' + SpendDelay
  BY Zenon DEF SpendInTimeInv
<1>1. CASE takerPayment = "spending"
  <2>1. StartsFixed /\ takerSpendAt <= TakerPaymentSpendBy /\ now <= takerSpendAt + SpendDelay
    BY Zenon, <1>1 DEF MakerSafetyInv, SpendInTimeInv
  <2>2. StartsFixed' /\ mStartedAt' = mStartedAt
    BY Zenon, <2>1, NextNegotiated DEF MakerSafetyInv
  <2>3. takerSpendAt' = takerSpendAt
    <3>1. CASE MakerPays
      BY Zenon, <1>1, <3>1 DEF MakerPays, MakerSendPayment, MakerSpendTakerPayment, MakerRefundMakerPayment,
           MakerRecoverFunds
    <3>2. CASE TakerPays
      BY Zenon, <3>2 DEF TakerPays, TakerSendTakerFee, TakerSendTakerPayment, TakerSpendMakerPayment, TakerRefundSend,
           TakerRecoverFunds
    <3>3. CASE UNCHANGED chainVars \/ ChainStep
      BY Zenon, <3>3 DEF chainVars, ChainStep, MakerPaymentMined, TakerPaymentMined
    <3>4. QED
      BY Zenon, <3>1, <3>2, <3>3, NextPays
  <2>4. now' <= takerSpendAt + SpendDelay
    <3>1. CASE Tick
      <4>1. now < takerSpendAt + SpendDelay /\ now' = now + 1
        BY Zenon, <1>1, <3>1 DEF Tick
      <4>2. QED
        BY <4>1, ConstantsAssumption DEF TypeOK, ChainTypeOK
    <3>2. CASE now' = now
      BY Zenon, <2>1, <3>2
    <3>3. QED
      BY Zenon, <3>1, <3>2 DEF Next, MakerRuns, TakerRuns, Crash, ChainStep, MakerPaymentMined, TakerPaymentMined, Done, vars
  <2>5. QED
    BY Zenon, <2>1, <2>2, <2>3, <2>4 DEF TakerPaymentSpendBy
<1>2. CASE takerPayment # "spending"
  <2>1. MakerSpendTakerPayment /\ MakerRuns /\ now <= TakerPaymentSpendBy /\ takerSpendAt' = now
    BY Zenon, <1>2, SpendAppears
  <2>2. StartsFixed
    BY Zenon, <2>1 DEF MakerSpendTakerPayment, MakerAt, MakerSafetyInv, NegotiatedInv, MakerPastNegotiation, Early
  <2>3. StartsFixed' /\ mStartedAt' = mStartedAt
    BY Zenon, <2>2, NextNegotiated DEF MakerSafetyInv
  <2>4. now' = now
    BY Zenon, <2>1 DEF MakerRuns
  <2>5. now <= now + SpendDelay
    BY ConstantsAssumption DEF TypeOK, ChainTypeOK
  <2>6. QED
    BY Zenon, <2>1, <2>3, <2>4, <2>5 DEF TakerPaymentSpendBy
<1>3. QED
  BY Zenon, <1>1, <1>2

(* A step by which the taker comes to know the secret sees the maker's spend. *)
LEMMA TakerStepLearns ==
  ASSUME TypeOK, TakerStep, TakerKnowsSecret', ~TakerKnowsSecret
  PROVE  SpendSeen(takerPayment)
<1> USE DEF TakerKnowsSecret, TakerAt
<1>1. CASE TakerStart \/ TakerNegotiate \/ TakerNegotiateAck
  BY <1>1 DEF TakerStart, TakerNegotiate, TakerNegotiateAck, TakerReturns, TakerWaits, chainVars
<1>2. CASE TakerNegotiateRecv(mStartedAt)
  BY <1>2 DEF TakerNegotiateRecv, TakerReturns, TakerWaits, chainVars
<1>3. CASE TakerSendTakerFee
  BY <1>3 DEF TakerSendTakerFee, TakerReturns
<1>4. CASE TakerWaitForMakerPayment \/ TakerWaitForTakerPaymentSpend
  BY Zenon, <1>4 DEF TakerWaitForMakerPayment, TakerWaitForTakerPaymentSpend, TakerWaits, chainVars
<1>5. CASE TakerMakerPaymentRecv \/ TakerValidateMakerPayment
  BY <1>5 DEF TakerMakerPaymentRecv, TakerValidateMakerPayment, TakerReturns, chainVars
<1>6. CASE TakerPaymentConfirm \/ TakerPaymentSpendFound
  BY <1>6 DEF TakerPaymentConfirm, TakerPaymentSpendFound, TakerReturns, TakerWaits, TakerRefundsAfter, chainVars
<1>7. CASE TakerSendTakerPayment
  BY <1>7 DEF TakerSendTakerPayment, TakerReturns
<1>8. CASE TakerSpendMakerPayment
  BY Zenon, <1>8 DEF TakerSpendMakerPayment
<1>9. CASE TakerRefundTakerPayment \/ TakerRefundWaitLook
  BY <1>9 DEF TakerRefundTakerPayment, TakerRefundWaitLook, TakerRefundOutcome, TakerReturns, TakerWaits, chainVars
<1>10. CASE TakerRefundSend
  BY <1>10 DEF TakerRefundSend, TakerRefundOutcome, TakerReturns
<1>11. CASE TakerFinish
  BY <1>11 DEF TakerFinish, TakerReturns, chainVars
<1>12. CASE TakerSaveEvent
  <2>1. tOut \in Seq(TakerSwapEvent) /\ tOut # <<>>
    BY Zenon, <1>12 DEF TypeOK, TakerTypeOK, TakerSaveEvent
  <2>2. \A i \in DOMAIN Tail(tOut) : i + 1 \in DOMAIN tOut /\ Tail(tOut)[i] = tOut[i + 1]
    BY <2>1
  <2>3. 1 \in DOMAIN tOut /\ Head(tOut) = tOut[1]
    BY <2>1
  <2>4. QED
    BY Zenon, <1>12, <2>2, <2>3 DEF TakerSaveEvent, chainVars
<1>13. QED
  BY Zenon, <1>1, <1>2, <1>3, <1>4, <1>5, <1>6, <1>7, <1>8, <1>9, <1>10, <1>11, <1>12 DEF TakerStep

(* No step of the maker, of a chain or of the clock tells the taker the       *)
(* secret, nor does a restart: get_command resumes with the spend of the      *)
(* maker payment only after the event that carries the secret.                *)
LEMMA OthersKeepSecret ==
  ASSUME MakerSafetyInv, [Next]_vars, ~TakerStep, TakerKnowsSecret', ~TakerKnowsSecret
  PROVE  SpendSeen(takerPayment)
<1>1. CASE TakerRuns
  <2>1. CASE TakerKickStart
    <3>1. TakerGetCommand(tLast) = "SpendMakerPayment" => tLast = "TakerPaymentSpent"
      BY Zenon DEF TakerGetCommand
    <3>2. QED
      BY Zenon, <2>1, <3>1 DEF TakerKickStart, TakerKnowsSecret, MakerSafetyInv, NegotiatedInv, chainVars
  <2>2. CASE TakerRecoverFunds
    BY Zenon, <2>2 DEF TakerRecoverFunds, TakerKnowsSecret, takerVars
  <2>3. QED
    BY Zenon, <1>1, <2>1, <2>2 DEF TakerRuns
<1>2. CASE UNCHANGED takerVars
  <2>1. SpendSeen(makerPayment')
    BY Zenon, <1>2 DEF TakerKnowsSecret, takerVars
  <2>2. ~SpendSeen(makerPayment)
    BY Zenon DEF TakerKnowsSecret
  <2>3. ~(ChainStep \/ UNCHANGED chainVars)
    BY Zenon, <2>1, <2>2 DEF ChainStep, MakerPaymentMined, TakerPaymentMined, SpendSeen, chainVars
  <2>4. ~MakerPays
    BY Zenon, <2>1, <2>2 DEF MakerPays, MakerSendPayment, MakerSpendTakerPayment, MakerRefundMakerPayment,
         MakerRecoverFunds, SpendSeen
  <2>5. TakerRuns
    BY Zenon, <2>3, <2>4, NextPays
  <2>6. QED
    BY Zenon, <1>1, <2>5
<1>3. CASE TakerCrash
  BY <1>3 DEF TakerCrash, TakerKnowsSecret, chainVars
<1>4. QED
  BY Zenon, <1>1, <1>2, <1>3 DEF Next, MakerRuns, Crash, ChainStep, Tick, Done, vars

(* The strengthened invariant holds at the start of a swap.                   *)
LEMMA InitSafety == Init => MakerSafetyInv
BY DEF Init, ChainInit, MakerInit, TakerInit, MakerSafetyInv, NegotiatedInv, MakerPastNegotiation, Early,
     SpendInTimeInv, SecretInv, TakerKnowsSecret, SpendSeen, CountedInv

(* And every step preserves it.                                               *)
LEMMA NextSafety == TypeOK /\ MakerSafetyInv /\ [Next]_vars => MakerSafetyInv'
<1> SUFFICES ASSUME TypeOK, MakerSafetyInv, [Next]_vars PROVE MakerSafetyInv'
  OBVIOUS
<1>1. NegotiatedInv'
  BY Zenon, NextNegotiated DEF MakerSafetyInv
<1>2. SpendInTimeInv'
  BY Zenon, NextSpendInTime
<1>3. CountedInv'
  BY Zenon, NextCounted DEF MakerSafetyInv
<1>4. SecretInv'
  <2> SUFFICES ASSUME TakerKnowsSecret' PROVE SpendSeen(takerPayment')
    BY Zenon DEF SecretInv, SpendSeen
  <2>1. SpendSeen(takerPayment)
    BY Zenon, TakerStepLearns, OthersKeepSecret DEF MakerSafetyInv, SecretInv
  <2>2. QED
    BY Zenon, <2>1, SpendStays
<1>5. QED
  BY Zenon, <1>1, <1>2, <1>3, <1>4 DEF MakerSafetyInv

(* The maker's argument: the deadlines of its handlers, the check of the      *)
(* start times in negotiate and the source of the secret hold together.       *)
THEOREM MakerSafetyCorrect == Spec => []MakerSafetyInv
BY TypeCorrect, InitSafety, NextSafety, PTL DEF Spec

(* The maker never loses its payment without the taker's: for every lock      *)
(* duration, clock difference and mining delay within the margin that         *)
(* spend_taker_payment leaves, whatever crashes, restarts and lost messages.  *)
THEOREM MakerSafe == Spec => []MakerNeverLosesBoth
<1>1. MakerSafetyInv => MakerNeverLosesBoth
  BY Zenon DEF MakerSafetyInv, SecretInv, TakerKnowsSecret, SpendSeen, MakerNeverLosesBoth
<1>2. QED
  BY <1>1, MakerSafetyCorrect, PTL

-----------------------------------------------------------------------------
(* The saved events of the maker.                                             *)

(* Time does not go back, and stands still while a role runs.                 *)
LEMMA TimeForward ==
  ASSUME TypeOK, [Next]_vars
  PROVE  now \in Nat /\ now' \in Nat /\ now <= now' /\ (MakerRuns \/ TakerRuns => now' = now)
<1>1. CASE Tick
  <2>1. now' = now + 1 /\ now \in Nat
    BY Zenon, <1>1 DEF Tick, TypeOK, ChainTypeOK
  <2>2. ~MakerRuns /\ ~TakerRuns
    BY <2>1 DEF MakerRuns, TakerRuns
  <2>3. QED
    BY <2>1, <2>2
<1>2. CASE now' = now
  BY <1>2 DEF TypeOK, ChainTypeOK
<1>3. QED
  BY Zenon, <1>1, <1>2 DEF Next, MakerRuns, TakerRuns, Crash, ChainStep, MakerPaymentMined, TakerPaymentMined, Done, vars

(* A maker payment appears by maker_payment alone, and never disappears.      *)
LEMMA MakerPaymentStays ==
  ASSUME [Next]_vars, CountedInv
  PROVE  /\ makerPayment # "none" => makerPayment' # "none"
         /\ makerPayment = "none" /\ makerPayment' # "none" => MakerRuns /\ MakerSendPayment
<1>1. CASE MakerRuns /\ MakerPays
  BY <1>1, ZenonT(40) DEF CountedInv, MakerPays, MakerSendPayment, MakerSpendTakerPayment, MakerRefundMakerPayment,
       MakerRecoverFunds, CanRefund, Unspent
<1>2. CASE TakerPays
  BY <1>2, Zenon DEF TakerPays, TakerSendTakerFee, TakerSendTakerPayment, TakerSpendMakerPayment, TakerRefundSend,
       TakerRecoverFunds
<1>3. CASE UNCHANGED chainVars \/ ChainStep
  BY Zenon, <1>3 DEF chainVars, ChainStep, MakerPaymentMined, TakerPaymentMined
<1>4. QED
  BY Zenon, <1>1, <1>2, <1>3, NextPays

(* A maker payment is refunded by the maker past its lock time.               *)
LEMMA RefundAppears ==
  ASSUME TypeOK, [Next]_vars, makerPayment # "refunded", makerPayment' = "refunded"
  PROVE  MakerRuns /\ now >= maker_payment_lock /\ mStartedAt' = mStartedAt
<1>1. CASE MakerRuns /\ MakerPays
  <2>1. maker_payment_lock \in Nat /\ RefundGrace \in Nat /\ now \in Nat
    BY ConstantsAssumption DEF maker_payment_lock, TypeOK, ChainTypeOK, MakerTypeOK
  <2>2. CASE MakerRefundMakerPayment
    BY Zenon, <1>1, <2>2 DEF MakerRefundMakerPayment
  <2>3. CASE MakerRecoverFunds
    <3>1. now >= maker_payment_lock + RefundGrace
      BY Zenon, <2>3 DEF MakerRecoverFunds, maker_wait_refund_until
    <3>2. mStartedAt' = mStartedAt
      BY Zenon, <2>3 DEF MakerRecoverFunds, makerVars
    <3>3. QED
      BY <1>1, <2>1, <3>1, <3>2
  <2>4. QED
    BY Zenon, <1>1, <2>2, <2>3 DEF MakerPays, MakerSendPayment, MakerSpendTakerPayment
<1>2. CASE TakerPays
  BY <1>2, Zenon DEF TakerPays, TakerSendTakerFee, TakerSendTakerPayment, TakerSpendMakerPayment, TakerRefundSend,
       TakerRecoverFunds
<1>3. CASE UNCHANGED chainVars \/ ChainStep
  BY Zenon, <1>3 DEF chainVars, ChainStep, MakerPaymentMined, TakerPaymentMined
<1>4. QED
  BY Zenon, <1>1, <1>2, <1>3, NextPays

(* A taker comes to trust the maker payment by validate_maker_payment, which  *)
(* waits for its confirmations.                                               *)
LEMMA TakerStepTrusts ==
  ASSUME TypeOK, TakerStep, TakerTrustsPayment', ~TakerTrustsPayment
  PROVE  makerPayment \notin {"none", "unconfirmed"}
<1> USE DEF TakerTrustsPayment, TakerAt
<1>1. CASE TakerStart \/ TakerNegotiate \/ TakerNegotiateAck
  BY <1>1 DEF TakerStart, TakerNegotiate, TakerNegotiateAck, TakerReturns, TakerWaits
<1>2. CASE TakerNegotiateRecv(mStartedAt)
  BY <1>2 DEF TakerNegotiateRecv, TakerReturns, TakerWaits
<1>3. CASE TakerSendTakerFee
  BY <1>3 DEF TakerSendTakerFee, TakerReturns
<1>4. CASE TakerWaitForMakerPayment \/ TakerWaitForTakerPaymentSpend
  BY Zenon, <1>4 DEF TakerWaitForMakerPayment, TakerWaitForTakerPaymentSpend, TakerWaits
<1>5. CASE TakerMakerPaymentRecv
  BY <1>5 DEF TakerMakerPaymentRecv, TakerReturns
<1>6. CASE TakerValidateMakerPayment
  BY <1>6 DEF TakerValidateMakerPayment, TakerReturns, ConfirmedBy
<1>7. CASE TakerPaymentConfirm \/ TakerPaymentSpendFound
  BY <1>7 DEF TakerPaymentConfirm, TakerPaymentSpendFound, TakerReturns, TakerWaits, TakerRefundsAfter
<1>8. CASE TakerSendTakerPayment
  BY Zenon, <1>8 DEF TakerSendTakerPayment, TakerReturns
<1>9. CASE TakerSpendMakerPayment
  BY <1>9 DEF TakerSpendMakerPayment, TakerReturns
<1>10. CASE TakerRefundTakerPayment \/ TakerRefundWaitLook
  BY <1>10 DEF TakerRefundTakerPayment, TakerRefundWaitLook, TakerRefundOutcome, TakerReturns, TakerWaits
<1>11. CASE TakerRefundSend
  BY <1>11 DEF TakerRefundSend, TakerRefundOutcome, TakerReturns
<1>12. CASE TakerFinish
  BY <1>12 DEF TakerFinish, TakerReturns
<1>13. CASE TakerSaveEvent
  <2>1. tOut \in Seq(TakerSwapEvent) /\ tOut # <<>>
    BY Zenon, <1>13 DEF TypeOK, TakerTypeOK, TakerSaveEvent
  <2>2. \A i \in DOMAIN Tail(tOut) : i + 1 \in DOMAIN tOut /\ Tail(tOut)[i] = tOut[i + 1]
    BY <2>1
  <2>3. 1 \in DOMAIN tOut /\ Head(tOut) = tOut[1]
    BY ONLY <2>1
  <2>4. QED
    BY Zenon, <1>13, <2>2, <2>3 DEF TakerSaveEvent
<1>14. QED
  BY Zenon, <1>1, <1>2, <1>3, <1>4, <1>5, <1>6, <1>7, <1>8, <1>9, <1>10, <1>11, <1>12, <1>13 DEF TakerStep

(* Nothing else makes it trust: get_command resumes with the send only after  *)
(* the event of the validation.                                               *)
LEMMA OthersKeepTrust ==
  ASSUME NegotiatedInv, [Next]_vars, ~TakerStep, TakerTrustsPayment'
  PROVE  TakerTrustsPayment
<1>1. CASE TakerKickStart
  <2>1. TakerGetCommand(tLast) = "SendTakerPayment" => tLast = "MakerPaymentValidatedAndConfirmed"
    BY Zenon DEF TakerGetCommand, TakerRefundEvents
  <2>2. QED
    BY Zenon, <1>1, <2>1 DEF TakerKickStart, TakerTrustsPayment, NegotiatedInv
<1>2. CASE TakerCrash
  BY <1>2 DEF TakerCrash, TakerTrustsPayment
<1>3. CASE UNCHANGED takerVars
  BY Zenon, <1>3 DEF TakerTrustsPayment, takerVars
<1>4. QED
  BY Zenon, <1>1, <1>2, <1>3 DEF Next, MakerRuns, TakerRuns, TakerRecoverFunds, Crash, ChainStep, Tick, Done, vars

(* The taker payment appears by send_taker_payment alone, by a taker that     *)
(* trusts the maker payment, in the first two fifths of its lock duration.    *)
LEMMA TakerPaymentAppears ==
  ASSUME [Next]_vars, takerPayment = "none", takerPayment' # "none"
  PROVE  /\ TakerRuns /\ TakerTrustsPayment
         /\ now <= maker_payment_wait
         /\ takerPayment' = "unconfirmed" /\ makerPayment' = makerPayment
<1>1. CASE MakerPays
  BY <1>1, Zenon DEF MakerPays, MakerSendPayment, MakerSpendTakerPayment, MakerRefundMakerPayment, MakerRecoverFunds
<1>2. CASE TakerRuns /\ TakerPays
  <2>1. TakerSendTakerPayment
    BY Zenon, <1>2 DEF TakerPays, TakerSendTakerFee, TakerSpendMakerPayment, TakerRefundSend, TakerRecoverFunds,
         CanRefund, Unspent
  <2>2. QED
    BY Zenon, <1>2, <2>1 DEF TakerSendTakerPayment, TakerAt, TakerTrustsPayment
<1>3. CASE UNCHANGED chainVars \/ ChainStep
  BY Zenon, <1>3 DEF chainVars, ChainStep, MakerPaymentMined, TakerPaymentMined
<1>4. QED
  BY Zenon, <1>1, <1>2, <1>3, NextPays

(* PaidInv holds at the start of a swap.                                      *)
LEMMA InitPaid == Init => PaidInv
BY DEF Init, ChainInit, TakerInit, PaidInv, TakerTrustsPayment

(* And every step preserves it.                                               *)
LEMMA NextPaid == TypeOK /\ MakerSafetyInv /\ PaidInv /\ [Next]_vars => PaidInv'
<1> SUFFICES ASSUME TypeOK, MakerSafetyInv, PaidInv, [Next]_vars PROVE PaidInv'
  BY Zenon
<1>1. NegotiatedInv /\ CountedInv
  BY Zenon DEF MakerSafetyInv
<1>2. ASSUME makerPayment' # "none" PROVE StartsFixed /\ StartsFixed' /\ mStartedAt' = mStartedAt
  <2>1. StartsFixed
    <3>1. CASE makerPayment # "none"
      BY Zenon, <3>1 DEF PaidInv
    <3>2. CASE makerPayment = "none"
      <4>1. MakerSendPayment
        BY Zenon, <1>1, <1>2, <3>2, MakerPaymentStays
      <4>2. QED
        BY Zenon, <1>1, <4>1 DEF MakerSendPayment, MakerAt, NegotiatedInv, MakerPastNegotiation, Early
    <3>3. QED
      BY Zenon, <3>1, <3>2
  <2>2. QED
    BY Zenon, <1>1, <2>1, NextNegotiated
<1>3. ASSUME makerPayment' = "refunded" PROVE (now >= maker_payment_lock)'
  <2>1. now >= maker_payment_lock /\ mStartedAt' = mStartedAt
    BY Zenon, <1>2, <1>3, RefundAppears DEF PaidInv
  <2>2. maker_payment_lock \in Nat /\ maker_payment_lock' = maker_payment_lock
    BY <2>1, ConstantsAssumption DEF maker_payment_lock, TypeOK, MakerTypeOK
  <2>3. now \in Nat /\ now' \in Nat /\ now <= now'
    BY Zenon, TimeForward
  <2>4. now' >= maker_payment_lock
    BY <2>1, <2>2, <2>3
  <2>5. QED
    BY Zenon, <2>2, <2>4
<1>4. ASSUME TakerTrustsPayment' \/ takerPayment' # "none" PROVE makerPayment' # "none"
  <2>1. makerPayment # "none"
    <3>1. CASE TakerTrustsPayment'
      BY Zenon, <1>1, <3>1, TakerStepTrusts, OthersKeepTrust DEF PaidInv
    <3>2. CASE takerPayment' # "none"
      BY Zenon, <3>2, TakerPaymentAppears DEF PaidInv
    <3>3. QED
      BY Zenon, <1>4, <3>1, <3>2
  <2>2. QED
    BY Zenon, <1>1, <2>1, MakerPaymentStays
<1>5. QED
  BY Zenon, <1>2, <1>3, <1>4 DEF PaidInv

(* What is paid is paid in order, for every value of the constants.           *)
THEOREM LegacyPaid == Spec => []PaidInv
BY TypeCorrect, MakerSafetyCorrect, InitPaid, NextPaid, PTL DEF Spec

(* The deadlines of the payment and of the spend lie before the lock time of  *)
(* the maker payment.                                                         *)
LEMMA BeforeMakerLock ==
  ASSUME TypeOK, StartsFixed, now <= maker_payment_wait \/ now <= TakerPaymentSpendBy
  PROVE  ~(now >= maker_payment_lock)
<1>1. /\ now \in Nat /\ mStartedAt \in Nat /\ tStartedAt \in Nat
      /\ LockDuration \in Nat \ {0} /\ SpendDelay \in Nat /\ MaxTimeDif \in Nat
  BY Zenon, ConstantsAssumption DEF TypeOK, ChainTypeOK, MakerTypeOK, TakerTypeOK
<1> DEFINE Wait == (2 * LockDuration) \div 5
           Late == (4 * LockDuration) \div 5
<1>2. Wait \in Nat /\ Late \in Nat /\ Wait <= LockDuration /\ Late <= LockDuration
  BY <1>1
<1>3. MaxTimeDif < LockDuration
  <2>1. SpendDelay + MaxTimeDif + Late < LockDuration
    BY Zenon, MarginAssumption
  <2> HIDE DEF Late
  <2>2. QED
    BY <1>1, <1>2, <2>1
<1>4. tStartedAt - mStartedAt <= MaxTimeDif
  BY <1>1 DEF StartsFixed
<1>5. now <= tStartedAt + Wait \/ now <= mStartedAt + Late
  BY Zenon DEF maker_payment_wait, TakerPaymentSpendBy
<1> HIDE DEF Wait, Late
<1>6. now < mStartedAt + 2 * LockDuration
  BY <1>1, <1>2, <1>3, <1>4, <1>5
<1>7. QED
  BY ONLY <1>1, <1>6 DEF maker_payment_lock

(* Within those deadlines a maker payment that was sent is still there.       *)
LEMMA MakerPaymentLocked ==
  ASSUME TypeOK, MakerSafetyInv, PaidInv, makerPayment # "none", ~SpendSeen(takerPayment),
         now <= maker_payment_wait \/ now <= TakerPaymentSpendBy
  PROVE  Unspent(makerPayment)
<1>1. makerPayment # "refunded"
  BY Zenon, BeforeMakerLock DEF PaidInv
<1>2. ~SpendSeen(makerPayment)
  BY Zenon DEF MakerSafetyInv, SecretInv, TakerKnowsSecret
<1>3. QED
  BY Zenon, <1>1, <1>2 DEF TypeOK, ChainTypeOK, PayState, SpendSeen, Unspent

(* A step on the maker payment as the abstract specification sees it.         *)
LEMMA MakerPaymentStep ==
  ASSUME TypeOK, MakerSafetyInv, [Next]_vars, makerPayment' # makerPayment
  PROVE  /\ takerPayment' = takerPayment
         /\ \/ makerPayment = "none" /\ makerPayment' = "unconfirmed"
            \/ makerPayment \in {"unconfirmed", "confirmed"} /\ makerPayment' \in {"confirmed", "spending"}
            \/ makerPayment \in {"unconfirmed", "confirmed", "spending"} /\ makerPayment' = "refunded"
            \/ makerPayment = "spending" /\ makerPayment' = "spent" /\ SpendSeen(takerPayment)
<1>1. CASE MakerPays
  BY Zenon, <1>1 DEF MakerSafetyInv, CountedInv, MakerPays, MakerSendPayment, MakerSpendTakerPayment,
       MakerRefundMakerPayment, MakerRecoverFunds, CanRefund, Unspent
<1>2. CASE TakerPays
  BY <1>2, Zenon DEF TakerPays, TakerSendTakerFee, TakerSendTakerPayment, TakerSpendMakerPayment, TakerRefundSend,
       TakerRecoverFunds
<1>3. CASE UNCHANGED chainVars \/ ChainStep
  BY Zenon, <1>3 DEF chainVars, ChainStep, MakerPaymentMined, TakerPaymentMined, MakerSafetyInv, SecretInv,
       TakerKnowsSecret, SpendSeen
<1>4. QED
  BY Zenon, <1>1, <1>2, <1>3, NextPays

(* And one on the taker payment.                                              *)
LEMMA TakerPaymentStep ==
  ASSUME TypeOK, MakerSafetyInv, PaidInv, [Next]_vars, takerPayment' # takerPayment
  PROVE  /\ makerPayment' = makerPayment
         /\ \/ takerPayment = "none" /\ takerPayment' = "unconfirmed" /\ Unspent(makerPayment)
            \/ takerPayment = "unconfirmed" /\ takerPayment' = "confirmed"
            \/ takerPayment = "confirmed" /\ takerPayment' = "spending" /\ Unspent(makerPayment)
            \/ takerPayment \in {"unconfirmed", "confirmed"} /\ takerPayment' = "refunded"
            \/ takerPayment = "spending" /\ takerPayment' = "spent"
<1>1. CASE takerPayment = "none"
  BY Zenon, <1>1, TakerPaymentAppears, MakerPaymentLocked DEF PaidInv, SpendSeen
<1>2. CASE takerPayment # "none" /\ MakerPays
  <2>1. takerPayment' = "spending"
    BY Zenon, <1>2 DEF MakerPays, MakerSendPayment, MakerSpendTakerPayment, MakerRefundMakerPayment, MakerRecoverFunds
  <2>2. MakerSpendTakerPayment /\ now <= TakerPaymentSpendBy
    BY Zenon, <2>1, SpendAppears
  <2>3. takerPayment = "confirmed" /\ makerPayment' = makerPayment
    BY Zenon, <2>2 DEF MakerSpendTakerPayment
  <2>4. Unspent(makerPayment)
    BY Zenon, <1>2, <2>2, <2>3, MakerPaymentLocked DEF PaidInv, SpendSeen
  <2>5. QED
    BY Zenon, <2>1, <2>3, <2>4
<1>3. CASE takerPayment # "none" /\ TakerPays
  <2>1. takerTxs # 0
    BY Zenon, <1>3 DEF MakerSafetyInv, CountedInv
  <2>2. CASE TakerRefundSend
    BY Zenon, <2>2, SpendBeforeLock DEF MakerSafetyInv, TakerRefundSend, CanRefund
  <2>3. QED
    BY <1>3, <2>1, <2>2, Zenon DEF TakerPays, TakerSendTakerFee, TakerSendTakerPayment, TakerSpendMakerPayment,
         TakerRecoverFunds, Unspent
<1>4. CASE UNCHANGED chainVars \/ ChainStep
  BY Zenon, <1>1, <1>4 DEF chainVars, ChainStep, MakerPaymentMined, TakerPaymentMined
<1>5. QED
  BY Zenon, <1>1, <1>2, <1>3, <1>4, NextPays

(* The legacy swap implements AtomicSwap: whatever crashes, restarts and lost *)
(* messages, the payments are locked, claimed and taken back in its order.    *)
THEOREM LegacySwapIsAtomic == Spec => SwapIsAtomic
<1>1. Init => Atomic!Init
  BY Zenon DEF Init, ChainInit, Atomic!Init, Abstract
<1>2. TypeOK /\ MakerSafetyInv /\ PaidInv /\ [Next]_vars
        => [Atomic!Next]_<<Abstract(makerPayment, {"spent"}), Abstract(takerPayment, {"spending", "spent"})>>
  <2> SUFFICES ASSUME TypeOK, MakerSafetyInv, PaidInv, [Next]_vars
               PROVE  \/ Atomic!Next
                      \/ /\ Abstract(makerPayment, {"spent"})' = Abstract(makerPayment, {"spent"})
                         /\ Abstract(takerPayment, {"spending", "spent"})'
                              = Abstract(takerPayment, {"spending", "spent"})
    BY Zenon
  <2> USE DEF Abstract
  <2>1. CASE makerPayment' # makerPayment
    BY Zenon, <2>1, MakerPaymentStep DEF Atomic!Next, Atomic!LockMaker, Atomic!ClaimMaker, Atomic!ReclaimMaker, SpendSeen
  <2>2. CASE takerPayment' # takerPayment
    BY Zenon, <2>2, TakerPaymentStep DEF Atomic!Next, Atomic!LockTaker, Atomic!ClaimTaker, Atomic!ReclaimTaker, Unspent
  <2>3. CASE makerPayment' = makerPayment /\ takerPayment' = takerPayment
    BY Zenon, <2>3
  <2>4. QED
    BY Zenon, <2>1, <2>2, <2>3
<1>3. QED
  BY <1>1, <1>2, TypeCorrect, MakerSafetyCorrect, LegacyPaid, PTL DEF Spec, SwapIsAtomic, Atomic!Spec

(* So it keeps the promise of AtomicSwap: the maker payment is claimed only   *)
(* when the maker has claimed the taker's, for the secret in that claim.      *)
THEOREM LegacyClaimedForClaimed == Spec => []Atomic!ClaimedForClaimed
<1>1. Atomic!Init => Atomic!ClaimedForClaimed
  BY Zenon DEF Atomic!Init, Atomic!ClaimedForClaimed
<1>2. /\ Atomic!ClaimedForClaimed
      /\ [Atomic!Next]_<<Abstract(makerPayment, {"spent"}), Abstract(takerPayment, {"spending", "spent"})>>
      => Atomic!ClaimedForClaimed'
  BY Zenon DEF Atomic!ClaimedForClaimed, Atomic!Next, Atomic!LockMaker, Atomic!LockTaker, Atomic!ClaimTaker,
     Atomic!ClaimMaker, Atomic!ReclaimTaker, Atomic!ReclaimMaker
<1>3. QED
  BY <1>1, <1>2, LegacySwapIsAtomic, PTL DEF SwapIsAtomic, Atomic!Spec

-----------------------------------------------------------------------------
(* The command that run_maker_swap, or a restart, handles after an event.     *)
MakerResumes(event) == IF event = "none" THEN "Start" ELSE MakerGetCommand(event)

(* The events that a command, or one it leads to, takes its data from.        *)
MakerNeeds(cmd) ==
  CASE cmd \in {"WaitForTakerPayment", "RefundMakerPayment"} -> {"MakerPaymentSent"}
    [] cmd \in {"ValidateTakerPayment", "SpendTakerPayment"} -> {"MakerPaymentSent", "TakerPaymentReceived"}
    [] cmd = "ConfirmTakerPaymentSpend" -> {"MakerPaymentSent", "TakerPaymentReceived", "TakerPaymentSpent"}
    [] OTHER -> {}

MakerActive == {"run", "recv", "confirm"}

(* The log holds what the commands need, in the order in which a handler      *)
(* returns its events, and a crash between two of them does no harm; the      *)
(* command that runs is the one a restart would choose.                       *)
MakerLogInv ==
  /\ MakerNeeds(mCmd) \subseteq mLog
  /\ MakerNeeds(MakerResumes(mLast)) \subseteq mLog
  /\ \A i \in DOMAIN mOut : \A e \in MakerNeeds(MakerResumes(mOut[i])) :
       e \in mLog \/ \E j \in 1..i : mOut[j] = e
  /\ mPc \in MakerActive => mCmd = MakerResumes(mLast)
  /\ mPc = "save" => mNext = MakerResumes(mOut[Len(mOut)])
  /\ mPc # "save" => mOut = <<>>
  /\ mPc = "end" => mLast = "Finished"
  /\ mLast = "none" => mLog = {}

(* The handlers of the maker by what they return: one event, or two.          *)
MakerAnswersOne(cmd, e) ==
  \/ cmd = "Start" /\ e \in {"Started", "StartFailed"}
  \/ cmd = "Negotiate" /\ e \in {"Negotiated", "NegotiateFailed"}
  \/ cmd = "WaitForTakerFee" /\ e \in {"TakerFeeValidated", "TakerFeeValidateFailed"}
  \/ cmd = "SendPayment" /\ e \in {"MakerPaymentSent", "MakerPaymentTransactionFailed"}
  \/ cmd = "ValidateTakerPayment" /\ e = "TakerPaymentValidatedAndConfirmed"
  \/ cmd = "ConfirmTakerPaymentSpend" /\ e = "TakerPaymentSpendConfirmed"
  \/ cmd = "RefundMakerPayment" /\ e \in {"MakerPaymentRefunded", "MakerPaymentRefundFailed"}
  \/ cmd = "Finish" /\ e = "Finished"

MakerAnswersTwo(cmd, e, f) ==
  \/ cmd = "WaitForTakerPayment" /\ e = "TakerPaymentReceived" /\ f = "TakerPaymentWaitConfirmStarted"
  \/ cmd = "SpendTakerPayment" /\ e = "TakerPaymentSpent" /\ f = "TakerPaymentSpendConfirmStarted"
  \/ /\ f = "MakerPaymentWaitRefundStarted"
     /\ \/ cmd = "WaitForTakerPayment" /\ e \in {"MakerPaymentWaitConfirmFailed", "TakerPaymentValidateFailed"}
        \/ cmd = "ValidateTakerPayment" /\ e \in {"TakerPaymentValidateFailed", "TakerPaymentWaitConfirmFailed"}
        \/ cmd = "SpendTakerPayment" /\ e = "TakerPaymentSpendFailed"
        \/ cmd = "ConfirmTakerPaymentSpend" /\ e = "TakerPaymentSpendConfirmFailed"

(* A step of the maker's handlers: an answer, a wait, or the save of an event. *)
MakerAnswers ==
  /\ mPc \in MakerActive
  /\ \/ \E e : MakerAnswersOne(mCmd, e) /\ MakerReturns(MakerGetCommand(e), <<e>>)
     \/ \E e, f : MakerAnswersTwo(mCmd, e, f) /\ MakerReturns(MakerGetCommand(f), <<e, f>>)

MakerIsWaiting == mPc \in MakerActive /\ \E pc, until : pc \in MakerActive /\ MakerWaits(pc, until)

(* get_command, event by event.                                               *)
LEMMA MakerCommands ==
  /\ MakerGetCommand("Started") = "Negotiate"
  /\ MakerGetCommand("Negotiated") = "WaitForTakerFee"
  /\ MakerGetCommand("TakerFeeValidated") = "SendPayment"
  /\ MakerGetCommand("MakerPaymentSent") = "WaitForTakerPayment"
  /\ MakerGetCommand("TakerPaymentReceived") = "ValidateTakerPayment"
  /\ MakerGetCommand("TakerPaymentWaitConfirmStarted") = "ValidateTakerPayment"
  /\ MakerGetCommand("TakerPaymentValidatedAndConfirmed") = "SpendTakerPayment"
  /\ MakerGetCommand("TakerPaymentSpent") = "ConfirmTakerPaymentSpend"
  /\ MakerGetCommand("TakerPaymentSpendConfirmStarted") = "ConfirmTakerPaymentSpend"
  /\ \A e \in MakerRefundEvents : MakerGetCommand(e) = "RefundMakerPayment"
  /\ \A e \in {"StartFailed", "NegotiateFailed", "TakerFeeValidateFailed", "MakerPaymentTransactionFailed",
               "TakerPaymentSpendConfirmed", "MakerPaymentRefunded", "MakerPaymentRefundFailed"} :
       MakerGetCommand(e) = "Finish"
  /\ MakerGetCommand("Finished") = "None"
BY Zenon DEF MakerGetCommand, MakerRefundEvents

(* Every handler of the maker returns the command that a restart after its    *)
(* last event would choose.                                                   *)
LEMMA MakerStepShape == ASSUME MakerStep PROVE MakerAnswers \/ MakerIsWaiting \/ MakerSaveEvent
<1> USE DEF MakerAt, MakerActive
<1>1. CASE MakerStart
  BY Zenon, <1>1, MakerCommands DEF MakerStart, MakerAnswers, MakerAnswersOne
<1>2. CASE MakerNegotiate \/ MakerWaitForTakerFee \/ MakerWaitForTakerPayment
  <2>1. mPc = "run"
    BY Zenon, <1>2 DEF MakerNegotiate, MakerWaitForTakerFee, MakerWaitForTakerPayment
  <2>2. \E until : MakerWaits("recv", until) \/ MakerWaits("confirm", until)
    BY Zenon, <1>2 DEF MakerNegotiate, MakerWaitForTakerFee, MakerWaitForTakerPayment
  <2>3. QED
    BY <2>1, <2>2 DEF MakerIsWaiting
<1>3. CASE MakerNegotiateRecv(tStartedAt)
  BY Zenon, <1>3, MakerCommands DEF MakerNegotiateRecv, MakerAnswers, MakerAnswersOne
<1>4. CASE MakerTakerFeeRecv
  BY Zenon, <1>4, MakerCommands DEF MakerTakerFeeRecv, MakerAnswers, MakerAnswersOne
<1>5. CASE MakerSendPayment
  BY Zenon, <1>5, MakerCommands DEF MakerSendPayment, MakerAnswers, MakerAnswersOne
<1>6. CASE MakerPaymentConfirm
  <2>1. /\ mCmd = "WaitForTakerPayment" /\ mPc = "confirm"
        /\ (\E until : MakerWaits("recv", until)) \/ MakerRefundsAfter("MakerPaymentWaitConfirmFailed")
    BY <1>6, Zenon DEF MakerPaymentConfirm
  <2>2. CASE MakerRefundsAfter("MakerPaymentWaitConfirmFailed")
    BY <2>1, <2>2, MakerCommands, Zenon DEF MakerRefundsAfter, MakerRefundEvents, MakerAnswers, MakerAnswersTwo
  <2>3. CASE \E until : MakerWaits("recv", until)
    BY <2>1, <2>3 DEF MakerIsWaiting
  <2>4. QED
    BY Zenon, <2>1, <2>2, <2>3
<1>7. CASE MakerTakerPaymentRecv
  BY Zenon, <1>7, MakerCommands DEF MakerTakerPaymentRecv, MakerRefundsAfter, MakerRefundEvents, MakerAnswers, MakerAnswersTwo
<1>8. CASE MakerValidateTakerPayment
  BY Zenon, <1>8, MakerCommands DEF MakerValidateTakerPayment, MakerRefundsAfter, MakerRefundEvents, MakerAnswers,
       MakerAnswersOne, MakerAnswersTwo
<1>9. CASE MakerSpendTakerPayment
  BY Zenon, <1>9, MakerCommands DEF MakerSpendTakerPayment, MakerRefundsAfter, MakerRefundEvents, MakerAnswers, MakerAnswersTwo
<1>10. CASE MakerConfirmTakerPaymentSpend
  BY Zenon, <1>10, MakerCommands DEF MakerConfirmTakerPaymentSpend, MakerRefundsAfter, MakerRefundEvents, MakerAnswers,
       MakerAnswersOne, MakerAnswersTwo
<1>11. CASE MakerRefundMakerPayment
  BY Zenon, <1>11, MakerCommands DEF MakerRefundMakerPayment, MakerAnswers, MakerAnswersOne
<1>12. CASE MakerFinish
  BY Zenon, <1>12, MakerCommands DEF MakerFinish, MakerAnswers, MakerAnswersOne
<1>13. QED
  BY Zenon, <1>1, <1>2, <1>3, <1>4, <1>5, <1>6, <1>7, <1>8, <1>9, <1>10, <1>11, <1>12 DEF MakerStep

(* What the command after an event needs was needed before it, or is that     *)
(* event.                                                                     *)
LEMMA MakerNeedsOne ==
  ASSUME NEW cmd, NEW e, MakerAnswersOne(cmd, e)
  PROVE  e # "none" /\ MakerNeeds(MakerGetCommand(e)) \subseteq MakerNeeds(cmd) \cup {e}
BY Zenon, MakerCommands DEF MakerAnswersOne, MakerNeeds

(* The same for a handler that returns two events.                            *)
LEMMA MakerNeedsTwo ==
  ASSUME NEW cmd, NEW e, NEW f, MakerAnswersTwo(cmd, e, f)
  PROVE  /\ e # "none" /\ f # "none"
         /\ MakerNeeds(MakerGetCommand(e)) \subseteq MakerNeeds(cmd) \cup {e}
         /\ MakerNeeds(MakerGetCommand(f)) \subseteq MakerNeeds(cmd) \cup {e, f}
BY MakerCommands DEF MakerAnswersTwo, MakerNeeds, MakerRefundEvents

(* The answer of a handler keeps the log good for every restart.              *)
LEMMA MakerAnswersLog == ASSUME MakerLogInv, MakerAnswers PROVE MakerLogInv'
<1>1. CASE \E e : MakerAnswersOne(mCmd, e) /\ MakerReturns(MakerGetCommand(e), <<e>>)
  <2>1. PICK e : MakerAnswersOne(mCmd, e) /\ MakerReturns(MakerGetCommand(e), <<e>>)
    BY Zenon, <1>1
  <2>2. mOut' = <<e>> /\ mNext' = MakerGetCommand(e) /\ mPc' = "save" /\ UNCHANGED <<mCmd, mLog, mLast>>
    BY Zenon, <2>1 DEF MakerReturns
  <2>3. Len(mOut') = 1 /\ DOMAIN mOut' = {1} /\ mOut'[1] = e
    BY <2>2
  <2>4. MakerResumes(e) = MakerGetCommand(e) /\ MakerNeeds(MakerGetCommand(e)) \subseteq MakerNeeds(mCmd) \cup {e}
    BY <2>1, MakerNeedsOne, Zenon DEF MakerResumes
  <2>5. ASSUME NEW i \in DOMAIN mOut', NEW n \in MakerNeeds(MakerResumes(mOut'[i]))
        PROVE  n \in mLog' \/ \E j \in 1..i : mOut'[j] = n
    <3>1. i = 1 /\ i \in 1..i /\ mOut'[i] = e
      BY <2>3, <2>5
    <3>2. n \in MakerNeeds(mCmd) \/ n = e
      BY <2>4, <2>5, <3>1, Zenon
    <3>3. MakerNeeds(mCmd) \subseteq mLog
      BY Zenon DEF MakerLogInv, MakerAnswers
    <3>4. QED
      BY <2>2, <3>1, <3>2, <3>3, Zenon
  <2>6. QED
    BY Zenon, <2>2, <2>3, <2>4, <2>5 DEF MakerLogInv, MakerActive
<1>2. CASE \E e, f : MakerAnswersTwo(mCmd, e, f) /\ MakerReturns(MakerGetCommand(f), <<e, f>>)
  <2>1. PICK e, f : MakerAnswersTwo(mCmd, e, f) /\ MakerReturns(MakerGetCommand(f), <<e, f>>)
    BY Zenon, <1>2
  <2>2. mOut' = <<e, f>> /\ mNext' = MakerGetCommand(f) /\ mPc' = "save" /\ UNCHANGED <<mCmd, mLog, mLast>>
    BY Zenon, <2>1 DEF MakerReturns
  <2>3. Len(mOut') = 2 /\ DOMAIN mOut' = {1, 2} /\ mOut'[1] = e /\ mOut'[2] = f
    BY <2>2
  <2>4. /\ MakerResumes(e) = MakerGetCommand(e) /\ MakerNeeds(MakerGetCommand(e)) \subseteq MakerNeeds(mCmd) \cup {e}
        /\ MakerResumes(f) = MakerGetCommand(f) /\ MakerNeeds(MakerGetCommand(f)) \subseteq MakerNeeds(mCmd) \cup {e, f}
    BY <2>1, MakerNeedsTwo, Zenon DEF MakerResumes
  <2>5. ASSUME NEW i \in DOMAIN mOut', NEW n \in MakerNeeds(MakerResumes(mOut'[i]))
        PROVE  n \in mLog' \/ \E j \in 1..i : mOut'[j] = n
    <3>1. (i = 1 \/ i = 2) /\ 1 \in 1..1 /\ 1 \in 1..2 /\ 2 \in 1..2
      BY <2>3, <2>5
    <3>2. n \in MakerNeeds(mCmd) \/ n = e \/ (i = 2 /\ n = f)
      BY <2>3, <2>4, <2>5, <3>1, Zenon
    <3>3. MakerNeeds(mCmd) \subseteq mLog
      BY Zenon DEF MakerLogInv, MakerAnswers
    <3>4. QED
      BY <2>2, <2>3, <3>1, <3>2, <3>3, Zenon
  <2>6. QED
    BY Zenon, <2>2, <2>3, <2>4, <2>5 DEF MakerLogInv, MakerActive
<1>3. QED
  BY Zenon, <1>1, <1>2 DEF MakerAnswers

(* What the maker's save takes from the events it was given.                  *)
LEMMA MakerHeadTail ==
  ASSUME MakerTypeOK, mPc = "save"
  PROVE  /\ Head(mOut) = mOut[1] /\ 1 \in DOMAIN mOut
         /\ DOMAIN Tail(mOut) = 1..(Len(mOut) - 1) /\ DOMAIN mOut = 1..Len(mOut) /\ Len(mOut) \in Nat
         /\ \A i \in DOMAIN Tail(mOut) : i + 1 \in DOMAIN mOut /\ Tail(mOut)[i] = mOut[i + 1]
         /\ Len(Tail(mOut)) = Len(mOut) - 1
         /\ Tail(mOut) = <<>> <=> Len(mOut) = 1
<1>1. mOut \in Seq(MakerSwapEvent) /\ mOut # <<>>
  BY Zenon DEF MakerTypeOK
<1>2. Len(mOut) \in Nat /\ DOMAIN mOut = 1..Len(mOut) /\ Len(mOut) >= 1 /\ 1 \in DOMAIN mOut
  BY ONLY <1>1
<1>3. Tail(mOut) \in Seq(MakerSwapEvent) /\ Len(Tail(mOut)) = Len(mOut) - 1 /\ Head(mOut) = mOut[1]
  BY ONLY <1>1
<1>4. DOMAIN Tail(mOut) = 1..(Len(mOut) - 1)
  BY ONLY <1>1, <1>2, <1>3
<1>5. \A i \in DOMAIN Tail(mOut) : i + 1 \in DOMAIN mOut /\ Tail(mOut)[i] = mOut[i + 1]
  BY ONLY <1>1, <1>2, <1>4
<1>6. Tail(mOut) = <<>> <=> Len(mOut) = 1
  <2>1. ASSUME NEW s \in Seq(MakerSwapEvent) PROVE s = <<>> <=> Len(s) = 0
    BY ONLY s \in Seq(MakerSwapEvent)
  <2>2. ASSUME NEW k \in Nat PROVE k - 1 = 0 <=> k = 1
    OBVIOUS
  <2>3. QED
    BY <1>2, <1>3, <2>1, <2>2, Zenon
<1>7. QED
  BY <1>2, <1>3, <1>4, <1>5, <1>6, Zenon

(* So does the save of an event.                                              *)
LEMMA MakerSavesLog == ASSUME MakerTypeOK, MakerLogInv, MakerSaveEvent PROVE MakerLogInv'
<1> DEFINE e == mOut[1]
<1>1. mPc = "save" /\ mLog' = mLog \cup {e} /\ mLast' = e /\ mOut' = Tail(mOut)
  BY Zenon, MakerHeadTail DEF MakerSaveEvent
<1>2. MakerNeeds(MakerResumes(mLast')) \subseteq mLog' /\ mLast' # "none"
  <2>1. mOut \in Seq(MakerSwapEvent) /\ mOut # <<>>
    BY Zenon, <1>1 DEF MakerTypeOK
  <2>2. e \in MakerSwapEvent
    BY ONLY <2>1
  <2>3. "none" \notin MakerSwapEvent
    BY Zenon DEF MakerSwapEvent
  <2>4. 1 \in DOMAIN mOut /\ \A j \in 1..1 : j = 1
    BY <1>1, MakerHeadTail
  <2>5. \A n \in MakerNeeds(MakerResumes(e)) : n \in mLog \/ n = e
    <3>1. \A i \in DOMAIN mOut : \A n \in MakerNeeds(MakerResumes(mOut[i])) : n \in mLog \/ \E j \in 1..i : mOut[j] = n
      BY Zenon DEF MakerLogInv
    <3>2. \A n \in MakerNeeds(MakerResumes(e)) : n \in mLog \/ \E j \in 1..1 : mOut[j] = n
      BY ONLY <2>4, <3>1, Zenon
    <3>3. QED
      BY ONLY <2>4, <3>2, Zenon
  <2>6. mLast' = e /\ mLog' = mLog \cup {e}
    BY <1>1, Zenon
  <2> HIDE DEF e
  <2>7. QED
    BY Zenon, <2>2, <2>3, <2>5, <2>6
<1>3. ASSUME NEW i \in DOMAIN mOut', NEW n \in MakerNeeds(MakerResumes(mOut'[i]))
      PROVE  n \in mLog' \/ \E j \in 1..i : mOut'[j] = n
  <2>1. n \in mLog \/ \E j \in 1..(i + 1) : mOut[j] = n
    BY Zenon, <1>1, <1>3, MakerHeadTail DEF MakerLogInv
  <2>2. CASE \E j \in 1..(i + 1) : mOut[j] = n
    <3>1. PICK j \in 1..(i + 1) : mOut[j] = n
      BY Zenon, <2>2
    <3>2. i \in 1..(Len(mOut) - 1) /\ Len(mOut) \in Nat
      BY <1>1, <1>3, MakerHeadTail, Zenon
    <3>3. j # 1 => j - 1 \in 1..i /\ j - 1 \in 1..(Len(mOut) - 1) /\ (j - 1) + 1 = j
      BY <3>1, <3>2
    <3>4. j # 1 => mOut'[j - 1] = n
      BY <1>1, <3>1, <3>3, MakerHeadTail, Zenon
    <3>5. QED
      BY <1>1, <3>1, <3>3, <3>4, Zenon
  <2>3. QED
    BY <1>1, <2>1, <2>2, Zenon
<1>4. CASE Tail(mOut) = <<>>
  <2>1. mCmd' = MakerResumes(mLast') /\ mPc' = (IF mCmd' = "None" THEN "end" ELSE "run")
    BY Zenon, <1>1, <1>4, MakerHeadTail DEF MakerSaveEvent, MakerLogInv
  <2>2. mCmd' = "None" => mLast' = "Finished"
    BY Zenon, <2>1 DEF MakerResumes, MakerGetCommand
  <2>3. QED
    BY Zenon, <1>1, <1>2, <1>3, <1>4, <2>1, <2>2 DEF MakerLogInv, MakerActive
<1>5. CASE Tail(mOut) # <<>>
  <2>1. UNCHANGED <<mCmd, mPc, mNext>>
    BY Zenon, <1>5 DEF MakerSaveEvent
  <2>2. mNext' = MakerResumes(mOut'[Len(mOut')])
    <3>1. mNext = MakerResumes(mOut[Len(mOut)])
      BY <1>1, Zenon DEF MakerLogInv
    <3>2. /\ Len(Tail(mOut)) = Len(mOut) - 1 /\ Len(mOut) \in Nat /\ Len(mOut) # 1
          /\ 1 \in 1..Len(mOut) /\ DOMAIN Tail(mOut) = 1..(Len(mOut) - 1)
      BY <1>1, <1>5, MakerHeadTail, Zenon
    <3>3. Len(mOut) - 1 \in 1..(Len(mOut) - 1) /\ (Len(mOut) - 1) + 1 = Len(mOut)
      BY ONLY <3>2
    <3>4. Tail(mOut)[Len(mOut) - 1] = mOut[Len(mOut)]
      BY <1>1, <3>2, <3>3, MakerHeadTail, Zenon
    <3>5. QED
      BY <1>1, <2>1, <3>1, <3>2, <3>4, Zenon
  <2>3. QED
    BY Zenon, <1>1, <1>2, <1>3, <2>1, <2>2 DEF MakerLogInv, MakerActive
<1>6. QED
  BY Zenon, <1>4, <1>5

(* And the maker's log is good whatever step is taken.                        *)
LEMMA NextMakerLog == TypeOK /\ MakerLogInv /\ [Next]_vars => MakerLogInv'
<1> SUFFICES ASSUME TypeOK, MakerLogInv, [Next]_vars PROVE MakerLogInv'
  OBVIOUS
<1>1. CASE MakerStep
  <2>1. CASE MakerIsWaiting
    BY <2>1 DEF MakerIsWaiting, MakerWaits, MakerLogInv, MakerActive
  <2>2. QED
    BY Zenon, <1>1, <2>1, MakerStepShape, MakerAnswersLog, MakerSavesLog DEF TypeOK
<1>2. CASE MakerKickStart
  <2>2. UNCHANGED <<mOut, mNext, mLog, mLast>> /\ mPc = "down"
    BY Zenon, <1>2 DEF MakerKickStart
  <2>3. CASE "Started" \in mLog
    <3>1. mCmd' = MakerGetCommand(mLast) /\ mPc' = (IF MakerGetCommand(mLast) = "None" THEN "end" ELSE "run")
      BY Zenon, <1>2, <2>3 DEF MakerKickStart
    <3>2. MakerGetCommand(mLast) = "None" => mLast = "Finished"
      BY Zenon DEF MakerGetCommand
    <3>3. MakerResumes(mLast) = MakerGetCommand(mLast)
      BY Zenon, <2>3 DEF MakerLogInv, MakerResumes
    <3>4. QED
      BY <2>2, <3>1, <3>2, <3>3 DEF MakerLogInv, MakerActive
  <2>4. CASE "Started" \notin mLog
    BY <1>2, <2>2, <2>4 DEF MakerKickStart, MakerLogInv, MakerActive, MakerNeeds
  <2>5. QED
    BY Zenon, <2>3, <2>4
<1>3. CASE MakerCrash
  <2>1. mPc' = "down" /\ mCmd' = "None" /\ mOut' = <<>> /\ UNCHANGED <<mLog, mLast>>
    BY <1>3, Zenon DEF MakerCrash
  <2>2. MakerNeeds("None") = {}
    BY Zenon DEF MakerNeeds
  <2>3. QED
    BY <2>1, <2>2 DEF MakerLogInv, MakerActive
<1>4. CASE UNCHANGED makerVars
  BY <1>4 DEF makerVars, MakerLogInv
<1>5. QED
  BY Zenon, <1>1, <1>2, <1>3, <1>4 DEF Next, MakerRuns, MakerRecoverFunds, TakerRuns, Crash, ChainStep, Tick, Done, vars

-----------------------------------------------------------------------------
(* What the maker has saved, or is about to save, is what happened on chain.  *)

MakerUnpaid == {"Started", "Negotiated"}

MakerEarlyFailures == {"StartFailed", "NegotiateFailed", "TakerFeeValidateFailed"}

MakerRefundTail == {"MakerPaymentWaitRefundStarted", "MakerPaymentRefunded", "MakerPaymentRefundFailed", "Finished"}

MakerSaid(e) == e \in mLog \/ \E i \in DOMAIN mOut : mOut[i] = e

MakerOutcomeInv ==
  /\ mLast \in MakerUnpaid \cup {"none"} => makerTxs = 0
  /\ \A i \in DOMAIN mOut :
       /\ mOut[i] \in MakerUnpaid \cup MakerEarlyFailures => makerTxs = 0
       /\ mOut[i] \in MakerEarlyFailures \cup {"MakerPaymentWaitRefundStarted"} => i = Len(mOut)
  /\ (\E e \in MakerEarlyFailures : e \in mLog) =>
       /\ makerTxs = 0
       /\ mLast \in MakerEarlyFailures \cup {"Finished"}
       /\ \A i \in DOMAIN mOut : mOut[i] = "Finished"
  /\ "MakerPaymentWaitRefundStarted" \in mLog =>
       /\ mLast \in MakerRefundTail
       /\ \A i \in DOMAIN mOut : mOut[i] \in MakerRefundTail
  /\ MakerSaid("TakerPaymentSpendConfirmed") => takerPayment = "spent"
  /\ MakerSaid("MakerPaymentRefunded") => makerPayment = "refunded"

(* What may follow the last event that was saved.                             *)
LEMMA MakerAnswerKinds ==
  ASSUME TypeOK, MakerLogInv, mPc \in MakerActive
  PROVE  /\ \A e : MakerAnswersOne(mCmd, e) =>
              /\ e \in MakerUnpaid \cup MakerEarlyFailures => mLast \in MakerUnpaid \cup {"none"}
              /\ mLast \in MakerEarlyFailures \cup {"Finished"} => e = "Finished"
              /\ mLast \in MakerRefundTail => e \in MakerRefundTail
         /\ \A e, f : MakerAnswersTwo(mCmd, e, f) =>
              /\ mLast \notin MakerEarlyFailures \cup MakerRefundTail
              /\ e \notin MakerUnpaid \cup MakerEarlyFailures /\ f \notin MakerUnpaid \cup MakerEarlyFailures
              /\ e \notin {"TakerPaymentSpendConfirmed", "MakerPaymentRefunded", "MakerPaymentWaitRefundStarted"}
              /\ f \notin {"TakerPaymentSpendConfirmed", "MakerPaymentRefunded"}
         /\ mCmd = "SendPayment" => mLast = "TakerFeeValidated"
         /\ mLast \in MakerRefundTail => mCmd # "SpendTakerPayment"
<1> USE DEF MakerUnpaid, MakerEarlyFailures, MakerRefundTail
<1>1. mCmd = (IF mLast = "none" THEN "Start" ELSE MakerGetCommand(mLast))
  BY Zenon DEF MakerLogInv, MakerResumes
<1>2. /\ mCmd = "Start" => mLast = "none"
      /\ mCmd = "Negotiate" => mLast = "Started"
      /\ mCmd = "WaitForTakerFee" => mLast = "Negotiated"
      /\ mCmd = "SendPayment" => mLast = "TakerFeeValidated"
  BY Zenon, <1>1 DEF MakerGetCommand, MakerRefundEvents
<1>3. mLast \in MakerEarlyFailures \cup {"Finished"} => mCmd \in {"Finish", "None"}
  BY Zenon, <1>1, MakerCommands
<1>4. mLast \in MakerRefundTail => mCmd \in {"RefundMakerPayment", "Finish", "None"}
  BY <1>1, MakerCommands DEF MakerRefundEvents
<1>5. ASSUME NEW e, MakerAnswersOne(mCmd, e)
      PROVE  /\ e \in MakerUnpaid \cup MakerEarlyFailures => mLast \in MakerUnpaid \cup {"none"}
             /\ mLast \in MakerEarlyFailures \cup {"Finished"} => e = "Finished"
             /\ mLast \in MakerRefundTail => e \in MakerRefundTail
  BY Zenon, <1>2, <1>3, <1>4, <1>5 DEF MakerAnswersOne
<1>6. ASSUME NEW e, NEW f, MakerAnswersTwo(mCmd, e, f)
      PROVE  /\ mLast \notin MakerEarlyFailures \cup MakerRefundTail
             /\ e \notin MakerUnpaid \cup MakerEarlyFailures /\ f \notin MakerUnpaid \cup MakerEarlyFailures
             /\ e \notin {"TakerPaymentSpendConfirmed", "MakerPaymentRefunded", "MakerPaymentWaitRefundStarted"}
             /\ f \notin {"TakerPaymentSpendConfirmed", "MakerPaymentRefunded"}
  BY Zenon, <1>3, <1>4, <1>6 DEF MakerAnswersTwo
<1>7. QED
  BY <1>2, <1>4, <1>5, <1>6, Zenon

(* A spend is reported as confirmed once it is mined, a refund once it is     *)
(* accepted.                                                                  *)
LEMMA MakerStepSays ==
  ASSUME MakerStep, mPc \in MakerActive, mPc' = "save"
  PROVE  /\ mOut'[1] = "TakerPaymentSpendConfirmed" => takerPayment' = "spent"
         /\ mOut'[1] = "MakerPaymentRefunded" => makerPayment' = "refunded"
<1> USE DEF MakerReturns, MakerWaits, MakerActive
<1>1. CASE MakerStart \/ MakerNegotiate \/ MakerNegotiateRecv(tStartedAt)
  BY <1>1 DEF MakerStart, MakerNegotiate, MakerNegotiateRecv
<1>2. CASE MakerWaitForTakerFee \/ MakerTakerFeeRecv
  <2>1. CASE MakerWaitForTakerFee
    BY Zenon, <2>1 DEF MakerWaitForTakerFee
  <2>2. CASE MakerTakerFeeRecv
    BY <2>2 DEF MakerTakerFeeRecv
  <2>3. QED
    BY Zenon, <1>2, <2>1, <2>2
<1>3. CASE MakerSendPayment
  BY <1>3 DEF MakerSendPayment
<1>4. CASE MakerWaitForTakerPayment \/ MakerPaymentConfirm
  BY <1>4 DEF MakerWaitForTakerPayment, MakerPaymentConfirm, MakerRefundsAfter
<1>5. CASE MakerTakerPaymentRecv \/ MakerValidateTakerPayment
  BY <1>5 DEF MakerTakerPaymentRecv, MakerValidateTakerPayment, MakerRefundsAfter
<1>6. CASE MakerSpendTakerPayment
  BY <1>6 DEF MakerSpendTakerPayment, MakerRefundsAfter
<1>7. CASE MakerConfirmTakerPaymentSpend
  BY <1>7 DEF MakerConfirmTakerPaymentSpend, MakerRefundsAfter, chainVars
<1>8. CASE MakerRefundMakerPayment
  BY <1>8 DEF MakerRefundMakerPayment
<1>9. CASE MakerFinish \/ MakerSaveEvent
  BY <1>9 DEF MakerFinish, MakerSaveEvent
<1>10. QED
  BY ZenonT(40), <1>1, <1>2, <1>3, <1>4, <1>5, <1>6, <1>7, <1>8, <1>9 DEF MakerStep

(* Only maker_payment sends a maker payment.                                  *)
LEMMA MakerTxsChange ==
  ASSUME [Next]_vars, makerTxs' # makerTxs
  PROVE  MakerRuns /\ MakerSendPayment
<1>1. CASE MakerRuns /\ MakerPays
  BY <1>1, ZenonT(40) DEF MakerPays, MakerSpendTakerPayment, MakerRefundMakerPayment, MakerRecoverFunds
<1>2. CASE TakerPays
  BY <1>2, Zenon DEF TakerPays, TakerSendTakerFee, TakerSendTakerPayment, TakerSpendMakerPayment, TakerRefundSend,
       TakerRecoverFunds
<1>3. CASE UNCHANGED chainVars \/ ChainStep
  BY Zenon, <1>3 DEF chainVars, ChainStep, MakerPaymentMined, TakerPaymentMined
<1>4. QED
  BY Zenon, <1>1, <1>2, <1>3, NextPays

(* A mined spend of the taker payment, and a refund of the maker payment,     *)
(* are final.                                                                 *)
LEMMA FinalStays ==
  ASSUME TypeOK, MakerSafetyInv, PaidInv, [Next]_vars
  PROVE  /\ takerPayment = "spent" => takerPayment' = "spent"
         /\ takerPayment = "refunded" => takerPayment' = "refunded"
         /\ makerPayment = "refunded" => makerPayment' = "refunded"
         /\ makerPayment \in {"spending", "spent", "refunded"} => makerPayment' \in {"spending", "spent", "refunded"}
         /\ makerPayment \notin {"none", "unconfirmed"} => makerPayment' \notin {"none", "unconfirmed"}
<1>1. CASE makerPayment' # makerPayment
  BY Zenon, <1>1, MakerPaymentStep
<1>2. CASE takerPayment' # takerPayment
  BY Zenon, <1>2, TakerPaymentStep
<1>3. QED
  BY Zenon, <1>1, <1>2

(* Every step keeps what the maker saved true of the chain.                   *)
LEMMA NextMakerOutcome ==
  TypeOK /\ MakerSafetyInv /\ PaidInv /\ MakerLogInv /\ MakerOutcomeInv /\ [Next]_vars => MakerOutcomeInv'
<1> SUFFICES ASSUME TypeOK, MakerSafetyInv, PaidInv, MakerLogInv, MakerOutcomeInv, [Next]_vars
             PROVE  MakerOutcomeInv'
  BY Zenon
<1>1. CASE MakerStep /\ MakerAnswers
  <2>1. UNCHANGED <<mLog, mLast>> /\ mPc \in MakerActive /\ mPc' = "save"
    BY Zenon, <1>1 DEF MakerAnswers, MakerReturns
  <2>2. makerTxs' # makerTxs => mLast = "TakerFeeValidated"
    BY <2>1, MakerTxsChange, MakerAnswerKinds, Zenon DEF MakerSendPayment, MakerAt
  <2>3. /\ mLast \in MakerUnpaid \cup {"none"} => makerTxs' = 0
        /\ (\E e \in MakerEarlyFailures : e \in mLog) => makerTxs' = 0
    BY Zenon, <2>2 DEF MakerOutcomeInv, MakerUnpaid, MakerEarlyFailures
  <2>4. /\ "TakerPaymentSpendConfirmed" \in mLog => takerPayment' = "spent"
        /\ "MakerPaymentRefunded" \in mLog => makerPayment' = "refunded"
    BY Zenon, FinalStays DEF MakerOutcomeInv, MakerSaid
  <2>5. CASE \E e : MakerAnswersOne(mCmd, e) /\ MakerReturns(MakerGetCommand(e), <<e>>)
    <3>1. PICK e : MakerAnswersOne(mCmd, e) /\ MakerReturns(MakerGetCommand(e), <<e>>)
      BY Zenon, <2>5
    <3>2. DOMAIN mOut' = {1} /\ mOut'[1] = e /\ Len(mOut') = 1
      BY <3>1 DEF MakerReturns
    <3>3. /\ e \in MakerUnpaid \cup MakerEarlyFailures => mLast \in MakerUnpaid \cup {"none"}
          /\ mLast \in MakerEarlyFailures \cup {"Finished"} => e = "Finished"
          /\ mLast \in MakerRefundTail => e \in MakerRefundTail
      BY <2>1, <3>1, MakerAnswerKinds, Zenon
    <3>4. /\ e = "TakerPaymentSpendConfirmed" => takerPayment' = "spent"
          /\ e = "MakerPaymentRefunded" => makerPayment' = "refunded"
      BY Zenon, <1>1, <2>1, <3>2, MakerStepSays
    <3>5. QED
      BY Zenon, <2>1, <2>3, <2>4, <3>2, <3>3, <3>4 DEF MakerOutcomeInv, MakerSaid
  <2>6. CASE \E e, f : MakerAnswersTwo(mCmd, e, f) /\ MakerReturns(MakerGetCommand(f), <<e, f>>)
    <3>1. PICK e, f : MakerAnswersTwo(mCmd, e, f) /\ MakerReturns(MakerGetCommand(f), <<e, f>>)
      BY Zenon, <2>6
    <3>2. DOMAIN mOut' = {1, 2} /\ mOut'[1] = e /\ mOut'[2] = f /\ Len(mOut') = 2
      BY <3>1 DEF MakerReturns
    <3>3. /\ mLast \notin MakerEarlyFailures \cup MakerRefundTail
          /\ e \notin MakerUnpaid \cup MakerEarlyFailures /\ f \notin MakerUnpaid \cup MakerEarlyFailures
          /\ e \notin {"TakerPaymentSpendConfirmed", "MakerPaymentRefunded", "MakerPaymentWaitRefundStarted"}
          /\ f \notin {"TakerPaymentSpendConfirmed", "MakerPaymentRefunded"}
      BY <2>1, <3>1, MakerAnswerKinds, Zenon
    <3>4. "MakerPaymentWaitRefundStarted" \notin mLog /\ \A x \in MakerEarlyFailures : x \notin mLog
      BY Zenon, <3>3 DEF MakerOutcomeInv, MakerRefundTail
    <3>5. QED
      BY Zenon, <2>1, <2>3, <2>4, <3>2, <3>3, <3>4 DEF MakerOutcomeInv, MakerSaid
  <2>7. QED
    BY Zenon, <1>1, <2>5, <2>6 DEF MakerAnswers
<1>2. CASE MakerStep /\ MakerSaveEvent
  <2>1. makerTxs' = makerTxs
    BY Zenon, <1>2 DEF MakerSaveEvent, chainVars
  <2>2. /\ mLog' = mLog \cup {mOut[1]} /\ mLast' = mOut[1] /\ 1 \in DOMAIN mOut
        /\ Len(mOut) \in Nat /\ Len(mOut') = Len(mOut) - 1 /\ DOMAIN mOut' = 1..Len(mOut')
        /\ \A i \in DOMAIN mOut' : i + 1 \in DOMAIN mOut /\ mOut'[i] = mOut[i + 1]
    BY <1>2, MakerHeadTail, ZenonT(40) DEF MakerSaveEvent, TypeOK
  <2>3. \A e : MakerSaid(e)' => MakerSaid(e)
    BY Zenon, <2>2 DEF MakerSaid
  <2>4. mOut[1] \in MakerEarlyFailures \cup {"MakerPaymentWaitRefundStarted"} => DOMAIN mOut' = {}
    <3>1. mOut[1] \in MakerEarlyFailures \cup {"MakerPaymentWaitRefundStarted"} => 1 = Len(mOut)
      BY Zenon, <2>2 DEF MakerOutcomeInv
    <3>2. QED
      BY ONLY <2>2, <3>1
  <2>5. ASSUME NEW i \in DOMAIN mOut'
        PROVE  /\ mOut'[i] \in MakerUnpaid \cup MakerEarlyFailures => makerTxs' = 0
               /\ mOut'[i] \in MakerEarlyFailures \cup {"MakerPaymentWaitRefundStarted"} => i = Len(mOut')
    BY <2>1, <2>2, <2>5 DEF MakerOutcomeInv
  <2>6. mLast' \in MakerUnpaid \cup {"none"} => makerTxs' = 0
    <3>1. mOut[1] # "none"
      <4>1. mOut \in Seq(MakerSwapEvent)
        BY Zenon DEF TypeOK, MakerTypeOK
      <4>2. mOut[1] \in MakerSwapEvent
        BY ONLY <2>2, <4>1
      <4>3. QED
        BY Zenon, <4>2 DEF MakerSwapEvent
    <3>2. QED
      BY Zenon, <2>1, <2>2, <3>1 DEF MakerOutcomeInv
  <2>7. ASSUME \E e \in MakerEarlyFailures : e \in mLog'
        PROVE  /\ makerTxs' = 0
               /\ mLast' \in MakerEarlyFailures \cup {"Finished"}
               /\ \A i \in DOMAIN mOut' : mOut'[i] = "Finished"
    BY Zenon, <2>1, <2>2, <2>4, <2>7 DEF MakerOutcomeInv
  <2>8. ASSUME "MakerPaymentWaitRefundStarted" \in mLog'
        PROVE  mLast' \in MakerRefundTail /\ \A i \in DOMAIN mOut' : mOut'[i] \in MakerRefundTail
    BY Zenon, <2>2, <2>4, <2>8 DEF MakerOutcomeInv, MakerRefundTail
  <2>9. /\ MakerSaid("TakerPaymentSpendConfirmed")' => takerPayment' = "spent"
        /\ MakerSaid("MakerPaymentRefunded")' => makerPayment' = "refunded"
    BY Zenon, <2>3, FinalStays DEF MakerOutcomeInv
  <2>10. QED
    BY Zenon, <2>5, <2>6, <2>7, <2>8, <2>9 DEF MakerOutcomeInv
<1>3. CASE UNCHANGED <<mLog, mLast>> /\ (mOut' = mOut \/ mOut' = <<>>) /\ makerTxs' = makerTxs
  <2>1. \A e : MakerSaid(e)' => MakerSaid(e)
    BY <1>3 DEF MakerSaid
  <2>2. QED
    BY <1>3, <2>1, FinalStays DEF MakerOutcomeInv
<1>4. CASE MakerStep /\ MakerIsWaiting
  <2>1. ~MakerSendPayment
    BY Zenon, <1>4 DEF MakerIsWaiting, MakerWaits, MakerSendPayment, MakerReturns, MakerActive
  <2>2. QED
    BY Zenon, <1>3, <1>4, <2>1, MakerTxsChange DEF MakerIsWaiting, MakerWaits
<1>5. CASE ~MakerStep
  <2>1. makerTxs' = makerTxs
    BY Zenon, <1>5, MakerTxsChange DEF MakerStep
  <2>2. UNCHANGED <<mLog, mLast>> /\ (mOut' = mOut \/ mOut' = <<>>)
    BY <1>5, Zenon DEF Next, MakerRuns, MakerKickStart, MakerRecoverFunds, TakerRuns, Crash, MakerCrash, ChainStep, Tick,
         Done, vars, makerVars
  <2>3. QED
    BY Zenon, <1>3, <2>1, <2>2
<1>6. QED
  BY Zenon, <1>1, <1>2, <1>4, <1>5, MakerStepShape

(* The maker's log is good for every restart, for every value of the          *)
(* constants.                                                                 *)
LEMMA MakerLogCorrect == Spec => []MakerLogInv
<1>1. Init => MakerLogInv
  BY DEF Init, MakerInit, MakerLogInv, MakerNeeds, MakerResumes, MakerActive
<1>2. QED
  BY <1>1, NextMakerLog, TypeCorrect, PTL DEF Spec

(* And it is true of the chain.                                               *)
LEMMA MakerOutcomeCorrect == Spec => []MakerOutcomeInv
<1>1. Init => MakerOutcomeInv
  BY DEF Init, ChainInit, MakerInit, MakerOutcomeInv, MakerSaid
<1>2. QED
  BY <1>1, NextMakerOutcome, TypeCorrect, MakerSafetyCorrect, LegacyPaid, MakerLogCorrect, PTL DEF Spec

(* What a maker's handler unwraps was saved before it runs, also when a       *)
(* restart chose its command after a crash between two events of a handler.   *)
THEOREM MakerData == Spec => []MakerDataPresent
<1>1. MakerLogInv => MakerDataPresent
  BY Zenon DEF MakerLogInv, MakerDataPresent, MakerNeeds
<1>2. QED
  BY <1>1, MakerLogCorrect, PTL

(* A maker's swap that ends with its payment on chain and nothing received is *)
(* reported by is_recoverable and accepted by recover_funds.                  *)
THEOREM MakerLeftover == Spec => []MakerLeftoverIsRecoverable
<1>1. TypeOK /\ MakerSafetyInv /\ MakerLogInv /\ MakerOutcomeInv => MakerLeftoverIsRecoverable
  <2> SUFFICES ASSUME TypeOK, MakerSafetyInv, MakerLogInv, MakerOutcomeInv,
                      mPc = "end", Unspent(makerPayment), ~SpendSeen(takerPayment)
               PROVE  MakerIsRecoverable /\ MakerMayRecover
    BY Zenon DEF MakerLeftoverIsRecoverable
  <2>1. "Finished" \in mLog
    BY Zenon DEF MakerLogInv, MakerSafetyInv, NegotiatedInv
  <2>2. makerTxs > 0 /\ makerTxs # 0
    BY DEF MakerSafetyInv, CountedInv, Unspent, TypeOK, ChainTypeOK
  <2>3. "TakerPaymentSpendConfirmed" \notin mLog /\ "MakerPaymentRefunded" \notin mLog
    BY Zenon DEF MakerOutcomeInv, MakerSaid, Unspent, SpendSeen
  <2>4. \A e \in MakerEarlyFailures : e \notin mLog
    BY Zenon, <2>2 DEF MakerOutcomeInv
  <2>5. MakerIsRecoverable
    BY Zenon, <2>1, <2>3, <2>4 DEF MakerIsRecoverable, MakerEarlyFailures
  <2>6. QED
    BY Zenon, <2>1, <2>2, <2>3, <2>5 DEF MakerMayRecover, PaymentFound
<1>2. QED
  BY <1>1, TypeCorrect, MakerSafetyCorrect, MakerLogCorrect, MakerOutcomeCorrect, PTL

(* The secret is published by spend_taker_payment in the first four fifths of *)
(* lock_duration, and by no maker that has saved MakerPaymentWaitRefundStarted. *)
THEOREM MakerSecretInTime == Spec => MakerRevealsSecretInTime
<1> DEFINE InTime ==
      takerPayment' = "spending" /\ takerPayment # "spending" =>
        \/ now <= mStartedAt + (4 * LockDuration) \div 5 /\ "MakerPaymentWaitRefundStarted" \notin mLog
        \/ SpendSeen(makerPayment)
<1>1. TypeOK /\ MakerSafetyInv /\ MakerLogInv /\ MakerOutcomeInv /\ [Next]_vars => [InTime]_vars
  <2> SUFFICES ASSUME TypeOK, MakerSafetyInv, MakerLogInv, MakerOutcomeInv, [Next]_vars,
                      takerPayment' = "spending", takerPayment # "spending"
               PROVE  now <= mStartedAt + (4 * LockDuration) \div 5 /\ "MakerPaymentWaitRefundStarted" \notin mLog
    BY Zenon
  <2>1. MakerSpendTakerPayment /\ now <= TakerPaymentSpendBy
    BY Zenon, SpendAppears
  <2>2. mPc \in MakerActive /\ mCmd = "SpendTakerPayment"
    BY Zenon, <2>1 DEF MakerSpendTakerPayment, MakerAt, MakerActive
  <2>3. mLast \notin MakerRefundTail
    BY Zenon, <2>2, MakerAnswerKinds
  <2>4. QED
    BY Zenon, <2>1, <2>3 DEF TakerPaymentSpendBy, MakerOutcomeInv
<1>2. QED
  BY <1>1, TypeCorrect, MakerSafetyCorrect, MakerLogCorrect, MakerOutcomeCorrect, PTL
    DEF Spec, MakerRevealsSecretInTime

=============================================================================
