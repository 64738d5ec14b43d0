----------------------------- MODULE TakerSwap -----------------------------
(* The taker's side of a legacy swap, driven by run_taker_swap the way        *)
(* run_maker_swap drives the maker's.  The taker learns the secret from the   *)
(* maker's spend of the taker payment, and looks for that spend again while   *)
(* it waits to refund.                                                        *)
EXTENDS SwapChain, Sequences

CONSTANT FeeWaived  \* does compute_dex_fee_with_taker_pubkey give NoFee?

ASSUME FeeAssumption == FeeWaived \in BOOLEAN

VARIABLES
  tCmd,       \* the command being handled, "None" once there is none
  tPc,        \* where its handler stands
  tOut,       \* events returned by the handler that are not saved yet
  tNext,      \* the command the handler returned
  tLog,       \* the events saved so far
  tLast,      \* the last saved event, "none" before the first one
  tStartedAt, \* data.started_at
  tUntil,     \* deadline of the wait under way
  tFresh      \* started_in_this_process

takerVars == <<tCmd, tPc, tOut, tNext, tLog, tLast, tStartedAt, tUntil, tFresh>>

TakerSwapCommand ==
  {"Start", "Negotiate", "SendTakerFee", "WaitForMakerPayment", "ValidateMakerPayment", "SendTakerPayment",
   "WaitForTakerPaymentSpend", "SpendMakerPayment", "RefundTakerPayment", "Finish", "None"}

(* The events that the handlers return.                                       *)
TakerSwapEvent ==
  {"Started", "StartFailed", "Negotiated", "NegotiateFailed", "TakerFeeSent", "TakerFeeSendFailed",
   "MakerPaymentReceived", "MakerPaymentWaitConfirmStarted", "MakerPaymentValidatedAndConfirmed",
   "MakerPaymentValidateFailed", "MakerPaymentWaitConfirmFailed", "TakerPaymentSent",
   "TakerPaymentTransactionFailed", "TakerPaymentWaitConfirmFailed", "TakerPaymentSpent",
   "TakerPaymentWaitForSpendFailed", "MakerPaymentSpent", "MakerPaymentSpendFailed",
   "TakerPaymentWaitRefundStarted", "TakerPaymentRefunded", "TakerPaymentRefundFailed", "Finished"}

(* As for the maker; ack: the second receive of the negotiation, spend: the   *)
(* wait for the maker's spend, gate: the wait of the refund.                  *)
TakerPc == {"run", "recv", "ack", "confirm", "spend", "gate", "save", "end", "down", "lost"}

taker_payment_lock == tStartedAt + LockDuration

taker_wait_refund_until == taker_payment_lock + RefundGrace

(* The times at which the taker no longer pays the fee, no longer waits for   *)
(* the maker payment or sends its own, no longer waits for confirmations.     *)
TakerFeeSendBy == tStartedAt + LockDuration \div 3

maker_payment_wait == tStartedAt + (2 * LockDuration) \div 5

TakerPaymentConfirmBy == tStartedAt + (4 * LockDuration) \div 5

(* The events after which the taker payment is to be refunded.                *)
TakerRefundEventsBeforeSend ==
  {"TakerPaymentTransactionFailed", "TakerPaymentWaitForSpendFailed", "TakerPaymentWaitConfirmFailed",
   "MakerPaymentSpendFailed", "TakerPaymentWaitRefundStarted"}

TakerRefundEvents ==
  {"TakerPaymentWaitForSpendFailed", "TakerPaymentWaitConfirmFailed", "MakerPaymentSpendFailed",
   "TakerPaymentWaitRefundStarted"}

(* TakerSavedEvent::get_command, the command a restarted swap resumes with.   *)
TakerGetCommand(event) ==
  CASE event = "Started" -> "Negotiate"
    [] event = "Negotiated" -> "SendTakerFee"
    [] event = "TakerFeeSent" -> "WaitForMakerPayment"
    [] event \in {"MakerPaymentReceived", "MakerPaymentWaitConfirmStarted"} -> "ValidateMakerPayment"
    [] event = "MakerPaymentValidatedAndConfirmed" -> "SendTakerPayment"
    [] event = "TakerPaymentSent" -> "WaitForTakerPaymentSpend"
    [] event = "TakerPaymentSpent" -> "SpendMakerPayment"
    [] event \in TakerRefundEvents -> "RefundTakerPayment"
    [] event = "Finished" -> "None"
    [] OTHER -> "Finish"

TakerReturns(next, events) ==
  /\ tOut' = events
  /\ tNext' = next
  /\ tPc' = "save"
  /\ tUntil' = 0
  /\ UNCHANGED <<tCmd, tLog, tLast, tFresh>>

TakerAt(cmd, pc) == tCmd = cmd /\ tPc = pc

TakerWaits(pc, until) ==
  /\ tPc' = pc
  /\ tUntil' = until
  /\ UNCHANGED <<tCmd, tOut, tNext, tLog, tLast, tFresh>>

TakerInit ==
  /\ tCmd = "Start"
  /\ tPc = "run"
  /\ tOut = <<>>
  /\ tNext = "None"
  /\ tLog = {}
  /\ tLast = "none"
  /\ tStartedAt = 0
  /\ tUntil = 0
  /\ tFresh = TRUE

TakerStart ==
  /\ TakerAt("Start", "run")
  /\ \/ TakerReturns("Negotiate", <<"Started">>) /\ tStartedAt' = now
     \/ CoinErrors /\ TakerReturns("Finish", <<"StartFailed">>) /\ UNCHANGED tStartedAt
  /\ UNCHANGED <<chainVars, net>>

TakerNegotiate ==
  /\ TakerAt("Negotiate", "run")
  /\ TakerWaits("recv", now + NegotiationWait)
  /\ UNCHANGED <<chainVars, net, tStartedAt>>

(* The maker's data carries its started_at; once it is checked the taker      *)
(* answers with its own and waits for the acknowledgement.                    *)
TakerNegotiateRecv(makerStartedAt) ==
  /\ TakerAt("Negotiate", "recv")
  /\ \/ /\ Received("Negotiation")
        /\ tStartedAt - makerStartedAt \in -MaxTimeDif..MaxTimeDif
        /\ Broadcast("NegotiationReply")
        /\ TakerWaits("ack", now + NegotiationWait)
     \/ /\ \/ now > tUntil
           \/ /\ Received("Negotiation")
              /\ CoinErrors \/ tStartedAt - makerStartedAt \notin -MaxTimeDif..MaxTimeDif
        /\ TakerReturns("Finish", <<"NegotiateFailed">>)
        /\ UNCHANGED net
  /\ UNCHANGED <<chainVars, tStartedAt>>

TakerNegotiateAck ==
  /\ TakerAt("Negotiate", "ack")
  /\ \/ /\ Received("Negotiated")
        /\ TakerReturns("SendTakerFee", <<"Negotiated">>)
     \/ /\ now > tUntil \/ (Received("Negotiated") /\ CoinErrors)
        /\ TakerReturns("Finish", <<"NegotiateFailed">>)
  /\ UNCHANGED <<chainVars, net, tStartedAt>>

(* The fee is sent without asking whether it was sent before.                 *)
TakerSendTakerFee ==
  /\ TakerAt("SendTakerFee", "run")
  /\ LET send == takerFees' = IF FeeWaived THEN takerFees ELSE Counted(takerFees)
         failed == TakerReturns("Finish", <<"TakerFeeSendFailed">>)
     IN \/ now > TakerFeeSendBy /\ UNCHANGED takerFees /\ failed
        \/ now <= TakerFeeSendBy /\ send /\ TakerReturns("WaitForMakerPayment", <<"TakerFeeSent">>)
        \/ CoinErrors /\ ~FeeWaived /\ now <= TakerFeeSendBy /\ (send \/ UNCHANGED takerFees) /\ failed
  /\ UNCHANGED <<makerPayment, takerPayment, makerTxs, takerTxs, makerSpendAt, takerSpendAt, net, tStartedAt>>

TakerWaitForMakerPayment ==
  /\ TakerAt("WaitForMakerPayment", "run")
  /\ Broadcast("TakerFee")
  /\ TakerWaits("recv", now + FeeWait)
  /\ UNCHANGED <<chainVars, tStartedAt>>

TakerMakerPaymentRecv ==
  /\ TakerAt("WaitForMakerPayment", "recv")
  /\ \/ /\ Received("MakerPayment")
        /\ TakerReturns("ValidateMakerPayment", <<"MakerPaymentReceived", "MakerPaymentWaitConfirmStarted">>)
     \/ /\ now > tUntil \/ (Received("MakerPayment") /\ CoinErrors)
        /\ TakerReturns("Finish", <<"MakerPaymentValidateFailed">>)
  /\ UNCHANGED <<chainVars, net, tStartedAt>>

TakerValidateMakerPayment ==
  /\ TakerAt("ValidateMakerPayment", "run")
  /\ \/ /\ ConfirmedBy(makerPayment, maker_payment_wait)
        /\ \/ TakerReturns("SendTakerPayment", <<"MakerPaymentValidatedAndConfirmed">>)
           \/ CoinErrors /\ TakerReturns("Finish", <<"MakerPaymentValidateFailed">>)
     \/ /\ now > maker_payment_wait \/ CoinErrors
        /\ TakerReturns("Finish", <<"MakerPaymentWaitConfirmFailed">>)
  /\ UNCHANGED <<chainVars, net, tStartedAt>>

(* As for the maker's payment, with the stored deadline maker_payment_wait.   *)
TakerSkipsQuestionAfterRestart == RandomHtlcKey /\ "TakerPaymentSent" \notin tLog

TakerSkipsQuestion == RandomHtlcKey /\ tFresh /\ "TakerPaymentSent" \notin tLog

TakerSendTakerPayment ==
  /\ TakerAt("SendTakerPayment", "run")
  /\ LET found == ~TakerSkipsQuestion /\ PaymentFound(takerTxs)
         send == /\ takerTxs' = Counted(takerTxs)
                 /\ takerPayment' = IF takerTxs = 0 THEN "unconfirmed" ELSE takerPayment
         failed == TakerReturns("Finish", <<"TakerPaymentTransactionFailed">>)
         unsent == UNCHANGED <<takerTxs, takerPayment>>
     IN \/ found /\ unsent /\ TakerReturns("WaitForTakerPaymentSpend", <<"TakerPaymentSent">>)
        \/ CoinErrors /\ ~TakerSkipsQuestion /\ unsent /\ failed
        \/ ~found /\ now > maker_payment_wait /\ unsent /\ failed
        \/ ~found /\ now <= maker_payment_wait /\ send
           /\ TakerReturns("WaitForTakerPaymentSpend", <<"TakerPaymentSent">>)
        \/ CoinErrors /\ ~found /\ now <= maker_payment_wait /\ (send \/ unsent) /\ failed
  /\ UNCHANGED <<makerPayment, makerTxs, takerFees, makerSpendAt, takerSpendAt, net, tStartedAt>>

TakerWaitForTakerPaymentSpend ==
  /\ TakerAt("WaitForTakerPaymentSpend", "run")
  /\ Broadcast("TakerPayment")
  /\ TakerWaits("confirm", TakerPaymentConfirmBy)
  /\ UNCHANGED <<chainVars, tStartedAt>>

TakerRefundsAfter(event) ==
  TakerReturns("RefundTakerPayment", <<event, "TakerPaymentWaitRefundStarted">>)

TakerPaymentConfirm ==
  /\ TakerAt("WaitForTakerPaymentSpend", "confirm")
  /\ \/ /\ ConfirmedBy(takerPayment, tUntil)
        /\ TakerWaits("spend", taker_payment_lock)
     \/ /\ now > tUntil \/ CoinErrors
        /\ TakerRefundsAfter("TakerPaymentWaitConfirmFailed")
  /\ UNCHANGED <<chainVars, net, tStartedAt>>

(* wait_for_tx_spend looks for a spend before it looks at the time; a spend   *)
(* that is not mined may be overlooked.                                       *)
TakerPaymentSpendFound ==
  /\ TakerAt("WaitForTakerPaymentSpend", "spend")
  /\ \/ /\ SpendSeen(takerPayment)
        /\ \/ TakerReturns("SpendMakerPayment", <<"TakerPaymentSpent">>)
           \/ CoinErrors /\ TakerReturns("Finish", <<"TakerPaymentWaitForSpendFailed">>)
     \/ /\ now > tUntil
        /\ takerPayment # "spent" \/ CoinErrors
        /\ TakerRefundsAfter("TakerPaymentWaitForSpendFailed")
  /\ UNCHANGED <<chainVars, net, tStartedAt>>

TakerSpendMakerPayment ==
  /\ TakerAt("SpendMakerPayment", "run")
  /\ LET spend == makerPayment = "confirmed" /\ makerPayment' = "spending" /\ makerSpendAt' = now
         unsent == UNCHANGED <<makerPayment, makerSpendAt>>
         again == makerPayment = "spending" /\ unsent
         failed == TakerReturns("Finish", <<"MakerPaymentSpendFailed">>)
     IN \/ (spend \/ again) /\ TakerReturns("Finish", <<"MakerPaymentSpent">>)
        \/ (makerPayment # "confirmed" \/ CoinErrors) /\ unsent /\ failed
        \/ CoinErrors /\ spend /\ failed
  /\ UNCHANGED <<takerPayment, makerTxs, takerTxs, takerFees, takerSpendAt, net, tStartedAt>>

(* refund_outcome_from_chain: a look for a spend or a refund of the taker     *)
(* payment, not made once a spend is recorded.                                *)
TakerRefundOutcome ==
  /\ "TakerPaymentSpent" \notin tLog
  /\ \/ SpendSeen(takerPayment) /\ TakerReturns("SpendMakerPayment", <<"TakerPaymentSpent">>)
     \/ takerPayment = "refunded" /\ TakerReturns("Finish", <<"TakerPaymentRefunded">>)

TakerLookAlwaysMisses == TRUE

TakerLookMisses ==
  \/ "TakerPaymentSpent" \in tLog
  \/ takerPayment \notin {"spent", "refunded"}
  \/ CoinErrors

(* The look on entry to the refund chain.                                     *)
TakerRefundTakerPayment ==
  /\ TakerAt("RefundTakerPayment", "run")
  /\ TakerRefundOutcome \/ (TakerLookMisses /\ TakerWaits("gate", 0))
  /\ UNCHANGED <<chainVars, net, tStartedAt>>

(* The looks of the wait for the lock time.                                   *)
TakerRefundWaitLook ==
  /\ TakerAt("RefundTakerPayment", "gate")
  /\ TakerRefundOutcome
  /\ UNCHANGED <<chainVars, net, tStartedAt>>

(* The refund, and the look after its rejection.                              *)
TakerRefundSend ==
  /\ TakerAt("RefundTakerPayment", "gate")
  /\ now >= taker_payment_lock
  /\ LET refund == CanRefund(takerPayment, taker_payment_lock) /\ takerPayment' = "refunded"
         again == takerPayment = "refunded" /\ UNCHANGED takerPayment
         rejected == ~Unspent(takerPayment) \/ CoinErrors
         failed == TakerLookMisses /\ TakerReturns("Finish", <<"TakerPaymentRefundFailed">>)
     IN \/ (refund \/ again) /\ TakerReturns("Finish", <<"TakerPaymentRefunded">>)
        \/ rejected /\ UNCHANGED takerPayment /\ (TakerRefundOutcome \/ failed)
        \/ CoinErrors /\ refund /\ failed
  /\ UNCHANGED <<makerPayment, makerTxs, takerTxs, takerFees, makerSpendAt, takerSpendAt, net, tStartedAt>>

TakerFinish ==
  /\ TakerAt("Finish", "run")
  /\ TakerReturns("None", <<"Finished">>)
  /\ UNCHANGED <<chainVars, net, tStartedAt>>

TakerSaveEvent ==
  /\ tPc = "save"
  /\ tLog' = tLog \cup {Head(tOut)}
  /\ tLast' = Head(tOut)
  /\ tOut' = Tail(tOut)
  /\ IF Tail(tOut) = <<>>
       THEN /\ tCmd' = tNext
            /\ tPc' = IF tNext = "None" THEN "end" ELSE "run"
            /\ tNext' = "None"
       ELSE UNCHANGED <<tCmd, tPc, tNext>>
  /\ UNCHANGED <<chainVars, net, tStartedAt, tUntil, tFresh>>

TakerCrash ==
  /\ "taker" \in Crashers
  /\ now < RestartBy
  /\ tPc \notin {"end", "down", "lost"}
  /\ tPc' = "down"
  /\ tCmd' = "None"
  /\ tOut' = <<>>
  /\ tNext' = "None"
  /\ tUntil' = 0
  /\ tFresh' = FALSE
  /\ UNCHANGED <<chainVars, net, tLog, tLast, tStartedAt>>

TakerKickStart ==
  /\ tPc = "down"
  /\ IF "Started" \in tLog
       THEN /\ tCmd' = TakerGetCommand(tLast)
            /\ tPc' = IF TakerGetCommand(tLast) = "None" THEN "end" ELSE "run"
       ELSE tCmd' = "None" /\ tPc' = "lost"
  /\ UNCHANGED <<chainVars, net, tOut, tNext, tLog, tLast, tStartedAt, tUntil, tFresh>>

(* TakerSavedSwap::is_recoverable.                                            *)
TakerIsRecoverableIfSent ==
  /\ "Finished" \in tLog
  /\ tLog \cap {"StartFailed", "NegotiateFailed", "TakerFeeSendFailed", "MakerPaymentValidateFailed",
                "MakerPaymentWaitConfirmFailed", "TakerPaymentTransactionFailed", "TakerPaymentRefunded",
                "MakerPaymentSpent"} = {}

TakerIsRecoverable ==
  /\ "Finished" \in tLog
  /\ tLog \cap {"StartFailed", "NegotiateFailed", "TakerFeeSendFailed", "MakerPaymentValidateFailed",
                "MakerPaymentWaitConfirmFailed", "TakerPaymentRefunded", "MakerPaymentSpent"} = {}

(* The early returns of recover_funds.                                        *)
TakerMayRecoverUnlessSpent ==
  /\ "Finished" \in tLog
  /\ tLog \cap {"TakerPaymentRefunded", "TakerPaymentSpent", "MakerPaymentSpent"} = {}
  /\ "MakerPaymentReceived" \in tLog
  /\ "TakerPaymentSent" \in tLog \/ PaymentFound(takerTxs)

TakerMayRecover ==
  /\ "Finished" \in tLog
  /\ tLog \cap {"TakerPaymentRefunded", "MakerPaymentSpent"} = {}
  /\ "MakerPaymentReceived" \in tLog
  /\ "TakerPaymentSent" \in tLog \/ PaymentFound(takerTxs)

(* recover_funds_of_swap on a finished swap: claim the maker payment if the   *)
(* maker spent the taker payment, else refund.                                *)
TakerRecoverFunds ==
  /\ TakerMayRecover
  /\ \/ /\ "TakerPaymentSpent" \in tLog \/ SpendSeen(takerPayment)
        /\ makerPayment = "confirmed"
        /\ makerPayment' = "spending"
        /\ makerSpendAt' = now
        /\ UNCHANGED takerPayment
     \/ /\ "TakerPaymentSpent" \notin tLog
        /\ Unspent(takerPayment)
        /\ now >= taker_wait_refund_until
        /\ takerPayment' = "refunded"
        /\ UNCHANGED <<makerPayment, makerSpendAt>>
  /\ UNCHANGED <<makerTxs, takerTxs, takerFees, takerSpendAt, net, takerVars>>

TakerMustAct ==
  \/ tPc = "save"
  \/ tPc = "down" /\ now >= RestartBy
  \/ tPc = "run" /\ tCmd \notin {"Start", "ValidateMakerPayment"}
  \/ tPc \in {"recv", "ack"} /\ now > tUntil
  \/ tPc = "confirm" /\ (now > tUntil \/ ConfirmedBy(takerPayment, tUntil))
  \/ tPc = "spend" /\ (now > tUntil \/ (takerPayment = "spent" /\ ~CoinErrors))
  \/ tPc = "gate" /\ takerPayment \in {"spent", "refunded"} /\ "TakerPaymentSpent" \notin tLog /\ ~CoinErrors
  \/ TakerAt("Start", "run") /\ now >= StartBy
  \/ TakerAt("ValidateMakerPayment", "run") /\ (now > maker_payment_wait \/ ConfirmedBy(makerPayment, maker_payment_wait))

TakerTypeOK ==
  /\ tCmd \in TakerSwapCommand
  /\ tPc \in TakerPc
  /\ tOut \in Seq(TakerSwapEvent)
  /\ tNext \in TakerSwapCommand
  /\ tLog \subseteq TakerSwapEvent
  /\ tLast \in TakerSwapEvent \cup {"none"}
  /\ tStartedAt \in Nat
  /\ tUntil \in Nat
  /\ tFresh \in BOOLEAN
  /\ tPc = "save" => tOut # <<>>
=============================================================================
