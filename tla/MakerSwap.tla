----------------------------- MODULE MakerSwap -----------------------------
(* The maker's side of a legacy swap: run_maker_swap drives one command       *)
(* handler after another; a handler returns the events to save and the next   *)
(* command; a restart replays the saved events and resumes at the command of  *)
(* the last one.                                                              *)
EXTENDS SwapChain, Sequences

VARIABLES
  mCmd,       \* the command being handled, "None" once there is none
  mPc,        \* where its handler stands
  mOut,       \* events returned by the handler that are not saved yet
  mNext,      \* the command the handler returned
  mLog,       \* the events saved so far
  mLast,      \* the last saved event, "none" before the first one
  mStartedAt, \* data.started_at
  mUntil,     \* deadline of the receive under way
  mFresh      \* started_in_this_process

makerVars == <<mCmd, mPc, mOut, mNext, mLog, mLast, mStartedAt, mUntil, mFresh>>

MakerSwapCommand ==
  {"Start", "Negotiate", "WaitForTakerFee", "SendPayment", "WaitForTakerPayment", "ValidateTakerPayment",
   "SpendTakerPayment", "ConfirmTakerPaymentSpend", "RefundMakerPayment", "Finish", "None"}

(* The events that the handlers return.                                       *)
MakerSwapEvent ==
  {"Started", "StartFailed", "Negotiated", "NegotiateFailed", "TakerFeeValidated", "TakerFeeValidateFailed",
   "MakerPaymentSent", "MakerPaymentTransactionFailed", "MakerPaymentWaitConfirmFailed",
   "TakerPaymentReceived", "TakerPaymentWaitConfirmStarted", "TakerPaymentValidatedAndConfirmed",
   "TakerPaymentValidateFailed", "TakerPaymentWaitConfirmFailed", "TakerPaymentSpent",
   "TakerPaymentSpendFailed", "TakerPaymentSpendConfirmStarted", "TakerPaymentSpendConfirmed",
   "TakerPaymentSpendConfirmFailed", "MakerPaymentWaitRefundStarted", "MakerPaymentRefunded",
   "MakerPaymentRefundFailed", "Finished"}

(* run: at the head of the handler, recv and confirm: in its waits, save: its *)
(* events are being saved, end: no command is left, down: the process is not  *)
(* running, lost: nothing that can be loaded was saved.                       *)
MakerPc == {"run", "recv", "confirm", "save", "end", "down", "lost"}

maker_payment_lock == mStartedAt + 2 * LockDuration

maker_wait_refund_until == maker_payment_lock + RefundGrace

(* The times at which the maker no longer sends its payment, no longer waits  *)
(* for its confirmations, and no longer spends the taker payment.             *)
MakerPaymentSendBy == mStartedAt + LockDuration \div 3

MakerPaymentConfirmBy == mStartedAt + (2 * LockDuration) \div 5

TakerPaymentSpendByLock == mStartedAt + LockDuration

TakerPaymentSpendBy == mStartedAt + (4 * LockDuration) \div 5

(* The events after which the maker payment is to be refunded.                *)
MakerRefundEvents ==
  {"MakerPaymentWaitConfirmFailed", "TakerPaymentValidateFailed", "TakerPaymentWaitConfirmFailed",
   "TakerPaymentSpendFailed", "TakerPaymentSpendConfirmFailed", "MakerPaymentWaitRefundStarted"}

(* MakerSavedEvent::get_command, the command a restarted swap resumes with.   *)
MakerGetCommand(event) ==
  CASE event = "Started" -> "Negotiate"
    [] event = "Negotiated" -> "WaitForTakerFee"
    [] event = "TakerFeeValidated" -> "SendPayment"
    [] event = "MakerPaymentSent" -> "WaitForTakerPayment"
    [] event \in {"TakerPaymentReceived", "TakerPaymentWaitConfirmStarted"} -> "ValidateTakerPayment"
    [] event = "TakerPaymentValidatedAndConfirmed" -> "SpendTakerPayment"
    [] event \in {"TakerPaymentSpent", "TakerPaymentSpendConfirmStarted"} -> "ConfirmTakerPaymentSpend"
    [] event \in MakerRefundEvents -> "RefundMakerPayment"
    [] event = "Finished" -> "None"
    [] OTHER -> "Finish"

(* A handler returns its events and the next command.                         *)
MakerReturns(next, events) ==
  /\ mOut' = events
  /\ mNext' = next
  /\ mPc' = "save"
  /\ mUntil' = 0
  /\ UNCHANGED <<mCmd, mLog, mLast, mFresh>>

MakerAt(cmd, pc) == mCmd = cmd /\ mPc = pc

(* The handler goes on to a wait that ends at the given time.                 *)
MakerWaits(pc, until) ==
  /\ mPc' = pc
  /\ mUntil' = until
  /\ UNCHANGED <<mCmd, mOut, mNext, mLog, mLast, mFresh>>

MakerInit ==
  /\ mCmd = "Start"
  /\ mPc = "run"
  /\ mOut = <<>>
  /\ mNext = "None"
  /\ mLog = {}
  /\ mLast = "none"
  /\ mStartedAt = 0
  /\ mUntil = 0
  /\ mFresh = TRUE

MakerStart ==
  /\ MakerAt("Start", "run")
  /\ \/ MakerReturns("Negotiate", <<"Started">>) /\ mStartedAt' = now
     \/ CoinErrors /\ MakerReturns("Finish", <<"StartFailed">>) /\ UNCHANGED mStartedAt
  /\ UNCHANGED <<chainVars, net>>

MakerNegotiate ==
  /\ MakerAt("Negotiate", "run")
  /\ Broadcast("Negotiation")
  /\ MakerWaits("recv", now + NegotiationWait)
  /\ UNCHANGED <<chainVars, mStartedAt>>

(* The reply carries the taker's started_at; the lock time in it is derived   *)
(* from that by the taker, and the checks on keys and contracts may fail.     *)
MakerNegotiateRecv(takerStartedAt) ==
  /\ MakerAt("Negotiate", "recv")
  /\ \/ /\ Received("NegotiationReply")
        /\ mStartedAt - takerStartedAt \in -MaxTimeDif..MaxTimeDif
        /\ MakerReturns("WaitForTakerFee", <<"Negotiated">>)
     \/ /\ \/ now > mUntil
           \/ /\ Received("NegotiationReply")
              /\ CoinErrors \/ mStartedAt - takerStartedAt \notin -MaxTimeDif..MaxTimeDif
        /\ MakerReturns("Finish", <<"NegotiateFailed">>)
  /\ UNCHANGED <<chainVars, net, mStartedAt>>

MakerWaitForTakerFee ==
  /\ MakerAt("WaitForTakerFee", "run")
  /\ Broadcast("Negotiated")
  /\ MakerWaits("recv", now + FeeWait)
  /\ UNCHANGED <<chainVars, mStartedAt>>

MakerTakerFeeRecv ==
  /\ MakerAt("WaitForTakerFee", "recv")
  /\ \/ /\ Received("TakerFee")
        /\ MakerReturns("SendPayment", <<"TakerFeeValidated">>)
     \/ /\ now > mUntil \/ (Received("TakerFee") /\ CoinErrors)
        /\ MakerReturns("Finish", <<"TakerFeeValidateFailed">>)
  /\ UNCHANGED <<chainVars, net, mStartedAt>>

(* skips_already_sent_question: only a coin with a fresh key per swap, in the *)
(* process that started the swap, has nothing to ask.                         *)
MakerSkipsQuestion == RandomHtlcKey /\ mFresh /\ "MakerPaymentSent" \notin mLog

(* A payment that is already on chain is adopted, the deadline holds for a    *)
(* new one.  A failed send may still have put the transaction on the network. *)
MakerSendPayment ==
  /\ MakerAt("SendPayment", "run")
  /\ LET found == ~MakerSkipsQuestion /\ PaymentFound(makerTxs)
         send == /\ makerTxs' = Counted(makerTxs)
                 /\ makerPayment' = IF makerTxs = 0 THEN "unconfirmed" ELSE makerPayment
         failed == MakerReturns("Finish", <<"MakerPaymentTransactionFailed">>)
         unsent == UNCHANGED <<makerTxs, makerPayment>>
     IN \/ found /\ unsent /\ MakerReturns("WaitForTakerPayment", <<"MakerPaymentSent">>)
        \/ CoinErrors /\ ~MakerSkipsQuestion /\ unsent /\ failed
        \/ ~found /\ now > MakerPaymentSendBy /\ unsent /\ failed
        \/ ~found /\ now <= MakerPaymentSendBy /\ send
           /\ MakerReturns("WaitForTakerPayment", <<"MakerPaymentSent">>)
        \/ CoinErrors /\ ~found /\ now <= MakerPaymentSendBy /\ (send \/ unsent) /\ failed
  /\ UNCHANGED <<takerPayment, takerTxs, takerFees, makerSpendAt, takerSpendAt, net, mStartedAt>>

MakerWaitForTakerPayment ==
  /\ MakerAt("WaitForTakerPayment", "run")
  /\ Broadcast("MakerPayment")
  /\ MakerWaits("confirm", MakerPaymentConfirmBy)
  /\ UNCHANGED <<chainVars, mStartedAt>>

(* Every failure after the payment was sent leads to its refund.              *)
MakerRefundsAfter(event) ==
  MakerReturns("RefundMakerPayment", <<event, "MakerPaymentWaitRefundStarted">>)

MakerPaymentConfirm ==
  /\ MakerAt("WaitForTakerPayment", "confirm")
  /\ \/ /\ ConfirmedBy(makerPayment, mUntil)
        /\ MakerWaits("recv", now + (3 * LockDuration) \div 5 + CommGrace)
     \/ /\ now > mUntil \/ CoinErrors
        /\ MakerRefundsAfter("MakerPaymentWaitConfirmFailed")
  /\ UNCHANGED <<chainVars, net, mStartedAt>>

MakerTakerPaymentRecvSwapped ==
  /\ MakerAt("WaitForTakerPayment", "recv")
  /\ Received("TakerPayment")
  /\ MakerReturns("ValidateTakerPayment", <<"TakerPaymentWaitConfirmStarted", "TakerPaymentReceived">>)
  /\ UNCHANGED <<chainVars, net, mStartedAt>>

MakerTakerPaymentRecv ==
  /\ MakerAt("WaitForTakerPayment", "recv")
  /\ \/ /\ Received("TakerPayment")
        /\ MakerReturns("ValidateTakerPayment", <<"TakerPaymentReceived", "TakerPaymentWaitConfirmStarted">>)
     \/ /\ now > mUntil \/ (Received("TakerPayment") /\ CoinErrors)
        /\ MakerRefundsAfter("TakerPaymentValidateFailed")
  /\ UNCHANGED <<chainVars, net, mStartedAt>>

MakerValidateTakerPayment ==
  /\ MakerAt("ValidateTakerPayment", "run")
  /\ \/ /\ ConfirmedBy(takerPayment, TakerPaymentSpendBy)
        /\ \/ MakerReturns("SpendTakerPayment", <<"TakerPaymentValidatedAndConfirmed">>)
           \/ CoinErrors /\ MakerRefundsAfter("TakerPaymentValidateFailed")
     \/ /\ now > TakerPaymentSpendBy \/ CoinErrors
        /\ MakerRefundsAfter("TakerPaymentWaitConfirmFailed")
  /\ UNCHANGED <<chainVars, net, mStartedAt>>

(* The spend publishes the secret, even where the call reports an error: the  *)
(* transaction is then handed to the nodes that help to broadcast it.  A      *)
(* restart may send the spend again: a chain may accept what it already has   *)
(* in its pool, and rejects what is mined.                                    *)
MakerSpendTakerPayment ==
  /\ MakerAt("SpendTakerPayment", "run")
  /\ LET spend == takerPayment = "confirmed" /\ takerPayment' = "spending" /\ takerSpendAt' = now
         unsent == UNCHANGED <<takerPayment, takerSpendAt>>
         again == takerPayment = "spending" /\ unsent
         failed == MakerRefundsAfter("TakerPaymentSpendFailed")
     IN \/ now > TakerPaymentSpendBy /\ unsent /\ failed
        \/ /\ now <= TakerPaymentSpendBy
           /\ \/ /\ spend \/ again
                 /\ MakerReturns("ConfirmTakerPaymentSpend",
                                 <<"TakerPaymentSpent", "TakerPaymentSpendConfirmStarted">>)
              \/ (takerPayment # "confirmed" \/ CoinErrors) /\ unsent /\ failed
              \/ CoinErrors /\ spend /\ failed
  /\ UNCHANGED <<makerPayment, makerTxs, takerTxs, takerFees, makerSpendAt, net, mStartedAt>>

MakerConfirmTakerPaymentSpend ==
  /\ MakerAt("ConfirmTakerPaymentSpend", "run")
  /\ \/ /\ takerPayment = "spent"
        /\ now <= maker_wait_refund_until
        /\ MakerReturns("Finish", <<"TakerPaymentSpendConfirmed">>)
     \/ /\ now > maker_wait_refund_until \/ CoinErrors
        /\ MakerRefundsAfter("TakerPaymentSpendConfirmFailed")
  /\ UNCHANGED <<chainVars, net, mStartedAt>>

(* Past the gate of can_refund_htlc the refund is sent.  A refund rejected as *)
(* not final goes back to the gate, and changes nothing here.                 *)
MakerRefundMakerPayment ==
  /\ MakerAt("RefundMakerPayment", "run")
  /\ now >= maker_payment_lock
  /\ LET refund == CanRefund(makerPayment, maker_payment_lock) /\ makerPayment' = "refunded"
         failed == MakerReturns("Finish", <<"MakerPaymentRefundFailed">>)
         again == makerPayment = "refunded" /\ UNCHANGED makerPayment
     IN \/ (refund \/ again) /\ MakerReturns("Finish", <<"MakerPaymentRefunded">>)
        \/ (~Unspent(makerPayment) \/ CoinErrors) /\ UNCHANGED makerPayment /\ failed
        \/ CoinErrors /\ refund /\ failed
  /\ UNCHANGED <<takerPayment, makerTxs, takerTxs, takerFees, makerSpendAt, takerSpendAt, net, mStartedAt>>

MakerFinish ==
  /\ MakerAt("Finish", "run")
  /\ MakerReturns("None", <<"Finished">>)
  /\ UNCHANGED <<chainVars, net, mStartedAt>>

(* Each event is saved before it is applied; after the last one the returned  *)
(* command is handled.                                                        *)
MakerSaveEvent ==
  /\ mPc = "save"
  /\ mLog' = mLog \cup {Head(mOut)}
  /\ mLast' = Head(mOut)
  /\ mOut' = Tail(mOut)
  /\ IF Tail(mOut) = <<>>
       THEN /\ mCmd' = mNext
            /\ mPc' = IF mNext = "None" THEN "end" ELSE "run"
            /\ mNext' = "None"
       ELSE UNCHANGED <<mCmd, mPc, mNext>>
  /\ UNCHANGED <<chainVars, net, mStartedAt, mUntil, mFresh>>

(* The process may stop wherever a swap stands: what was not saved is gone.   *)
MakerCrash ==
  /\ "maker" \in Crashers
  /\ now < RestartBy
  /\ mPc \notin {"end", "down", "lost"}
  /\ mPc' = "down"
  /\ mCmd' = "None"
  /\ mOut' = <<>>
  /\ mNext' = "None"
  /\ mUntil' = 0
  /\ mFresh' = FALSE
  /\ UNCHANGED <<chainVars, net, mLog, mLast, mStartedAt>>

(* load_from_saved refuses a log that does not begin with Started.            *)
MakerKickStart ==
  /\ mPc = "down"
  /\ IF "Started" \in mLog
       THEN /\ mCmd' = MakerGetCommand(mLast)
            /\ mPc' = IF MakerGetCommand(mLast) = "None" THEN "end" ELSE "run"
       ELSE mCmd' = "None" /\ mPc' = "lost"
  /\ UNCHANGED <<chainVars, net, mOut, mNext, mLog, mLast, mStartedAt, mUntil, mFresh>>

(* MakerSavedSwap::is_recoverable: may funds of the swap be left on chain?    *)
MakerIsRecoverableIfSent ==
  /\ "Finished" \in mLog
  /\ mLog \cap {"StartFailed", "NegotiateFailed", "TakerFeeValidateFailed", "MakerPaymentTransactionFailed",
                "TakerPaymentSpendConfirmed", "MakerPaymentRefunded"} = {}

MakerIsRecoverable ==
  /\ "Finished" \in mLog
  /\ mLog \cap {"StartFailed", "NegotiateFailed", "TakerFeeValidateFailed", "TakerPaymentSpendConfirmed",
                "MakerPaymentRefunded"} = {}

(* The early returns of recover_funds.                                        *)
MakerMayRecover ==
  /\ "Finished" \in mLog
  /\ "MakerPaymentRefunded" \notin mLog
  /\ ~{"TakerPaymentSpent", "TakerPaymentSpendConfirmed"} \subseteq mLog
  /\ "MakerPaymentSent" \in mLog \/ PaymentFound(makerTxs)

(* recover_funds_of_swap on a finished swap: claim the taker payment if the   *)
(* maker payment was spent, else refund.  It saves no event.                  *)
MakerRecoverFunds ==
  /\ MakerMayRecover
  /\ \/ /\ SpendSeen(makerPayment)
        /\ "TakerPaymentReceived" \in mLog
        /\ takerPayment = "confirmed"
        /\ takerPayment' = "spending"
        /\ takerSpendAt' = now
        /\ UNCHANGED makerPayment
     \/ /\ Unspent(makerPayment)
        /\ now >= maker_wait_refund_until
        /\ makerPayment' = "refunded"
        /\ UNCHANGED <<takerPayment, takerSpendAt>>
  /\ UNCHANGED <<makerTxs, takerTxs, takerFees, makerSpendAt, net, makerVars>>

(* While one of these holds the clock stands still: handlers, timers and the  *)
(* polls of a chain take seconds, a unit of the clock many minutes.           *)
MakerMustAct ==
  \/ mPc = "save"
  \/ mPc = "down" /\ now >= RestartBy
  \/ mPc = "run" /\ mCmd \notin {"Start", "ValidateTakerPayment", "ConfirmTakerPaymentSpend", "RefundMakerPayment"}
  \/ mPc = "recv" /\ now > mUntil
  \/ mPc = "confirm" /\ (now > mUntil \/ ConfirmedBy(makerPayment, mUntil))
  \/ MakerAt("Start", "run") /\ now >= StartBy
  \/ MakerAt("ValidateTakerPayment", "run") /\ (now > TakerPaymentSpendBy \/ ConfirmedBy(takerPayment, TakerPaymentSpendBy))
  \/ MakerAt("ConfirmTakerPaymentSpend", "run") /\ (now > maker_wait_refund_until \/ takerPayment = "spent")

MakerTypeOK ==
  /\ mCmd \in MakerSwapCommand
  /\ mPc \in MakerPc
  /\ mOut \in Seq(MakerSwapEvent)
  /\ mNext \in MakerSwapCommand
  /\ mLog \subseteq MakerSwapEvent
  /\ mLast \in MakerSwapEvent \cup {"none"}
  /\ mStartedAt \in Nat
  /\ mUntil \in Nat
  /\ mFresh \in BOOLEAN
  /\ mPc = "save" => mOut # <<>>
=============================================================================
