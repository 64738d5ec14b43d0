---------------------------- MODULE TakerSwapV2 ----------------------------
(* The taker's states of a version-two swap.                                  *)
EXTENDS StorableMachine

TakerInitialize ==
  /\ At("taker", "Initialize", "run")
  /\ startedAt' = [startedAt EXCEPT !["taker"] = now]
  /\ ChangeState("taker", "Initialized") \/ FailsTo("taker", "Aborted")
  /\ UNCHANGED <<chainVars, net, mFunding, tPreimage, preimageSkipped>>

TakerInitialized ==
  /\ At("taker", "Initialized", "run")
  /\ Waits("taker", "recv", now + RecvWait)
  /\ UNCHANGED <<chainVars, noteVars, net>>

(* The maker's lock time is compared with the one that the taker's own        *)
(* started_at gives, so the two start times have to be equal.                 *)
LocktimeAccepted == maker_payment_locktime = startedAt["taker"] + 2 * LockDuration

TakerNegotiationRecv ==
  /\ At("taker", "Initialized", "recv")
  /\ \/ /\ InTime("taker")
        /\ Received("MakerNegotiation", 0)
        /\ \/ /\ LocktimeAccepted
              /\ Broadcast("TakerNegotiation", 0)
              /\ Waits("taker", "ack", now + RecvWait)
           \/ /\ ~LocktimeAccepted
              /\ ChangeState("taker", "Aborted")
              /\ UNCHANGED net
           \/ FailsTo("taker", "Aborted") /\ UNCHANGED net
     \/ ~InTime("taker") /\ ChangeState("taker", "Aborted") /\ UNCHANGED net
  /\ UNCHANGED <<chainVars, noteVars>>

TakerNegotiatedRecv ==
  /\ At("taker", "Initialized", "ack")
  /\ \/ InTime("taker") /\ Received("MakerNegotiated", 0) /\ ChangeState("taker", "Negotiated")
     \/ ~InTime("taker") /\ ChangeState("taker", "Aborted")
  /\ UNCHANGED <<chainVars, noteVars, net>>

(* Send the funding and tell the maker of it.  The repeated broadcast stops   *)
(* when this state returns, and the next state does not take it up again.     *)
TakerNegotiated ==
  /\ At("taker", "Negotiated", "run")
  /\ LET send == fundings' = fundings + 1 /\ funding' = "unconfirmed"
     IN \/ /\ send
           /\ Broadcast("TakerFundingInfo", fundings + 1)
           /\ ChangeState("taker", "TakerFundingSent")
        \/ (send \/ UNCHANGED fundingVars) /\ UNCHANGED net /\ FailsTo("taker", "Aborted")
  /\ UNCHANGED <<makerPayVars, takerPayVars, noteVars>>

TakerFundingSent ==
  /\ At("taker", "TakerFundingSent", "run")
  /\ Waits("taker", "recv", now + RecvWait)
  /\ UNCHANGED <<chainVars, noteVars, net>>

(* A wait whose end ends the swap.                                            *)
TakerMakerPaymentRecvAborts ==
  /\ At("taker", "TakerFundingSent", "recv")
  /\ \/ /\ InTime("taker")
        /\ \E tx \in 1..fundings : Received("MakerPaymentInfo", tx) /\ tPreimage' = tx
        /\ ChangeState("taker", "MakerPaymentAndFundingSpendPreimgReceived")
     \/ ~InTime("taker") /\ ChangeState("taker", "Aborted") /\ UNCHANGED tPreimage
  /\ UNCHANGED <<chainVars, net, startedAt, mFunding, preimageSkipped>>

TakerMakerPaymentRecv ==
  /\ At("taker", "TakerFundingSent", "recv")
  /\ \/ /\ InTime("taker")
        /\ \E tx \in 1..fundings :
             /\ Received("MakerPaymentInfo", tx)
             /\ tPreimage' = tx
        /\ \/ ChangeState("taker", "MakerPaymentAndFundingSpendPreimgReceived")
           \/ FailsTo("taker", "TakerFundingRefundRequired")
     \/ /\ ~InTime("taker")
        /\ ChangeState("taker", "TakerFundingRefundRequired")
        /\ UNCHANGED tPreimage
  /\ UNCHANGED <<chainVars, net, startedAt, mFunding, preimageSkipped>>

(* Validate the maker payment and the preimage, wait for the confirmation of  *)
(* the payment, then turn the funding into the taker payment.  A failed call  *)
(* may have sent the transaction; so may the run before a restart.            *)
TakerPreimageValid == tPreimage = fundings

TakerMakerPaymentReceived ==
  /\ At("taker", "MakerPaymentAndFundingSpendPreimgReceived", "run")
  /\ LET unsent == UNCHANGED <<fundingVars, takerPayVars>>
     IN \/ /\ TakerPreimageValid
           /\ ConfirmedBy(makerPayment, maker_payment_conf_timeout)
           /\ \/ /\ SpendFunding
                 /\ ChangeState("taker", IF preimageSkipped THEN "TakerPaymentSentPreimageSendingSkipped"
                                                            ELSE "TakerPaymentSent")
              \/ /\ ~Unspent(funding)
                 /\ unsent
                 /\ ChangeState("taker", "TakerFundingRefundRequired")
              \/ SpendFunding /\ FailsTo("taker", "TakerFundingRefundRequired")
        \/ /\ unsent
           /\ \/ /\ ~TakerPreimageValid \/ now > maker_payment_conf_timeout
                 /\ ChangeState("taker", "TakerFundingRefundRequired")
              \/ FailsTo("taker", "TakerFundingRefundRequired")
  /\ UNCHANGED <<makerPayVars, noteVars, net>>

TakerPaymentSent ==
  /\ At("taker", "TakerPaymentSent", "run")
  /\ \/ /\ Broadcast("TakerPaymentSpendPreimage", 0)
        /\ Waits("taker", "poll", taker_payment_locktime)
     \/ FailsTo("taker", "TakerPaymentRefundRequired") /\ UNCHANGED net
  /\ UNCHANGED <<chainVars, noteVars>>

TakerPaymentSentPreimageSendingSkipped ==
  /\ At("taker", "TakerPaymentSentPreimageSendingSkipped", "run")
  /\ \/ Waits("taker", "poll", taker_payment_locktime)
     \/ FailsTo("taker", "TakerPaymentRefundRequired")
  /\ UNCHANGED <<chainVars, noteVars, net>>

(* find_taker_payment_spend_tx asks for the time before it looks.             *)
TakerFindSpend ==
  /\ At("taker", "TakerPaymentSent", "poll") \/ At("taker", "TakerPaymentSentPreimageSendingSkipped", "poll")
  /\ \/ ~InTime("taker") /\ ChangeState("taker", "TakerPaymentRefundRequired")
     \/ InTime("taker") /\ SpendSeen(takerPayment) /\ ChangeState("taker", "TakerPaymentSpent")
  /\ UNCHANGED <<chainVars, noteVars, net>>

(* The maker payment is spent with the secret; a failure ends the swap.       *)
TakerTakerPaymentSpent ==
  /\ At("taker", "TakerPaymentSpent", "run")
  /\ \/ SpendMakerPayment /\ ChangeState("taker", "MakerPaymentSpent")
     \/ ~Unspent(makerPayment) /\ UNCHANGED makerPayVars /\ ChangeState("taker", "Aborted")
     \/ (SpendMakerPayment \/ UNCHANGED makerPayVars) /\ FailsTo("taker", "Aborted")
  /\ UNCHANGED <<fundingVars, takerPayVars, noteVars, net>>

TakerMakerPaymentSpent ==
  /\ At("taker", "MakerPaymentSpent", "run")
  /\ \/ /\ makerPayment = "spent"
        /\ now <= taker_payment_locktime
        /\ ChangeState("taker", "Completed")
     \/ now > taker_payment_locktime /\ ChangeState("taker", "TakerPaymentRefundRequired")
     \/ FailsTo("taker", "TakerPaymentRefundRequired")
  /\ UNCHANGED <<chainVars, noteVars, net>>

(* The funding is reclaimed at once, and that is tried once.                  *)
TakerFundingRefundRequired ==
  /\ At("taker", "TakerFundingRefundRequired", "run")
  /\ \/ ReclaimFunding /\ ChangeState("taker", "TakerFundingRefunded")
     \/ ~Unspent(funding) /\ UNCHANGED fundingVars /\ ChangeState("taker", "Aborted")
     \/ (ReclaimFunding \/ UNCHANGED fundingVars) /\ FailsTo("taker", "Aborted")
  /\ UNCHANGED <<makerPayVars, takerPayVars, noteVars, net>>

(* A refund that does not wait for the lock time.                             *)
TakerPaymentRefundEarly ==
  /\ At("taker", "TakerPaymentRefundRequired", "run")
  /\ RefundTakerPayment
  /\ ChangeState("taker", "TakerPaymentRefunded")
  /\ UNCHANGED <<fundingVars, makerPayVars, noteVars, net>>

(* After the lock time one refund of the taker payment is tried.              *)
TakerPaymentRefundRequired ==
  /\ At("taker", "TakerPaymentRefundRequired", "run")
  /\ now >= taker_payment_locktime
  /\ \/ RefundTakerPayment /\ ChangeState("taker", "TakerPaymentRefunded")
     \/ ~Unspent(takerPayment) /\ UNCHANGED takerPayVars /\ ChangeState("taker", "Aborted")
     \/ (RefundTakerPayment \/ UNCHANGED takerPayVars) /\ FailsTo("taker", "Aborted")
  /\ UNCHANGED <<fundingVars, makerPayVars, noteVars, net>>

TakerOnChanged ==
  \/ TakerInitialize
  \/ TakerInitialized
  \/ TakerNegotiationRecv
  \/ TakerNegotiatedRecv
  \/ TakerNegotiated
  \/ TakerFundingSent
  \/ TakerMakerPaymentRecv
  \/ TakerMakerPaymentReceived
  \/ TakerPaymentSent
  \/ TakerPaymentSentPreimageSendingSkipped
  \/ TakerFindSpend
  \/ TakerTakerPaymentSpent
  \/ TakerMakerPaymentSpent
  \/ TakerFundingRefundRequired
  \/ TakerPaymentRefundRequired

TakerMustAct ==
  \/ pc["taker"] = "run" /\ st["taker"] \notin {"Initialize", "MakerPaymentAndFundingSpendPreimgReceived",
       "MakerPaymentSpent", "TakerPaymentRefundRequired"}
  \/ pc["taker"] \in {"recv", "ack", "poll"} /\ ~InTime("taker")
  \/ pc["taker"] = "poll" /\ SpendSeen(takerPayment)
  \/ At("taker", "Initialize", "run") /\ now >= StartBy
  \/ At("taker", "MakerPaymentAndFundingSpendPreimgReceived", "run")
     /\ (~TakerPreimageValid \/ now > maker_payment_conf_timeout \/ ConfirmedBy(makerPayment, maker_payment_conf_timeout))
  \/ At("taker", "MakerPaymentSpent", "run") /\ (now > taker_payment_locktime \/ makerPayment = "spent")
=============================================================================
