---------------------------- MODULE MakerSwapV2 ----------------------------
(* The maker's states of a version-two swap.                                  *)
EXTENDS StorableMachine

MakerInitialize ==
  /\ At("maker", "Initialize", "run")
  /\ startedAt' = [startedAt EXCEPT !["maker"] = now]
  /\ ChangeState("maker", "Initialized") \/ FailsTo("maker", "Aborted")
  /\ UNCHANGED <<chainVars, net, mFunding, tPreimage, preimageSkipped>>

MakerInitialized ==
  /\ At("maker", "Initialized", "run")
  /\ Broadcast("MakerNegotiation", 0)
  /\ Waits("maker", "recv", now + RecvWait)
  /\ UNCHANGED <<chainVars, noteVars>>

(* The lock times in the taker's message are derived from its started_at.     *)
StartedTooFarApart == startedAt["maker"] - startedAt["taker"] \notin -MaxStartedAtDiff..MaxStartedAtDiff

MakerNegotiationRecv ==
  /\ At("maker", "Initialized", "recv")
  /\ \/ /\ InTime("maker")
        /\ Received("TakerNegotiation", 0)
        /\ \/ ~StartedTooFarApart /\ ChangeState("maker", "WaitingForTakerFunding")
           \/ StartedTooFarApart /\ ChangeState("maker", "Aborted")
           \/ FailsTo("maker", "Aborted")
     \/ ~InTime("maker") /\ ChangeState("maker", "Aborted")
  /\ UNCHANGED <<chainVars, noteVars, net>>

MakerWaitingForTakerFunding ==
  /\ At("maker", "WaitingForTakerFunding", "run")
  /\ Broadcast("MakerNegotiated", 0)
  /\ Waits("maker", "recv", now + RecvWait)
  /\ UNCHANGED <<chainVars, noteVars>>

MakerFundingInfoRecv ==
  /\ At("maker", "WaitingForTakerFunding", "recv")
  /\ \/ /\ InTime("maker")
        /\ \E tx \in 1..fundings :
             /\ Received("TakerFundingInfo", tx)
             /\ mFunding' = tx
        /\ ChangeState("maker", "TakerFundingReceived") \/ FailsTo("maker", "Aborted")
     \/ ~InTime("maker") /\ ChangeState("maker", "Aborted") /\ UNCHANGED mFunding
  /\ UNCHANGED <<chainVars, net, startedAt, tPreimage, preimageSkipped>>

(* Validate the funding, sign its spend, send the maker payment: nothing asks *)
(* whether a payment was sent before a restart.  A failed call may still have *)
(* put the transaction on the network.                                        *)
MakerTakerFundingReceived ==
  /\ At("maker", "TakerFundingReceived", "run")
  /\ LET send == /\ makerPayments' = makerPayments + 1
                 /\ makerPayment' = "unconfirmed"
                 /\ UNCHANGED makerSpendAt
     IN \/ send /\ ChangeState("maker", "MakerPaymentSentFundingSpendGenerated")
        \/ (send \/ UNCHANGED makerPayVars) /\ FailsTo("maker", "Aborted")
  /\ UNCHANGED <<fundingVars, takerPayVars, noteVars, net>>

MakerPaymentSentFundingSpendGenerated ==
  /\ At("maker", "MakerPaymentSentFundingSpendGenerated", "run")
  /\ Broadcast("MakerPaymentInfo", mFunding)
  /\ Waits("maker", "poll", taker_payment_conf_timeout)
  /\ UNCHANGED <<chainVars, noteVars>>

(* search_for_taker_funding_spend on the funding that the maker was told of.  *)
FundingSpent(how) == mFunding = fundings /\ funding = how

MakerFundingSpendPoll ==
  /\ At("maker", "MakerPaymentSentFundingSpendGenerated", "poll")
  /\ \/ ~InTime("maker") /\ ChangeState("maker", "MakerPaymentRefundRequired")
     \/ /\ InTime("maker")
        /\ \/ /\ FundingSpent("transferred")
              /\ ChangeState("maker", IF preimageSkipped THEN "TakerPaymentReceivedPreimageSkipped"
                                                         ELSE "TakerPaymentReceived")
           \/ FundingSpent("reclaimed") /\ ChangeState("maker", "MakerPaymentRefundRequired")
           \/ FailsTo("maker", "MakerPaymentRefundRequired")
  /\ UNCHANGED <<chainVars, noteVars, net>>

(* The taker payment is confirmed in time, then the taker's half of the       *)
(* signature has to arrive.                                                   *)
MakerTakerPaymentReceived ==
  /\ At("maker", "TakerPaymentReceived", "run")
  /\ \/ /\ ConfirmedBy(takerPayment, taker_payment_conf_timeout)
        /\ Waits("maker", "recv", now + RecvWait)
     \/ now > taker_payment_conf_timeout /\ ChangeState("maker", "MakerPaymentRefundRequired")
     \/ FailsTo("maker", "MakerPaymentRefundRequired")
  /\ UNCHANGED <<chainVars, noteVars, net>>

(* The spend publishes the secret, also where the call reports an error.      *)
MakerSpends ==
  \/ SpendTakerPayment /\ ChangeState("maker", "TakerPaymentSpent")
  \/ /\ takerPayment # "confirmed"
     /\ UNCHANGED takerPayVars
     /\ ChangeState("maker", "MakerPaymentRefundRequired")
  \/ (SpendTakerPayment \/ UNCHANGED takerPayVars) /\ FailsTo("maker", "MakerPaymentRefundRequired")

MakerSpendPreimageRecv ==
  /\ At("maker", "TakerPaymentReceived", "recv")
  /\ \/ InTime("maker") /\ Received("TakerPaymentSpendPreimage", 0) /\ MakerSpends
     \/ /\ ~InTime("maker")
        /\ UNCHANGED takerPayVars
        /\ ChangeState("maker", "MakerPaymentRefundRequired")
  /\ UNCHANGED <<fundingVars, makerPayVars, noteVars, net>>

MakerTakerPaymentReceivedPreimageSkipped ==
  /\ At("maker", "TakerPaymentReceivedPreimageSkipped", "run")
  /\ \/ ConfirmedBy(takerPayment, taker_payment_conf_timeout) /\ MakerSpends
     \/ /\ UNCHANGED takerPayVars
        /\ \/ now > taker_payment_conf_timeout /\ ChangeState("maker", "MakerPaymentRefundRequired")
           \/ FailsTo("maker", "MakerPaymentRefundRequired")
  /\ UNCHANGED <<fundingVars, makerPayVars, noteVars, net>>

MakerTakerPaymentSpent ==
  /\ At("maker", "TakerPaymentSpent", "run")
  /\ \/ /\ takerPayment = "spent"
        /\ now <= maker_payment_locktime
        /\ ChangeState("maker", "Completed")
     \/ now > maker_payment_locktime /\ ChangeState("maker", "MakerPaymentRefundRequired")
     \/ FailsTo("maker", "MakerPaymentRefundRequired")
  /\ UNCHANGED <<chainVars, noteVars, net>>

(* After the lock time one refund is tried, whatever led here.                *)
MakerPaymentRefundRequired ==
  /\ At("maker", "MakerPaymentRefundRequired", "run")
  /\ now >= maker_payment_locktime
  /\ \/ RefundMakerPayment /\ ChangeState("maker", "MakerPaymentRefunded")
     \/ ~Unspent(makerPayment) /\ UNCHANGED makerPayVars /\ ChangeState("maker", "Aborted")
     \/ (RefundMakerPayment \/ UNCHANGED makerPayVars) /\ FailsTo("maker", "Aborted")
  /\ UNCHANGED <<fundingVars, takerPayVars, noteVars, net>>

MakerOnChanged ==
  \/ MakerInitialize
  \/ MakerInitialized
  \/ MakerNegotiationRecv
  \/ MakerWaitingForTakerFunding
  \/ MakerFundingInfoRecv
  \/ MakerTakerFundingReceived
  \/ MakerPaymentSentFundingSpendGenerated
  \/ MakerFundingSpendPoll
  \/ MakerTakerPaymentReceived
  \/ MakerSpendPreimageRecv
  \/ MakerTakerPaymentReceivedPreimageSkipped
  \/ MakerTakerPaymentSpent
  \/ MakerPaymentRefundRequired

(* While one of these holds the clock stands still: the code takes seconds, a *)
(* unit of the clock a large part of an hour.                                 *)
MakerMustAct ==
  \/ pc["maker"] = "run" /\ st["maker"] \notin {"Initialize", "TakerPaymentReceived",
       "TakerPaymentReceivedPreimageSkipped", "TakerPaymentSpent", "MakerPaymentRefundRequired"}
  \/ pc["maker"] \in {"recv", "poll"} /\ ~InTime("maker")
  \/ At("maker", "MakerPaymentSentFundingSpendGenerated", "poll")
     /\ (FundingSpent("transferred") \/ FundingSpent("reclaimed"))
  \/ At("maker", "Initialize", "run") /\ now >= StartBy
  \/ pc["maker"] = "run" /\ st["maker"] \in {"TakerPaymentReceived", "TakerPaymentReceivedPreimageSkipped"}
     /\ (now > taker_payment_conf_timeout \/ ConfirmedBy(takerPayment, taker_payment_conf_timeout))
  \/ At("maker", "TakerPaymentSpent", "run") /\ (now > maker_payment_locktime \/ takerPayment = "spent")
=============================================================================
