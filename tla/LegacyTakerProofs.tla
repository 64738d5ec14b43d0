-------------------------- MODULE LegacyTakerProofs --------------------------
(* What the saved events of the taker are good for: its commands find their   *)
(* data, and what it leaves on chain can be recovered.  And the taker does    *)
(* not lose both payments.                                                    *)
EXTENDS LegacySwapProofs

(* The command that a restart handles after an event.                         *)
TakerResumes(event) == IF event = "none" THEN "Start" ELSE TakerGetCommand(event)

(* run_taker_swap handles the same command, except that two failures of a     *)
(* claim end the swap where a restart turns to the refund.                    *)
TakerFollows(event, cmd) ==
  \/ cmd = TakerResumes(event)
  \/ cmd = "Finish" /\ event = "MakerPaymentSpendFailed"
  \/ cmd = "Finish" /\ event = "TakerPaymentWaitForSpendFailed" /\ CoinErrors

(* The events that a command, or one it leads to, takes its data from.        *)
TakerNeeds(cmd) ==
  CASE cmd \in {"Negotiate", "SendTakerFee"} -> {"Started"}
    [] cmd = "WaitForMakerPayment" -> {"Started", "TakerFeeSent"}
    [] cmd \in {"ValidateMakerPayment", "SendTakerPayment"} -> {"Started", "MakerPaymentReceived"}
    [] cmd \in {"WaitForTakerPaymentSpend", "RefundTakerPayment"} ->
         {"Started", "MakerPaymentReceived", "TakerPaymentSent"}
    [] cmd = "SpendMakerPayment" -> {"Started", "MakerPaymentReceived", "TakerPaymentSent", "TakerPaymentSpent"}
    [] OTHER -> {}

TakerActive == {"run", "recv", "ack", "confirm", "spend", "gate"}

(* The log holds what the commands need, in the order in which a handler      *)
(* returns its events, and a crash between two of them does no harm.          *)
TakerLogInv ==
  /\ TakerNeeds(tCmd) \subseteq tLog
  /\ TakerNeeds(TakerResumes(tLast)) \subseteq tLog
  /\ \A i \in DOMAIN tOut : \A e \in TakerNeeds(TakerResumes(tOut[i])) :
       e \in tLog \/ \E j \in 1..i : tOut[j] = e
  /\ tPc \in TakerActive => TakerFollows(tLast, tCmd)
  /\ tPc = "save" => TakerFollows(tOut[Len(tOut)], tNext)
  /\ tPc # "save" => tOut = <<>>
  /\ tPc = "end" => tLast = "Finished"
  /\ tPc = "lost" => "Started" \notin tLog
  /\ tLast = "none" => tLog = {}

(* The handlers of the taker by what they return: one event, or two.          *)
TakerAnswersOne(cmd, e) ==
  \/ cmd = "Start" /\ e \in {"Started", "StartFailed"}
  \/ cmd = "Negotiate" /\ e \in {"Negotiated", "NegotiateFailed"}
  \/ cmd = "SendTakerFee" /\ e \in {"TakerFeeSent", "TakerFeeSendFailed"}
  \/ cmd = "WaitForMakerPayment" /\ e = "MakerPaymentValidateFailed"
  \/ /\ cmd = "ValidateMakerPayment"
     /\ e \in {"MakerPaymentValidatedAndConfirmed", "MakerPaymentValidateFailed", "MakerPaymentWaitConfirmFailed"}
  \/ cmd = "SendTakerPayment" /\ e \in {"TakerPaymentSent", "TakerPaymentTransactionFailed"}
  \/ cmd = "WaitForTakerPaymentSpend" /\ e = "TakerPaymentSpent"
  \/ cmd = "WaitForTakerPaymentSpend" /\ e = "TakerPaymentWaitForSpendFailed" /\ CoinErrors
  \/ cmd = "SpendMakerPayment" /\ e \in {"MakerPaymentSpent", "MakerPaymentSpendFailed"}
  \/ cmd = "RefundTakerPayment" /\ e \in {"TakerPaymentSpent", "TakerPaymentRefunded", "TakerPaymentRefundFailed"}
  \/ cmd = "Finish" /\ e = "Finished"

TakerAnswersTwo(cmd, e, f) ==
  \/ cmd = "WaitForMakerPayment" /\ e = "MakerPaymentReceived" /\ f = "MakerPaymentWaitConfirmStarted"
  \/ /\ cmd = "WaitForTakerPaymentSpend"
     /\ e \in {"TakerPaymentWaitConfirmFailed", "TakerPaymentWaitForSpendFailed"}
     /\ f = "TakerPaymentWaitRefundStarted"

(* A step of the taker's handlers: an answer, a wait, or the save of an event. *)
TakerAnswers ==
  /\ tPc \in TakerActive
  /\ \/ \E e, next : TakerAnswersOne(tCmd, e) /\ TakerFollows(e, next) /\ TakerReturns(next, <<e>>)
     \/ \E e, f : TakerAnswersTwo(tCmd, e, f) /\ TakerReturns(TakerGetCommand(f), <<e, f>>)

TakerIsWaiting == tPc \in TakerActive /\ \E pc, until : pc \in TakerActive /\ TakerWaits(pc, until)

(* get_command, event by event.                                               *)
LEMMA TakerCommands ==
  /\ TakerGetCommand("Started") = "Negotiate"
  /\ TakerGetCommand("Negotiated") = "SendTakerFee"
  /\ TakerGetCommand("TakerFeeSent") = "WaitForMakerPayment"
  /\ TakerGetCommand("MakerPaymentReceived") = "ValidateMakerPayment"
  /\ TakerGetCommand("MakerPaymentWaitConfirmStarted") = "ValidateMakerPayment"
  /\ TakerGetCommand("MakerPaymentValidatedAndConfirmed") = "SendTakerPayment"
  /\ TakerGetCommand("TakerPaymentSent") = "WaitForTakerPaymentSpend"
  /\ TakerGetCommand("TakerPaymentSpent") = "SpendMakerPayment"
  /\ \A e \in TakerRefundEvents : TakerGetCommand(e) = "RefundTakerPayment"
  /\ \A e \in {"StartFailed", "NegotiateFailed", "TakerFeeSendFailed", "MakerPaymentValidateFailed",
               "MakerPaymentWaitConfirmFailed", "TakerPaymentTransactionFailed", "MakerPaymentSpent",
               "TakerPaymentRefunded", "TakerPaymentRefundFailed"} :
       TakerGetCommand(e) = "Finish"
  /\ TakerGetCommand("Finished") = "None"
BY DEF TakerGetCommand, TakerRefundEvents

(* The looks of the refund chain answer with one event.                       *)
LEMMA TakerOutcomeShape ==
  ASSUME TakerRefundOutcome, tCmd = "RefundTakerPayment", tPc \in TakerActive
  PROVE  TakerAnswers
BY TakerCommands, Zenon DEF TakerRefundOutcome, TakerAnswers, TakerAnswersOne, TakerFollows, TakerResumes

(* Every handler of the taker answers, waits or saves.                        *)
LEMMA TakerStepShape == ASSUME TakerStep PROVE TakerAnswers \/ TakerIsWaiting \/ TakerSaveEvent
<1> USE DEF TakerAt, TakerActive
<1>1. CASE TakerStart
  BY Zenon, <1>1, TakerCommands DEF TakerStart, TakerAnswers, TakerAnswersOne, TakerFollows, TakerResumes
<1>2. CASE TakerNegotiate \/ TakerWaitForMakerPayment \/ TakerWaitForTakerPaymentSpend
  BY <1>2 DEF TakerNegotiate, TakerWaitForMakerPayment, TakerWaitForTakerPaymentSpend, TakerIsWaiting
<1>3. CASE TakerNegotiateRecv(mStartedAt)
  <2>1. /\ tCmd = "Negotiate" /\ tPc = "recv"
        /\ (\E until : TakerWaits("ack", until)) \/ TakerReturns("Finish", <<"NegotiateFailed">>)
    BY <1>3, Zenon DEF TakerNegotiateRecv
  <2>2. CASE \E until : TakerWaits("ack", until)
    BY <2>1, <2>2 DEF TakerIsWaiting
  <2>3. CASE TakerReturns("Finish", <<"NegotiateFailed">>)
    BY Zenon, <2>1, <2>3, TakerCommands DEF TakerAnswers, TakerAnswersOne, TakerFollows, TakerResumes
  <2>4. QED
    BY Zenon, <2>1, <2>2, <2>3
<1>4. CASE TakerNegotiateAck
  BY Zenon, <1>4, TakerCommands DEF TakerNegotiateAck, TakerAnswers, TakerAnswersOne, TakerFollows, TakerResumes
<1>5. CASE TakerSendTakerFee
  BY Zenon, <1>5, TakerCommands DEF TakerSendTakerFee, TakerAnswers, TakerAnswersOne, TakerFollows, TakerResumes
<1>6. CASE TakerMakerPaymentRecv
  BY <1>6, TakerCommands, Zenon DEF TakerMakerPaymentRecv, TakerAnswers, TakerAnswersOne, TakerAnswersTwo, TakerFollows,
       TakerResumes
<1>7. CASE TakerValidateMakerPayment
  BY Zenon, <1>7, TakerCommands DEF TakerValidateMakerPayment, TakerAnswers, TakerAnswersOne, TakerFollows, TakerResumes
<1>8. CASE TakerSendTakerPayment
  BY Zenon, <1>8, TakerCommands DEF TakerSendTakerPayment, TakerAnswers, TakerAnswersOne, TakerFollows, TakerResumes
<1>9. CASE TakerPaymentConfirm
  <2>1. /\ tCmd = "WaitForTakerPaymentSpend" /\ tPc = "confirm"
        /\ (\E until : TakerWaits("spend", until)) \/ TakerRefundsAfter("TakerPaymentWaitConfirmFailed")
    BY <1>9, Zenon DEF TakerPaymentConfirm
  <2>2. CASE \E until : TakerWaits("spend", until)
    BY <2>1, <2>2 DEF TakerIsWaiting
  <2>3. CASE TakerRefundsAfter("TakerPaymentWaitConfirmFailed")
    BY <2>1, <2>3, TakerCommands, Zenon DEF TakerRefundsAfter, TakerRefundEvents, TakerAnswers, TakerAnswersTwo
  <2>4. QED
    BY Zenon, <2>1, <2>2, <2>3
<1>10. CASE TakerPaymentSpendFound
  <2>1. /\ tCmd = "WaitForTakerPaymentSpend" /\ tPc = "spend"
        /\ \/ TakerReturns("SpendMakerPayment", <<"TakerPaymentSpent">>)
           \/ CoinErrors /\ TakerReturns("Finish", <<"TakerPaymentWaitForSpendFailed">>)
           \/ TakerRefundsAfter("TakerPaymentWaitForSpendFailed")
    BY <1>10, Zenon DEF TakerPaymentSpendFound
  <2>2. CASE TakerRefundsAfter("TakerPaymentWaitForSpendFailed")
    BY Zenon, <2>1, <2>2, TakerCommands DEF TakerRefundsAfter, TakerRefundEvents, TakerAnswers, TakerAnswersTwo
  <2>3. CASE TakerReturns("SpendMakerPayment", <<"TakerPaymentSpent">>)
    BY Zenon, <2>1, <2>3, TakerCommands DEF TakerAnswers, TakerAnswersOne, TakerFollows, TakerResumes
  <2>4. CASE CoinErrors /\ TakerReturns("Finish", <<"TakerPaymentWaitForSpendFailed">>)
    BY Zenon, <2>1, <2>4 DEF TakerAnswers, TakerAnswersOne, TakerFollows
  <2>5. QED
    BY Zenon, <2>1, <2>2, <2>3, <2>4
<1>11. CASE TakerSpendMakerPayment
  <2>1. /\ tCmd = "SpendMakerPayment" /\ tPc = "run"
        /\ TakerReturns("Finish", <<"MakerPaymentSpent">>) \/ TakerReturns("Finish", <<"MakerPaymentSpendFailed">>)
    BY <1>11, Zenon DEF TakerSpendMakerPayment
  <2>2. QED
    BY <2>1, TakerCommands, Zenon DEF TakerAnswers, TakerAnswersOne, TakerFollows, TakerResumes
<1>12. CASE TakerRefundTakerPayment
  <2>1. tCmd = "RefundTakerPayment" /\ tPc = "run" /\ (TakerRefundOutcome \/ TakerWaits("gate", 0))
    BY Zenon, <1>12 DEF TakerRefundTakerPayment
  <2>2. QED
    BY <2>1, TakerOutcomeShape DEF TakerIsWaiting
<1>13. CASE TakerRefundWaitLook
  BY Zenon, <1>13, TakerOutcomeShape DEF TakerRefundWaitLook
<1>14. CASE TakerRefundSend
  <2>1. /\ tCmd = "RefundTakerPayment" /\ tPc = "gate"
        /\ \/ TakerReturns("Finish", <<"TakerPaymentRefunded">>)
           \/ TakerReturns("Finish", <<"TakerPaymentRefundFailed">>)
           \/ TakerRefundOutcome
    BY <1>14, Zenon DEF TakerRefundSend
  <2>2. CASE TakerReturns("Finish", <<"TakerPaymentRefunded">>) \/ TakerReturns("Finish", <<"TakerPaymentRefundFailed">>)
    BY Zenon, <2>1, <2>2, TakerCommands DEF TakerAnswers, TakerAnswersOne, TakerFollows, TakerResumes
  <2>3. QED
    BY Zenon, <2>1, <2>2, TakerOutcomeShape
<1>15. CASE TakerFinish
  BY Zenon, <1>15, TakerCommands DEF TakerFinish, TakerAnswers, TakerAnswersOne, TakerFollows, TakerResumes
<1>16. QED
  BY Zenon, <1>1, <1>2, <1>3, <1>4, <1>5, <1>6, <1>7, <1>8, <1>9, <1>10, <1>11, <1>12, <1>13, <1>14, <1>15 DEF TakerStep

(* What the command after an event needs was needed before it, or is that     *)
(* event.                                                                     *)
LEMMA TakerNeedsOne ==
  ASSUME NEW cmd, NEW e, TakerAnswersOne(cmd, e)
  PROVE  e # "none" /\ TakerNeeds(TakerGetCommand(e)) \subseteq TakerNeeds(cmd) \cup {e}
BY TakerCommands DEF TakerAnswersOne, TakerNeeds, TakerRefundEvents

(* The same for a handler that returns two events.                            *)
LEMMA TakerNeedsTwo ==
  ASSUME NEW cmd, NEW e, NEW f, TakerAnswersTwo(cmd, e, f)
  PROVE  /\ e # "none" /\ f # "none"
         /\ TakerNeeds(TakerGetCommand(e)) \subseteq TakerNeeds(cmd) \cup {e}
         /\ TakerNeeds(TakerGetCommand(f)) \subseteq TakerNeeds(cmd) \cup {e, f}
BY Zenon, TakerCommands DEF TakerAnswersTwo, TakerNeeds, TakerRefundEvents

(* A command that follows an event needs no more than the one a restart       *)
(* chooses.                                                                   *)
LEMMA TakerFollowsNeeds ==
  ASSUME NEW e, NEW cmd, TakerFollows(e, cmd)
  PROVE  /\ TakerNeeds(cmd) \subseteq TakerNeeds(TakerResumes(e))
         /\ cmd = "None" => e = "Finished"
<1>1. CASE cmd = TakerResumes(e)
  BY Zenon, <1>1 DEF TakerResumes, TakerGetCommand
<1>2. CASE cmd = "Finish"
  BY Zenon, <1>2 DEF TakerNeeds
<1>3. QED
  BY Zenon, <1>1, <1>2 DEF TakerFollows

(* The answer of a handler keeps the log good for every restart.              *)
LEMMA TakerAnswersLog == ASSUME TakerLogInv, TakerAnswers PROVE TakerLogInv'
<1>1. CASE \E e, next : TakerAnswersOne(tCmd, e) /\ TakerFollows(e, next) /\ TakerReturns(next, <<e>>)
  <2>1. PICK e, next : TakerAnswersOne(tCmd, e) /\ TakerFollows(e, next) /\ TakerReturns(next, <<e>>)
    BY Zenon, <1>1
  <2>2. tOut' = <<e>> /\ tNext' = next /\ tPc' = "save" /\ UNCHANGED <<tCmd, tLog, tLast>>
    BY Zenon, <2>1 DEF TakerReturns
  <2>3. Len(tOut') = 1 /\ DOMAIN tOut' = {1} /\ tOut'[1] = e
    BY <2>2
  <2>4. TakerFollows(tOut'[Len(tOut')], tNext')
    BY Zenon, <2>1, <2>2, <2>3
  <2>5. QED
    BY <2>1, <2>2, <2>3, <2>4, TakerNeedsOne DEF TakerLogInv, TakerActive, TakerResumes
<1>2. CASE \E e, f : TakerAnswersTwo(tCmd, e, f) /\ TakerReturns(TakerGetCommand(f), <<e, f>>)
  <2>1. PICK e, f : TakerAnswersTwo(tCmd, e, f) /\ TakerReturns(TakerGetCommand(f), <<e, f>>)
    BY Zenon, <1>2
  <2>2. tOut' = <<e, f>> /\ tNext' = TakerGetCommand(f) /\ tPc' = "save" /\ UNCHANGED <<tCmd, tLog, tLast>>
    BY Zenon, <2>1 DEF TakerReturns
  <2>3. Len(tOut') = 2 /\ DOMAIN tOut' = {1, 2} /\ tOut'[1] = e /\ tOut'[2] = f
    BY <2>2
  <2>4. TakerFollows(tOut'[Len(tOut')], tNext')
    BY Zenon, <2>1, <2>2, <2>3, TakerNeedsTwo DEF TakerFollows, TakerResumes
  <2>5. QED
    BY <2>1, <2>2, <2>3, <2>4, TakerNeedsTwo DEF TakerLogInv, TakerActive, TakerResumes
<1>3. QED
  BY Zenon, <1>1, <1>2 DEF TakerAnswers

(* What the taker's save takes from the events it was given.                  *)
LEMMA TakerHeadTail ==
  ASSUME TakerTypeOK, tPc = "save"
  PROVE  /\ Head(tOut) = tOut[1] /\ 1 \in DOMAIN tOut
         /\ DOMAIN Tail(tOut) = 1..(Len(tOut) - 1) /\ DOMAIN tOut = 1..Len(tOut) /\ Len(tOut) \in Nat
         /\ \A i \in DOMAIN Tail(tOut) : i + 1 \in DOMAIN tOut /\ Tail(tOut)[i] = tOut[i + 1]
         /\ Len(Tail(tOut)) = Len(tOut) - 1
         /\ Tail(tOut) = <<>> <=> Len(tOut) = 1
<1>1. tOut \in Seq(TakerSwapEvent) /\ tOut # <<>>
  BY Zenon DEF TakerTypeOK
<1>2. Len(tOut) \in Nat /\ DOMAIN tOut = 1..Len(tOut) /\ Len(tOut) >= 1
  BY <1>1
<1>3. Tail(tOut) \in Seq(TakerSwapEvent) /\ Len(Tail(tOut)) = Len(tOut) - 1 /\ Head(tOut) = tOut[1]
  BY <1>1
<1>4. DOMAIN Tail(tOut) = 1..(Len(tOut) - 1)
  BY <1>2, <1>3
<1>5. \A i \in DOMAIN Tail(tOut) : i + 1 \in DOMAIN tOut /\ Tail(tOut)[i] = tOut[i + 1]
  BY <1>1, <1>2, <1>4
<1>6. Tail(tOut) = <<>> <=> Len(tOut) = 1
  BY <1>2, <1>3
<1>7. QED
  BY <1>2, <1>3, <1>4, <1>5, <1>6

(* So does the save of an event.                                              *)
LEMMA TakerSavesLog == ASSUME TakerTypeOK, TakerLogInv, TakerSaveEvent PROVE TakerLogInv'
<1> DEFINE e == tOut[1]
<1>1. tPc = "save" /\ tLog' = tLog \cup {e} /\ tLast' = e /\ tOut' = Tail(tOut)
  BY Zenon, TakerHeadTail DEF TakerSaveEvent
<1>2. TakerNeeds(TakerResumes(tLast')) \subseteq tLog' /\ tLast' # "none"
  BY <1>1, TakerHeadTail DEF TakerLogInv, TakerTypeOK, TakerSwapEvent
<1>3. ASSUME NEW i \in DOMAIN tOut', NEW n \in TakerNeeds(TakerResumes(tOut'[i]))
      PROVE  n \in tLog' \/ \E j \in 1..i : tOut'[j] = n
  <2>1. n \in tLog \/ \E j \in 1..(i + 1) : tOut[j] = n
    BY Zenon, <1>1, <1>3, TakerHeadTail DEF TakerLogInv
  <2>2. CASE \E j \in 1..(i + 1) : tOut[j] = n
    <3>1. PICK j \in 1..(i + 1) : tOut[j] = n
      BY Zenon, <2>2
    <3>2. j # 1 => j - 1 \in 1..i /\ j - 1 \in DOMAIN Tail(tOut) /\ tOut'[j - 1] = n
      BY <1>1, <1>3, <3>1, TakerHeadTail
    <3>3. QED
      BY <1>1, <3>1, <3>2, Zenon
  <2>3. QED
    BY Zenon, <1>1, <2>1, <2>2
<1>4. CASE Tail(tOut) = <<>>
  <2>1. TakerFollows(tLast', tCmd') /\ tPc' = (IF tCmd' = "None" THEN "end" ELSE "run")
    BY Zenon, <1>1, <1>4, TakerHeadTail DEF TakerSaveEvent, TakerLogInv
  <2>2. (tCmd' = "None" => tLast' = "Finished") /\ TakerNeeds(tCmd') \subseteq tLog'
    BY Zenon, <1>2, <2>1, TakerFollowsNeeds
  <2>3. QED
    BY Zenon, <1>1, <1>2, <1>3, <1>4, <2>1, <2>2 DEF TakerLogInv, TakerActive
<1>5. CASE Tail(tOut) # <<>>
  <2>1. UNCHANGED <<tCmd, tPc, tNext>>
    BY Zenon, <1>5 DEF TakerSaveEvent
  <2>2. TakerFollows(tOut'[Len(tOut')], tNext')
    BY <1>1, <1>5, <2>1, TakerHeadTail DEF TakerLogInv
  <2>3. QED
    BY <1>1, <1>2, <1>3, <2>1, <2>2, Zenon DEF TakerLogInv, TakerActive
<1>6. QED
  BY Zenon, <1>4, <1>5

(* And the taker's log is good whatever step is taken.                        *)
LEMMA NextTakerLog == TypeOK /\ TakerLogInv /\ [Next]_vars => TakerLogInv'
<1> SUFFICES ASSUME TypeOK, TakerLogInv, [Next]_vars PROVE TakerLogInv'
  BY Zenon
<1>1. CASE TakerStep
  <2>1. CASE TakerIsWaiting
    <3>1. UNCHANGED <<tCmd, tOut, tNext, tLog, tLast>> /\ tPc \in TakerActive /\ tPc' \in TakerActive
      BY Zenon, <2>1 DEF TakerIsWaiting, TakerWaits
    <3>2. QED
      BY <3>1 DEF TakerLogInv, TakerActive
  <2>2. QED
    BY Zenon, <1>1, <2>1, TakerStepShape, TakerAnswersLog, TakerSavesLog DEF TypeOK
<1>2. CASE TakerKickStart
  <2>1. UNCHANGED <<tOut, tNext, tLog, tLast>> /\ tPc = "down"
    BY Zenon, <1>2 DEF TakerKickStart
  <2>2. CASE "Started" \in tLog
    <3>1. tCmd' = TakerGetCommand(tLast) /\ tPc' = (IF TakerGetCommand(tLast) = "None" THEN "end" ELSE "run")
      BY Zenon, <1>2, <2>2 DEF TakerKickStart
    <3>2. TakerGetCommand(tLast) = "None" => tLast = "Finished"
      BY Zenon DEF TakerGetCommand
    <3>3. TakerResumes(tLast) = TakerGetCommand(tLast)
      BY Zenon, <2>2 DEF TakerLogInv, TakerResumes
    <3>4. QED
      BY <2>1, <3>1, <3>2, <3>3 DEF TakerLogInv, TakerActive, TakerFollows
  <2>3. CASE "Started" \notin tLog
    BY <1>2, <2>1, <2>3 DEF TakerKickStart, TakerLogInv, TakerActive, TakerNeeds
  <2>4. QED
    BY Zenon, <2>2, <2>3
<1>3. CASE TakerCrash
  BY <1>3 DEF TakerCrash, TakerLogInv, TakerActive, TakerNeeds
<1>4. CASE UNCHANGED takerVars
  BY <1>4 DEF takerVars, TakerLogInv
<1>5. QED
  BY Zenon, <1>1, <1>2, <1>3, <1>4 DEF Next, TakerRuns, TakerRecoverFunds, MakerRuns, Crash, ChainStep, Tick, Done, vars

(* The taker's log is good for every restart, for every value of the          *)
(* constants.                                                                 *)
LEMMA TakerLogCorrect == Spec => []TakerLogInv
<1>1. Init => TakerLogInv
  BY DEF Init, TakerInit, TakerLogInv, TakerNeeds, TakerResumes, TakerFollows, TakerActive
<1>2. QED
  BY <1>1, NextTakerLog, TypeCorrect, PTL DEF Spec

(* What a taker's handler unwraps, the secret included, was saved before it   *)
(* runs, also when a restart chose its command.                               *)
THEOREM TakerData == Spec => []TakerDataPresent
<1>1. TakerLogInv => TakerDataPresent
  BY Zenon DEF TakerLogInv, TakerDataPresent, TakerNeeds
<1>2. QED
  BY <1>1, TakerLogCorrect, PTL

-----------------------------------------------------------------------------
(* What the saved events say about the chain.  Before the send of the taker   *)
(* payment, and after a failure before it, nothing was sent; a refund that is *)
(* reported is accepted, a claim that is reported was broadcast.              *)
TakerUnpaid == {"Started", "Negotiated", "TakerFeeSent", "MakerPaymentReceived", "MakerPaymentWaitConfirmStarted"}

TakerEarlyFailures ==
  {"StartFailed", "NegotiateFailed", "TakerFeeSendFailed", "MakerPaymentValidateFailed",
   "MakerPaymentWaitConfirmFailed"}

TakerSaid(e) == e \in tLog \/ \E i \in DOMAIN tOut : tOut[i] = e

Taken(pay) == pay \in {"spending", "spent", "refunded"}

TakerOutcomeInv ==
  /\ tLast \in TakerUnpaid \cup {"none"} => takerTxs = 0
  /\ \A i \in DOMAIN tOut :
       /\ tOut[i] \in TakerUnpaid \cup TakerEarlyFailures => takerTxs = 0
       /\ tOut[i] \in TakerEarlyFailures \cup {"TakerPaymentSpent"} => i = Len(tOut)
  /\ (\E e \in TakerEarlyFailures : e \in tLog) =>
       /\ takerTxs = 0
       /\ tLast \in TakerEarlyFailures \cup {"Finished"}
       /\ \A i \in DOMAIN tOut : tOut[i] = "Finished"
  /\ takerTxs > 0 => "Started" \in tLog /\ "MakerPaymentReceived" \in tLog
  /\ TakerSaid("TakerPaymentRefunded") => takerPayment = "refunded"
  /\ TakerSaid("MakerPaymentSpent") => Taken(makerPayment) /\ "TakerPaymentSpent" \in tLog

(* The last saved event by the command that is being handled.                 *)
LEMMA TakerLastEvent ==
  ASSUME TypeOK, TakerLogInv, tPc \in TakerActive
  PROVE  /\ tCmd = "Start" => tLast = "none"
         /\ tCmd = "Negotiate" => tLast = "Started"
         /\ tCmd = "SendTakerFee" => tLast = "Negotiated"
         /\ tCmd = "WaitForMakerPayment" => tLast = "TakerFeeSent"
         /\ tCmd = "ValidateMakerPayment" => tLast \in {"MakerPaymentReceived", "MakerPaymentWaitConfirmStarted"}
         /\ tCmd = "SendTakerPayment" => tLast = "MakerPaymentValidatedAndConfirmed"
         /\ tCmd = "WaitForTakerPaymentSpend" => tLast = "TakerPaymentSent"
         /\ tCmd = "SpendMakerPayment" => tLast = "TakerPaymentSpent"
         /\ tCmd = "RefundTakerPayment" => tLast \in TakerRefundEvents
         /\ tLast \in TakerEarlyFailures \cup {"Finished"} => tCmd \in {"Finish", "None"}
         /\ tLast = "TakerPaymentSpent" => tCmd = "SpendMakerPayment"
<1>1. TakerFollows(tLast, tCmd)
  BY Zenon DEF TakerLogInv
<1>2. CASE tCmd = TakerResumes(tLast)
  <2>1. tCmd = (IF tLast = "none" THEN "Start" ELSE TakerGetCommand(tLast))
    BY Zenon, <1>2 DEF TakerResumes
  <2>2. CASE tLast = "none"
    BY Zenon, <2>1, <2>2 DEF TakerEarlyFailures
  <2>3. CASE tLast # "none"
    <3>1. tCmd = TakerGetCommand(tLast)
      BY Zenon, <2>1, <2>3
    <3>2. QED
      BY Zenon, <2>3, <3>1 DEF TakerGetCommand, TakerRefundEvents, TakerEarlyFailures
  <2>4. QED
    BY Zenon, <2>2, <2>3
<1>3. CASE tCmd = "Finish" /\ tLast \in {"MakerPaymentSpendFailed", "TakerPaymentWaitForSpendFailed"}
  BY Zenon, <1>3
<1>4. QED
  BY Zenon, <1>1, <1>2, <1>3 DEF TakerFollows

(* What may follow the last event that was saved.                             *)
LEMMA TakerAnswerKinds ==
  ASSUME TypeOK, TakerLogInv, tPc \in TakerActive
  PROVE  /\ \A e : TakerAnswersOne(tCmd, e) =>
              /\ e \in TakerUnpaid \cup {"StartFailed", "NegotiateFailed", "TakerFeeSendFailed"}
                   => tLast \in TakerUnpaid \cup {"none"}
              /\ e \in TakerEarlyFailures => tLast \in TakerUnpaid \cup {"none"}
              /\ tLast \in TakerEarlyFailures \cup {"Finished"} => e = "Finished"
              /\ e = "MakerPaymentSpent" => "TakerPaymentSpent" \in tLog
         /\ \A e, f : TakerAnswersTwo(tCmd, e, f) =>
              /\ e \in TakerUnpaid \/ f \in TakerUnpaid => tLast \in TakerUnpaid
              /\ tLast \notin TakerEarlyFailures \cup {"Finished"}
              /\ e \notin TakerEarlyFailures \cup {"TakerPaymentRefunded", "MakerPaymentSpent", "TakerPaymentSpent"}
              /\ f \notin TakerEarlyFailures \cup {"TakerPaymentRefunded", "MakerPaymentSpent", "TakerPaymentSpent"}
<1> USE DEF TakerUnpaid, TakerEarlyFailures
<1>1. "SpendMakerPayment" = tCmd => "TakerPaymentSpent" \in tLog
  BY Zenon DEF TakerLogInv, TakerNeeds
<1>2. ASSUME NEW e, TakerAnswersOne(tCmd, e)
      PROVE  /\ e \in TakerUnpaid \cup {"StartFailed", "NegotiateFailed", "TakerFeeSendFailed"}
                  => tLast \in TakerUnpaid \cup {"none"}
             /\ e \in TakerEarlyFailures => tLast \in TakerUnpaid \cup {"none"}
             /\ tLast \in TakerEarlyFailures \cup {"Finished"} => e = "Finished"
             /\ e = "MakerPaymentSpent" => "TakerPaymentSpent" \in tLog
  BY Zenon, <1>1, <1>2, TakerLastEvent DEF TakerAnswersOne
<1>3. ASSUME NEW e, NEW f, TakerAnswersTwo(tCmd, e, f)
      PROVE  /\ e \in TakerUnpaid \/ f \in TakerUnpaid => tLast \in TakerUnpaid
             /\ tLast \notin TakerEarlyFailures \cup {"Finished"}
             /\ e \notin TakerEarlyFailures \cup {"TakerPaymentRefunded", "MakerPaymentSpent", "TakerPaymentSpent"}
             /\ f \notin TakerEarlyFailures \cup {"TakerPaymentRefunded", "MakerPaymentSpent", "TakerPaymentSpent"}
  BY Zenon, <1>3, TakerLastEvent DEF TakerAnswersTwo
<1>4. QED
  BY <1>2, <1>3, Zenon

(* A refund is reported once it is accepted, a claim once it is broadcast.    *)
LEMMA TakerStepSays ==
  ASSUME TypeOK, TakerStep, tPc \in TakerActive, tPc' = "save"
  PROVE  /\ tOut'[1] = "TakerPaymentRefunded" => takerPayment' = "refunded"
         /\ tOut'[1] = "MakerPaymentSpent" => Taken(makerPayment')
<1> USE DEF TakerReturns, TakerWaits, TakerActive
<1>1. CASE TakerStart \/ TakerNegotiate \/ TakerNegotiateAck
  BY <1>1 DEF TakerStart, TakerNegotiate, TakerNegotiateAck
<1>2. CASE TakerNegotiateRecv(mStartedAt)
  BY <1>2 DEF TakerNegotiateRecv
<1>3. CASE TakerSendTakerFee
  BY <1>3 DEF TakerSendTakerFee
<1>4. CASE TakerWaitForMakerPayment \/ TakerWaitForTakerPaymentSpend \/ TakerMakerPaymentRecv
  BY <1>4 DEF TakerWaitForMakerPayment, TakerWaitForTakerPaymentSpend, TakerMakerPaymentRecv
<1>5. CASE TakerValidateMakerPayment
  BY <1>5 DEF TakerValidateMakerPayment
<1>6. CASE TakerSendTakerPayment
  BY <1>6 DEF TakerSendTakerPayment
<1>7. CASE TakerPaymentConfirm \/ TakerPaymentSpendFound
  BY <1>7 DEF TakerPaymentConfirm, TakerPaymentSpendFound, TakerRefundsAfter
<1>8. CASE TakerSpendMakerPayment
  BY <1>8 DEF TakerSpendMakerPayment, Taken
<1>9. CASE TakerRefundTakerPayment \/ TakerRefundWaitLook
  BY <1>9 DEF TakerRefundTakerPayment, TakerRefundWaitLook, TakerRefundOutcome, chainVars
<1>10. CASE TakerRefundSend
  BY <1>10 DEF TakerRefundSend, TakerRefundOutcome
<1>11. CASE TakerFinish \/ TakerSaveEvent
  BY <1>11 DEF TakerFinish, TakerSaveEvent
<1>12. QED
  BY <1>1, <1>2, <1>3, <1>4, <1>5, <1>6, <1>7, <1>8, <1>9, <1>10, <1>11 DEF TakerStep

(* Only send_taker_payment sends a taker payment.                             *)
LEMMA TakerTxsChange ==
  ASSUME [Next]_vars, takerTxs' # takerTxs
  PROVE  TakerRuns /\ TakerSendTakerPayment
<1>1. CASE TakerRuns /\ TakerPays
  BY Zenon, <1>1 DEF TakerPays, TakerSendTakerFee, TakerSpendMakerPayment, TakerRefundSend, TakerRecoverFunds
<1>2. CASE MakerPays
  BY Zenon, <1>2 DEF MakerPays, MakerSendPayment, MakerSpendTakerPayment, MakerRefundMakerPayment, MakerRecoverFunds
<1>3. CASE UNCHANGED chainVars \/ ChainStep
  BY Zenon, <1>3 DEF chainVars, ChainStep, MakerPaymentMined, TakerPaymentMined
<1>4. QED
  BY Zenon, <1>1, <1>2, <1>3, NextPays

(* Every step keeps what the taker saved true of the chain.                   *)
LEMMA NextTakerOutcome ==
  TypeOK /\ MakerSafetyInv /\ PaidInv /\ TakerLogInv /\ TakerOutcomeInv /\ [Next]_vars => TakerOutcomeInv'
<1> SUFFICES ASSUME TypeOK, MakerSafetyInv, PaidInv, TakerLogInv, TakerOutcomeInv, [Next]_vars
             PROVE  TakerOutcomeInv'
  BY Zenon
<1>a. /\ takerPayment = "refunded" => takerPayment' = "refunded"
      /\ Taken(makerPayment) => Taken(makerPayment)'
  BY Zenon, FinalStays DEF Taken
<1>1. CASE TakerStep /\ TakerAnswers
  <2>1. UNCHANGED <<tLog, tLast>> /\ tPc \in TakerActive /\ tPc' = "save"
    BY Zenon, <1>1 DEF TakerAnswers, TakerReturns
  <2>2. takerTxs' # takerTxs => tCmd = "SendTakerPayment" /\ tLast = "MakerPaymentValidatedAndConfirmed"
    BY Zenon, <2>1, TakerTxsChange, TakerLastEvent DEF TakerSendTakerPayment, TakerAt
  <2>3. /\ tLast \in TakerUnpaid \cup {"none"} => takerTxs' = 0
        /\ (\E e \in TakerEarlyFailures : e \in tLog) => takerTxs' = 0 /\ tLast \in TakerEarlyFailures \cup {"Finished"}
    BY Zenon, <2>2 DEF TakerOutcomeInv, TakerUnpaid, TakerEarlyFailures
  <2>4. takerTxs' > 0 => "Started" \in tLog /\ "MakerPaymentReceived" \in tLog
    BY Zenon, <2>2 DEF TakerOutcomeInv, TakerLogInv, TakerNeeds
  <2>5. /\ "TakerPaymentRefunded" \in tLog => takerPayment' = "refunded"
        /\ "MakerPaymentSpent" \in tLog => Taken(makerPayment)' /\ "TakerPaymentSpent" \in tLog
    BY Zenon, <1>a DEF TakerOutcomeInv, TakerSaid
  <2>6. CASE \E e, next : TakerAnswersOne(tCmd, e) /\ TakerFollows(e, next) /\ TakerReturns(next, <<e>>)
    <3>1. PICK e, next : TakerAnswersOne(tCmd, e) /\ TakerFollows(e, next) /\ TakerReturns(next, <<e>>)
      BY Zenon, <2>6
    <3>2. DOMAIN tOut' = {1} /\ tOut'[1] = e /\ Len(tOut') = 1
      BY <3>1 DEF TakerReturns
    <3>3. /\ e \in TakerUnpaid \cup TakerEarlyFailures => tLast \in TakerUnpaid \cup {"none"}
          /\ tLast \in TakerEarlyFailures \cup {"Finished"} => e = "Finished"
          /\ e = "MakerPaymentSpent" => "TakerPaymentSpent" \in tLog
      BY Zenon, <2>1, <3>1, TakerAnswerKinds
    <3>4. /\ e = "TakerPaymentRefunded" => takerPayment' = "refunded"
          /\ e = "MakerPaymentSpent" => Taken(makerPayment)'
      BY Zenon, <1>1, <2>1, <3>2, TakerStepSays
    <3>5. QED
      BY Zenon, <2>1, <2>3, <2>4, <2>5, <3>2, <3>3, <3>4 DEF TakerOutcomeInv, TakerSaid
  <2>7. CASE \E e, f : TakerAnswersTwo(tCmd, e, f) /\ TakerReturns(TakerGetCommand(f), <<e, f>>)
    <3>1. PICK e, f : TakerAnswersTwo(tCmd, e, f) /\ TakerReturns(TakerGetCommand(f), <<e, f>>)
      BY Zenon, <2>7
    <3>2. DOMAIN tOut' = {1, 2} /\ tOut'[1] = e /\ tOut'[2] = f /\ Len(tOut') = 2
      BY <3>1 DEF TakerReturns
    <3>3. /\ e \in TakerUnpaid \/ f \in TakerUnpaid => tLast \in TakerUnpaid
          /\ tLast \notin TakerEarlyFailures \cup {"Finished"}
          /\ e \notin TakerEarlyFailures \cup {"TakerPaymentRefunded", "MakerPaymentSpent", "TakerPaymentSpent"}
          /\ f \notin TakerEarlyFailures \cup {"TakerPaymentRefunded", "MakerPaymentSpent", "TakerPaymentSpent"}
      BY Zenon, <2>1, <3>1, TakerAnswerKinds
    <3>4. \A x \in TakerEarlyFailures : x \notin tLog
      BY Zenon, <2>3, <3>3
    <3>5. QED
      BY Zenon, <2>1, <2>3, <2>4, <2>5, <3>2, <3>3, <3>4 DEF TakerOutcomeInv, TakerSaid
  <2>8. QED
    BY Zenon, <1>1, <2>6, <2>7 DEF TakerAnswers
<1>2. CASE TakerStep /\ TakerSaveEvent
  <2>1. takerTxs' = takerTxs
    BY Zenon, <1>2 DEF TakerSaveEvent, chainVars
  <2>2. /\ tLog' = tLog \cup {tOut[1]} /\ tLast' = tOut[1] /\ 1 \in DOMAIN tOut
        /\ Len(tOut) \in Nat /\ Len(tOut') = Len(tOut) - 1 /\ DOMAIN tOut' = 1..Len(tOut')
        /\ \A i \in DOMAIN tOut' : i + 1 \in DOMAIN tOut /\ tOut'[i] = tOut[i + 1]
    BY Zenon, <1>2, TakerHeadTail DEF TakerSaveEvent, TypeOK
  <2>3. \A e : TakerSaid(e)' => TakerSaid(e)
    BY Zenon, <2>2 DEF TakerSaid
  <2>4. tOut[1] \in TakerEarlyFailures \cup {"TakerPaymentSpent"} => DOMAIN tOut' = {}
    BY <2>2 DEF TakerOutcomeInv
  <2>5. ASSUME NEW i \in DOMAIN tOut'
        PROVE  /\ tOut'[i] \in TakerUnpaid \cup TakerEarlyFailures => takerTxs' = 0
               /\ tOut'[i] \in TakerEarlyFailures \cup {"TakerPaymentSpent"} => i = Len(tOut')
    BY <2>1, <2>2, <2>5 DEF TakerOutcomeInv
  <2>6. tLast' \in TakerUnpaid \cup {"none"} => takerTxs' = 0
    <3>1. tOut[1] # "none"
      BY <1>2, <2>2 DEF TypeOK, TakerTypeOK, TakerSwapEvent
    <3>2. QED
      BY Zenon, <2>1, <2>2, <3>1 DEF TakerOutcomeInv
  <2>7. ASSUME \E e \in TakerEarlyFailures : e \in tLog'
        PROVE  /\ takerTxs' = 0
               /\ tLast' \in TakerEarlyFailures \cup {"Finished"}
               /\ \A i \in DOMAIN tOut' : tOut'[i] = "Finished"
    BY Zenon, <2>1, <2>2, <2>4, <2>7 DEF TakerOutcomeInv
  <2>8. takerTxs' > 0 => "Started" \in tLog' /\ "MakerPaymentReceived" \in tLog'
    BY Zenon, <2>1, <2>2 DEF TakerOutcomeInv
  <2>9. /\ TakerSaid("TakerPaymentRefunded")' => takerPayment' = "refunded"
        /\ TakerSaid("MakerPaymentSpent")' => Taken(makerPayment)' /\ "TakerPaymentSpent" \in tLog'
    BY Zenon, <1>a, <2>2, <2>3 DEF TakerOutcomeInv
  <2>10. QED
    BY Zenon, <2>5, <2>6, <2>7, <2>8, <2>9 DEF TakerOutcomeInv
<1>3. CASE UNCHANGED <<tLog, tLast>> /\ (tOut' = tOut \/ tOut' = <<>>) /\ takerTxs' = takerTxs
  <2>1. \A e : TakerSaid(e)' => TakerSaid(e)
    BY <1>3 DEF TakerSaid
  <2>2. QED
    BY <1>3, <1>a, <2>1 DEF TakerOutcomeInv
<1>4. CASE TakerStep /\ TakerIsWaiting
  <2>1. ~TakerSendTakerPayment
    BY Zenon, <1>4 DEF TakerIsWaiting, TakerWaits, TakerSendTakerPayment, TakerReturns, TakerActive
  <2>2. QED
    BY Zenon, <1>3, <1>4, <2>1, TakerTxsChange DEF TakerIsWaiting, TakerWaits
<1>5. CASE ~TakerStep
  <2>1. takerTxs' = takerTxs
    BY Zenon, <1>5, TakerTxsChange DEF TakerStep
  <2>2. UNCHANGED <<tLog, tLast>> /\ (tOut' = tOut \/ tOut' = <<>>)
    BY Zenon, <1>5 DEF Next, TakerRuns, TakerKickStart, TakerRecoverFunds, MakerRuns, Crash, TakerCrash, ChainStep, Tick,
         Done, vars, takerVars
  <2>3. QED
    BY Zenon, <1>3, <2>1, <2>2
<1>6. QED
  BY Zenon, <1>1, <1>2, <1>4, <1>5, TakerStepShape

(* What the taker saved is true of the chain.                                 *)
LEMMA TakerOutcomeCorrect == Spec => []TakerOutcomeInv
<1>1. Init => TakerOutcomeInv
  BY DEF Init, ChainInit, TakerInit, TakerOutcomeInv, TakerSaid
<1>2. QED
  BY <1>1, NextTakerOutcome, TypeCorrect, MakerSafetyCorrect, LegacyPaid, TakerLogCorrect, PTL DEF Spec

(* A taker's swap that ends with its payment on chain, or with the maker      *)
(* payment unclaimed after its own was taken, is reported by is_recoverable   *)
(* and accepted by recover_funds.                                             *)
THEOREM TakerLeftover == Spec => []TakerLeftoverIsRecoverable
<1>1. TypeOK /\ MakerSafetyInv /\ TakerLogInv /\ TakerOutcomeInv => TakerLeftoverIsRecoverable
  <2> SUFFICES ASSUME TypeOK, MakerSafetyInv, TakerLogInv, TakerOutcomeInv, tPc = "end",
                      Unspent(takerPayment) \/ (SpendSeen(takerPayment) /\ Unspent(makerPayment))
               PROVE  TakerIsRecoverable /\ TakerMayRecover
    BY Zenon DEF TakerLeftoverIsRecoverable
  <2>1. "Finished" \in tLog
    BY Zenon DEF TakerLogInv, MakerSafetyInv, NegotiatedInv
  <2>2. takerTxs > 0 /\ takerTxs # 0
    BY DEF MakerSafetyInv, CountedInv, Unspent, SpendSeen, TypeOK, ChainTypeOK
  <2>3. "TakerPaymentRefunded" \notin tLog
    BY Zenon DEF TakerOutcomeInv, TakerSaid, Unspent, SpendSeen
  <2>4. "MakerPaymentSpent" \notin tLog
    <3>1. SUFFICES ASSUME "MakerPaymentSpent" \in tLog PROVE FALSE
      BY Zenon
    <3>2. Taken(makerPayment) /\ "TakerPaymentSpent" \in tLog
      BY Zenon, <3>1 DEF TakerOutcomeInv, TakerSaid
    <3>3. SpendSeen(takerPayment)
      BY Zenon, <3>2 DEF MakerSafetyInv, SecretInv, TakerKnowsSecret
    <3>4. QED
      BY Zenon, <3>2, <3>3 DEF Taken, Unspent, SpendSeen
  <2>5. \A e \in TakerEarlyFailures : e \notin tLog
    BY Zenon, <2>2 DEF TakerOutcomeInv
  <2>6. TakerIsRecoverable
    BY Zenon, <2>1, <2>3, <2>4, <2>5 DEF TakerIsRecoverable, TakerEarlyFailures
  <2>7. QED
    BY Zenon, <2>1, <2>2, <2>3, <2>4, <2>6 DEF TakerMayRecover, TakerOutcomeInv, PaymentFound
<1>2. QED
  BY <1>1, TypeCorrect, MakerSafetyCorrect, TakerLogCorrect, TakerOutcomeCorrect, PTL

-----------------------------------------------------------------------------
(* The time the taker has: the maker spends the taker payment in the first    *)
(* four fifths of lock_duration, the taker is down for MaxAway at most, and   *)
(* two spends are mined before the maker payment's lock time.                 *)
AwayMargin == (4 * LockDuration) \div 5 + 2 * SpendDelay + MaxAway < 2 * LockDuration

(* The taker pays only against a maker payment that is mined.                 *)
ConfirmedInv == TakerTrustsPayment \/ takerPayment # "none" => makerPayment \notin {"none", "unconfirmed"}

(* The events after which a taker handles nothing but Finish.                 *)
TakerGivesUp ==
  TakerEarlyFailures \cup
    {"TakerPaymentTransactionFailed", "TakerPaymentRefunded", "TakerPaymentRefundFailed", "MakerPaymentSpent",
     "MakerPaymentSpendFailed", "Finished"}

ClaimClosed == takerPayment \in {"none", "refunded"} \/ Taken(makerPayment)

(* Where a handler waits, by its command.                                     *)
TakerWaitsAt ==
  /\ tPc \in {"recv", "ack"} => tCmd \in {"Negotiate", "WaitForMakerPayment"}
  /\ tPc \in {"confirm", "spend"} => tCmd = "WaitForTakerPaymentSpend"
  /\ tPc = "gate" => tCmd = "RefundTakerPayment"

(* A taker whose coins answer gives up only when there is nothing to claim,   *)
(* and handles nothing else between the discovery of the secret and the       *)
(* claim.                                                                     *)
ClaimInv ==
  /\ tLast \in TakerGivesUp => ClaimClosed
  /\ \A i \in DOMAIN tOut : tOut[i] \in TakerGivesUp => ClaimClosed
  /\ "TakerPaymentSpent" \in tLog /\ (tPc = "save" \/ tLast # "TakerPaymentSpent") => Taken(makerPayment)

(* So the claim is made in time.                                              *)
ClaimTimeInv ==
  /\ away <= MaxAway
  /\ SpendSeen(takerPayment) => StartsFixed /\ takerSpendAt <= TakerPaymentSpendBy
  /\ SpendSeen(takerPayment) /\ Unspent(makerPayment) => now <= takerSpendAt + SpendDelay + away
  /\ makerPayment = "spending" =>
       /\ now <= makerSpendAt + SpendDelay
       /\ makerSpendAt <= takerSpendAt + SpendDelay + MaxAway
  /\ TakerNeverLosesBoth

(* The taker pays against a mined maker payment, whatever step is taken.      *)
LEMMA NextConfirmed ==
  TypeOK /\ MakerSafetyInv /\ PaidInv /\ ConfirmedInv /\ [Next]_vars => ConfirmedInv'
<1> SUFFICES ASSUME TypeOK, MakerSafetyInv, PaidInv, ConfirmedInv, [Next]_vars,
                    TakerTrustsPayment' \/ takerPayment' # "none"
             PROVE  makerPayment' \notin {"none", "unconfirmed"}
  BY Zenon DEF ConfirmedInv
<1>1. makerPayment \notin {"none", "unconfirmed"}
  <2>1. CASE TakerTrustsPayment'
    BY Zenon, <2>1, TakerStepTrusts, OthersKeepTrust DEF ConfirmedInv, MakerSafetyInv
  <2>2. CASE takerPayment' # "none"
    BY Zenon, <2>2, TakerPaymentAppears DEF ConfirmedInv
  <2>3. QED
    BY Zenon, <2>1, <2>2
<1>2. QED
  BY Zenon, <1>1, FinalStays

(* A handler waits where its command lets it.                                 *)
LEMMA NextWaitsAt == TypeOK /\ TakerWaitsAt /\ [Next]_vars => TakerWaitsAt'
<1> SUFFICES ASSUME TypeOK, TakerWaitsAt, [Next]_vars PROVE TakerWaitsAt'
  OBVIOUS
<1>1. CASE TakerStep
  <2> USE DEF TakerAt, TakerWaits, TakerWaitsAt
  <2>1. CASE TakerAnswers
    BY Zenon, <2>1 DEF TakerAnswers, TakerReturns
  <2>2. CASE TakerSaveEvent
    BY Zenon, <2>2 DEF TakerSaveEvent, TypeOK, TakerTypeOK
  <2>3. CASE TakerIsWaiting
    <3>1. tPc # "save" /\ tPc' # "save"
      BY Zenon, <2>3 DEF TakerIsWaiting, TakerActive
    <3>2. CASE TakerNegotiate \/ TakerWaitForMakerPayment \/ TakerWaitForTakerPaymentSpend
      BY Zenon, <3>2 DEF TakerNegotiate, TakerWaitForMakerPayment, TakerWaitForTakerPaymentSpend
    <3>3. CASE TakerNegotiateRecv(mStartedAt)
      BY Zenon, <3>1, <3>3 DEF TakerNegotiateRecv, TakerReturns
    <3>4. CASE TakerPaymentConfirm
      BY Zenon, <3>1, <3>4 DEF TakerPaymentConfirm, TakerRefundsAfter, TakerReturns
    <3>5. CASE TakerRefundTakerPayment
      BY Zenon, <3>1, <3>5 DEF TakerRefundTakerPayment, TakerRefundOutcome, TakerReturns
    <3>6. QED
      BY <1>1, <3>1, <3>2, <3>3, <3>4, <3>5, ZenonT(40) DEF TakerStep, TakerStart, TakerNegotiateAck, TakerSendTakerFee,
           TakerMakerPaymentRecv, TakerValidateMakerPayment, TakerSendTakerPayment, TakerPaymentSpendFound,
           TakerSpendMakerPayment, TakerRefundWaitLook, TakerRefundSend, TakerFinish, TakerSaveEvent,
           TakerRefundOutcome, TakerRefundsAfter, TakerReturns
  <2>4. QED
    BY Zenon, <1>1, <2>1, <2>2, <2>3, TakerStepShape
<1>2. CASE TakerKickStart \/ TakerCrash
  BY Zenon, <1>2 DEF TakerKickStart, TakerCrash, TakerWaitsAt
<1>3. CASE UNCHANGED takerVars
  BY Zenon, <1>3 DEF takerVars, TakerWaitsAt
<1>4. QED
  BY <1>1, <1>2, <1>3 DEF Next, TakerRuns, TakerRecoverFunds, MakerRuns, Crash, ChainStep, Tick, Done, vars

(* A handler that gives up leaves nothing to claim.                           *)
LEMMA TakerGivesUpRightly ==
  ASSUME TypeOK, MakerSafetyInv, PaidInv, SentOnceInv, TakerLogInv, TakerOutcomeInv, ConfirmedInv, ClaimInv,
         ~CoinErrors, TakerStep, tPc \in TakerActive, tPc' = "save"
  PROVE  /\ tOut'[1] \in TakerGivesUp => ClaimClosed'
         /\ tCmd = "SpendMakerPayment" => Taken(makerPayment')
<1> USE DEF TakerAt
<1>1. tLast \in TakerUnpaid \cup {"none"} => takerPayment = "none"
  BY Zenon DEF TakerOutcomeInv, MakerSafetyInv, CountedInv
<1> DEFINE Goal == (tOut'[1] \in TakerGivesUp => ClaimClosed') /\ (tCmd = "SpendMakerPayment" => Taken(makerPayment'))
<1>2. ASSUME tCmd \in {"Start", "Negotiate", "WaitForMakerPayment", "ValidateMakerPayment"}, UNCHANGED chainVars
      PROVE  Goal
  <2>1. takerPayment = "none"
    BY Zenon, <1>1, <1>2, TakerLastEvent DEF TakerUnpaid
  <2>2. QED
    BY Zenon, <1>2, <2>1 DEF ClaimClosed, chainVars
<1>3. CASE TakerStart \/ TakerNegotiate \/ TakerNegotiateRecv(mStartedAt) \/ TakerNegotiateAck
  BY Zenon, <1>2, <1>3 DEF TakerStart, TakerNegotiate, TakerNegotiateRecv, TakerNegotiateAck
<1>4. CASE TakerWaitForMakerPayment \/ TakerMakerPaymentRecv \/ TakerValidateMakerPayment
  BY Zenon, <1>2, <1>4 DEF TakerWaitForMakerPayment, TakerMakerPaymentRecv, TakerValidateMakerPayment
<1>5. CASE TakerSendTakerFee
  <2>1. takerPayment = "none" /\ takerPayment' = takerPayment /\ tCmd = "SendTakerFee"
    BY Zenon, <1>1, <1>5, TakerLastEvent DEF TakerSendTakerFee, TakerUnpaid
  <2>2. QED
    BY Zenon, <2>1 DEF ClaimClosed
<1>6. CASE TakerSendTakerPayment
  <2>1. tCmd = "SendTakerPayment" /\ tPc = "run"
    BY Zenon, <1>6 DEF TakerSendTakerPayment
  <2>2. CASE tOut' = <<"TakerPaymentSent">>
    BY Zenon, <2>1, <2>2 DEF TakerGivesUp, TakerEarlyFailures
  <2>3. CASE tOut' # <<"TakerPaymentSent">>
    <3>1. UNCHANGED takerPayment /\ ~(~TakerSkipsQuestion /\ PaymentFound(takerTxs))
      BY Zenon, <1>6, <2>3 DEF TakerSendTakerPayment, TakerReturns
    <3>2. takerTxs = 0
      BY <2>1, <3>1 DEF TakerSkipsQuestion, PaymentFound, SentOnceInv, TakerBeforeSend, TypeOK, ChainTypeOK
    <3>3. QED
      BY Zenon, <2>1, <3>1, <3>2 DEF MakerSafetyInv, CountedInv, ClaimClosed
  <2>4. QED
    BY Zenon, <2>2, <2>3
<1>7. CASE TakerWaitForTakerPaymentSpend \/ TakerPaymentConfirm \/ TakerPaymentSpendFound
  <2>1. tCmd = "WaitForTakerPaymentSpend"
    BY Zenon, <1>7 DEF TakerWaitForTakerPaymentSpend, TakerPaymentConfirm, TakerPaymentSpendFound
  <2>2. tOut'[1] \in {"TakerPaymentWaitConfirmFailed", "TakerPaymentSpent", "TakerPaymentWaitForSpendFailed"}
    BY <1>7 DEF TakerWaitForTakerPaymentSpend, TakerPaymentConfirm, TakerPaymentSpendFound, TakerRefundsAfter,
         TakerReturns, TakerWaits
  <2>3. QED
    BY Zenon, <2>1, <2>2 DEF TakerGivesUp, TakerEarlyFailures
<1>8. CASE TakerSpendMakerPayment
  <2>1. SpendSeen(takerPayment)
    BY Zenon, <1>8 DEF TakerSpendMakerPayment, MakerSafetyInv, SecretInv, TakerKnowsSecret
  <2>2. makerPayment \notin {"none", "unconfirmed"}
    BY Zenon, <2>1 DEF ConfirmedInv, SpendSeen
  <2>3. Taken(makerPayment')
    BY Zenon, <1>8, <2>2 DEF TakerSpendMakerPayment, Taken, TypeOK, ChainTypeOK, PayState
  <2>4. QED
    BY Zenon, <2>3 DEF ClaimClosed
<1>9. CASE TakerRefundTakerPayment \/ TakerRefundWaitLook
  <2>1. tCmd = "RefundTakerPayment"
    BY Zenon, <1>9 DEF TakerRefundTakerPayment, TakerRefundWaitLook
  <2>2. tOut'[1] = "TakerPaymentSpent" \/ (tOut'[1] = "TakerPaymentRefunded" /\ takerPayment' = "refunded")
    BY <1>9 DEF TakerRefundTakerPayment, TakerRefundWaitLook, TakerRefundOutcome, TakerReturns, TakerWaits, chainVars
  <2>3. QED
    BY Zenon, <2>1, <2>2 DEF ClaimClosed, TakerGivesUp, TakerEarlyFailures
<1>10. CASE TakerRefundSend
  <2>1. tCmd = "RefundTakerPayment" /\ now >= taker_payment_lock
    BY Zenon, <1>10 DEF TakerRefundSend
  <2>2. \/ tOut'[1] = "TakerPaymentSpent"
        \/ tOut'[1] = "TakerPaymentRefunded" /\ takerPayment' = "refunded"
        \/ /\ tOut'[1] = "TakerPaymentRefundFailed" /\ UNCHANGED <<takerPayment, makerPayment>>
           /\ ~Unspent(takerPayment) /\ TakerLookMisses
    BY <1>10 DEF TakerRefundSend, TakerRefundOutcome, TakerReturns
  <2>3. ASSUME ~Unspent(takerPayment), TakerLookMisses, UNCHANGED <<takerPayment, makerPayment>> PROVE ClaimClosed'
    <3>1. takerPayment # "spending"
      BY Zenon, <2>1, SpendBeforeLock DEF MakerSafetyInv
    <3>2. takerPayment = "spent" => Taken(makerPayment)
      <4>1. tLast # "TakerPaymentSpent"
        BY Zenon, <2>1, TakerLastEvent DEF TakerRefundEvents
      <4>2. QED
        BY Zenon, <2>3, <4>1 DEF TakerLookMisses, ClaimInv
    <3>3. QED
      BY Zenon, <2>3, <3>1, <3>2 DEF ClaimClosed, Unspent, TypeOK, ChainTypeOK, PayState
  <2>4. QED
    BY Zenon, <2>1, <2>2, <2>3 DEF ClaimClosed, TakerGivesUp, TakerEarlyFailures
<1>11. CASE TakerFinish
  <2>1. tCmd = "Finish" /\ UNCHANGED chainVars
    BY Zenon, <1>11 DEF TakerFinish
  <2>2. tLast \in TakerGivesUp
    <3>1. \/ tLast # "none" /\ TakerGetCommand(tLast) = "Finish"
          \/ tLast = "MakerPaymentSpendFailed"
      BY Zenon, <2>1 DEF TakerLogInv, TakerFollows, TakerResumes
    <3>2. QED
      BY Zenon, <3>1 DEF TakerGetCommand, TakerRefundEvents, TakerGivesUp, TakerEarlyFailures, TypeOK, TakerTypeOK,
           TakerSwapEvent
  <2>3. QED
    BY Zenon, <2>1, <2>2 DEF ClaimInv, ClaimClosed, chainVars, Taken
<1>12. CASE TakerSaveEvent
  BY Zenon, <1>12 DEF TakerSaveEvent, TakerActive
<1>13. QED
  BY Zenon, <1>3, <1>4, <1>5, <1>6, <1>7, <1>8, <1>9, <1>10, <1>11, <1>12 DEF TakerStep

(* What is closed stays closed: a taker that gave up sends no payment.        *)
LEMMA ClosedStays ==
  ASSUME TypeOK, MakerSafetyInv, PaidInv, TakerLogInv, [Next]_vars, ClaimClosed,
         tLast \in TakerGivesUp \/ tPc \notin TakerActive
  PROVE  ClaimClosed'
<1>1. takerPayment = "none" => takerPayment' = "none"
  <2>1. SUFFICES ASSUME takerPayment = "none", takerPayment' # "none" PROVE FALSE
    BY Zenon
  <2>2. TakerSendTakerPayment
    <3>1. takerTxs' # takerTxs
      BY Zenon, <2>1, NextCounted DEF MakerSafetyInv, CountedInv
    <3>2. QED
      BY Zenon, <3>1, TakerTxsChange
  <2>3. tPc \in TakerActive /\ tLast = "MakerPaymentValidatedAndConfirmed"
    BY Zenon, <2>2, TakerLastEvent DEF TakerSendTakerPayment, TakerAt, TakerActive
  <2>4. QED
    BY Zenon, <2>3 DEF TakerGivesUp, TakerEarlyFailures
<1>2. QED
  BY Zenon, <1>1, FinalStays DEF ClaimClosed, Taken

(* Every step keeps ClaimInv.                                                 *)
LEMMA NextClaim ==
  ASSUME TypeOK, MakerSafetyInv, PaidInv, SentOnceInv, TakerLogInv, TakerOutcomeInv, ConfirmedInv, ClaimInv,
         ~CoinErrors, [Next]_vars
  PROVE  ClaimInv'
<1>a. Taken(makerPayment) => Taken(makerPayment)'
  BY Zenon, FinalStays DEF Taken
<1>b. tLast \in TakerGivesUp => ClaimClosed'
  BY Zenon, ClosedStays DEF ClaimInv
<1>1. CASE TakerStep /\ TakerAnswers
  <2>1. UNCHANGED <<tLog, tLast>> /\ tPc \in TakerActive /\ tPc' = "save"
    BY Zenon, <1>1 DEF TakerAnswers, TakerReturns
  <2>2. (tOut'[1] \in TakerGivesUp => ClaimClosed') /\ (tCmd = "SpendMakerPayment" => Taken(makerPayment)')
    BY Zenon, <1>1, <2>1, TakerGivesUpRightly
  <2>3. \A i \in DOMAIN tOut' : tOut'[i] \in TakerGivesUp => i = 1
    <3>1. CASE \E e, next : TakerAnswersOne(tCmd, e) /\ TakerFollows(e, next) /\ TakerReturns(next, <<e>>)
      BY <3>1 DEF TakerReturns
    <3>2. CASE \E e, f : TakerAnswersTwo(tCmd, e, f) /\ TakerReturns(TakerGetCommand(f), <<e, f>>)
      BY <3>2 DEF TakerReturns, TakerAnswersTwo, TakerGivesUp, TakerEarlyFailures
    <3>3. QED
      BY Zenon, <1>1, <3>1, <3>2 DEF TakerAnswers
  <2>4. "TakerPaymentSpent" \in tLog => Taken(makerPayment)'
    BY Zenon, <1>a, <2>1, <2>2, TakerLastEvent DEF ClaimInv
  <2>5. QED
    BY Zenon, <1>b, <2>1, <2>2, <2>3, <2>4 DEF ClaimInv
<1>2. CASE TakerStep /\ TakerSaveEvent
  <2>1. /\ tLog' = tLog \cup {tOut[1]} /\ tLast' = tOut[1] /\ 1 \in DOMAIN tOut /\ tPc = "save"
        /\ Len(tOut) \in Nat /\ Len(tOut') = Len(tOut) - 1 /\ DOMAIN tOut' = 1..Len(tOut')
        /\ \A i \in DOMAIN tOut' : i + 1 \in DOMAIN tOut /\ tOut'[i] = tOut[i + 1]
    BY Zenon, <1>2, TakerHeadTail DEF TakerSaveEvent, TypeOK
  <2>2. \A i \in DOMAIN tOut : tOut[i] \in TakerGivesUp => ClaimClosed'
    BY Zenon, <2>1, ClosedStays DEF ClaimInv, TakerActive
  <2>3. tOut[1] = "TakerPaymentSpent" => tPc' # "save"
    <3>1. tOut[1] = "TakerPaymentSpent" => Len(tOut) = 1
      BY Zenon, <2>1 DEF TakerOutcomeInv
    <3>2. Len(tOut) = 1 => Tail(tOut) = <<>>
      BY Zenon, <2>1, TakerHeadTail DEF TypeOK
    <3>3. QED
      BY Zenon, <1>2, <3>1, <3>2 DEF TakerSaveEvent
  <2>4. "TakerPaymentSpent" \in tLog => Taken(makerPayment)'
    BY Zenon, <1>a, <2>1 DEF ClaimInv
  <2>5. QED
    BY Zenon, <2>1, <2>2, <2>3, <2>4 DEF ClaimInv
<1>3. CASE /\ UNCHANGED <<tLog, tLast>> /\ (tOut' = tOut \/ tOut' = <<>>)
           /\ tPc' = "save" => tPc = "save"
  <2>1. \A i \in DOMAIN tOut' : tPc = "save" /\ i \in DOMAIN tOut /\ tOut'[i] = tOut[i]
    BY <1>3 DEF TakerLogInv
  <2>2. \A i \in DOMAIN tOut' : tOut'[i] \in TakerGivesUp => ClaimClosed'
    BY Zenon, <2>1, ClosedStays DEF ClaimInv, TakerActive
  <2>3. QED
    BY Zenon, <1>a, <1>b, <1>3, <2>2 DEF ClaimInv
<1>4. CASE TakerStep /\ TakerIsWaiting
  BY Zenon, <1>3, <1>4 DEF TakerIsWaiting, TakerWaits, TakerActive
<1>5. CASE ~TakerStep
  <2>1. /\ UNCHANGED <<tLog, tLast>> /\ (tOut' = tOut \/ tOut' = <<>>)
        /\ tPc' = "save" => tPc = "save"
    BY Zenon, <1>5 DEF Next, TakerRuns, TakerKickStart, TakerRecoverFunds, MakerRuns, Crash, TakerCrash, ChainStep, Tick,
         Done, vars, takerVars
  <2>2. QED
    BY Zenon, <1>3, <2>1
<1>6. QED
  BY Zenon, <1>1, <1>2, <1>4, <1>5, TakerStepShape

(* While the maker's spend is mined and the maker payment is unclaimed, a     *)
(* taker that is up has something to do at once.                              *)
LEMMA ClaimIsDue ==
  ASSUME TypeOK, MakerSafetyInv, TakerLogInv, TakerOutcomeInv, TakerWaitsAt, ClaimInv, ~CoinErrors,
         takerPayment = "spent", Unspent(makerPayment), tPc # "down"
  PROVE  TakerMustAct
<1> SUFFICES ASSUME tPc # "save" PROVE TakerMustAct
  BY Zenon DEF TakerMustAct
<1>1. takerTxs > 0 /\ takerTxs # 0
  BY DEF MakerSafetyInv, CountedInv, TypeOK, ChainTypeOK
<1>2. tLast \notin TakerUnpaid \cup {"none"} /\ "Started" \in tLog
  BY Zenon, <1>1 DEF TakerOutcomeInv
<1>3. ~Taken(makerPayment) /\ tLast \notin TakerGivesUp
  BY Zenon DEF ClaimInv, ClaimClosed, Taken, Unspent
<1>4. tPc \notin {"end", "lost"}
  BY Zenon, <1>2, <1>3 DEF TakerLogInv, TakerGivesUp
<1>5. tPc \in TakerActive
  BY Zenon, <1>4 DEF TakerActive, TypeOK, TakerTypeOK, TakerPc
<1>6. tCmd \notin {"Start", "Negotiate", "WaitForMakerPayment", "ValidateMakerPayment"}
  BY Zenon, <1>2, <1>5, TakerLastEvent DEF TakerUnpaid
<1>7. CASE tPc = "run"
  BY Zenon, <1>6, <1>7 DEF TakerMustAct
<1>8. CASE tPc \in {"recv", "ack"}
  BY Zenon, <1>6, <1>8 DEF TakerWaitsAt
<1>9. CASE tPc = "confirm"
  <2>1. now \in Nat /\ tUntil \in Nat
    BY Zenon DEF TypeOK, ChainTypeOK, TakerTypeOK
  <2>2. now > tUntil \/ ConfirmedBy(takerPayment, tUntil)
    BY <2>1 DEF ConfirmedBy
  <2>3. QED
    BY Zenon, <1>9, <2>2 DEF TakerMustAct
<1>10. CASE tPc = "spend"
  BY Zenon, <1>10 DEF TakerMustAct
<1>11. CASE tPc = "gate"
  <2>1. tLast # "TakerPaymentSpent"
    BY Zenon, <1>5, <1>11, TakerLastEvent DEF TakerWaitsAt, TakerRefundEvents
  <2>2. "TakerPaymentSpent" \notin tLog
    BY Zenon, <1>3, <2>1 DEF ClaimInv
  <2>3. QED
    BY Zenon, <1>11, <2>2 DEF TakerMustAct
<1>12. QED
  BY Zenon, <1>5, <1>7, <1>8, <1>9, <1>10, <1>11 DEF TakerActive

(* The times of the two spends are those of their broadcasts.                 *)
LEMMA SpendTimes ==
  ASSUME TypeOK, MakerSafetyInv, [Next]_vars
  PROVE  /\ SpendSeen(takerPayment) => takerSpendAt' = takerSpendAt
         /\ makerPayment = "spending" => makerSpendAt' = makerSpendAt
         /\ makerPayment # "spending" /\ makerPayment' = "spending" =>
              /\ TakerRuns /\ makerPayment = "confirmed" /\ makerSpendAt' = now /\ takerSpendAt' = takerSpendAt
              /\ SpendSeen(takerPayment)
<1>1. CASE MakerPays
  BY Zenon, <1>1 DEF MakerPays, MakerSendPayment, MakerSpendTakerPayment, MakerRefundMakerPayment, MakerRecoverFunds,
       SpendSeen
<1>2. CASE TakerRuns /\ TakerPays
  <2>1. CASE TakerSpendMakerPayment
    BY Zenon, <1>2, <2>1 DEF TakerSpendMakerPayment, TakerAt, MakerSafetyInv, SecretInv, TakerKnowsSecret
  <2>2. CASE TakerRecoverFunds
    BY Zenon, <1>2, <2>2 DEF TakerRecoverFunds, MakerSafetyInv, SecretInv, TakerKnowsSecret
  <2>3. QED
    BY Zenon, <1>2, <2>1, <2>2 DEF TakerPays, TakerSendTakerFee, TakerSendTakerPayment, TakerRefundSend
<1>3. CASE UNCHANGED chainVars \/ ChainStep
  BY Zenon, <1>3 DEF chainVars, ChainStep, MakerPaymentMined, TakerPaymentMined
<1>4. QED
  BY Zenon, <1>1, <1>2, <1>3, NextPays

(* Time passes, and the taker's absence is counted, in Tick alone.            *)
LEMMA OnlyTicks ==
  ASSUME [Next]_vars
  PROVE  Tick \/ (now' = now /\ away' = away)
BY Zenon DEF Next, MakerRuns, TakerRuns, Crash, ChainStep, MakerPaymentMined, TakerPaymentMined, Done, vars

(* The sum of the deadlines lies before the maker payment's lock time.        *)
LEMMA ClaimBeforeLock ==
  ASSUME TypeOK, AwayMargin, ClaimTimeInv, SpendSeen(takerPayment),
         Unspent(makerPayment) \/ makerPayment = "spending"
  PROVE  ~(now >= maker_payment_lock)
<1> DEFINE Late == (4 * LockDuration) \div 5
<1>1. /\ now \in Nat /\ mStartedAt \in Nat /\ takerSpendAt \in Nat /\ makerSpendAt \in Nat /\ away \in Nat
      /\ LockDuration \in Nat /\ SpendDelay \in Nat /\ MaxAway \in Nat
  BY Zenon, ConstantsAssumption DEF TypeOK, ChainTypeOK, MakerTypeOK
<1>2. Late \in Nat
  BY <1>1
<1>3. Late + 2 * SpendDelay + MaxAway < 2 * LockDuration
  BY Zenon DEF AwayMargin
<1>4. takerSpendAt <= mStartedAt + Late /\ away <= MaxAway
  BY Zenon DEF ClaimTimeInv, TakerPaymentSpendBy
<1>5. \/ now <= takerSpendAt + SpendDelay + away
      \/ now <= makerSpendAt + SpendDelay /\ makerSpendAt <= takerSpendAt + SpendDelay + MaxAway
  BY Zenon DEF ClaimTimeInv
<1> HIDE DEF Late
<1>6. now < mStartedAt + 2 * LockDuration
  BY <1>1, <1>2, <1>3, <1>4, <1>5
<1>7. QED
  BY <1>1, <1>6 DEF maker_payment_lock

(* Arithmetic of the bound: it grows with the absence.                        *)
LEMMA BoundGrows ==
  ASSUME NEW n \in Nat, NEW spend \in Nat, NEW delay \in Nat, NEW a \in Nat, NEW b \in Nat
  PROVE  /\ n <= spend + delay + a /\ a <= b => n <= spend + delay + b
         /\ n < spend + delay => n + 1 <= spend + delay + b
         /\ n <= n + delay + b
OBVIOUS

(* Every step keeps the claim in time.                                        *)
LEMMA NextClaimTime ==
  ASSUME TypeOK, TypeOK', MakerSafetyInv, PaidInv, TakerLogInv, TakerOutcomeInv, TakerWaitsAt, ConfirmedInv,
         ClaimInv, ClaimTimeInv, ~CoinErrors, AwayMargin, [Next]_vars
  PROVE  ClaimTimeInv'
<1>1. /\ now \in Nat /\ takerSpendAt \in Nat /\ makerSpendAt \in Nat /\ away \in Nat
      /\ SpendDelay \in Nat /\ MaxAway \in Nat
  BY Zenon, ConstantsAssumption DEF TypeOK, ChainTypeOK
<1>2. away' <= MaxAway /\ away <= away'
  <2>1. CASE Tick
    <3>1. away' = away \/ (away' = away + 1 /\ away < MaxAway)
      BY Zenon, <2>1 DEF Tick
    <3>2. QED
      BY <1>1, <3>1 DEF ClaimTimeInv
  <2>2. QED
    BY <1>1, <2>1, OnlyTicks DEF ClaimTimeInv
<1>3. ASSUME SpendSeen(takerPayment), ~SpendSeen(takerPayment') PROVE FALSE
  BY Zenon, <1>3, SpendStays
<1>4. ASSUME ~SpendSeen(takerPayment), SpendSeen(takerPayment')
      PROVE  /\ MakerSpendTakerPayment /\ MakerRuns /\ now <= TakerPaymentSpendBy /\ takerSpendAt' = now
             /\ makerPayment' = makerPayment /\ Unspent(makerPayment) /\ now' = now
  <2>1. takerPayment # "spending" /\ takerPayment' = "spending"
    BY Zenon, <1>4, TakerPaymentStep DEF SpendSeen
  <2>2. MakerSpendTakerPayment /\ MakerRuns /\ now <= TakerPaymentSpendBy /\ takerSpendAt' = now
    BY Zenon, <2>1, SpendAppears
  <2>3. makerPayment' = makerPayment /\ Unspent(makerPayment)
    BY Zenon, <2>1, TakerPaymentStep
  <2>4. QED
    BY Zenon, <2>2, <2>3 DEF MakerRuns
<1>5. ASSUME SpendSeen(takerPayment') PROVE StartsFixed' /\ takerSpendAt' <= TakerPaymentSpendBy'
  <2>1. StartsFixed
    <3>1. CASE SpendSeen(takerPayment)
      BY Zenon, <3>1 DEF ClaimTimeInv
    <3>2. CASE ~SpendSeen(takerPayment)
      BY Zenon, <1>4, <1>5, <3>2 DEF PaidInv, Unspent
    <3>3. QED
      BY Zenon, <3>1, <3>2
  <2>2. StartsFixed' /\ mStartedAt' = mStartedAt
    BY Zenon, <2>1, NextNegotiated DEF MakerSafetyInv
  <2>3. takerSpendAt' <= TakerPaymentSpendBy
    BY Zenon, <1>4, <1>5, SpendTimes DEF ClaimTimeInv
  <2>4. QED
    BY Zenon, <2>2, <2>3 DEF TakerPaymentSpendBy
<1>6. ASSUME SpendSeen(takerPayment'), Unspent(makerPayment')
      PROVE  now' <= takerSpendAt' + SpendDelay + away'
  <2>1. CASE SpendSeen(takerPayment)
    <3>1. Unspent(makerPayment) /\ takerSpendAt' = takerSpendAt
      <4>1. makerPayment # "none"
        BY Zenon, <2>1 DEF ConfirmedInv, SpendSeen
      <4>2. QED
        BY Zenon, <1>6, <2>1, <4>1, SpendTimes, FinalStays DEF Unspent, TypeOK, ChainTypeOK, PayState
    <3>2. now <= takerSpendAt + SpendDelay + away
      BY Zenon, <2>1, <3>1 DEF ClaimTimeInv
    <3>a. away' \in Nat
      BY Zenon DEF TypeOK, ChainTypeOK
    <3>3. CASE now' = now
      <4>1. now <= takerSpendAt + SpendDelay + away'
        BY <1>1, <1>2, <3>2, <3>a, BoundGrows, Zenon
      <4>2. QED
        BY Zenon, <3>1, <3>3, <4>1
    <3>4. CASE Tick
      <4>1. now' = now + 1 /\ ~TakerMustAct
        BY Zenon, <3>4 DEF Tick
      <4>2. CASE takerPayment = "spending"
        <5>1. now < takerSpendAt + SpendDelay
          BY Zenon, <3>4, <4>2 DEF Tick
        <5>2. now + 1 <= takerSpendAt + SpendDelay + away'
          BY <1>1, <3>a, <5>1, BoundGrows, Zenon
        <5>3. QED
          BY Zenon, <3>1, <4>1, <5>2
      <4>3. CASE takerPayment = "spent"
        <5>1. tPc = "down"
          BY Zenon, <3>1, <4>1, <4>3, ClaimIsDue
        <5>2. away' = away + 1
          BY Zenon, <2>1, <3>1, <3>4, <5>1 DEF Tick, TakerMissesClaim
        <5>3. QED
          BY <1>1, <3>1, <3>2, <4>1, <5>2
      <4>4. QED
        BY Zenon, <2>1, <4>2, <4>3 DEF SpendSeen
    <3>5. QED
      BY Zenon, <3>3, <3>4, OnlyTicks
  <2>2. CASE ~SpendSeen(takerPayment)
    <3>1. takerSpendAt' = now /\ now' = now
      BY Zenon, <1>4, <1>6, <2>2
    <3>2. away' \in Nat
      BY DEF TypeOK, ChainTypeOK
    <3>3. now <= now + SpendDelay + away'
      BY <1>1, <3>2, BoundGrows, Zenon
    <3>4. QED
      BY Zenon, <3>1, <3>3
  <2>3. QED
    BY Zenon, <2>1, <2>2
<1>7. ASSUME makerPayment' = "spending"
      PROVE  now' <= makerSpendAt' + SpendDelay /\ makerSpendAt' <= takerSpendAt' + SpendDelay + MaxAway
  <2>1. CASE makerPayment = "spending"
    <3>1. SpendSeen(takerPayment)
      BY Zenon, <2>1 DEF MakerSafetyInv, SecretInv, TakerKnowsSecret, SpendSeen
    <3>2. makerSpendAt' = makerSpendAt /\ takerSpendAt' = takerSpendAt
      BY Zenon, <2>1, <3>1, SpendTimes
    <3>3. now <= makerSpendAt + SpendDelay /\ makerSpendAt <= takerSpendAt + SpendDelay + MaxAway
      BY Zenon, <2>1 DEF ClaimTimeInv
    <3>4. Tick => now' = now + 1 /\ now < makerSpendAt + SpendDelay
      BY Zenon, <2>1 DEF Tick
    <3>5. now' <= makerSpendAt + SpendDelay
      BY <1>1, <3>3, <3>4, OnlyTicks
    <3>6. QED
      BY Zenon, <3>2, <3>3, <3>5
  <2>2. CASE makerPayment # "spending"
    <3>1. /\ TakerRuns /\ makerPayment = "confirmed" /\ makerSpendAt' = now /\ takerSpendAt' = takerSpendAt
          /\ SpendSeen(takerPayment)
      BY Zenon, <1>7, <2>2, SpendTimes
    <3>2. now <= takerSpendAt + SpendDelay + away /\ away <= MaxAway
      BY Zenon, <3>1 DEF ClaimTimeInv, Unspent
    <3>3. now' = now
      BY Zenon, <3>1 DEF TakerRuns
    <3>4. QED
      BY <1>1, <3>1, <3>2, <3>3
  <2>3. QED
    BY Zenon, <2>1, <2>2
<1>8. TakerNeverLosesBoth'
  <2> SUFFICES ASSUME SpendSeen(takerPayment'), makerPayment' = "refunded" PROVE FALSE
    BY Zenon DEF TakerNeverLosesBoth
  <2>1. CASE makerPayment = "refunded"
    <3>1. ~SpendSeen(takerPayment)
      BY Zenon, <2>1 DEF ClaimTimeInv, TakerNeverLosesBoth
    <3>2. QED
      BY Zenon, <1>4, <2>1, <3>1 DEF Unspent
  <2>2. CASE makerPayment # "refunded"
    <3>1. now >= maker_payment_lock
      BY Zenon, <2>2, RefundAppears
    <3>2. takerPayment' = takerPayment /\ makerPayment \in {"unconfirmed", "confirmed", "spending"}
      BY Zenon, <2>2, MakerPaymentStep
    <3>3. QED
      BY Zenon, <3>1, <3>2, ClaimBeforeLock DEF Unspent
  <2>3. QED
    BY Zenon, <2>1, <2>2
<1>9. QED
  BY Zenon, <1>2, <1>5, <1>6, <1>7, <1>8 DEF ClaimTimeInv

(* A taker whose coins answer, and that is not down for longer than the       *)
(* margin, does not lose both payments: it finds the maker's spend in the     *)
(* wait or in the refund chain, in this run or after a restart, and claims    *)
(* the maker payment before the maker may refund it.                          *)
THEOREM TakerSafe == Spec => [](~CoinErrors /\ AwayMargin => TakerNeverLosesBoth)
<1> DEFINE Inv == /\ ConfirmedInv
                  /\ TakerWaitsAt
                  /\ ~CoinErrors => ClaimInv
                  /\ ~CoinErrors /\ AwayMargin => ClaimTimeInv
           Known == TypeOK /\ MakerSafetyInv /\ PaidInv /\ SentOnceInv /\ TakerLogInv /\ TakerOutcomeInv
<1>1. Init => Inv
  <2> USE DEF Init, ChainInit, TakerInit
  <2>1. Init => ConfirmedInv /\ TakerWaitsAt
    BY DEF ConfirmedInv, TakerTrustsPayment, TakerWaitsAt
  <2>2. Init => ClaimInv
    BY Zenon DEF ClaimInv, ClaimClosed
  <2>3. Init => ClaimTimeInv
    BY ConstantsAssumption DEF ClaimTimeInv, TakerNeverLosesBoth, SpendSeen
  <2>4. QED
    BY Zenon, <2>1, <2>2, <2>3
<1>2. Known /\ TypeOK' /\ Inv /\ [Next]_vars => Inv'
  <2> SUFFICES ASSUME Known, TypeOK', Inv, [Next]_vars PROVE Inv'
    BY Zenon
  <2>1. ConfirmedInv' /\ TakerWaitsAt'
    BY Zenon, NextConfirmed, NextWaitsAt
  <2>2. ASSUME ~CoinErrors PROVE ClaimInv'
    BY Zenon, <2>2, NextClaim
  <2>3. ASSUME ~CoinErrors, AwayMargin PROVE ClaimTimeInv'
    BY Zenon, <2>3, NextClaimTime
  <2>4. QED
    BY Zenon, <2>1, <2>2, <2>3 DEF AwayMargin
<1>3. Inv => (~CoinErrors /\ AwayMargin => TakerNeverLosesBoth)
  BY Zenon DEF ClaimTimeInv
<1>4. QED
  BY <1>1, <1>2, <1>3, TypeCorrect, SentOnceCorrect, MakerSafetyCorrect, LegacyPaid, TakerLogCorrect, TakerOutcomeCorrect, PTL
    DEF Spec
=============================================================================
