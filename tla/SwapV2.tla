------------------------------- MODULE SwapV2 -------------------------------
(* The maker and the taker of one version-two swap, the two chains, the       *)
(* network and the clock.                                                     *)
EXTENDS MakerSwapV2, TakerSwapV2

(* The time between the last moment the maker spends the taker payment and    *)
(* the lock time of that payment covers the mining of the spend.              *)
ASSUME MarginAssumption == (LockDuration * 2) \div 3 + RecvWait + SpendDelay < LockDuration

vars == <<now, net, chainVars, noteVars, machineVars>>

MustAct(r) ==
  \/ pc[r] = "store"
  \/ pc[r] = "down" /\ now >= RestartBy

(* The clock advances once everything that is due has happened.               *)
Tick ==
  /\ now < MaxTime
  /\ ~MakerMustAct
  /\ ~TakerMustAct
  /\ \A r \in Role : ~MustAct(r)
  /\ takerPayment = "spending" => now < takerSpendAt + SpendDelay
  /\ makerPayment = "spending" => now < makerSpendAt + SpendDelay
  /\ now' = now + 1
  /\ UNCHANGED <<net, chainVars, noteVars, machineVars>>

OnChanged == (MakerOnChanged \/ TakerOnChanged) /\ UNCHANGED now

Runs(r) ==
  /\ OnNewState(r) \/ OnFinished(r) \/ KickStart(r)
  /\ UNCHANGED <<now, net, chainVars, noteVars>>

Stops(r) == Crash(r) /\ UNCHANGED <<now, net, chainVars, noteVars>>

ChainStep == Mined /\ UNCHANGED <<now, net, noteVars, machineVars>>

(* Neither role has anything left to do.                                      *)
Over == \A r \in Role : pc[r] \in {"end", "failed", "lost"}

Done == Over /\ UNCHANGED vars

Init == ChainInit /\ MachineInit

Next == OnChanged \/ (\E r \in Role : Runs(r) \/ Stops(r)) \/ ChainStep \/ Tick \/ Done

Spec == Init /\ [][Next]_vars

(* The executor keeps polling the two machines, a stopped node is started     *)
(* again, blocks are mined and time passes.                                   *)
Fairness ==
  /\ WF_vars(MakerOnChanged /\ UNCHANGED now)
  /\ WF_vars(TakerOnChanged /\ UNCHANGED now)
  /\ \A r \in Role : WF_vars(Runs(r))
  /\ WF_vars(ChainStep)
  /\ WF_vars(Tick)

FairSpec == Spec /\ Fairness

-----------------------------------------------------------------------------
(* Every variable has its type; in particular the deadlines that the two      *)
(* machines compute and wait for are times.                                   *)
TypeOK == ChainTypeOK /\ MachineTypeOK

(* The swap is one the abstract specification allows.  The claim of the taker *)
(* payment counts from its broadcast, because the secret is public then, the  *)
(* claim of the maker payment once it is mined.                               *)
Abstract(pay, claimed) ==
  IF pay = "none" THEN "none"
  ELSE IF pay = "refunded" THEN "reclaimed"
  ELSE IF pay \in claimed THEN "claimed"
  ELSE "locked"

Atomic == INSTANCE AtomicSwap WITH
  maker <- Abstract(makerPayment, {"spent"}),
  taker <- Abstract(takerPayment, {"spending", "spent"})

(* So the states of the two machines lock, claim and reclaim the payments in  *)
(* no other order than AtomicSwap does, also when they are resumed.           *)
SwapV2IsAtomic == Atomic!Spec

(* What it means for the maker: the taker payment is not refunded once the    *)
(* taker has claimed the maker payment.                                       *)
MakerIsPaid == ~(SpendSeen(makerPayment) /\ takerPayment = "refunded")

(* The argument for it.  The state that runs is the one of the last event.    *)
LogInv ==
  \A r \in Role :
    /\ last[r] = IF st[r] = "Initialize" THEN "none" ELSE st[r]
    /\ next[r] # "Initialize"
    /\ next[r] # "none" <=> pc[r] = "store"

(* Beyond the negotiation the two start times are equal, and stay what they   *)
(* are.                                                                       *)
MakerUnsettled == {"Initialize", "Initialized", "Aborted", "none"}

TakerUnsettled == {"Initialize", "Initialized", "Aborted", "none"}

Agreed ==
  /\ startedAt["maker"] = startedAt["taker"]
  /\ st["maker"] # "Initialize"
  /\ st["taker"] # "Initialize"

AgreedInv ==
  /\ Received("MakerNegotiation", 0) => st["maker"] # "Initialize"
  /\ Received("TakerNegotiation", 0) => Agreed
  /\ {st["maker"], next["maker"]} \subseteq MakerUnsettled \/ Agreed
  /\ {st["taker"], next["taker"]} \subseteq TakerUnsettled \/ Agreed
  /\ pc["taker"] = "ack" => Agreed

(* How far a role has come bounds what can have happened on the chains.       *)
TakerBeforePayment == {"Initialize", "Initialized", "Negotiated", "TakerFundingSent", "none"}

MakerMayHaveSpent ==
  {"TakerPaymentReceived", "TakerPaymentReceivedPreimageSkipped", "TakerPaymentSpent",
   "MakerPaymentRefundRequired", "MakerPaymentRefunded", "Aborted", "Completed"}

MakerMayHaveRefunded == {"MakerPaymentRefundRequired", "MakerPaymentRefunded", "Aborted"}

ProgressInv ==
  /\ funding = "transferred" <=> takerPayment # "none"
  /\ takerPayment # "none" =>
       /\ st["taker"] \notin TakerBeforePayment
       /\ next["taker"] \notin TakerBeforePayment \ {"none"}
       /\ makerPayment # "none"
       /\ Agreed
  /\ SpendSeen(takerPayment) => st["maker"] \in MakerMayHaveSpent /\ next["maker"] \in MakerMayHaveSpent \cup {"none"}
  /\ makerPayment = "refunded" =>
       /\ st["maker"] \in MakerMayHaveRefunded
       /\ next["maker"] \in MakerMayHaveRefunded \cup {"none"}
       /\ now >= maker_payment_locktime

(* The taker has the secret from the maker's spend only.                      *)
SecretInv ==
  SpendSeen(makerPayment) \/ {st["taker"], next["taker"]} \cap {"TakerPaymentSpent", "MakerPaymentSpent"} # {}
    => SpendSeen(takerPayment)

(* The spend of the taker payment is broadcast in time, and mined in time.    *)
InTimeInv ==
  /\ At("maker", "TakerPaymentReceived", "recv") => until["maker"] <= taker_payment_conf_timeout + RecvWait
  /\ takerPayment = "spending" =>
       /\ takerSpendAt <= taker_payment_conf_timeout + RecvWait
       /\ now <= takerSpendAt + SpendDelay

(* The inductive invariant behind the atomicity of the swap: together these   *)
(* say why neither a restart from the log nor a refund that is due undoes     *)
(* what the other role relies on.                                             *)
AtomicInv == LogInv /\ AgreedInv /\ ProgressInv /\ SecretInv /\ InTimeInv

(* What a role that has come to its end has left to take or reclaim.          *)
TakerLeaves ==
  \/ Unspent(funding)
  \/ Unspent(takerPayment)
  \/ SpendSeen(takerPayment) /\ ~SpendSeen(makerPayment)

MakerLeaves == Unspent(makerPayment) /\ ~SpendSeen(takerPayment)

(* A role whose coin and storage calls succeed, that restarts no sooner than  *)
(* its swap lock expires and that never stops between a transaction and its   *)
(* event, leaves nothing behind, wherever else it stopped and resumed: the    *)
(* taker no funding, no payment and no claim on the maker payment, the maker  *)
(* no payment it was not paid for.                                            *)
FaultlessLeavesNothing ==
  \A r \in Role : pc[r] \in {"end", "lost"} /\ faults[r] = {} =>
    IF r = "taker" THEN ~TakerLeaves ELSE ~MakerLeaves

Claimed(r) == IF r = "maker" THEN SpendSeen(takerPayment) ELSE SpendSeen(makerPayment)

(* The ledger of locked amounts follows the log, in the run that wrote it and *)
(* in one that resumed from it: the volume is reserved until the event that   *)
(* says it was sent, the headroom until the claim, and a run that has come to *)
(* its end holds nothing.                                                     *)
ReservationsFollowLog ==
  \A r \in Role :
    /\ Running(r) /\ last[r] \notin LastStates =>
         /\ "volume" \in reserved[r] <=> last[r] \in UncommittedEvents(r)
         /\ last[r] # "none" /\ ~Claimed(r) => "headroom" \in reserved[r]
    /\ pc[r] \in {"end", "lost", "down"} => reserved[r] = {}

(* Both machines come to an end, whatever fails and wherever they stopped.    *)
SwapV2Ends == <>Over

-----------------------------------------------------------------------------
(* Chapter 52, R4: a state's entry logic tolerates being executed again after *)
(* a partial effect.  Negotiated and TakerFundingReceived send again.         *)
SentOnceV2 == fundings <= 1 /\ makerPayments <= 1

=============================================================================
