---------------------------- MODULE SwapV2Proofs ----------------------------
(* A version-two swap is atomic; and what it holds in memory and what it      *)
(* leaves on the chains, for every choice of the constants.                   *)
EXTENDS SwapV2, TLAPS

USE DEF Role

-----------------------------------------------------------------------------
(* Types.                                                                     *)

(* A change of state keeps the machines well typed.                           *)
LEMMA MovesType ==
  ASSUME MachineTypeOK, NEW r \in Role, NEW to \in MakerState \cup TakerState,
         NEW how \in SUBSET Fault, Moves(r, to, how)
  PROVE  MachineTypeOK'
<1>1. /\ pc' \in [Role -> Pc]
      /\ next' \in [Role -> MakerState \cup TakerState \cup {"none"}]
      /\ until' \in [Role -> Nat]
  BY Zenon DEF MachineTypeOK, Moves, Pc
<1>2. faults' \in [Role -> SUBSET Fault]
  BY Zenon DEF MachineTypeOK, Moves
<1>3. QED
  BY Zenon, <1>1, <1>2 DEF MachineTypeOK, Moves

(* A wait that on_changed starts keeps the machines well typed.               *)
LEMMA WaitsType ==
  ASSUME MachineTypeOK, NEW r \in Role, NEW where \in Pc, NEW deadline \in Nat, Waits(r, where, deadline)
  PROVE  MachineTypeOK'
  BY Zenon DEF MachineTypeOK, Waits

(* So do the storing of an event, the end of a run, a crash and a kickstart.  *)
LEMMA RunsType ==
  ASSUME MachineTypeOK, NEW r \in Role, OnNewState(r) \/ OnFinished(r) \/ KickStart(r) \/ Crash(r),
         pc[r] = "store" => next[r] \in MakerState \cup TakerState
  PROVE  MachineTypeOK'
<1>1. CASE OnNewState(r)
  <2>1. reserved' \in [Role -> SUBSET {"volume", "headroom"}]
    BY Zenon, <1>1 DEF MachineTypeOK, OnNewState, OnEvent
  <2>2. /\ st' \in [Role -> MakerState \cup TakerState]
        /\ last' \in [Role -> MakerState \cup TakerState \cup {"none"}]
        /\ next' \in [Role -> MakerState \cup TakerState \cup {"none"}]
        /\ pc' \in [Role -> Pc]
    BY <1>1 DEF MachineTypeOK, OnNewState, Pc
  <2>3. faults' \in [Role -> SUBSET Fault]
    BY <1>1 DEF MachineTypeOK, OnNewState, Fault
  <2>4. QED
    BY Zenon, <1>1, <2>1, <2>2, <2>3 DEF MachineTypeOK, OnNewState
<1>2. CASE OnFinished(r)
  <2>1. /\ pc' \in [Role -> Pc]
        /\ reserved' \in [Role -> SUBSET {"volume", "headroom"}]
        /\ faults' \in [Role -> SUBSET Fault]
    BY <1>2 DEF MachineTypeOK, OnFinished, Pc, Fault
  <2>2. QED
    BY Zenon, <1>2, <2>1 DEF MachineTypeOK, OnFinished
<1>3. CASE KickStart(r)
  <2>1. /\ pc' \in [Role -> Pc]
        /\ faults' \in [Role -> SUBSET Fault]
    BY <1>3 DEF MachineTypeOK, KickStart, Pc, Fault
  <2>2. reserved' \in [Role -> SUBSET {"volume", "headroom"}]
    BY <1>3 DEF MachineTypeOK, KickStart, OnKickstartEvent
  <2>3. st' \in [Role -> MakerState \cup TakerState]
    BY <1>3 DEF MachineTypeOK, KickStart, Recreates
  <2>4. QED
    BY Zenon, <1>3, <2>1, <2>2, <2>3 DEF MachineTypeOK, KickStart
<1>4. CASE Crash(r)
  <2>1. /\ pc' \in [Role -> Pc]
        /\ next' \in [Role -> MakerState \cup TakerState \cup {"none"}]
        /\ until' \in [Role -> Nat]
        /\ crashes' \in [Role -> Nat]
        /\ reserved' \in [Role -> SUBSET {"volume", "headroom"}]
    BY <1>4 DEF MachineTypeOK, Crash, Pc
  <2>2. faults' \in [Role -> SUBSET Fault]
    BY Zenon, <1>4 DEF MachineTypeOK, Crash, Fault
  <2>3. QED
    BY Zenon, <1>4, <2>1, <2>2 DEF MachineTypeOK, Crash
<1>5. QED
  BY Zenon, <1>1, <1>2, <1>3, <1>4

(* A state of the maker either changes the state, to one that is not the      *)
(* first, or goes on to wait.                                                 *)
LEMMA MakerShape ==
  ASSUME TypeOK, MakerOnChanged
  PROVE  /\ pc["maker"] \in {"run", "recv", "poll"}
         /\ \/ \E to \in MakerState \ {"Initialize"}, how \in SUBSET Fault : Moves("maker", to, how)
            \/ \E where \in {"recv", "poll"}, deadline \in Nat : Waits("maker", where, deadline)
<1>1. /\ now \in Nat
      /\ now + RecvWait \in Nat
      /\ taker_payment_conf_timeout \in Nat
  BY ChainAssumption DEF TypeOK, ChainTypeOK, taker_payment_conf_timeout
<1>2. {} \in SUBSET Fault /\ {"coin"} \in SUBSET Fault
  BY Zenon DEF Fault
<1>3. CASE MakerInitialize \/ MakerNegotiationRecv \/ MakerFundingInfoRecv
  BY Zenon, <1>2, <1>3 DEF MakerInitialize, MakerNegotiationRecv, MakerFundingInfoRecv, At, ChangeState, FailsTo, MakerState
<1>4. CASE MakerInitialized \/ MakerWaitingForTakerFunding
  BY Zenon, <1>1, <1>4 DEF MakerInitialized, MakerWaitingForTakerFunding, At
<1>5. CASE MakerTakerFundingReceived \/ MakerFundingSpendPoll
  BY Zenon, <1>2, <1>5 DEF MakerTakerFundingReceived, MakerFundingSpendPoll, At, ChangeState, FailsTo, MakerState
<1>6. CASE MakerPaymentSentFundingSpendGenerated
  BY Zenon, <1>1, <1>6 DEF MakerPaymentSentFundingSpendGenerated, At
<1>7. CASE MakerTakerPaymentReceived
  BY Zenon, <1>1, <1>2, <1>7 DEF MakerTakerPaymentReceived, At, ChangeState, FailsTo, MakerState
<1>8. CASE MakerSpendPreimageRecv \/ MakerTakerPaymentReceivedPreimageSkipped
  BY Zenon, <1>2, <1>8 DEF MakerSpendPreimageRecv, MakerTakerPaymentReceivedPreimageSkipped, MakerSpends, At,
                    ChangeState, FailsTo, MakerState
<1>9. CASE MakerTakerPaymentSpent \/ MakerPaymentRefundRequired
  BY Zenon, <1>2, <1>9 DEF MakerTakerPaymentSpent, MakerPaymentRefundRequired, At, ChangeState, FailsTo, MakerState
<1>10. QED
  BY Zenon, <1>3, <1>4, <1>5, <1>6, <1>7, <1>8, <1>9 DEF MakerOnChanged

(* A state of the taker either changes the state, to one that is not the      *)
(* first, or goes on to wait.                                                 *)
LEMMA TakerShape ==
  ASSUME TypeOK, TakerOnChanged
  PROVE  /\ pc["taker"] \in {"run", "recv", "ack", "poll"}
         /\ \/ \E to \in TakerState \ {"Initialize"}, how \in SUBSET Fault : Moves("taker", to, how)
            \/ \E where \in {"recv", "ack", "poll"}, deadline \in Nat : Waits("taker", where, deadline)
<1>1. /\ now \in Nat
      /\ now + RecvWait \in Nat
      /\ taker_payment_locktime \in Nat
  BY ChainAssumption DEF TypeOK, ChainTypeOK, taker_payment_locktime
<1>2. {} \in SUBSET Fault /\ {"coin"} \in SUBSET Fault
  BY DEF Fault
<1>3. CASE TakerInitialize \/ TakerNegotiatedRecv \/ TakerNegotiated
  BY Zenon, <1>2, <1>3 DEF TakerInitialize, TakerNegotiatedRecv, TakerNegotiated, At, ChangeState, FailsTo, TakerState
<1>4. CASE TakerInitialized \/ TakerFundingSent
  BY Zenon, <1>1, <1>4 DEF TakerInitialized, TakerFundingSent, At
<1>5. CASE TakerNegotiationRecv
  BY Zenon, <1>1, <1>2, <1>5 DEF TakerNegotiationRecv, At, ChangeState, FailsTo, TakerState
<1>6. CASE TakerMakerPaymentRecv \/ TakerMakerPaymentReceived
  BY Zenon, <1>2, <1>6 DEF TakerMakerPaymentRecv, TakerMakerPaymentReceived, At, ChangeState, FailsTo, TakerState
<1>7. CASE TakerPaymentSent \/ TakerPaymentSentPreimageSendingSkipped
  BY Zenon, <1>1, <1>2, <1>7 DEF TakerPaymentSent, TakerPaymentSentPreimageSendingSkipped, At, ChangeState, FailsTo, TakerState
<1>8. CASE TakerFindSpend \/ TakerTakerPaymentSpent \/ TakerMakerPaymentSpent
  BY Zenon, <1>2, <1>8 DEF TakerFindSpend, TakerTakerPaymentSpent, TakerMakerPaymentSpent, At, ChangeState, FailsTo, TakerState
<1>9. CASE TakerFundingRefundRequired \/ TakerPaymentRefundRequired
  BY Zenon, <1>2, <1>9 DEF TakerFundingRefundRequired, TakerPaymentRefundRequired, At, ChangeState, FailsTo, TakerState
<1>10. QED
  BY Zenon, <1>3, <1>4, <1>5, <1>6, <1>7, <1>8, <1>9 DEF TakerOnChanged

(* The chains stay well typed.                                                *)
LEMMA ChainOpsType ==
  ASSUME TypeOK
  PROVE  /\ SpendTakerPayment => takerPayment' \in PayState /\ takerSpendAt' \in Nat
         /\ SpendMakerPayment => makerPayment' \in PayState /\ makerSpendAt' \in Nat /\ makerPayments' \in Nat
         /\ RefundMakerPayment => makerPayment' \in PayState /\ makerSpendAt' \in Nat /\ makerPayments' \in Nat
         /\ RefundTakerPayment => takerPayment' \in PayState /\ takerSpendAt' \in Nat
         /\ SpendFunding => /\ takerPayment' \in PayState /\ takerSpendAt' \in Nat
                            /\ funding' \in FundingState /\ fundings' \in Nat
         /\ ReclaimFunding => funding' \in FundingState /\ fundings' \in Nat
  BY Zenon DEF TypeOK, ChainTypeOK, SpendTakerPayment, SpendMakerPayment, RefundMakerPayment, RefundTakerPayment,
         SpendFunding, ReclaimFunding, PayState, FundingState, takerPayVars, makerPayVars, fundingVars

(* The states of the maker keep the chains well typed.                        *)
LEMMA MakerChainType ==
  ASSUME TypeOK, MakerOnChanged, UNCHANGED now
  PROVE  ChainTypeOK'
<1> USE DEF TypeOK, ChainTypeOK
<1>1. CASE MakerInitialize \/ MakerFundingInfoRecv
  BY <1>1 DEF MakerInitialize, MakerFundingInfoRecv, chainVars, fundingVars, makerPayVars, takerPayVars
<1>2. CASE MakerTakerFundingReceived
  BY <1>2 DEF MakerTakerFundingReceived, fundingVars, makerPayVars, takerPayVars, noteVars, PayState
<1>3. CASE MakerSpendPreimageRecv \/ MakerTakerPaymentReceivedPreimageSkipped
  BY Zenon, <1>3, ChainOpsType DEF MakerSpendPreimageRecv, MakerTakerPaymentReceivedPreimageSkipped, MakerSpends,
     fundingVars, makerPayVars, takerPayVars, noteVars
<1>4. CASE MakerPaymentRefundRequired
  BY Zenon, <1>4, ChainOpsType DEF MakerPaymentRefundRequired, fundingVars, makerPayVars, takerPayVars, noteVars
<1>5. CASE UNCHANGED <<chainVars, noteVars>>
  BY Zenon, <1>5 DEF chainVars, fundingVars, makerPayVars, takerPayVars, noteVars
<1>6. QED
  BY Zenon, <1>1, <1>2, <1>3, <1>4, <1>5 DEF MakerOnChanged, MakerInitialized, MakerNegotiationRecv,
     MakerWaitingForTakerFunding, MakerPaymentSentFundingSpendGenerated, MakerFundingSpendPoll,
     MakerTakerPaymentReceived, MakerTakerPaymentSpent

(* So do the states of the taker.                                             *)
LEMMA TakerChainType ==
  ASSUME TypeOK, TakerOnChanged, UNCHANGED now
  PROVE  ChainTypeOK'
<1> USE DEF TypeOK, ChainTypeOK
<1>1. CASE TakerInitialize \/ TakerMakerPaymentRecv
  BY <1>1 DEF TakerInitialize, TakerMakerPaymentRecv, chainVars, fundingVars, makerPayVars, takerPayVars
<1>2. CASE TakerNegotiated
  BY <1>2 DEF TakerNegotiated, fundingVars, makerPayVars, takerPayVars, noteVars, FundingState
<1>3. CASE TakerMakerPaymentReceived
  BY Zenon, <1>3, ChainOpsType DEF TakerMakerPaymentReceived, fundingVars, makerPayVars, takerPayVars, noteVars
<1>4. CASE TakerTakerPaymentSpent \/ TakerFundingRefundRequired \/ TakerPaymentRefundRequired
  BY Zenon, <1>4, ChainOpsType DEF TakerTakerPaymentSpent, TakerFundingRefundRequired, TakerPaymentRefundRequired,
     fundingVars, makerPayVars, takerPayVars, noteVars
<1>5. CASE UNCHANGED <<chainVars, noteVars>>
  BY <1>5 DEF chainVars, fundingVars, makerPayVars, takerPayVars, noteVars
<1>6. QED
  BY Zenon, <1>1, <1>2, <1>3, <1>4, <1>5 DEF TakerOnChanged, TakerInitialized, TakerNegotiationRecv,
     TakerNegotiatedRecv, TakerFundingSent, TakerPaymentSent, TakerPaymentSentPreimageSendingSkipped,
     TakerFindSpend, TakerMakerPaymentSpent

(* Every step keeps the types; what is to be stored is a state.               *)
LEMMA TypeStep ==
  ASSUME TypeOK, LogInv, [Next]_vars
  PROVE  TypeOK'
<1>1. CASE MakerOnChanged /\ UNCHANGED now
  <2>1. MachineTypeOK'
    BY Zenon, <1>1, MakerShape, MovesType, WaitsType DEF TypeOK, Pc
  <2>2. QED
    BY Zenon, <1>1, <2>1, MakerChainType DEF TypeOK
<1>2. CASE TakerOnChanged /\ UNCHANGED now
  <2>1. MachineTypeOK'
    BY Zenon, <1>2, TakerShape, MovesType, WaitsType DEF TypeOK, Pc
  <2>2. QED
    BY <1>2, <2>1, TakerChainType DEF TypeOK
<1>3. ASSUME NEW r \in Role, Runs(r) \/ Stops(r)
      PROVE  TypeOK'
  <2>1. pc[r] = "store" => next[r] \in MakerState \cup TakerState
    BY Zenon DEF TypeOK, MachineTypeOK, LogInv
  <2>2. MachineTypeOK'
    BY Zenon, <1>3, <2>1, RunsType DEF Runs, Stops, TypeOK
  <2>3. ChainTypeOK'
    BY Zenon, <1>3 DEF Runs, Stops, TypeOK, ChainTypeOK, chainVars, fundingVars, makerPayVars, takerPayVars, noteVars
  <2>4. QED
    BY Zenon, <2>2, <2>3 DEF TypeOK
<1>4. CASE ChainStep
  <2>1. ChainTypeOK'
    BY Zenon, <1>4 DEF ChainStep, Mined, TypeOK, ChainTypeOK, noteVars, PayState, FundingState
  <2>2. QED
    BY Zenon, <1>4, <2>1 DEF ChainStep, TypeOK, MachineTypeOK, machineVars
<1>5. CASE Tick
  BY <1>5 DEF Tick, TypeOK, ChainTypeOK, MachineTypeOK, chainVars, fundingVars, makerPayVars, takerPayVars,
              noteVars, machineVars
<1>6. CASE UNCHANGED vars
  BY Zenon, <1>6 DEF vars, TypeOK, ChainTypeOK, MachineTypeOK, chainVars, fundingVars, makerPayVars, takerPayVars,
              noteVars, machineVars
<1>7. QED
  BY Zenon, <1>1, <1>2, <1>3, <1>4, <1>5, <1>6 DEF Next, OnChanged, Done

-----------------------------------------------------------------------------
(* The log.                                                                   *)

(* What a change of state does, role by role.                                 *)
LEMMA MovesEffect ==
  ASSUME TypeOK, NEW r \in Role, NEW to, NEW how, Moves(r, to, how)
  PROVE  /\ st' = st /\ last' = last
         /\ pc'[r] = "store" /\ next'[r] = to
         /\ \A q \in Role : q # r => pc'[q] = pc[q] /\ next'[q] = next[q] /\ until'[q] = until[q]
  BY Zenon DEF TypeOK, MachineTypeOK, Moves

(* A wait changes where the role stands and its deadline, and nothing of the  *)
(* other role.                                                                *)
LEMMA WaitsEffect ==
  ASSUME TypeOK, NEW r \in Role, NEW where, NEW deadline, Waits(r, where, deadline)
  PROVE  /\ st' = st /\ last' = last /\ next' = next
         /\ pc'[r] = where /\ until'[r] = deadline
         /\ \A q \in Role : q # r => pc'[q] = pc[q] /\ until'[q] = until[q]
  BY Zenon DEF TypeOK, MachineTypeOK, Waits

(* A step of the runtime leaves the other role alone, and turns the state     *)
(* that was to be stored into the state that runs, or forgets it.             *)
LEMMA RunsEffect ==
  ASSUME TypeOK, LogInv, NEW r \in Role, Runs(r) \/ Stops(r)
  PROVE  /\ UNCHANGED <<now, net, chainVars, noteVars>>
         /\ \A q \in Role : q # r => /\ st'[q] = st[q] /\ last'[q] = last[q] /\ next'[q] = next[q]
                                     /\ pc'[q] = pc[q] /\ until'[q] = until[q]
         /\ \/ st'[r] = st[r] /\ last'[r] = last[r]
            \/ next[r] # "none" /\ st'[r] = next[r] /\ last'[r] = next[r]
         /\ next'[r] = "none"
         /\ pc'[r] \notin {"recv", "ack", "poll", "store"}
<1>1. UNCHANGED <<now, net, chainVars, noteVars>>
  BY Zenon DEF Runs, Stops
<1>2. next[r] # "none" <=> pc[r] = "store"
  BY Zenon DEF LogInv
<1>3. CASE OnNewState(r)
  BY <1>1, <1>2, <1>3 DEF OnNewState, TypeOK, MachineTypeOK
<1>4. CASE OnFinished(r)
  BY Zenon, <1>1, <1>2, <1>4 DEF OnFinished, TypeOK, MachineTypeOK
<1>5. CASE KickStart(r)
  <2>1. Recreates(r, last[r]) => last[r] = st[r]
    BY Zenon DEF Recreates, LogInv
  <2>2. st'[r] = st[r]
    BY Zenon, <1>5, <2>1 DEF KickStart, TypeOK, MachineTypeOK
  <2>3. QED
    BY <1>1, <1>2, <1>5, <2>2 DEF KickStart, TypeOK, MachineTypeOK
<1>6. CASE Crash(r)
  BY Zenon, <1>1, <1>6 DEF Crash, TypeOK, MachineTypeOK
<1>7. QED
  BY Zenon, <1>3, <1>4, <1>5, <1>6 DEF Runs, Stops

(* Every step keeps the log in line with the state that runs.                 *)
LEMMA LogStep ==
  ASSUME TypeOK, LogInv, [Next]_vars
  PROVE  LogInv'
<1>1. CASE MakerOnChanged /\ UNCHANGED now
  <2>1. CASE \E to \in MakerState \ {"Initialize"}, how \in SUBSET Fault : Moves("maker", to, how)
    <3>1. /\ st' = st /\ last' = last
          /\ pc'["maker"] = "store" /\ next'["maker"] \in MakerState \ {"Initialize"}
          /\ pc'["taker"] = pc["taker"] /\ next'["taker"] = next["taker"]
      BY Zenon, <2>1, MovesEffect
    <3>2. next'["maker"] # "none" /\ next'["maker"] # "Initialize"
      BY Zenon, <3>1 DEF MakerState
    <3>3. QED
      BY Zenon, <3>1, <3>2 DEF LogInv
  <2>2. CASE \E where \in {"recv", "poll"}, deadline \in Nat : Waits("maker", where, deadline)
    BY <1>1, <2>2, WaitsEffect, MakerShape DEF LogInv
  <2>3. QED
    BY Zenon, <1>1, <2>1, <2>2, MakerShape
<1>2. CASE TakerOnChanged /\ UNCHANGED now
  <2>1. CASE \E to \in TakerState \ {"Initialize"}, how \in SUBSET Fault : Moves("taker", to, how)
    <3>1. /\ st' = st /\ last' = last
          /\ pc'["taker"] = "store" /\ next'["taker"] \in TakerState \ {"Initialize"}
          /\ pc'["maker"] = pc["maker"] /\ next'["maker"] = next["maker"]
      BY Zenon, <2>1, MovesEffect
    <3>2. next'["taker"] # "none" /\ next'["taker"] # "Initialize"
      BY Zenon, <3>1 DEF TakerState
    <3>3. QED
      BY Zenon, <3>1, <3>2 DEF LogInv
  <2>2. CASE \E where \in {"recv", "ack", "poll"}, deadline \in Nat : Waits("taker", where, deadline)
    BY <1>2, <2>2, WaitsEffect, TakerShape DEF LogInv
  <2>3. QED
    BY Zenon, <1>2, <2>1, <2>2, TakerShape
<1>3. ASSUME NEW r \in Role, Runs(r) \/ Stops(r)
      PROVE  LogInv'
  <2>1. /\ \A q \in Role : q # r => /\ st'[q] = st[q] /\ last'[q] = last[q] /\ next'[q] = next[q]
                                   /\ pc'[q] = pc[q]
        /\ \/ st'[r] = st[r] /\ last'[r] = last[r]
           \/ next[r] # "none" /\ st'[r] = next[r] /\ last'[r] = next[r]
        /\ next'[r] = "none" /\ pc'[r] # "store"
    BY Zenon, <1>3, RunsEffect
  <2>2. QED
    BY <2>1 DEF LogInv
<1>4. CASE UNCHANGED machineVars
  BY Zenon, <1>4 DEF LogInv, machineVars
<1>5. QED
  BY Zenon, <1>1, <1>2, <1>3, <1>4 DEF Next, OnChanged, ChainStep, Tick, Done, vars

-----------------------------------------------------------------------------
(* The agreement on the start times.                                          *)

(* A message that the maker adds is not the taker's answer, and the maker has *)
(* started when it sends one.                                                 *)
LEMMA MakerMessages ==
  ASSUME TypeOK, MakerOnChanged
  PROVE  /\ Received("TakerNegotiation", 0)' => Received("TakerNegotiation", 0)
         /\ Received("MakerNegotiation", 0)' => Received("MakerNegotiation", 0) \/ st["maker"] # "Initialize"
<1>1. CASE MakerInitialized \/ MakerWaitingForTakerFunding \/ MakerPaymentSentFundingSpendGenerated
  BY Zenon, <1>1 DEF MakerInitialized, MakerWaitingForTakerFunding, MakerPaymentSentFundingSpendGenerated,
              Broadcast, Received, At
<1>2. CASE UNCHANGED net
  BY Zenon, <1>2 DEF Received
<1>3. QED
  BY Zenon, <1>1, <1>2 DEF MakerOnChanged, MakerInitialize, MakerNegotiationRecv, MakerFundingInfoRecv,
     MakerTakerFundingReceived, MakerFundingSpendPoll, MakerTakerPaymentReceived, MakerSpendPreimageRecv,
     MakerTakerPaymentReceivedPreimageSkipped, MakerTakerPaymentSpent, MakerPaymentRefundRequired

(* The maker leaves its first two states with an agreement, or aborts.        *)
LEMMA MakerSettles ==
  ASSUME TypeOK, LogInv, AgreedInv, MakerOnChanged
  PROVE  /\ st' = st /\ pc'["taker"] = pc["taker"] /\ next'["taker"] = next["taker"]
         /\ next'["maker"] \in MakerUnsettled \/ Agreed
<1>1. st' = st /\ pc'["taker"] = pc["taker"] /\ next'["taker"] = next["taker"]
  BY Zenon, MakerShape, MovesEffect, WaitsEffect
<1>2. CASE MakerInitialized
  BY Zenon, <1>1, <1>2, WaitsEffect DEF AgreedInv, MakerInitialized
<1>3. CASE MakerInitialize
  <2>1. next'["maker"] \in {"Initialized", "Aborted"}
    BY Zenon, <1>3, MovesEffect DEF MakerInitialize, ChangeState, FailsTo
  <2>2. QED
    BY Zenon, <1>1, <2>1 DEF MakerUnsettled
<1>4. CASE MakerNegotiationRecv
  <2>1. next'["maker"] = "Aborted" \/ Received("TakerNegotiation", 0)
    BY Zenon, <1>4, MovesEffect DEF MakerNegotiationRecv, ChangeState, FailsTo
  <2>2. QED
    BY Zenon, <1>1, <2>1 DEF MakerUnsettled, AgreedInv
<1>5. CASE ~(MakerInitialize \/ MakerInitialized \/ MakerNegotiationRecv)
  <2>1. st["maker"] \notin MakerUnsettled
    BY Zenon, <1>5 DEF MakerOnChanged, MakerUnsettled, At, MakerWaitingForTakerFunding, MakerFundingInfoRecv,
       MakerTakerFundingReceived, MakerPaymentSentFundingSpendGenerated, MakerFundingSpendPoll,
       MakerTakerPaymentReceived, MakerSpendPreimageRecv, MakerTakerPaymentReceivedPreimageSkipped,
       MakerTakerPaymentSpent, MakerPaymentRefundRequired
  <2>2. QED
    BY Zenon, <1>1, <2>1 DEF AgreedInv
<1>6. QED
  BY Zenon, <1>2, <1>3, <1>4, <1>5

(* The taker adds its answer to the negotiation only in the receive that      *)
(* accepted the maker's lock time.                                            *)
LEMMA TakerMessages ==
  ASSUME TypeOK, TakerOnChanged
  PROVE  /\ Received("MakerNegotiation", 0)' => Received("MakerNegotiation", 0)
         /\ Received("TakerNegotiation", 0)' =>
              \/ Received("TakerNegotiation", 0)
              \/ TakerNegotiationRecv /\ Received("MakerNegotiation", 0) /\ LocktimeAccepted
<1>1. CASE TakerNegotiationRecv
  BY Zenon, <1>1 DEF TakerNegotiationRecv, Broadcast, Received
<1>2. CASE TakerNegotiated \/ TakerPaymentSent
  BY Zenon, <1>2 DEF TakerNegotiated, TakerPaymentSent, Broadcast, Received
<1>3. CASE UNCHANGED net
  BY Zenon, <1>3 DEF Received
<1>4. QED
  BY Zenon, <1>1, <1>2, <1>3 DEF TakerOnChanged, TakerInitialize, TakerInitialized, TakerNegotiatedRecv,
     TakerFundingSent, TakerMakerPaymentRecv, TakerMakerPaymentReceived, TakerPaymentSentPreimageSendingSkipped,
     TakerFindSpend, TakerTakerPaymentSpent, TakerMakerPaymentSpent, TakerFundingRefundRequired,
     TakerPaymentRefundRequired

(* The taker answers when the lock times show that both started together.     *)
LEMMA AcceptedAgrees ==
  ASSUME TypeOK, AgreedInv, Received("MakerNegotiation", 0), At("taker", "Initialized", "recv"), LocktimeAccepted
  PROVE  Agreed
<1>1. startedAt["maker"] = startedAt["taker"]
  BY ChainAssumption DEF TypeOK, ChainTypeOK, LocktimeAccepted, maker_payment_locktime
<1>2. QED
  BY Zenon, <1>1 DEF AgreedInv, Agreed, At

(* The taker waits for the confirmation of the negotiation, and leaves its    *)
(* first two states, with the agreement only, unless it aborts.               *)
LEMMA TakerSettles ==
  ASSUME TypeOK, LogInv, AgreedInv, TakerOnChanged
  PROVE  /\ st' = st /\ pc'["maker"] = pc["maker"] /\ next'["maker"] = next["maker"]
         /\ next'["taker"] \in TakerUnsettled \/ Agreed
         /\ pc'["taker"] = "ack" => Agreed
         /\ Received("TakerNegotiation", 0)' => Agreed
<1>1. st' = st /\ pc'["maker"] = pc["maker"] /\ next'["maker"] = next["maker"]
  BY Zenon, TakerShape, MovesEffect, WaitsEffect
<1>2. Received("TakerNegotiation", 0)' => Agreed
  BY Zenon, TakerMessages, AcceptedAgrees DEF AgreedInv, TakerNegotiationRecv
<1>3. CASE TakerInitialize
  <2>1. next'["taker"] \in {"Initialized", "Aborted"} /\ pc'["taker"] = "store"
    BY Zenon, <1>3, MovesEffect DEF TakerInitialize, ChangeState, FailsTo
  <2>2. QED
    BY Zenon, <1>1, <1>2, <2>1 DEF TakerUnsettled
<1>4. CASE TakerInitialized
  BY Zenon, <1>1, <1>2, <1>4, WaitsEffect DEF TakerInitialized, AgreedInv
<1>5. CASE TakerNegotiationRecv
  <2>1. \/ next'["taker"] = "Aborted" /\ pc'["taker"] = "store"
        \/ Received("TakerNegotiation", 0)'
    BY Zenon, <1>5, MovesEffect DEF TakerNegotiationRecv, Broadcast, Received, ChangeState, FailsTo
  <2>2. QED
    BY Zenon, <1>1, <1>2, <2>1 DEF TakerUnsettled
<1>6. CASE pc["taker"] = "ack"
  BY Zenon, <1>1, <1>2, <1>6 DEF AgreedInv
<1>7. CASE ~(TakerInitialize \/ TakerInitialized \/ TakerNegotiationRecv \/ TakerNegotiatedRecv)
  <2>1. st["taker"] \notin TakerUnsettled
    BY Zenon, <1>7 DEF TakerOnChanged, TakerUnsettled, At, TakerNegotiated, TakerFundingSent, TakerMakerPaymentRecv,
       TakerMakerPaymentReceived, TakerPaymentSent, TakerPaymentSentPreimageSendingSkipped, TakerFindSpend,
       TakerTakerPaymentSpent, TakerMakerPaymentSpent, TakerFundingRefundRequired, TakerPaymentRefundRequired
  <2>2. QED
    BY Zenon, <1>1, <1>2, <2>1 DEF AgreedInv
<1>8. QED
  BY Zenon, <1>3, <1>4, <1>5, <1>6, <1>7 DEF TakerNegotiatedRecv, At

(* Every step keeps the agreement on the start times.                         *)
LEMMA AgreedStep ==
  ASSUME TypeOK, LogInv, AgreedInv, [Next]_vars
  PROVE  AgreedInv'
<1>1. CASE MakerInitialize
  <2>1. /\ st' = st /\ pc'["taker"] = pc["taker"] /\ next'["taker"] = next["taker"]
        /\ next'["maker"] \in {"Initialized", "Aborted"}
        /\ net' = net
    BY Zenon, <1>1, MovesEffect DEF MakerInitialize, ChangeState, FailsTo
  <2>2. st["maker"] = "Initialize"
    BY Zenon, <1>1 DEF MakerInitialize, At
  <2>3. QED
    BY Zenon, <2>1, <2>2 DEF AgreedInv, Agreed, MakerUnsettled, Received
<1>2. CASE TakerInitialize
  <2>1. /\ st' = st /\ pc'["maker"] = pc["maker"] /\ next'["maker"] = next["maker"]
        /\ next'["taker"] \in {"Initialized", "Aborted"} /\ pc'["taker"] = "store"
        /\ net' = net
    BY Zenon, <1>2, MovesEffect DEF TakerInitialize, ChangeState, FailsTo
  <2>2. st["taker"] = "Initialize"
    BY Zenon, <1>2 DEF TakerInitialize, At
  <2>3. QED
    BY Zenon, <2>1, <2>2 DEF AgreedInv, Agreed, TakerUnsettled, Received
<1>3. CASE MakerOnChanged /\ ~MakerInitialize
  <2>1. startedAt' = startedAt
    BY Zenon, <1>3 DEF MakerOnChanged, MakerInitialized, MakerNegotiationRecv, MakerWaitingForTakerFunding,
       MakerFundingInfoRecv, MakerTakerFundingReceived, MakerPaymentSentFundingSpendGenerated,
       MakerFundingSpendPoll, MakerTakerPaymentReceived, MakerSpendPreimageRecv,
       MakerTakerPaymentReceivedPreimageSkipped, MakerTakerPaymentSpent, MakerPaymentRefundRequired, noteVars
  <2>2. Agreed' = Agreed
    BY Zenon, <1>3, <2>1, MakerSettles DEF Agreed
  <2>3. QED
    BY Zenon, <1>3, <2>2, MakerSettles, MakerMessages DEF AgreedInv
<1>4. CASE TakerOnChanged /\ ~TakerInitialize
  <2>1. startedAt' = startedAt
    BY Zenon, <1>4 DEF TakerOnChanged, TakerInitialized, TakerNegotiationRecv, TakerNegotiatedRecv, TakerNegotiated,
       TakerFundingSent, TakerMakerPaymentRecv, TakerMakerPaymentReceived, TakerPaymentSent,
       TakerPaymentSentPreimageSendingSkipped, TakerFindSpend, TakerTakerPaymentSpent, TakerMakerPaymentSpent,
       TakerFundingRefundRequired, TakerPaymentRefundRequired, noteVars
  <2>2. Agreed' = Agreed
    BY Zenon, <1>4, <2>1, TakerSettles DEF Agreed
  <2>3. QED
    BY Zenon, <1>4, <2>2, TakerSettles, TakerMessages DEF AgreedInv
<1>5. ASSUME NEW r \in Role, Runs(r) \/ Stops(r)
      PROVE  AgreedInv'
  <2>1. /\ net' = net /\ startedAt' = startedAt
        /\ \A q \in Role : st'[q] # "Initialize" \/ st[q] = "Initialize"
    BY Zenon, <1>5, RunsEffect DEF LogInv, noteVars
  <2>2. Agreed => Agreed'
    BY Zenon, <2>1 DEF Agreed
  <2>3. /\ {st'["maker"], next'["maker"]} \subseteq {st["maker"], next["maker"], "none"}
        /\ {st'["taker"], next'["taker"]} \subseteq {st["taker"], next["taker"], "none"}
        /\ pc'["taker"] = "ack" => pc["taker"] = "ack"
    BY Zenon, <1>5, RunsEffect
  <2>4. QED
    BY Zenon, <2>1, <2>2, <2>3 DEF AgreedInv, Received, MakerUnsettled, TakerUnsettled
<1>6. CASE UNCHANGED <<net, noteVars, machineVars>>
  BY Zenon, <1>6 DEF AgreedInv, Agreed, Received, noteVars, machineVars
<1>7. QED
  BY Zenon, <1>1, <1>2, <1>3, <1>4, <1>5, <1>6 DEF Next, OnChanged, ChainStep, Tick, Done, vars

-----------------------------------------------------------------------------
(* What the states do to the chains, and where they lead.                     *)

(* What a state of the maker does to the chains, and when it does it.         *)
LEMMA MakerChainEffect ==
  ASSUME TypeOK, InTimeInv, MakerOnChanged
  PROVE  /\ fundingVars' = fundingVars
         /\ \/ UNCHANGED <<makerPayment, takerPayVars>>
            \/ st["maker"] = "TakerFundingReceived" /\ makerPayment' = "unconfirmed" /\ UNCHANGED takerPayVars
            \/ /\ st["maker"] \in {"TakerPaymentReceived", "TakerPaymentReceivedPreimageSkipped"}
               /\ now <= taker_payment_conf_timeout + RecvWait
               /\ takerPayment = "confirmed" /\ takerPayment' = "spending" /\ takerSpendAt' = now
               /\ UNCHANGED makerPayment
            \/ /\ st["maker"] = "MakerPaymentRefundRequired" /\ now >= maker_payment_locktime
               /\ makerPayment \in {"unconfirmed", "confirmed", "spending", "refunded"}
               /\ makerPayment' = "refunded" /\ UNCHANGED takerPayVars
<1>1. CASE UNCHANGED chainVars
  BY Zenon, <1>1 DEF chainVars, makerPayVars
<1>2. CASE MakerTakerFundingReceived
  BY Zenon, <1>2 DEF MakerTakerFundingReceived, At, makerPayVars
<1>3. CASE MakerSpends /\ UNCHANGED <<fundingVars, makerPayVars>>
           /\ st["maker"] \in {"TakerPaymentReceived", "TakerPaymentReceivedPreimageSkipped"}
           /\ now <= taker_payment_conf_timeout + RecvWait
  BY Zenon, <1>3 DEF MakerSpends, SpendTakerPayment, makerPayVars
<1>4. CASE MakerSpendPreimageRecv
  <2>1. CASE UNCHANGED takerPayVars
    BY Zenon, <1>4, <2>1 DEF MakerSpendPreimageRecv, makerPayVars
  <2>2. CASE InTime("maker") /\ MakerSpends
    <3>1. now <= taker_payment_conf_timeout + RecvWait
      BY <1>4, <2>2, ChainAssumption DEF MakerSpendPreimageRecv, InTimeInv, InTime, TypeOK, ChainTypeOK, MachineTypeOK,
         taker_payment_conf_timeout
    <3>2. QED
      BY Zenon, <1>3, <1>4, <2>2, <3>1 DEF MakerSpendPreimageRecv, At
  <2>3. QED
    BY Zenon, <1>4, <2>1, <2>2 DEF MakerSpendPreimageRecv
<1>5. CASE MakerTakerPaymentReceivedPreimageSkipped
  <2>1. CASE UNCHANGED takerPayVars
    BY Zenon, <1>5, <2>1 DEF MakerTakerPaymentReceivedPreimageSkipped, makerPayVars
  <2>2. CASE now <= taker_payment_conf_timeout /\ MakerSpends
    <3>1. now <= taker_payment_conf_timeout + RecvWait
      BY <2>2, ChainAssumption DEF TypeOK, ChainTypeOK, taker_payment_conf_timeout
    <3>2. QED
      BY Zenon, <1>3, <1>5, <2>2, <3>1 DEF MakerTakerPaymentReceivedPreimageSkipped, At
  <2>3. QED
    BY Zenon, <1>5, <2>1, <2>2 DEF MakerTakerPaymentReceivedPreimageSkipped, ConfirmedBy
<1>6. CASE MakerPaymentRefundRequired
  BY Zenon, <1>6 DEF MakerPaymentRefundRequired, RefundMakerPayment, At, makerPayVars
<1>7. QED
  BY Zenon, <1>1, <1>2, <1>4, <1>5, <1>6 DEF MakerOnChanged, MakerInitialize, MakerInitialized, MakerNegotiationRecv,
     MakerWaitingForTakerFunding, MakerFundingInfoRecv, MakerPaymentSentFundingSpendGenerated,
     MakerFundingSpendPoll, MakerTakerPaymentReceived, MakerTakerPaymentSpent

(* What a state of the taker does to the chains, and in which state it does   *)
(* it.                                                                        *)
LEMMA TakerChainEffect ==
  ASSUME TypeOK, TakerOnChanged
  PROVE  \/ UNCHANGED <<funding, makerPayment, takerPayVars>>
         \/ st["taker"] = "Negotiated" /\ funding' = "unconfirmed" /\ UNCHANGED <<makerPayment, takerPayVars>>
         \/ /\ st["taker"] = "MakerPaymentAndFundingSpendPreimgReceived"
            /\ now <= maker_payment_conf_timeout
            /\ makerPayment \in {"confirmed", "spending", "spent", "refunded"}
            /\ Unspent(funding) /\ funding' = "transferred" /\ takerPayment' = "unconfirmed"
            /\ UNCHANGED <<makerPayment, takerSpendAt>>
         \/ /\ st["taker"] = "TakerPaymentSpent"
            /\ Unspent(makerPayment) /\ makerPayment' = "spending"
            /\ UNCHANGED <<funding, takerPayVars>>
         \/ /\ Unspent(funding) \/ funding = "reclaimed"
            /\ funding' = "reclaimed" /\ UNCHANGED <<makerPayment, takerPayVars>>
         \/ /\ st["taker"] = "TakerPaymentRefundRequired" /\ now >= taker_payment_locktime
            /\ takerPayment \in {"unconfirmed", "confirmed", "spending", "refunded"}
            /\ takerPayment' = "refunded" /\ UNCHANGED <<funding, makerPayment, takerSpendAt>>
<1>1. CASE UNCHANGED chainVars
  BY Zenon, <1>1 DEF chainVars, fundingVars, makerPayVars
<1>2. CASE TakerNegotiated
  BY Zenon, <1>2 DEF TakerNegotiated, At, fundingVars, makerPayVars
<1>3. CASE TakerMakerPaymentReceived
  <2>1. CASE UNCHANGED <<fundingVars, takerPayVars>>
    BY Zenon, <1>3, <2>1 DEF TakerMakerPaymentReceived, fundingVars, makerPayVars
  <2>2. CASE ConfirmedBy(makerPayment, maker_payment_conf_timeout) /\ SpendFunding
    BY Zenon, <1>3, <2>2 DEF TakerMakerPaymentReceived, SpendFunding, ConfirmedBy, At, fundingVars, makerPayVars, takerPayVars
  <2>3. QED
    BY Zenon, <1>3, <2>1, <2>2 DEF TakerMakerPaymentReceived
<1>4. CASE TakerTakerPaymentSpent
  BY Zenon, <1>4 DEF TakerTakerPaymentSpent, SpendMakerPayment, At, fundingVars, makerPayVars
<1>5. CASE TakerFundingRefundRequired
  BY Zenon, <1>5 DEF TakerFundingRefundRequired, ReclaimFunding, fundingVars, makerPayVars
<1>6. CASE TakerPaymentRefundRequired
  BY Zenon, <1>6 DEF TakerPaymentRefundRequired, RefundTakerPayment, At, fundingVars, makerPayVars, takerPayVars
<1>7. QED
  BY Zenon, <1>1, <1>2, <1>3, <1>4, <1>5, <1>6 DEF TakerOnChanged, TakerInitialize, TakerInitialized,
     TakerNegotiationRecv, TakerNegotiatedRecv, TakerFundingSent, TakerMakerPaymentRecv, TakerPaymentSent,
     TakerPaymentSentPreimageSendingSkipped, TakerFindSpend, TakerMakerPaymentSpent

(* A maker that may have spent, or refunded, stays on the way to an end, and  *)
(* a receive that leads to the spend ends in time.                            *)
LEMMA MakerEdges ==
  ASSUME TypeOK, LogInv, MakerOnChanged
  PROVE  /\ st["maker"] \in MakerMayHaveSpent => next'["maker"] \in MakerMayHaveSpent \cup {"none"}
         /\ st["maker"] \in MakerMayHaveRefunded => next'["maker"] \in MakerMayHaveRefunded \cup {"none"}
         /\ At("maker", "TakerPaymentReceived", "recv")' => until'["maker"] <= taker_payment_conf_timeout + RecvWait
<1>1. next["maker"] = "none"
  BY Zenon, MakerShape DEF LogInv
<1>2. st' = st
  BY Zenon, MakerShape, MovesEffect, WaitsEffect
<1>3. CASE MakerTakerPaymentReceived
  <2>1. CASE \E to \in {"MakerPaymentRefundRequired"}, how \in {{}, {"coin"}} : Moves("maker", to, how)
    BY Zenon, <1>3, <2>1, MovesEffect DEF MakerTakerPaymentReceived, At, MakerMayHaveSpent, MakerMayHaveRefunded
  <2>2. CASE now <= taker_payment_conf_timeout /\ Waits("maker", "recv", now + RecvWait)
    <3>1. until'["maker"] = now + RecvWait /\ next'["maker"] = "none"
      BY Zenon, <1>1, <2>2, WaitsEffect
    <3>2. now + RecvWait <= taker_payment_conf_timeout + RecvWait
      BY <2>2, ChainAssumption DEF TypeOK, ChainTypeOK, taker_payment_conf_timeout
    <3>3. QED
      BY Zenon, <3>1, <3>2
  <2>3. QED
    BY Zenon, <1>3, <2>1, <2>2 DEF MakerTakerPaymentReceived, ConfirmedBy, ChangeState, FailsTo
<1>4. CASE MakerSpendPreimageRecv \/ MakerTakerPaymentReceivedPreimageSkipped
  <2>1. /\ next'["maker"] \in {"TakerPaymentSpent", "MakerPaymentRefundRequired"} /\ pc'["maker"] = "store"
        /\ st["maker"] \in {"TakerPaymentReceived", "TakerPaymentReceivedPreimageSkipped"}
    BY Zenon, <1>4, MovesEffect DEF MakerSpendPreimageRecv, MakerTakerPaymentReceivedPreimageSkipped, MakerSpends,
       ChangeState, FailsTo, At
  <2>2. QED
    BY Zenon, <2>1 DEF At, MakerMayHaveSpent, MakerMayHaveRefunded
<1>5. CASE MakerTakerPaymentSpent
  <2>1. /\ next'["maker"] \in {"Completed", "MakerPaymentRefundRequired"} /\ pc'["maker"] = "store"
        /\ st["maker"] = "TakerPaymentSpent"
    BY Zenon, <1>5, MovesEffect DEF MakerTakerPaymentSpent, ChangeState, FailsTo, At
  <2>2. QED
    BY Zenon, <2>1 DEF At, MakerMayHaveSpent, MakerMayHaveRefunded
<1>6. CASE MakerPaymentRefundRequired
  <2>1. next'["maker"] \in {"MakerPaymentRefunded", "Aborted"} /\ pc'["maker"] = "store"
    BY Zenon, <1>6, MovesEffect DEF MakerPaymentRefundRequired, ChangeState, FailsTo
  <2>2. QED
    BY Zenon, <2>1 DEF At, MakerMayHaveSpent, MakerMayHaveRefunded
<1>7. CASE st["maker"] \notin MakerMayHaveSpent
  BY Zenon, <1>2, <1>7 DEF At, MakerMayHaveSpent, MakerMayHaveRefunded
<1>8. QED
  BY Zenon, <1>3, <1>4, <1>5, <1>6, <1>7 DEF MakerOnChanged, At, MakerMayHaveSpent, MakerInitialize, MakerInitialized,
     MakerNegotiationRecv, MakerWaitingForTakerFunding, MakerFundingInfoRecv, MakerTakerFundingReceived,
     MakerPaymentSentFundingSpendGenerated, MakerFundingSpendPoll

(* A taker that may have sent its payment does not return to a state before   *)
(* that, and it turns to the claim with the secret only.                      *)
LEMMA TakerEdges ==
  ASSUME TypeOK, LogInv, SecretInv, TakerOnChanged
  PROVE  /\ st["taker"] \notin TakerBeforePayment => next'["taker"] \notin TakerBeforePayment \ {"none"}
         /\ next'["taker"] \in {"TakerPaymentSpent", "MakerPaymentSpent"} => SpendSeen(takerPayment)
<1>1. next["taker"] = "none"
  BY Zenon, TakerShape DEF LogInv
<1>2. CASE TakerInitialize \/ TakerNegotiationRecv \/ TakerNegotiatedRecv \/ TakerNegotiated \/ TakerMakerPaymentRecv
  <2>1. st["taker"] \in TakerBeforePayment
    BY Zenon, <1>2 DEF TakerInitialize, TakerNegotiationRecv, TakerNegotiatedRecv, TakerNegotiated,
       TakerMakerPaymentRecv, At, TakerBeforePayment
  <2>2. CASE TakerInitialize \/ TakerNegotiatedRecv \/ TakerNegotiated
    <3>1. next'["taker"] \in {"Initialized", "Negotiated", "TakerFundingSent", "Aborted"}
      BY Zenon, <2>2, MovesEffect DEF TakerInitialize, TakerNegotiatedRecv, TakerNegotiated, ChangeState, FailsTo
    <3>2. QED
      BY Zenon, <2>1, <3>1
  <2>3. CASE TakerNegotiationRecv
    <3>1. next'["taker"] \in {"none", "Aborted"}
      BY Zenon, <1>1, <2>3, MovesEffect, WaitsEffect DEF TakerNegotiationRecv, ChangeState, FailsTo
    <3>2. QED
      BY Zenon, <2>1, <3>1
  <2>4. CASE TakerMakerPaymentRecv
    <3>1. next'["taker"] \in {"MakerPaymentAndFundingSpendPreimgReceived", "TakerFundingRefundRequired"}
      BY Zenon, <2>4, MovesEffect DEF TakerMakerPaymentRecv, ChangeState, FailsTo
    <3>2. QED
      BY Zenon, <2>1, <3>1
  <2>5. QED
    BY Zenon, <1>2, <2>2, <2>3, <2>4
<1>3. CASE TakerInitialized \/ TakerFundingSent
  BY Zenon, <1>1, <1>3, WaitsEffect DEF TakerInitialized, TakerFundingSent, TakerBeforePayment
<1>4. CASE TakerMakerPaymentReceived \/ TakerPaymentSent \/ TakerPaymentSentPreimageSendingSkipped
  <2>1. next'["taker"] \in {"TakerPaymentSentPreimageSendingSkipped", "TakerPaymentSent", "none",
                            "TakerFundingRefundRequired", "TakerPaymentRefundRequired"}
    BY Zenon, <1>1, <1>4, MovesEffect, WaitsEffect DEF TakerMakerPaymentReceived, TakerPaymentSent,
       TakerPaymentSentPreimageSendingSkipped, ChangeState, FailsTo
  <2>2. QED
    BY Zenon, <2>1 DEF TakerBeforePayment
<1>5. CASE TakerFindSpend
  <2>1. \/ next'["taker"] = "TakerPaymentRefundRequired"
        \/ next'["taker"] = "TakerPaymentSpent" /\ SpendSeen(takerPayment)
    BY Zenon, <1>5, MovesEffect DEF TakerFindSpend, ChangeState
  <2>2. QED
    BY Zenon, <2>1 DEF TakerBeforePayment
<1>6. CASE TakerTakerPaymentSpent
  <2>1. next'["taker"] \in {"MakerPaymentSpent", "Aborted"} /\ SpendSeen(takerPayment)
    BY Zenon, <1>6, MovesEffect DEF TakerTakerPaymentSpent, ChangeState, FailsTo, At, SecretInv
  <2>2. QED
    BY Zenon, <2>1 DEF TakerBeforePayment
<1>7. CASE TakerMakerPaymentSpent \/ TakerFundingRefundRequired \/ TakerPaymentRefundRequired
  <2>1. next'["taker"] \in {"Completed", "TakerPaymentRefundRequired", "TakerFundingRefunded",
                            "TakerPaymentRefunded", "Aborted"}
    BY Zenon, <1>7, MovesEffect DEF TakerMakerPaymentSpent, TakerFundingRefundRequired, TakerPaymentRefundRequired,
       ChangeState, FailsTo
  <2>2. QED
    BY Zenon, <2>1 DEF TakerBeforePayment
<1>8. QED
  BY Zenon, <1>2, <1>3, <1>4, <1>5, <1>6, <1>7 DEF TakerOnChanged

-----------------------------------------------------------------------------
(* The chains.                                                                *)

(* Once the start times agree, the deadlines are in order.                    *)
LEMMA Margins ==
  ASSUME TypeOK, Agreed
  PROVE  /\ taker_payment_conf_timeout + RecvWait + SpendDelay < taker_payment_locktime
         /\ taker_payment_conf_timeout + RecvWait < maker_payment_locktime
         /\ maker_payment_conf_timeout < maker_payment_locktime
<1> DEFINE m == startedAt["maker"]
           late == (LockDuration * 2) \div 3
           third == LockDuration \div 3
<1>1. /\ m \in Nat /\ late \in Nat /\ third \in Nat /\ third <= LockDuration
      /\ LockDuration \in Nat /\ LockDuration > 0 /\ RecvWait \in Nat /\ SpendDelay \in Nat
  BY ChainAssumption DEF TypeOK, ChainTypeOK
<1>2. late + RecvWait + SpendDelay < LockDuration
  BY Zenon, MarginAssumption
<1>3. /\ taker_payment_conf_timeout = m + late /\ taker_payment_locktime = m + LockDuration
      /\ maker_payment_locktime = m + 2 * LockDuration /\ maker_payment_conf_timeout = m + third
  BY Zenon DEF Agreed, taker_payment_conf_timeout, taker_payment_locktime, maker_payment_locktime,
         maker_payment_conf_timeout
<1> HIDE DEF m, late, third
<1>4. QED
  BY <1>1, <1>2, <1>3

(* The taker payment is claimed while the maker payment is there.             *)
LEMMA SpendInTime ==
  ASSUME TypeOK, AtomicInv, takerPayment \in {"unconfirmed", "confirmed"}, now <= taker_payment_conf_timeout + RecvWait
  PROVE  makerPayment \in {"unconfirmed", "confirmed"}
<1>1. makerPayment # "none" /\ Agreed
  BY Zenon DEF AtomicInv, ProgressInv
<1>2. ~SpendSeen(makerPayment)
  BY Zenon DEF AtomicInv, SecretInv, SpendSeen
<1>3. makerPayment # "refunded"
  <2>1. ~(now >= maker_payment_locktime)
    BY <1>1, Margins, ChainAssumption DEF TypeOK, ChainTypeOK, taker_payment_conf_timeout, maker_payment_locktime
  <2>2. QED
    BY Zenon, <2>1 DEF AtomicInv, ProgressInv
<1>4. QED
  BY Zenon, <1>1, <1>2, <1>3 DEF TypeOK, ChainTypeOK, PayState, SpendSeen

(* A spend of the taker payment is mined before its refund is valid.          *)
LEMMA SpendMinedInTime ==
  ASSUME TypeOK, AtomicInv, takerPayment = "spending"
  PROVE  ~(now >= taker_payment_locktime)
<1>1. Agreed
  BY Zenon DEF AtomicInv, ProgressInv
<1>2. takerSpendAt <= taker_payment_conf_timeout + RecvWait /\ now <= takerSpendAt + SpendDelay
  BY Zenon DEF AtomicInv, InTimeInv
<1>3. /\ now \in Nat /\ takerSpendAt \in Nat /\ RecvWait \in Nat /\ SpendDelay \in Nat
      /\ taker_payment_conf_timeout \in Nat /\ taker_payment_locktime \in Nat
  BY ChainAssumption DEF TypeOK, ChainTypeOK, taker_payment_conf_timeout, taker_payment_locktime
<1>4. QED
  BY <1>1, <1>2, <1>3, Margins

(* A step that leaves both payments as they are is a stutter.                 *)
AbstractVars == <<Abstract(makerPayment, {"spent"}), Abstract(takerPayment, {"spending", "spent"})>>

(* A step of the maker keeps the invariant of the chains, and is a step of    *)
(* the abstract swap or leaves it alone.                                      *)
LEMMA MakerChainStep ==
  ASSUME TypeOK, AtomicInv, MakerOnChanged, UNCHANGED now
  PROVE  ProgressInv' /\ SecretInv' /\ InTimeInv' /\ [Atomic!Next]_AbstractVars
<1>1. /\ st' = st /\ next'["taker"] = next["taker"] /\ next["maker"] = "none"
  BY Zenon, MakerSettles, MakerShape DEF AtomicInv, LogInv
<1>2. CASE MakerInitialize
  <2>1. takerPayment = "none" /\ makerPayment # "refunded" /\ ~SpendSeen(makerPayment)
    BY Zenon, <1>2 DEF MakerInitialize, At, AtomicInv, ProgressInv, SecretInv, Agreed, MakerMayHaveRefunded, SpendSeen
  <2>2. UNCHANGED <<makerPayment, takerPayVars, fundingVars>>
    BY Zenon, <1>2 DEF MakerInitialize, chainVars, makerPayVars
  <2>3. st["maker"] = "Initialize"
    BY Zenon, <1>2 DEF MakerInitialize, At
  <2>4. ProgressInv' /\ SecretInv'
    BY Zenon, <1>1, <2>1, <2>2 DEF AtomicInv, ProgressInv, SecretInv, SpendSeen, takerPayVars, fundingVars
  <2>5. InTimeInv'
    BY Zenon, <1>1, <2>1, <2>2, <2>3 DEF InTimeInv, At, takerPayVars
  <2>6. QED
    BY Zenon, <2>2, <2>4, <2>5 DEF AbstractVars, takerPayVars
<1>3. CASE ~MakerInitialize
  <2>1. startedAt' = startedAt
    BY Zenon, <1>3 DEF MakerOnChanged, MakerInitialized, MakerNegotiationRecv, MakerWaitingForTakerFunding,
       MakerFundingInfoRecv, MakerTakerFundingReceived, MakerPaymentSentFundingSpendGenerated,
       MakerFundingSpendPoll, MakerTakerPaymentReceived, MakerSpendPreimageRecv,
       MakerTakerPaymentReceivedPreimageSkipped, MakerTakerPaymentSpent, MakerPaymentRefundRequired, noteVars
  <2>2. /\ Agreed' = Agreed /\ maker_payment_locktime' = maker_payment_locktime
        /\ taker_payment_conf_timeout' = taker_payment_conf_timeout
    BY Zenon, <1>1, <2>1 DEF Agreed, maker_payment_locktime, taker_payment_conf_timeout
  <2>3. /\ st["maker"] \in MakerMayHaveSpent => next'["maker"] \in MakerMayHaveSpent \cup {"none"}
        /\ st["maker"] \in MakerMayHaveRefunded => next'["maker"] \in MakerMayHaveRefunded \cup {"none"}
        /\ At("maker", "TakerPaymentReceived", "recv")' => until'["maker"] <= taker_payment_conf_timeout + RecvWait
    BY Zenon, MakerEdges DEF AtomicInv
  <2>4. CASE UNCHANGED <<makerPayment, takerPayVars, fundingVars>>
    <3>1. ProgressInv' /\ SecretInv'
      BY Zenon, <1>1, <2>2, <2>3, <2>4 DEF AtomicInv, ProgressInv, SecretInv, SpendSeen, takerPayVars, fundingVars
    <3>2. InTimeInv'
      BY Zenon, <2>2, <2>3, <2>4 DEF AtomicInv, InTimeInv, takerPayVars
    <3>3. QED
      BY Zenon, <2>4, <3>1, <3>2 DEF AbstractVars, takerPayVars
  <2>5. CASE /\ st["maker"] = "TakerFundingReceived" /\ makerPayment' = "unconfirmed"
             /\ UNCHANGED <<takerPayVars, fundingVars>>
    <3>1. ~SpendSeen(takerPayment) /\ ~SpendSeen(makerPayment) /\ makerPayment # "refunded"
      BY Zenon, <2>5 DEF AtomicInv, ProgressInv, SecretInv, MakerMayHaveSpent, MakerMayHaveRefunded
    <3>2. ProgressInv' /\ SecretInv'
      BY Zenon, <1>1, <2>2, <2>5, <3>1 DEF AtomicInv, ProgressInv, SecretInv, SpendSeen, takerPayVars, fundingVars
    <3>3. InTimeInv'
      BY Zenon, <2>2, <2>3, <2>5 DEF AtomicInv, InTimeInv, takerPayVars
    <3>4. makerPayment \in {"none", "unconfirmed", "confirmed"}
      BY Zenon, <3>1 DEF TypeOK, ChainTypeOK, PayState, SpendSeen
    <3>5. [Atomic!Next]_AbstractVars
      BY Zenon, <2>5, <3>4 DEF AbstractVars, Abstract, Atomic!Next, Atomic!LockMaker, takerPayVars
    <3>6. QED
      BY Zenon, <3>2, <3>3, <3>5
  <2>6. CASE /\ st["maker"] \in {"TakerPaymentReceived", "TakerPaymentReceivedPreimageSkipped"}
             /\ now <= taker_payment_conf_timeout + RecvWait
             /\ takerPayment = "confirmed" /\ takerPayment' = "spending" /\ takerSpendAt' = now
             /\ UNCHANGED <<makerPayment, fundingVars>>
    <3>1. makerPayment \in {"unconfirmed", "confirmed"}
      BY Zenon, <2>6, SpendInTime
    <3>2. ProgressInv' /\ SecretInv'
      BY Zenon, <1>1, <2>2, <2>3, <2>6, <3>1 DEF AtomicInv, ProgressInv, SecretInv, SpendSeen, fundingVars, MakerMayHaveSpent
    <3>3. now <= now + SpendDelay
      BY ChainAssumption DEF TypeOK, ChainTypeOK
    <3>4. InTimeInv'
      BY Zenon, <2>2, <2>3, <2>6, <3>3 DEF InTimeInv
    <3>5. [Atomic!Next]_AbstractVars
      BY Zenon, <2>6, <3>1 DEF AbstractVars, Abstract, Atomic!Next, Atomic!ClaimTaker
    <3>6. QED
      BY <3>2, <3>4, <3>5
  <2>7. CASE /\ st["maker"] = "MakerPaymentRefundRequired" /\ now >= maker_payment_locktime
             /\ makerPayment \in {"unconfirmed", "confirmed", "spending", "refunded"}
             /\ makerPayment' = "refunded" /\ UNCHANGED <<takerPayVars, fundingVars>>
    <3>1. ProgressInv' /\ SecretInv'
      BY Zenon, <1>1, <2>2, <2>3, <2>7 DEF AtomicInv, ProgressInv, SecretInv, SpendSeen, takerPayVars, fundingVars,
         MakerMayHaveSpent, MakerMayHaveRefunded
    <3>2. InTimeInv'
      BY Zenon, <2>2, <2>3, <2>7 DEF AtomicInv, InTimeInv, takerPayVars
    <3>3. [Atomic!Next]_AbstractVars
      BY Zenon, <2>7 DEF AbstractVars, Abstract, Atomic!Next, Atomic!ReclaimMaker, takerPayVars
    <3>4. QED
      BY <3>1, <3>2, <3>3
  <2>8. QED
    BY Zenon, <2>4, <2>5, <2>6, <2>7, MakerChainEffect DEF AtomicInv
<1>4. QED
  BY Zenon, <1>2, <1>3

(* So does a step of the taker.                                               *)
LEMMA TakerChainStep ==
  ASSUME TypeOK, AtomicInv, TakerOnChanged, UNCHANGED now
  PROVE  ProgressInv' /\ SecretInv' /\ InTimeInv' /\ [Atomic!Next]_AbstractVars
<1>1. /\ st' = st /\ next'["maker"] = next["maker"] /\ pc'["maker"] = pc["maker"] /\ next["taker"] = "none"
  BY Zenon, TakerSettles, TakerShape DEF AtomicInv, LogInv
<1>2. until'["maker"] = until["maker"]
  BY Zenon, TakerShape, MovesEffect, WaitsEffect
<1>3. CASE TakerInitialize
  <2>1. takerPayment = "none" /\ ~SpendSeen(makerPayment)
    BY Zenon, <1>3 DEF TakerInitialize, At, AtomicInv, ProgressInv, SecretInv, Agreed, SpendSeen
  <2>2. UNCHANGED <<makerPayment, takerPayVars, fundingVars>> /\ startedAt'["maker"] = startedAt["maker"]
    BY Zenon, <1>3 DEF TakerInitialize, chainVars, makerPayVars, TypeOK, ChainTypeOK
  <2>3. /\ next'["taker"] \in {"Initialized", "Aborted"}
        /\ st["taker"] = "Initialize"
    BY Zenon, <1>3, MovesEffect DEF TakerInitialize, ChangeState, FailsTo, At
  <2>4. ProgressInv'
    BY Zenon, <1>1, <2>1, <2>2 DEF AtomicInv, ProgressInv, SpendSeen, takerPayVars, fundingVars, maker_payment_locktime
  <2>5. SecretInv'
    BY Zenon, <1>1, <2>1, <2>2, <2>3 DEF SecretInv, SpendSeen
  <2>6. InTimeInv'
    BY Zenon, <1>1, <1>2, <2>2 DEF AtomicInv, InTimeInv, At, takerPayVars, taker_payment_conf_timeout
  <2>7. QED
    BY Zenon, <2>2, <2>4, <2>5, <2>6 DEF AbstractVars, takerPayVars
<1>4. CASE ~TakerInitialize
  <2>1. startedAt' = startedAt
    BY Zenon, <1>4 DEF TakerOnChanged, TakerInitialized, TakerNegotiationRecv, TakerNegotiatedRecv, TakerNegotiated,
       TakerFundingSent, TakerMakerPaymentRecv, TakerMakerPaymentReceived, TakerPaymentSent,
       TakerPaymentSentPreimageSendingSkipped, TakerFindSpend, TakerTakerPaymentSpent, TakerMakerPaymentSpent,
       TakerFundingRefundRequired, TakerPaymentRefundRequired, noteVars
  <2>2. /\ Agreed' = Agreed /\ maker_payment_locktime' = maker_payment_locktime
        /\ taker_payment_conf_timeout' = taker_payment_conf_timeout
    BY Zenon, <1>1, <2>1 DEF Agreed, maker_payment_locktime, taker_payment_conf_timeout
  <2>3. /\ st["taker"] \notin TakerBeforePayment => next'["taker"] \notin TakerBeforePayment \ {"none"}
        /\ next'["taker"] \in {"TakerPaymentSpent", "MakerPaymentSpent"} => SpendSeen(takerPayment)
    BY Zenon, TakerEdges DEF AtomicInv
  <2>4. UNCHANGED takerPayVars => InTimeInv'
    BY Zenon, <1>1, <1>2, <2>2 DEF AtomicInv, InTimeInv, At, takerPayVars
  <2>5. CASE UNCHANGED <<funding, makerPayment, takerPayVars>>
    <3>1. ProgressInv' /\ SecretInv'
      BY Zenon, <1>1, <2>2, <2>3, <2>5 DEF AtomicInv, ProgressInv, SecretInv, SpendSeen, takerPayVars
    <3>2. QED
      BY Zenon, <2>4, <2>5, <3>1 DEF AbstractVars, takerPayVars
  <2>6. CASE /\ st["taker"] = "Negotiated" \/ Unspent(funding) \/ funding = "reclaimed"
             /\ funding' \in {"unconfirmed", "reclaimed"} /\ UNCHANGED <<makerPayment, takerPayVars>>
    <3>1. takerPayment = "none"
      BY Zenon, <2>6 DEF AtomicInv, ProgressInv, TakerBeforePayment, Unspent
    <3>2. ProgressInv' /\ SecretInv'
      BY Zenon, <1>1, <2>2, <2>3, <2>6, <3>1 DEF AtomicInv, ProgressInv, SecretInv, SpendSeen, takerPayVars
    <3>3. QED
      BY Zenon, <2>4, <2>6, <3>2 DEF AbstractVars, takerPayVars
  <2>7. CASE /\ st["taker"] = "MakerPaymentAndFundingSpendPreimgReceived"
             /\ now <= maker_payment_conf_timeout
             /\ makerPayment \in {"confirmed", "spending", "spent", "refunded"}
             /\ Unspent(funding) /\ funding' = "transferred" /\ takerPayment' = "unconfirmed"
             /\ UNCHANGED <<makerPayment, takerSpendAt>>
    <3>1. takerPayment = "none" /\ Agreed
      BY Zenon, <2>7 DEF AtomicInv, ProgressInv, AgreedInv, TakerUnsettled, Unspent
    <3>2. ~SpendSeen(makerPayment)
      BY Zenon, <3>1 DEF AtomicInv, SecretInv, SpendSeen
    <3>3. makerPayment # "refunded"
      <4>1. ~(now >= maker_payment_locktime)
        BY <2>7, <3>1, Margins, ChainAssumption
           DEF TypeOK, ChainTypeOK, maker_payment_conf_timeout, maker_payment_locktime
      <4>2. QED
        BY Zenon, <4>1 DEF AtomicInv, ProgressInv
    <3>4. next'["taker"] \notin {"TakerPaymentSpent", "MakerPaymentSpent"}
      BY Zenon, <2>3, <3>1 DEF SpendSeen
    <3>5. ProgressInv'
      BY Zenon, <1>1, <2>2, <2>3, <2>7, <3>1, <3>3 DEF ProgressInv, SpendSeen, TakerBeforePayment
    <3>6. SecretInv'
      BY Zenon, <1>1, <2>7, <3>2, <3>4 DEF SecretInv, SpendSeen
    <3>7. InTimeInv'
      BY Zenon, <1>1, <1>2, <2>2, <2>7 DEF AtomicInv, InTimeInv, At
    <3>8. [Atomic!Next]_AbstractVars
      BY Zenon, <2>7, <3>1, <3>2, <3>3 DEF AbstractVars, Abstract, SpendSeen, Atomic!Next, Atomic!LockTaker
    <3>9. QED
      BY Zenon, <3>5, <3>6, <3>7, <3>8
  <2>8. CASE /\ st["taker"] = "TakerPaymentSpent"
             /\ Unspent(makerPayment) /\ makerPayment' = "spending"
             /\ UNCHANGED <<funding, takerPayVars>>
    <3>1. SpendSeen(takerPayment)
      BY Zenon, <2>8 DEF AtomicInv, SecretInv
    <3>2. ProgressInv' /\ SecretInv'
      BY Zenon, <1>1, <2>2, <2>3, <2>8, <3>1 DEF AtomicInv, ProgressInv, SecretInv, SpendSeen, takerPayVars
    <3>3. UNCHANGED AbstractVars
      BY Zenon, <2>8 DEF AbstractVars, Abstract, Unspent, takerPayVars
    <3>4. QED
      BY Zenon, <2>4, <2>8, <3>2, <3>3
  <2>9. CASE /\ st["taker"] = "TakerPaymentRefundRequired" /\ now >= taker_payment_locktime
             /\ takerPayment \in {"unconfirmed", "confirmed", "spending", "refunded"}
             /\ takerPayment' = "refunded" /\ UNCHANGED <<funding, makerPayment, takerSpendAt>>
    <3>1. takerPayment # "spending"
      BY Zenon, <2>9, SpendMinedInTime
    <3>2. ProgressInv' /\ SecretInv'
      BY Zenon, <1>1, <2>2, <2>3, <2>9, <3>1 DEF AtomicInv, ProgressInv, SecretInv, SpendSeen
    <3>3. InTimeInv'
      BY Zenon, <1>1, <1>2, <2>2, <2>9 DEF AtomicInv, InTimeInv, At
    <3>4. [Atomic!Next]_AbstractVars
      BY Zenon, <2>9, <3>1 DEF AbstractVars, Abstract, Atomic!Next, Atomic!ReclaimTaker
    <3>5. QED
      BY <3>2, <3>3, <3>4
  <2>10. QED
    BY Zenon, <2>5, <2>6, <2>7, <2>8, <2>9, TakerChainEffect
<1>5. QED
  BY <1>3, <1>4

(* The runtime, the miners and the clock.                                     *)
LEMMA OtherChainStep ==
  ASSUME TypeOK, AtomicInv, (\E r \in Role : Runs(r) \/ Stops(r)) \/ ChainStep \/ Tick \/ UNCHANGED vars
  PROVE  ProgressInv' /\ SecretInv' /\ InTimeInv' /\ [Atomic!Next]_AbstractVars
<1>1. ASSUME NEW r \in Role, Runs(r) \/ Stops(r)
      PROVE  ProgressInv' /\ SecretInv' /\ InTimeInv' /\ [Atomic!Next]_AbstractVars
  <2>1. /\ UNCHANGED <<now, funding, makerPayment, takerPayment, takerSpendAt, startedAt>>
        /\ \A q \in Role : q # r => st'[q] = st[q] /\ next'[q] = next[q] /\ pc'[q] = pc[q] /\ until'[q] = until[q]
        /\ st'[r] \in {st[r], next[r]} \ {"none"} \/ st'[r] = st[r]
        /\ next'[r] = "none" /\ pc'[r] # "recv"
    BY Zenon, <1>1, RunsEffect DEF AtomicInv, chainVars, fundingVars, makerPayVars, takerPayVars, noteVars
  <2>2. Agreed => Agreed'
    BY Zenon, <2>1 DEF AtomicInv, LogInv, Agreed
  <2>3. ProgressInv'
    BY Zenon, <2>1, <2>2 DEF AtomicInv, ProgressInv, SpendSeen, maker_payment_locktime
  <2>4. SecretInv'
    BY Zenon, <2>1 DEF AtomicInv, SecretInv, SpendSeen
  <2>5. InTimeInv'
    BY Zenon, <2>1 DEF AtomicInv, InTimeInv, At, taker_payment_conf_timeout
  <2>6. QED
    BY Zenon, <2>1, <2>3, <2>4, <2>5 DEF AbstractVars
<1>2. CASE ChainStep
  <2>1. /\ UNCHANGED <<now, startedAt, st, next, pc, until, takerSpendAt>>
        /\ Agreed' = Agreed
    BY Zenon, <1>2 DEF ChainStep, Mined, noteVars, machineVars, Agreed
  <2>2. ProgressInv' /\ SecretInv'
    BY Zenon, <1>2, <2>1 DEF ChainStep, Mined, AtomicInv, ProgressInv, SecretInv, SpendSeen, maker_payment_locktime
  <2>3. InTimeInv'
    BY Zenon, <1>2, <2>1 DEF ChainStep, Mined, AtomicInv, InTimeInv, At, taker_payment_conf_timeout
  <2>4. makerPayment = "spending" => SpendSeen(takerPayment)
    BY Zenon DEF AtomicInv, SecretInv, SpendSeen
  <2>5. [Atomic!Next]_AbstractVars
    BY Zenon, <1>2, <2>4 DEF ChainStep, Mined, AbstractVars, Abstract, SpendSeen, Atomic!Next, Atomic!ClaimMaker
  <2>6. QED
    BY Zenon, <2>2, <2>3, <2>5
<1>3. CASE Tick
  <2>1. /\ UNCHANGED <<startedAt, st, next, pc, until, funding, makerPayment, takerPayment, takerSpendAt>>
        /\ Agreed' = Agreed
    BY Zenon, <1>3 DEF Tick, chainVars, fundingVars, makerPayVars, takerPayVars, noteVars, machineVars, Agreed
  <2>2. now' = now + 1 /\ now \in Nat /\ maker_payment_locktime \in Nat
    BY <1>3, ChainAssumption DEF Tick, TypeOK, ChainTypeOK, maker_payment_locktime
  <2>3. maker_payment_locktime' = maker_payment_locktime
    BY Zenon, <2>1 DEF maker_payment_locktime
  <2>4. now >= maker_payment_locktime => now' >= maker_payment_locktime'
    BY <2>2, <2>3
  <2>5. ProgressInv' /\ SecretInv'
    BY Zenon, <2>1, <2>4 DEF AtomicInv, ProgressInv, SecretInv, SpendSeen
  <2>6. takerPayment = "spending" => now' <= takerSpendAt + SpendDelay
    BY <1>3, <2>2, ChainAssumption DEF Tick, TypeOK, ChainTypeOK
  <2>7. InTimeInv'
    BY Zenon, <2>1, <2>6 DEF AtomicInv, InTimeInv, At, taker_payment_conf_timeout
  <2>8. QED
    BY Zenon, <2>1, <2>5, <2>7 DEF AbstractVars
<1>4. CASE UNCHANGED vars
  BY Zenon, <1>4 DEF vars, chainVars, fundingVars, makerPayVars, takerPayVars, noteVars, machineVars, AtomicInv,
     ProgressInv, SecretInv, InTimeInv, SpendSeen, At, Agreed, maker_payment_locktime,
     taker_payment_conf_timeout, AbstractVars
<1>5. QED
  BY Zenon, <1>1, <1>2, <1>3, <1>4

-----------------------------------------------------------------------------
(* The types and the argument hold throughout: the log names the state that   *)
(* runs, the roles agree on their start beyond the negotiation, the maker's   *)
(* spend is broadcast and mined in time, and the taker has the secret from it *)
(* only, wherever either machine stops and resumes and whatever fails.        *)
THEOREM SwapV2Invariant == Spec => [](TypeOK /\ AtomicInv)
<1>1. Init => TypeOK
  BY ChainAssumption DEF Init, ChainInit, MachineInit, TypeOK, ChainTypeOK, MachineTypeOK, MakerState, Pc,
     PayState, FundingState
<1>2. Init => AtomicInv
  <2> SUFFICES ASSUME Init PROVE AtomicInv
    BY Zenon
  <2>1. LogInv /\ AgreedInv
    BY Zenon DEF Init, ChainInit, MachineInit, LogInv, AgreedInv, Received, MakerUnsettled, TakerUnsettled
  <2>2. ProgressInv /\ SecretInv /\ InTimeInv
    BY Zenon DEF Init, ChainInit, MachineInit, ProgressInv, SecretInv, InTimeInv, SpendSeen, At
  <2>3. QED
    BY Zenon, <2>1, <2>2 DEF AtomicInv
<1>3. TypeOK /\ AtomicInv /\ [Next]_vars => TypeOK' /\ AtomicInv'
  <2> SUFFICES ASSUME TypeOK, AtomicInv, [Next]_vars PROVE TypeOK' /\ AtomicInv'
    BY Zenon
  <2>1. TypeOK' /\ LogInv' /\ AgreedInv'
    BY Zenon, TypeStep, LogStep, AgreedStep DEF AtomicInv
  <2>2. ProgressInv' /\ SecretInv' /\ InTimeInv'
    BY Zenon, MakerChainStep, TakerChainStep, OtherChainStep DEF Next, OnChanged, Done
  <2>3. QED
    BY Zenon, <2>1, <2>2 DEF AtomicInv
<1>4. QED
  BY <1>1, <1>2, <1>3, PTL DEF Spec

(* A version-two swap is an atomic swap: every step of the two machines, of   *)
(* the chains and of the clock is a step of AtomicSwap or leaves it alone.    *)
THEOREM SwapV2ImplementsAtomicSwap == Spec => SwapV2IsAtomic
<1>1. Init => Atomic!Init
  BY Zenon DEF Init, ChainInit, Atomic!Init, Abstract
<1>2. TypeOK /\ AtomicInv /\ [Next]_vars => [Atomic!Next]_AbstractVars
  BY Zenon, MakerChainStep, TakerChainStep, OtherChainStep DEF Next, OnChanged, Done
<1>3. TypeOK /\ AtomicInv /\ [Next]_vars
        => [Atomic!Next]_<<Abstract(makerPayment, {"spent"}), Abstract(takerPayment, {"spending", "spent"})>>
  BY Zenon, <1>2 DEF AbstractVars
<1>4. QED
  BY <1>1, <1>3, SwapV2Invariant, PTL DEF Spec, SwapV2IsAtomic, Atomic!Spec

(* So it keeps the promise of AtomicSwap: the maker payment is claimed only   *)
(* when the maker has claimed the taker's, for the secret in that claim.      *)
THEOREM SwapV2ClaimedForClaimed == Spec => []Atomic!ClaimedForClaimed
<1>1. Atomic!Init => Atomic!ClaimedForClaimed
  BY Zenon DEF Atomic!Init, Atomic!ClaimedForClaimed
<1>2. /\ Atomic!ClaimedForClaimed
      /\ [Atomic!Next]_<<Abstract(makerPayment, {"spent"}), Abstract(takerPayment, {"spending", "spent"})>>
      => Atomic!ClaimedForClaimed'
  BY Zenon DEF Atomic!ClaimedForClaimed, Atomic!Next, Atomic!LockMaker, Atomic!LockTaker, Atomic!ClaimTaker,
     Atomic!ClaimMaker, Atomic!ReclaimTaker, Atomic!ReclaimMaker
<1>3. QED
  BY <1>1, <1>2, SwapV2ImplementsAtomicSwap, PTL DEF SwapV2IsAtomic, Atomic!Spec

(* The maker is paid: once the taker has broadcast its claim of the maker     *)
(* payment, the taker payment is not refunded any more.                       *)
THEOREM SwapV2MakerIsPaid == Spec => []MakerIsPaid
<1>1. AtomicInv => MakerIsPaid
  BY Zenon DEF AtomicInv, SecretInv, MakerIsPaid, SpendSeen
<1>2. QED
  BY <1>1, SwapV2Invariant, PTL

-----------------------------------------------------------------------------
(* What a swap holds in memory and what it leaves on the chains.              *)

(* What a change of state does to the history of faults and to the ledger.    *)
LEMMA MovesMore ==
  ASSUME TypeOK, NEW r \in Role, NEW to, NEW how, Moves(r, to, how)
  PROVE  /\ reserved' = reserved
         /\ faults'[r] = faults[r] \cup how
         /\ \A q \in Role : q # r => faults'[q] = faults[q]
  BY Zenon DEF TypeOK, MachineTypeOK, Moves

(* The changes of state of the maker: the TransitionFrom implementations.     *)
MakerEdge(from, to) ==
  \/ from = "Initialize" /\ to \in {"Initialized", "Aborted"}
  \/ from = "Initialized" /\ to \in {"WaitingForTakerFunding", "Aborted"}
  \/ from = "WaitingForTakerFunding" /\ to \in {"TakerFundingReceived", "Aborted"}
  \/ from = "TakerFundingReceived" /\ to \in {"MakerPaymentSentFundingSpendGenerated", "Aborted"}
  \/ /\ from = "MakerPaymentSentFundingSpendGenerated"
     /\ to \in {"TakerPaymentReceived", "TakerPaymentReceivedPreimageSkipped", "MakerPaymentRefundRequired"}
  \/ /\ from \in {"TakerPaymentReceived", "TakerPaymentReceivedPreimageSkipped"}
     /\ to \in {"TakerPaymentSpent", "MakerPaymentRefundRequired"}
  \/ from = "TakerPaymentSpent" /\ to \in {"Completed", "MakerPaymentRefundRequired"}
  \/ from = "MakerPaymentRefundRequired" /\ to \in {"MakerPaymentRefunded", "Aborted"}

(* And those of the taker.                                                    *)
TakerEdge(from, to) ==
  \/ from = "Initialize" /\ to \in {"Initialized", "Aborted"}
  \/ from = "Initialized" /\ to \in {"Negotiated", "Aborted"}
  \/ from = "Negotiated" /\ to \in {"TakerFundingSent", "Aborted"}
  \/ from = "TakerFundingSent" /\ to \in {"MakerPaymentAndFundingSpendPreimgReceived", "TakerFundingRefundRequired"}
  \/ /\ from = "MakerPaymentAndFundingSpendPreimgReceived"
     /\ to \in {"TakerPaymentSent", "TakerPaymentSentPreimageSendingSkipped", "TakerFundingRefundRequired"}
  \/ /\ from \in {"TakerPaymentSent", "TakerPaymentSentPreimageSendingSkipped"}
     /\ to \in {"TakerPaymentSpent", "TakerPaymentRefundRequired"}
  \/ from = "TakerPaymentSpent" /\ to \in {"MakerPaymentSpent", "Aborted"}
  \/ from = "MakerPaymentSpent" /\ to \in {"Completed", "TakerPaymentRefundRequired"}
  \/ from = "TakerFundingRefundRequired" /\ to \in {"TakerFundingRefunded", "Aborted"}
  \/ from = "TakerPaymentRefundRequired" /\ to \in {"TakerPaymentRefunded", "Aborted"}

(* A state of the maker waits, or changes the state along an edge.            *)
LEMMA MakerMovesAlong ==
  ASSUME TypeOK, LogInv, MakerOnChanged
  PROVE  /\ st' = st /\ reserved' = reserved /\ pc["maker"] \in {"run", "recv", "poll"} /\ next["maker"] = "none"
         /\ next'["taker"] = next["taker"] /\ pc'["taker"] = pc["taker"] /\ until'["taker"] = until["taker"]
         /\ faults'["taker"] = faults["taker"] /\ faults["maker"] \subseteq faults'["maker"]
         /\ \/ next'["maker"] = "none" /\ pc'["maker"] \in {"recv", "poll"}
            \/ pc'["maker"] = "store" /\ MakerEdge(st["maker"], next'["maker"])
<1>1. pc["maker"] \in {"run", "recv", "poll"} /\ next["maker"] = "none"
  BY Zenon, MakerShape DEF LogInv
<1>2. CASE \E where \in {"recv", "poll"}, deadline \in Nat : Waits("maker", where, deadline)
  BY Zenon, <1>1, <1>2 DEF TypeOK, MachineTypeOK, Waits
<1>3. CASE \E to \in MakerState \ {"Initialize"}, how \in SUBSET Fault : Moves("maker", to, how)
  <2>1. /\ st' = st /\ reserved' = reserved /\ pc'["maker"] = "store"
        /\ next'["taker"] = next["taker"] /\ pc'["taker"] = pc["taker"] /\ until'["taker"] = until["taker"]
        /\ faults'["taker"] = faults["taker"] /\ faults["maker"] \subseteq faults'["maker"]
    BY <1>3, MovesEffect, MovesMore, Zenon
  <2> SUFFICES MakerEdge(st["maker"], next'["maker"])
    BY Zenon, <1>1, <2>1
  <2> USE DEF ChangeState, FailsTo, At, MakerEdge
  <2>2. CASE MakerInitialize \/ MakerNegotiationRecv \/ MakerFundingInfoRecv
    BY Zenon, <2>2, MovesEffect DEF MakerInitialize, MakerNegotiationRecv, MakerFundingInfoRecv
  <2>3. CASE MakerTakerFundingReceived \/ MakerFundingSpendPoll
    BY Zenon, <2>3, MovesEffect DEF MakerTakerFundingReceived, MakerFundingSpendPoll
  <2>4. CASE MakerTakerPaymentReceived
    <3>1. \A deadline : ~Waits("maker", "recv", deadline)
      BY <2>1, WaitsEffect
    <3>2. QED
      BY Zenon, <2>4, <3>1, MovesEffect DEF MakerTakerPaymentReceived
  <2>5. CASE MakerSpendPreimageRecv \/ MakerTakerPaymentReceivedPreimageSkipped
    BY Zenon, <2>5, MovesEffect DEF MakerSpendPreimageRecv, MakerTakerPaymentReceivedPreimageSkipped, MakerSpends
  <2>6. CASE MakerTakerPaymentSpent \/ MakerPaymentRefundRequired
    BY Zenon, <2>6, MovesEffect DEF MakerTakerPaymentSpent, MakerPaymentRefundRequired
  <2>7. CASE MakerInitialized \/ MakerWaitingForTakerFunding \/ MakerPaymentSentFundingSpendGenerated
    BY <2>1, <2>7, WaitsEffect DEF MakerInitialized, MakerWaitingForTakerFunding, MakerPaymentSentFundingSpendGenerated
  <2>8. QED
    BY ZenonT(40), <2>2, <2>3, <2>4, <2>5, <2>6, <2>7 DEF MakerOnChanged
<1>4. QED
  BY Zenon, <1>2, <1>3, MakerShape

(* So does a state of the taker.                                              *)
LEMMA TakerMovesAlong ==
  ASSUME TypeOK, LogInv, TakerOnChanged
  PROVE  /\ st' = st /\ reserved' = reserved /\ pc["taker"] \in {"run", "recv", "ack", "poll"} /\ next["taker"] = "none"
         /\ next'["maker"] = next["maker"] /\ pc'["maker"] = pc["maker"]
         /\ faults'["maker"] = faults["maker"] /\ faults["taker"] \subseteq faults'["taker"]
         /\ \/ next'["taker"] = "none" /\ pc'["taker"] \in {"recv", "ack", "poll"}
            \/ pc'["taker"] = "store" /\ TakerEdge(st["taker"], next'["taker"])
<1>1. pc["taker"] \in {"run", "recv", "ack", "poll"} /\ next["taker"] = "none"
  BY Zenon, TakerShape DEF LogInv
<1>2. CASE \E where \in {"recv", "ack", "poll"}, deadline \in Nat : Waits("taker", where, deadline)
  BY Zenon, <1>1, <1>2 DEF TypeOK, MachineTypeOK, Waits
<1>3. CASE \E to \in TakerState \ {"Initialize"}, how \in SUBSET Fault : Moves("taker", to, how)
  <2>1. /\ st' = st /\ reserved' = reserved /\ pc'["taker"] = "store"
        /\ next'["maker"] = next["maker"] /\ pc'["maker"] = pc["maker"]
        /\ faults'["maker"] = faults["maker"] /\ faults["taker"] \subseteq faults'["taker"]
    BY Zenon, <1>3, MovesEffect, MovesMore
  <2>2. \A where \in {"recv", "ack", "poll"} : \A deadline : ~Waits("taker", where, deadline)
    BY Zenon, <2>1, WaitsEffect
  <2> SUFFICES TakerEdge(st["taker"], next'["taker"])
    BY Zenon, <1>1, <2>1
  <2> USE DEF ChangeState, FailsTo, At, TakerEdge
  <2>3. CASE TakerInitialize \/ TakerNegotiationRecv \/ TakerNegotiatedRecv
    BY Zenon, <2>2, <2>3, MovesEffect DEF TakerInitialize, TakerNegotiationRecv, TakerNegotiatedRecv
  <2>4. CASE TakerNegotiated \/ TakerMakerPaymentRecv
    BY Zenon, <2>4, MovesEffect DEF TakerNegotiated, TakerMakerPaymentRecv
  <2>5. CASE TakerMakerPaymentReceived
    BY Zenon, <2>5, MovesEffect DEF TakerMakerPaymentReceived
  <2>6. CASE TakerPaymentSent \/ TakerPaymentSentPreimageSendingSkipped
    BY Zenon, <2>2, <2>6, MovesEffect DEF TakerPaymentSent, TakerPaymentSentPreimageSendingSkipped
  <2>7. CASE TakerFindSpend \/ TakerTakerPaymentSpent \/ TakerMakerPaymentSpent
    BY Zenon, <2>7, MovesEffect DEF TakerFindSpend, TakerTakerPaymentSpent, TakerMakerPaymentSpent
  <2>8. CASE TakerFundingRefundRequired \/ TakerPaymentRefundRequired
    BY Zenon, <2>8, MovesEffect DEF TakerFundingRefundRequired, TakerPaymentRefundRequired
  <2>9. CASE TakerInitialized \/ TakerFundingSent
    BY Zenon, <2>2, <2>9 DEF TakerInitialized, TakerFundingSent
  <2>10. QED
    BY Zenon, <2>3, <2>4, <2>5, <2>6, <2>7, <2>8, <2>9 DEF TakerOnChanged
<1>4. QED
  BY Zenon, <1>2, <1>3, TakerShape

(* The steps of the runtime: an event is stored, the run breaks off with an   *)
(* error or comes to its end, the process stops, a kickstart resumes the      *)
(* machine or refuses to.                                                     *)
RunStep(r) ==
  \/ /\ pc[r] = "store" /\ pc'[r] = "run" /\ st'[r] = next[r]
     /\ reserved'[r] = OnEvent(r, next[r], reserved[r])
  \/ pc'[r] = "failed" /\ faults'[r] # {} /\ st'[r] = st[r]
  \/ pc[r] = "run" /\ pc'[r] = "end" /\ st'[r] = st[r] /\ st[r] \in LastStates /\ reserved'[r] = {}
  \/ /\ pc'[r] = "down" /\ now < RestartBy /\ st'[r] = st[r] /\ reserved'[r] = {}
     /\ faults'[r] = {} => next[r] \notin SentStates(r)
  \/ /\ pc[r] = "down" /\ pc'[r] = "run" /\ st'[r] = st[r] /\ st[r] # "Initialize"
     /\ reserved'[r] = OnKickstartEvent(r, st[r])
  \/ /\ pc[r] = "down" /\ pc'[r] = "lost" /\ st'[r] = st[r] /\ st[r] \in LastStates \cup {"Initialize"}
     /\ reserved'[r] = reserved[r]

LEMMA RunsMore ==
  ASSUME TypeOK, LogInv, NEW r \in Role, Runs(r) \/ Stops(r)
  PROVE  /\ \A q \in Role : q # r => reserved'[q] = reserved[q] /\ faults'[q] = faults[q]
         /\ faults[r] \subseteq faults'[r]
         /\ RunStep(r)
<1>1. CASE OnNewState(r)
  BY <1>1 DEF OnNewState, RunStep, TypeOK, MachineTypeOK
<1>2. CASE OnFinished(r)
  BY <1>2 DEF OnFinished, RunStep, TypeOK, MachineTypeOK
<1>3. CASE KickStart(r)
  <2>1. last[r] = IF st[r] = "Initialize" THEN "none" ELSE st[r]
    BY Zenon DEF LogInv
  <2>2. CASE Recreates(r, last[r])
    <3>1. last[r] = st[r] /\ st[r] # "Initialize"
      BY Zenon, <2>1, <2>2 DEF Recreates
    <3>2. QED
      BY <1>3, <2>2, <3>1 DEF KickStart, RunStep, TypeOK, MachineTypeOK
  <2>3. CASE ~Recreates(r, last[r])
    <3>1. st[r] # "none"
      BY Zenon DEF TypeOK, MachineTypeOK, MakerState, TakerState
    <3>2. st[r] \in LastStates \cup {"Initialize"}
      BY Zenon, <2>1, <2>3, <3>1 DEF Recreates
    <3>3. QED
      BY Zenon, <1>3, <2>3, <3>2 DEF KickStart, RunStep, TypeOK, MachineTypeOK
  <2>4. QED
    BY Zenon, <2>2, <2>3
<1>4. CASE Crash(r)
  BY Zenon, <1>4 DEF Crash, RunStep, TypeOK, MachineTypeOK
<1>5. QED
  BY Zenon, <1>1, <1>2, <1>3, <1>4 DEF Runs, Stops

(* What is to be stored is the next state of an edge; a stopped process is    *)
(* back by RestartBy; and a run ends in a last state, or before its first     *)
(* event.                                                                     *)
EdgeInv ==
  /\ next["maker"] # "none" => MakerEdge(st["maker"], next["maker"])
  /\ next["taker"] # "none" => TakerEdge(st["taker"], next["taker"])
  /\ \A r \in Role : /\ pc[r] = "down" => now <= RestartBy
                     /\ pc[r] = "end" => st[r] \in LastStates
                     /\ pc[r] = "lost" => st[r] \in LastStates \cup {"Initialize"}

LEMMA EdgeStep ==
  ASSUME TypeOK, LogInv, EdgeInv, [Next]_vars
  PROVE  EdgeInv'
<1>1. CASE MakerOnChanged /\ UNCHANGED now
  BY Zenon, <1>1, MakerMovesAlong DEF EdgeInv
<1>2. CASE TakerOnChanged /\ UNCHANGED now
  BY Zenon, <1>2, TakerMovesAlong DEF EdgeInv
<1>3. ASSUME NEW r \in Role, Runs(r) \/ Stops(r)
      PROVE  EdgeInv'
  <2>1. /\ now' = now /\ now \in Nat /\ RestartBy \in Nat /\ next'[r] = "none"
        /\ \A q \in Role : q # r => st'[q] = st[q] /\ next'[q] = next[q] /\ pc'[q] = pc[q]
    BY Zenon, <1>3, RunsEffect, MachineAssumption DEF TypeOK, ChainTypeOK
  <2>2. /\ pc'[r] = "down" => now <= RestartBy
        /\ pc'[r] = "end" => st'[r] \in LastStates
        /\ pc'[r] = "lost" => st'[r] \in LastStates \cup {"Initialize"}
    <3>1. RunStep(r)
      BY <1>3, RunsMore, Zenon
    <3>2. now < RestartBy => now <= RestartBy
      BY <2>1
    <3>3. QED
      BY <3>1, <3>2, ZenonT(40) DEF RunStep
  <2>3. QED
    BY Zenon, <2>1, <2>2 DEF EdgeInv
<1>4. CASE Tick
  <2>1. \A r \in Role : pc[r] = "down" => now' <= RestartBy
    BY <1>4, MachineAssumption DEF Tick, MustAct, TypeOK, ChainTypeOK
  <2>2. QED
    BY Zenon, <1>4, <2>1 DEF EdgeInv, Tick, machineVars
<1>5. CASE UNCHANGED <<now, machineVars>>
  BY Zenon, <1>5 DEF EdgeInv, machineVars
<1>6. QED
  BY Zenon, <1>1, <1>2, <1>3, <1>4, <1>5 DEF Next, OnChanged, ChainStep, Done, vars

-----------------------------------------------------------------------------
(* The claim of the taker.                                                    *)

(* The taker payment's lock time is fixed once the taker has started.         *)
LEMMA LockTimeFixed ==
  ASSUME TypeOK, [Next]_vars, st["taker"] # "Initialize"
  PROVE  taker_payment_locktime' = taker_payment_locktime
<1>1. CASE MakerInitialize
  BY Zenon, <1>1 DEF MakerInitialize, taker_payment_locktime, TypeOK, ChainTypeOK
<1>2. CASE MakerOnChanged /\ ~MakerInitialize
  BY Zenon, <1>2 DEF MakerOnChanged, MakerInitialized, MakerNegotiationRecv, MakerWaitingForTakerFunding,
       MakerFundingInfoRecv, MakerTakerFundingReceived, MakerPaymentSentFundingSpendGenerated,
       MakerFundingSpendPoll, MakerTakerPaymentReceived, MakerSpendPreimageRecv,
       MakerTakerPaymentReceivedPreimageSkipped, MakerTakerPaymentSpent, MakerPaymentRefundRequired, noteVars,
       taker_payment_locktime
<1>3. CASE TakerOnChanged
  BY Zenon, <1>3 DEF TakerOnChanged, TakerInitialize, TakerInitialized, TakerNegotiationRecv, TakerNegotiatedRecv,
       TakerNegotiated, TakerFundingSent, TakerMakerPaymentRecv, TakerMakerPaymentReceived, TakerPaymentSent,
       TakerPaymentSentPreimageSendingSkipped, TakerFindSpend, TakerTakerPaymentSpent, TakerMakerPaymentSpent,
       TakerFundingRefundRequired, TakerPaymentRefundRequired, noteVars, At, taker_payment_locktime
<1>4. CASE UNCHANGED noteVars
  BY Zenon, <1>4 DEF noteVars, taker_payment_locktime
<1>5. QED
  BY Zenon, <1>1, <1>2, <1>3, <1>4 DEF Next, OnChanged, Runs, Stops, ChainStep, Tick, Done, vars

TakerWaiting == {"TakerPaymentSent", "TakerPaymentSentPreimageSendingSkipped"}

(* The waits of the taker, and what leads to the claim.                       *)
LEMMA TakerWaitsFor ==
  ASSUME TypeOK, LogInv, TakerOnChanged
  PROVE  /\ pc'["taker"] = "poll" => st["taker"] \in TakerWaiting /\ until'["taker"] = taker_payment_locktime
         /\ pc'["taker"] \in {"recv", "ack"} => st["taker"] \in {"Initialized", "TakerFundingSent"}
         /\ next'["taker"] = "TakerPaymentSpent" => pc["taker"] = "poll" /\ InTime("taker")
<1>1. CASE TakerPaymentSent \/ TakerPaymentSentPreimageSendingSkipped
  <2>1. next'["taker"] # "TakerPaymentSpent"
    <3>1. \/ \E where, deadline : Waits("taker", where, deadline)
          \/ \E how : Moves("taker", "TakerPaymentRefundRequired", how)
      BY Zenon, <1>1 DEF TakerPaymentSent, TakerPaymentSentPreimageSendingSkipped, FailsTo
    <3>2. next'["taker"] \in {next["taker"], "TakerPaymentRefundRequired"}
      BY Zenon, <3>1, WaitsEffect, MovesEffect DEF Role
    <3>3. QED
      BY Zenon, <3>2, TakerMovesAlong
  <2>2. QED
    BY ZenonT(40), <1>1, <2>1, WaitsEffect, MovesEffect DEF TakerPaymentSent, TakerPaymentSentPreimageSendingSkipped, FailsTo,
       TakerWaiting, At
<1>2. CASE TakerInitialized \/ TakerNegotiationRecv \/ TakerFundingSent
  <2>1. st["taker"] \in {"Initialized", "TakerFundingSent"}
    BY Zenon, <1>2 DEF TakerInitialized, TakerNegotiationRecv, TakerFundingSent, At
  <2>2. pc'["taker"] # "poll"
    BY Zenon, <1>2, WaitsEffect, MovesEffect DEF TakerInitialized, TakerNegotiationRecv, TakerFundingSent, ChangeState, FailsTo
  <2>3. QED
    BY Zenon, <2>1, <2>2, TakerMovesAlong DEF TakerEdge
<1>3. CASE TakerFindSpend
  <2>1. pc'["taker"] = "store"
    BY Zenon, <1>3, MovesEffect DEF TakerFindSpend, ChangeState
  <2>2. next'["taker"] = "TakerPaymentRefundRequired" \/ InTime("taker")
    BY Zenon, <1>3, MovesEffect DEF TakerFindSpend, ChangeState
  <2>3. QED
    BY Zenon, <1>3, <2>1, <2>2 DEF TakerFindSpend, At
<1>4. CASE TakerInitialize \/ TakerNegotiatedRecv \/ TakerNegotiated \/ TakerMakerPaymentRecv
  <2>1. pc'["taker"] = "store"
    BY Zenon, <1>4, MovesEffect DEF TakerInitialize, TakerNegotiatedRecv, TakerNegotiated, TakerMakerPaymentRecv,
       ChangeState, FailsTo
  <2>2. st["taker"] \notin TakerWaiting
    BY Zenon, <1>4 DEF TakerInitialize, TakerNegotiatedRecv, TakerNegotiated, TakerMakerPaymentRecv, At, TakerWaiting
  <2>3. QED
    BY Zenon, <2>1, <2>2, TakerMovesAlong DEF TakerEdge, TakerWaiting
<1>5. CASE TakerMakerPaymentReceived \/ TakerTakerPaymentSpent \/ TakerMakerPaymentSpent
           \/ TakerFundingRefundRequired \/ TakerPaymentRefundRequired
  <2>1. pc'["taker"] = "store"
    BY Zenon, <1>5, MovesEffect DEF TakerMakerPaymentReceived, TakerTakerPaymentSpent, TakerMakerPaymentSpent,
       TakerFundingRefundRequired, TakerPaymentRefundRequired, ChangeState, FailsTo
  <2>2. st["taker"] \notin TakerWaiting
    BY Zenon, <1>5 DEF TakerMakerPaymentReceived, TakerTakerPaymentSpent, TakerMakerPaymentSpent,
       TakerFundingRefundRequired, TakerPaymentRefundRequired, At, TakerWaiting
  <2>3. QED
    BY <2>1, <2>2, TakerMovesAlong DEF TakerEdge, TakerWaiting
<1>6. QED
  BY Zenon, <1>1, <1>2, <1>3, <1>4, <1>5 DEF TakerOnChanged

(* When the maker payment comes to be spent, it is by a run of the state      *)
(* TakerPaymentSpent.                                                         *)
LEMMA ClaimMade ==
  ASSUME TypeOK, AtomicInv, [Next]_vars, makerPayment' = "spending"
  PROVE  \/ makerPayment = "spending" /\ makerSpendAt' = makerSpendAt
         \/ st["taker"] = "TakerPaymentSpent" /\ pc["taker"] = "run" /\ makerSpendAt' = now /\ now' = now
<1>1. CASE MakerOnChanged
  <2>1. makerPayment = "spending"
    BY Zenon, <1>1, MakerChainEffect DEF AtomicInv
  <2>2. CASE MakerTakerFundingReceived \/ MakerPaymentRefundRequired
    BY Zenon, <2>2 DEF MakerTakerFundingReceived, MakerPaymentRefundRequired, RefundMakerPayment, makerPayVars
  <2>3. CASE UNCHANGED makerPayVars
    BY Zenon, <2>1, <2>3 DEF makerPayVars
  <2>4. QED
    BY Zenon, <1>1, <2>1, <2>2, <2>3 DEF MakerOnChanged, MakerInitialize, MakerInitialized, MakerNegotiationRecv,
       MakerWaitingForTakerFunding, MakerFundingInfoRecv, MakerPaymentSentFundingSpendGenerated,
       MakerFundingSpendPoll, MakerTakerPaymentReceived, MakerSpendPreimageRecv,
       MakerTakerPaymentReceivedPreimageSkipped, MakerTakerPaymentSpent, chainVars
<1>2. CASE TakerOnChanged /\ UNCHANGED now
  <2>1. CASE TakerTakerPaymentSpent
    BY Zenon, <1>2, <2>1 DEF TakerTakerPaymentSpent, SpendMakerPayment, At, makerPayVars
  <2>2. CASE UNCHANGED makerPayVars
    BY Zenon, <2>2 DEF makerPayVars
  <2>3. QED
    BY Zenon, <1>2, <2>1, <2>2 DEF TakerOnChanged, TakerInitialize, TakerInitialized, TakerNegotiationRecv,
       TakerNegotiatedRecv, TakerNegotiated, TakerFundingSent, TakerMakerPaymentRecv, TakerMakerPaymentReceived,
       TakerPaymentSent, TakerPaymentSentPreimageSendingSkipped, TakerFindSpend, TakerMakerPaymentSpent,
       TakerFundingRefundRequired, TakerPaymentRefundRequired, chainVars
<1>3. CASE ChainStep
  BY Zenon, <1>3 DEF ChainStep, Mined
<1>4. CASE UNCHANGED chainVars
  BY Zenon, <1>4 DEF chainVars, makerPayVars
<1>5. QED
  BY Zenon, <1>1, <1>2, <1>3, <1>4 DEF Next, OnChanged, Runs, Stops, Tick, Done, vars

(* A process is back before the taker payment's lock time.  All the models    *)
(* that are checked have this bound; without it a taker may come back too     *)
(* late for its claim.                                                        *)
RestartsInTime == RestartBy <= LockDuration

(* The claim is made by the taker payment's lock time.                        *)
ClaimTimeInv ==
  /\ pc["taker"] = "poll" => st["taker"] \in TakerWaiting /\ until["taker"] = taker_payment_locktime
  /\ pc["taker"] \in {"recv", "ack"} => st["taker"] \in {"Initialized", "TakerFundingSent"}
  /\ \/ st["taker"] = "TakerPaymentSpent" /\ pc["taker"] # "failed"
     \/ next["taker"] = "TakerPaymentSpent"
     => now <= taker_payment_locktime
  /\ makerPayment = "spending" => makerSpendAt <= taker_payment_locktime /\ now <= makerSpendAt + SpendDelay

(* A process that is back in time is back by the lock time.                   *)
LEMMA BackInTime ==
  ASSUME RestartsInTime, TypeOK, NEW t \in Nat, t <= RestartBy
  PROVE  t <= taker_payment_locktime
<1>1. ASSUME NEW s \in Nat
      PROVE  t <= s + LockDuration
  BY MachineAssumption, ChainAssumption DEF RestartsInTime
<1>2. QED
  BY Zenon, <1>1 DEF TypeOK, ChainTypeOK, taker_payment_locktime

(* Every step keeps it.                                                       *)
LEMMA ClaimTimeStep ==
  ASSUME RestartsInTime, TypeOK, AtomicInv, EdgeInv, ClaimTimeInv, [Next]_vars
  PROVE  ClaimTimeInv'
<1>1. makerPayment' = "spending" => /\ makerSpendAt' <= taker_payment_locktime' /\ now' <= makerSpendAt' + SpendDelay
  <2> SUFFICES ASSUME makerPayment' = "spending"
               PROVE  makerSpendAt' <= taker_payment_locktime' /\ now' <= makerSpendAt' + SpendDelay
    BY Zenon
  <2>0. taker_payment_locktime' = taker_payment_locktime
    <3>1. SpendSeen(makerPayment) \/ st["taker"] = "TakerPaymentSpent"
      BY Zenon, ClaimMade DEF SpendSeen
    <3>2. SpendSeen(takerPayment)
      BY Zenon, <3>1 DEF AtomicInv, SecretInv
    <3>3. st["taker"] # "Initialize"
      BY Zenon, <3>2 DEF AtomicInv, ProgressInv, Agreed, SpendSeen
    <3>4. QED
      BY Zenon, <3>3, LockTimeFixed
  <2>1. CASE /\ st["taker"] = "TakerPaymentSpent" /\ pc["taker"] = "run" /\ makerSpendAt' = now /\ now' = now
    <3>1. now <= now + SpendDelay
      BY ChainAssumption DEF TypeOK, ChainTypeOK
    <3>2. QED
      BY Zenon, <2>0, <2>1, <3>1 DEF ClaimTimeInv
  <2>2. CASE makerPayment = "spending" /\ makerSpendAt' = makerSpendAt
    <3>1. CASE Tick
      <4>1. now' <= makerSpendAt + SpendDelay
        BY <2>2, <3>1, ChainAssumption DEF Tick, TypeOK, ChainTypeOK
      <4>2. QED
        BY Zenon, <2>0, <2>2, <4>1 DEF ClaimTimeInv
    <3>2. CASE ~Tick
      BY Zenon, <2>0, <2>2, <3>2 DEF ClaimTimeInv, Next, OnChanged, Runs, Stops, ChainStep, Done, vars
    <3>3. QED
      BY Zenon, <3>1, <3>2
  <2>3. QED
    BY Zenon, <2>1, <2>2, ClaimMade
<1>2. CASE MakerOnChanged /\ UNCHANGED now
  <2>1. /\ st' = st /\ next'["taker"] = next["taker"] /\ pc'["taker"] = pc["taker"] /\ until'["taker"] = until["taker"]
    BY Zenon, <1>2, MakerMovesAlong DEF AtomicInv
  <2>2. next["taker"] = "TakerPaymentSpent" => st["taker"] # "Initialize"
    BY Zenon DEF EdgeInv, TakerEdge
  <2>3. QED
    BY Zenon, <1>1, <1>2, <2>1, <2>2, LockTimeFixed DEF ClaimTimeInv, TakerWaiting
<1>3. CASE TakerOnChanged /\ UNCHANGED now
  <2>1. /\ st' = st /\ pc["taker"] \in {"run", "recv", "ack", "poll"}
        /\ next'["taker"] = "TakerPaymentSpent" => st["taker"] \in TakerWaiting
    BY Zenon, <1>3, TakerMovesAlong DEF AtomicInv, TakerEdge, TakerWaiting
  <2>2. /\ pc'["taker"] = "poll" => st["taker"] \in TakerWaiting /\ until'["taker"] = taker_payment_locktime
        /\ pc'["taker"] \in {"recv", "ack"} => st["taker"] \in {"Initialized", "TakerFundingSent"}
        /\ next'["taker"] = "TakerPaymentSpent" => now <= taker_payment_locktime
    BY Zenon, <1>3, TakerWaitsFor DEF AtomicInv, ClaimTimeInv, InTime
  <2>3. QED
    BY Zenon, <1>1, <1>3, <2>1, <2>2, LockTimeFixed DEF ClaimTimeInv, TakerWaiting
<1>4. ASSUME NEW r \in Role, Runs(r) \/ Stops(r)
      PROVE  ClaimTimeInv'
  <2>1. taker_payment_locktime' = taker_payment_locktime /\ now' = now
    BY Zenon, <1>4 DEF Runs, Stops, noteVars, taker_payment_locktime
  <2>2. CASE r = "maker"
    BY Zenon, <1>1, <1>4, <2>1, <2>2, RunsEffect DEF AtomicInv, ClaimTimeInv
  <2>3. CASE r = "taker"
    <3>1. pc'["taker"] \notin {"recv", "ack", "poll"} /\ next'["taker"] = "none"
      BY <1>4, <2>3, RunsEffect, Zenon DEF AtomicInv
    <3>2. st'["taker"] = "TakerPaymentSpent" /\ pc'["taker"] # "failed" => now <= taker_payment_locktime
      <4>1. pc["taker"] = "down" \/ now < RestartBy => now <= taker_payment_locktime
        <5>1. now \in Nat /\ (now < RestartBy => now <= RestartBy)
          BY MachineAssumption DEF TypeOK, ChainTypeOK
        <5>2. QED
          BY Zenon, <5>1, BackInTime DEF EdgeInv
      <4>2. QED
        BY Zenon, <1>4, <2>3, <4>1, RunsMore DEF AtomicInv, RunStep, ClaimTimeInv, LastStates
    <3>3. QED
      BY Zenon, <1>1, <2>1, <3>1, <3>2 DEF ClaimTimeInv
  <2>4. QED
    BY Zenon, <2>2, <2>3
<1>5. CASE Tick
  <2>1. UNCHANGED <<st, pc, next, until>> /\ taker_payment_locktime' = taker_payment_locktime
    BY Zenon, <1>5 DEF Tick, machineVars, noteVars, taker_payment_locktime
  <2>2. next["taker"] = "none"
    BY Zenon, <1>5 DEF Tick, MustAct, AtomicInv, LogInv
  <2>3. ASSUME st["taker"] = "TakerPaymentSpent", pc["taker"] # "failed"
        PROVE  now' <= taker_payment_locktime
    <3>1. pc["taker"] = "down"
      BY Zenon, <1>5, <2>3 DEF Tick, MustAct, TakerMustAct, ClaimTimeInv, TakerWaiting, EdgeInv, LastStates, TypeOK,
         MachineTypeOK, Pc
    <3>2. now' <= RestartBy
      BY Zenon, <1>5, <2>1, <3>1, EdgeStep DEF AtomicInv, EdgeInv
    <3>3. now' \in Nat
      BY <1>5 DEF Tick, TypeOK, ChainTypeOK
    <3>4. QED
      BY Zenon, <3>2, <3>3, BackInTime
  <2>4. QED
    BY Zenon, <1>1, <2>1, <2>2, <2>3 DEF ClaimTimeInv
<1>6. CASE ChainStep \/ UNCHANGED vars
  <2>1. UNCHANGED <<st, pc, next, until, now>> /\ taker_payment_locktime' = taker_payment_locktime
    BY Zenon, <1>6 DEF ChainStep, vars, machineVars, noteVars, taker_payment_locktime
  <2>2. QED
    BY Zenon, <1>1, <2>1 DEF ClaimTimeInv
<1>7. QED
  BY Zenon, <1>2, <1>3, <1>4, <1>5, <1>6 DEF Next, OnChanged, Done

(* A claim of the maker payment is mined before its refund is valid.          *)
LEMMA ClaimMinedInTime ==
  ASSUME TypeOK, AtomicInv, ClaimTimeInv, makerPayment = "spending"
  PROVE  ~(now >= maker_payment_locktime)
<1>1. makerSpendAt <= taker_payment_locktime /\ now <= makerSpendAt + SpendDelay
  BY Zenon DEF ClaimTimeInv
<1>2. Agreed
  <2>1. SpendSeen(takerPayment)
    BY Zenon DEF AtomicInv, SecretInv, SpendSeen
  <2>2. QED
    BY Zenon, <2>1 DEF AtomicInv, ProgressInv, SpendSeen
<1>3. SpendDelay < LockDuration
  BY MarginAssumption, ChainAssumption
<1>4. ASSUME NEW t \in Nat, NEW s \in Nat, NEW m \in Nat, s <= m + LockDuration, t <= s + SpendDelay
      PROVE  ~(t >= m + 2 * LockDuration)
  BY <1>3, <1>4, ChainAssumption
<1>5. QED
  BY Zenon, <1>1, <1>2, <1>4 DEF Agreed, taker_payment_locktime, maker_payment_locktime, TypeOK, ChainTypeOK

(* What is claimed stays claimed.                                             *)
LEMMA ClaimsStay ==
  ASSUME TypeOK, AtomicInv, ClaimTimeInv, [Next]_vars
  PROVE  /\ SpendSeen(takerPayment) => SpendSeen(takerPayment')
         /\ SpendSeen(makerPayment) => SpendSeen(makerPayment')
<1>1. CASE MakerOnChanged
  <2>1. st["maker"] = "TakerFundingReceived" => ~SpendSeen(makerPayment)
    BY Zenon DEF AtomicInv, SecretInv, ProgressInv, MakerMayHaveSpent
  <2>2. makerPayment = "spending" => ~(now >= maker_payment_locktime)
    BY Zenon, ClaimMinedInTime
  <2>3. QED
    BY Zenon, <1>1, <2>1, <2>2, MakerChainEffect DEF AtomicInv, SpendSeen, takerPayVars
<1>2. CASE TakerOnChanged
  <2>1. Unspent(funding) => takerPayment = "none"
    BY Zenon DEF AtomicInv, ProgressInv, Unspent
  <2>2. takerPayment = "spending" => ~(now >= taker_payment_locktime)
    BY Zenon, SpendMinedInTime
  <2>3. QED
    BY Zenon, <1>2, <2>1, <2>2, TakerChainEffect DEF SpendSeen, takerPayVars
<1>3. CASE ChainStep
  BY Zenon, <1>3 DEF ChainStep, Mined, SpendSeen
<1>4. CASE UNCHANGED chainVars
  BY Zenon, <1>4 DEF chainVars, makerPayVars, takerPayVars
<1>5. QED
  BY Zenon, <1>1, <1>2, <1>3, <1>4 DEF Next, OnChanged, Runs, Stops, Tick, Done, vars

(* The event of a claim is stored after the claim.                            *)
ClaimedInv == \A r \in Role : ClaimEvent(r) \in {st[r], next[r]} => Claimed(r)

LEMMA ClaimedStep ==
  ASSUME TypeOK, AtomicInv, ClaimTimeInv, ClaimedInv, [Next]_vars
  PROVE  ClaimedInv'
<1>1. \A r \in Role : Claimed(r) => Claimed(r)'
  BY Zenon, ClaimsStay DEF Claimed
<1>2. CASE MakerOnChanged
  <2>1. next'["maker"] = "TakerPaymentSpent" => SpendSeen(takerPayment')
    <3>1. CASE MakerSpendPreimageRecv \/ MakerTakerPaymentReceivedPreimageSkipped
      <4>1. next'["maker"] = "MakerPaymentRefundRequired" \/ SpendSeen(takerPayment')
        BY Zenon, <3>1, MovesEffect DEF MakerSpendPreimageRecv, MakerTakerPaymentReceivedPreimageSkipped, MakerSpends,
           SpendTakerPayment, ChangeState, FailsTo, SpendSeen, takerPayVars
      <4>2. QED
        BY Zenon, <4>1
    <3>2. CASE MakerTakerPaymentReceived
      <4>1. next["maker"] = "none"
        BY Zenon, <1>2, MakerMovesAlong DEF AtomicInv
      <4>2. next'["maker"] \in {"none", "MakerPaymentRefundRequired"}
        BY Zenon, <3>2, <4>1, MovesEffect, WaitsEffect DEF MakerTakerPaymentReceived, ChangeState, FailsTo
      <4>3. QED
        BY Zenon, <4>2
    <3>3. CASE ~(MakerTakerPaymentReceived \/ MakerSpendPreimageRecv \/ MakerTakerPaymentReceivedPreimageSkipped)
      <4>1. st["maker"] \notin {"TakerPaymentReceived", "TakerPaymentReceivedPreimageSkipped"}
        BY Zenon, <1>2, <3>3 DEF MakerOnChanged, At, MakerInitialize, MakerInitialized, MakerNegotiationRecv,
           MakerWaitingForTakerFunding, MakerFundingInfoRecv, MakerTakerFundingReceived,
           MakerPaymentSentFundingSpendGenerated, MakerFundingSpendPoll, MakerTakerPaymentSpent,
           MakerPaymentRefundRequired
      <4>2. QED
        BY Zenon, <1>2, <4>1, MakerMovesAlong DEF AtomicInv, MakerEdge
    <3>4. QED
      BY Zenon, <3>1, <3>2, <3>3
  <2>2. QED
    BY Zenon, <1>1, <1>2, <2>1, MakerMovesAlong DEF AtomicInv, ClaimedInv, Claimed, ClaimEvent
<1>3. CASE TakerOnChanged
  <2>1. next'["taker"] = "MakerPaymentSpent" => SpendSeen(makerPayment')
    <3>1. CASE TakerTakerPaymentSpent
      <4>1. next'["taker"] = "Aborted" \/ SpendSeen(makerPayment')
        BY ZenonT(40), <3>1, MovesEffect DEF TakerTakerPaymentSpent, SpendMakerPayment, ChangeState, FailsTo, SpendSeen, makerPayVars
      <4>2. QED
        BY Zenon, <4>1
    <3>2. CASE ~TakerTakerPaymentSpent
      <4>1. st["taker"] # "TakerPaymentSpent"
        BY Zenon, <1>3, <3>2 DEF TakerOnChanged, At, TakerInitialize, TakerInitialized, TakerNegotiationRecv,
           TakerNegotiatedRecv, TakerNegotiated, TakerFundingSent, TakerMakerPaymentRecv, TakerMakerPaymentReceived,
           TakerPaymentSent, TakerPaymentSentPreimageSendingSkipped, TakerFindSpend, TakerMakerPaymentSpent,
           TakerFundingRefundRequired, TakerPaymentRefundRequired
      <4>2. QED
        BY Zenon, <1>3, <4>1, TakerMovesAlong DEF AtomicInv, TakerEdge
    <3>3. QED
      BY Zenon, <3>1, <3>2
  <2>2. QED
    BY Zenon, <1>1, <1>3, <2>1, TakerMovesAlong DEF AtomicInv, ClaimedInv, Claimed, ClaimEvent
<1>4. ASSUME NEW r \in Role, Runs(r) \/ Stops(r)
      PROVE  ClaimedInv'
  <2>1. \A q \in Role : {st'[q], next'[q]} \subseteq {st[q], next[q], "none"}
    BY Zenon, <1>4, RunsEffect DEF AtomicInv
  <2>2. QED
    BY Zenon, <1>1, <2>1 DEF ClaimedInv, ClaimEvent
<1>5. CASE UNCHANGED machineVars
  BY Zenon, <1>1, <1>5 DEF ClaimedInv, machineVars
<1>6. QED
  BY Zenon, <1>2, <1>3, <1>4, <1>5 DEF Next, OnChanged, ChainStep, Tick, Done, vars

-----------------------------------------------------------------------------
(* The reservations.                                                          *)

(* What ReservationsFollowLog says of a role, by the state that runs.         *)
ReservedInv ==
  \A r \in Role :
    /\ Running(r) /\ st[r] \notin LastStates =>
         /\ "volume" \in reserved[r] <=> st[r] \in UncommittedEvents(r)
         /\ st[r] # "Initialize" /\ "headroom" \notin reserved[r] => Claimed(r)
    /\ pc[r] \in {"end", "lost", "down"} => reserved[r] = {}

(* on_event moves the reservations of the maker along its edges.              *)
LEMMA MakerReserves ==
  ASSUME NEW from, NEW to, MakerEdge(from, to), to \notin LastStates, NEW held,
         "volume" \in held <=> from \in UncommittedEvents("maker")
  PROVE  /\ from \notin LastStates
         /\ "volume" \in OnEvent("maker", to, held) <=> to \in UncommittedEvents("maker")
         /\ "headroom" \notin OnEvent("maker", to, held)
              => to = ClaimEvent("maker") \/ (from # "Initialize" /\ "headroom" \notin held)
<1>1. /\ from \notin LastStates
      /\ from = "Initialize" <=> to = "Initialized"
      /\ to \in UncommittedEvents("maker") <=> to = "Initialized" \/ (from \in UncommittedEvents("maker") /\ to # "MakerPaymentSentFundingSpendGenerated")
  BY Zenon DEF MakerEdge, UncommittedEvents, LastStates
<1>2. CASE to = "Initialized"
  BY Zenon, <1>1, <1>2 DEF OnEvent
<1>3. CASE to = "MakerPaymentSentFundingSpendGenerated"
  BY Zenon, <1>1, <1>3 DEF OnEvent
<1>4. CASE to = "TakerPaymentSpent"
  BY Zenon, <1>1, <1>4 DEF OnEvent, ClaimEvent
<1>5. CASE to \notin {"Initialized", "MakerPaymentSentFundingSpendGenerated", "TakerPaymentSpent"}
  BY Zenon, <1>1, <1>5 DEF OnEvent
<1>6. QED
  BY Zenon, <1>2, <1>3, <1>4, <1>5

(* And those of the taker.                                                    *)
LEMMA TakerReserves ==
  ASSUME NEW from, NEW to, TakerEdge(from, to), to \notin LastStates, NEW held,
         "volume" \in held <=> from \in UncommittedEvents("taker")
  PROVE  /\ from \notin LastStates
         /\ "volume" \in OnEvent("taker", to, held) <=> to \in UncommittedEvents("taker")
         /\ "headroom" \notin OnEvent("taker", to, held)
              => to = ClaimEvent("taker") \/ (from # "Initialize" /\ "headroom" \notin held)
<1>1. /\ from \notin LastStates
      /\ from = "Initialize" <=> to = "Initialized"
      /\ to \in UncommittedEvents("taker") <=> to = "Initialized" \/ (from \in UncommittedEvents("taker") /\ to # "TakerFundingSent")
  BY Zenon DEF TakerEdge, UncommittedEvents, LastStates
<1>2. CASE to = "Initialized"
  BY Zenon, <1>1, <1>2 DEF OnEvent
<1>3. CASE to = "TakerFundingSent"
  BY Zenon, <1>1, <1>3 DEF OnEvent
<1>4. CASE to = "MakerPaymentSpent"
  BY Zenon, <1>1, <1>4 DEF OnEvent, ClaimEvent
<1>5. CASE to \notin {"Initialized", "TakerFundingSent", "MakerPaymentSpent"}
  BY Zenon, <1>1, <1>5 DEF OnEvent
<1>6. QED
  BY Zenon, <1>2, <1>3, <1>4, <1>5

LEMMA ReservedStep ==
  ASSUME TypeOK, AtomicInv, EdgeInv, ClaimTimeInv, ClaimedInv, ReservedInv, [Next]_vars
  PROVE  ReservedInv'
<1>1. \A r \in Role : Claimed(r) => Claimed(r)'
  BY Zenon, ClaimsStay DEF Claimed
<1>2. CASE MakerOnChanged
  <2>1. /\ st' = st /\ reserved' = reserved /\ pc'["taker"] = pc["taker"]
        /\ Running("maker") /\ pc'["maker"] \notin {"end", "lost", "down"}
    BY Zenon, <1>2, MakerMovesAlong DEF AtomicInv, Running
  <2>2. QED
    BY Zenon, <1>1, <2>1 DEF ReservedInv, Running
<1>3. CASE TakerOnChanged
  <2>1. /\ st' = st /\ reserved' = reserved /\ pc'["maker"] = pc["maker"]
        /\ Running("taker") /\ pc'["taker"] \notin {"end", "lost", "down"}
    BY Zenon, <1>3, TakerMovesAlong DEF AtomicInv, Running
  <2>2. QED
    BY Zenon, <1>1, <2>1 DEF ReservedInv, Running
<1>4. ASSUME NEW r \in Role, Runs(r) \/ Stops(r)
      PROVE  ReservedInv'
  <2>1. /\ \A q \in Role : q # r => st'[q] = st[q] /\ pc'[q] = pc[q] /\ reserved'[q] = reserved[q]
        /\ RunStep(r)
    BY Zenon, <1>4, RunsEffect, RunsMore DEF AtomicInv
  <2>2. pc'[r] \in {"end", "lost", "down"} => reserved'[r] = {}
    BY Zenon, <2>1 DEF RunStep, ReservedInv
  <2>3. ASSUME Running(r)', st'[r] \notin LastStates
        PROVE  /\ "volume" \in reserved'[r] <=> st'[r] \in UncommittedEvents(r)
               /\ st'[r] # "Initialize" /\ "headroom" \notin reserved'[r] => Claimed(r)'
    <3>1. CASE /\ pc[r] = "store" /\ st'[r] = next[r]
               /\ reserved'[r] = OnEvent(r, next[r], reserved[r])
      <4>1. next[r] # "none" /\ Running(r)
        BY Zenon, <3>1 DEF AtomicInv, LogInv, Running
      <4>2. CASE r = "maker"
        <5>1. MakerEdge(st["maker"], next["maker"]) /\ next["maker"] \notin LastStates
          BY Zenon, <2>3, <3>1, <4>1, <4>2 DEF EdgeInv
        <5>2. st["maker"] \notin LastStates
          BY Zenon, <5>1 DEF MakerEdge, LastStates
        <5>3. "volume" \in reserved["maker"] <=> st["maker"] \in UncommittedEvents("maker")
          BY <4>1, <4>2, <5>2, Zenon DEF ReservedInv
        <5>4. /\ "volume" \in OnEvent("maker", next["maker"], reserved["maker"]) <=> next["maker"] \in UncommittedEvents("maker")
              /\ "headroom" \notin OnEvent("maker", next["maker"], reserved["maker"])
                   => next["maker"] = ClaimEvent("maker") \/ (st["maker"] # "Initialize" /\ "headroom" \notin reserved["maker"])
          BY Zenon, <5>1, <5>3, MakerReserves
        <5>5. st'["maker"] = next["maker"] /\ reserved'["maker"] = OnEvent("maker", next["maker"], reserved["maker"])
          BY <3>1, <4>2, Zenon
        <5>6. next["maker"] = ClaimEvent("maker") => Claimed("maker")
          BY <4>2, Zenon DEF ClaimedInv
        <5>7. st["maker"] # "Initialize" /\ "headroom" \notin reserved["maker"] => Claimed("maker")
          BY <4>1, <4>2, <5>2, Zenon DEF ReservedInv
        <5>8. QED
          BY <1>1, <4>2, <5>4, <5>5, <5>6, <5>7, Zenon
      <4>3. CASE r = "taker"
        <5>1. TakerEdge(st["taker"], next["taker"]) /\ next["taker"] \notin LastStates
          BY Zenon, <2>3, <3>1, <4>1, <4>3 DEF EdgeInv
        <5>2. st["taker"] \notin LastStates
          BY Zenon, <5>1 DEF TakerEdge, LastStates
        <5>3. "volume" \in reserved["taker"] <=> st["taker"] \in UncommittedEvents("taker")
          BY <4>1, <4>3, <5>2, Zenon DEF ReservedInv
        <5>4. /\ "volume" \in OnEvent("taker", next["taker"], reserved["taker"]) <=> next["taker"] \in UncommittedEvents("taker")
              /\ "headroom" \notin OnEvent("taker", next["taker"], reserved["taker"])
                   => next["taker"] = ClaimEvent("taker") \/ (st["taker"] # "Initialize" /\ "headroom" \notin reserved["taker"])
          BY Zenon, <5>1, <5>3, TakerReserves
        <5>5. st'["taker"] = next["taker"] /\ reserved'["taker"] = OnEvent("taker", next["taker"], reserved["taker"])
          BY <3>1, <4>3, Zenon
        <5>6. next["taker"] = ClaimEvent("taker") => Claimed("taker")
          BY <4>3, Zenon DEF ClaimedInv
        <5>7. st["taker"] # "Initialize" /\ "headroom" \notin reserved["taker"] => Claimed("taker")
          BY <4>1, <4>3, <5>2, Zenon DEF ReservedInv
        <5>8. QED
          BY <1>1, <4>3, <5>4, <5>5, <5>6, <5>7, Zenon
      <4>4. QED
        BY Zenon, <4>2, <4>3
    <3>2. CASE st'[r] = st[r] /\ reserved'[r] = OnKickstartEvent(r, st[r])
      BY <1>1, <3>2, Zenon DEF OnKickstartEvent, ClaimedInv
    <3>3. QED
      BY <2>1, <2>3, <3>1, <3>2, ZenonT(40) DEF RunStep, Running
  <2>4. QED
    BY <1>1, <2>1, <2>2, <2>3, Zenon DEF ReservedInv, Running
<1>5. CASE UNCHANGED machineVars
  BY Zenon, <1>1, <1>5 DEF ReservedInv, Running, machineVars
<1>6. QED
  BY Zenon, <1>2, <1>3, <1>4, <1>5 DEF Next, OnChanged, ChainStep, Tick, Done, vars

(* The ledger of locked amounts follows the log, in the run that wrote it and *)
(* in one that resumed from it, whatever fails and wherever the processes     *)
(* stop, as long as they are back before the taker payment's lock time.       *)
THEOREM SwapV2Reservations == Spec => [](RestartsInTime => ReservationsFollowLog)
<1> DEFINE Inv == RestartsInTime => EdgeInv /\ ClaimTimeInv /\ ClaimedInv /\ ReservedInv
<1>1. Init => Inv
  <2> SUFFICES ASSUME Init PROVE EdgeInv /\ ClaimTimeInv /\ ClaimedInv /\ ReservedInv
    BY Zenon
  <2>1. EdgeInv /\ ClaimTimeInv
    BY Zenon DEF Init, ChainInit, MachineInit, EdgeInv, ClaimTimeInv
  <2>2. ClaimedInv /\ ReservedInv
    BY Zenon DEF Init, ChainInit, MachineInit, ClaimedInv, ClaimEvent, ReservedInv, UncommittedEvents
  <2>3. QED
    BY Zenon, <2>1, <2>2
<1>2. TypeOK /\ AtomicInv /\ Inv /\ [Next]_vars => Inv'
  BY Zenon, EdgeStep, ClaimTimeStep, ClaimedStep, ReservedStep DEF AtomicInv, RestartsInTime
<1>3. AtomicInv /\ Inv => (RestartsInTime => ReservationsFollowLog)
  BY Zenon DEF AtomicInv, LogInv, ReservedInv, ReservationsFollowLog, LastStates, UncommittedEvents
<1>4. QED
  BY <1>1, <1>2, <1>3, SwapV2Invariant, PTL DEF Spec

-----------------------------------------------------------------------------
(* What a faultless role leaves.                                              *)

MakerLocked ==
  {"MakerPaymentSentFundingSpendGenerated", "TakerPaymentReceived", "TakerPaymentReceivedPreimageSkipped",
   "MakerPaymentRefundRequired"}

TakerFunded == {"TakerFundingSent", "MakerPaymentAndFundingSpendPreimgReceived", "TakerFundingRefundRequired"}

TakerPaid == TakerWaiting \cup {"TakerPaymentRefundRequired"}

TakerClaims == TakerWaiting \cup {"TakerPaymentSpent"}

(* The role is in, or has yet to store that it enters, a group of states.     *)
Stays(r, states, entered) ==
  \/ next[r] \in entered
  \/ st[r] \in states /\ next[r] \in states \cup {"none"}

(* While a faultless role has something on the chains, it is in the states    *)
(* that look after it: a faultless maker whose payment is unpaid for, a       *)
(* faultless taker whose funding or payment is unspent, and one whose payment *)
(* was spent and who has not claimed yet; that one is in time, and a          *)
(* faultless taker turns to the refund when it is due, and not before.        *)
FaultlessMaker == faults["maker"] = {} /\ MakerLeaves =>
  Stays("maker", MakerLocked, {"MakerPaymentSentFundingSpendGenerated"})

FaultlessFunding == faults["taker"] = {} /\ Unspent(funding) => Stays("taker", TakerFunded, {"TakerFundingSent"})

FaultlessPayment == faults["taker"] = {} /\ Unspent(takerPayment) => Stays("taker", TakerPaid, TakerWaiting)

FaultlessRefund ==
  faults["taker"] = {} /\ "TakerPaymentRefundRequired" \in {st["taker"], next["taker"]} => now > taker_payment_locktime

FaultlessClaim ==
  faults["taker"] = {} /\ SpendSeen(takerPayment) /\ ~SpendSeen(makerPayment) =>
    Stays("taker", TakerClaims, TakerWaiting) /\ now <= taker_payment_locktime

FaultlessInv ==
  /\ \A r \in Role : faults[r] = {} => pc[r] # "failed"
  /\ FaultlessMaker
  /\ FaultlessFunding
  /\ FaultlessPayment
  /\ FaultlessRefund
  /\ FaultlessClaim

(* A failed call of the coin is a fault.                                      *)
LEMMA FailureIsFault ==
  ASSUME TypeOK, NEW r \in Role, NEW to, FailsTo(r, to)
  PROVE  faults'[r] # {}
  BY MovesMore DEF FailsTo

(* A step of the maker that is no fault.                                      *)
LEMMA MakerKeepsLocked ==
  ASSUME TypeOK, AtomicInv, FaultlessMaker, MakerOnChanged,
         next'["maker"] = "TakerPaymentSpent" => SpendSeen(takerPayment')
  PROVE  FaultlessMaker'
<1> SUFFICES ASSUME faults'["maker"] = {}, Unspent(makerPayment'), ~SpendSeen(takerPayment')
             PROVE  Stays("maker", MakerLocked, {"MakerPaymentSentFundingSpendGenerated"})'
  BY Zenon DEF FaultlessMaker, MakerLeaves
<1>1. /\ faults["maker"] = {} /\ next["maker"] = "none" /\ st' = st
      /\ next'["maker"] = "none" \/ MakerEdge(st["maker"], next'["maker"])
  BY Zenon, MakerMovesAlong DEF AtomicInv
<1>2. \A to : ~FailsTo("maker", to)
  BY Zenon, FailureIsFault
<1>3. CASE st["maker"] = "TakerFundingReceived"
  <2>1. MakerTakerFundingReceived
    BY Zenon, <1>3 DEF MakerOnChanged, At, MakerInitialize, MakerInitialized, MakerNegotiationRecv,
       MakerWaitingForTakerFunding, MakerFundingInfoRecv, MakerPaymentSentFundingSpendGenerated, MakerFundingSpendPoll,
       MakerTakerPaymentReceived, MakerSpendPreimageRecv, MakerTakerPaymentReceivedPreimageSkipped,
       MakerTakerPaymentSpent, MakerPaymentRefundRequired
  <2>2. next'["maker"] = "MakerPaymentSentFundingSpendGenerated"
    BY Zenon, <1>2, <2>1, MovesEffect DEF MakerTakerFundingReceived, ChangeState
  <2>3. QED
    BY Zenon, <2>2 DEF Stays
<1>4. CASE st["maker"] = "MakerPaymentRefundRequired"
  <2>1. MakerPaymentRefundRequired
    BY Zenon, <1>4 DEF MakerOnChanged, At, MakerInitialize, MakerInitialized, MakerNegotiationRecv,
       MakerWaitingForTakerFunding, MakerFundingInfoRecv, MakerTakerFundingReceived,
       MakerPaymentSentFundingSpendGenerated, MakerFundingSpendPoll, MakerTakerPaymentReceived,
       MakerSpendPreimageRecv, MakerTakerPaymentReceivedPreimageSkipped, MakerTakerPaymentSpent
  <2>2. QED
    BY Zenon, <1>2, <2>1 DEF MakerPaymentRefundRequired, RefundMakerPayment, Unspent, makerPayVars
<1>5. CASE st["maker"] \in MakerLocked \ {"MakerPaymentRefundRequired"}
  BY Zenon, <1>1, <1>5 DEF MakerEdge, MakerLocked, Stays
<1>6. CASE st["maker"] \notin MakerLocked \cup {"TakerFundingReceived"}
  <2>1. UNCHANGED <<makerPayment, takerPayment>>
    BY ZenonT(40), <1>6, MakerChainEffect DEF AtomicInv, MakerLocked, takerPayVars
  <2>2. QED
    BY Zenon, <1>1, <1>6, <2>1 DEF FaultlessMaker, MakerLeaves, Stays
<1>7. QED
  BY Zenon, <1>3, <1>4, <1>5, <1>6

(* A step of the runtime that is no fault.                                    *)
LEMMA RunsStays ==
  ASSUME TypeOK, LogInv, NEW r \in Role, Runs(r) \/ Stops(r), faults'[r] = {},
         NEW states, NEW entered, entered \subseteq states, entered \subseteq SentStates(r), Stays(r, states, entered)
  PROVE  Stays(r, states, entered)'
<1>1. next'[r] = "none" /\ (next[r] # "none" <=> pc[r] = "store")
  BY RunsEffect, ZenonT(40) DEF LogInv
<1>2. RunStep(r)
  BY RunsMore, Zenon
<1>3. QED
  BY Zenon, <1>1, <1>2 DEF RunStep, Stays

(* Which handler of the taker runs, by its state.                             *)
LEMMA TakerRunsState ==
  ASSUME TakerOnChanged
  PROVE  /\ st["taker"] = "Negotiated" => TakerNegotiated
         /\ st["taker"] = "MakerPaymentAndFundingSpendPreimgReceived" => TakerMakerPaymentReceived
         /\ st["taker"] \in TakerWaiting => TakerPaymentSent \/ TakerPaymentSentPreimageSendingSkipped \/ TakerFindSpend
         /\ st["taker"] = "TakerPaymentSpent" => TakerTakerPaymentSpent
         /\ st["taker"] = "MakerPaymentSpent" => TakerMakerPaymentSpent
         /\ st["taker"] = "TakerFundingRefundRequired" => TakerFundingRefundRequired
         /\ st["taker"] = "TakerPaymentRefundRequired" => TakerPaymentRefundRequired
<1>1. CASE TakerInitialize \/ TakerInitialized \/ TakerNegotiationRecv \/ TakerNegotiatedRecv \/ TakerNegotiated
  BY Zenon, <1>1 DEF TakerInitialize, TakerInitialized, TakerNegotiationRecv, TakerNegotiatedRecv, TakerNegotiated, At,
     TakerWaiting
<1>2. CASE TakerFundingSent \/ TakerMakerPaymentRecv \/ TakerMakerPaymentReceived \/ TakerPaymentSent
           \/ TakerPaymentSentPreimageSendingSkipped
  BY Zenon, <1>2 DEF TakerFundingSent, TakerMakerPaymentRecv, TakerMakerPaymentReceived, TakerPaymentSent,
     TakerPaymentSentPreimageSendingSkipped, At, TakerWaiting
<1>3. CASE TakerFindSpend \/ TakerTakerPaymentSpent \/ TakerMakerPaymentSpent \/ TakerFundingRefundRequired
           \/ TakerPaymentRefundRequired
  BY Zenon, <1>3 DEF TakerFindSpend, TakerTakerPaymentSpent, TakerMakerPaymentSpent, TakerFundingRefundRequired,
     TakerPaymentRefundRequired, At, TakerWaiting
<1>4. QED
  BY Zenon, <1>1, <1>2, <1>3 DEF TakerOnChanged

(* A step of the taker that is no fault.                                      *)
LEMMA TakerKeepsLocked ==
  ASSUME TypeOK, AtomicInv, ClaimTimeInv, FaultlessInv, TakerOnChanged, UNCHANGED now,
         taker_payment_locktime' = taker_payment_locktime,
         SpendSeen(makerPayment) => SpendSeen(makerPayment'),
         next'["taker"] = "TakerPaymentSpent" => SpendSeen(takerPayment'),
         next'["taker"] = "MakerPaymentSpent" => SpendSeen(makerPayment')
  PROVE  FaultlessFunding' /\ FaultlessPayment' /\ FaultlessRefund' /\ FaultlessClaim'
<1> SUFFICES ASSUME faults'["taker"] = {}
             PROVE  FaultlessFunding' /\ FaultlessPayment' /\ FaultlessRefund' /\ FaultlessClaim'
  BY Zenon DEF FaultlessFunding, FaultlessPayment, FaultlessRefund, FaultlessClaim
<1>1. /\ faults["taker"] = {} /\ next["taker"] = "none" /\ st' = st
      /\ next'["taker"] = "none" \/ TakerEdge(st["taker"], next'["taker"])
  BY ZenonT(40), TakerMovesAlong DEF AtomicInv
<1>2. \A to : ~FailsTo("taker", to)
  BY Zenon, FailureIsFault
<1>3. FaultlessFunding'
  <2> SUFFICES ASSUME Unspent(funding')
               PROVE  Stays("taker", TakerFunded, {"TakerFundingSent"})'
    BY Zenon DEF FaultlessFunding
  <2>1. CASE st["taker"] = "Negotiated"
    <3>1. next'["taker"] = "TakerFundingSent"
      BY Zenon, <1>2, <2>1, TakerRunsState, MovesEffect DEF TakerNegotiated, ChangeState
    <3>2. QED
      BY Zenon, <3>1 DEF Stays
  <2>2. CASE st["taker"] = "TakerFundingSent"
    BY Zenon, <1>1, <2>2 DEF TakerEdge, TakerFunded, Stays
  <2>3. CASE st["taker"] = "MakerPaymentAndFundingSpendPreimgReceived"
    <3>1. next'["taker"] = "TakerFundingRefundRequired" \/ funding' = "transferred"
      BY Zenon, <1>2, <2>3, TakerRunsState, MovesEffect DEF TakerMakerPaymentReceived, SpendFunding, fundingVars, ChangeState
    <3>2. QED
      BY Zenon, <1>1, <2>3, <3>1 DEF TakerFunded, Stays, Unspent
  <2>4. CASE st["taker"] = "TakerFundingRefundRequired"
    BY ZenonT(40), <1>2, <2>4, TakerRunsState DEF TakerFundingRefundRequired, ReclaimFunding, Unspent, fundingVars
  <2>5. CASE st["taker"] \notin TakerFunded \cup {"Negotiated"}
    <3>1. funding' = funding
      BY Zenon, <2>5, TakerChainEffect DEF Unspent, TakerFunded
    <3>2. QED
      BY <1>1, <2>5, <3>1, Zenon DEF FaultlessInv, FaultlessFunding, Stays
  <2>6. QED
    BY Zenon, <2>1, <2>2, <2>3, <2>4, <2>5 DEF TakerFunded
<1>4. FaultlessPayment'
  <2> SUFFICES ASSUME Unspent(takerPayment')
               PROVE  Stays("taker", TakerPaid, TakerWaiting)'
    BY Zenon DEF FaultlessPayment
  <2>1. CASE st["taker"] \in TakerWaiting
    <3>1. next'["taker"] # "TakerPaymentSpent"
      BY Zenon DEF Unspent, SpendSeen
    <3>2. QED
      BY Zenon, <1>1, <2>1, <3>1 DEF TakerEdge, TakerPaid, TakerWaiting, Stays
  <2>2. CASE st["taker"] = "TakerPaymentRefundRequired"
    BY Zenon, <1>2, <2>2, TakerRunsState DEF TakerPaymentRefundRequired, RefundTakerPayment, Unspent, takerPayVars
  <2>3. CASE st["taker"] \notin TakerPaid
    <3>1. next'["taker"] \in TakerWaiting \/ takerPayment' = takerPayment
      <4>1. CASE st["taker"] = "MakerPaymentAndFundingSpendPreimgReceived"
        BY Zenon, <1>2, <4>1, TakerRunsState, MovesEffect DEF TakerMakerPaymentReceived, takerPayVars, ChangeState, TakerWaiting
      <4>2. CASE st["taker"] # "MakerPaymentAndFundingSpendPreimgReceived"
        BY Zenon, <2>3, <4>2, TakerChainEffect DEF takerPayVars, TakerPaid
      <4>3. QED
        BY Zenon, <4>1, <4>2
    <3>2. CASE takerPayment' = takerPayment
      BY Zenon, <1>1, <2>3, <3>2 DEF FaultlessInv, FaultlessPayment, Stays, TakerWaiting
    <3>3. QED
      BY Zenon, <3>1, <3>2 DEF Stays
  <2>4. QED
    BY Zenon, <2>1, <2>2, <2>3 DEF TakerPaid
<1>5. next'["taker"] = "TakerPaymentRefundRequired" => now > taker_payment_locktime
  <2> SUFFICES ASSUME next'["taker"] = "TakerPaymentRefundRequired"
               PROVE  now > taker_payment_locktime
    BY Zenon
  <2>1. CASE st["taker"] = "MakerPaymentSpent"
    <3>1. next'["taker"] = "Completed" \/ now > taker_payment_locktime
      BY Zenon, <1>2, <2>1, TakerRunsState, MovesEffect DEF TakerMakerPaymentSpent, ChangeState
    <3>2. QED
      BY Zenon, <3>1
  <2>2. CASE st["taker"] \in TakerWaiting
    <3>1. pc["taker"] = "poll" /\ ~InTime("taker")
      <4>1. ~TakerPaymentSent /\ ~TakerPaymentSentPreimageSendingSkipped
        BY Zenon, <1>1, <1>2, WaitsEffect DEF TakerPaymentSent, TakerPaymentSentPreimageSendingSkipped
      <4>2. next'["taker"] = "TakerPaymentSpent" \/ ~InTime("taker")
        BY Zenon, <2>2, <4>1, TakerRunsState, MovesEffect DEF TakerFindSpend, ChangeState
      <4>3. pc["taker"] = "poll"
        BY Zenon, <2>2, <4>1, TakerRunsState DEF TakerFindSpend, At
      <4>4. QED
        BY Zenon, <4>2, <4>3
    <3>2. ~(now <= taker_payment_locktime)
      BY Zenon, <3>1 DEF ClaimTimeInv, InTime
    <3>3. QED
      BY <3>2, ChainAssumption DEF TypeOK, ChainTypeOK, taker_payment_locktime
  <2>3. QED
    BY Zenon, <1>1, <2>1, <2>2 DEF TakerEdge, TakerWaiting
<1>6. FaultlessRefund'
  BY Zenon, <1>1, <1>5 DEF FaultlessInv, FaultlessRefund
<1>7. FaultlessClaim'
  <2> SUFFICES ASSUME SpendSeen(takerPayment'), ~SpendSeen(makerPayment')
               PROVE  Stays("taker", TakerClaims, TakerWaiting)' /\ now <= taker_payment_locktime
    BY Zenon DEF FaultlessClaim
  <2>1. SpendSeen(takerPayment)
    BY Zenon, TakerChainEffect DEF SpendSeen, takerPayVars
  <2>2. /\ st["taker"] \in TakerClaims /\ now <= taker_payment_locktime
    BY Zenon, <1>1, <2>1 DEF FaultlessInv, FaultlessClaim, Stays, TakerWaiting
  <2>3. CASE st["taker"] \in TakerWaiting
    <3>1. ~(now > taker_payment_locktime)
      <4>1. now \in Nat /\ taker_payment_locktime \in Nat
        BY ChainAssumption DEF TypeOK, ChainTypeOK, taker_payment_locktime
      <4>2. QED
        BY ONLY <2>2, <4>1
    <3>2. QED
      BY Zenon, <1>1, <1>5, <2>2, <2>3, <3>1 DEF TakerEdge, TakerClaims, TakerWaiting, Stays
  <2>4. CASE st["taker"] = "TakerPaymentSpent"
    <3>1. makerPayment # "none" /\ Agreed
      BY Zenon, <2>1 DEF AtomicInv, ProgressInv, SpendSeen
    <3>2. ~(now >= maker_payment_locktime)
      <4>1. ASSUME NEW t \in Nat, NEW m \in Nat, t <= m + LockDuration
            PROVE  ~(t >= m + 2 * LockDuration)
        BY <4>1, ChainAssumption
      <4>2. QED
        BY Zenon, <2>2, <3>1, <4>1 DEF TypeOK, ChainTypeOK, taker_payment_locktime, maker_payment_locktime, Agreed
    <3>3. Unspent(makerPayment)
      BY Zenon, <3>1, <3>2 DEF AtomicInv, ProgressInv, TypeOK, ChainTypeOK, PayState, Unspent, SpendSeen
    <3>4. next'["taker"] = "MakerPaymentSpent"
      BY Zenon, <1>2, <2>4, <3>3, TakerRunsState, MovesEffect DEF TakerTakerPaymentSpent, ChangeState
    <3>5. QED
      BY Zenon, <3>4
  <2>5. QED
    BY Zenon, <2>2, <2>3, <2>4 DEF TakerClaims
<1>8. QED
  BY Zenon, <1>3, <1>4, <1>6, <1>7

(* Every step keeps the faultless roles in charge of what they have.          *)
LEMMA FaultlessStep ==
  ASSUME RestartsInTime, TypeOK, AtomicInv, EdgeInv, ClaimTimeInv, ClaimedInv, FaultlessInv, [Next]_vars
  PROVE  FaultlessInv'
<1>1. /\ SpendSeen(takerPayment) => SpendSeen(takerPayment')
      /\ SpendSeen(makerPayment) => SpendSeen(makerPayment')
  BY Zenon, ClaimsStay
<1>2. /\ next'["maker"] = "TakerPaymentSpent" => SpendSeen(takerPayment')
      /\ next'["taker"] = "MakerPaymentSpent" => SpendSeen(makerPayment')
  BY Zenon, ClaimedStep DEF ClaimedInv, Claimed, ClaimEvent
<1>3. CASE MakerOnChanged /\ UNCHANGED now
  <2>1. /\ UNCHANGED st /\ pc'["maker"] # "failed" /\ pc'["taker"] = pc["taker"] /\ next'["taker"] = next["taker"]
        /\ faults'["taker"] = faults["taker"]
    BY Zenon, <1>3, MakerMovesAlong DEF AtomicInv
  <2>2. FaultlessMaker'
    BY Zenon, <1>2, <1>3, MakerKeepsLocked DEF FaultlessInv
  <2>3. funding' = funding
    BY Zenon, <1>3, MakerChainEffect DEF AtomicInv, fundingVars
  <2>4. CASE takerPayment' = takerPayment
    <3>1. FaultlessFunding' /\ FaultlessPayment'
      BY Zenon, <2>1, <2>3, <2>4 DEF FaultlessInv, FaultlessFunding, FaultlessPayment, Stays
    <3>2. FaultlessRefund'
      <4>1. "TakerPaymentRefundRequired" \in {st["taker"], next["taker"]} => st["taker"] # "Initialize"
        BY Zenon DEF EdgeInv, TakerEdge
      <4>2. QED
        BY Zenon, <1>3, <2>1, <4>1, LockTimeFixed DEF FaultlessInv, FaultlessRefund
    <3>3. FaultlessClaim'
      <4>1. SpendSeen(takerPayment) => st["taker"] # "Initialize"
        BY Zenon DEF AtomicInv, ProgressInv, Agreed, SpendSeen
      <4>2. QED
        BY <1>1, <1>3, <2>1, <2>4, <4>1, LockTimeFixed, Zenon DEF FaultlessInv, FaultlessClaim, Stays
    <3>4. QED
      BY Zenon, <2>1, <2>2, <3>1, <3>2, <3>3 DEF FaultlessInv
  <2>5. CASE /\ now <= taker_payment_conf_timeout + RecvWait
             /\ takerPayment = "confirmed" /\ takerPayment' = "spending"
    <3>1. Agreed
      BY Zenon, <2>5 DEF AtomicInv, ProgressInv
    <3>2. taker_payment_locktime' = taker_payment_locktime
      BY Zenon, <3>1, LockTimeFixed DEF Agreed
    <3>3. now <= taker_payment_locktime /\ ~(now > taker_payment_locktime)
      <4>1. ASSUME NEW t \in Nat, NEW c \in Nat, NEW s \in Nat, t <= c + RecvWait, c + RecvWait + SpendDelay < s
            PROVE  t <= s /\ ~(t > s)
        BY <4>1, ChainAssumption
      <4>2. now \in Nat /\ taker_payment_conf_timeout \in Nat /\ taker_payment_locktime \in Nat
        BY ChainAssumption DEF TypeOK, ChainTypeOK, taker_payment_conf_timeout, taker_payment_locktime
      <4>3. QED
        BY Zenon, <2>5, <3>1, <4>1, <4>2, Margins
    <3>4. FaultlessFunding' /\ FaultlessPayment'
      BY Zenon, <2>1, <2>3, <2>5 DEF FaultlessInv, FaultlessFunding, FaultlessPayment, Stays, Unspent
    <3>5. FaultlessRefund'
      BY Zenon, <1>3, <2>1, <3>2 DEF FaultlessInv, FaultlessRefund
    <3>6. FaultlessClaim'
      BY Zenon, <1>3, <2>1, <2>5, <3>2, <3>3 DEF FaultlessInv, FaultlessRefund, FaultlessPayment, FaultlessClaim, Stays, Unspent,
         TakerPaid, TakerClaims
    <3>7. QED
      BY Zenon, <2>1, <2>2, <3>4, <3>5, <3>6 DEF FaultlessInv
  <2>6. QED
    BY Zenon, <1>3, <2>4, <2>5, MakerChainEffect DEF AtomicInv, takerPayVars
<1>4. CASE TakerOnChanged /\ UNCHANGED now
  <2>1. /\ UNCHANGED st /\ pc'["taker"] # "failed" /\ pc'["maker"] = pc["maker"] /\ next'["maker"] = next["maker"]
        /\ faults'["maker"] = faults["maker"]
    BY Zenon, <1>4, TakerMovesAlong DEF AtomicInv
  <2>2. FaultlessMaker'
    <3>1. Unspent(makerPayment') => Unspent(makerPayment)
      BY ZenonT(40), <1>4, TakerChainEffect DEF Unspent
    <3>2. QED
      BY Zenon, <1>1, <2>1, <3>1 DEF FaultlessInv, FaultlessMaker, MakerLeaves, Stays
  <2>3. CASE st["taker"] # "Initialize"
    <3>1. next'["taker"] = "TakerPaymentSpent" => SpendSeen(takerPayment')
      BY Zenon, <1>1, <1>4, TakerEdges DEF AtomicInv
    <3>2. QED
      BY <1>1, <1>2, <1>4, <2>1, <2>2, <2>3, <3>1, LockTimeFixed, TakerKeepsLocked, Zenon DEF FaultlessInv
  <2>4. CASE st["taker"] = "Initialize"
    <3>1. next'["taker"] \in {"none", "Initialized", "Aborted"} /\ faults["taker"] \subseteq faults'["taker"]
      BY Zenon, <1>4, <2>4, TakerMovesAlong DEF AtomicInv, TakerEdge
    <3>2. /\ takerPayment = "none" /\ takerPayment' = takerPayment
          /\ Unspent(funding') => Unspent(funding)
      BY Zenon, <1>4, <2>4, TakerChainEffect DEF AtomicInv, ProgressInv, Agreed, takerPayVars, Unspent
    <3>3. next["taker"] = "none"
      BY Zenon, <1>4, TakerMovesAlong DEF AtomicInv
    <3>4. FaultlessFunding'
      BY Zenon, <2>4, <3>1, <3>2, <3>3 DEF FaultlessInv, FaultlessFunding, Stays, TakerFunded
    <3>5. FaultlessPayment' /\ FaultlessClaim'
      BY Zenon, <3>2 DEF FaultlessPayment, FaultlessClaim, Unspent, SpendSeen
    <3>6. FaultlessRefund'
      BY Zenon, <2>1, <2>4, <3>1 DEF FaultlessRefund
    <3>7. QED
      BY Zenon, <2>1, <2>2, <3>4, <3>5, <3>6 DEF FaultlessInv
  <2>5. QED
    BY Zenon, <2>3, <2>4
<1>5. ASSUME NEW r \in Role, Runs(r) \/ Stops(r)
      PROVE  FaultlessInv'
  <2>1. /\ UNCHANGED <<now, funding, makerPayment, takerPayment>> /\ taker_payment_locktime' = taker_payment_locktime
        /\ \A q \in Role : q # r => st'[q] = st[q] /\ next'[q] = next[q] /\ pc'[q] = pc[q]
        /\ \A q \in Role : {st'[q], next'[q]} \subseteq {st[q], next[q], "none"}
    BY ZenonT(40), <1>5, RunsEffect DEF AtomicInv, chainVars, fundingVars, makerPayVars, takerPayVars, noteVars,
       taker_payment_locktime
  <2>2. /\ \A q \in Role : q # r => faults'[q] = faults[q]
        /\ faults[r] \subseteq faults'[r]
        /\ faults'[r] = {} => pc'[r] # "failed"
    BY <1>5, RunsMore, Zenon DEF AtomicInv, RunStep
  <2>3. /\ {"MakerPaymentSentFundingSpendGenerated"} \subseteq MakerLocked \cap SentStates("maker")
        /\ {"TakerFundingSent"} \subseteq TakerFunded \cap SentStates("taker")
        /\ TakerWaiting \subseteq TakerPaid \cap SentStates("taker")
        /\ TakerWaiting \subseteq TakerClaims \cap SentStates("taker")
    BY Zenon DEF MakerLocked, TakerFunded, TakerPaid, TakerClaims, TakerWaiting, SentStates
  <2>4. ASSUME NEW q \in Role, NEW states, NEW entered, entered \subseteq states \cap SentStates(q), faults'[q] = {},
               Stays(q, states, entered)
        PROVE  Stays(q, states, entered)'
    <3>1. CASE q = r
      BY <1>5, <2>4, <3>1, RunsStays, Zenon DEF AtomicInv
    <3>2. CASE q # r
      BY Zenon, <2>1, <2>4, <3>2 DEF Stays
    <3>3. QED
      BY Zenon, <3>1, <3>2
  <2>5. \A q \in Role : faults'[q] = {} => faults[q] = {} /\ pc'[q] # "failed"
    BY Zenon, <2>1, <2>2 DEF FaultlessInv
  <2>6. FaultlessMaker'
    BY Zenon, <2>1, <2>3, <2>4, <2>5 DEF FaultlessInv, FaultlessMaker, MakerLeaves
  <2>7. FaultlessFunding'
    BY Zenon, <2>1, <2>3, <2>4, <2>5 DEF FaultlessInv, FaultlessFunding
  <2>8. FaultlessPayment'
    BY <2>1, <2>3, <2>4, <2>5, ZenonT(40) DEF FaultlessInv, FaultlessPayment
  <2>9. FaultlessRefund'
    BY <2>1, <2>5, ZenonT(40) DEF FaultlessInv, FaultlessRefund
  <2>10. FaultlessClaim'
    BY Zenon, <2>1, <2>3, <2>4, <2>5 DEF FaultlessInv, FaultlessClaim
  <2>11. QED
    BY Zenon, <2>5, <2>6, <2>7, <2>8, <2>9, <2>10 DEF FaultlessInv
<1>6. CASE ChainStep
  <2>1. /\ UNCHANGED <<now, st, pc, next, faults>> /\ taker_payment_locktime' = taker_payment_locktime
        /\ Unspent(funding') = Unspent(funding) /\ Unspent(takerPayment') = Unspent(takerPayment)
        /\ Unspent(makerPayment') = Unspent(makerPayment) /\ SpendSeen(takerPayment') = SpendSeen(takerPayment)
        /\ SpendSeen(makerPayment') = SpendSeen(makerPayment)
    BY <1>6 DEF ChainStep, Mined, machineVars, noteVars, taker_payment_locktime, Unspent, SpendSeen
  <2>2. FaultlessMaker' /\ FaultlessFunding' /\ FaultlessPayment'
    BY Zenon, <2>1 DEF FaultlessInv, FaultlessMaker, FaultlessFunding, FaultlessPayment, MakerLeaves, Stays
  <2>3. FaultlessRefund' /\ FaultlessClaim'
    BY Zenon, <2>1 DEF FaultlessInv, FaultlessRefund, FaultlessClaim, Stays
  <2>4. QED
    BY <2>1, <2>2, <2>3, Zenon DEF FaultlessInv
<1>7. CASE Tick
  <2>1. /\ UNCHANGED <<st, pc, next, faults, funding, makerPayment, takerPayment>>
        /\ taker_payment_locktime' = taker_payment_locktime
    BY Zenon, <1>7 DEF Tick, machineVars, noteVars, chainVars, fundingVars, makerPayVars, takerPayVars, taker_payment_locktime
  <2>2. now \in Nat /\ now' = now + 1 /\ taker_payment_locktime \in Nat
    BY <1>7, ChainAssumption DEF Tick, TypeOK, ChainTypeOK, taker_payment_locktime
  <2>3. FaultlessMaker' /\ FaultlessFunding' /\ FaultlessPayment'
    BY Zenon, <2>1 DEF FaultlessInv, FaultlessMaker, FaultlessFunding, FaultlessPayment, MakerLeaves, Stays
  <2>4. FaultlessRefund'
    <3>1. now > taker_payment_locktime => now' > taker_payment_locktime
      BY <2>2
    <3>2. QED
      BY Zenon, <2>1, <3>1 DEF FaultlessInv, FaultlessRefund
  <2>5. FaultlessClaim'
    <3> SUFFICES ASSUME faults["taker"] = {}, SpendSeen(takerPayment), ~SpendSeen(makerPayment)
                 PROVE  Stays("taker", TakerClaims, TakerWaiting)' /\ now' <= taker_payment_locktime
      BY Zenon, <2>1 DEF FaultlessClaim
    <3>1. Stays("taker", TakerClaims, TakerWaiting) /\ pc["taker"] # "failed"
      BY Zenon DEF FaultlessInv, FaultlessClaim
    <3>2. next["taker"] = "none"
      BY Zenon, <1>7 DEF Tick, MustAct, AtomicInv, LogInv
    <3>3. st["taker"] \in TakerClaims
      BY Zenon, <3>1, <3>2 DEF Stays, TakerWaiting
    <3>4. pc["taker"] = "down"
      BY Zenon, <1>7, <3>1, <3>3 DEF Tick, MustAct, TakerMustAct, ClaimTimeInv, TakerClaims, TakerWaiting, EdgeInv, LastStates,
         TypeOK, MachineTypeOK, Pc
    <3>5. now' <= RestartBy /\ now' \in Nat
      <4>1. EdgeInv'
        BY Zenon, EdgeStep DEF AtomicInv
      <4>2. now' <= RestartBy
        BY Zenon, <2>1, <3>4, <4>1 DEF EdgeInv
      <4>3. QED
        BY <2>2, <4>2
    <3>6. QED
      BY Zenon, <2>1, <3>1, <3>5, BackInTime DEF Stays
  <2>6. QED
    BY Zenon, <2>1, <2>3, <2>4, <2>5 DEF FaultlessInv
<1>8. CASE UNCHANGED vars
  BY Zenon, <1>8 DEF vars, chainVars, fundingVars, makerPayVars, takerPayVars, noteVars, machineVars, FaultlessInv,
     FaultlessMaker, FaultlessFunding, FaultlessPayment, FaultlessRefund, FaultlessClaim, MakerLeaves, Stays,
     taker_payment_locktime
<1>9. QED
  BY Zenon, <1>3, <1>4, <1>5, <1>6, <1>7, <1>8 DEF Next, OnChanged, Done

(* A role whose coin and storage calls succeed, and which never stops between *)
(* a transaction and its event, leaves nothing of its own on the chains: no   *)
(* funding, no payment that the other did not pay for, no claim not made.     *)
(* The processes are back before the taker payment's lock time.               *)
THEOREM SwapV2LeavesNothing == Spec => [](RestartsInTime => FaultlessLeavesNothing)
<1> DEFINE Inv == RestartsInTime => EdgeInv /\ ClaimTimeInv /\ ClaimedInv /\ FaultlessInv
<1>1. Init => Inv
  <2> SUFFICES ASSUME Init PROVE EdgeInv /\ ClaimTimeInv /\ ClaimedInv /\ FaultlessInv
    OBVIOUS
  <2>1. EdgeInv /\ ClaimTimeInv
    BY Zenon DEF Init, ChainInit, MachineInit, EdgeInv, ClaimTimeInv
  <2>2. ClaimedInv /\ FaultlessInv
    BY Zenon DEF Init, ChainInit, MachineInit, ClaimedInv, ClaimEvent, FaultlessInv, FaultlessMaker, FaultlessFunding,
       FaultlessPayment, FaultlessRefund, FaultlessClaim, MakerLeaves, Unspent, SpendSeen
  <2>3. QED
    BY <2>1, <2>2
<1>2. TypeOK /\ AtomicInv /\ Inv /\ [Next]_vars => Inv'
  BY Zenon, EdgeStep, ClaimTimeStep, ClaimedStep, FaultlessStep DEF AtomicInv, RestartsInTime
<1>3. AtomicInv /\ Inv => (RestartsInTime => FaultlessLeavesNothing)
  <2> SUFFICES ASSUME AtomicInv, EdgeInv, FaultlessInv, NEW r \in Role, pc[r] \in {"end", "lost"}, faults[r] = {}
               PROVE  IF r = "taker" THEN ~TakerLeaves ELSE ~MakerLeaves
    BY Zenon DEF FaultlessLeavesNothing
  <2>1. next[r] = "none" /\ st[r] \in LastStates \cup {"Initialize"}
    BY Zenon DEF AtomicInv, LogInv, EdgeInv
  <2>2. CASE r = "maker"
    BY Zenon, <2>1, <2>2 DEF FaultlessInv, FaultlessMaker, Stays, MakerLocked, LastStates
  <2>3. CASE r = "taker"
    BY Zenon, <2>1, <2>3 DEF FaultlessInv, FaultlessFunding, FaultlessPayment, FaultlessClaim, Stays, TakerFunded, TakerPaid,
       TakerClaims, TakerWaiting, LastStates, TakerLeaves
  <2>4. QED
    BY Zenon, <2>2, <2>3
<1>4. QED
  BY <1>1, <1>2, <1>3, SwapV2Invariant, PTL DEF Spec

=============================================================================
