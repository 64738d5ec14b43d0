-------------------------- MODULE StorableMachine --------------------------
(* The storable state machine that runs each role of a version-two swap.      *)
(*                                                                            *)
(* A state's on_changed does its work and names the next state.  The event of *)
(* that state is applied to the reservations in memory, stored, and only then *)
(* does the next state run.  A restart recreates the machine in the state of  *)
(* the last stored event and runs that state again from its beginning.  The   *)
(* end of a run marks the swap finished and clears what it held in memory.    *)
EXTENDS SwapV2Chain

CONSTANTS
  Crashers,       \* bound: the roles whose process may stop
  MaxCrashes,     \* bound: how often each may stop
  RestartBy,      \* bound: crashes happen, and are repaired, before this time
  StorageErrors,  \* does the swap database fail?
  QuickRestart    \* may a node restart within the lifetime of its swap lock?

ASSUME MachineAssumption ==
  /\ Crashers \subseteq Role
  /\ MaxCrashes \in Nat
  /\ RestartBy \in Nat
  /\ StorageErrors \in BOOLEAN
  /\ QuickRestart \in BOOLEAN

VARIABLES
  st,       \* the state whose on_changed runs
  pc,       \* where it stands
  next,     \* the state it has changed to, while its event is not stored
  last,     \* the last stored event, "none" before the first one
  until,    \* deadline of the receive under way
  reserved, \* entries of the swap in the locked-amounts ledger, in memory
  crashes,  \* how often the process has stopped
  faults    \* history: the faults that have hit the role

machineVars == <<st, pc, next, last, until, reserved, crashes, faults>>

MakerState ==
  {"Initialize", "Initialized", "WaitingForTakerFunding", "TakerFundingReceived",
   "MakerPaymentSentFundingSpendGenerated", "TakerPaymentReceived", "TakerPaymentReceivedPreimageSkipped",
   "TakerPaymentSpent", "MakerPaymentRefundRequired", "MakerPaymentRefunded", "Aborted", "Completed"}

TakerState ==
  {"Initialize", "Initialized", "Negotiated", "TakerFundingSent", "MakerPaymentAndFundingSpendPreimgReceived",
   "TakerPaymentSent", "TakerPaymentSentPreimageSendingSkipped", "TakerPaymentSpent", "MakerPaymentSpent",
   "TakerFundingRefundRequired", "TakerPaymentRefundRequired", "TakerFundingRefunded", "TakerPaymentRefunded",
   "Aborted", "Completed"}

LastStates == {"MakerPaymentRefunded", "TakerFundingRefunded", "TakerPaymentRefunded", "Aborted", "Completed"}

(* run: at the head of on_changed, recv, ack and poll: in its waits, store:   *)
(* between its work and its event, end: finished, failed: the run returned an *)
(* error, down: the process is not running, lost: not recreated.              *)
Pc == {"run", "recv", "ack", "poll", "store", "end", "failed", "down", "lost"}

Fault == {"coin", "storage", "lock", "torn"}

(* on_event: what a stored event reserves and releases.                       *)
OnEvent(r, event, held) ==
  CASE event = "Initialized" -> held \cup {"volume", "headroom"}
    [] r = "maker" /\ event = "MakerPaymentSentFundingSpendGenerated" -> held \ {"volume"}
    [] r = "maker" /\ event = "TakerPaymentSpent" -> held \ {"headroom"}
    [] r = "taker" /\ event = "TakerFundingSent" -> held \ {"volume"}
    [] r = "taker" /\ event = "MakerPaymentSpent" -> held \ {"headroom"}
    [] OTHER -> held

(* on_kickstart_event: what a resumed swap reserves again.                    *)
ClaimEvent(r) == IF r = "maker" THEN "TakerPaymentSpent" ELSE "MakerPaymentSpent"

UncommittedEvents(r) ==
  IF r = "maker" THEN {"Initialized", "WaitingForTakerFunding", "TakerFundingReceived"}
                 ELSE {"Initialized", "Negotiated"}

OnKickstartEventHeadroomOnly(r, event) == IF event # ClaimEvent(r) THEN {"headroom"} ELSE {}

OnKickstartEvent(r, event) ==
  (IF event # ClaimEvent(r) THEN {"headroom"} ELSE {}) \cup (IF event \in UncommittedEvents(r) THEN {"volume"} ELSE {})

(* recreate_machine refuses an empty log and, but for the maker's refund, the *)
(* log of a swap that has come to its end.                                    *)
Recreates(r, event) == event # "none" /\ (event \in LastStates => r = "maker" /\ event = "MakerPaymentRefunded")

At(r, state, where) == st[r] = state /\ pc[r] = where

Running(r) == pc[r] \in {"run", "recv", "ack", "poll", "store"}

(* on_changed changes the state, for some of them because the coin failed.    *)
Moves(r, to, how) ==
  /\ pc' = [pc EXCEPT ![r] = "store"]
  /\ next' = [next EXCEPT ![r] = to]
  /\ until' = [until EXCEPT ![r] = 0]
  /\ faults' = [faults EXCEPT ![r] = @ \cup how]
  /\ UNCHANGED <<st, last, reserved, crashes>>

ChangeState(r, to) == Moves(r, to, {})

FailsTo(r, to) == CoinErrors /\ Moves(r, to, {"coin"})

(* on_changed goes on to a wait that ends at the given time.                  *)
Waits(r, where, deadline) ==
  /\ pc' = [pc EXCEPT ![r] = where]
  /\ until' = [until EXCEPT ![r] = deadline]
  /\ UNCHANGED <<st, next, last, reserved, crashes, faults>>

InTime(r) == now <= until[r]

MachineInit ==
  /\ st = [r \in Role |-> "Initialize"]
  /\ pc = [r \in Role |-> "run"]
  /\ next = [r \in Role |-> "none"]
  /\ last = [r \in Role |-> "none"]
  /\ until = [r \in Role |-> 0]
  /\ reserved = [r \in Role |-> {}]
  /\ crashes = [r \in Role |-> 0]
  /\ faults = [r \in Role |-> {}]

(* on_new_state: on_event, then store_event.  An error ends the run; nothing  *)
(* is cleaned up.                                                             *)
OnNewState(r) ==
  /\ pc[r] = "store"
  /\ reserved' = [reserved EXCEPT ![r] = OnEvent(r, next[r], @)]
  /\ next' = [next EXCEPT ![r] = "none"]
  /\ \/ /\ st' = [st EXCEPT ![r] = next[r]]
        /\ last' = [last EXCEPT ![r] = next[r]]
        /\ pc' = [pc EXCEPT ![r] = "run"]
        /\ UNCHANGED faults
     \/ /\ StorageErrors
        /\ pc' = [pc EXCEPT ![r] = "failed"]
        /\ faults' = [faults EXCEPT ![r] = @ \cup {"storage"}]
        /\ UNCHANGED <<st, last>>
  /\ UNCHANGED <<until, crashes>>

(* A last state that is run again.                                            *)
OnFinishedAgain(r) ==
  /\ pc[r] = "run"
  /\ st[r] \in LastStates
  /\ UNCHANGED machineVars

(* on_finished: mark_finished, then clean_up_context.                         *)
OnFinished(r) ==
  /\ pc[r] = "run"
  /\ st[r] \in LastStates
  /\ \/ /\ pc' = [pc EXCEPT ![r] = "end"]
        /\ reserved' = [reserved EXCEPT ![r] = {}]
        /\ UNCHANGED faults
     \/ /\ StorageErrors
        /\ pc' = [pc EXCEPT ![r] = "failed"]
        /\ faults' = [faults EXCEPT ![r] = @ \cup {"storage"}]
        /\ UNCHANGED reserved
  /\ UNCHANGED <<st, next, last, until, crashes>>

(* The process stops.  It may leave a transaction on the network that no      *)
(* event tells of.                                                            *)
SentStates(r) ==
  IF r = "maker"
    THEN {"MakerPaymentSentFundingSpendGenerated", "TakerPaymentSpent", "MakerPaymentRefunded"}
    ELSE {"TakerFundingSent", "TakerPaymentSent", "TakerPaymentSentPreimageSendingSkipped", "MakerPaymentSpent",
          "TakerFundingRefunded", "TakerPaymentRefunded"}

Crash(r) ==
  /\ r \in Crashers
  /\ now < RestartBy
  /\ crashes[r] < MaxCrashes
  /\ pc[r] \notin {"end", "down", "lost"}
  /\ pc' = [pc EXCEPT ![r] = "down"]
  /\ faults' = [faults EXCEPT ![r] = IF next[r] \in SentStates(r) THEN @ \cup {"torn"} ELSE @]
  /\ next' = [next EXCEPT ![r] = "none"]
  /\ until' = [until EXCEPT ![r] = 0]
  /\ reserved' = [reserved EXCEPT ![r] = {}]
  /\ crashes' = [crashes EXCEPT ![r] = @ + 1]
  /\ UNCHANGED <<st, last>>

(* swap_kickstart_handler: recreate the machine, apply on_kickstart_event and *)
(* run.  The run fails at once on a swap lock that the stopped process left   *)
(* and that is not old enough yet.                                            *)
KickStart(r) ==
  /\ pc[r] = "down"
  /\ IF Recreates(r, last[r])
       THEN /\ reserved' = [reserved EXCEPT ![r] = OnKickstartEvent(r, last[r])]
            /\ st' = [st EXCEPT ![r] = last[r]]
            /\ \/ pc' = [pc EXCEPT ![r] = "run"] /\ UNCHANGED faults
               \/ /\ QuickRestart
                  /\ pc' = [pc EXCEPT ![r] = "failed"]
                  /\ faults' = [faults EXCEPT ![r] = @ \cup {"lock"}]
       ELSE /\ pc' = [pc EXCEPT ![r] = "lost"]
            /\ UNCHANGED <<st, reserved, faults>>
  /\ UNCHANGED <<next, last, until, crashes>>

MachineTypeOK ==
  /\ st \in [Role -> MakerState \cup TakerState]
  /\ pc \in [Role -> Pc]
  /\ next \in [Role -> MakerState \cup TakerState \cup {"none"}]
  /\ last \in [Role -> MakerState \cup TakerState \cup {"none"}]
  /\ until \in [Role -> Nat]
  /\ reserved \in [Role -> SUBSET {"volume", "headroom"}]
  /\ crashes \in [Role -> Nat]
  /\ faults \in [Role -> SUBSET Fault]
=============================================================================
