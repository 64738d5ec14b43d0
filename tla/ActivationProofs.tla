-------------------------- MODULE ActivationProofs --------------------------
(***************************************************************************)
(* The safety properties of concurrent activations, for any number of      *)
(* them, of any kinds, with any tickers.                                   *)
(***************************************************************************)
EXTENDS CoinActivation, TLAPS

Shape ==
    /\ status \in [Tasks -> Entry]
    /\ cancelled \subseteq Tasks
    /\ pc \in [Activations -> Places]
    /\ held \in [Tickers -> Activations \union {NoOne}]
    /\ coins \in [Tickers -> Activations \union {NoOne}]
    /\ registered \subseteq Activations
    /\ result \in [Activations -> {"none", "Ok", "Error"}]

\* The places that only some of the activations reach.
PlacesInv ==
    \A a \in Activations :
        /\ pc[a] \in {"checked", "ask", "finish", "cleanup"} => a \in Tasks
        /\ pc[a] \in {"balance", "deregister"} => a \notin Tasks

\* Who holds a lock holds it to use it, and inside all locks are held.
LockInv ==
    \A a \in Activations :
        /\ \A k \in Tickers : held[k] = a => pc[a] \in Inside \union {"lock", "return"}
        /\ pc[a] \in Inside \union {"return"} => \A k \in Wanted(a) : held[k] = a

\* The coins are those that the activations registered.
OwnInv ==
    \A a \in Activations :
        /\ \A k \in Tickers : coins[k] = a => a \in registered /\ k \in Wanted(a)
        /\ a \in registered =>
              pc[a] \in {"balance", "deregister", "return", "finish", "cleanup", "ended"}
        /\ result[a] = "Ok" => a \in registered

\* A cancelled task is gone, and has something to clean up until it ends.
CancelInv ==
    \A t \in Tasks :
        /\ pc[t] \in {"absent", "idle", "checked"} => status[t] = "none" /\ t \notin cancelled
        /\ pc[t] = "cleanup" => status[t] = "none"
        /\ pc[t] = "ended" => status[t] \notin Ongoing
        /\ status[t] \in {"Ok", "Error"} => pc[t] = "ended"
        /\ status[t] = "Ok" => t \in registered
        /\ t \in cancelled => status[t] = "none"

\* A legacy call's coin stays its own while it holds the lock, and a task's
\* coin stays until the task has cleaned up, or for good when it succeeds.
LegacyInv ==
    \A a \in Activations :
        pc[a] \in {"balance", "deregister"} => coins[Main[a]] \in {a, NoOne}

TaskInv ==
    \A t \in Tasks :
        /\ t \in registered /\ Solo(Main[t])
        /\ pc[t] \in {"return", "finish", "cleanup"} \/ status[t] = "Ok"
        => coins[Main[t]] = t \/ Main[t] \in disabled

IInv ==
    /\ Shape /\ PlacesInv /\ LockInv /\ BuildsNotInVain /\ OwnInv
    /\ CancelInv /\ CleanupLeavesNothing /\ LegacyInv /\ TaskInv

(* The tickers of an activation are among the tickers, and a task that has a *)
(* cleanup registers its own ticker only.                                    *)
LEMMA TickersOf ==
    ASSUME NEW a \in Activations
    PROVE  /\ Wanted(a) \subseteq Tickers /\ Main[a] \in Wanted(a)
           /\ Main[a] \in Tickers
           /\ HasCleanup(a) => Wanted(a) = {Main[a]}
BY ActivationAssumption DEF Wanted, Tickers, HasCleanup

(* A task is an activation, and not a legacy call.                           *)
LEMMA TaskKinds ==
    ASSUME NEW t \in Tasks
    PROVE  t \in Activations /\ Kind[t] # "legacy"
BY ActivationAssumption

USE DEF Ongoing, Entry, Places

(* The invariant holds before anything is activated.                         *)
LEMMA InitInv == Init => IInv
<1> SUFFICES ASSUME Init PROVE IInv
    OBVIOUS
<1> USE ActivationAssumption DEF Init, TaskInit
<1>1. Shape
    BY DEF Shape
<1>2. PlacesInv /\ LockInv /\ BuildsNotInVain /\ OwnInv
    BY TickersOf DEF PlacesInv, LockInv, BuildsNotInVain, OwnInv, Inside
<1>3. CancelInv /\ CleanupLeavesNothing /\ LegacyInv /\ TaskInv
    BY TaskKinds DEF CancelInv, CleanupLeavesNothing, LegacyInv, TaskInv
<1> QED
    BY <1>1, <1>2, <1>3 DEF IInv

(* The checks of an init method keep the invariant.                          *)
LEMMA InitChecksStep ==
    ASSUME IInv, NEW a \in Activations, InitChecks(a)
    PROVE  IInv'
<1> USE ActivationAssumption, TickersOf, TaskKinds DEF IInv, InitChecks, GoTo, taskVars
<1>1. Shape'
    BY DEF Shape
<1>2. PlacesInv'
    BY DEF Shape, PlacesInv, OwnInv
<1>3. LockInv'
    BY DEF Shape, LockInv, Inside
<1>4. BuildsNotInVain'
    BY DEF Shape, BuildsNotInVain, LockInv, Inside
<1>5. OwnInv'
    BY DEF Shape, OwnInv
<1>6. CancelInv'
    BY DEF Shape, CancelInv, OwnInv, PlacesInv
<1>7. CleanupLeavesNothing'
    BY DEF Shape, CleanupLeavesNothing, CancelInv, OwnInv
<1>8. LegacyInv'
    BY DEF Shape, LegacyInv, LockInv, Inside, PlacesInv
<1>9. TaskInv'
    BY DEF Shape, TaskInv, Solo, OwnInv, LegacyInv, CancelInv, PlacesInv
<1> QED
    BY Zenon, <1>1, <1>2, <1>3, <1>4, <1>5, <1>6, <1>7, <1>8, <1>9

(* spawn_rpc_task keeps the invariant: the task is new, so nobody            *)
(* cancelled it.                                                             *)
LEMMA SpawnRpcTaskStep ==
    ASSUME IInv, NEW a \in Activations, SpawnRpcTask(a)
    PROVE  IInv'
<1> USE ActivationAssumption, TickersOf, TaskKinds DEF IInv, SpawnRpcTask, GoTo, taskVars, register_task
<1>1. Shape'
    BY DEF Shape
<1>2. PlacesInv'
    BY DEF Shape, PlacesInv, OwnInv
<1>3. LockInv'
    BY DEF Shape, LockInv, Inside
<1>4. BuildsNotInVain'
    BY DEF Shape, BuildsNotInVain, LockInv, Inside
<1>5. OwnInv'
    BY DEF Shape, OwnInv
<1>6. CancelInv'
    BY DEF Shape, CancelInv, OwnInv, PlacesInv
<1>7. CleanupLeavesNothing'
    BY DEF Shape, CleanupLeavesNothing, CancelInv, OwnInv
<1>8. LegacyInv'
    BY DEF Shape, LegacyInv, LockInv, Inside, PlacesInv
<1>9. TaskInv'
    BY DEF Shape, TaskInv, Solo, OwnInv, LegacyInv, CancelInv, PlacesInv
<1> QED
    BY Zenon, <1>1, <1>2, <1>3, <1>4, <1>5, <1>6, <1>7, <1>8, <1>9

(* The start of a one-shot or legacy call keeps the invariant.               *)
LEMMA CallStep ==
    ASSUME IInv, NEW a \in Activations, Call(a)
    PROVE  IInv'
<1> USE ActivationAssumption, TickersOf, TaskKinds DEF IInv, Call, GoTo, taskVars
<1>1. Shape'
    BY DEF Shape
<1>2. PlacesInv'
    BY DEF Shape, PlacesInv, OwnInv
<1>3. LockInv'
    BY DEF Shape, LockInv, Inside
<1>4. BuildsNotInVain'
    BY DEF Shape, BuildsNotInVain, LockInv, Inside
<1>5. OwnInv'
    BY DEF Shape, OwnInv
<1>6. CancelInv'
    BY DEF Shape, CancelInv, OwnInv, PlacesInv
<1>7. CleanupLeavesNothing'
    BY DEF Shape, CleanupLeavesNothing, CancelInv, OwnInv
<1>8. LegacyInv'
    BY DEF Shape, LegacyInv, LockInv, Inside, PlacesInv
<1>9. TaskInv'
    BY DEF Shape, TaskInv, Solo, OwnInv, LegacyInv, CancelInv, PlacesInv
<1> QED
    BY Zenon, <1>1, <1>2, <1>3, <1>4, <1>5, <1>6, <1>7, <1>8, <1>9

(* Taking one more lock keeps the invariant: the lock was free.              *)
LEMMA LockStep ==
    ASSUME IInv, NEW a \in Activations, Lock(a)
    PROVE  IInv'
<1> USE ActivationAssumption, TickersOf, TaskKinds DEF IInv, Lock, GoTo, taskVars, NextTicker, Locked
<1>1. Shape'
    BY DEF Shape
<1>2. PlacesInv'
    BY DEF Shape, PlacesInv, OwnInv
<1>3. LockInv'
    BY DEF Shape, LockInv, Inside
<1>4. BuildsNotInVain'
    BY DEF Shape, BuildsNotInVain, LockInv, Inside
<1>5. OwnInv'
    BY DEF Shape, OwnInv
<1>6. CancelInv'
    BY DEF Shape, CancelInv, OwnInv, PlacesInv
<1>7. CleanupLeavesNothing'
    BY DEF Shape, CleanupLeavesNothing, CancelInv, OwnInv
<1>8. LegacyInv'
    BY DEF Shape, LegacyInv, LockInv, Inside, PlacesInv
<1>9. TaskInv'
    BY DEF Shape, TaskInv, Solo, OwnInv, LegacyInv, CancelInv, PlacesInv
<1> QED
    BY Zenon, <1>1, <1>2, <1>3, <1>4, <1>5, <1>6, <1>7, <1>8, <1>9

(* The check under the lock keeps the invariant: it is what opens the way    *)
(* to the build.                                                             *)
LEMMA FindStep ==
    ASSUME IInv, NEW a \in Activations, Find(a)
    PROVE  IInv'
<1> USE ActivationAssumption, TickersOf, TaskKinds DEF IInv, Find, GoTo, taskVars, Fails
<1>1. Shape'
    BY DEF Shape
<1>2. PlacesInv'
    BY DEF Shape, PlacesInv, OwnInv
<1>3. LockInv'
    BY DEF Shape, LockInv, Inside
<1>4. BuildsNotInVain'
    BY DEF Shape, BuildsNotInVain, LockInv, Inside
<1>5. OwnInv'
    BY DEF Shape, OwnInv
<1>6. CancelInv'
    BY DEF Shape, CancelInv, OwnInv, PlacesInv
<1>7. CleanupLeavesNothing'
    BY DEF Shape, CleanupLeavesNothing, CancelInv, OwnInv
<1>8. LegacyInv'
    BY DEF Shape, LegacyInv, LockInv, Inside, PlacesInv
<1>9. TaskInv'
    BY DEF Shape, TaskInv, Solo, OwnInv, LegacyInv, CancelInv, PlacesInv
<1> QED
    BY Zenon, <1>1, <1>2, <1>3, <1>4, <1>5, <1>6, <1>7, <1>8, <1>9

(* Asking the user keeps the invariant.                                      *)
LEMMA AskStep ==
    ASSUME IInv, NEW a \in Activations, Ask(a)
    PROVE  IInv'
<1> USE ActivationAssumption, TickersOf, TaskKinds DEF IInv, Ask, GoTo, taskVars, set_task_is_waiting_for_user_action
<1>1. Shape'
    BY DEF Shape
<1>2. PlacesInv'
    BY DEF Shape, PlacesInv, OwnInv
<1>3. LockInv'
    BY DEF Shape, LockInv, Inside
<1>4. BuildsNotInVain'
    BY DEF Shape, BuildsNotInVain, LockInv, Inside
<1>5. OwnInv'
    BY DEF Shape, OwnInv
<1>6. CancelInv'
    BY DEF Shape, CancelInv, OwnInv, PlacesInv
<1>7. CleanupLeavesNothing'
    BY DEF Shape, CleanupLeavesNothing, CancelInv, OwnInv
<1>8. LegacyInv'
    BY DEF Shape, LegacyInv, LockInv, Inside, PlacesInv
<1>9. TaskInv'
    BY DEF Shape, TaskInv, Solo, OwnInv, LegacyInv, CancelInv, PlacesInv
<1> QED
    BY Zenon, <1>1, <1>2, <1>3, <1>4, <1>5, <1>6, <1>7, <1>8, <1>9

(* The end of the wait for the user keeps the invariant.                     *)
LEMMA StopAskingStep ==
    ASSUME IInv, NEW a \in Activations, StopAsking(a)
    PROVE  IInv'
<1> USE ActivationAssumption, TickersOf, TaskKinds DEF IInv, StopAsking, GoTo, taskVars, StopListening, Fails
<1>1. Shape'
    BY DEF Shape
<1>2. PlacesInv'
    BY DEF Shape, PlacesInv, OwnInv
<1>3. LockInv'
    BY DEF Shape, LockInv, Inside
<1>4. BuildsNotInVain'
    BY DEF Shape, BuildsNotInVain, LockInv, Inside
<1>5. OwnInv'
    BY DEF Shape, OwnInv
<1>6. CancelInv'
    BY DEF Shape, CancelInv, OwnInv, PlacesInv
<1>7. CleanupLeavesNothing'
    BY DEF Shape, CleanupLeavesNothing, CancelInv, OwnInv
<1>8. LegacyInv'
    BY DEF Shape, LegacyInv, LockInv, Inside, PlacesInv
<1>9. TaskInv'
    BY DEF Shape, TaskInv, Solo, OwnInv, LegacyInv, CancelInv, PlacesInv
<1> QED
    BY Zenon, <1>1, <1>2, <1>3, <1>4, <1>5, <1>6, <1>7, <1>8, <1>9

(* Building a coin keeps the invariant.                                      *)
LEMMA BuildStep ==
    ASSUME IInv, NEW a \in Activations, Build(a)
    PROVE  IInv'
<1> USE ActivationAssumption, TickersOf, TaskKinds DEF IInv, Build, GoTo, taskVars, Fails
<1>1. Shape'
    BY DEF Shape
<1>2. PlacesInv'
    BY DEF Shape, PlacesInv, OwnInv
<1>3. LockInv'
    BY DEF Shape, LockInv, Inside
<1>4. BuildsNotInVain'
    BY DEF Shape, BuildsNotInVain, LockInv, Inside
<1>5. OwnInv'
    BY DEF Shape, OwnInv
<1>6. CancelInv'
    BY DEF Shape, CancelInv, OwnInv, PlacesInv
<1>7. CleanupLeavesNothing'
    BY DEF Shape, CleanupLeavesNothing, CancelInv, OwnInv
<1>8. LegacyInv'
    BY DEF Shape, LegacyInv, LockInv, Inside, PlacesInv
<1>9. TaskInv'
    BY DEF Shape, TaskInv, Solo, OwnInv, LegacyInv, CancelInv, PlacesInv
<1> QED
    BY Zenon, <1>1, <1>2, <1>3, <1>4, <1>5, <1>6, <1>7, <1>8, <1>9

(* Registering keeps the invariant: nobody else that wants one of the        *)
(* tickers is inside.                                                        *)
LEMMA RegisterStep ==
    ASSUME IInv, NEW a \in Activations, Register(a)
    PROVE  IInv'
<1> USE ActivationAssumption, TickersOf, TaskKinds DEF IInv, Register, GoTo, taskVars, Fails
<1>1. Shape'
    BY DEF Shape
<1>2. PlacesInv'
    BY DEF Shape, PlacesInv, OwnInv
<1>3. LockInv'
    BY DEF Shape, LockInv, Inside
<1>4. BuildsNotInVain'
    BY DEF Shape, BuildsNotInVain, LockInv, Inside
<1>5. OwnInv'
    BY DEF Shape, OwnInv
<1>6. CancelInv'
    BY DEF Shape, CancelInv, OwnInv, PlacesInv
<1>7. CleanupLeavesNothing'
    BY DEF Shape, CleanupLeavesNothing, CancelInv, OwnInv
<1>8. LegacyInv'
    BY DEF Shape, LegacyInv, LockInv, Inside, PlacesInv
<1>9. TaskInv'
    BY DEF Shape, TaskInv, Solo, OwnInv, LegacyInv, CancelInv, PlacesInv
<1> QED
    BY Zenon, <1>1, <1>2, <1>3, <1>4, <1>5, <1>6, <1>7, <1>8, <1>9

(* Reading the balance keeps the invariant.                                  *)
LEMMA ReadBalanceStep ==
    ASSUME IInv, NEW a \in Activations, ReadBalance(a)
    PROVE  IInv'
<1> USE ActivationAssumption, TickersOf, TaskKinds DEF IInv, ReadBalance, GoTo, taskVars, Fails
<1>1. Shape'
    BY DEF Shape
<1>2. PlacesInv'
    BY DEF Shape, PlacesInv, OwnInv
<1>3. LockInv'
    BY DEF Shape, LockInv, Inside
<1>4. BuildsNotInVain'
    BY DEF Shape, BuildsNotInVain, LockInv, Inside
<1>5. OwnInv'
    BY DEF Shape, OwnInv
<1>6. CancelInv'
    BY DEF Shape, CancelInv, OwnInv, PlacesInv
<1>7. CleanupLeavesNothing'
    BY DEF Shape, CleanupLeavesNothing, CancelInv, OwnInv
<1>8. LegacyInv'
    BY DEF Shape, LegacyInv, LockInv, Inside, PlacesInv
<1>9. TaskInv'
    BY DEF Shape, TaskInv, Solo, OwnInv, LegacyInv, CancelInv, PlacesInv
<1> QED
    BY Zenon, <1>1, <1>2, <1>3, <1>4, <1>5, <1>6, <1>7, <1>8, <1>9

(* Deregistering keeps the invariant: what a legacy call removes is its      *)
(* own.                                                                      *)
LEMMA DeregisterStep ==
    ASSUME IInv, NEW a \in Activations, Deregister(a)
    PROVE  IInv'
<1> USE ActivationAssumption, TickersOf, TaskKinds DEF IInv, Deregister, GoTo, taskVars
<1>1. Shape'
    BY DEF Shape
<1>2. PlacesInv'
    BY DEF Shape, PlacesInv, OwnInv
<1>3. LockInv'
    BY DEF Shape, LockInv, Inside
<1>4. BuildsNotInVain'
    BY DEF Shape, BuildsNotInVain, LockInv, Inside
<1>5. OwnInv'
    BY DEF Shape, OwnInv
<1>6. CancelInv'
    BY DEF Shape, CancelInv, OwnInv, PlacesInv
<1>7. CleanupLeavesNothing'
    BY DEF Shape, CleanupLeavesNothing, CancelInv, OwnInv
<1>8. LegacyInv'
    BY DEF Shape, LegacyInv, LockInv, Inside, PlacesInv
<1>9. TaskInv'
    BY DEF Shape, TaskInv, Solo, OwnInv, LegacyInv, CancelInv, PlacesInv
<1> QED
    BY Zenon, <1>1, <1>2, <1>3, <1>4, <1>5, <1>6, <1>7, <1>8, <1>9

(* Returning, which drops the guard, keeps the invariant.                    *)
LEMMA ReturnStep ==
    ASSUME IInv, NEW a \in Activations, Return(a)
    PROVE  IInv'
<1> USE ActivationAssumption, TickersOf, TaskKinds DEF IInv, Return, GoTo, taskVars, Release
<1>1. Shape'
    BY DEF Shape
<1>2. PlacesInv'
    BY DEF Shape, PlacesInv, OwnInv
<1>3. LockInv'
    BY DEF Shape, LockInv, Inside
<1>4. BuildsNotInVain'
    BY DEF Shape, BuildsNotInVain, LockInv, Inside
<1>5. OwnInv'
    BY DEF Shape, OwnInv
<1>6. CancelInv'
    BY DEF Shape, CancelInv, OwnInv, PlacesInv
<1>7. CleanupLeavesNothing'
    BY DEF Shape, CleanupLeavesNothing, CancelInv, OwnInv
<1>8. LegacyInv'
    BY DEF Shape, LegacyInv, LockInv, Inside, PlacesInv
<1>9. TaskInv'
    BY DEF Shape, TaskInv, Solo, OwnInv, LegacyInv, CancelInv, PlacesInv
<1> QED
    BY Zenon, <1>1, <1>2, <1>3, <1>4, <1>5, <1>6, <1>7, <1>8, <1>9

(* Recording the result keeps the invariant: a cancelled task goes on to     *)
(* its cleanup.                                                              *)
LEMMA FinishStep ==
    ASSUME IInv, NEW a \in Activations, Finish(a)
    PROVE  IInv'
<1> USE ActivationAssumption, TickersOf, TaskKinds DEF IInv, Finish, GoTo, taskVars, on_task_finished, AfterCancel, HasCleanup
<1>1. Shape'
    BY Zenon DEF Shape
<1>2. PlacesInv'
    BY DEF Shape, PlacesInv, OwnInv
<1>3. LockInv'
    BY DEF Shape, LockInv, Inside
<1>4. BuildsNotInVain'
    BY DEF Shape, BuildsNotInVain, LockInv, Inside
<1>5. OwnInv'
    BY DEF Shape, OwnInv
<1>6. CancelInv'
    BY DEF Shape, CancelInv, OwnInv, PlacesInv
<1>7. CleanupLeavesNothing'
    BY DEF Shape, CleanupLeavesNothing, CancelInv, OwnInv
<1>8. LegacyInv'
    BY DEF Shape, LegacyInv, LockInv, Inside, PlacesInv
<1>9. TaskInv'
    BY DEF Shape, TaskInv, Solo, OwnInv, LegacyInv, CancelInv, PlacesInv
<1> QED
    BY Zenon, <1>1, <1>2, <1>3, <1>4, <1>5, <1>6, <1>7, <1>8, <1>9

(* Dropping the future of a cancelled task keeps the invariant: it had       *)
(* registered nothing.                                                       *)
LEMMA AbortStep ==
    ASSUME IInv, NEW a \in Activations, Abort(a)
    PROVE  IInv'
<1> USE ActivationAssumption, TickersOf, TaskKinds DEF IInv, Abort, GoTo, taskVars, Release, StopListening, AfterCancel, HasCleanup
<1>1. Shape'
    BY DEF Shape
<1>2. PlacesInv'
    BY DEF Shape, PlacesInv, OwnInv
<1>3. LockInv'
    BY DEF Shape, LockInv, Inside
<1>4. BuildsNotInVain'
    BY DEF Shape, BuildsNotInVain, LockInv, Inside
<1>5. OwnInv'
    BY DEF Shape, OwnInv
<1>6. CancelInv'
    BY DEF Shape, CancelInv, OwnInv, PlacesInv
<1>7. CleanupLeavesNothing'
    BY DEF Shape, CleanupLeavesNothing, CancelInv, OwnInv
<1>8. LegacyInv'
    BY DEF Shape, LegacyInv, LockInv, Inside, PlacesInv
<1>9. TaskInv'
    BY DEF Shape, TaskInv, Solo, OwnInv, LegacyInv, CancelInv, PlacesInv
<1> QED
    BY Zenon, <1>1, <1>2, <1>3, <1>4, <1>5, <1>6, <1>7, <1>8, <1>9

(* The cleanup keeps the invariant: it leaves nothing of the task, and       *)
(* nothing of others goes unless the user disabled the ticker.               *)
LEMMA CleanupStep ==
    ASSUME IInv, NEW a \in Activations, Cleanup(a)
    PROVE  IInv'
<1> USE ActivationAssumption, TickersOf, TaskKinds DEF IInv, Cleanup, GoTo, taskVars, HasCleanup
<1>1. Shape'
    BY DEF Shape
<1>2. PlacesInv'
    BY DEF Shape, PlacesInv, OwnInv
<1>3. LockInv'
    BY DEF Shape, LockInv, Inside
<1>4. BuildsNotInVain'
    BY DEF Shape, BuildsNotInVain, LockInv, Inside
<1>5. OwnInv'
    BY DEF Shape, OwnInv
<1>6. CancelInv'
    BY DEF Shape, CancelInv, OwnInv, PlacesInv
<1>7. CleanupLeavesNothing'
    BY DEF Shape, CleanupLeavesNothing, CancelInv, OwnInv
<1>8. LegacyInv'
    BY DEF Shape, LegacyInv, LockInv, Inside, PlacesInv
<1>9. TaskInv'
    BY DEF Shape, TaskInv, Solo, OwnInv, LegacyInv, CancelInv, PlacesInv
<1> QED
    BY Zenon, <1>1, <1>2, <1>3, <1>4, <1>5, <1>6, <1>7, <1>8, <1>9

(* What the user asks of a task keeps the invariant.                         *)
LEMMA UserRpcStep ==
    ASSUME IInv, NEW t \in Tasks, UserRpc(t)
    PROVE  IInv'
<1> USE ActivationAssumption, TickersOf, TaskKinds
    DEF IInv, UserRpc, others, cancel_task, task_status_forgets, on_user_action
<1>1. Shape'
    BY DEF Shape
<1>2. PlacesInv' /\ LockInv' /\ BuildsNotInVain' /\ OwnInv' /\ LegacyInv'
    BY Zenon DEF PlacesInv, LockInv, BuildsNotInVain, OwnInv, LegacyInv
<1>3. CancelInv'
    BY DEF Shape, CancelInv
<1>4. CleanupLeavesNothing'
    BY DEF Shape, CleanupLeavesNothing, CancelInv
<1>5. TaskInv'
    BY DEF Shape, TaskInv, Solo
<1> QED
    BY Zenon, <1>1, <1>2, <1>3, <1>4, <1>5

(* The beginning and the end of disable_coin keep the invariant.             *)
LEMMA DisableStep ==
    ASSUME IInv, NEW k \in Tickers, DisableCoin(k) \/ DisableCoinEnds(k)
    PROVE  IInv'
<1> USE ActivationAssumption, TickersOf, TaskKinds
    DEF IInv, DisableCoin, DisableCoinEnds, taskVars
<1>1. Shape'
    BY DEF Shape
<1>2. PlacesInv' /\ LockInv'
    BY DEF PlacesInv, LockInv
<1>3. CancelInv'
    BY DEF CancelInv
<1>4. BuildsNotInVain' /\ LegacyInv'
    BY DEF Shape, BuildsNotInVain, LegacyInv
<1>5. OwnInv' /\ CleanupLeavesNothing'
    BY DEF Shape, OwnInv, CleanupLeavesNothing
<1>6. TaskInv'
    BY DEF Shape, TaskInv, Solo
<1> QED
    BY Zenon, <1>1, <1>2, <1>3, <1>4, <1>5, <1>6

(* Every step keeps the invariant.                                           *)
LEMMA NextInv == IInv /\ [Next]_vars => IInv'
<1> SUFFICES ASSUME IInv, [Next]_vars PROVE IInv'
    OBVIOUS
<1>1. ASSUME NEW a \in Activations, InitChecks(a) \/ Call(a) \/ Goes(a)
      PROVE  IInv'
    BY <1>1, InitChecksStep, CallStep, SpawnRpcTaskStep, LockStep, FindStep,
       AskStep, StopAskingStep, BuildStep, RegisterStep, ReadBalanceStep,
       DeregisterStep, ReturnStep, FinishStep, AbortStep, CleanupStep DEF Goes
<1>2. CASE UNCHANGED vars
    BY <1>2 DEF vars, taskVars, IInv, Shape, PlacesInv, LockInv,
       BuildsNotInVain, OwnInv, CancelInv, CleanupLeavesNothing, LegacyInv,
       TaskInv, Solo
<1> QED
    BY <1>1, <1>2, UserRpcStep, DisableStep DEF Next

(* The inductive invariant holds of any number of activations.               *)
THEOREM ActivationInvariant == Spec => []IInv
<1> QED
    BY InitInv, NextInv, PTL DEF Spec

\* What TypeOK says beyond Shape.
ListenInv ==
    /\ listening \subseteq Tasks /\ answered \subseteq listening
    /\ \A t \in Tasks : t \in listening <=> pc[t] = "ask"
    /\ asked \subseteq Tasks
    /\ disabling \subseteq Tickers /\ disabled \subseteq Tickers

(* Only Ask begins to listen and only the end of that wait, or the abort of  *)
(* the task, stops it.                                                       *)
LEMMA NextListens == IInv /\ ListenInv /\ [Next]_vars => ListenInv'
<1> SUFFICES ASSUME IInv, ListenInv, [Next]_vars PROVE ListenInv'
    OBVIOUS
<1> USE TaskKinds DEF IInv, Shape, ListenInv, GoTo
<1>1. ASSUME NEW a \in Activations,
             \/ InitChecks(a) \/ Call(a) \/ Lock(a) \/ Find(a) \/ Build(a) \/ Register(a)
             \/ ReadBalance(a) \/ Deregister(a) \/ Return(a) \/ Cleanup(a)
      PROVE  ListenInv'
    <2>1. \A t \in Tasks : pc'[t] = "ask" <=> pc[t] = "ask"
        BY <1>1 DEF InitChecks, Call, Lock, Find, Build, Register, ReadBalance,
           Deregister, Return, Cleanup, Fails
    <2>2. UNCHANGED <<listening, answered, asked, disabling, disabled>>
        BY <1>1, Zenon DEF InitChecks, Call, Lock, Find, Build, Register, ReadBalance,
           Deregister, Return, Cleanup, taskVars
    <2> QED
        BY <2>1, <2>2
<1>2. ASSUME NEW a \in Activations, SpawnRpcTask(a) \/ Finish(a)
      PROVE  ListenInv'
    BY <1>2 DEF SpawnRpcTask, Finish, register_task, on_task_finished, AfterCancel
<1>3. ASSUME NEW a \in Activations, Ask(a)
      PROVE  ListenInv'
    BY <1>3 DEF Ask, set_task_is_waiting_for_user_action
<1>4. ASSUME NEW a \in Activations, StopAsking(a) \/ Abort(a)
      PROVE  ListenInv'
    BY <1>4 DEF StopAsking, Abort, StopListening, Fails, AfterCancel
<1>5. ASSUME NEW t \in Tasks, UserRpc(t)
      PROVE  ListenInv'
    BY <1>5 DEF UserRpc, others, cancel_task, task_status_forgets, on_user_action
<1>6. ASSUME NEW k \in Tickers, DisableCoin(k) \/ DisableCoinEnds(k)
      PROVE  ListenInv'
    BY <1>6 DEF DisableCoin, DisableCoinEnds, taskVars
<1>7. CASE UNCHANGED vars
    BY <1>7 DEF vars, taskVars
<1> QED
    BY <1>1, <1>2, <1>3, <1>4, <1>5, <1>6, <1>7 DEF Next, Goes

(* The types hold, and an action waits in a channel only while the task that *)
(* asked for it is in wait_for_user_action.                                  *)
THEOREM ActivationTypes == Spec => []TypeOK
<1>1. Init => ListenInv
    BY ActivationAssumption DEF Init, TaskInit, ListenInv
<1>2. IInv /\ ListenInv => TypeOK
    BY DEF IInv, Shape, ListenInv, TypeOK
<1> QED
    BY <1>1, <1>2, NextListens, ActivationInvariant, PTL DEF Spec

(* Activations that share a ticker run one at a time: each holds the locks   *)
(* of all its tickers from the check that follows lock_activation on.        *)
THEOREM ActivationsRunOneAtATime == Spec => []OneAtATime
<1>1. IInv => OneAtATime
    BY DEF IInv, LockInv, OneAtATime
<1> QED
    BY <1>1, ActivationInvariant, PTL

(* What lp_coinfind saw under the lock holds up to the registration, so a    *)
(* coin is never built only to be refused by lp_register_coin.               *)
THEOREM NothingBuiltInVain == Spec => []BuildsNotInVain
<1>1. IInv => BuildsNotInVain
    BY DEF IInv
<1> QED
    BY <1>1, ActivationInvariant, PTL

(* A cancelled task of a family with a cancel_cleanup leaves nothing behind, *)
(* wherever the cancellation met it.                                         *)
THEOREM CancelledIsCleanedUp == Spec => []CleanupLeavesNothing
<1>1. IInv => CleanupLeavesNothing
    BY DEF IInv
<1> QED
    BY <1>1, ActivationInvariant, PTL

(* The coin of a task that reports "Ok" is active until it is disabled.      *)
THEOREM SuccessIsActive == Spec => []OkIsActive
<1>1. IInv => OkIsActive
    BY Zenon DEF IInv, CancelInv, TaskInv, OkIsActive
<1> QED
    BY <1>1, ActivationInvariant, PTL

(* One step replaces no coin, and removes only what its own activation       *)
(* registered or the user disables.                                          *)
LEMMA StepRemovesOwn ==
    ASSUME IInv, [Next]_vars, NEW k \in Tickers, Solo(k), coins[k] # NoOne,
           coins'[k] # coins[k]
    PROVE  coins'[k] = NoOne /\ (k \in disabled' \/ pc'[coins[k]] # pc[coins[k]])
<1> USE ActivationAssumption, TickersOf, TaskKinds DEF IInv, Shape
<1>1. ASSUME NEW a \in Activations, Register(a)
      PROVE  FALSE
    <2>1. k \in Wanted(a) => k = Main[a]
        BY Zenon DEF Solo
    <2> QED
        BY <1>1, <2>1 DEF Register
<1>2. ASSUME NEW a \in Activations, Deregister(a)
      PROVE  coins'[k] = NoOne /\ pc'[coins[k]] # pc[coins[k]]
    BY <1>2 DEF Deregister, GoTo, LegacyInv
<1>3. ASSUME NEW a \in Activations, Cleanup(a)
      PROVE  coins'[k] = NoOne /\ (k \in disabled' \/ pc'[coins[k]] # pc[coins[k]])
    BY <1>3 DEF Cleanup, GoTo, TaskInv, PlacesInv
<1>4. ASSUME NEW j \in Tickers, DisableCoinEnds(j)
      PROVE  coins'[k] = NoOne /\ k \in disabled'
    BY <1>4 DEF DisableCoinEnds
<1>5. \/ \E a \in Activations : Register(a) \/ Deregister(a) \/ Cleanup(a)
      \/ \E j \in Tickers : DisableCoinEnds(j)
    BY Zenon DEF Next, Goes, vars, InitChecks, Call, SpawnRpcTask, Lock, Find, Ask,
       StopAsking, Build, ReadBalance, Return, Finish, Abort, UserRpc, others,
       DisableCoin
<1> QED
    BY Zenon, <1>1, <1>2, <1>3, <1>4, <1>5

(* An active coin is never replaced; only the user, or the activation that   *)
(* registered it, removes it.                                                *)
THEOREM OthersCoinsAreSafe == Spec => OnlyOwnCoinRemoved
<1>1. ASSUME IInv, [Next]_vars
      PROVE  [\A k \in Tickers :
                 Solo(k) /\ coins[k] # NoOne /\ coins'[k] # coins[k] =>
                     /\ coins'[k] = NoOne
                     /\ k \in disabled' \/ pc'[coins[k]] # pc[coins[k]]]_vars
    BY Zenon, <1>1, StepRemovesOwn
<1> QED
    BY <1>1, ActivationInvariant, PTL DEF Spec, OnlyOwnCoinRemoved
=============================================================================
