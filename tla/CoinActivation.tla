--------------------------- MODULE CoinActivation ---------------------------
(***************************************************************************)
(* Activations of coins that run at the same time: tasks under the RPC     *)
(* task manager (standalone coins and layer-2 coins, tokens, platform      *)
(* coins with tokens), the one-shot calls, and the legacy enable and       *)
(* electrum, together with disable_coin.                                   *)
(*                                                                         *)
(* An activation locks the tickers it registers, looks whether its own is  *)
(* active, builds the coin, and registers it in the map of coins, whose    *)
(* mutex makes every look and every change one step.  The future of a task *)
(* that was cancelled is dropped where it waits; but it is polled before   *)
(* its abort handler, so it may get further, to the end even, first.       *)
(***************************************************************************)
EXTENDS RpcTask

CONSTANTS
    Activations, \* the calls: each activates once
    Kind,        \* the family of each
    Main,        \* the ticker each activates; tickers are numbers, for their order
    Tokens,      \* the tickers a platform's request brings along
    Needs,       \* the tickers that must be active for a token or layer-2 coin
    Reports,     \* the platform coins with REPORTS_BALANCE_AND_FINISHING_PROGRESS
    Scenarios,   \* the sets of activations that take part
    NoOne

Wanted(a) == {Main[a]} \union Tokens[a]
Tickers == UNION {Wanted(a) \union Needs[a] : a \in Activations}

\* Standalone and layer-2 coins ("coin") and tokens undo a cancelled
\* activation; the task of a platform coin keeps the default, no cleanup.
HasCleanup(a) == Kind[a] \in {"coin", "token"}

ASSUME ActivationAssumption ==
    /\ Kind \in [Activations -> {"coin", "token", "platform", "oneshot", "legacy"}]
    /\ Tasks = {a \in Activations : Kind[a] \in {"coin", "token", "platform"}}
    /\ Main \in [Activations -> Nat]
    /\ Tokens \in [Activations -> SUBSET Nat]
    /\ Needs \in [Activations -> SUBSET Nat]
    /\ \A a \in Activations :
          Kind[a] \in {"coin", "token", "legacy"} => Tokens[a] = {}
    /\ Scenarios \subseteq SUBSET Activations
    /\ NoOne \notin Activations

ASSUME ReportsAssumption == Reports \subseteq {a \in Activations : Kind[a] = "platform"}

VARIABLES
    pc,         \* activation -> where it is
    held,       \* ticker -> the activation that holds its lock
    coins,      \* ticker -> the activation that registered the active coin
    registered, \* registered_by_task
    result,     \* activation -> what it is about to report
    asked,      \* the tasks that have asked for a user action
    disabling,  \* the tickers a disable_coin call is at work on
    disabled    \* the tickers the user has disabled

vars == <<taskVars, pc, held, coins, registered, result, asked, disabling,
          disabled>>

GoTo(a, where) == pc' = [pc EXCEPT ![a] = where]

-----------------------------------------------------------------------------
(***************************************************************************)
(* The activation locks.                                                   *)
(***************************************************************************)
Locked(a) == {k \in Tickers : held[k] = a}

\* Any of the tickers, as in a request that is locked in its own order.
AnyTicker(a) == Wanted(a) \ Locked(a)

\* The locks are taken in the sorted order of the tickers.
NextTicker(a) ==
    {k \in Wanted(a) \ Locked(a) : \A j \in Wanted(a) \ Locked(a) : k <= j}

\* ActivationLocks::lock takes one more lock.
Lock(a) ==
    /\ pc[a] = "lock"
    /\ \E k \in NextTicker(a) :
          /\ held[k] = NoOne
          /\ held' = [held EXCEPT ![k] = a]
          /\ IF Wanted(a) = Locked(a) \union {k} THEN GoTo(a, "find")
                                                 ELSE UNCHANGED pc
    /\ UNCHANGED <<taskVars, coins, registered, result, asked, disabling,
                   disabled>>

\* The guard, or what was locked for it, is dropped.
Release(a) == held' = [k \in Tickers |-> IF held[k] = a THEN NoOne ELSE held[k]]

-----------------------------------------------------------------------------
(***************************************************************************)
(* The steps of an activation.                                             *)
(***************************************************************************)

\* The init method of a task: its synchronous checks.
InitChecks(t) ==
    /\ t \in Tasks /\ pc[t] = "idle"
    /\ coins[Main[t]] = NoOne
    /\ \A k \in Needs[t] : coins[k] # NoOne
    /\ GoTo(t, "checked")
    /\ UNCHANGED <<taskVars, held, coins, registered, result, asked,
                   disabling, disabled>>

\* Then spawn_rpc_task.
SpawnRpcTask(t) ==
    /\ t \in Tasks /\ pc[t] = "checked"
    /\ register_task(t)
    /\ GoTo(t, "lock")
    /\ UNCHANGED <<held, coins, registered, result, asked, disabling, disabled>>

\* A one-shot or legacy call.
Call(a) ==
    /\ a \notin Tasks /\ pc[a] = "idle"
    /\ GoTo(a, "lock")
    /\ UNCHANGED <<taskVars, held, coins, registered, result, asked,
                   disabling, disabled>>

\* The activation is about to return an error.
Fails(a) ==
    /\ GoTo(a, "return")
    /\ result' = [result EXCEPT ![a] = "Error"]

\* A check that only tasks make, before their init.
FindSkipped(a) ==
    /\ pc[a] = "find"
    /\ GoTo(a, "build")
    /\ UNCHANGED <<taskVars, held, coins, registered, result, asked,
                   disabling, disabled>>

\* lp_coinfind once the locks are held.  A one-shot call looks for the platform
\* coin here, a task has done so; the task of a platform coin reports that it
\* begins, which fails once it was cancelled.
Find(a) ==
    /\ pc[a] = "find"
    /\ IF /\ coins[Main[a]] = NoOne
          /\ a \in Tasks \/ \A k \in Needs[a] : coins[k] # NoOne
          /\ Kind[a] = "platform" => IsOngoing(a)
       THEN GoTo(a, "build") /\ UNCHANGED result
       ELSE Fails(a)
    /\ UNCHANGED <<taskVars, held, coins, registered, asked, disabling,
                   disabled>>

\* A hardware wallet needs the user, once.
Ask(t) ==
    /\ t \in Tasks \ asked /\ pc[t] = "build"
    /\ set_task_is_waiting_for_user_action(t)
    /\ asked' = asked \union {t}
    /\ GoTo(t, "ask")
    /\ UNCHANGED <<held, coins, registered, result, disabling, disabled>>

\* The user action is there, or the time is up.
StopAsking(t) ==
    /\ pc[t] = "ask"
    /\ StopListening(t)
    /\ \/ t \in answered /\ GoTo(t, "build") /\ UNCHANGED result
       \/ Fails(t)
    /\ UNCHANGED <<status, cancelled, held, coins, registered, asked,
                   disabling, disabled>>

\* The coin is built, or not.  The tasks of tokens and of some platform coins
\* report progress then, and end when that fails because they were cancelled.
Build(a) ==
    /\ pc[a] = "build"
    /\ \/ Fails(a)
       \/ /\ Kind[a] = "token" \/ a \in Reports => IsOngoing(a)
          /\ GoTo(a, "register") /\ UNCHANGED result
    /\ UNCHANGED <<taskVars, held, coins, registered, asked, disabling,
                   disabled>>

\* lp_register_coin, add_coin or add_platform_with_tokens, which replaces
\* tokens that are there.
Register(a) ==
    /\ pc[a] = "register"
    /\ IF coins[Main[a]] = NoOne
       THEN /\ coins' = [k \in Tickers |-> IF k \in Wanted(a) THEN a ELSE coins[k]]
            /\ registered' = registered \union {a}
            /\ result' = [result EXCEPT ![a] = "Ok"]
            /\ GoTo(a, IF Kind[a] = "legacy" THEN "balance" ELSE "return")
       ELSE Fails(a) /\ UNCHANGED <<coins, registered>>
    /\ UNCHANGED <<taskVars, held, asked, disabling, disabled>>

\* balance_of_registered_coin: the balance of the legacy answer.  When it
\* cannot be read the coin goes again, unless the configuration keeps it.
ReadBalance(a) ==
    /\ pc[a] = "balance"
    /\ \/ GoTo(a, "return") /\ UNCHANGED result
       \/ Fails(a)
       \/ /\ GoTo(a, "deregister")
          /\ result' = [result EXCEPT ![a] = "Error"]
    /\ UNCHANGED <<taskVars, held, coins, registered, asked, disabling,
                   disabled>>

\* deregister_coin_after_failed_balance_read
Deregister(a) ==
    /\ pc[a] = "deregister"
    /\ coins' = [coins EXCEPT ![Main[a]] = NoOne]
    /\ GoTo(a, "return")
    /\ UNCHANGED <<taskVars, held, registered, result, asked, disabling,
                   disabled>>

\* The activation returns, and its guard is dropped.
Return(a) ==
    /\ pc[a] = "return"
    /\ Release(a)
    /\ GoTo(a, IF a \in Tasks THEN "finish" ELSE "ended")
    /\ UNCHANGED <<taskVars, coins, registered, result, asked, disabling,
                   disabled>>

\* A cancelled task that just ends.
AfterCancelEnds(t) == "ended"

\* Where a cancelled task goes on.
AfterCancel(t) == IF HasCleanup(t) THEN "cleanup" ELSE "ended"

\* The task has returned: RpcTaskHandle::finish.
Finish(t) ==
    /\ pc[t] = "finish"
    /\ on_task_finished(t, result[t])
    /\ GoTo(t, IF status[t] = "none" THEN AfterCancel(t) ELSE "ended")
    /\ UNCHANGED <<held, coins, registered, result, asked, disabling, disabled>>

\* The abort handler of a cancelled task: its future is dropped where it waits.
Abort(t) ==
    /\ t \in Tasks /\ status[t] = "none"
    /\ pc[t] \in {"lock", "find", "build", "ask", "register"}
    /\ Release(t)
    /\ StopListening(t)
    /\ GoTo(t, AfterCancel(t))
    /\ UNCHANGED <<status, cancelled, coins, registered, result, asked,
                   disabling, disabled>>

\* A cleanup that removes whatever is active under the ticker.
CleanupAny(t) ==
    /\ pc[t] = "cleanup"
    /\ coins' = [coins EXCEPT ![Main[t]] = NoOne]
    /\ GoTo(t, "ended")
    /\ UNCHANGED <<taskVars, held, registered, result, asked, disabling,
                   disabled>>

\* cancel_cleanup of a task that was cancelled.
Cleanup(t) ==
    /\ pc[t] = "cleanup"
    /\ coins' = IF t \in registered THEN [coins EXCEPT ![Main[t]] = NoOne]
                                    ELSE coins
    /\ GoTo(t, "ended")
    /\ UNCHANGED <<taskVars, held, registered, result, asked, disabling,
                   disabled>>

-----------------------------------------------------------------------------
(***************************************************************************)
(* The user: cancels, reads and answers tasks, and disables coins.         *)
(***************************************************************************)
others == <<pc, held, coins, registered, result, asked, disabling, disabled>>

UserRpc(t) ==
    /\ cancel_task(t) \/ task_status_forgets(t) \/ on_user_action(t)
    /\ UNCHANGED others

\* disable_coin finds the coin.  The user disables each ticker at most once.
DisableCoin(k) ==
    /\ coins[k] # NoOne /\ k \notin disabling \union disabled
    /\ disabling' = disabling \union {k}
    /\ UNCHANGED <<taskVars, pc, held, coins, registered, result, asked,
                   disabled>>

\* It removes what is there by then, unless swaps or orders use the coin.
DisableCoinEnds(k) ==
    /\ k \in disabling
    /\ disabling' = disabling \ {k}
    /\ \/ UNCHANGED <<coins, disabled>>
       \/ /\ coins' = [coins EXCEPT ![k] = NoOne]
          /\ disabled' = disabled \union {k}
    /\ UNCHANGED <<taskVars, pc, held, registered, result, asked>>

Init ==
    /\ TaskInit
    /\ \E taking \in Scenarios :
          pc = [a \in Activations |-> IF a \in taking THEN "idle" ELSE "absent"]
    /\ held = [k \in Tickers |-> NoOne]
    /\ coins = [k \in Tickers |-> NoOne]
    /\ registered = {} /\ asked = {} /\ disabling = {} /\ disabled = {}
    /\ result = [a \in Activations |-> "none"]

\* What an activation does once it has begun.
Goes(a) ==
    \/ SpawnRpcTask(a) \/ Lock(a) \/ Find(a) \/ Ask(a) \/ StopAsking(a)
    \/ Build(a) \/ Register(a) \/ ReadBalance(a) \/ Deregister(a) \/ Return(a)
    \/ Finish(a) \/ Abort(a) \/ Cleanup(a)

Next ==
    \/ \E a \in Activations : InitChecks(a) \/ Call(a) \/ Goes(a)
    \/ \E t \in Tasks : UserRpc(t)
    \/ \E k \in Tickers : DisableCoin(k) \/ DisableCoinEnds(k)

Spec == Init /\ [][Next]_vars

\* The executor polls the futures that can go on, and a coin's calls return.
\* One condition for all is enough: each activation takes finitely many steps.
FairSpec == Spec /\ WF_vars(\E a \in Activations : Goes(a))

-----------------------------------------------------------------------------
(***************************************************************************)
(* Properties.                                                             *)
(***************************************************************************)
Places == {"absent", "idle", "checked", "lock", "find", "build", "ask",
           "register", "balance", "deregister", "return", "finish", "cleanup",
           "ended"}

(* The types of the variables.  An action waits in a channel only while the  *)
(* task that asked for it listens, which it does in wait_for_user_action.    *)
TypeOK ==
    /\ status \in [Tasks -> Entry]
    /\ listening \subseteq Tasks /\ answered \subseteq listening
    /\ \A t \in Tasks : t \in listening <=> pc[t] = "ask"
    /\ cancelled \subseteq Tasks
    /\ pc \in [Activations -> Places]
    /\ held \in [Tickers -> Activations \union {NoOne}]
    /\ coins \in [Tickers -> Activations \union {NoOne}]
    /\ registered \subseteq Activations
    /\ result \in [Activations -> {"none", "Ok", "Error"}]
    /\ asked \subseteq Tasks
    /\ disabling \subseteq Tickers /\ disabled \subseteq Tickers

Inside == {"find", "build", "ask", "register", "balance", "deregister"}

(* R55.1.12: activations that share a ticker run one at a time, from the     *)
(* check that follows lock_activation to the end of their own steps, also    *)
(* when a task that waits for the lock is cancelled.                         *)
OneAtATime ==
    \A a, b \in Activations :
        a # b /\ pc[a] \in Inside /\ pc[b] \in Inside => Wanted(a) \intersect Wanted(b) = {}

(* What lp_coinfind saw under the lock stays true up to the registration:    *)
(* no activation builds a coin, or asks the user for it, in vain because     *)
(* lp_register_coin then finds that another registered the ticker.           *)
BuildsNotInVain ==
    \A a \in Activations :
        pc[a] \in {"build", "ask", "register"} => coins[Main[a]] = NoOne

(* R55.2.14: a cancelled task with a cancel_cleanup, once it has ended,      *)
(* leaves nothing of its own registered, at whatever step the cancellation   *)
(* met it: waiting for a lock or the user, registering, or about to finish.  *)
CleanupLeavesNothing ==
    \A t \in cancelled : pc[t] = "ended" /\ HasCleanup(t) => \A k \in Tickers : coins[k] # t

(* R55.2.14 for every task, as written.                                      *)
CancelledLeavesNothing ==
    \A t \in cancelled : pc[t] = "ended" => \A k \in Tickers : coins[k] # t

\* No request brings the ticker along as a token.
Solo(k) == \A a \in Activations : k \in Wanted(a) => Main[a] = k

(* A result that a task reports stands: the coin of a task whose status is   *)
(* "Ok" is the one that is active, until the user disables the ticker.  In   *)
(* particular a task that lost a race, or was cancelled, reports no success. *)
OkIsActive ==
    \A t \in Tasks : status[t] = "Ok" /\ Solo(Main[t]) =>
        coins[Main[t]] = t \/ Main[t] \in disabled

(* R55.5.7, R55.5.8: an active coin is never replaced, and only the user or  *)
(* the activation that registered it removes it.  The clean-up of another    *)
(* task, or a legacy call whose balance read failed, leaves it alone.        *)
OnlyOwnCoinRemoved ==
    [][\A k \in Tickers :
          Solo(k) /\ coins[k] # NoOne /\ coins'[k] # coins[k] =>
              /\ coins'[k] = NoOne
              /\ k \in disabled' \/ pc'[coins[k]] # pc[coins[k]]]_vars

(* Every activation that begins ends, cancelled or not, however the requests *)
(* for overlapping sets of tickers interleave: they never wait for each      *)
(* other in a circle, since ActivationLocks::lock sorts the tickers.         *)
ActivationsEnd ==
    <>[](\A a \in Activations : pc[a] \in {"absent", "idle", "ended"})
=============================================================================
