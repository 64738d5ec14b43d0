---------------------------- MODULE BalanceWatch ----------------------------
(***************************************************************************)
(* The balance watch of a base coin: while the store of the node holds     *)
(* maker orders of the coin, one task polls its balance and has the orders *)
(* cut when it moves.  The last order that leaves the store ends the watch *)
(* under the store's lock; its task learns of it when it wakes.  A watch   *)
(* that starts later has a generation and a task of its own.               *)
(*                                                                         *)
(* A balance is the volume that calc_max_maker_vol leaves of it.           *)
(***************************************************************************)
EXTENDS MakerOutbox

VARIABLES
    store,      \* the maker orders in MakerOrdersContext
    watch,      \* the registered watch: its generation, 0 for none, and last_seen
    generation, \* next_generation
    task,       \* generation -> where its task is, and what it works on
    active,     \* the coins are active
    balance,    \* the balance of the base coin
    changes     \* how often it may still change

coins == <<active, balance, changes>>
watchVars == <<store, watch, generation, task, coins>>

None == -1
Generations == 1..Cardinality(Orders)
NoWatch == [gen |-> 0, seen |-> None]
NoTask == [at |-> "none", value |-> 0, todo |-> {}]

Registered(gen, seed) == [gen |-> gen, seen |-> seed]
Asleep == [NoTask EXCEPT !.at = "asleep"]
Ended == [NoTask EXCEPT !.at = "ended"]

\* MakerOrdersContext::add_order.
AddOrder(o) == store' = store \union {o}

\* MakerOrdersContext::remove_order_with_gate and drop_expired.
RemoveOrder(o) ==
    /\ store' = store \ {o}
    /\ watch' = IF store = {o} THEN NoWatch ELSE watch

\* start_maker_balance_watch.
StartWatch(seed) ==
    IF store # {} /\ watch.gen = 0
      THEN /\ watch' = Registered(generation, seed)
           /\ task' = [task EXCEPT ![generation] = Asleep]
           /\ generation' = generation + 1
      ELSE UNCHANGED <<watch, task, generation>>

\* An end of a task that ends the watch of its coin.
StopGenerationAny(g) == watch' = NoWatch

\* BalanceWatches::stop_generation.
StopGeneration(g) == watch' = IF watch.gen = g THEN NoWatch ELSE watch

balance_watch_is_live(g) == watch.gen = g /\ store # {}

\* poll_maker_balance up to the read.  A coin that is not active, or a read
\* that fails, leaves the task asleep.
PollWakes(g) ==
    /\ task[g].at = "asleep"
    /\ IF balance_watch_is_live(g)
         THEN /\ active
              /\ task' = [task EXCEPT ![g] = [NoTask EXCEPT !.at = "read", !.value = balance]]
              /\ UNCHANGED watch
         ELSE StopGeneration(g) /\ task' = [task EXCEPT ![g] = Ended]
    /\ UNCHANGED <<store, generation, coins>>

\* observe_balance.
ObserveBalance(g) ==
    /\ task[g].at = "read"
    /\ \/ /\ store = {}
          /\ StopGeneration(g) /\ task' = [task EXCEPT ![g] = Ended]
       \/ /\ store # {} /\ watch.gen # g
          /\ task' = [task EXCEPT ![g] = Ended] /\ UNCHANGED watch
       \/ /\ balance_watch_is_live(g) /\ watch.seen = task[g].value
          /\ task' = [task EXCEPT ![g] = Asleep] /\ UNCHANGED watch
       \/ /\ balance_watch_is_live(g) /\ watch.seen # task[g].value
          /\ watch' = [watch EXCEPT !.seen = task[g].value]
          /\ task' = [task EXCEPT ![g].at = "changed"]
    /\ UNCHANGED <<store, generation, coins>>

\* balance_updated up to its snapshot of the orders, or its early return when
\* the volume cannot be had; with no order left there is nothing to visit.
HandlerSnapshots(g) ==
    /\ task[g].at = "changed"
    /\ \/ store # {} /\ task' = [task EXCEPT ![g].at = "handle", ![g].todo = store]
       \/ task' = [task EXCEPT ![g] = Asleep]
    /\ UNCHANGED <<store, watch, generation, coins>>

\* The handler is done with an order, and with the last one goes to sleep.
AfterVisit(g, o) ==
    task' = [task EXCEPT ![g] = IF @.todo = {o} THEN Asleep
                                ELSE [task[g] EXCEPT !.todo = @ \ {o}]]

BalanceChanges(v) ==
    /\ changes > 0 /\ v # balance
    /\ balance' = v /\ changes' = changes - 1
    /\ UNCHANGED <<store, watch, generation, task, active>>

CoinsActivate ==
    /\ ~active
    /\ active' = TRUE
    /\ UNCHANGED <<store, watch, generation, task, balance, changes>>

WatchTypeOK ==
    /\ store \subseteq Orders /\ balance \in Volumes /\ active \in BOOLEAN
    /\ watch \in [gen : 0..Cardinality(Orders), seen : Volumes \union {None}]
    /\ generation \in 1..Cardinality(Orders) + 1
    /\ task \in [Generations -> [at : {"none", "asleep", "read", "changed", "handle", "ended"},
                                 value : Volumes, todo : SUBSET Orders]]
    /\ changes \in Nat
=============================================================================
