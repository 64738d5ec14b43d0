----------------------------- MODULE MakerPublish ---------------------------
(***************************************************************************)
(* How the maker orders of a node reach the order books.  An order enters  *)
(* the store when the user creates it, when a timed-out taker order turns  *)
(* into it, or at the start of the node; it leaves when the user or the    *)
(* balance watch cancels it, when it expires, or when the maintenance      *)
(* finds that it cannot be funded.  The node puts it in its own order book *)
(* and announces it through the outbox; a peer keeps a copy, which the     *)
(* keep-alives of the maker repair.                                        *)
(*                                                                         *)
(* The maintenance is one task: a conversion, an expiry and the pass over  *)
(* missing orders do not overlap.  Everything else runs beside it.  All    *)
(* orders have one base coin, and no matches: what is reserved is the      *)
(* subject of OrderMatch.                                                  *)
(***************************************************************************)
EXTENDS BalanceWatch

CONSTANTS
    Converted,   \* the orders that are timed-out taker orders
    Scenarios    \* the starting points

ASSUME PublishAssumption ==
    /\ IsFiniteSet(Orders) /\ Converted \subseteq Orders
    /\ \A s \in Scenarios :
         /\ s.coalescing \in BOOLEAN /\ s.active \in BOOLEAN
         /\ s.ceiling \in Nat \ {0}
         /\ s.signals \in Nat /\ s.losses \in Nat /\ s.changes \in Nat
         /\ s.balance \in Volumes
         /\ s.later \subseteq Orders /\ s.restored \subseteq Orders \ s.later

MinVolume == 1
\* The volume of a taker order, and of a restored order.
FullVolume == CHOOSE m \in Volumes : \A v \in Volumes : v <= m

VARIABLES
    phase,    \* order -> how far its entry into the store has come
    seed,     \* order -> the balance its creation read
    vol,      \* order -> its available amount
    mybook,   \* order -> its volume in the own order book, 0 if absent
    pass,     \* the maintenance pass over the orders missing there
    dropped,  \* expired orders out of the store and not yet cancelled
    losses,   \* how many messages the network may still lose
    book,     \* order -> its volume in the order book of a peer
    guard,    \* the peer's recently_cancelled
    answer,   \* the peer's synchronisation request, or the answer to it
    heard,    \* the orders whose cancellation the peer has handled
    raced     \* converted orders cut or taken out before their announcement

makerVars == <<phase, seed, vol, mybook, pass, dropped, raced>>
peerVars == <<losses, book, guard, answer, heard>>
vars == <<outboxVars, watchVars, makerVars, peerVars>>

Unlisted == [o \in Orders |-> 0]
NoPass == [todo |-> {}, vol |-> None, cancel |-> {}]
NoAnswer == [o \in Orders |-> None]
Requested == [o \in Orders |-> None - 1]

Entering(o) == phase[o] \in {"added", "saving"}
Idle == pass = NoPass /\ dropped = {} /\ \A o \in Converted : ~Entering(o)

-----------------------------------------------------------------------------
(* The announcements: the own order book changes at once, the message goes  *)
(* to the outbox.                                                           *)

Msg(kind, o, v) == [kind |-> kind, order |-> o, vol |-> v]

\* maker_order_created_p2p_notify.
NotifyCreated(o, v) ==
    /\ mybook' = [mybook EXCEPT ![o] = v]
    /\ Publish(Msg("created", o, v))

\* An update that lists an absent order.
NotifyUpdatedAlways(o, v) ==
    /\ mybook' = [mybook EXCEPT ![o] = v]
    /\ Publish(Msg("updated", o, v))

\* maker_order_updated_p2p_notify, which leaves an absent order absent.
NotifyUpdated(o, v) ==
    /\ mybook' = [mybook EXCEPT ![o] = IF @ = 0 THEN 0 ELSE v]
    /\ Publish(Msg("updated", o, v))

\* maker_order_cancelled_p2p_notify.
NotifyCancelled(o) ==
    /\ mybook' = [mybook EXCEPT ![o] = 0]
    /\ Publish(Msg("cancelled", o, 0))

\* Remembers that a converted order changed before its announcement.
Race(o) == raced' = IF o \in Converted /\ Entering(o) THEN raced \union {o} ELSE raced

-----------------------------------------------------------------------------
(* Orders enter the store.                                                  *)

\* create_maker_order up to its checks: the volume the user asks for fits the
\* balance, which becomes the seed of the watch.
CreateChecks(o, v) ==
    /\ o \notin Converted /\ phase[o] = "new" /\ active
    /\ v \in MinVolume..balance
    /\ phase' = [phase EXCEPT ![o] = "checked"]
    /\ seed' = [seed EXCEPT ![o] = balance]
    /\ vol' = [vol EXCEPT ![o] = v]
    /\ UNCHANGED <<outboxVars, watchVars, mybook, pass, dropped, raced, peerVars>>

\* The rest of it, up to the watch.
CreateAnnounces(o) ==
    /\ phase[o] = "checked"
    /\ NotifyCreated(o, vol[o])
    /\ AddOrder(o)
    /\ phase' = [phase EXCEPT ![o] = "added"]
    /\ UNCHANGED <<watch, generation, task, coins, seed, vol, pass, dropped, raced, peerVars>>

\* handle_timed_out_taker_orders up to the watch.
ConvertAdds(o) ==
    /\ o \in Converted /\ phase[o] = "new" /\ Idle
    /\ AddOrder(o)
    /\ phase' = [phase EXCEPT ![o] = "added"]
    /\ UNCHANGED <<outboxVars, watch, generation, task, coins, seed, vol, mybook, pass,
                   dropped, raced, peerVars>>

\* start_maker_balance_watch, with no await before it.
WatchStarts(o) ==
    /\ phase[o] = "added"
    /\ StartWatch(seed[o])
    /\ phase' = [phase EXCEPT ![o] = IF o \in Converted THEN "saving" ELSE "done"]
    /\ UNCHANGED <<outboxVars, store, coins, seed, vol, mybook, pass, dropped, raced,
                   peerVars>>

\* The end of the conversion, after the awaits of its saves: the announcement is
\* of the copy made before them, if the coins are active.
ConvertAnnounces(o) ==
    /\ phase[o] = "saving"
    /\ IF active THEN NotifyCreated(o, FullVolume) ELSE UNCHANGED <<outboxVars, mybook>>
    /\ phase' = [phase EXCEPT ![o] = "done"]
    /\ UNCHANGED <<watchVars, seed, vol, pass, dropped, raced, peerVars>>

-----------------------------------------------------------------------------
(* Orders leave the store or lose volume.                                   *)

\* cancel_order.
CancelOrder(o) ==
    /\ o \in store
    /\ RemoveOrder(o)
    /\ NotifyCancelled(o)
    /\ Race(o)
    /\ UNCHANGED <<generation, task, coins, phase, seed, vol, pass, dropped, peerVars>>

\* cancel_expired_maker_orders: the order leaves the store first.  A converted
\* order has no timeout.
ExpireDrops(o) ==
    /\ o \in store \ Converted /\ phase[o] = "done" /\ Idle
    /\ RemoveOrder(o)
    /\ dropped' = dropped \union {o}
    /\ UNCHANGED <<outboxVars, generation, task, coins, phase, seed, vol, mybook, pass,
                   raced, peerVars>>

ExpireNotifies(o) ==
    /\ o \in dropped
    /\ NotifyCancelled(o)
    /\ dropped' = dropped \ {o}
    /\ UNCHANGED <<watchVars, phase, seed, vol, pass, raced, peerVars>>

\* balance_updated for one order of its snapshot, under the order's lock.
BalanceUpdated(g, o) ==
    LET v == task[g].value
    IN  /\ task[g].at = "handle" /\ o \in task[g].todo
        /\ \/ /\ v < MinVolume /\ o \in store
              /\ RemoveOrder(o) /\ NotifyCancelled(o) /\ Race(o)
              /\ UNCHANGED vol
           \/ /\ v >= MinVolume \/ o \notin store
              /\ v < vol[o]
              /\ vol' = [vol EXCEPT ![o] = v] /\ NotifyUpdated(o, v) /\ Race(o)
              /\ UNCHANGED <<store, watch>>
           \/ /\ v >= MinVolume \/ o \notin store
              /\ v >= vol[o]
              /\ UNCHANGED <<outboxVars, store, watch, vol, mybook, raced>>
        /\ AfterVisit(g, o)
        /\ UNCHANGED <<generation, coins, phase, seed, pass, dropped, peerVars>>

-----------------------------------------------------------------------------
(* reconcile_missing_own_maker_orders.                                      *)

\* A pass over the orders that were maker orders from the start.
MissingMade == {o \in store \ Converted : mybook[o] = 0}

\* The orders of the store that the own order book lacks.
Missing == {o \in store : mybook[o] = 0}

\* One read of the balance, which may fail, for all of them.
ReconcileReads ==
    /\ Idle /\ active /\ Missing # {}
    /\ \E v \in {balance, None} :
         pass' = [todo |-> Missing, vol |-> v, cancel |-> {}]
    /\ UNCHANGED <<outboxVars, watchVars, phase, seed, vol, mybook, dropped, raced, peerVars>>

\* The pass ends with its last order.
Rest(p) == IF p.todo = {} /\ p.cancel = {} THEN NoPass ELSE p

\* What is left of the volume of an order.
Reconciled(o) == IF pass.vol < vol[o] THEN pass.vol ELSE vol[o]

\* The order may have left the store since it was listed.
ReconcileApplies(o) ==
    /\ o \in pass.todo
    /\ \/ /\ pass.vol = None
          /\ pass' = Rest([pass EXCEPT !.todo = @ \ {o}, !.cancel = @ \union {o}])
          /\ UNCHANGED <<outboxVars, vol, mybook>>
       \/ /\ pass.vol # None /\ o \notin store
          /\ pass' = Rest([pass EXCEPT !.todo = @ \ {o}])
          /\ UNCHANGED <<outboxVars, vol, mybook>>
       \/ /\ pass.vol # None /\ o \in store
          /\ vol' = [vol EXCEPT ![o] = Reconciled(o)]
          /\ IF Reconciled(o) < MinVolume
               THEN /\ pass' = Rest([pass EXCEPT !.todo = @ \ {o}, !.cancel = @ \union {o}])
                    /\ UNCHANGED <<outboxVars, mybook>>
               ELSE /\ pass' = Rest([pass EXCEPT !.todo = @ \ {o}])
                    /\ NotifyCreated(o, Reconciled(o))
    /\ UNCHANGED <<watchVars, phase, seed, dropped, raced, peerVars>>

\* An order that cannot be funded goes without an announcement: the own book
\* does not list it.
ReconcileCancels(o) ==
    /\ pass.todo = {} /\ o \in pass.cancel
    /\ IF o \in store THEN RemoveOrder(o) ELSE UNCHANGED <<store, watch>>
    /\ pass' = Rest([pass EXCEPT !.cancel = @ \ {o}])
    /\ UNCHANGED <<outboxVars, generation, task, coins, phase, seed, vol, mybook, dropped,
                   raced, peerVars>>

-----------------------------------------------------------------------------
(* A peer.                                                                  *)

\* delete_order.
DeleteOrder(o) ==
    /\ book' = [book EXCEPT ![o] = 0]
    /\ guard' = guard \union {o}
    /\ heard' = heard \union {o}

\* index_insert_or_update.
Insert(o, v) == book' = [book EXCEPT ![o] = IF o \in guard THEN @ ELSE v]

\* process_msg for an order message.
Deliver(m) ==
    /\ m \in wire
    /\ wire' = wire \ {m}
    /\ \/ m.kind = "created" /\ Insert(m.order, m.vol) /\ UNCHANGED <<guard, heard>>
       \/ /\ m.kind = "updated"
          /\ IF book[m.order] = 0 THEN UNCHANGED book ELSE Insert(m.order, m.vol)
          /\ UNCHANGED <<guard, heard>>
       \/ m.kind = "cancelled" /\ DeleteOrder(m.order)
    /\ UNCHANGED <<options, outbox, quiet, recent, pressure, signals, watchVars,
                   makerVars, losses, answer>>

Lose(m) ==
    /\ m \in wire
    /\ wire' = wire \ {m}
    /\ losses > 0 /\ losses' = losses - 1
    /\ UNCHANGED <<options, outbox, quiet, recent, pressure, signals, watchVars,
                   makerVars, book, guard, answer, heard>>

\* Roots that tell only which orders there are.
OtherOrders == {o \in Orders : book[o] # 0} # {o \in Orders : mybook[o] # 0}

\* The roots of the two books differ.
OtherRoot == book # mybook

\* A keep-alive of the maker, which advertises a root only while the own book
\* lists an order, shows the peer that its copy differs.
SyncRequested ==
    /\ mybook # Unlisted /\ OtherRoot /\ answer = NoAnswer
    /\ answer' = Requested
    /\ UNCHANGED <<outboxVars, watchVars, makerVars, losses, book, guard, heard>>

\* The request is answered from the own book.
SyncAnswered ==
    /\ answer = Requested
    /\ answer' = mybook
    /\ UNCHANGED <<outboxVars, watchVars, makerVars, losses, book, guard, heard>>

\* apply_sync_answer, later.
SyncApplied ==
    /\ answer \notin {NoAnswer, Requested}
    /\ book' = [o \in Orders |-> IF o \in guard THEN 0 ELSE answer[o]]
    /\ answer' = NoAnswer
    /\ UNCHANGED <<outboxVars, watchVars, makerVars, losses, guard, heard>>

\* Without keep-alives the sweep of the peer drops the pubkey.
Evict ==
    /\ mybook = Unlisted /\ book # Unlisted
    /\ book' = Unlisted
    /\ UNCHANGED <<outboxVars, watchVars, makerVars, losses, guard, answer, heard>>

\* An entry of recently_cancelled lives longer than a message or an answer is
\* on its way.
GuardExpires(o) ==
    /\ o \in guard
    /\ answer[o] < 1 /\ \A m \in wire : m.order # o
    /\ guard' = guard \ {o}
    /\ UNCHANGED <<outboxVars, watchVars, makerVars, losses, book, answer, heard>>

-----------------------------------------------------------------------------
\* A node starts with the restored order, if there is one, in its store, and
\* with a watch that has not seen a balance.
Init ==
    /\ \E s \in Scenarios :
        /\ coalescing = s.coalescing /\ ceiling = s.ceiling
        /\ signals = s.signals /\ losses = s.losses
        /\ active = s.active /\ balance = s.balance /\ changes = s.changes
        /\ store = s.restored
        /\ phase = [o \in Orders |-> IF o \in s.later THEN "new" ELSE "done"]
    /\ OutboxInit
    /\ watch = IF store = {} THEN NoWatch ELSE Registered(1, None)
    /\ generation = IF store = {} THEN 1 ELSE 2
    /\ task = [g \in Generations |-> IF g < generation THEN Asleep ELSE NoTask]
    /\ seed = [o \in Orders |-> None]
    /\ vol = [o \in Orders |-> FullVolume]
    /\ mybook = Unlisted /\ pass = NoPass /\ dropped = {} /\ raced = {}
    /\ book = Unlisted /\ guard = {} /\ answer = NoAnswer /\ heard = {}

Enter(o) ==
    CreateAnnounces(o) \/ ConvertAdds(o) \/ WatchStarts(o) \/ ConvertAnnounces(o)

Reconcile == ReconcileReads \/ \E o \in Orders : ReconcileApplies(o) \/ ReconcileCancels(o)

WatchStep(g) ==
    /\ PollWakes(g) \/ ObserveBalance(g) \/ HandlerSnapshots(g)
    /\ UNCHANGED <<outboxVars, makerVars, peerVars>>

OutboxStep(step) == step /\ UNCHANGED <<watchVars, makerVars, peerVars>>
CoinStep(step) == step /\ UNCHANGED <<outboxVars, makerVars, peerVars>>

Sync == SyncRequested \/ SyncAnswered \/ SyncApplied \/ Evict

Next ==
    \/ \E o \in Orders : \/ Enter(o) \/ CancelOrder(o)
                         \/ ExpireDrops(o) \/ ExpireNotifies(o)
                         \/ \E v \in Volumes : CreateChecks(o, v)
    \/ Reconcile
    \/ \E g \in Generations : WatchStep(g) \/ \E o \in Orders : BalanceUpdated(g, o)
    \/ \E later \in BOOLEAN : OutboxStep(Pump(later))
    \/ OutboxStep(PressureRises) \/ OutboxStep(PressureFalls) \/ OutboxStep(RelayCloses)
    \/ CoinStep(CoinsActivate) \/ \E v \in Volumes : CoinStep(BalanceChanges(v))
    \/ \E m \in wire : Deliver(m) \/ Lose(m)
    \/ Sync
    \/ \E o \in Orders : GuardExpires(o)

Spec == Init /\ [][Next]_vars

\* What goes on without the user: time passes, a relay drains its queue, coins
\* are activated, tasks run on and the network delivers.
Progress ==
    \/ \E o \in Orders : Enter(o) \/ ExpireNotifies(o)
    \/ Reconcile
    \/ \E m \in wire : Deliver(m)
    \/ CoinStep(CoinsActivate)
    \/ OutboxStep(PressureFalls) \/ OutboxStep(Pump(TRUE))

\* Keep-alives and sweeps are periodic beside it.
Fairness == WF_vars(Progress) /\ WF_vars(Sync)

FairSpec == Spec /\ Fairness

-----------------------------------------------------------------------------
\* The state has its types: the bucket never holds more than its capacity, and
\* the outbox at most one message for each order.
TypeOK ==
    /\ OutboxTypeOK /\ WatchTypeOK
    /\ \A i, j \in DOMAIN outbox.pending :
         outbox.pending[i].order = outbox.pending[j].order => i = j
    /\ phase \in [Orders -> {"new", "checked", "added", "saving", "done"}]
    /\ seed \in [Orders -> Volumes \union {None}]
    /\ vol \in [Orders -> Volumes] /\ mybook \in [Orders -> Volumes]
    /\ pass \in [todo : SUBSET Orders, vol : Volumes \union {None}, cancel : SUBSET Orders]
    /\ dropped \subseteq Orders /\ raced \subseteq Converted
    /\ book \in [Orders -> Volumes] /\ guard \subseteq Orders /\ heard \subseteq Orders
    /\ answer \in [Orders -> Volumes \union {None, None - 1}] /\ losses \in Nat

\* Once a peer has handled the cancellation of an order it does not list the
\* order again, whatever message or answer comes late and however long the
\* outbox was held up: push takes the pending message out, record_cancel keeps
\* what is on its way out.  A converted order taken out before its announcement
\* is the exception.
CancelledNotRelisted == \A o \in heard \ raced : book[o] = 0

\* The balance of the base coin is watched exactly while the store has orders:
\* an order whose entry is complete has a registered watch with a task that
\* runs, and with the last order the watch is gone (decrement_ticker_count,
\* stop_generation).
WatchedWhileOrders ==
    /\ store = {} => watch = NoWatch
    /\ (\E o \in store : phase[o] # "added") =>
         watch.gen # 0 /\ task[watch.gen].at \notin {"none", "ended"}

\* The own order book lists an order with the volume it has, and lists none that
\* has left the store, save for an expired order about to be cancelled: also
\* when the maintenance pass cancels without an announcement.
OwnBookIsTrue ==
    \A o \in Orders \ raced :
        mybook[o] # 0 => mybook[o] = vol[o] /\ o \in store \union dropped

\* A signal that comes while the last trip rate is remembered finds the rate
\* below it, unless that was the floor: the outbox does not go back to the rate
\* that the relays gave way at (climb_limit).
TripFalls ==
    [][~outbox.degraded /\ outbox'.degraded /\ outbox.trip # 0
         => outbox'.trip < outbox.trip \/ outbox.trip = Floor]_vars

\* Every order that stays in the store is in the own order book in the end:
\* restored orders, and converted ones whose coins were not active
\* (reconcile_missing_own_maker_orders).
OrdersListed == <>[](\A o \in store : mybook[o] # 0)

\* No announcement stays in the outbox for ever: degraded mode ends and the
\* bucket fills (advance, release_budgeted).  It takes a bucket that can hold a
\* token: with a maker_update_rate_max below that the code releases nothing.
OutboxDrains == ceiling >= Token => <>[](outbox.pending = <<>>)

\* The order book of a peer becomes the maker's, whatever messages were lost
\* or came in another order (process_orders_keep_alive, stale_pubkeys).
PeersLearn == <>[](\A o \in Orders \ raced : book[o] = mybook[o])
=============================================================================
