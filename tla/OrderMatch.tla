----------------------------- MODULE OrderMatch -----------------------------
(***************************************************************************)
(* The legacy negotiation of maker and taker orders, which ends in a swap. *)
(* A taker order broadcasts a request; every maker node that has an order  *)
(* matching it reserves the volume and answers MakerReserved; the taker    *)
(* collects the answers for three seconds and connects to the cheapest;    *)
(* the maker starts its swap and answers MakerConnected; on that answer    *)
(* the taker starts its own.                                               *)
(*                                                                         *)
(* A handler takes the Arc of an order from the container first and the    *)
(* order's lock later, so an order can be removed between the two: "walk"  *)
(* and "connecting" are the handlers that hold such an Arc.  A negotiation *)
(* handler keeps the lock while its state is stored (busy = "locked"); the *)
(* other passes store, or delete, after they have released it.  There is   *)
(* no clock: a deadline may pass at any time.  A gossip message reaches a  *)
(* node at most once, in any order, or never; a message that its handler   *)
(* drops at once is one that never arrives.                                *)
(***************************************************************************)
EXTENDS Integers, FiniteSetsExt

CONSTANTS
    Orders,      \* uuids of the maker orders that exist from the start
    Takers,      \* uuids of the taker orders
    Nodes,       \* the nodes of the network
    NodeOf,      \* the node each order belongs to
    Offers,      \* the offers an update may come with
    Scenarios,   \* the starting points: offers, requests and bounds
    Volumes,     \* the volumes a balance event may leave
    Kept,        \* the orders with save_in_history
    Declined     \* <<order, taker>>: a coin declines the other's protocol

AllOrders == Orders \union Takers   \* a taker order may become a maker order

Price == (Nat \ {0}) \X (Nat \ {0})
Offer == [vol : Nat, min : Nat \ {0}, price : Price]
Request == [action : {"Buy", "Sell"}, base : Nat \ {0}, rel : Nat \ {0},
            min : Nat \ {0}, by : SUBSET AllOrders, gtc : BOOLEAN]

\* What may still happen: crashes of each node, update_maker_order calls, and
\* the taker orders yet to be placed.
Budget == [crashes : [Nodes -> Nat], updates : Nat, takers : SUBSET Takers]

ASSUME OrderMatchAssumption ==
    /\ Orders \intersect Takers = {} /\ IsFiniteSet(Takers)
    /\ NodeOf \in [AllOrders -> Nodes]
    /\ Offers \subseteq Offer
    /\ Volumes \subseteq Nat /\ Kept \subseteq AllOrders
    /\ Scenarios \subseteq [offer : [Orders -> Offer],
                            request : [Takers -> Request], budget : Budget]

VARIABLES
    request,    \* taker order -> its request
    order,      \* maker order -> its in-memory state
    saved,      \* maker order -> its active record on disk
    removals,   \* the maker orders whose removal the history records
    busy,       \* maker order -> the storage work under way: how, and the state
                \* published to the write gate
    update,     \* maker order -> the update_maker_order call in progress
    walk,       \* node, taker -> orders process_taker_request has yet to try
    connecting, \* <<taker, order>>: process_taker_connect holds the order's Arc
    taker,      \* taker order -> its in-memory state
    savedTaker, \* taker order -> its record on disk
    takerBusy,  \* taker order -> the storage work done under my_taker_orders
    pending,    \* taker order -> pending_maker_reserved
    collecting, \* taker order -> its first handler sleeps
    sent,       \* the messages broadcast so far
    seen,       \* node -> the messages it has handled
    makerSwaps, \* the swaps lp_connect_start_bob was called for
    takerSwaps, \* the swaps lp_connected_alice was called for
    cancelled,  \* the maker orders the user has cancelled
    crashed,    \* the nodes that have crashed
    budget      \* what may still happen

orderVars == <<order, saved, busy>>
takerVars == <<taker, savedTaker, takerBusy, pending, collecting>>
netVars == <<sent, seen>>
history == <<makerSwaps, takerSwaps, cancelled>>
rest == <<request, crashed, removals>>
vars == <<orderVars, update, budget, walk, connecting, takerVars, netVars,
          history, rest>>

-----------------------------------------------------------------------------
(***************************************************************************)
(* Orders and prices.  A price is a ratio <<n, d>>; side is the base coin  *)
(* of the maker order.  An amount of base 0 marks "no match".              *)
(***************************************************************************)
NoMatch == [base |-> 0, rel |-> 0, connected |-> FALSE]
NoOrder == [live |-> FALSE, side |-> "X", vol |-> 0, min |-> 0,
            price |-> <<1, 1>>, matches |-> [t \in Takers |-> NoMatch]]
NoTaker == [live |-> FALSE, matches |-> {}]
Idle == [how |-> "no", state |-> NoOrder]
Deletion == [how |-> "delete", state |-> NoOrder]
NoUpdate == [active |-> FALSE, before |-> NoOrder, vol |-> 0, min |-> 0,
             price |-> <<1, 1>>]

Matched(ord, t) == ord.matches[t].base > 0

Ongoing(ord, t) == Matched(ord, t) /\ ~ord.matches[t].connected

has_ongoing_matches(ord) == \E t \in Takers : Ongoing(ord, t)

reserved_amount(ord) ==
    MapThenSumSet(LAMBDA t : ord.matches[t].base, Takers)

available_amount(ord) == ord.vol - reserved_amount(ord)

\* The amounts at the maker's price.  The quotients are exact for the offers
\* and requests considered (BigRational in the code).
Quote(ord, r) ==
    IF r.action = "Buy"
    THEN [base |-> r.base, rel |-> (r.base * ord.price[1]) \div ord.price[2]]
    ELSE [base |-> (r.base * ord.price[2]) \div ord.price[1], rel |-> r.base]

PriceAgrees(ord, r) ==
    IF r.action = "Buy"
    THEN r.rel * ord.price[2] >= ord.price[1] * r.base
    ELSE r.base * ord.price[2] >= ord.price[1] * r.rel

match_with_request(ord, r) ==
    /\ ord.side = (IF r.action = "Buy" THEN "X" ELSE "Y")
    /\ Quote(ord, r).base \in ord.min .. available_amount(ord)
    /\ PriceAgrees(ord, r)

\* MakerReserved r answers request q of a taker order, within its limit.
match_reserved(q, r) ==
    /\ r.order \in q.by
    /\ r.side = (IF q.action = "Buy" THEN "X" ELSE "Y")
    /\ IF q.action = "Buy" THEN r.base = q.base /\ r.rel <= q.rel
                           ELSE r.rel = q.base /\ q.rel <= r.base

\* MakerReserved::price, compared crosswise.
CheaperOrEqual(r, s) == r.rel * s.base <= s.rel * r.base

\* From<TakerOrder> for MakerOrder
FromTakerOrder(r) ==
    IF r.action = "Sell"
    THEN [NoOrder EXCEPT !.live = TRUE, !.side = "X", !.vol = r.base,
                         !.min = r.min, !.price = <<r.rel, r.base>>]
    ELSE [NoOrder EXCEPT !.live = TRUE, !.side = "Y", !.vol = r.rel,
                         !.min = (r.min * r.rel) \div r.base,
                         !.price = <<r.base, r.rel>>]

-----------------------------------------------------------------------------
(***************************************************************************)
(* Messages, locks and storage.                                            *)
(***************************************************************************)
RequestMsg(t) == [kind |-> "request", taker |-> t]
ReservedMsg(o, t, q) == [kind |-> "reserved", order |-> o, taker |-> t,
                         side |-> order[o].side, base |-> q.base, rel |-> q.rel]
ConnectMsg(t, o) == [kind |-> "connect", taker |-> t, order |-> o]
ConnectedMsg(o, t) == [kind |-> "connected", order |-> o, taker |-> t]
Swap(o, t, m) == [order |-> o, taker |-> t, base |-> m.base, rel |-> m.rel]

\* Node n handles message msg, which a node other than n has broadcast.
Handle(n, msg) ==
    /\ msg \in sent /\ msg \notin seen[n]
    /\ seen' = [seen EXCEPT ![n] = @ \union {msg}]

\* The order's lock is free: no negotiation handler is storing it.
Free(o) == busy[o].how # "locked"

\* The my_taker_orders lock of the node of taker order t is free.
TakerFree(t) ==
    \A u \in Takers : NodeOf[u] = NodeOf[t] => takerBusy[u] = "no"

\* The changed order o is published to its write gate, unless it is taken out.
Publish(o, how) ==
    busy' = [busy EXCEPT ![o] = IF order[o].live
                                THEN [how |-> how, state |-> order'[o]] ELSE @]

\* RemovedMakerOrder::take_out followed by delete: the order leaves the
\* container at once and its record is deleted after the lock is released.
TakeOut(o) ==
    /\ order[o].live /\ Free(o)
    /\ order' = [order EXCEPT ![o].live = FALSE]
    /\ busy' = [busy EXCEPT ![o] = Deletion]

\* The storage work of order o is done: the newest published state is written,
\* or the record is deleted and the removal of an order with save_in_history
\* recorded.  The deletion of an order that expired meanwhile follows.
StoreMakerOrder(o) ==
    /\ busy[o].how # "no"
    /\ saved' = [saved EXCEPT ![o] = busy[o].state]
    /\ busy' = [busy EXCEPT ![o] = IF Free(o) \/ order[o].live THEN Idle ELSE Deletion]
    /\ removals' = IF busy[o].how = "delete" THEN removals \union ({o} \intersect Kept)
                                             ELSE removals
    /\ UNCHANGED <<order, update, budget, walk, connecting, takerVars,
                   netVars, history, request, crashed>>

-----------------------------------------------------------------------------
(***************************************************************************)
(* The taker's side.                                                       *)
(***************************************************************************)

\* lp_auto_buy: the request is broadcast, then the order is saved and
\* inserted, all with my_taker_orders locked.
LpAutoBuy(t) ==
    /\ t \in budget.takers /\ TakerFree(t)
    /\ budget' = [budget EXCEPT !.takers = @ \ {t}]
    /\ sent' = sent \union {RequestMsg(t)}
    /\ taker' = [taker EXCEPT ![t].live = TRUE]
    /\ takerBusy' = [takerBusy EXCEPT ![t] = "save"]
    /\ UNCHANGED <<orderVars, update, walk, connecting, savedTaker,
                   pending, collecting, seen, history, rest>>

\* process_maker_reserved, up to its sleep: an answer to a live order joins
\* the pending ones, and the handler of the first goes to sleep.  An answer
\* to an order that is gone is dropped.
ProcessMakerReserved(t, msg) ==
    /\ msg.kind = "reserved" /\ msg.taker = t
    /\ taker[t].live /\ TakerFree(t)
    /\ Handle(NodeOf[t], msg)
    /\ pending' = [pending EXCEPT ![t] = @ \union {msg}]
    /\ collecting' = [collecting EXCEPT ![t] = @ \/ pending[t] = {}]
    /\ UNCHANGED <<orderVars, update, budget, walk, connecting, taker,
                   savedTaker, takerBusy, sent, history, rest>>

\* The answers that match, whether or not the order has a match already.
AcceptableAgain(t) ==
    {r \in pending[t] : /\ match_reserved(request[t], r)
                        /\ <<r.order, t>> \notin Declined}

\* The pending answers the taker order may connect to.
Acceptable(t) ==
    {r \in pending[t] : /\ match_reserved(request[t], r)
                        /\ taker[t].matches = {}
                        /\ <<r.order, t>> \notin Declined}

\* process_maker_reserved, after its sleep: the order is gone or one of its
\* coins is (the answers stay pending), or no answer is acceptable or the
\* swap key is not the one the pair pays from, or the cheapest is connected.
SelectReserved(t) ==
    /\ collecting[t] /\ TakerFree(t)
    /\ collecting' = [collecting EXCEPT ![t] = FALSE]
    /\ \/ UNCHANGED <<taker, takerBusy, pending, sent>>
       \/ /\ taker[t].live
          /\ pending' = [pending EXCEPT ![t] = {}]
          /\ UNCHANGED <<taker, takerBusy, sent>>
       \/ /\ taker[t].live
          /\ \E r \in Acceptable(t) :
                /\ \A s \in Acceptable(t) : CheaperOrEqual(r, s)
                /\ sent' = sent \union {ConnectMsg(t, r.order)}
                /\ taker' = [taker EXCEPT ![t].matches =
                                @ \union {Swap(r.order, t, r)}]
          /\ pending' = [pending EXCEPT ![t] = {}]
          /\ takerBusy' = [takerBusy EXCEPT ![t] = "save"]
    /\ UNCHANGED <<orderVars, update, budget, walk, connecting, savedTaker,
                   seen, history, rest>>

\* Whichever match the order has.
AnyMatch(t, o) == taker[t].matches

\* The match of taker order t with maker order o.
MatchWith(t, o) == {m \in taker[t].matches : m.order = o}

\* process_maker_connected: the swap of the match starts with the reserved
\* amounts, and the order is removed and its record deleted.  The message is
\* dropped when the order or the match is not there.
ProcessMakerConnected(t, o) ==
    /\ taker[t].live /\ TakerFree(t)
    /\ Handle(NodeOf[t], ConnectedMsg(o, t))
    /\ \E m \in MatchWith(t, o) : takerSwaps' = takerSwaps \union {m}
    /\ taker' = [taker EXCEPT ![t].live = FALSE]
    /\ takerBusy' = [takerBusy EXCEPT ![t] = "delete"]
    /\ UNCHANGED <<orderVars, update, budget, walk, connecting, savedTaker,
                   pending, collecting, sent, makerSwaps, cancelled, rest>>

\* A pass that leaves an order with a match to the maker's answer.
MayTimeOutUnmatched(t) == taker[t].live /\ TakerFree(t) /\ taker[t].matches = {}

\* handle_timed_out_taker_orders looks at every order of the node.
MayTimeOut(t) == taker[t].live /\ TakerFree(t)

\* handle_timed_out_taker_orders: a timed out order is removed and its record
\* deleted; one that nobody matched and that is good till cancelled is issued
\* as a maker order then.
TimedOutTakerOrder(t) ==
    /\ MayTimeOut(t)
    /\ taker' = [taker EXCEPT ![t].live = FALSE]
    /\ takerBusy' = [takerBusy EXCEPT ![t] =
                        IF taker[t].matches = {} /\ request[t].gtc
                        THEN "toMaker" ELSE "delete"]
    /\ UNCHANGED <<orderVars, update, budget, walk, connecting, savedTaker,
                   pending, collecting, netVars, history, rest>>

\* cancel_order of a taker order: only while it has no match.
CancelTakerOrder(t) ==
    /\ taker[t].live /\ TakerFree(t) /\ taker[t].matches = {}
    /\ taker' = [taker EXCEPT ![t].live = FALSE]
    /\ takerBusy' = [takerBusy EXCEPT ![t] = "delete"]
    /\ UNCHANGED <<orderVars, update, budget, walk, connecting, savedTaker,
                   pending, collecting, netVars, history, rest>>

\* The storage work under my_taker_orders: the order is saved or its record is
\* deleted, and the lock is released.  An order that becomes a maker order joins
\* the container when its record is deleted, with the lock still held.
StoreTakerOrder(t) ==
    /\ takerBusy[t] \in {"save", "delete", "toMaker"}
    /\ savedTaker' = [savedTaker EXCEPT ![t] =
                        IF takerBusy[t] = "save" THEN taker[t] ELSE NoTaker]
    /\ IF takerBusy[t] = "toMaker"
       THEN /\ order' = [order EXCEPT ![t] = FromTakerOrder(request[t])]
            /\ takerBusy' = [takerBusy EXCEPT ![t] = "saveMaker"]
       ELSE /\ takerBusy' = [takerBusy EXCEPT ![t] = "no"]
            /\ UNCHANGED order
    /\ UNCHANGED <<saved, busy, update, budget, walk, connecting, taker, pending,
                   collecting, netVars, history, rest>>

\* save_new_active_maker_order for the order that joined the container: the
\* clone taken before is written past the order's write gate, whatever was
\* stored or deleted meanwhile, and the lock is released.
SaveConverted(t) ==
    /\ takerBusy[t] = "saveMaker"
    /\ saved' = [saved EXCEPT ![t] = FromTakerOrder(request[t])]
    /\ takerBusy' = [takerBusy EXCEPT ![t] = "no"]
    /\ UNCHANGED <<order, busy, update, budget, walk, connecting, taker,
                   savedTaker, pending, collecting, netVars, history, rest>>

-----------------------------------------------------------------------------
(***************************************************************************)
(* The maker's side: the handlers of the negotiation.                      *)
(***************************************************************************)

\* process_taker_request takes the Arcs of the node's orders that the request
\* may match.
TakeOrders(n, t) ==
    LET own == {o \in request[t].by : NodeOf[o] = n /\ order[o].live}
    IN
    /\ NodeOf[t] # n /\ own # {}
    /\ Handle(n, RequestMsg(t))
    /\ walk' = [walk EXCEPT ![n][t] = own]
    /\ UNCHANGED <<orderVars, update, budget, connecting, takerVars, sent,
                   history, rest>>

\* Its loop passes over an order that does not match.
PassOver(n, t, o) ==
    /\ o \in walk[n][t] /\ Free(o)
    /\ ~match_with_request(order[o], request[t])
    /\ walk' = [walk EXCEPT ![n][t] = @ \ {o}]
    /\ UNCHANGED <<orderVars, update, budget, connecting, takerVars, netVars,
                   history, rest>>

\* Its loop ends at the first order that matches: a coin is not active, or
\* the swap key is not the one the pair pays from and the order is cancelled,
\* or the request is not accepted, or the volume is reserved for it.
ProcessTakerRequest(n, t, o) ==
    /\ o \in walk[n][t] /\ Free(o)
    /\ match_with_request(order[o], request[t])
    /\ walk' = [walk EXCEPT ![n][t] = {}]
    /\ \/ UNCHANGED <<order, busy, sent>>
       \/ TakeOut(o) /\ UNCHANGED sent
       \/ /\ ~Matched(order[o], t) /\ <<o, t>> \notin Declined
          /\ LET q == Quote(order[o], request[t])
             IN  /\ order' = [order EXCEPT ![o].matches[t] =
                                [NoMatch EXCEPT !.base = q.base, !.rel = q.rel]]
                 /\ sent' = sent \union {ReservedMsg(o, t, q)}
          /\ Publish(o, "locked")
    /\ UNCHANGED <<saved, update, budget, connecting, takerVars, seen,
                   history, rest>>

\* process_taker_connect takes the order's Arc from the container; it drops
\* the message when the order is not there.
TakeOrder(t, o) ==
    /\ order[o].live
    /\ Handle(NodeOf[o], ConnectMsg(t, o))
    /\ connecting' = connecting \union {<<t, o>>}
    /\ UNCHANGED <<orderVars, update, budget, walk, takerVars, sent, history,
                   rest>>

\* The swap is started with the amounts m.
StartBob(t, o, m) ==
    /\ order' = [order EXCEPT ![o].matches[t].connected = TRUE]
    /\ makerSwaps' = makerSwaps \union {Swap(o, t, m)}
    /\ sent' = sent \union {ConnectedMsg(o, t)}
    /\ Publish(o, "locked")

\* process_taker_connect, under the order's lock.
ProcessTakerConnect(t, o) ==
    /\ <<t, o>> \in connecting /\ Free(o)
    /\ connecting' = connecting \ {<<t, o>>}
    /\ IF Ongoing(order[o], t)
       THEN StartBob(t, o, order[o].matches[t])
       ELSE UNCHANGED <<order, makerSwaps, sent, busy>>
    /\ UNCHANGED <<saved, update, budget, walk, takerVars, seen, takerSwaps,
                   cancelled, rest>>

-----------------------------------------------------------------------------
(***************************************************************************)
(* The maker's side: the loop's passes, the balance events and the calls   *)
(* of the user.                                                            *)
(***************************************************************************)

\* What the passes and the calls below leave alone.
OrderOnly == UNCHANGED <<saved, update, budget, walk, connecting, takerVars,
                         netVars, makerSwaps, takerSwaps, rest>>

\* A match that is old enough, connected or not.
Expired(o, t) == Matched(order[o], t)

\* A match that is dropped only when its volume is missed.
ExpiredIfShort(o, t) ==
    Ongoing(order[o], t) /\ available_amount(order[o]) < order[o].min

\* A match whose last update is 30 s ago and that is not connected.
TimedOut(o, t) == Ongoing(order[o], t)

\* handle_timed_out_maker_matches drops a match.
TimedOutMakerMatch(o, t) ==
    /\ order[o].live /\ Free(o) /\ TimedOut(o, t)
    /\ order' = [order EXCEPT ![o].matches[t] = NoMatch]
    /\ Publish(o, "open")
    /\ OrderOnly /\ UNCHANGED cancelled

\* check_balance_for_maker_orders removes an order too small to match.
CheckBalance(o) ==
    /\ available_amount(order[o]) < order[o].min
    /\ ~has_ongoing_matches(order[o])
    /\ TakeOut(o)
    /\ OrderOnly /\ UNCHANGED cancelled

\* cancel_expired_maker_orders, whatever the order's matches are.  drop_expired
\* does not wait for the order's lock, the deletion that follows does.
CancelExpired(o) ==
    /\ order[o].live
    /\ order' = [order EXCEPT ![o].live = FALSE]
    /\ busy' = IF Free(o) THEN [busy EXCEPT ![o] = Deletion] ELSE busy
    /\ OrderOnly /\ UNCHANGED cancelled

\* cancel_previous_maker_orders of setprice, whatever the matches are.
CancelPrevious(o) == TakeOut(o) /\ OrderOnly /\ UNCHANGED cancelled

\* An order that has something besides an ongoing match.
is_cancellable_unless_all(ord) == \E t \in Takers : ~Ongoing(ord, t)

is_cancellable(ord) == ~has_ongoing_matches(ord)

\* cancel_order of a maker order: only while no match is ongoing.
CancelMakerOrder(o) ==
    /\ is_cancellable(order[o])
    /\ TakeOut(o)
    /\ cancelled' = cancelled \union {o}
    /\ OrderOnly

\* A cut that takes the new volume off what the matches hold.
CutVolumeOff(o, vol) ==
    /\ vol < available_amount(order[o])
    /\ order' = [order EXCEPT ![o].vol = reserved_amount(order[o]) - vol]

\* The volume is cut to what the balance leaves, in memory only.
CutVolume(o, vol) ==
    /\ vol < available_amount(order[o])
    /\ order' = [order EXCEPT ![o].vol = reserved_amount(order[o]) + vol]

\* balance_updated with the volume the new balance leaves.
BalanceUpdated(o, vol) ==
    /\ order[o].live /\ Free(o)
    /\ IF vol < order[o].min THEN TakeOut(o)
                             ELSE CutVolume(o, vol) /\ UNCHANGED busy
    /\ OrderOnly /\ UNCHANGED cancelled

\* update_maker_order_impl up to its checks: the order is cloned, and has no
\* ongoing match; the new volume exceeds what its matches hold.
UpdateChecks(o, offer) ==
    /\ order[o].live /\ Free(o) /\ ~has_ongoing_matches(order[o])
    /\ ~update[o].active /\ budget.updates > 0
    /\ offer.vol > reserved_amount(order[o])
    /\ budget' = [budget EXCEPT !.updates = @ - 1]
    /\ update' = [update EXCEPT ![o] = [active |-> TRUE, before |-> order[o],
                                        vol |-> offer.vol, min |-> offer.min,
                                        price |-> offer.price]]
    /\ UNCHANGED <<orderVars, walk, connecting, takerVars, netVars, history,
                   rest>>

\* The order is merely still there.
OrderStillThere(o) == order[o].live

\* The order is still the one the checks were made for.
OrderUnchanged(o) == order[o] = update[o].before

\* update_maker_order_impl after its checks: the update is applied, and
\* published, to an order that is still there and has not changed since.
ApplyUpdated(o) ==
    /\ update[o].active /\ Free(o)
    /\ IF order[o].live /\ OrderUnchanged(o)
       THEN /\ order' = [order EXCEPT ![o].vol = update[o].vol,
                                      ![o].min = update[o].min,
                                      ![o].price = update[o].price]
            /\ Publish(o, "open")
       ELSE UNCHANGED <<order, busy>>
    /\ update' = [update EXCEPT ![o] = NoUpdate]
    /\ UNCHANGED <<saved, budget, walk, connecting, takerVars, netVars,
                   history, rest>>

-----------------------------------------------------------------------------
(***************************************************************************)
(* A crash and the restart after it: orders_kick_start restores what was   *)
(* stored, and deletes instead the record of a maker order whose removal   *)
(* the history records; handlers, pending answers and unfinished storage   *)
(* work are gone.                                                          *)
(* A message that arrives while the node is down is lost.                  *)
(***************************************************************************)
CrashRestart(n) ==
    LET own == {o \in AllOrders : NodeOf[o] = n}
    IN  /\ budget.crashes[n] > 0
        /\ budget' = [budget EXCEPT !.crashes[n] = @ - 1]
        /\ crashed' = crashed \union {n}
        /\ saved' = [o \in AllOrders |->
                        IF o \in own \intersect removals THEN NoOrder ELSE saved[o]]
        /\ order' = [o \in AllOrders |-> IF o \in own THEN saved'[o] ELSE order[o]]
        /\ busy' = [o \in AllOrders |-> IF o \in own THEN Idle ELSE busy[o]]
        /\ update' = [o \in AllOrders |-> IF o \in own THEN NoUpdate ELSE update[o]]
        /\ walk' = [walk EXCEPT ![n] = [t \in Takers |-> {}]]
        /\ connecting' = {c \in connecting : c[2] \notin own}
        /\ taker' = [t \in Takers |-> IF t \in own THEN savedTaker[t] ELSE taker[t]]
        /\ takerBusy' = [t \in Takers |-> IF t \in own THEN "no" ELSE takerBusy[t]]
        /\ pending' = [t \in Takers |-> IF t \in own THEN {} ELSE pending[t]]
        /\ collecting' = [t \in Takers |-> t \notin own /\ collecting[t]]
        /\ cancelled' = cancelled \ {o \in own : busy[o].how = "delete"}
        /\ UNCHANGED <<request, removals, savedTaker, netVars,
                       makerSwaps, takerSwaps>>

Init ==
    /\ \E sc \in Scenarios :
         /\ request = sc.request
         /\ budget = sc.budget
         /\ order = [o \in AllOrders |->
                      IF o \in Orders /\ sc.offer[o].vol > 0
                      THEN [NoOrder EXCEPT !.live = TRUE,
                                           !.vol = sc.offer[o].vol,
                                           !.min = sc.offer[o].min,
                                           !.price = sc.offer[o].price]
                      ELSE NoOrder]
    /\ saved = order
    /\ removals = {}
    /\ busy = [o \in AllOrders |-> Idle]
    /\ update = [o \in AllOrders |-> NoUpdate]
    /\ walk = [n \in Nodes |-> [t \in Takers |-> {}]]
    /\ connecting = {}
    /\ taker = [t \in Takers |-> NoTaker]
    /\ savedTaker = [t \in Takers |-> NoTaker]
    /\ takerBusy = [t \in Takers |-> "no"]
    /\ pending = [t \in Takers |-> {}]
    /\ collecting = [t \in Takers |-> FALSE]
    /\ sent = {}
    /\ seen = [n \in Nodes |-> {}]
    /\ makerSwaps = {} /\ takerSwaps = {} /\ cancelled = {}
    /\ crashed = {}

TakerStep(t) ==
    \/ LpAutoBuy(t)
    \/ \E msg \in sent : ProcessMakerReserved(t, msg)
    \/ SelectReserved(t)
    \/ \E o \in AllOrders : ProcessMakerConnected(t, o)
    \/ TimedOutTakerOrder(t)
    \/ CancelTakerOrder(t)
    \/ StoreTakerOrder(t)
    \/ SaveConverted(t)

NegotiationStep(t, o) ==
    \/ PassOver(NodeOf[o], t, o)
    \/ ProcessTakerRequest(NodeOf[o], t, o)
    \/ TakeOrder(t, o)
    \/ ProcessTakerConnect(t, o)
    \/ TimedOutMakerMatch(o, t)

OrderStep(o) ==
    \/ StoreMakerOrder(o)
    \/ CheckBalance(o)
    \/ CancelExpired(o)
    \/ CancelPrevious(o)
    \/ CancelMakerOrder(o)
    \/ \E vol \in Volumes : BalanceUpdated(o, vol)
    \/ \E offer \in Offers : UpdateChecks(o, offer)
    \/ ApplyUpdated(o)

Next ==
    \/ \E t \in Takers : TakerStep(t)
    \/ \E t \in Takers, n \in Nodes : TakeOrders(n, t)
    \/ \E t \in Takers, o \in AllOrders : NegotiationStep(t, o)
    \/ \E o \in AllOrders : OrderStep(o)
    \/ \E n \in Nodes : CrashRestart(n)

Spec == Init /\ [][Next]_vars

\* What happens by itself: the passes of each node's loop, the storage work
\* and the handlers that wake up.
OwnStep ==
    \/ \E o \in AllOrders : StoreMakerOrder(o)
    \/ \E t \in Takers : \/ StoreTakerOrder(t) \/ SaveConverted(t)
                         \/ SelectReserved(t) \/ TimedOutTakerOrder(t)
    \/ \E o \in AllOrders, t \in Takers : TimedOutMakerMatch(o, t)

\* The weakest assumption that helps: while some such step can be taken, one
\* is.  The loop repeats its passes for as long as the node runs, and storage
\* calls and sleeps end.  No message need ever arrive.
Fairness == WF_vars(OwnStep)

FairSpec == Spec /\ Fairness

-----------------------------------------------------------------------------
(***************************************************************************)
(* Properties.                                                             *)
(***************************************************************************)
Match == [base : Nat, rel : Nat, connected : BOOLEAN]
Order == [live : BOOLEAN, side : {"X", "Y"}, vol : Nat, min : Nat,
          price : Price, matches : [Takers -> Match]]
SwapRecord == [order : AllOrders, taker : Takers, base : Nat, rel : Nat]
Message ==
    [kind : {"request"}, taker : Takers]
    \union [kind : {"reserved"}, order : AllOrders, taker : Takers,
            side : {"X", "Y"}, base : Nat, rel : Nat]
    \union [kind : {"connect", "connected"}, order : AllOrders, taker : Takers]
TakerState == [live : BOOLEAN, matches : SUBSET SwapRecord]

\* Every variable has its type.  The volume an order has left after the
\* balance handler cut it is a natural number.
TypeOK ==
    /\ request \in [Takers -> Request] /\ budget \in Budget
    /\ order \in [AllOrders -> Order] /\ saved \in [AllOrders -> Order]
    /\ busy \in [AllOrders -> [how : {"no", "locked", "open", "delete"},
                               state : Order]]
    /\ update \in [AllOrders -> [active : BOOLEAN, before : Order, vol : Nat,
                                 min : Nat, price : Price]]
    /\ removals \subseteq AllOrders
    /\ walk \in [Nodes -> [Takers -> SUBSET AllOrders]]
    /\ connecting \subseteq Takers \X AllOrders
    /\ taker \in [Takers -> TakerState] /\ savedTaker \in [Takers -> TakerState]
    /\ takerBusy \in [Takers -> {"no", "save", "delete", "toMaker",
                                "saveMaker"}]
    /\ pending \in [Takers -> SUBSET Message]
    /\ collecting \in [Takers -> BOOLEAN]
    /\ sent \subseteq Message /\ seen \in [Nodes -> SUBSET Message]
    /\ makerSwaps \subseteq SwapRecord /\ takerSwaps \subseteq SwapRecord
    /\ cancelled \subseteq AllOrders
    /\ crashed \subseteq Nodes

\* The matches of an order never hold more than its volume: not after an
\* update computed from a clone of the order, a balance cut, a timeout that
\* returns volume another request then takes, or a restart.
NeverOverReserved ==
    \A o \in AllOrders : reserved_amount(order[o]) <= order[o].vol

\* When the taker starts its swap the maker has started the same one: of the
\* same orders, with the same amounts, whatever was updated, cancelled or
\* timed out between the reservation and the connection; and the amounts are
\* the ones the taker asked for, at its price or better.
SwapsAgree ==
    \A s \in takerSwaps :
        /\ s \in makerSwaps
        /\ LET q == request[s.taker]
           IN  IF q.action = "Buy" THEN s.base = q.base /\ s.rel <= q.rel
                                   ELSE s.rel = q.base /\ q.rel <= s.base

\* The amount of a taker order is swapped once.  Its node starts at most one
\* swap for it, and none with the maker order it may become besides; and no
\* two makers start a swap for one request unless the taker's node crashed
\* with a connection it had sent and not stored.
AmountSwappedOnce ==
    /\ \A s, u \in takerSwaps : s.taker = u.taker => s = u
    /\ \A s \in takerSwaps, u \in makerSwaps : s.taker # u.order
    /\ \A s, u \in makerSwaps :
          s.taker = u.taker => s = u \/ NodeOf[s.taker] \in crashed

\* A started swap stays reserved in its order for as long as the order
\* stands, so no later request is matched with its volume: the timeout pass
\* drops unconnected matches only.  (A crash before the connection is stored
\* loses it.)
StartedStaysReserved ==
    \A s \in makerSwaps :
        order[s.order].live /\ NodeOf[s.order] \notin crashed
            => order[s.order].matches[s.taker]
                 = [base |-> s.base, rel |-> s.rel, connected |-> TRUE]

\* The node of a converted taker order that the history does not keep has
\* restarted: the save of the conversion may have come after the deletion.
Restorable(o) == o \in Takers \ Kept /\ NodeOf[o] \in crashed

\* Once the user has cancelled a maker order it starts no swap, although a
\* handler may still hold the order from before and the save of a converted
\* taker order may put its record back: the restart then finds the removal in
\* the history, unless the order was placed without save_in_history.
CancelledStartsNoSwap ==
    [][\A s \in makerSwaps' \ makerSwaps :
          s.order \in cancelled => Restorable(s.order)]_vars

\* Every taker order ends, in a swap, as a maker order, or timed out: no
\* taker order stays matched with a maker that does not answer.
TakerOrdersEnd == []<>(\A t \in Takers : ~taker[t].live)

\* Every reservation is resolved: it is connected, or its volume comes back.
ReservationsResolve ==
    []<>(\A o \in AllOrders : order[o].live => ~has_ongoing_matches(order[o]))
=============================================================================
