# TLA+ specifications of the kdf atomic swap engine

This directory holds TLA+ models of parts of kdf, the TLC configurations that check them on small instances, and
theorems about them that TLAPS checks for every value of the constants. The models are written from the Rust code
under `mm2src/`; `PROJECT.json` maps every definition to the lines it stands for.

## 1. The system and its parts

kdf is a node of a decentralised exchange. Nodes publish orders over a gossip network, match them, and exchange coins
by *atomic swaps*: each side locks a payment on its own chain, the maker's claim of the taker's payment publishes a
secret, and with the secret the taker claims the maker's payment. A payment that is not claimed is refunded to its
sender after a lock time.

| part | code | module |
|---|---|---|
| legacy maker swap: commands, events, saving, restart, recovery | `mm2_main/src/lp_swap/maker_swap.rs` | `MakerSwap` |
| legacy taker swap | `lp_swap/taker_swap.rs` | `TakerSwap` |
| swap messages; HTLC calls of the coins | `lp_swap/swap_msg.rs`, `lp_swap.rs`, `coins/utxo/` | `SwapChain` |
| the two legacy roles, their chains, the network and the clock | | `LegacySwap` |
| what every atomic swap promises | | `AtomicSwap` |
| storable state machine, its restart, reserved amounts | `mm2_state_machine`, `lp_swap/swap_v2_common.rs`, `lp_swap.rs` | `StorableMachine` |
| v2 maker and taker | `lp_swap/maker_swap_v2.rs`, `lp_swap/taker_swap_v2.rs` | `MakerSwapV2`, `TakerSwapV2`, `SwapV2Chain` |
| the two v2 roles together | | `SwapV2` |
| order matching: request, reserved, connect, connected | `lp_ordermatch/ordermatch_trading.rs`, `ordermatch_types.rs` | `OrderMatch` |
| storage order of a maker order: order lock, write gate, removal | `lp_ordermatch/order_write_gate.rs` and its callers | `OrderWriteGate` |
| outbox of maker announcements | `lp_ordermatch/maker_outbox.rs` | `MakerOutbox` |
| balance watch | `lp_ordermatch/maker_balance_watch.rs` | `BalanceWatch` |
| how maker orders reach the books of the node and its peers | `ordermatch_trading.rs`, `ordermatch_orderbook.rs` | `MakerPublish` |
| RPC tasks | `rpc_task` | `RpcTask` |
| activation of coins, tokens and platforms | `coins_activation`, `coins/activation_locks.rs`, `coins/lp_coins_context.rs` | `CoinActivation` |

An order that `MakerPublish` brings into the books is matched in `OrderMatch`, whose states `OrderWriteGate` stores; a
match starts a swap, legacy or v2, between coins that `CoinActivation` registered. Each of these hand-overs is a call
whose outcome the next module starts from, and the modules are checked one by one. Inside each the components that
share state are composed: `LegacySwap` and `SwapV2` have both roles with chains and network, `SwapV2` extends the
state machine, `MakerPublish` extends the watch, which extends the outbox, and `CoinActivation` extends the tasks.

The full list of parts, with the reason for each one that is left out, is `components` in `PROJECT.json`. What can go
wrong in this code and would hardly be reached by a test is `hazards` there. A file `MC*.tla` instantiates a
specification for TLC. A definition whose name extends another's (`TakerPaymentSpendByLock` beside
`TakerPaymentSpendBy`) is a faulty variant of it, used only to see that a property notices the fault.

## 2. The legacy swap

### State

`SwapChain` has what the two roles share: the clock `now`, the set `net` of message kinds broadcast so far, the
state of the two payments, and counters of the transactions sent. A payment goes `none -> unconfirmed -> confirmed
-> spending -> spent`, or to `refunded`; `spending` is a claim that is broadcast, so that its secret is public, but
not mined, and that can still lose to a refund.

Each role has the state of its run loop (`run_maker_swap`, `run_taker_swap`): the command being handled (`mCmd`),
where its handler stands (`mPc`), the returned events that are not saved yet (`mOut`) with the returned command
(`mNext`), the saved log as a set of events (`mLog`) with the last one (`mLast`), `data.started_at`, the deadline of
the wait under way, and `started_in_this_process` (`mFresh`). `tCmd` and so on are the taker's.

### Actions

A command handler is an action, or several where the code waits: `MakerNegotiate` is `negotiate` up to its receive,
`MakerNegotiateRecv` the rest. A handler ends by returning events and a command; `MakerSaveEvent` then saves one event
at a time, as the loop does, so that a stop can fall between two saves. `MakerCrash` stops the process at any such
point (the shutdown branch of the loop, or a crash) and `MakerKickStart` is `load_from_saved` with `get_command`.
`MakerRecoverFunds` is `recover_funds_of_swap` on a finished swap. The taker's actions mirror them; its refund is
split into the look at the chain on entry (`TakerRefundTakerPayment`), the looks while it waits
(`TakerRefundWaitLook`) and the refund with the look after its rejection (`TakerRefundSend`).

Deadlines are the code's: the maker payment is sent by L/3, confirmed by 2L/5, the taker payment is confirmed and
claimed by 4L/5, locks are at 2L and L, where L is `lock_duration`, counted from each role's own `started_at`.

### What the environment may do

- Messages: a broadcast is repeated by the code until it is answered; the model lets it arrive at any later time, any
  number of times, or never.
- Coin calls: with `CoinErrors` every call may fail, and a send that reports a failure may still have put its
  transaction on the network.
- Processes: the roles in `Crashers` stop at any step, any number of times, before `RestartBy`.
- Time: the clock stands still while a role has something to do (`MakerMustAct`, `TakerMustAct`), because handlers and
  polls take seconds and a unit of the clock is many minutes. Two bounds are facts about the world: a claim is mined
  within `SpendDelay` of its broadcast, and a taker that could claim is down for `MaxAway` at most. Without the first
  the maker can lose the race to the refund, without the second an absent taker loses to the maker's refund; both
  losses are inherent in the protocol.

### Simplifications

The log is a set plus the last event: no handler depends on the order of older events. Keys, amounts and contract
addresses are one outcome of a check that may fail (with `CoinErrors`). The counterpart runs this code: what it
announces as its `started_at` is its `started_at`. A refund rejected as not final goes back to the gate and is no
step. The watcher message that a taker sends along with its payment is left out. Events that no handler returns
(`MakerPaymentDataSendFailed`, `MakerPaymentRefundFinished` and a few more) are left out of the event sets.

## 3. The storage order of a maker order

`OrderWriteGate` is one maker order, the tasks that change it (`Writers`) and the task that takes it out of the
container (`Remover`). The order's states are numbered by the changes made under its lock, so that "newer" is
"greater"; an update that is rolled back returns to the older number. The variables are the order and its lock, the
fields of `GateState`, the I/O lock, what storage holds (active record, history row, history entry of the removal),
and for each task the step it is at and what it carries across its awaits.

A writer gets the order (`GetOrder`), locks and changes it or leaves it (`LockAndChange`, `LockAndLeave`), publishes
its state (`PublishState`) and completes its ticket under the I/O lock: it is answered (`CompleteOk`,
`CompleteFailed`) or writes the newest state (`CompleteWrites`, then `WriteActive`, `WriteRow` or `WriteFails`). A
failed update takes its change back (`RollBack`). The kinds of writers differ as the callers do: only an update looks
whether the order changed or left meanwhile and asks for the history row, the negotiation paths keep the order's lock
until the write is done, the balance handler stores nothing. The removal is `TakeOut` under the order's lock, or
`DropExpired` without it and `AlreadyDropped` later; then the unwritten state is written and the order deleted
(`DeleteBegins`, `DeleteActive`, `SaveEntry`).

One writer does not use the gate. `handle_timed_out_taker_orders` puts the maker order it made of a taker order into
the container and then saves a clone of its first state, with no lock of the order held. `conversion` says whether the
order is such a one and where that save is. `SaveInTime` is the usual case, a save before any write of the gate.
`SaveLate` comes after one, beside one, or after the deletion; it puts the first state over what is stored, or brings
the record back. `StoredNeverGoesBack` and `NeverRecreated` except this one step (`SavesLate`), `OkMeansStored` and
`EntryKeepsStored` the time until the next write of the gate (`Late`), so that they say exactly what the gate gives
and what the code loses by passing it by. An order that was created as a maker order (`conversion = "none"`) has its
record from the start, unless that first save failed, which the code only logs. A failed write may also have emptied
the file, since `write_json` truncates it first (`Emptied`).

Simplifications: orders are kept in the history (`save_in_history`); two states with different numbers differ, so an
order that changed and came to the same value again counts as changed; the repeated attempts of a deletion are one
call that may fail; the announcements that follow a write change nothing here. The kickstart of orders also cuts a
volume in memory only, as the balance handler does. The branch of `complete` that finds nothing pending for a ticket
that is neither written nor failed is in the model and never taken (`TicketInv`).

Bounds: `MaxChanges` limits the changes callers come to make; a writer that was answered may come again, so two
writers already give a write that covers several tickets while a newer state is published.

## 4. The v2 swap

A v2 swap has a funding transaction before the taker payment: the taker locks its coins in a way that it can take back
at once with the maker's consent, or after a lock time; with a preimage that the maker signs they are *transferred*
into the taker payment.

`StorableMachine` is `mm2_state_machine` for both roles: `st` is the state whose `on_changed` runs, `pc` where it
stands, `next` the state it has changed to while its event is not stored, `last` the last stored event. `OnNewState`
applies the event to the reservations and stores it, in that order and in one step, since a stop between the two
forgets the reservations with the process; `OnFinished` is the end of the machine; `Crash`
stops the process; `KickStart` recreates the machine from `last`, with the reservations that `on_kickstart_event`
makes again. `reserved` are the swap's entries in `locked_amounts_v2`. `MakerSwapV2` and `TakerSwapV2` have one action
per state, or several where `on_changed` waits for a message. `SwapV2Chain` has funding and payments, messages and
deadlines: the maker payment is to be confirmed by L/3 and the taker payment by 2L/3, the locks are at 2L and L.

`faults` records what has hit a role: a failed coin call, a failed store, a lock that was still young at a quick
restart, and a stop between a transaction and its event (`torn`). `FaultlessLeavesNothing` is about roles without such
a fault, since each of them leads to a failed or repeated run by design or by the finding below.

Left out: the taker's state `MakerPaymentConfirmed`, to which nothing changes because `require_maker_payment_confirm`
is always true, the maker's wait for the funding's confirmations, because `require_taker_funding_confirm` is always
false, and the start of a fresh v2 swap from a match, which has no caller in the code (`Initialize` is the initial
state). A run that ends with an error (`pc = "failed"`) keeps its reservations until the node restarts, as R59 of
chapter 52 says.

### Both protocols implement one abstract swap

`AtomicSwap` is what an atomic swap promises, said of two payments alone: the taker locks only against a locked maker
payment; the maker claims, and so publishes the secret, only while its own payment is there; the taker claims only
with the secret; what was claimed is not reclaimed. `SwapIsAtomic` and `SwapV2IsAtomic` are refinements of it: a
payment that is not mined counts as locked, the claim of the taker payment counts from its broadcast, that of the
maker payment once it is mined. The abstract specification lets an idle taker miss its claim; that a taker that keeps
running does not is `TakerNeverLosesBoth` and `FaultlessLeavesNothing`.

## 5. Order matching

`OrderMatch` has maker orders and taker orders on nodes of their own. The handlers are `process_taker_request`,
`process_maker_reserved` with its three seconds of collecting, `process_taker_connect` and `process_maker_connected`;
the loops are the two timeout passes, with the conversion of a good-till-cancelled taker order into a maker order; the
user updates and cancels; a balance event cuts a volume or cancels; a node crashes and comes back with what was
stored.

Where the code holds a lock across an await the model does: a negotiation handler keeps the order's lock while its
state is stored (`busy = "locked"`), other passes store after they released it (`"open"`). Where it does not, the step
is split: `walk` and `connecting` are handlers that took an order from the container and do not have its lock yet, and
`update` is an update that computes from a clone. Prices, minimum volumes and both request directions are computed as
the code does, on fractions of small numbers.

The conversion of a taker order is two steps, and other tasks get at the order between them: the taker's record is
deleted and the order joins the container (`StoreTakerOrder`), then its first state is saved past the write gate
(`SaveConverted`), so that a record that was deleted meanwhile is there again. `removals` are the removals that the
history records, those of orders with `save_in_history` (`Kept`). A restart deletes the record of such an order and
restores every other one. `CancelledStartsNoSwap` therefore excepts converted orders outside `Kept` on a node that has
restarted (`Restorable`).

There is no clock: a deadline may pass at any time, which covers every setting of the timeouts. A gossip message
reaches a node at most once, as the duplicate cache of `mm2_p2p` ensures, in any order, or never. Left out:
confirmation settings, bans, and the second message format of the new protocol; the roll-back of an update whose write
fails, which `OrderWriteGate` has; and cuts of an order that was removed meanwhile, which nothing reads any more.

## 6. Publication of maker orders

`MakerOutbox` is one outbox: the pending slots and how `push` merges into them, the token bucket, the signal that
drops the rate to its floor, degraded mode, the climb and the trip rate it remembers, the pump and what is on its way
out when a cancellation comes. `BalanceWatch` is the registration of a watch with its generations and the polling
tasks that wake, read, call the handler or find that their generation is over. `MakerPublish` adds the tasks that
create, restore, convert, cut, cancel and expire orders, the maintenance pass that lists missing ones, the node's own
book and the book of a peer with its `recently_cancelled`, keep-alive, request and late answer.

The bucket holds ten times the rate and a message costs one token. The model counts the bucket in tenths, so that it
holds as much as the rate, and a message costs `Token`. The option `maker_update_rate_max` is any positive rate
(`ceiling`). When it is below `RATE_FLOOR` it is the floor too, and when it is below `Token` the bucket never holds a
token.

Simplifications: the clock counts in `RAISE_INTERVAL`s. A request is answered from the
maker's own book, where the code asks the peer that forwarded the keep-alive; tries are compared as books, and an
answer by difference gives the same book as a full one. Announcing an order and adding it to the own book are one step
where no await lies between. Orders have one base coin and no matches.

The properties on books except converted orders that are cut or taken out between their entry and their announcement
(`raced`); section 10 says what happens to them.

## 7. Coin activation

`RpcTask` is the map of tasks: status, the channel of a user action, cancellation, and that a finished or aborted
future cannot bring a removed task back. `CoinActivation` has activations of five kinds: standalone and layer-2 coins,
tokens and platforms as tasks, one-shot platform calls, and the legacy calls. Each checks, locks its tickers one by
one in sorted order, looks whether its coin is active, builds it (which may ask the user, or fail), registers it, and
reports; a cancelled task is dropped where it waits or gets further first, and then runs its clean-up if it has one.
`DisableCoin` is the user's. The build of a coin is one step that may fail, since what it does differs by family and
shares nothing. A token, and a platform in `Reports` (`REPORTS_BALANCE_AND_FINISHING_PROGRESS`), reports progress
after its build and stops there if its task is gone. The list of tokens that a platform coin keeps for itself
(`register_token_info`, `unregister_token_info`) is left out.

`OkIsActive` and `OnlyOwnCoinRemoved` leave out tickers that some platform's request brings along as tokens, because
`add_platform_with_tokens` replaces tokens without looking, as its comment says, and tickers that the user disabled.

## 8. Runs

`Over` and `Done` mark the states in which a swap may stay; there is no other deadlock in the runs of the swaps and of
the publication. The other passing runs do not look for deadlock, because every task ends in them; `TasksEnd`,
`TakerOrdersEnd`, `ReservationsResolve` and `ActivationsEnd` say that nobody is stuck before.

| run | instance | shows |
|---|---|---|
| `both_restart` | L = 8, start times that are equal or differ by the tolerated unit, both roles restart, no fee due | `TakerNeverLosesBoth`: a claimed taker payment means that the maker payment is not refunded; `SwapIsAtomic` |
| `maker_restarts` | L = 4, the maker restarts, calls fail | `MakerDataPresent`: what handlers unwrap is there, also in the stage that the resume table leads to; `MakerRevealsSecretInTime`; `MakerLeftoverIsRecoverable`: no payment is left that `recover_funds` refuses; `FundsSettle`: no payment stays on chain for ever |
| `taker_restarts` | L = 4, the taker restarts, calls fail, keys per swap | `TakerDataPresent`, `TakerLeftoverIsRecoverable`, `MakerNeverLosesBoth`, and `PaymentsSentOnce` where the code may skip the already-sent question |
| `gate_storage_fails` | two writers, two changes, expiry, a created or a converted order, every storage call may fail | `StoredNeverGoesBack`, `NeverRecreated`, `OkMeansStored`; `EntryKeepsStored`: the history entry of a removal is no older than what a caller was told is stored; `TasksEnd`: no circle of waits between the order's lock and the I/O lock |
| `v2_faults` | L = 3, both roles stop once, coin calls, storage and quick restarts fail | `SwapV2IsAtomic`; `ReservationsFollowLog`: a running or resumed swap holds the reservations its log asks for, an ended one none |
| `v2_settles` | L = 4, both roles stop twice, mining takes a unit | `FaultlessLeavesNothing`: a role that ends without a fault has nothing left to take or reclaim; `SwapV2Ends` |
| `order_match` | five starting points with up to two makers and two takers: contention, an update with a crash of the maker's node, a choice between makers with a crash of the taker's node, a conversion with a crash, of an order with `save_in_history` and of one without | `NeverOverReserved`, `SwapsAgree`, `AmountSwappedOnce`, `StartedStaysReserved`, `CancelledStartsNoSwap`, `TakerOrdersEnd`, `ReservationsResolve` |
| `activation` | two tasks and a legacy call for one coin; a platform task, a one-shot platform call and a token task with overlapping tickers | `BuildsNotInVain`, `CleanupLeavesNothing`, `OkIsActive`, `OnlyOwnCoinRemoved`, `ActivationsEnd` |
| `maker_publish` | seven starting points with one created or restored and one converted order: a moving balance with lost messages, two entries at once, a restored order, inactive coins, an uncovered order, relays that do not keep up, a ceiling below one token | `CancelledNotRelisted`, `WatchedWhileOrders`, `OwnBookIsTrue`, `TripFalls`, `OrdersListed`, `OutboxDrains`, `PeersLearn` |

Three runs end in a counterexample, and show where the code departs from what is written beside it:

- `gate_history_lost`: a comment has the history flag of a pending state "kept until written". A failed write drops it
  with the state; if a newer state is written before the update's own `complete` looks, the update is told Ok and its
  history row is missing.
- `v2_sent_twice`: R4 of chapter 52 asks that entry logic tolerate its re-execution after a partial effect. A maker
  that stops between its payment and `MakerPaymentSentFundingSpendGenerated` pays again when it resumes, and so does a
  taker with its funding.
- `activation_cancelled`: a comment and R55.2.14 say that a cancelled platform activation leaves nothing registered.
  One that is cancelled between `add_platform_with_tokens` and its end leaves platform and tokens.

### Bounds

Legacy swap: with L = 8 the deadlines at 1/3, 2/5, 3/5 and 4/5 of L fall on different ticks; with L = 4, which leaves
room for failing calls, 1/3 and 2/5 of L fall together and the rest stays apart. Receive budgets of 0 let a receive
time out at the next tick; `MaxTime` lies past the last deadline, 2L and the grace; `RestartBy` lets stops fall
before, at and after the taker's lock time, and with L = 4 the maker's. v2: with L = 3 or 4 the deadlines L/3, 2L/3, L
and 2L are distinct, one stop per role already gives every resume in every state and two the resume of a resumed run.
Stops fall before the taker's lock time there, with the hypothesis `RestartsInTime` of the theorems. Write gate: a
writer that was answered may come again, so two writers give a write that covers several tickets while a newer state
is published; the theorems remove the bound. Order matching: volumes of 1 and 2 with two takers give full, partial and
refused reservations; every starting point has the fewest orders its interference needs. Publication: with `RaiseStep`
and `Token` 2, a ceiling of 5 gives a full step, a step that the ceiling cuts short and a trip between floor and
ceiling, a ceiling of 1 a bucket without a token; `DegradedFor` and `TripForgotten` leave time for two steps between
them. Activation: three activations at a time, which the theorems of section 9 extend to any number.

### Fairness

- `maker_restarts`: the executor keeps polling both swaps, a stopped node is started again, blocks are mined and time
  passes. `FundsSettle` also assumes that the user of a finished swap calls `recover_funds_of_swap` when it can do
  something: the code offers it and does not call it itself. Nothing is assumed about messages.
- `v2_settles`: the same, without the call by the user.
- `gate_storage_fails`: a task that was started is polled until it ends; nothing about callers or removals coming.
- `order_match`: one condition over all steps that need no message and no user: storage work, the end of the
  collecting sleep, and the timeout passes. While one of them can be taken, one is. No message need ever arrive.
- `activation`: one condition over all activations; the steps of each are finite in number, so it is the weakest that
  lets all of them end. A task that waits for the user either gets its answer or runs into its timeout.
- `maker_publish`: one condition over what goes on by itself, with the pump when time has passed and the relay's queue
  draining, and one over synchronisation, because keep-alives and sweeps are periodic. Losses are bounded per starting
  point; `PeersLearn` therefore says that the book is repaired after the last loss.

## 9. Theorems

| theorem | module | statement |
|---|---|---|
| `TypeCorrect`, `SentOnce` | `LegacySwapProofs` | legacy `Spec => []TypeOK`, `Spec => []PaymentsSentOnce` |
| `MakerSafetyCorrect`, `MakerSafe` | `LegacySwapProofs` | `Spec => []MakerSafetyInv`, `Spec => []MakerNeverLosesBoth` |
| `LegacyPaid`, `LegacySwapIsAtomic`, `LegacyClaimedForClaimed` | `LegacySwapProofs` | `Spec => []PaidInv`, `Spec => SwapIsAtomic`, `Spec => []Atomic!ClaimedForClaimed` |
| `MakerData`, `MakerLeftover`, `MakerSecretInTime` | `LegacySwapProofs` | `Spec => []MakerDataPresent`, `Spec => []MakerLeftoverIsRecoverable`, `Spec => MakerRevealsSecretInTime` |
| `TakerData`, `TakerLeftover` | `LegacyTakerProofs` | `Spec => []TakerDataPresent`, `Spec => []TakerLeftoverIsRecoverable` |
| `TakerSafe` | `LegacyTakerProofs` | `Spec => [](~CoinErrors /\ AwayMargin => TakerNeverLosesBoth)` |
| `SwapV2Invariant`, `SwapV2ImplementsAtomicSwap`, `SwapV2ClaimedForClaimed`, `SwapV2MakerIsPaid` | `SwapV2Proofs` | v2 `Spec => [](TypeOK /\ AtomicInv)`, `Spec => SwapV2IsAtomic`, `Spec => []Atomic!ClaimedForClaimed`, `Spec => []MakerIsPaid` |
| `SwapV2Reservations`, `SwapV2LeavesNothing` | `SwapV2Proofs` | `Spec => [](RestartsInTime => ReservationsFollowLog)`, `Spec => [](RestartsInTime => FaultlessLeavesNothing)` |
| `GateTypeCorrect`, `GateInvariant`, `EntryInvariant` | `OrderWriteGateProofs` | `Spec => []GateTypeOK`, `Spec => []GateInv`, `Spec => []EntryInv` |
| `StoredInOrder`, `RemovedForGood` | `OrderWriteGateProofs` | `Spec => StoredNeverGoesBack`, `Spec => NeverRecreated` |
| `OkStored`, `NoneForgotten`, `EntryIsNewest` | `OrderWriteGateProofs` | `Spec => []OkMeansStored`, `Spec => []NothingForgotten`, `Spec => []EntryKeepsStored` |
| `OrderMatchInvariant`, `OrderMatchTypes` | `OrderMatchProofs` | `Spec => []OrderMatchInv`, `Spec => []TypeOK` |
| `VolumeKept`, `TheSwapsAgree`, `SwappedOnce`, `StartedKept` | `OrderMatchProofs` | `Spec => []NeverOverReserved`, `[]SwapsAgree`, `[]AmountSwappedOnce`, `[]StartedStaysReserved` |
| `NoSwapOnceCancelled` | `OrderMatchProofs` | `Spec => CancelledStartsNoSwap` |
| `PublishInvariant`, `PublishTypes` | `MakerPublishProofs` | `Spec => []PublishInv`, `Spec => []TypeOK` |
| `NeverRelisted`, `OrdersAreWatched`, `OwnBookStaysTrue` | `MakerPublishProofs` | `Spec => []CancelledNotRelisted`, `[]WatchedWhileOrders`, `[]OwnBookIsTrue` |
| `TripsKeepFalling` | `MakerPublishProofs` | `Spec => TripFalls` |
| `ActivationInvariant`, `ActivationTypes` | `ActivationProofs` | `Spec => []IInv`, `Spec => []TypeOK` |
| `ActivationsRunOneAtATime`, `NothingBuiltInVain`, `CancelledIsCleanedUp`, `SuccessIsActive`, `OthersCoinsAreSafe` | `ActivationProofs` | `Spec => []OneAtATime`, `[]BuildsNotInVain`, `[]CleanupLeavesNothing`, `[]OkIsActive`, `OnlyOwnCoinRemoved` |

`OrderMatchLemmas` has the invariant of the order matching and what its proof rests on. Every safety property that a
passing run checks is proved; the three runs that end in a counterexample show what does not hold.

Those of the legacy swap hold for every lock duration, budget, bound and set of crashing roles, with and without
failing calls and keys per swap, under `ConstantsAssumption`, `FeeAssumption` and `MarginAssumption`: the mining delay
of a claim and the tolerated clock difference fit in the fifth of L between the last claim and the lock time.

*The maker's safety.* `MakerNeverLosesBoth` is not inductive. `MakerSafetyInv` adds why it holds. Past the negotiation
the two start times differ by `MaxTimeDif` at most and are never written again (`NegotiatedInv`). A claim of the taker
payment that is not mined was broadcast by 4L/5 of the maker's clock, and the clock has advanced by `SpendDelay` at
most since (`SpendInTimeInv`); with the margin, `now` is before the taker's lock time, so that no refund can replace
the claim (lemma `SpendBeforeLock`). The taker has the secret, in its log, in its unsaved events, in its next command
or in its own claim, only if the taker payment was claimed (`SecretInv`). A payment is `none` exactly until it is
counted (`CountedInv`), so a send cannot reset a payment. Late claims by `recover_funds` happen only after the maker
payment was claimed, which by `SecretInv` needs an earlier claim.

*The legacy refinement.* A step of `LegacySwap` maps to a step of `AtomicSwap` only if payments come and go in order,
which `MakerSafetyInv` does not say. `PaidInv` adds three facts. A maker payment exists only once both start times are
fixed. It is refunded only past the maker's lock time, 2L. The taker pays, or is about to, only with a maker payment
on chain. The deadlines of the steps that need a locked maker payment, the taker's payment and the maker's claim at
4L/5 of either clock, lie before 2L, so the payment has not been refunded when they are taken (`BeforeMakerLock`,
`MakerPaymentLocked`); a refund of the taker payment never meets a claim by `SpendBeforeLock`.

*One payment each.* `SentOnceInv` says that a process that started the swap itself and has not returned from the send
has sent nothing, and that such a process is not down. Every other process asks the chain first.

*What the saved events are good for.* `MakerLogInv` and `TakerLogInv` say that the log has what the command that runs
needs, and also what the command needs that a restart would choose after each of the events still to be saved, so a
stop between two saves does no harm. `MakerOutcomeInv` and `TakerOutcomeInv` tie the events to the chain: which of
them mean that nothing was paid, that a claim is mined, or that a refund is. An ended swap with funds on chain then
has the events that `recover_funds` asks for.

*The taker's safety.* With coins that answer, a taker gives up only when there is nothing to claim, and does nothing
else between the discovery of the secret and its claim (`ClaimInv`); so as long as it could claim and has not, `now`
is within `SpendDelay` and the time it was down of the maker's claim (`ClaimTimeInv`). `AwayMargin` says that the last
claim of the maker, 4L/5, two minings and `MaxAway` lie before the maker's lock time, 2L. Both hypotheses are needed:
a taker whose claim fails ends its swap, and one that is away for too long meets the refund.

*The v2 refinement.* `AtomicInv` holds for every L, wait, mining delay and bound, with any stops and failures, under
`MarginAssumption`: 2L/3, a receive and the mining of a spend fit into L. It is the conjunction of `LogInv` (the state
that runs is that of the last stored event, so a resumed machine is one the log describes), `AgreedInv` (past the
negotiation the start times agree and stay), `ProgressInv` (how far each role has come bounds what can be on the
chains: a taker payment needs a maker payment, a maker that refunds has passed its lock time), `SecretInv` (the taker
has the secret only from the maker's claim) and `InTimeInv` (the claim is broadcast and mined before the taker's lock
time). The module follows the last payment that a role has sent; one that a resumed state sent before it, the subject
of `v2_sent_twice`, is only counted, and the theorem does not speak of it.

*What a v2 role holds and leaves.* `EdgeInv` says which state follows which and that a stopped process is back by
`RestartBy`, `ClaimTimeInv` that the taker's claim is made by its payment's lock time, `ClaimedInv` that a claim
precedes its event, `ReservedInv` which reservations each state has, and `FaultlessInv`, payment by payment, which
states a role without a fault may be in. The hypothesis `RestartsInTime`, `RestartBy <= LockDuration`, has the
processes back by the taker's lock time: a taker that comes back later may find the maker payment refunded.

*The write gate.* Its theorems hold for any set of writers and any number of changes, with and without failures and
expiry, under `GateAssumption`. None of the properties is inductive; `GateInv` is. It has five parts. `LockInv`: who
holds the two locks. `NewestInv`: nothing is newer than the last change. `TicketInv`: the pending state carries the
last ticket and is no older than storage, and if there is none the last ticket was written or failed. `WriteInv`:
there is one write under way, of a state between the stored and the pending one. `CallerInv`: a caller whose ticket is
covered by a write has a state no newer than the one written. The last needs the order of publications to be the order
of changes, which the order's lock gives (`PublishKeeps`). What is said of the active record holds up to a write that
failed and emptied it (`Emptied`) and a late save of a converted order (`Late`). The proof has one lemma per kind of
step: a change, a publication, taking a state out to write it, the two ends of a write, the deletion, the save of a
converted order, an answer without a write, and the steps that touch neither tickets nor storage.

*The history entry.* `EntryInv` follows what the removal will save. `TakenInv`: a write under way with the pending
ticket carries the pending state, and the removal gets to the deletion only with nothing unwritten. `FaultlessInv`:
until a write fails no update is taken back, so the order in memory is the newest state. `CoverInv`: until then the
state of every caller that waits or was told Ok is covered by the order the removal took, by the active record or by
the pending state, and at the end by what the removal saves. `SavedInv`: the entry is that state. The steps fall into
eight kinds (`Leaves`, `Changes`, `Publishes`, `Takes`, `StoresFirst`, `Ends`, `Removes`, `Saves`), and each part is
kept by each kind.

*Order matching.* The theorems hold for any orders, nodes, offers and starting points with finitely many taker
requests, under `OrderMatchAssumption`; the number of requests is finite because amounts are added up over them.
`OrderMatchInv` follows an amount along the four messages. A node walks over its orders once for a request and answers
it once (`AnswerInv`); every match of an order, in memory, being stored or on disk, has the amounts of its answer
(`MatchInv`); a connection goes to an order that answered (`ConnectInv`), and a maker starts the swap of its answer
for a connection (`BobInv`). A taker order has one match at most, its record keeps up with it, and only a crash loses
a match it has connected to (`AliceInv`); the swap it starts is one the maker has started, and a crash that brings the
order back brings that one match back (`AliceSwapInv`). An order that may still trade as a taker order is no maker
order yet (`ConvertInv`), and a cancelled order is gone in memory and, at the latest when its deletion is done, on
disk or recorded in the history, unless it is `Restorable`, while no handler that holds it finds an ongoing match in
it (`CancelInv`). `VolumeInv` bounds what is reserved by the volume in the three copies of an order and in the clone
of an update. `reserved_amount` is a sum over the takers; that one match more or less changes it by that match is
proved from the recursive function behind `MapThenSumSet`, by an induction on the size of the set that needs no
operator parameter (`OrderMatchLemmas`). Then there is one lemma per action.

*Publication.* The theorems hold for any finite set of orders, any volumes with a greatest one, every ceiling, the two
time limits in their order, and any starting points, under `OutboxAssumption` and `PublishAssumption`. `PublishInv`
has an outbox part, a watch part and a part for each order. The outbox (`OutboxInv`) has at most one message for each
order, never a cancellation, no more in its bucket than its rate, and a rate below the one it remembers, unless at the
floor; from this `TripFalls` follows. The watch (`WatchInv`) has a task that has not ended, and generations do not run
out because each is used up by an order that has entered. For each order `At` says what is known of it: before its
entry it is nowhere (`PhaseAt`), a conversion finds it as it was unless something came in between (`ConvertAt`), a
maintenance pass has it only while it is not listed (`PassAt`), the own book agrees with the store (`OwnAt`), with its
cancellation on the way it is neither stored nor listed nor waiting (`CancelAt`), and a peer that heard of it either
remembers the cancellation or has nothing under way that could list it again (`HeardAt`). A step of the maker touches
one order: the lemma `OneOrder` reduces it to that order, and `PublishEffect` and `PumpEffect` say once what
publishing and pumping do to what waits and what is on the wire.

*Activation.* `IInv` holds for any set of activations of any kinds with any tickers. `LockInv` says that who is inside
holds all its tickers' locks, which gives `OneAtATime`; with it, what `lp_coinfind` saw stays true up to the
registration (`BuildsNotInVain`, itself a conjunct). `OwnInv` and `CancelInv` tie coins, `registered_by_task` and the
task's status to the place of the task: a cancelled task has no status and is on its way to its clean-up. `LegacyInv`
and `TaskInv` say that a coin is its activation's until that one lets go of it. The proof has one lemma per action.

Proved, and not repeated in a run: the type invariants of the swaps, the gate and the activations; the inductive
invariants, which were model-checked on the instances of section 8 before they were proved; `NothingForgotten` and
`OneAtATime`; what `AtomicSwap` promises, of both protocols.

Only model-checked: every liveness property (`FundsSettle`, `SwapV2Ends`, `TasksEnd`, `TakerOrdersEnd`,
`ReservationsResolve`, `ActivationsEnd`, `OrdersListed`, `OutboxDrains`, `PeersLearn`), since liveness under fairness
is out of the prover's reach. The taker's safety with failing calls, and what v2 roles leave when they come back after
the lock time, are not promised by the code and not claimed.

## 10. Observations without a run

What the models reach, and the properties above except or do not speak of:

- A legacy taker that stops between sending the fee and saving `TakerFeeSent` sends it again (chapter 51, R7).
- A legacy maker that stops between its claim and the save of `TakerPaymentSpent` records `TakerPaymentSpendFailed`
  and enters its refund chain, although it was paid. Its funds are safe.
- `spend_maker_payment` ends the swap on a failed claim; R31 of chapter 51 and the resume table lead into the refund
  chain.
- The history entry of a removed order that was ever updated is read from its active record, which lacks what a
  balance event changed in memory (chapter 12, R7b).
- A taker node that crashes after it sent a connection and before it stored it may connect to a second maker when its
  order is tried again; the first maker then starts a swap that nobody joins.
- The balance handler works on orders it cloned from the store; it changes and announces an order that was cancelled
  meanwhile, where chapter 12 (149-152) has it look again first. Neither book lists the order because of that.
- `order_write_gate.rs` (line 6) says that "every storage write of an order passes through the order's gate", and
  items 1 and 2 of R7b (chapter 12) ask that no write replace a newer state or recreate a removed record. The save of
  a converted taker order does not pass through the gate: it can put the first state over a newer one, or put the
  record of a cancelled order back. The next write of the gate mends the former. The latter is found at the next
  start, where the history has the removal; an order that was placed without `save_in_history` is restored.
- A failed write of the active record may leave an empty file, because `write_json` truncates it first.
- With a `maker_update_rate_max` below a tenth the bucket never holds a token, and created and updated messages wait
  for ever; cancellations leave at once.
- A converted taker order that is cancelled while its save is awaited is announced afterwards, and stays in the node's
  own book until a restart. One that is cut in that time is announced with its old volume.
- `observe_balance` records `last_seen` before the handlers run; a handler that fails is not tried again until the
  balance moves.
- A second activation is told that a coin is active while the clean-up of the cancelled first one is about to remove
  it.

## 11. Not modelled

- The swap watcher, which acts for an absent taker. Its promise needs both roles beside it, and `LegacySwap` at its
  bounds fills a run by itself; `MaxAway` stands for a taker that comes back in time instead.
- The swap file lock as a component: its races are between single system calls on the lock file. They are listed as
  hazards. The v2 modules have its effect on one node.
- The NFT variant of the v2 maker, event streaming, the market-maker bot, statistics, queries: variants, observers and
  callers of what is modelled.
- The tries behind the order books, parked answers, request limits and relaying. `MakerPublish` has their outcome: an
  answer that comes late, or never.
- Fees, volumes against fees, trade preimage, RPC formats, swap data conversion: sequential functions without state.
- Coins, scripts, signing, wallets, hardware wallets, p2p transport, databases, node start-up: external services,
  cryptography and I/O. They make up most of the lines under `mm2src`, and they appear here as calls that succeed,
  fail, or fail after they took effect.
- Vendored and patched libraries, two fifths of the repository's Rust lines.

For these reasons the models cover a small share of the repository's lines, and most of the control in the parts named
in section 1.
