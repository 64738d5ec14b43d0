----------------------------- MODULE MakerOutbox ----------------------------
(***************************************************************************)
(* The outbox of a maker pubkey.  The announcements of the node's own      *)
(* maker orders wait here, at most one for each order, and leave at a rate *)
(* that drops when a relay does not keep up and climbs back in steps.      *)
(*                                                                         *)
(* A rate is counted in a unit that divides RAISE_STEP, and the bucket in  *)
(* what one unit of the rate adds to its capacity: the bucket then holds   *)
(* as much as the rate, and a message costs Token.  The clock is counted   *)
(* in intervals of RAISE_INTERVAL_MS.                                      *)
(*                                                                         *)
(* What is published is on the wire in no order: a gossip network has      *)
(* many paths, and between its release and its broadcast a message is held *)
(* by no lock.                                                             *)
(***************************************************************************)
EXTENDS Integers, Sequences, FiniteSets

CONSTANTS
    Orders,       \* uuids of the maker orders, of one pubkey and one pair
    Volumes,      \* the volumes an order or a balance can have, 0 among them
    RaiseStep,    \* RAISE_STEP, which is also RATE_FLOOR
    Token,        \* one token of the bucket, the cost of a message
    DegradedFor,  \* DEGRADED_FOR_MS
    TripForgotten \* TRIP_FORGOTTEN_AFTER_MS

ASSUME OutboxAssumption ==
    /\ Volumes \subseteq Nat /\ 0 \in Volumes
    /\ \E m \in Volumes : \A v \in Volumes : v <= m
    /\ RaiseStep \in Nat \ {0} /\ Token \in Nat \ {0} /\ Token <= RaiseStep
    /\ DegradedFor \in Nat \ {0} /\ TripForgotten \in Nat
    /\ DegradedFor < TripForgotten

VARIABLES
    coalescing, \* the option maker_update_coalescing
    ceiling,    \* the option maker_update_rate_max, any positive rate
    outbox,     \* the outbox of the pubkey
    quiet,      \* intervals since the last signal
    recent,     \* a created or updated message was released within the last one
    pressure,   \* the queue signal of the relays is raised
    signals,    \* how often the relays may still signal
    wire        \* the messages on their way to a peer

options == <<coalescing, ceiling>>
outboxVars == <<options, outbox, quiet, recent, pressure, signals, wire>>

Message == [kind : {"created", "updated", "cancelled"}, order : Orders,
            vol : Volumes]

Least(a, b) == IF a < b THEN a ELSE b
Most(a, b) == IF a > b THEN a ELSE b

\* A ceiling below the usual floor is the floor, and may be too low for the
\* bucket to hold a token.
Floor == Least(RaiseStep, ceiling)
capacity(rate) == rate

NewOutbox == [open |-> TRUE, pending |-> <<>>, rate |-> ceiling,
              tokens |-> capacity(ceiling), degraded |-> FALSE, trip |-> 0]
NoOutbox == [NewOutbox EXCEPT !.open = FALSE]

\* A climb that does not remember where the relays gave way.
climb_to_ceiling(b) == ceiling

\* The climb ends one step below the rate at which the relays gave way.
climb_limit(b) ==
    IF b.trip = 0 THEN ceiling ELSE Least(Most(b.trip - RaiseStep, Floor), ceiling)

\* A signal that leaves the bucket as full as it was.
SignalKeepsTokens(b) ==
    IF b.degraded THEN b
    ELSE [b EXCEPT !.trip = b.rate, !.rate = Floor, !.degraded = TRUE]

\* Budget::signal.
Signal(b) ==
    IF b.degraded THEN b
    ELSE [b EXCEPT !.trip = b.rate, !.rate = Floor, !.degraded = TRUE,
                   !.tokens = Least(@, capacity(Floor))]

\* The rate at the end of an interval.  The climb is timed from the moment it has
\* somewhere to go, so that a trip rate forgotten now gives it a new limit but
\* does not start it.
Climbed(b, forgotten) ==
    IF b.rate < climb_limit(b)
      THEN Least(b.rate + RaiseStep, climb_limit(forgotten)) ELSE b.rate

\* A degraded mode that waits for the trip rate to be forgotten, which only an
\* outbox that is not degraded does.
AdaptAfterTrip(b, silence, later) ==
    LET forgotten == [b EXCEPT !.trip = IF silence >= TripForgotten THEN 0 ELSE @]
    IN  IF b.degraded
          THEN [b EXCEPT !.degraded = b.trip # 0]
          ELSE [forgotten EXCEPT !.rate = IF later THEN Climbed(b, forgotten) ELSE @]

\* The rate after an interval, or within it: degraded mode ends a while after
\* the last signal, then the rate rises by a step with each interval.
Adapt(b, silence, later) ==
    LET forgotten == [b EXCEPT !.trip = IF silence >= TripForgotten THEN 0 ELSE @]
    IN  IF b.degraded
          THEN [b EXCEPT !.degraded = silence < DegradedFor]
          ELSE [forgotten EXCEPT !.rate = IF later THEN Climbed(b, forgotten) ELSE @]

\* Budget::advance.
Advance(b, silence, later) ==
    Adapt(IF pressure THEN Signal(b) ELSE b, silence, later)

Silence(later) ==
    IF pressure THEN 0 ELSE IF later THEN Least(quiet + 1, TripForgotten) ELSE quiet

\* merge_pending, for two messages of one order.
MergePending(old, new) ==
    IF new.kind = "updated" THEN [old EXCEPT !.vol = new.vol] ELSE new

\* Where the message of an order waits, 0 without one.
SlotOf(pending, o) ==
    LET slots == {i \in DOMAIN pending : pending[i].order = o}
    IN  IF slots = {} THEN 0 ELSE CHOOSE i \in slots : TRUE

\* A cancellation that leaves the pending message where it is.
PushBeside(pending, msg) ==
    LET i == SlotOf(pending, msg.order)
    IN  IF msg.kind = "cancelled" THEN pending
        ELSE IF i = 0 THEN Append(pending, msg)
        ELSE [pending EXCEPT ![i] = MergePending(@, msg)]

\* PubkeyOutbox::push: a slot keeps its place when its message changes, and a
\* cancellation empties it.
Push(pending, msg) ==
    LET i == SlotOf(pending, msg.order)
    IN  IF msg.kind = "cancelled"
          THEN IF i = 0 THEN pending
               ELSE SubSeq(pending, 1, i - 1) \o SubSeq(pending, i + 1, Len(pending))
          ELSE IF i = 0 THEN Append(pending, msg)
          ELSE [pending EXCEPT ![i] = MergePending(@, msg)]

\* How many pending messages release_budgeted lets go: one for each token.
Releasable(b) == IF b.degraded THEN 0 ELSE Least(b.tokens \div Token, Len(b.pending))

AfterRelease(b) ==
    [b EXCEPT !.pending = SubSeq(@, Releasable(b) + 1, Len(@)),
              !.tokens = @ - Token * Releasable(b)]

Released(b) == {b.pending[i] : i \in 1..Releasable(b)}

\* An outbox that appears while the node is degraded starts degraded.
outbox_of(b) ==
    IF b.open THEN b
    ELSE IF quiet < DegradedFor THEN Signal(NewOutbox) ELSE NewOutbox

\* publish_maker_order_message: without coalescing the message is published,
\* else the outbox takes it and lets go what the budget allows.
Publish(msg) ==
    LET adapted == Advance(outbox_of(outbox), Silence(FALSE), FALSE)
        b == [adapted EXCEPT !.pending = Push(@, msg)]
    IN  IF ~coalescing
          THEN /\ wire' = wire \union {msg}
               /\ UNCHANGED <<options, outbox, quiet, recent, pressure, signals>>
          ELSE /\ outbox' = AfterRelease(b)
               /\ quiet' = Silence(FALSE)
               /\ recent' = (recent \/ Released(b) # {})
               /\ wire' = wire \union Released(b)
                    \union (IF msg.kind = "cancelled" THEN {msg} ELSE {})
               /\ UNCHANGED <<options, pressure, signals>>

is_idle(b) == b.rate = ceiling /\ b.tokens = capacity(ceiling) /\ ~b.degraded
              /\ b.trip = 0

\* MakerOutboxes::tick for an outbox that is there: the bucket fills, the rate
\* adapts and the oldest messages leave.
Ticked(b, silence, later) ==
    LET filled == [b EXCEPT !.tokens = Least(@ + 1, capacity(b.rate))]
        adapted == Advance(filled, silence, later)
    IN  [adapted EXCEPT !.tokens = Least(@, capacity(adapted.rate))]

\* pump_maker_outbox, within an interval or as the first of the next one.
Pump(later) ==
    LET b == Ticked(outbox, Silence(later), later)
        after == AfterRelease(b)
    IN  /\ quiet' = Silence(later)
        /\ IF outbox.open
             THEN /\ outbox' = IF after.pending = <<>> /\ is_idle(after)
                                 THEN NoOutbox ELSE after
                  /\ wire' = wire \union Released(b)
                  /\ recent' = (Released(b) # {} \/ (recent /\ ~later))
             ELSE recent' = (recent /\ ~later) /\ UNCHANGED <<outbox, wire>>
        /\ UNCHANGED <<options, pressure, signals>>

\* The queue toward a relay fills, and drains.
PressureRises ==
    /\ ~pressure /\ signals > 0
    /\ pressure' = TRUE
    /\ signals' = signals - 1
    /\ UNCHANGED <<options, outbox, quiet, recent, wire>>

PressureFalls ==
    /\ pressure
    /\ pressure' = FALSE
    /\ UNCHANGED <<options, outbox, quiet, recent, signals, wire>>

\* relay_connection_closed: a signal if the node had something to say.
RelayCloses ==
    /\ signals > 0
    /\ signals' = signals - 1
    /\ IF outbox.pending # <<>> \/ recent
         THEN /\ quiet' = 0
              /\ outbox' = IF outbox.open THEN Signal(outbox) ELSE outbox
         ELSE UNCHANGED <<quiet, outbox>>
    /\ UNCHANGED <<options, recent, pressure, wire>>

OutboxInit ==
    /\ outbox = NoOutbox /\ quiet = TripForgotten
    /\ recent = FALSE /\ pressure = FALSE
    /\ wire = {}

OutboxTypeOK ==
    /\ coalescing \in BOOLEAN /\ recent \in BOOLEAN /\ pressure \in BOOLEAN
    /\ ceiling \in Nat \ {0}
    /\ outbox \in [open : BOOLEAN, pending : Seq(Message), rate : Floor..ceiling,
                   tokens : 0..ceiling, degraded : BOOLEAN, trip : 0..ceiling]
    /\ outbox.tokens <= capacity(outbox.rate)
    /\ quiet \in 0..TripForgotten /\ signals \in Nat
    /\ wire \subseteq Message
=============================================================================
