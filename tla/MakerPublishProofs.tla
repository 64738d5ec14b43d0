------------------------- MODULE MakerPublishProofs -------------------------
(***************************************************************************)
(* What the outbox, the balance watch, the own order book and a peer's     *)
(* copy of it keep, for every set of orders and volumes, every rate and    *)
(* every starting point.                                                   *)
(*                                                                         *)
(* Most of the invariant speaks of one order at a time: what is known of   *)
(* an order until it enters the store, while it is converted, while a pass *)
(* over missing orders works on it, and once its cancellation is on its    *)
(* way.  A step of the maker touches one order, so it is enough to look at *)
(* that one.                                                               *)
(***************************************************************************)
EXTENDS MakerPublish, FiniteSetTheorems, TLAPS

-----------------------------------------------------------------------------
(* The outbox.                                                              *)

OneSlot(p) == \A i, j \in DOMAIN p : p[i].order = p[j].order => i = j

Outbox == [open : BOOLEAN, pending : Seq(Message), rate : Floor..ceiling,
           tokens : 0..ceiling, degraded : BOOLEAN, trip : 0..ceiling]

\* What may wait: a cancellation never does.
Waits(p) == p \in Seq(Message) /\ OneSlot(p) /\ \A i \in DOMAIN p : p[i].kind # "cancelled"

\* The rate of the outbox stays below the one the relays gave way at.
Below(b) == b.trip # 0 => b.trip >= Floor /\ (b.rate < b.trip \/ b.rate = Floor)

\* An outbox that is there, and one that may be absent.
Running(b) ==
    /\ b \in Outbox /\ b.open /\ b.tokens <= b.rate
    /\ Waits(b.pending) /\ Below(b)

GoodOutbox(b) == Running(b) \/ b = NoOutbox

\* Without coalescing there is no outbox.
OutboxInv ==
    /\ coalescing \in BOOLEAN /\ recent \in BOOLEAN /\ pressure \in BOOLEAN
    /\ ceiling \in Nat \ {0}
    /\ quiet \in 0..TripForgotten /\ signals \in Nat /\ wire \subseteq Message
    /\ GoodOutbox(outbox) /\ (~coalescing => outbox = NoOutbox)

\* A signal between two states of an outbox lowers the rate it remembers.
Falls(b, c) == ~b.degraded /\ c.degraded /\ b.trip # 0 => c.trip < b.trip \/ b.trip = Floor

-----------------------------------------------------------------------------
(* The invariant, order by order.                                           *)

\* The announcement of an order waits, or is on its way, and so is, or was, its
\* cancellation.
Announces(p, o) == \E i \in DOMAIN p : p[i].order = o /\ p[i].kind = "created"
Held(o) == Announces(outbox.pending, o)
OnWire(o) == \E m \in wire : m.order = o /\ m.kind = "created"
CancelOnWire(o) == \E m \in wire : m.order = o /\ m.kind = "cancelled"
CancelSent(o) == o \in heard \/ CancelOnWire(o)

Outside(o) == phase[o] \in {"new", "checked"}

\* An order that has not entered the store is nowhere.
PhaseAt(o) ==
    /\ Outside(o) => o \notin store /\ mybook[o] = 0 /\ ~CancelSent(o)
    /\ o \in Converted => phase[o] # "checked"
    /\ phase[o] = "saving" => o \in Converted
    /\ o \in dropped => o \notin store /\ o \notin Converted /\ ~Outside(o)

\* A conversion finds the order as it was, unless something came in between, and
\* no pass runs beside it.
ConvertAt(o) ==
    o \in Converted =>
        /\ o \notin raced /\ (phase[o] = "new" \/ Entering(o)) => vol[o] = FullVolume
        /\ o \notin raced /\ Entering(o) => o \in store
        /\ Entering(o) => pass = NoPass

\* The orders of a pass stay out of the own book until it lists them.
PassAt(o) ==
    /\ ~(o \in pass.todo /\ o \in pass.cancel)
    /\ o \in pass.todo \union pass.cancel => mybook[o] = 0 /\ ~Outside(o)

OwnAt(o) ==
    o \notin raced /\ mybook[o] # 0 => mybook[o] = vol[o] /\ o \in store \union dropped

\* A cancelled order is gone for good.
CancelAt(o) ==
    o \notin raced /\ CancelSent(o) => o \notin store /\ mybook[o] = 0 /\ ~Held(o)

\* What could still list it at a peer is held off by recently_cancelled.
HeardAt(o) ==
    o \in heard \ raced =>
        book[o] = 0 /\ (o \in guard \/ (answer[o] < 1 /\ ~OnWire(o)))

At(o) == PhaseAt(o) /\ ConvertAt(o) /\ PassAt(o) /\ OwnAt(o) /\ CancelAt(o) /\ HeardAt(o)

\* A watch has the youngest task, and every task an order that entered; a task
\* visits orders that were in the store.
Past == {o \in Orders : phase[o] \in {"saving", "done"}}

WatchInv ==
    /\ store = {} => watch = NoWatch
    /\ watch.gen = 0 => watch = NoWatch
    /\ watch.gen # 0 => task[watch.gen].at \notin {"none", "ended"}
    /\ (\E o \in store : phase[o] # "added") => watch.gen # 0
    /\ watch.gen < generation
    /\ generation <= Cardinality(Past) + 1
    /\ \A g \in Generations : \A o \in task[g].todo : ~Outside(o)

MakerTypes ==
    /\ phase \in [Orders -> {"new", "checked", "added", "saving", "done"}]
    /\ seed \in [Orders -> Volumes \union {None}]
    /\ vol \in [Orders -> Volumes] /\ mybook \in [Orders -> Volumes]
    /\ pass \in [todo : SUBSET Orders, vol : Volumes \union {None}, cancel : SUBSET Orders]
    /\ dropped \subseteq Orders /\ raced \subseteq Converted

PeerTypes ==
    /\ book \in [Orders -> Volumes] /\ guard \subseteq Orders /\ heard \subseteq Orders
    /\ answer \in {NoAnswer, Requested} \union [Orders -> Volumes]
    /\ losses \in Nat

PublishInv ==
    /\ OutboxInv /\ WatchTypeOK /\ MakerTypes /\ PeerTypes
    /\ WatchInv /\ \A o \in Orders : At(o)

-----------------------------------------------------------------------------
(* How the outbox handles its messages.                                     *)

\* The volumes have a greatest one.
LEMMA FullVolumeType == FullVolume \in Volumes
  BY OutboxAssumption, Zenon DEF FullVolume

\* push looks for the slot of an order, of which there is at most one.
LEMMA SlotFound ==
    ASSUME NEW p, Waits(p), NEW o
    PROVE  \/ SlotOf(p, o) = 0 /\ \A j \in DOMAIN p : p[j].order # o
           \/ SlotOf(p, o) \in DOMAIN p /\ p[SlotOf(p, o)].order = o
<1> DEFINE slots == {i \in DOMAIN p : p[i].order = o}
<1>1. SlotOf(p, o) = IF slots = {} THEN 0 ELSE CHOOSE i \in slots : TRUE
  BY Zenon DEF SlotOf
<1> QED
  BY Zenon, <1>1

\* The elements of a concatenation.
LEMMA Joined ==
    ASSUME NEW S, NEW a \in Seq(S), NEW b \in Seq(S)
    PROVE  /\ a \o b \in Seq(S) /\ Len(a \o b) = Len(a) + Len(b)
           /\ \A k \in 1..Len(a) + Len(b) :
                (a \o b)[k] = IF k <= Len(a) THEN a[k] ELSE b[k - Len(a)]
  OBVIOUS

\* A message is taken out and the gap closed.
LEMMA Removed ==
    ASSUME NEW p \in Seq(Message), NEW i \in 1..Len(p)
    PROVE  LET q == SubSeq(p, 1, i - 1) \o SubSeq(p, i + 1, Len(p))
           IN  /\ q \in Seq(Message) /\ DOMAIN q = 1..Len(p) - 1
               /\ \A k \in 1..Len(p) - 1 : q[k] = p[IF k < i THEN k ELSE k + 1]
<1> DEFINE a == SubSeq(p, 1, i - 1)
           b == SubSeq(p, i + 1, Len(p))
           q == a \o b
<1>2. a \in Seq(Message) /\ Len(a) = i - 1 /\ \A k \in 1..i - 1 : a[k] = p[k]
  OBVIOUS
<1>3. b \in Seq(Message) /\ Len(b) = Len(p) - i /\ \A k \in 1..Len(p) - i : b[k] = p[k + i]
  OBVIOUS
<1> HIDE DEF a, b
<1>4. /\ q \in Seq(Message) /\ Len(q) = Len(a) + Len(b)
      /\ \A k \in 1..Len(a) + Len(b) : q[k] = IF k <= Len(a) THEN a[k] ELSE b[k - Len(a)]
  BY <1>2, <1>3, Joined, Zenon
<1> HIDE DEF q
<1>5. Len(p) \in Nat /\ Len(a) + Len(b) = Len(p) - 1
  BY <1>2, <1>3
<1>6. ASSUME NEW k \in 1..Len(p) - 1
      PROVE  q[k] = p[IF k < i THEN k ELSE k + 1]
  <2>1. CASE k < i
    BY <1>2, <1>4, <1>5, <2>1
  <2>2. CASE ~(k < i)
    <3>1. k \in 1..Len(a) + Len(b) /\ ~(k <= Len(a)) /\ k - Len(a) \in 1..Len(p) - i
      BY <1>2, <1>3, <1>5, <2>2
    <3>2. q[k] = b[k - Len(a)]
      BY <1>4, <3>1, Zenon
    <3>3. b[k - Len(a)] = p[k - Len(a) + i]
      BY <1>3, <3>1, Zenon
    <3>4. k - Len(a) + i = k + 1
      BY <1>2
    <3> QED
      BY <2>2, <3>2, <3>3, <3>4, Zenon
  <2> QED
    BY Zenon, <2>1, <2>2
<1>7. DOMAIN q = 1..Len(p) - 1
  BY <1>4, <1>5
<1> QED
  BY <1>4, <1>6, <1>7, Zenon DEF q, a, b

\* PubkeyOutbox::push keeps one message for each order, none of them a
\* cancellation; a cancellation takes the announcement of its order out, and
\* nothing but a created message puts one in.
LEMMA PushKeeps ==
    ASSUME NEW p, Waits(p), NEW msg \in Message
    PROVE  /\ Waits(Push(p, msg))
           /\ \A o : Announces(Push(p, msg), o) =>
                \/ Announces(p, o) /\ ~(msg.kind = "cancelled" /\ msg.order = o)
                \/ msg.kind = "created" /\ msg.order = o
<1> DEFINE i == SlotOf(p, msg.order)
<1>1. \/ i = 0 /\ \A j \in DOMAIN p : p[j].order # msg.order
      \/ i \in DOMAIN p /\ p[i].order = msg.order
  BY Zenon, SlotFound
<1>2. p \in Seq(Message) /\ DOMAIN p = 1..Len(p)
  BY DEF Waits
<1>3. CASE msg.kind = "cancelled" /\ i = 0
  <2>1. Push(p, msg) = p
    BY <1>3, Zenon DEF Push
  <2> QED
    BY <1>1, <1>2, <1>3, <2>1 DEF Announces
<1>4. CASE msg.kind = "cancelled" /\ i # 0
  <2> DEFINE q == SubSeq(p, 1, i - 1) \o SubSeq(p, i + 1, Len(p))
  <2>1. Push(p, msg) = q
    BY <1>4, Zenon DEF Push
  <2>2. i \in 1..Len(p) /\ p[i].order = msg.order
    BY Zenon, <1>1, <1>2, <1>4
  <2>3. /\ q \in Seq(Message) /\ DOMAIN q = 1..Len(p) - 1
        /\ \A k \in 1..Len(p) - 1 : q[k] = p[IF k < i THEN k ELSE k + 1]
    BY <1>2, <2>2, Removed, Zenon
  <2> HIDE DEF i, q
  <2>4. Waits(q)
    <3>1. OneSlot(q)
      <4> SUFFICES ASSUME NEW k \in 1..Len(p) - 1, NEW l \in 1..Len(p) - 1,
                          q[k].order = q[l].order
                   PROVE  k = l
        BY Zenon, <2>3 DEF OneSlot
      <4> DEFINE K == IF k < i THEN k ELSE k + 1
                 L == IF l < i THEN l ELSE l + 1
      <4>1. K \in 1..Len(p) /\ L \in 1..Len(p)
        BY <1>2, <2>2
      <4>2. p[K].order = p[L].order
        BY Zenon, <2>3
      <4>3. K = L
        BY <1>2, <4>1, <4>2, Zenon DEF Waits, OneSlot
      <4> QED
        BY <2>2, <4>3
    <3>2. \A k \in DOMAIN q : q[k].kind # "cancelled"
      BY <1>2, <2>2, <2>3 DEF Waits
    <3> QED
      BY <2>3, <3>1, <3>2 DEF Waits
  <2>5. ASSUME NEW o, Announces(q, o)
        PROVE  Announces(p, o) /\ msg.order # o
    <3>1. PICK k \in 1..Len(p) - 1 : q[k].order = o /\ q[k].kind = "created"
      BY Zenon, <2>3, <2>5 DEF Announces
    <3>2. PICK j \in 1..Len(p) : j # i /\ p[j] = q[k]
      BY <1>2, <2>2, <2>3
    <3> QED
      BY Zenon, <1>2, <2>2, <3>1, <3>2 DEF Announces, Waits, OneSlot
  <2> QED
    BY Zenon, <2>1, <2>4, <2>5
<1>5. CASE msg.kind # "cancelled" /\ i = 0
  <2>1. Push(p, msg) = Append(p, msg)
    BY <1>5, Zenon DEF Push
  <2> HIDE DEF i
  <2> DEFINE q == Append(p, msg)
  <2>2. /\ q \in Seq(Message) /\ DOMAIN q = 1..Len(p) + 1
        /\ \A k \in 1..Len(p) : q[k] = p[k]
        /\ q[Len(p) + 1] = msg
    BY <1>2
  <2> HIDE DEF q
  <2>3. Waits(q)
    BY <1>1, <1>2, <1>5, <2>2 DEF Waits, OneSlot
  <2>4. \A o : Announces(q, o) => Announces(p, o) \/ (msg.kind = "created" /\ msg.order = o)
    BY <1>2, <2>2 DEF Announces
  <2> QED
    BY Zenon, <1>5, <2>1, <2>3, <2>4 DEF q
<1>6. CASE msg.kind # "cancelled" /\ i # 0
  <2> DEFINE n == MergePending(p[i], msg)
             q == [p EXCEPT ![i] = n]
  <2>1. Push(p, msg) = q
    BY <1>6, Zenon DEF Push
  <2>2. i \in 1..Len(p) /\ p[i].order = msg.order
    BY Zenon, <1>1, <1>2, <1>6
  <2> HIDE DEF i
  <2>3. p[i] \in Message /\ p[i].kind # "cancelled"
    BY <1>2, <2>2 DEF Waits
  <2>4. /\ n \in Message /\ n.order = msg.order /\ n.kind # "cancelled"
        /\ n.kind = "created" => p[i].kind = "created" \/ msg.kind = "created"
    BY Zenon, <1>6, <2>2, <2>3 DEF MergePending, Message
  <2> HIDE DEF n
  <2>5. /\ q \in Seq(Message) /\ DOMAIN q = 1..Len(p)
        /\ \A k \in 1..Len(p) : q[k] = IF k = i THEN n ELSE p[k]
    BY <1>2, <2>2, <2>4
  <2> HIDE DEF q
  <2>6. Waits(q)
    BY <1>2, <2>2, <2>4, <2>5 DEF Waits, OneSlot
  <2>7. \A o : Announces(q, o) => Announces(p, o) \/ (msg.kind = "created" /\ msg.order = o)
    BY Zenon, <1>2, <2>2, <2>4, <2>5 DEF Announces
  <2> QED
    BY Zenon, <1>6, <2>1, <2>6, <2>7
<1> QED
  BY Zenon, <1>3, <1>4, <1>5, <1>6

\* The oldest messages leave, and those that stay keep their order.
LEMMA ReleaseKeeps ==
    ASSUME NEW p, Waits(p), NEW n \in 0..Len(p)
    PROVE  /\ Waits(SubSeq(p, n + 1, Len(p)))
           /\ \A o : Announces(SubSeq(p, n + 1, Len(p)), o) => Announces(p, o)
<1> DEFINE q == SubSeq(p, n + 1, Len(p))
<1>1. p \in Seq(Message) /\ DOMAIN p = 1..Len(p) /\ Len(p) \in Nat
  BY DEF Waits
<1>2. /\ q \in Seq(Message) /\ DOMAIN q = 1..Len(p) - n
      /\ \A k \in 1..Len(p) - n : q[k] = p[k + n]
  BY <1>1
<1> HIDE DEF q
<1>4. \A k \in DOMAIN q : k \in Int /\ k + n \in DOMAIN p /\ q[k] = p[k + n]
  BY <1>1, <1>2
<1>5. OneSlot(q)
  <2> SUFFICES ASSUME NEW k \in DOMAIN q, NEW l \in DOMAIN q, q[k].order = q[l].order
               PROVE  k = l
    BY Zenon DEF OneSlot
  <2>1. k + n \in DOMAIN p /\ l + n \in DOMAIN p /\ p[k + n].order = p[l + n].order
    BY Zenon, <1>4
  <2>2. OneSlot(p)
    BY Zenon DEF Waits
  <2>3. k + n = l + n
    BY <2>1, <2>2, Zenon DEF OneSlot
  <2> QED
    BY <1>4, <2>3
<1>6. Waits(q)
  BY <1>2, <1>4, <1>5, Zenon DEF Waits
<1>7. \A o : Announces(q, o) => Announces(p, o)
  BY <1>4, Zenon DEF Announces
<1> QED
  BY <1>6, <1>7, Zenon DEF q

-----------------------------------------------------------------------------
(* How the outbox adapts its rate.                                          *)

\* The floor is a rate that is not zero, and no more than the ceiling.
LEMMA FloorType ==
    ASSUME ceiling \in Nat \ {0}
    PROVE  Floor \in Nat /\ Floor >= 1 /\ Floor <= ceiling
  BY OutboxAssumption DEF Floor, Least

\* A bucket has no more whole tokens than it holds.
LEMMA WholeTokens ==
    ASSUME NEW a \in Nat
    PROVE  a \div Token \in Nat /\ Token * (a \div Token) <= a
<1>1. Token \in Nat /\ Token > 0
  BY OutboxAssumption
<1> QED
  BY ONLY <1>1, a \in Nat

\* More messages cost more.
LEMMA TimesGrows ==
    ASSUME NEW k \in Nat, NEW m \in Nat, NEW n \in Nat, m <= n
    PROVE  k * m \in Nat /\ k * m <= k * n /\ k * n \in Nat
  OBVIOUS

\* Budget::signal.
LEMMA SignalKeeps ==
    ASSUME ceiling \in Nat \ {0}, NEW b, Running(b)
    PROVE  Running(Signal(b)) /\ Signal(b).pending = b.pending /\ Falls(b, Signal(b))
<1>1. b \in Outbox /\ b.rate \in Floor..ceiling /\ b.trip \in 0..ceiling /\ b.tokens \in 0..ceiling
  BY Zenon DEF Running, Outbox
<1>2. CASE b.degraded
  BY Zenon, <1>2 DEF Signal, Falls
<1>3. CASE ~b.degraded
  <2> DEFINE n == Least(b.tokens, capacity(Floor))
             c == [b EXCEPT !.trip = b.rate, !.rate = Floor, !.degraded = TRUE, !.tokens = n]
  <2>1. Signal(b) = c
    BY <1>3, Zenon DEF Signal
  <2>2. n \in 0..ceiling /\ n <= Floor /\ Floor \in Floor..ceiling /\ b.rate \in 0..ceiling
    BY <1>1, FloorType DEF Least, capacity
  <2> HIDE DEF n
  <2>3. /\ c \in Outbox /\ c.open = b.open /\ c.pending = b.pending
        /\ c.trip = b.rate /\ c.rate = Floor /\ c.tokens = n
    BY <1>1, <2>2, Zenon DEF Outbox
  <2> HIDE DEF c
  <2>4. b.rate >= Floor
    BY <1>1, FloorType
  <2>5. Running(c)
    BY Zenon, <2>2, <2>3, <2>4 DEF Running, Below
  <2>6. b.trip # 0 => b.trip >= Floor /\ (b.rate < b.trip \/ b.rate = Floor)
    BY Zenon DEF Running, Below
  <2>7. b.trip # 0 => b.rate < b.trip \/ b.trip = Floor
    BY <1>1, <2>6, FloorType
  <2> QED
    BY Zenon, <2>1, <2>3, <2>5, <2>7 DEF Falls
<1> QED
  BY Zenon, <1>2, <1>3

\* The rate climbs no further than a step below the one that was remembered.
LEMMA AdaptKeeps ==
    ASSUME ceiling \in Nat \ {0}, NEW b, Running(b), NEW silence \in Nat, NEW later \in BOOLEAN
    PROVE  LET c == Adapt(b, silence, later)
           IN  /\ Running(c) /\ c.pending = b.pending
               /\ c.degraded => b.degraded /\ c.trip = b.trip
<1> DEFINE c == Adapt(b, silence, later)
<1>1. b \in Outbox /\ b.rate \in Floor..ceiling /\ b.trip \in 0..ceiling /\ b.tokens \in 0..ceiling
  BY Zenon DEF Running, Outbox
<1>2. CASE b.degraded
  <2> DEFINE d == silence < DegradedFor
  <2>1. c = [b EXCEPT !.degraded = d]
    BY <1>2, Zenon DEF Adapt
  <2>. d \in BOOLEAN
    OBVIOUS
  <2> HIDE DEF c, d
  <2>2. /\ c \in Outbox /\ c.open = b.open /\ c.pending = b.pending
        /\ c.trip = b.trip /\ c.rate = b.rate /\ c.tokens = b.tokens
    BY Zenon, <1>1, <2>1 DEF Outbox
  <2>3. Running(c)
    BY Zenon, <2>2 DEF Running, Below
  <2> QED
    BY Zenon, <1>2, <2>2, <2>3 DEF c
<1>3. CASE ~b.degraded
  <2> DEFINE t == IF silence >= TripForgotten THEN 0 ELSE b.trip
             f == [b EXCEPT !.trip = t]
             r == IF later THEN Climbed(b, f) ELSE b.rate
  <2>1. c = [b EXCEPT !.rate = r, !.trip = t]
    <3>1. b.rate = f.rate
      BY Zenon, <1>1 DEF Outbox
    <3>2. c = [f EXCEPT !.rate = r]
      BY <1>3, <3>1, Zenon DEF Adapt
    <3> HIDE DEF c, r, t
    <3> QED
      BY <1>1, <3>2, Zenon DEF Outbox
  <2>2. (t = 0 \/ t = b.trip) /\ t \in 0..ceiling
    BY <1>1, OutboxAssumption
  <2>3. f.trip = t
    BY Zenon, <1>1 DEF Outbox
  <2>4. /\ r \in Floor..ceiling /\ b.rate <= r
        /\ t # 0 => t >= Floor /\ (r < t \/ r = Floor)
    <3> HIDE DEF t, f
    <3>1. /\ climb_limit(b) = IF b.trip = 0 THEN ceiling ELSE Least(Most(b.trip - RaiseStep, Floor), ceiling)
          /\ climb_limit(f) = IF t = 0 THEN ceiling ELSE Least(Most(t - RaiseStep, Floor), ceiling)
      BY Zenon, <2>3 DEF climb_limit
    <3>2. /\ climb_limit(f) \in Floor..ceiling
          /\ climb_limit(b) \in Floor..ceiling /\ climb_limit(b) <= climb_limit(f)
          /\ t # 0 => climb_limit(f) < t \/ climb_limit(f) = Floor
      BY <1>1, <2>2, <3>1, FloorType, OutboxAssumption DEF Least, Most
    <3> HIDE DEF r
    <3>3. \/ r = b.rate
          \/ r = Least(b.rate + RaiseStep, climb_limit(f)) /\ b.rate < climb_limit(b)
      BY Zenon DEF r, Climbed
    <3>4. b.trip # 0 => b.trip >= Floor /\ (b.rate < b.trip \/ b.rate = Floor)
      BY Zenon DEF Running, Below
    <3>5. CASE r = b.rate
      BY <1>1, <2>2, <3>4, <3>5, FloorType
    <3>6. CASE r = Least(b.rate + RaiseStep, climb_limit(f)) /\ b.rate < climb_limit(b)
      BY <1>1, <2>2, <3>2, <3>4, <3>6, FloorType, OutboxAssumption DEF Least
    <3> QED
      BY Zenon, <3>3, <3>5, <3>6
  <2> HIDE DEF c, r, t
  <2>5. /\ c \in Outbox /\ c.open = b.open /\ c.pending = b.pending
        /\ c.trip = t /\ c.rate = r /\ c.tokens = b.tokens /\ c.degraded = b.degraded
    BY <1>1, <2>1, <2>2, <2>4, Zenon DEF Outbox
  <2>6. b.tokens <= r
    <3>1. b.tokens <= b.rate
      BY Zenon DEF Running
    <3> QED
      BY <1>1, <2>4, <3>1, FloorType
  <2>7. Running(c)
    BY <2>4, <2>5, <2>6, Zenon DEF Running, Below
  <2> QED
    BY Zenon, <1>3, <2>5, <2>7 DEF c
<1> QED
  BY Zenon, <1>2, <1>3

\* Budget::advance.
LEMMA AdvanceKeeps ==
    ASSUME ceiling \in Nat \ {0}, NEW b, Running(b), NEW silence \in Nat, NEW later \in BOOLEAN
    PROVE  LET c == Advance(b, silence, later)
           IN  Running(c) /\ c.pending = b.pending /\ Falls(b, c)
<1> DEFINE s == IF pressure THEN Signal(b) ELSE b
           c == Adapt(s, silence, later)
<1>1. Advance(b, silence, later) = c
  BY Zenon DEF Advance
<1>2. Running(s) /\ s.pending = b.pending /\ Falls(b, s)
  BY Zenon, SignalKeeps DEF Falls
<1> HIDE DEF s
<1>3. Running(c) /\ c.pending = s.pending /\ (c.degraded => s.degraded /\ c.trip = s.trip)
  BY <1>2, AdaptKeeps, Zenon
<1> HIDE DEF c
<1> QED
  BY Zenon, <1>1, <1>2, <1>3 DEF Falls

\* release_budgeted takes no more tokens than there are.
LEMMA AfterReleaseKeeps ==
    ASSUME ceiling \in Nat \ {0}, NEW b, Running(b)
    PROVE  /\ Running(AfterRelease(b)) /\ Releasable(b) \in 0..Len(b.pending)
           /\ \A o : Announces(AfterRelease(b).pending, o) => Announces(b.pending, o)
           /\ AfterRelease(b).trip = b.trip /\ AfterRelease(b).degraded = b.degraded
<1>1. /\ b \in Outbox /\ b.rate \in Floor..ceiling /\ b.tokens \in 0..ceiling /\ b.tokens <= b.rate
      /\ b.pending \in Seq(Message) /\ Len(b.pending) \in Nat
  BY DEF Running, Outbox
<1>2. /\ Releasable(b) \in 0..Len(b.pending)
      /\ Token * Releasable(b) \in Nat /\ Token * Releasable(b) <= b.tokens
  <2>1. b.tokens \in Nat
    BY <1>1
  <2> DEFINE w == b.tokens \div Token
  <2>2. w \in Nat /\ Token * w <= b.tokens
    BY <2>1, WholeTokens, Zenon
  <2>3. Releasable(b) \in {0, Least(w, Len(b.pending))}
    BY Zenon DEF Releasable
  <2> HIDE DEF w
  <2>4. Releasable(b) \in Nat /\ Releasable(b) <= w /\ Releasable(b) <= Len(b.pending)
    BY <1>1, <2>2, <2>3 DEF Least
  <2>5. Token \in Nat
    BY OutboxAssumption
  <2>6. Token * Releasable(b) \in Nat /\ Token * Releasable(b) <= Token * w /\ Token * w \in Nat
    BY ONLY <2>2, <2>4, <2>5, TimesGrows
  <2> QED
    BY <1>1, <2>1, <2>2, <2>4, <2>6
<1> DEFINE q == SubSeq(b.pending, Releasable(b) + 1, Len(b.pending))
           c == AfterRelease(b)
<1>3. c = [b EXCEPT !.pending = q, !.tokens = b.tokens - Token * Releasable(b)]
  BY Zenon DEF AfterRelease
<1>4. Waits(q) /\ \A o : Announces(q, o) => Announces(b.pending, o)
  <2>1. Waits(b.pending)
    BY Zenon DEF Running
  <2> QED
    BY <1>2, <2>1, ReleaseKeeps, Zenon
<1> HIDE DEF q, c
<1>5. b.tokens - Token * Releasable(b) \in 0..ceiling /\ b.tokens - Token * Releasable(b) <= b.rate
  BY <1>1, <1>2, FloorType
<1>6. /\ c \in Outbox /\ c.open = b.open /\ c.pending = q /\ c.trip = b.trip /\ c.rate = b.rate
      /\ c.degraded = b.degraded /\ c.tokens = b.tokens - Token * Releasable(b)
  BY <1>1, <1>3, <1>4, <1>5, Zenon DEF Outbox, Waits
<1>7. Running(c)
  BY <1>4, <1>5, <1>6, Zenon DEF Running, Below
<1> QED
  BY <1>2, <1>4, <1>6, <1>7, Zenon DEF c

\* MakerOutboxes::tick.
LEMMA TickedKeeps ==
    ASSUME ceiling \in Nat \ {0}, NEW b, Running(b), NEW silence \in Nat, NEW later \in BOOLEAN
    PROVE  LET c == Ticked(b, silence, later)
           IN  Running(c) /\ c.pending = b.pending /\ Falls(b, c)
<1> DEFINE f == [b EXCEPT !.tokens = Least(@ + 1, capacity(b.rate))]
           a == Advance(f, silence, later)
           c == [a EXCEPT !.tokens = Least(@, capacity(a.rate))]
<1>1. Ticked(b, silence, later) = c
  BY Zenon DEF Ticked
<1>2. b \in Outbox /\ b.rate \in Floor..ceiling /\ b.tokens \in 0..ceiling
  BY Zenon DEF Running, Outbox
<1>3. /\ f \in Outbox /\ f.open = b.open /\ f.pending = b.pending /\ f.trip = b.trip
      /\ f.rate = b.rate /\ f.degraded = b.degraded /\ f.tokens <= f.rate
  BY <1>2, FloorType DEF Outbox, Least, capacity
<1> HIDE DEF f
<1>4. Running(f)
  BY Zenon, <1>3 DEF Running, Below
<1>5. Running(a) /\ a.pending = f.pending /\ Falls(f, a)
  BY <1>4, AdvanceKeeps, Zenon
<1> HIDE DEF a
<1>6. a \in Outbox /\ a.rate \in Floor..ceiling /\ a.tokens \in 0..ceiling
  BY Zenon, <1>5 DEF Running, Outbox
<1>7. /\ c \in Outbox /\ c.open = a.open /\ c.pending = a.pending /\ c.trip = a.trip
      /\ c.rate = a.rate /\ c.degraded = a.degraded /\ c.tokens <= c.rate
  BY <1>6, FloorType DEF Outbox, Least, capacity
<1> HIDE DEF c
<1>8. Running(c)
  BY Zenon, <1>5, <1>7 DEF Running, Below
<1> QED
  BY Zenon, <1>1, <1>3, <1>5, <1>7, <1>8 DEF Falls

-----------------------------------------------------------------------------
(* What publishing and pumping do to the announcements.                     *)

Made(msg) == IF msg.kind = "created" THEN {msg.order} ELSE {}
Gone(msg) == IF msg.kind = "cancelled" THEN {msg.order} ELSE {}

\* The announcements of some orders were made, and those of others taken back.
Passed(made, gone) ==
    \A o \in Orders :
        /\ Held(o)' => (Held(o) /\ o \notin gone) \/ o \in made
        /\ OnWire(o)' => OnWire(o) \/ Held(o) \/ o \in made
        /\ CancelOnWire(o)' => CancelOnWire(o) \/ o \in gone

OutboxMoves(made, gone) == OutboxInv' /\ Falls(outbox, outbox') /\ Passed(made, gone)

\* A new outbox, or none, has nothing to forget.
LEMMA OutboxThere ==
    ASSUME ceiling \in Nat \ {0}
    PROVE  /\ Running(NewOutbox)
           /\ NewOutbox.pending = <<>> /\ NoOutbox.pending = <<>>
           /\ NoOutbox \in Outbox /\ ~NoOutbox.open /\ ~NoOutbox.degraded /\ NoOutbox.trip = 0
           /\ NoOutbox.tokens <= NoOutbox.rate
<1>1. Waits(<<>>)
  BY DEF Waits, OneSlot
<1>2. ceiling \in Floor..ceiling /\ ceiling \in 0..ceiling /\ 0 \in 0..ceiling /\ ceiling <= ceiling
  BY FloorType
<1>3. /\ NewOutbox \in Outbox
      /\ NewOutbox.open /\ NewOutbox.rate = ceiling /\ NewOutbox.tokens = ceiling
      /\ NewOutbox.trip = 0 /\ NewOutbox.pending = <<>>
  BY Zenon, <1>1, <1>2 DEF NewOutbox, Outbox, capacity, Waits
<1>4. /\ NoOutbox \in Outbox
      /\ ~NoOutbox.open /\ ~NoOutbox.degraded /\ NoOutbox.trip = 0 /\ NoOutbox.pending = <<>>
      /\ NoOutbox.rate = ceiling /\ NoOutbox.tokens = ceiling
  BY <1>1, <1>2, Zenon DEF NewOutbox, NoOutbox, Outbox, capacity, Waits
<1> QED
  BY Zenon, <1>1, <1>2, <1>3, <1>4 DEF Running, Below

\* outbox_of opens an outbox where there is none.
LEMMA OutboxOf ==
    ASSUME ceiling \in Nat \ {0}, GoodOutbox(outbox)
    PROVE  /\ Running(outbox_of(outbox))
           /\ outbox_of(outbox).pending = outbox.pending
           /\ \A c : Falls(outbox_of(outbox), c) => Falls(outbox, c)
<1>1. CASE outbox.open
  BY <1>1, OutboxThere, Zenon DEF outbox_of, GoodOutbox
<1>2. CASE ~outbox.open
  <2>1. outbox = NoOutbox
    BY <1>2, Zenon DEF GoodOutbox, Running
  <2>2. outbox_of(outbox) \in {NewOutbox, Signal(NewOutbox)}
    BY <1>2, Zenon DEF outbox_of
  <2>3. /\ Running(outbox_of(outbox))
        /\ outbox_of(outbox).pending = <<>>
    BY <2>2, OutboxThere, SignalKeeps, Zenon
  <2> QED
    BY <2>1, <2>3, OutboxThere, Zenon DEF Falls
<1> QED
  BY Zenon, <1>1, <1>2

\* What is released has waited, so no cancellation is among it.
LEMMA ReleasedFrom ==
    ASSUME ceiling \in Nat \ {0}, NEW b, Running(b), NEW m \in Released(b)
    PROVE  /\ m \in Message /\ m.kind # "cancelled"
           /\ m.kind = "created" => Announces(b.pending, m.order)
<1>1. Waits(b.pending) /\ Releasable(b) \in 0..Len(b.pending)
  BY AfterReleaseKeeps, Zenon DEF Running
<1>2. PICK i \in DOMAIN b.pending : m = b.pending[i]
  BY <1>1 DEF Released, Waits
<1>3. b.pending[i] \in Message
  BY <1>1 DEF Waits
<1> QED
  BY <1>1, <1>2, <1>3, Zenon DEF Waits, Announces

\* The time since the last signal is counted up to the point where it no longer
\* matters.
LEMMA SilenceType ==
    ASSUME OutboxInv, NEW later \in BOOLEAN
    PROVE  Silence(later) \in 0..TripForgotten /\ Silence(later) \in Nat
  BY OutboxAssumption DEF OutboxInv, Silence, Least

\* publish_maker_order_message: a cancellation overtakes what waits, and is the
\* only message that is released out of turn.
LEMMA PublishEffect ==
    ASSUME OutboxInv, NEW msg \in Message, Publish(msg)
    PROVE  OutboxMoves(Made(msg), Gone(msg)) /\ UNCHANGED options
<1> ceiling \in Nat \ {0}
  BY Zenon DEF OutboxInv
<1> DEFINE before == outbox_of(outbox)
           adapted == Advance(before, Silence(FALSE), FALSE)
           b == [adapted EXCEPT !.pending = Push(@, msg)]
<1>1. CASE ~coalescing
  <2>1. wire' = wire \union {msg} /\ UNCHANGED <<options, outbox, quiet, recent, pressure, signals>>
    BY <1>1, Zenon DEF Publish
  <2>2. outbox = NoOutbox /\ outbox' = outbox
    BY <1>1, <2>1, Zenon DEF OutboxInv
  <2>3. OutboxInv'
    BY Zenon, <2>1 DEF OutboxInv, GoodOutbox, Running, Waits, OneSlot, Outbox, Below, options, Floor,
         NoOutbox, NewOutbox, capacity
  <2>4. Falls(outbox, outbox')
    BY <2>2, OutboxThere, Zenon DEF Falls
  <2>5. \A o : ~Announces(<<>>, o)
    BY DEF Announces
  <2>6. \A o : ~Held(o) /\ ~Held(o)'
    BY <2>2, <2>5, OutboxThere, Zenon DEF Held
  <2>7. Passed(Made(msg), Gone(msg))
    BY Zenon, <2>1, <2>6 DEF Passed, OnWire, CancelOnWire, Made, Gone
  <2> QED
    BY <2>1, <2>3, <2>4, <2>7, Zenon DEF OutboxMoves
<1>2. CASE coalescing
  <2>1. /\ outbox' = AfterRelease(b) /\ quiet' = Silence(FALSE)
        /\ recent' = (recent \/ Released(b) # {})
        /\ wire' = wire \union Released(b)
             \union (IF msg.kind = "cancelled" THEN {msg} ELSE {})
        /\ UNCHANGED <<options, pressure, signals>>
    BY <1>2, Zenon DEF Publish
  <2>2. Running(before) /\ before.pending = outbox.pending /\ \A c : Falls(before, c) => Falls(outbox, c)
    BY OutboxOf, Zenon DEF OutboxInv
  <2> HIDE DEF before
  <2>3. Running(adapted) /\ adapted.pending = outbox.pending /\ Falls(before, adapted)
    BY <2>2, SilenceType, AdvanceKeeps, Zenon
  <2> HIDE DEF adapted
  <2>4. /\ Waits(Push(outbox.pending, msg))
        /\ \A o : Announces(Push(outbox.pending, msg), o) =>
             (Held(o) /\ o \notin Gone(msg)) \/ o \in Made(msg)
    <3>1. Waits(outbox.pending)
      BY <2>3, Zenon DEF Running
    <3> QED
      BY Zenon, <3>1, PushKeeps DEF Held, Made, Gone
  <2>5. /\ b \in Outbox /\ b.pending = Push(outbox.pending, msg) /\ b.open = adapted.open
        /\ b.tokens = adapted.tokens /\ b.rate = adapted.rate /\ b.trip = adapted.trip
        /\ b.degraded = adapted.degraded
    <3>1. adapted \in Outbox /\ Push(outbox.pending, msg) \in Seq(Message)
      BY <2>3, <2>4, Zenon DEF Running, Waits
    <3> QED
      BY Zenon, <2>3, <3>1 DEF Outbox
  <2> HIDE DEF b
  <2>6. Running(b) /\ Falls(before, b)
    BY <2>3, <2>4, <2>5, Zenon DEF Running, Below, Falls
  <2>7. Running(outbox') /\ outbox'.trip = b.trip /\ outbox'.degraded = b.degraded
    BY <2>1, <2>6, AfterReleaseKeeps, Zenon
  <2>8. \A o : Announces(outbox'.pending, o) => Announces(b.pending, o)
    BY <2>1, <2>6, AfterReleaseKeeps, Zenon
  <2>9. \A m \in Released(b) : /\ m \in Message /\ m.kind # "cancelled"
                               /\ m.kind = "created" => Announces(b.pending, m.order)
    BY <2>6, ReleasedFrom, Zenon
  <2>10. OutboxInv'
    <3>1. wire' \subseteq Message
      BY Zenon, <2>1, <2>9 DEF OutboxInv
    <3>2. Silence(FALSE) \in 0..TripForgotten
      BY SilenceType, Zenon
    <3>3. recent' \in BOOLEAN
      BY <2>1, Zenon
    <3> QED
      BY <1>2, <2>1, <2>7, <3>1, <3>2, <3>3, Zenon DEF OutboxInv, GoodOutbox, Running, Outbox, Waits, OneSlot, Below, options, Floor,
         NoOutbox, NewOutbox, capacity
  <2>11. Falls(outbox, outbox')
    <3>1. Falls(before, outbox')
      BY <2>6, <2>7, Zenon DEF Falls
    <3> QED
      BY <2>2, <3>1, Zenon
  <2>12. Passed(Made(msg), Gone(msg))
    <3> SUFFICES ASSUME NEW o \in Orders
                 PROVE  /\ Held(o)' => (Held(o) /\ o \notin Gone(msg)) \/ o \in Made(msg)
                        /\ OnWire(o)' => OnWire(o) \/ Held(o) \/ o \in Made(msg)
                        /\ CancelOnWire(o)' => CancelOnWire(o) \/ o \in Gone(msg)
      BY Zenon DEF Passed
    <3>1. Held(o)' => (Held(o) /\ o \notin Gone(msg)) \/ o \in Made(msg)
      BY <2>4, <2>5, <2>8, Zenon DEF Held
    <3>2. OnWire(o)' => OnWire(o) \/ Held(o) \/ o \in Made(msg)
      BY Zenon, <2>1, <2>4, <2>5, <2>9 DEF OnWire
    <3>3. CancelOnWire(o)' => CancelOnWire(o) \/ o \in Gone(msg)
      BY Zenon, <2>1, <2>9 DEF CancelOnWire, Gone
    <3> QED
      BY Zenon, <3>1, <3>2, <3>3
  <2> QED
    BY <2>1, <2>10, <2>11, <2>12, Zenon DEF OutboxMoves
<1>3. coalescing \in BOOLEAN
  BY Zenon DEF OutboxInv
<1> QED
  BY Zenon, <1>1, <1>2, <1>3

\* pump_maker_outbox, and a signal or its end: nothing is announced that did not
\* wait.
LEMMA PumpEffect ==
    ASSUME OutboxInv, NEW later \in BOOLEAN, Pump(later)
    PROVE  OutboxMoves({}, {})
<1> ceiling \in Nat \ {0}
  BY Zenon DEF OutboxInv
<1> DEFINE b == Ticked(outbox, Silence(later), later)
           after == AfterRelease(b)
<1>1. quiet' = Silence(later) /\ Silence(later) \in 0..TripForgotten /\ Silence(later) \in Nat
  BY SilenceType, Zenon DEF Pump
<1>2. UNCHANGED <<options, pressure, signals>>
  BY Zenon DEF Pump
<1>3. CASE ~outbox.open
  <2>1. UNCHANGED <<outbox, wire>> /\ recent' = (recent /\ ~later)
    BY <1>3, Zenon DEF Pump
  <2>2. recent' \in BOOLEAN
    BY <2>1, Zenon DEF OutboxInv
  <2>3. OutboxInv'
    BY <1>1, <1>2, <2>1, <2>2, Zenon DEF OutboxInv, GoodOutbox, Running, Outbox, Waits, OneSlot, Below, options, Floor,
         NoOutbox, NewOutbox, capacity
  <2>4. Falls(outbox, outbox') /\ Passed({}, {})
    BY <2>1, Zenon DEF Falls, Passed, Held, OnWire, CancelOnWire
  <2> QED
    BY <2>3, <2>4, Zenon DEF OutboxMoves
<1>4. CASE outbox.open
  <2>1. /\ outbox' = IF after.pending = <<>> /\ is_idle(after) THEN NoOutbox ELSE after
        /\ wire' = wire \union Released(b)
        /\ recent' = (Released(b) # {} \/ (recent /\ ~later))
    BY <1>4, Zenon DEF Pump
  <2>2. Running(outbox) /\ coalescing
    BY <1>4, OutboxThere, Zenon DEF OutboxInv, GoodOutbox
  <2>3. Running(b) /\ b.pending = outbox.pending /\ Falls(outbox, b)
    BY <1>1, <2>2, TickedKeeps, Zenon
  <2> HIDE DEF b
  <2>4. Running(after) /\ after.trip = b.trip /\ after.degraded = b.degraded
    BY <2>3, AfterReleaseKeeps, Zenon
  <2>5. \A o : Announces(after.pending, o) => Announces(b.pending, o)
    BY <2>3, AfterReleaseKeeps, Zenon
  <2>6. \A m \in Released(b) : /\ m \in Message /\ m.kind # "cancelled"
                               /\ m.kind = "created" => Announces(b.pending, m.order)
    BY <2>3, ReleasedFrom, Zenon
  <2> HIDE DEF after
  <2>7. GoodOutbox(outbox') /\ Falls(outbox, outbox')
        /\ \A o : Announces(outbox'.pending, o) => Announces(outbox.pending, o)
    <3>1. CASE outbox' = NoOutbox
      <4>1. \A o : ~Announces(<<>>, o)
        BY DEF Announces
      <4> QED
        BY <3>1, <4>1, OutboxThere, Zenon DEF GoodOutbox, Falls
    <3>2. CASE outbox' = after
      BY <2>3, <2>4, <2>5, <3>2, Zenon DEF GoodOutbox, Falls
    <3> QED
      BY <2>1, <3>1, <3>2, Zenon
  <2>8. OutboxInv'
    <3>1. wire' \subseteq Message
      BY Zenon, <2>1, <2>6 DEF OutboxInv
    <3>2. recent' \in BOOLEAN
      BY <2>1, Zenon
    <3> QED
      BY <1>1, <1>2, <2>2, <2>7, <3>1, <3>2, Zenon DEF OutboxInv, GoodOutbox, Running, Outbox, Waits, OneSlot, Below, options, Floor,
         NoOutbox, NewOutbox, capacity
  <2>9. ASSUME NEW o \in Orders
        PROVE  /\ Held(o)' => Held(o)
               /\ OnWire(o)' => OnWire(o) \/ Held(o)
               /\ CancelOnWire(o)' => CancelOnWire(o)
    <3>1. Held(o)' => Held(o)
      BY <2>7, Zenon DEF Held
    <3>2. OnWire(o)' => OnWire(o) \/ Held(o)
      BY Zenon, <2>1, <2>3, <2>6 DEF OnWire, Held
    <3>3. CancelOnWire(o)' => CancelOnWire(o)
      BY Zenon, <2>1, <2>6 DEF CancelOnWire
    <3> QED
      BY Zenon, <3>1, <3>2, <3>3
  <2>10. Passed({}, {})
    BY <2>9, Zenon DEF Passed
  <2> QED
    BY <2>7, <2>8, <2>10, Zenon DEF OutboxMoves
<1> QED
  BY Zenon, <1>3, <1>4

\* The relays: the queue of one fills or drains, or a connection closes.
LEMMA RelayEffect ==
    ASSUME OutboxInv, PressureRises \/ PressureFalls \/ RelayCloses
    PROVE  OutboxMoves({}, {})
<1> ceiling \in Nat \ {0}
  BY Zenon DEF OutboxInv
<1>1. UNCHANGED <<options, recent, wire>> /\ pressure' \in BOOLEAN
  BY Zenon DEF PressureRises, PressureFalls, RelayCloses, OutboxInv
<1>2. signals' \in Nat
  BY DEF PressureRises, PressureFalls, RelayCloses, OutboxInv
<1>3. quiet' \in {quiet, 0} /\ outbox' \in {outbox, IF outbox.open THEN Signal(outbox) ELSE outbox}
  BY Zenon DEF PressureRises, PressureFalls, RelayCloses
<1>4. /\ GoodOutbox(outbox') /\ Falls(outbox, outbox') /\ outbox'.pending = outbox.pending
      /\ ~coalescing => outbox' = outbox
  <2>1. CASE outbox' = outbox
    BY <2>1, Zenon DEF GoodOutbox, Running, Outbox, Waits, OneSlot, Below, options, Floor,
         NoOutbox, NewOutbox, capacity, Falls, OutboxInv
  <2>2. CASE outbox.open /\ outbox' = Signal(outbox)
    <3>1. Running(outbox) /\ coalescing
      BY <2>2, OutboxThere, Zenon DEF OutboxInv, GoodOutbox
    <3> QED
      BY <2>2, <3>1, SignalKeeps, Zenon DEF GoodOutbox
  <2> QED
    BY <1>3, <2>1, <2>2, Zenon
<1>5. quiet' \in 0..TripForgotten
  BY <1>3, OutboxAssumption DEF OutboxInv
<1>6. OutboxInv'
  BY <1>1, <1>2, <1>4, <1>5, Zenon DEF OutboxInv, GoodOutbox, Running, Outbox, Waits, OneSlot, Below, options, Floor,
         NoOutbox, NewOutbox, capacity
<1>7. Passed({}, {})
  BY <1>1, <1>4, Zenon DEF Passed, Held, OnWire, CancelOnWire
<1> QED
  BY <1>4, <1>6, <1>7, Zenon DEF OutboxMoves

\* Steps that leave the outbox alone.
LEMMA QuietEffect ==
    ASSUME OutboxInv, UNCHANGED outboxVars
    PROVE  OutboxMoves({}, {})
<1>1. OutboxInv'
  BY Zenon DEF OutboxInv, GoodOutbox, Running, Outbox, Waits, OneSlot, Below, options, Floor,
         NoOutbox, NewOutbox, capacity, outboxVars
<1>2. Falls(outbox, outbox') /\ Passed({}, {})
  BY Zenon DEF Falls, Passed, Held, OnWire, CancelOnWire, outboxVars
<1> QED
  BY <1>1, <1>2, Zenon DEF OutboxMoves

-----------------------------------------------------------------------------
(* A step of the maker touches one order.                                   *)

\* An order that a step leaves alone.
Same(x) ==
    /\ phase'[x] = phase[x] /\ vol'[x] = vol[x] /\ mybook'[x] = mybook[x]
    /\ x \in store' <=> x \in store
    /\ x \in dropped' <=> x \in dropped
    /\ x \in raced' <=> x \in raced
    /\ x \in pass'.todo <=> x \in pass.todo
    /\ x \in pass'.cancel <=> x \in pass.cancel
    /\ x \in Converted /\ Entering(x) => pass' = pass

\* It keeps what is known of it: whatever was announced of it before.
LEMMA OrderKept ==
    ASSUME NEW x \in Orders, At(x), Same(x), UNCHANGED peerVars,
           NEW made, NEW gone, Passed(made, gone), x \notin made, x \notin gone
    PROVE  At(x)'
<1>1. /\ Held(x)' => Held(x)
      /\ OnWire(x)' => OnWire(x) \/ Held(x)
      /\ CancelOnWire(x)' => CancelOnWire(x)
  BY Zenon DEF Passed
<1>2. heard' = heard /\ book' = book /\ guard' = guard /\ answer' = answer
  BY Zenon DEF peerVars
<1>3. PhaseAt(x)' /\ PassAt(x)' /\ OwnAt(x)'
  BY Zenon, <1>1, <1>2 DEF Same, At, PhaseAt, PassAt, OwnAt, Outside, CancelSent
<1>4. ConvertAt(x)'
  BY Zenon DEF Same, At, ConvertAt, Entering
<1>5. CancelAt(x)' /\ HeardAt(x)'
  BY Zenon, <1>1, <1>2 DEF Same, At, CancelAt, HeardAt, CancelSent
<1> QED
  BY <1>3, <1>4, <1>5, Zenon DEF At

\* So it is enough to look at the order it touches.
LEMMA OneOrder ==
    ASSUME PublishInv, NEW o \in Orders, \A x \in Orders \ {o} : Same(x),
           UNCHANGED peerVars, NEW made \in SUBSET {o}, NEW gone \in SUBSET {o},
           OutboxMoves(made, gone), WatchTypeOK', MakerTypes', WatchInv', At(o)'
    PROVE  PublishInv' /\ Falls(outbox, outbox')
<1>1. Passed(made, gone) /\ OutboxInv' /\ Falls(outbox, outbox')
  BY Zenon DEF OutboxMoves
<1>2. ASSUME NEW x \in Orders, x # o
      PROVE  At(x)'
  <2>1. At(x) /\ Same(x) /\ x \notin made /\ x \notin gone
    BY <1>2, Zenon DEF PublishInv
  <2> QED
    BY <1>1, <2>1, OrderKept, Zenon
<1>3. PeerTypes'
  BY Zenon DEF PublishInv, PeerTypes, peerVars
<1> QED
  BY <1>1, <1>2, <1>3, Zenon DEF PublishInv

\* An order does not go back.
Onward ==
    \A x \in Orders :
        /\ phase[x] \in {"saving", "done"} => phase'[x] \in {"saving", "done"}
        /\ ~Outside(x) => ~Outside(x)'

\* A task goes on, with what it had to visit.
TasksGoOn ==
    \A g \in Generations :
        /\ task[g].at \notin {"none", "ended"} => task'[g].at \notin {"none", "ended"}
        /\ task'[g].todo \subseteq task[g].todo

\* The watch of a store that did not become empty, or did with the watch gone.
LEMMA WatchKeeps ==
    ASSUME PublishInv, WatchTypeOK', MakerTypes', generation' = generation,
           TasksGoOn, Onward,
           \/ watch' = watch /\ (store' = {} => store = {})
           \/ watch' = NoWatch /\ store' = {},
           \A x \in store' : phase'[x] # "added" => x \in store /\ phase[x] # "added"
    PROVE  WatchInv'
<1>1. Past \subseteq Past' /\ Past' \subseteq Orders
  BY Zenon DEF Past, Onward
<1>2. /\ IsFiniteSet(Past') /\ IsFiniteSet(Past)
      /\ Cardinality(Past) <= Cardinality(Past')
      /\ Cardinality(Past) \in Nat /\ Cardinality(Past') \in Nat
  BY <1>1, FS_Subset, FS_CardinalityType, PublishAssumption, Zenon
<1>3. /\ generation \in Nat /\ generation >= 1 /\ watch.gen \in Nat
      /\ watch.gen # 0 => watch.gen \in Generations
  <2>1. Cardinality(Orders) \in Nat
    BY FS_CardinalityType, PublishAssumption, Zenon
  <2> QED
    BY <2>1 DEF PublishInv, WatchTypeOK, Generations
<1>4. WatchInv
  BY Zenon DEF PublishInv
<1>5. generation' <= Cardinality(Past') + 1
  BY <1>2, <1>3, <1>4 DEF WatchInv
<1>6. \A g \in Generations : \A x \in task'[g].todo : ~Outside(x)'
  <2>1. \A g \in Generations : task[g].todo \subseteq Orders
    BY Zenon DEF PublishInv, WatchTypeOK
  <2> QED
    BY <1>4, <2>1, Zenon DEF WatchInv, TasksGoOn, Onward
<1>7. CASE watch' = watch /\ (store' = {} => store = {})
  <2>1. /\ store' = {} => watch' = NoWatch
        /\ watch'.gen = 0 => watch' = NoWatch
        /\ watch'.gen # 0 => task'[watch'.gen].at \notin {"none", "ended"}
        /\ (\E x \in store' : phase'[x] # "added") => watch'.gen # 0
        /\ watch'.gen < generation'
    BY <1>3, <1>4, <1>7, Zenon DEF WatchInv, TasksGoOn
  <2> QED
    BY <1>5, <1>6, <2>1, Zenon DEF WatchInv
<1>8. CASE watch' = NoWatch /\ store' = {}
  <2>1. watch'.gen = 0
    BY Zenon, <1>8 DEF NoWatch
  <2> QED
    BY <1>3, <1>5, <1>8, <1>6, <2>1 DEF WatchInv
<1> QED
  BY Zenon, <1>7, <1>8

-----------------------------------------------------------------------------
(* The steps of the maker.                                                  *)

\* What the three notifications announce.
LEMMA Notified ==
    ASSUME PublishInv, NEW o \in Orders, NEW v \in Volumes
    PROVE  /\ NotifyCreated(o, v) => OutboxMoves({o}, {})
           /\ NotifyUpdated(o, v) => OutboxMoves({}, {})
           /\ NotifyCancelled(o) => OutboxMoves({}, {o})
<1>1. \A kind \in {"created", "updated", "cancelled"}, w \in Volumes :
         /\ Msg(kind, o, w) \in Message
         /\ Msg(kind, o, w).kind = kind /\ Msg(kind, o, w).order = o
  BY Zenon DEF Msg, Message
<1>2. OutboxInv /\ 0 \in Volumes
  BY OutboxAssumption, Zenon DEF PublishInv
<1>3. NotifyCreated(o, v) => OutboxMoves({o}, {})
  <2> DEFINE msg == Msg("created", o, v)
  <2>1. msg \in Message /\ Made(msg) = {o} /\ Gone(msg) = {}
    BY Zenon, <1>1 DEF Made, Gone
  <2> HIDE DEF msg
  <2>2. Publish(msg) => OutboxMoves(Made(msg), Gone(msg))
    BY <1>2, <2>1, PublishEffect, Zenon
  <2> QED
    BY <2>1, <2>2, Zenon DEF NotifyCreated, msg
<1>4. NotifyUpdated(o, v) => OutboxMoves({}, {})
  <2> DEFINE msg == Msg("updated", o, v)
  <2>1. msg \in Message /\ Made(msg) = {} /\ Gone(msg) = {}
    BY Zenon, <1>1 DEF Made, Gone
  <2> HIDE DEF msg
  <2>2. Publish(msg) => OutboxMoves(Made(msg), Gone(msg))
    BY <1>2, <2>1, PublishEffect, Zenon
  <2> QED
    BY <2>1, <2>2, Zenon DEF NotifyUpdated, msg
<1>5. NotifyCancelled(o) => OutboxMoves({}, {o})
  <2> DEFINE msg == Msg("cancelled", o, 0)
  <2>1. msg \in Message /\ Made(msg) = {} /\ Gone(msg) = {o}
    BY Zenon, <1>1, <1>2 DEF Made, Gone
  <2> HIDE DEF msg
  <2>2. Publish(msg) => OutboxMoves(Made(msg), Gone(msg))
    BY <1>2, <2>1, PublishEffect, Zenon
  <2> QED
    BY <2>1, <2>2, Zenon DEF NotifyCancelled, msg
<1> QED
  BY Zenon, <1>3, <1>4, <1>5

\* create_maker_order up to its checks.
LEMMA CreateChecksStep ==
    ASSUME PublishInv, NEW o \in Orders, NEW v \in Volumes, CreateChecks(o, v)
    PROVE  PublishInv' /\ Falls(outbox, outbox')
<1>1. OutboxMoves({}, {}) /\ Passed({}, {})
  BY QuietEffect, Zenon DEF PublishInv, CreateChecks, OutboxMoves
<1>2. WatchTypeOK' /\ UNCHANGED watchVars /\ UNCHANGED peerVars /\ UNCHANGED <<mybook, pass, dropped, raced>>
  BY Zenon DEF PublishInv, CreateChecks, WatchTypeOK, watchVars, coins
<1>3. MakerTypes' /\ phase'[o] = "checked" /\ \A x \in Orders \ {o} : phase'[x] = phase[x] /\ vol'[x] = vol[x]
  BY <1>2 DEF PublishInv, CreateChecks, MakerTypes, WatchTypeOK
<1>4. phase[o] = "new" /\ o \notin Converted
  BY Zenon DEF CreateChecks
<1>5. \A x \in Orders \ {o} : Same(x)
  BY <1>2, <1>3, ZenonT(40) DEF Same, watchVars
<1>6. At(o)'
  BY <1>1, <1>2, <1>3, <1>4, Zenon DEF PublishInv, At, PhaseAt, ConvertAt, PassAt, OwnAt, CancelAt,
     HeardAt, Outside, CancelSent, Entering, Passed, watchVars, peerVars
<1>7. WatchInv'
  <2>1. o \notin store
    BY Zenon, <1>4 DEF PublishInv, At, PhaseAt, Outside
  <2>2. generation' = generation /\ task' = task /\ watch' = watch /\ store' = store
    BY <1>2, Zenon DEF watchVars
  <2>3. Onward
    BY Zenon, <1>3, <1>4 DEF Onward, Outside
  <2>4. store \subseteq Orders
    BY Zenon DEF PublishInv, WatchTypeOK
  <2>5. \A x \in store' : phase'[x] # "added" => x \in store /\ phase[x] # "added"
    BY Zenon, <1>3, <2>1, <2>2, <2>4
  <2> QED
    BY <1>2, <1>3, <2>2, <2>3, <2>5, WatchKeeps, ZenonT(40) DEF TasksGoOn
<1> QED
  BY <1>1, <1>2, <1>3, <1>5, <1>6, <1>7, OneOrder

\* The rest of it, up to the watch.
LEMMA CreateAnnouncesStep ==
    ASSUME PublishInv, NEW o \in Orders, CreateAnnounces(o)
    PROVE  PublishInv' /\ Falls(outbox, outbox')
<1>1. vol[o] \in Volumes /\ phase[o] = "checked"
  BY Zenon DEF PublishInv, CreateAnnounces, MakerTypes
<1>2. OutboxMoves({o}, {}) /\ Passed({o}, {})
  BY <1>1, Notified, Zenon DEF CreateAnnounces, OutboxMoves
<1>3. UNCHANGED <<watch, generation, task, coins, vol, pass, dropped, raced>> /\ UNCHANGED peerVars
  BY Zenon DEF CreateAnnounces
<1>4. WatchTypeOK' /\ store' = store \union {o}
  BY Zenon, <1>3 DEF PublishInv, CreateAnnounces, AddOrder, WatchTypeOK, coins
<1>5. /\ MakerTypes' /\ phase'[o] = "added" /\ mybook'[o] = vol[o]
      /\ \A x \in Orders \ {o} : phase'[x] = phase[x] /\ mybook'[x] = mybook[x]
  BY Zenon, <1>1 DEF PublishInv, CreateAnnounces, NotifyCreated, MakerTypes
<1>6. \A x \in Orders \ {o} : Same(x)
  BY Zenon, <1>3, <1>4, <1>5 DEF Same
<1>7. At(o)'
  BY <1>1, <1>2, <1>3, <1>4, <1>5, Zenon DEF PublishInv, At, PhaseAt, ConvertAt, PassAt, OwnAt, CancelAt,
     HeardAt, Outside, CancelSent, Entering, Passed, peerVars
<1>8. WatchInv'
  <2>1. Onward
    BY Zenon, <1>1, <1>5 DEF Onward, Outside
  <2>2. \A x \in store' : phase'[x] # "added" => x \in store /\ phase[x] # "added"
    BY Zenon, <1>4, <1>5 DEF PublishInv, WatchTypeOK
  <2>3. store' # {}
    BY Zenon, <1>4
  <2> QED
    BY <1>3, <1>4, <1>5, <2>1, <2>2, <2>3, WatchKeeps, Zenon DEF TasksGoOn
<1> QED
  BY <1>2, <1>3, <1>4, <1>5, <1>6, <1>7, <1>8, OneOrder

\* A timed-out taker order enters the store.
LEMMA ConvertAddsStep ==
    ASSUME PublishInv, NEW o \in Orders, ConvertAdds(o)
    PROVE  PublishInv' /\ Falls(outbox, outbox')
<1>1. phase[o] = "new" /\ o \in Converted /\ pass = NoPass
  BY Zenon DEF ConvertAdds, Idle
<1>2. OutboxMoves({}, {}) /\ Passed({}, {})
  BY QuietEffect, Zenon DEF PublishInv, ConvertAdds, OutboxMoves
<1>3. UNCHANGED <<watch, generation, task, coins, vol, mybook, pass, dropped, raced>> /\ UNCHANGED peerVars
  BY Zenon DEF ConvertAdds
<1>4. WatchTypeOK' /\ store' = store \union {o}
  BY Zenon, <1>3 DEF PublishInv, ConvertAdds, AddOrder, WatchTypeOK, coins
<1>5. MakerTypes' /\ phase'[o] = "added" /\ \A x \in Orders \ {o} : phase'[x] = phase[x]
  BY Zenon, <1>1 DEF PublishInv, ConvertAdds, MakerTypes
<1>6. \A x \in Orders \ {o} : Same(x)
  BY Zenon, <1>3, <1>4, <1>5 DEF Same
<1>7. At(o)'
  BY <1>1, <1>2, <1>3, <1>4, <1>5, Zenon DEF PublishInv, At, PhaseAt, ConvertAt, PassAt, OwnAt, CancelAt,
     HeardAt, Outside, CancelSent, Entering, Passed, peerVars
<1>8. WatchInv'
  <2>1. Onward
    BY Zenon, <1>1, <1>5 DEF Onward, Outside
  <2>2. \A x \in store' : phase'[x] # "added" => x \in store /\ phase[x] # "added"
    BY <1>4, <1>5, Zenon DEF PublishInv, WatchTypeOK
  <2>3. store' # {}
    BY <1>4
  <2> QED
    BY <1>3, <1>4, <1>5, <2>1, <2>2, <2>3, WatchKeeps, Zenon DEF TasksGoOn
<1> QED
  BY <1>2, <1>3, <1>4, <1>5, <1>6, <1>7, <1>8, OneOrder

\* start_maker_balance_watch: a watch that starts has a task of its own, and
\* there are no more of them than orders that entered.
LEMMA WatchStartsStep ==
    ASSUME PublishInv, NEW o \in Orders, WatchStarts(o)
    PROVE  PublishInv' /\ Falls(outbox, outbox')
<1>1. phase[o] = "added" /\ StartWatch(seed[o]) /\ seed[o] \in Volumes \union {None}
  BY Zenon DEF PublishInv, WatchStarts, MakerTypes
<1>2. OutboxMoves({}, {}) /\ Passed({}, {})
  BY QuietEffect, Zenon DEF PublishInv, WatchStarts, OutboxMoves
<1>3. UNCHANGED <<store, coins, vol, mybook, pass, dropped, raced>> /\ UNCHANGED peerVars
  BY Zenon DEF WatchStarts
<1>4. /\ MakerTypes' /\ phase'[o] = IF o \in Converted THEN "saving" ELSE "done"
      /\ \A x \in Orders \ {o} : phase'[x] = phase[x]
  BY Zenon, <1>3 DEF PublishInv, WatchStarts, MakerTypes
<1>5. \A x \in Orders \ {o} : Same(x)
  BY <1>3, <1>4, ZenonT(40) DEF Same
<1>6. At(o)'
  BY <1>1, <1>2, <1>3, <1>4, Zenon DEF PublishInv, At, PhaseAt, ConvertAt, PassAt, OwnAt, CancelAt,
     HeardAt, Outside, CancelSent, Entering, Passed, peerVars
<1>7. /\ Cardinality(Past') = Cardinality(Past) + 1 /\ Cardinality(Past') <= Cardinality(Orders)
      /\ Cardinality(Past) \in Nat /\ Cardinality(Orders) \in Nat
  <2>1. Past' = Past \union {o} /\ o \notin Past /\ Past' \subseteq Orders /\ Past \subseteq Orders
    BY Zenon, <1>1, <1>4 DEF Past
  <2>2. IsFiniteSet(Orders) /\ IsFiniteSet(Past)
    BY <2>1, FS_Subset, PublishAssumption, Zenon
  <2>3. /\ Cardinality(Past') <= Cardinality(Orders)
        /\ Cardinality(Past) \in Nat /\ Cardinality(Orders) \in Nat
    BY <2>1, <2>2, FS_Subset, FS_CardinalityType, Zenon
  <2> QED
    BY <2>1, <2>2, <2>3, FS_AddElement, ZenonT(40)
<1>8. /\ generation \in Nat /\ generation >= 1 /\ watch.gen \in Nat
      /\ generation <= Cardinality(Past) + 1
  BY <1>7 DEF PublishInv, WatchTypeOK, WatchInv
<1>9. \A g \in Generations : \A x \in task[g].todo : ~Outside(x)'
  <2>1. \A g \in Generations : task[g].todo \subseteq Orders
    BY Zenon DEF PublishInv, WatchTypeOK
  <2>2. \A x \in Orders : ~Outside(x) => ~Outside(x)'
    BY Zenon, <1>4 DEF Outside
  <2> QED
    BY <2>1, <2>2, Zenon DEF PublishInv, WatchInv
<1>10. CASE store # {} /\ watch.gen = 0
  <2>1. /\ watch' = Registered(generation, seed[o]) /\ generation' = generation + 1
        /\ task' = [task EXCEPT ![generation] = Asleep]
    BY <1>1, <1>10, Zenon DEF StartWatch
  <2>2. generation \in Generations /\ generation \in 0..Cardinality(Orders)
        /\ generation + 1 \in 1..Cardinality(Orders) + 1
    BY <1>7, <1>8 DEF Generations
  <2>3. Asleep \in [at : {"none", "asleep", "read", "changed", "handle", "ended"},
                    value : Volumes, todo : SUBSET Orders] /\ Asleep.at = "asleep"
    BY Zenon, OutboxAssumption DEF Asleep, NoTask
  <2>4. watch' \in [gen : 0..Cardinality(Orders), seen : Volumes \union {None}] /\ watch'.gen = generation
    BY Zenon, <1>1, <2>1, <2>2 DEF Registered
  <2>5. /\ task' \in [Generations -> [at : {"none", "asleep", "read", "changed", "handle", "ended"},
                                      value : Volumes, todo : SUBSET Orders]]
        /\ task'[generation] = Asleep
    BY Zenon, <2>1, <2>2, <2>3 DEF PublishInv, WatchTypeOK
  <2>6. WatchTypeOK'
    BY <1>3, <2>1, <2>2, <2>4, <2>5, Zenon DEF PublishInv, WatchTypeOK, coins
  <2>7. \A g \in Generations : \A x \in task'[g].todo : ~Outside(x)'
    <3>1. Asleep.todo = {}
      BY Zenon DEF Asleep, NoTask
    <3>2. \A g \in Generations : task'[g] = Asleep \/ task'[g] = task[g]
      BY <2>1, <2>2, Zenon DEF PublishInv, WatchTypeOK
    <3> QED
      BY <1>9, <3>1, <3>2, Zenon
  <2>8. WatchInv'
    BY <1>3, <1>7, <1>8, <1>10, <2>1, <2>3, <2>4, <2>5, <2>7 DEF WatchInv
  <2> QED
    BY <1>2, <1>3, <1>4, <1>5, <1>6, <2>6, <2>8, OneOrder, ZenonT(40)
<1>11. CASE ~(store # {} /\ watch.gen = 0)
  <2>1. UNCHANGED <<watch, task, generation>>
    BY <1>1, <1>11, Zenon DEF StartWatch
  <2>2. WatchTypeOK'
    BY <1>3, <2>1, Zenon DEF PublishInv, WatchTypeOK, coins
  <2>3. generation' <= Cardinality(Past') + 1
    BY <1>7, <1>8, <2>1
  <2>4. WatchInv'
    BY <1>3, <1>11, <1>9, <2>1, <2>3, Zenon DEF PublishInv, WatchInv
  <2> QED
    BY <1>2, <1>3, <1>4, <1>5, <1>6, <2>2, <2>4, OneOrder, ZenonT(40)
<1> QED
  BY Zenon, <1>10, <1>11

\* The end of the conversion: if nothing came in between, the announcement is of
\* the order as it is.
LEMMA ConvertAnnouncesStep ==
    ASSUME PublishInv, NEW o \in Orders, ConvertAnnounces(o)
    PROVE  PublishInv' /\ Falls(outbox, outbox')
<1>1. phase[o] = "saving" /\ FullVolume \in Volumes
  BY FullVolumeType, Zenon DEF ConvertAnnounces
<1>2. UNCHANGED watchVars /\ UNCHANGED peerVars /\ UNCHANGED <<vol, pass, dropped, raced>> /\ WatchTypeOK'
  BY Zenon DEF ConvertAnnounces, PublishInv, WatchTypeOK, watchVars, coins
<1>3. PICK made \in SUBSET {o} : OutboxMoves(made, {}) /\ Passed(made, {})
  BY <1>1, Notified, QuietEffect, Zenon DEF ConvertAnnounces, OutboxMoves, PublishInv
<1>4. mybook' = mybook \/ mybook' = [mybook EXCEPT ![o] = FullVolume]
  BY Zenon DEF ConvertAnnounces, NotifyCreated
<1>5. /\ MakerTypes' /\ phase'[o] = "done" /\ mybook'[o] \in {mybook[o], FullVolume}
      /\ \A x \in Orders \ {o} : phase'[x] = phase[x] /\ mybook'[x] = mybook[x]
  BY <1>1, <1>4 DEF PublishInv, ConvertAnnounces, MakerTypes
<1>6. \A x \in Orders \ {o} : Same(x)
  BY <1>2, <1>5, ZenonT(40) DEF Same, watchVars
<1>7. At(o)'
  <2>1. /\ o \in Converted /\ pass = NoPass
        /\ o \notin raced => o \in store /\ vol[o] = FullVolume /\ ~CancelSent(o)
    BY Zenon, <1>1 DEF PublishInv, At, PhaseAt, ConvertAt, CancelAt, Entering
  <2>2. pass.todo = {} /\ pass.cancel = {}
    BY Zenon, <2>1 DEF NoPass
  <2> QED
    BY <1>1, <1>2, <1>3, <1>5, <2>1, <2>2, ZenonT(40) DEF PublishInv, At, PhaseAt, ConvertAt, PassAt, OwnAt, CancelAt,
       HeardAt, Outside, CancelSent, Entering, Passed, peerVars, watchVars
<1>8. WatchInv'
  <2>1. Onward
    BY Zenon, <1>1, <1>5 DEF Onward, Outside
  <2>2. \A x \in store' : phase'[x] # "added" => x \in store /\ phase[x] # "added"
    BY Zenon, <1>1, <1>2, <1>5 DEF PublishInv, WatchTypeOK, watchVars
  <2> QED
    BY <1>2, <1>5, <2>1, <2>2, WatchKeeps, Zenon DEF watchVars, TasksGoOn, Onward, Outside
<1> QED
  BY <1>2, <1>3, <1>5, <1>6, <1>7, <1>8, OneOrder

\* The watch when an order leaves the store and nothing else moves.
LEMMA RemovalKeepsWatch ==
    ASSUME PublishInv, NEW o \in store, RemoveOrder(o), WatchTypeOK', MakerTypes',
           UNCHANGED <<generation, phase>>,
           TasksGoOn
    PROVE  WatchInv'
<1>1. \/ watch' = watch /\ (store' = {} => store = {})
      \/ watch' = NoWatch /\ store' = {}
  BY Zenon DEF RemoveOrder
<1>2. \A x \in store' : phase'[x] # "added" => x \in store /\ phase[x] # "added"
  BY Zenon DEF RemoveOrder
<1>3. Onward
  BY ZenonT(40) DEF Onward, Outside
<1> QED
  BY <1>1, <1>2, <1>3, WatchKeeps, Zenon DEF TasksGoOn

\* cancel_order.
LEMMA CancelOrderStep ==
    ASSUME PublishInv, NEW o \in Orders, CancelOrder(o)
    PROVE  PublishInv' /\ Falls(outbox, outbox')
<1>1. o \in store /\ RemoveOrder(o) /\ UNCHANGED <<generation, task, coins, phase, seed, vol, pass, dropped>> /\ UNCHANGED peerVars
  BY Zenon DEF CancelOrder
<1>2. OutboxMoves({}, {o}) /\ Passed({}, {o})
  BY Notified, OutboxAssumption, ZenonT(40) DEF CancelOrder, OutboxMoves
<1>3. WatchTypeOK' /\ store' = store \ {o}
  BY <1>1, OutboxAssumption, FS_CardinalityType, PublishAssumption
     DEF PublishInv, RemoveOrder, WatchTypeOK, coins, NoWatch
<1>4. /\ MakerTypes' /\ mybook'[o] = 0 /\ raced \subseteq raced' /\ raced' \subseteq raced \union {o}
      /\ o \in Converted /\ Entering(o) => o \in raced'
      /\ \A x \in Orders \ {o} : mybook'[x] = mybook[x]
  BY Zenon, <1>1, OutboxAssumption DEF PublishInv, CancelOrder, NotifyCancelled, Race, MakerTypes
<1>5. \A x \in Orders \ {o} : Same(x)
  BY Zenon, <1>1, <1>3, <1>4 DEF Same
<1>6. At(o)'
  BY <1>1, <1>2, <1>3, <1>4, Zenon DEF PublishInv, At, PhaseAt, ConvertAt, PassAt, OwnAt, CancelAt,
     HeardAt, Outside, CancelSent, Entering, Passed, peerVars
<1>7. WatchInv'
  BY <1>1, <1>3, <1>4, RemovalKeepsWatch, Zenon DEF TasksGoOn
<1> QED
  BY <1>1, <1>2, <1>3, <1>4, <1>5, <1>6, <1>7, OneOrder

\* cancel_expired_maker_orders: out of the store first, then out of the books.
LEMMA ExpireDropsStep ==
    ASSUME PublishInv, NEW o \in Orders, ExpireDrops(o)
    PROVE  PublishInv' /\ Falls(outbox, outbox')
<1>1. /\ o \in store /\ o \notin Converted /\ phase[o] = "done" /\ RemoveOrder(o) /\ dropped' = dropped \union {o}
      /\ UNCHANGED <<generation, task, coins, phase, seed, vol, mybook, pass, raced>> /\ UNCHANGED peerVars
  BY Zenon DEF ExpireDrops
<1>2. OutboxMoves({}, {}) /\ Passed({}, {})
  BY QuietEffect, ZenonT(40) DEF PublishInv, ExpireDrops, OutboxMoves
<1>3. WatchTypeOK' /\ store' = store \ {o}
  BY <1>1, OutboxAssumption, FS_CardinalityType, PublishAssumption
     DEF PublishInv, RemoveOrder, WatchTypeOK, coins, NoWatch
<1>4. MakerTypes'
  BY Zenon, <1>1 DEF PublishInv, MakerTypes
<1>5. \A x \in Orders \ {o} : Same(x)
  BY Zenon, <1>1, <1>3 DEF Same
<1>6. At(o)'
  BY <1>1, <1>2, <1>3, Zenon DEF PublishInv, At, PhaseAt, ConvertAt, PassAt, OwnAt, CancelAt,
     HeardAt, Outside, CancelSent, Entering, Passed, peerVars
<1>7. WatchInv'
  BY <1>1, <1>3, <1>4, RemovalKeepsWatch, ZenonT(40) DEF TasksGoOn
<1> QED
  BY <1>1, <1>2, <1>3, <1>4, <1>5, <1>6, <1>7, OneOrder

\* Then the own book drops the expired order and its cancellation goes out.
LEMMA ExpireNotifiesStep ==
    ASSUME PublishInv, NEW o \in Orders, ExpireNotifies(o)
    PROVE  PublishInv' /\ Falls(outbox, outbox')
<1>1. /\ o \in dropped /\ dropped' = dropped \ {o}
      /\ UNCHANGED watchVars /\ UNCHANGED <<phase, seed, vol, pass, raced>> /\ UNCHANGED peerVars
  BY Zenon DEF ExpireNotifies
<1>2. OutboxMoves({}, {o}) /\ Passed({}, {o})
  BY Notified, OutboxAssumption, Zenon DEF ExpireNotifies, OutboxMoves
<1>3. WatchTypeOK'
  BY <1>1, Zenon DEF PublishInv, WatchTypeOK, watchVars, coins
<1>4. MakerTypes' /\ mybook'[o] = 0 /\ \A x \in Orders \ {o} : mybook'[x] = mybook[x]
  BY Zenon, <1>1, OutboxAssumption DEF PublishInv, ExpireNotifies, NotifyCancelled, MakerTypes
<1>5. \A x \in Orders \ {o} : Same(x)
  BY Zenon, <1>1, <1>4 DEF Same, watchVars
<1>6. At(o)'
  BY <1>1, <1>2, <1>4, Zenon DEF PublishInv, At, PhaseAt, ConvertAt, PassAt, OwnAt, CancelAt,
     HeardAt, Outside, CancelSent, Entering, Passed, peerVars, watchVars
<1>7. WatchInv'
  BY <1>1, <1>3, <1>4, WatchKeeps, ZenonT(40) DEF watchVars, TasksGoOn, Onward, Outside
<1> QED
  BY <1>1, <1>2, <1>3, <1>4, <1>5, <1>6, <1>7, OneOrder

\* A task that has visited an order goes on with the rest, or to sleep.
LEMMA AfterVisitKeeps ==
    ASSUME PublishInv, NEW g \in Generations, NEW o, task[g].at = "handle", AfterVisit(g, o)
    PROVE  /\ TasksGoOn
           /\ task' \in [Generations -> [at : {"none", "asleep", "read", "changed", "handle", "ended"},
                                         value : Volumes, todo : SUBSET Orders]]
<1> DEFINE Tasks == [at : {"none", "asleep", "read", "changed", "handle", "ended"},
                     value : Volumes, todo : SUBSET Orders]
           n == IF task[g].todo = {o} THEN Asleep ELSE [task[g] EXCEPT !.todo = @ \ {o}]
<1>1. task \in [Generations -> Tasks]
  BY Zenon DEF PublishInv, WatchTypeOK
<1>2. task' = [task EXCEPT ![g] = n]
  BY Zenon DEF AfterVisit
<1>3. n \in Tasks /\ n.at \in {"asleep", "handle"} /\ n.todo \subseteq task[g].todo
  <2>1. task[g] \in Tasks
    BY <1>1, Zenon
  <2> QED
    BY Zenon, <2>1, OutboxAssumption DEF Asleep, NoTask
<1> HIDE DEF n, Tasks
<1>4. task' \in [Generations -> Tasks] /\ \A h \in Generations : task'[h] = IF h = g THEN n ELSE task[h]
  BY <1>1, <1>2, <1>3, Zenon
<1> QED
  BY <1>3, <1>4, Zenon DEF TasksGoOn, Tasks

\* balance_updated for one order: it is cancelled, cut or left alone.
LEMMA BalanceUpdatedStep ==
    ASSUME PublishInv, NEW g \in Generations, NEW o \in Orders, BalanceUpdated(g, o)
    PROVE  PublishInv' /\ Falls(outbox, outbox')
<1> DEFINE v == task[g].value
<1>1. /\ task[g].at = "handle" /\ o \in task[g].todo /\ AfterVisit(g, o)
      /\ UNCHANGED <<generation, coins, phase, seed, pass, dropped>> /\ UNCHANGED peerVars
  BY Zenon DEF BalanceUpdated
<1>2. /\ TasksGoOn
      /\ task' \in [Generations -> [at : {"none", "asleep", "read", "changed", "handle", "ended"},
                                    value : Volumes, todo : SUBSET Orders]]
  BY <1>1, AfterVisitKeeps, Zenon
<1>3. v \in Volumes /\ ~Outside(o)
  <2>1. task[g].value \in Volumes
    BY Zenon DEF PublishInv, WatchTypeOK
  <2> QED
    BY <1>1, <2>1, Zenon DEF PublishInv, WatchInv
<1> HIDE DEF v
<1>4. CASE o \in store /\ RemoveOrder(o) /\ NotifyCancelled(o) /\ Race(o) /\ UNCHANGED vol
  <2>1. OutboxMoves({}, {o}) /\ Passed({}, {o})
    BY <1>3, <1>4, Notified, ZenonT(40) DEF OutboxMoves
  <2>2. WatchTypeOK' /\ store' = store \ {o}
    <3> DEFINE W == [gen : 0..Cardinality(Orders), seen : Volumes \union {None}]
    <3>1. NoWatch \in W
      BY FS_CardinalityType, PublishAssumption DEF NoWatch
    <3> HIDE DEF W
    <3>2. store' = store \ {o} /\ watch' \in {watch, NoWatch}
      BY <1>4, Zenon DEF RemoveOrder
    <3>3. watch \in W
      BY Zenon DEF PublishInv, WatchTypeOK, W
    <3>4. watch' \in W /\ store' \subseteq Orders
      BY <3>1, <3>2, <3>3, Zenon DEF PublishInv, WatchTypeOK
    <3> QED
      BY <1>1, <1>2, <3>2, <3>4, ZenonT(40) DEF PublishInv, WatchTypeOK, coins, W
  <2>3. /\ MakerTypes' /\ mybook'[o] = 0 /\ raced \subseteq raced' /\ raced' \subseteq raced \union {o}
        /\ o \in Converted /\ Entering(o) => o \in raced'
        /\ \A x \in Orders \ {o} : mybook'[x] = mybook[x]
    BY <1>1, <1>4, OutboxAssumption, Zenon DEF PublishInv, NotifyCancelled, Race, MakerTypes
  <2>4. \A x \in Orders \ {o} : Same(x)
    BY Zenon, <1>1, <1>4, <2>2, <2>3 DEF Same
  <2>5. At(o)'
    BY <1>1, <1>3, <1>4, <2>1, <2>2, <2>3, ZenonT(40) DEF PublishInv, At, PhaseAt, ConvertAt, PassAt, OwnAt,
       CancelAt, HeardAt, Outside, CancelSent, Entering, Passed, peerVars
  <2>6. WatchInv'
    BY <1>1, <1>2, <1>4, <2>2, <2>3, RemovalKeepsWatch, ZenonT(40)
  <2> QED
    BY <1>1, <2>1, <2>2, <2>3, <2>4, <2>5, <2>6, OneOrder, ZenonT(40)
<1>5. ASSUME UNCHANGED <<store, watch>>
      PROVE  WatchTypeOK' /\ (MakerTypes' => WatchInv')
  <2>1. WatchTypeOK'
    BY <1>1, <1>2, <1>5, Zenon DEF PublishInv, WatchTypeOK, coins
  <2>2. Onward
    BY <1>1, ZenonT(40) DEF Onward, Outside
  <2> QED
    BY <1>1, <1>2, <1>5, <2>1, <2>2, WatchKeeps, ZenonT(40)
<1>6. CASE /\ vol' = [vol EXCEPT ![o] = v] /\ NotifyUpdated(o, v) /\ Race(o)
           /\ UNCHANGED <<store, watch>>
  <2>1. OutboxMoves({}, {}) /\ Passed({}, {})
    BY <1>3, <1>6, Notified, ZenonT(40) DEF OutboxMoves
  <2>2. /\ MakerTypes' /\ vol'[o] = v /\ mybook'[o] = IF mybook[o] = 0 THEN 0 ELSE v
        /\ raced \subseteq raced' /\ raced' \subseteq raced \union {o}
        /\ o \in Converted /\ Entering(o) => o \in raced'
        /\ \A x \in Orders \ {o} : mybook'[x] = mybook[x] /\ vol'[x] = vol[x]
    BY <1>1, <1>3, <1>6, OutboxAssumption, ZenonT(40) DEF PublishInv, NotifyUpdated, Race, MakerTypes
  <2>3. \A x \in Orders \ {o} : Same(x)
    BY <1>1, <1>6, <2>2, ZenonT(40) DEF Same
  <2>4. At(o)'
    BY <1>1, <1>3, <1>6, <2>1, <2>2, ZenonT(40) DEF PublishInv, At, PhaseAt, ConvertAt, PassAt, OwnAt,
       CancelAt, HeardAt, Outside, CancelSent, Entering, Passed, peerVars
  <2> QED
    BY <1>1, <1>5, <1>6, <2>1, <2>2, <2>3, <2>4, OneOrder, ZenonT(40)
<1>7. CASE UNCHANGED <<outboxVars, store, watch, vol, mybook, raced>>
  <2>1. OutboxMoves({}, {}) /\ Passed({}, {})
    BY <1>7, QuietEffect, Zenon DEF PublishInv, OutboxMoves
  <2>2. MakerTypes'
    BY <1>1, <1>7, Zenon DEF PublishInv, MakerTypes
  <2>3. \A x \in Orders : Same(x)
    BY <1>1, <1>7, Zenon DEF Same
  <2>4. At(o)'
    BY <1>1, <2>1, <2>3, OrderKept, Zenon DEF PublishInv
  <2> QED
    BY <1>1, <1>5, <1>7, <2>1, <2>2, <2>3, <2>4, OneOrder, ZenonT(40)
<1> QED
  BY <1>4, <1>6, <1>7, Zenon DEF BalanceUpdated, v

\* The pass over the missing orders begins when no conversion is under way.
LEMMA ReconcileReadsStep ==
    ASSUME PublishInv, ReconcileReads
    PROVE  PublishInv' /\ Falls(outbox, outbox')
<1>1. UNCHANGED watchVars /\ UNCHANGED <<phase, seed, vol, mybook, dropped, raced>> /\ UNCHANGED peerVars
  BY Zenon DEF ReconcileReads
<1>2. OutboxInv' /\ Falls(outbox, outbox') /\ Passed({}, {})
  BY QuietEffect, Zenon DEF PublishInv, ReconcileReads, OutboxMoves
<1>3. PICK v \in {balance, None} : pass' = [todo |-> Missing, vol |-> v, cancel |-> {}]
  BY Zenon DEF ReconcileReads
<1>4. pass'.todo = Missing /\ pass'.cancel = {} /\ Missing \subseteq store
  BY Zenon, <1>3 DEF Missing
<1>5. WatchTypeOK' /\ PeerTypes'
  BY <1>1, ZenonT(40) DEF PublishInv, WatchTypeOK, PeerTypes, watchVars, peerVars, coins
<1>6. MakerTypes'
  BY Zenon, <1>1, <1>3, <1>4 DEF PublishInv, MakerTypes, WatchTypeOK
<1>7. WatchInv'
  BY <1>1, <1>5, <1>6, WatchKeeps, ZenonT(40) DEF watchVars, TasksGoOn, Onward, Outside
<1>8. ASSUME NEW x \in Orders
      PROVE  At(x)'
  <2>1. At(x) /\ (x \in Converted => ~Entering(x))
    BY Zenon DEF PublishInv, ReconcileReads, Idle
  <2>2. x \in Missing => x \in store /\ mybook[x] = 0
    BY ZenonT(40) DEF Missing
  <2> QED
    BY <1>1, <1>2, <1>4, <2>1, <2>2, Zenon DEF At, PhaseAt, ConvertAt, PassAt, OwnAt,
       CancelAt, HeardAt, Outside, CancelSent, Entering, Passed, peerVars, watchVars
<1> QED
  BY <1>2, <1>5, <1>6, <1>7, <1>8, Zenon DEF PublishInv

\* The pass ends when there is nothing left in it.
LEMMA RestKeeps ==
    ASSUME NEW p \in [todo : SUBSET Orders, vol : Volumes \union {None}, cancel : SUBSET Orders]
    PROVE  /\ Rest(p) \in [todo : SUBSET Orders, vol : Volumes \union {None}, cancel : SUBSET Orders]
           /\ Rest(p).todo = p.todo /\ Rest(p).cancel = p.cancel
  BY Zenon DEF Rest, NoPass

\* The pass lists an order as it is, or marks it for its end.
LEMMA ReconcileAppliesStep ==
    ASSUME PublishInv, NEW o \in Orders, ReconcileApplies(o)
    PROVE  PublishInv' /\ Falls(outbox, outbox')
<1>1. o \in pass.todo /\ UNCHANGED watchVars /\ UNCHANGED <<phase, seed, dropped, raced>> /\ UNCHANGED peerVars
  BY Zenon DEF ReconcileApplies
<1>2. /\ pass \in [todo : SUBSET Orders, vol : Volumes \union {None}, cancel : SUBSET Orders]
      /\ vol \in [Orders -> Volumes] /\ mybook \in [Orders -> Volumes]
  BY Zenon DEF PublishInv, MakerTypes
<1>3. \A x \in Converted : ~Entering(x)
  <2>1. pass # NoPass
    BY <1>1 DEF NoPass
  <2> QED
    BY Zenon, <2>1, PublishAssumption DEF PublishInv, At, ConvertAt
<1>4. At(o) /\ o \notin pass.cancel /\ mybook[o] = 0 /\ ~Outside(o) /\ (o \notin raced /\ o \in store => ~CancelSent(o))
  BY Zenon, <1>1 DEF PublishInv, At, PassAt, CancelAt
<1>5. PICK keep \in BOOLEAN :
        pass' = Rest([pass EXCEPT !.todo = @ \ {o}, !.cancel = IF keep THEN @ ELSE @ \union {o}])
  <2>1. \/ pass' = Rest([pass EXCEPT !.todo = @ \ {o}])
        \/ pass' = Rest([pass EXCEPT !.todo = @ \ {o}, !.cancel = @ \union {o}])
    BY Zenon DEF ReconcileApplies
  <2>2. [pass EXCEPT !.todo = @ \ {o}] = [pass EXCEPT !.todo = @ \ {o}, !.cancel = @]
    BY <1>2, Zenon
  <2> QED
    BY <2>1, <2>2, Zenon
<1>6. /\ pass' \in [todo : SUBSET Orders, vol : Volumes \union {None}, cancel : SUBSET Orders]
      /\ pass'.todo = pass.todo \ {o} /\ pass'.cancel \subseteq pass.cancel \union {o}
      /\ pass.cancel \subseteq pass'.cancel
  <2> DEFINE p == [pass EXCEPT !.todo = @ \ {o}, !.cancel = IF keep THEN @ ELSE @ \union {o}]
  <2>1. /\ p \in [todo : SUBSET Orders, vol : Volumes \union {None}, cancel : SUBSET Orders]
        /\ p.todo = pass.todo \ {o} /\ p.cancel \subseteq pass.cancel \union {o}
        /\ pass.cancel \subseteq p.cancel
    BY <1>2, Zenon
  <2> HIDE DEF p
  <2> QED
    BY <1>5, <2>1, RestKeeps, Zenon DEF p
<1>7. WatchTypeOK'
  BY <1>1, Zenon DEF PublishInv, WatchTypeOK, watchVars, coins
<1>8. CASE UNCHANGED <<outboxVars, mybook>> /\ (vol' = vol \/ (Reconciled(o) \in Volumes /\ vol' = [vol EXCEPT ![o] = Reconciled(o)]))
  <2>1. OutboxMoves({}, {}) /\ Passed({}, {})
    BY <1>8, QuietEffect, Zenon DEF PublishInv, OutboxMoves
  <2>2. MakerTypes' /\ \A x \in Orders \ {o} : vol'[x] = vol[x]
    BY <1>1, <1>6, <1>8 DEF PublishInv, MakerTypes
  <2>3. \A x \in Orders \ {o} : Same(x)
    BY <1>1, <1>3, <1>6, <1>8, <2>2 DEF Same, watchVars
  <2>4. At(o)'
    BY <1>1, <1>3, <1>4, <1>6, <1>8, <2>1, ZenonT(40) DEF PublishInv, At, PhaseAt, ConvertAt, PassAt, OwnAt,
       CancelAt, HeardAt, Outside, CancelSent, Entering, Passed, peerVars, watchVars
  <2>5. WatchInv'
    BY <1>1, <1>7, <2>2, WatchKeeps, ZenonT(40) DEF watchVars, TasksGoOn, Onward, Outside
  <2> QED
    BY <1>1, <1>7, <2>1, <2>2, <2>3, <2>4, <2>5, OneOrder
<1>9. CASE /\ o \in store /\ Reconciled(o) \in Volumes /\ vol' = [vol EXCEPT ![o] = Reconciled(o)]
           /\ NotifyCreated(o, Reconciled(o)) /\ pass' = Rest([pass EXCEPT !.todo = @ \ {o}])
  <2>1. OutboxMoves({o}, {}) /\ Passed({o}, {})
    BY <1>9, Notified, Zenon DEF PublishInv, OutboxMoves
  <2>2. /\ MakerTypes' /\ mybook'[o] = vol'[o]
        /\ \A x \in Orders \ {o} : vol'[x] = vol[x] /\ mybook'[x] = mybook[x]
    BY <1>1, <1>6, <1>9, Zenon DEF PublishInv, MakerTypes, NotifyCreated
  <2>3. \A x \in Orders \ {o} : Same(x)
    BY Zenon, <1>1, <1>3, <1>6, <2>2 DEF Same, watchVars
  <2>4. pass'.cancel = pass.cancel
    <3>1. /\ [pass EXCEPT !.todo = @ \ {o}] \in [todo : SUBSET Orders, vol : Volumes \union {None}, cancel : SUBSET Orders]
          /\ [pass EXCEPT !.todo = @ \ {o}].cancel = pass.cancel
      BY Zenon, <1>2
    <3> QED
      BY <1>9, <3>1, RestKeeps, Zenon
  <2>5. At(o)'
    BY <1>1, <1>3, <1>4, <1>6, <1>9, <2>1, <2>2, <2>4, ZenonT(40) DEF PublishInv, At, PhaseAt, ConvertAt, PassAt, OwnAt,
       CancelAt, HeardAt, Outside, CancelSent, Entering, Passed, peerVars, watchVars
  <2>6. WatchInv'
    BY <1>1, <1>7, <2>2, WatchKeeps, Zenon DEF watchVars, TasksGoOn, Onward, Outside
  <2> QED
    BY <1>1, <1>7, <2>1, <2>2, <2>3, <2>5, <2>6, OneOrder, ZenonT(40)
<1>10. pass.vol # None => Reconciled(o) \in Volumes
  BY Zenon, <1>2 DEF Reconciled
<1> QED
  BY <1>8, <1>9, <1>10, ZenonT(40) DEF ReconcileApplies

\* An order that cannot be funded leaves the store, and no book lists it.
LEMMA ReconcileCancelsStep ==
    ASSUME PublishInv, NEW o \in Orders, ReconcileCancels(o)
    PROVE  PublishInv' /\ Falls(outbox, outbox')
<1>1. /\ o \in pass.cancel /\ pass' = Rest([pass EXCEPT !.cancel = @ \ {o}])
      /\ UNCHANGED <<generation, task, coins, phase, seed, vol, mybook, dropped, raced>> /\ UNCHANGED peerVars
  BY Zenon DEF ReconcileCancels
<1>2. OutboxMoves({}, {}) /\ Passed({}, {})
  BY QuietEffect, Zenon DEF PublishInv, ReconcileCancels, OutboxMoves
<1>3. /\ pass' \in [todo : SUBSET Orders, vol : Volumes \union {None}, cancel : SUBSET Orders]
      /\ pass'.todo = pass.todo /\ pass'.cancel = pass.cancel \ {o}
  <2> DEFINE p == [pass EXCEPT !.cancel = @ \ {o}]
  <2>1. /\ p \in [todo : SUBSET Orders, vol : Volumes \union {None}, cancel : SUBSET Orders]
        /\ p.todo = pass.todo /\ p.cancel = pass.cancel \ {o}
    BY Zenon DEF PublishInv, MakerTypes
  <2> HIDE DEF p
  <2> QED
    BY Zenon, <1>1, <2>1, RestKeeps DEF p
<1>4. MakerTypes'
  BY <1>1, <1>3, Zenon DEF PublishInv, MakerTypes
<1>5. \A x \in Converted : ~Entering(x)
  <2>1. pass # NoPass
    BY <1>1 DEF NoPass
  <2> QED
    BY <2>1, PublishAssumption DEF PublishInv, At, ConvertAt
<1>6. store' = store \ {o}
  BY Zenon DEF ReconcileCancels, RemoveOrder
<1>7. \A x \in Orders \ {o} : Same(x)
  BY Zenon, <1>1, <1>3, <1>5, <1>6 DEF Same
<1>8. At(o)'
  BY <1>1, <1>2, <1>3, <1>5, <1>6 DEF PublishInv, At, PhaseAt, ConvertAt, PassAt, OwnAt,
     CancelAt, HeardAt, Outside, CancelSent, Entering, Passed, peerVars
<1>9. CASE o \in store /\ RemoveOrder(o)
  <2>1. WatchTypeOK'
    BY <1>1, <1>9, OutboxAssumption, FS_CardinalityType, PublishAssumption
       DEF PublishInv, RemoveOrder, WatchTypeOK, coins, NoWatch
  <2>2. WatchInv'
    BY <1>1, <1>4, <1>9, <2>1, RemovalKeepsWatch, Zenon DEF TasksGoOn
  <2> QED
    BY <1>1, <1>2, <1>4, <1>7, <1>8, <2>1, <2>2, OneOrder
<1>10. CASE UNCHANGED <<store, watch>>
  <2>1. WatchTypeOK'
    BY <1>1, <1>10, Zenon DEF PublishInv, WatchTypeOK, coins
  <2>2. WatchInv'
    BY <1>1, <1>4, <1>10, <2>1, WatchKeeps, Zenon DEF TasksGoOn, Onward, Outside
  <2> QED
    BY <1>1, <1>2, <1>4, <1>7, <1>8, <2>1, <2>2, OneOrder
<1> QED
  BY <1>9, <1>10, Zenon DEF ReconcileCancels

-----------------------------------------------------------------------------
(* The steps of the watch, the coins and the outbox.                        *)

\* A step that touches no order.
LEMMA NoOrder ==
    ASSUME PublishInv, UNCHANGED store, UNCHANGED makerVars, UNCHANGED peerVars,
           OutboxMoves({}, {}), WatchTypeOK', WatchInv'
    PROVE  PublishInv' /\ Falls(outbox, outbox')
<1>1. OutboxInv' /\ Falls(outbox, outbox') /\ Passed({}, {})
  BY Zenon DEF OutboxMoves
<1>2. MakerTypes' /\ PeerTypes'
  BY Zenon DEF PublishInv, MakerTypes, PeerTypes, makerVars, peerVars
<1>3. ASSUME NEW x \in Orders
      PROVE  At(x)'
  <2>1. At(x) /\ Same(x)
    BY Zenon DEF PublishInv, Same, makerVars
  <2> QED
    BY Zenon, <1>1, <2>1, OrderKept
<1> QED
  BY <1>1, <1>2, <1>3, Zenon DEF PublishInv

\* The outbox works and the coins move beside the watch.
LEMMA OutboxStepKeeps ==
    ASSUME PublishInv, NEW later \in BOOLEAN,
           \/ OutboxStep(Pump(later)) \/ OutboxStep(PressureRises)
           \/ OutboxStep(PressureFalls) \/ OutboxStep(RelayCloses)
    PROVE  PublishInv' /\ Falls(outbox, outbox')
<1>1. UNCHANGED watchVars /\ UNCHANGED makerVars /\ UNCHANGED peerVars
  BY Zenon DEF OutboxStep
<1>2. OutboxMoves({}, {})
  BY PumpEffect, RelayEffect, Zenon DEF PublishInv, OutboxStep
<1>3. WatchTypeOK' /\ MakerTypes'
  BY <1>1, Zenon DEF PublishInv, WatchTypeOK, MakerTypes, watchVars, makerVars, coins
<1>4. WatchInv'
  BY <1>1, <1>3, WatchKeeps, Zenon DEF watchVars, makerVars, TasksGoOn, Onward, Outside
<1> QED
  BY <1>1, <1>2, <1>3, <1>4, NoOrder, Zenon DEF watchVars

\* The coins are activated, or the balance moves, before the watch sees it.
LEMMA CoinStepKeeps ==
    ASSUME PublishInv, NEW v \in Volumes, CoinStep(CoinsActivate) \/ CoinStep(BalanceChanges(v))
    PROVE  PublishInv' /\ Falls(outbox, outbox')
<1>1. /\ UNCHANGED <<store, watch, generation, task>>
      /\ UNCHANGED outboxVars /\ UNCHANGED makerVars /\ UNCHANGED peerVars
  BY Zenon DEF CoinStep, CoinsActivate, BalanceChanges
<1>2. OutboxMoves({}, {})
  BY <1>1, QuietEffect, Zenon DEF PublishInv
<1>3. active' \in BOOLEAN /\ balance' \in Volumes /\ changes' \in Nat
  <2>1. CASE CoinsActivate
    BY <2>1, Zenon DEF CoinsActivate, PublishInv, WatchTypeOK
  <2>2. CASE BalanceChanges(v)
    <3>1. /\ changes > 0 /\ changes' = changes - 1 /\ changes \in Nat
          /\ active' = active /\ active \in BOOLEAN /\ balance' = v
      BY <2>2, Zenon DEF BalanceChanges, PublishInv, WatchTypeOK
    <3>2. changes' \in Nat
      BY <3>1
    <3> QED
      BY <3>1, <3>2, Zenon
  <2> QED
    BY <2>1, <2>2, Zenon DEF CoinStep
<1>4. WatchTypeOK' /\ MakerTypes'
  BY <1>1, <1>3, Zenon DEF PublishInv, WatchTypeOK, MakerTypes, makerVars
<1>5. WatchInv'
  BY <1>1, <1>4, WatchKeeps, Zenon DEF makerVars, TasksGoOn, Onward, Outside
<1> QED
  BY <1>1, <1>2, <1>4, <1>5, NoOrder, Zenon

\* The task of a watch that was replaced ends without touching the new one, and
\* the task of the registered watch ends only with the store empty.
LEMMA WatchStepKeeps ==
    ASSUME PublishInv, NEW g \in Generations, WatchStep(g)
    PROVE  PublishInv' /\ Falls(outbox, outbox')
<1> DEFINE Tasks == [at : {"none", "asleep", "read", "changed", "handle", "ended"},
                     value : Volumes, todo : SUBSET Orders]
<1>1. /\ UNCHANGED <<store, generation, coins>>
      /\ UNCHANGED outboxVars /\ UNCHANGED makerVars /\ UNCHANGED peerVars
  BY Zenon DEF WatchStep, PollWakes, ObserveBalance, HandlerSnapshots
<1>2. OutboxMoves({}, {})
  BY <1>1, QuietEffect, Zenon DEF PublishInv
<1>3. /\ task \in [Generations -> Tasks] /\ watch \in [gen : 0..Cardinality(Orders), seen : Volumes \union {None}]
      /\ store \subseteq Orders /\ balance \in Volumes /\ WatchInv
  BY Zenon DEF PublishInv, WatchTypeOK
<1>4. task[g] \in Tasks /\ g # 0 /\ watch.gen \in Int /\ Cardinality(Orders) \in Nat
  <2>1. Cardinality(Orders) \in Nat
    BY FS_CardinalityType, PublishAssumption, Zenon
  <2>2. task[g] \in Tasks
    BY <1>3, Zenon
  <2> HIDE DEF Tasks
  <2> QED
    BY <1>3, <2>1, <2>2 DEF Generations
<1>5. store = {} => watch.gen # g
  BY <1>3, <1>4 DEF WatchInv, NoWatch
<1>6. \A x \in store : ~Outside(x)
  BY <1>3, Zenon DEF PublishInv, At, PhaseAt
<1>7. PICK n \in Tasks :
        /\ task' = [task EXCEPT ![g] = n]
        /\ n.at \in {"none", "ended"} => watch.gen # g
        /\ n.todo \subseteq task[g].todo \union store
        /\ watch' = watch \/ (store # {} /\ watch.gen = g /\ watch' = [watch EXCEPT !.seen = task[g].value])
  <2>1. CASE PollWakes(g)
    <3> DEFINE r == [NoTask EXCEPT !.at = "read", !.value = balance]
    <3>1. /\ r \in Tasks /\ r.at = "read" /\ r.todo = {}
          /\ Ended \in Tasks /\ Ended.at = "ended" /\ Ended.todo = {}
      BY <1>3, OutboxAssumption, Zenon DEF NoTask, Ended
    <3> HIDE DEF r, Tasks
    <3>2. CASE balance_watch_is_live(g)
      <4>1. task' = [task EXCEPT ![g] = r] /\ watch' = watch
        BY <2>1, <3>2, Zenon DEF PollWakes, r
      <4> QED
        BY <3>1, <4>1, Zenon
    <3>3. CASE ~balance_watch_is_live(g)
      <4>1. task' = [task EXCEPT ![g] = Ended] /\ StopGeneration(g) /\ watch.gen # g
        BY <1>5, <2>1, <3>3, Zenon DEF PollWakes, balance_watch_is_live
      <4> QED
        BY <3>1, <4>1, Zenon DEF StopGeneration
    <3> QED
      BY Zenon, <3>2, <3>3
  <2>2. CASE ObserveBalance(g)
    <3> DEFINE c == [task[g] EXCEPT !.at = "changed"]
    <3>1. /\ c \in Tasks /\ c.at = "changed" /\ c.todo = task[g].todo
          /\ Ended \in Tasks /\ Ended.at = "ended" /\ Ended.todo = {}
          /\ Asleep \in Tasks /\ Asleep.at = "asleep" /\ Asleep.todo = {}
      BY Zenon, <1>4, OutboxAssumption DEF NoTask, Ended, Asleep
    <3> HIDE DEF Tasks
    <3>2. \/ /\ task' = [task EXCEPT ![g] = Ended] /\ watch.gen # g /\ watch' = watch
          \/ /\ task' = [task EXCEPT ![g] = Asleep] /\ watch' = watch
          \/ /\ task' = [task EXCEPT ![g].at = "changed"] /\ store # {} /\ watch.gen = g
             /\ watch' = [watch EXCEPT !.seen = task[g].value]
      BY <1>5, <2>2, Zenon DEF ObserveBalance, StopGeneration, balance_watch_is_live
    <3>3. [task EXCEPT ![g].at = "changed"] = [task EXCEPT ![g] = c]
      BY Zenon, <1>3
    <3> HIDE DEF c
    <3> QED
      BY Zenon, <3>1, <3>2, <3>3
  <2>3. CASE HandlerSnapshots(g)
    <3> DEFINE c == [task[g] EXCEPT !.at = "handle", !.todo = store]
    <3>1. /\ c \in Tasks /\ c.at = "handle" /\ c.todo = store
          /\ Asleep \in Tasks /\ Asleep.at = "asleep" /\ Asleep.todo = {}
      BY <1>3, <1>4, OutboxAssumption, Zenon DEF NoTask, Asleep
    <3> HIDE DEF Tasks
    <3>2. \/ task' = [task EXCEPT ![g].at = "handle", ![g].todo = store] /\ watch' = watch
          \/ task' = [task EXCEPT ![g] = Asleep] /\ watch' = watch
      BY <2>3, Zenon DEF HandlerSnapshots
    <3>3. [task EXCEPT ![g].at = "handle", ![g].todo = store] = [task EXCEPT ![g] = c]
      BY <1>3, Zenon
    <3> HIDE DEF c
    <3> QED
      BY Zenon, <3>1, <3>2, <3>3
  <2> QED
    BY <2>1, <2>2, <2>3, Zenon DEF WatchStep
<1>8. watch' \in [gen : 0..Cardinality(Orders), seen : Volumes \union {None}] /\ watch'.gen = watch.gen
  BY Zenon, <1>3, <1>4, <1>7
<1> HIDE DEF Tasks
<1>9. task' \in [Generations -> Tasks] /\ \A h \in Generations : task'[h] = IF h = g THEN n ELSE task[h]
  BY <1>3, <1>7, Zenon
<1>10. WatchTypeOK'
  BY <1>1, <1>8, <1>9, Zenon DEF PublishInv, WatchTypeOK, coins, Tasks
<1>11. \A h \in Generations : \A x \in task'[h].todo : ~Outside(x)'
  <2>1. phase' = phase
    BY <1>1, Zenon DEF makerVars
  <2>2. \A h \in Generations : \A x \in task'[h].todo : ~Outside(x)
    BY <1>3, <1>6, <1>7, <1>9, Zenon DEF WatchInv
  <2> QED
    BY <2>1, <2>2, Zenon DEF Outside
<1>12. watch'.gen # 0 => task'[watch'.gen].at \notin {"none", "ended"}
  <2>1. watch.gen # 0 => watch.gen \in Generations
    BY <1>3, <1>4 DEF Generations
  <2> QED
    BY <1>3, <1>7, <1>8, <1>9, <2>1, ZenonT(40) DEF WatchInv
<1>13. /\ store' = {} => watch' = NoWatch
       /\ watch'.gen = 0 => watch' = NoWatch
  BY <1>1, <1>3, <1>4, <1>7, <1>8, ZenonT(40) DEF WatchInv
<1>14. phase' = phase /\ Past' = Past /\ generation' = generation
  BY <1>1, Zenon DEF makerVars, Past
<1>15. WatchInv'
  BY <1>1, <1>3, <1>8, <1>11, <1>12, <1>13, <1>14, ZenonT(40) DEF WatchInv
<1> QED
  BY <1>1, <1>2, <1>10, <1>15, NoOrder, Zenon

-----------------------------------------------------------------------------
(* The steps of a peer.                                                     *)

\* Messages leave the wire and the peer's copy changes; the maker does nothing.
LEMMA PeerStep ==
    ASSUME PublishInv, UNCHANGED <<options, outbox, quiet, recent, pressure, signals>>,
           UNCHANGED watchVars, UNCHANGED makerVars, wire' \subseteq wire, PeerTypes',
           \A x \in Orders : (CancelSent(x)' => CancelSent(x)) /\ HeardAt(x)'
    PROVE  PublishInv' /\ Falls(outbox, outbox')
<1>1. OutboxInv'
  BY Zenon DEF PublishInv, OutboxInv, GoodOutbox, Running, Outbox, Waits, OneSlot, Below, options, Floor,
         NoOutbox, NewOutbox, capacity
<1>2. Falls(outbox, outbox') /\ \A x : Held(x)' <=> Held(x)
  BY Zenon DEF Falls, Held
<1>3. WatchTypeOK' /\ MakerTypes'
  BY Zenon DEF PublishInv, WatchTypeOK, MakerTypes, watchVars, makerVars, coins
<1>4. WatchInv'
  BY <1>3, WatchKeeps, ZenonT(40) DEF watchVars, makerVars, TasksGoOn, Onward, Outside
<1>5. ASSUME NEW x \in Orders
      PROVE  At(x)'
  BY <1>2, Zenon DEF PublishInv, At, PhaseAt, ConvertAt, PassAt, OwnAt, CancelAt, Outside, Entering,
     makerVars, watchVars
<1> QED
  BY <1>1, <1>2, <1>3, <1>4, <1>5, Zenon DEF PublishInv

\* process_msg: what may list a cancelled order again finds it guarded.
LEMMA DeliverStep ==
    ASSUME PublishInv, NEW m \in wire, Deliver(m)
    PROVE  PublishInv' /\ Falls(outbox, outbox')
<1>1. /\ wire' = wire \ {m} /\ UNCHANGED <<options, outbox, quiet, recent, pressure, signals>>
      /\ UNCHANGED watchVars /\ UNCHANGED makerVars /\ UNCHANGED <<losses, answer>>
  BY Zenon DEF Deliver
<1>2. m \in Message /\ m.order \in Orders /\ m.vol \in Volumes
  BY Zenon DEF PublishInv, OutboxInv, Message
<1>3. \/ m.kind = "created" /\ Insert(m.order, m.vol) /\ UNCHANGED <<guard, heard>>
      \/ /\ m.kind = "updated" /\ UNCHANGED <<guard, heard>>
         /\ IF book[m.order] = 0 THEN UNCHANGED book ELSE Insert(m.order, m.vol)
      \/ m.kind = "cancelled" /\ DeleteOrder(m.order)
  BY Zenon DEF Deliver
<1>4. PeerTypes'
  BY <1>1, <1>2, <1>3, OutboxAssumption DEF PublishInv, PeerTypes, Insert, DeleteOrder
<1>5. ASSUME NEW x \in Orders
      PROVE  (CancelSent(x)' => CancelSent(x)) /\ HeardAt(x)'
  <2>1. HeardAt(x) /\ raced' = raced /\ answer' = answer /\ book \in [Orders -> Volumes]
    BY <1>1, Zenon DEF PublishInv, At, makerVars, PeerTypes
  <2>2. OnWire(x)' => OnWire(x)
    BY Zenon, <1>1 DEF OnWire
  <2>3. CancelOnWire(x)' => CancelOnWire(x)
    BY Zenon, <1>1 DEF CancelOnWire
  <2>4. CASE m.order = x /\ m.kind = "cancelled"
    <3>1. CancelSent(x)
      BY <2>4, Zenon DEF CancelSent, CancelOnWire
    <3>2. book'[x] = 0 /\ x \in guard'
      BY Zenon, <1>3, <2>1, <2>4 DEF DeleteOrder
    <3> QED
      BY <3>1, <3>2, Zenon DEF HeardAt
  <2>5. CASE ~(m.order = x /\ m.kind = "cancelled")
    <3>1. (x \in heard' => x \in heard) /\ (x \in guard => x \in guard')
      BY Zenon, <1>3, <2>5 DEF DeleteOrder
    <3>2. (CancelSent(x)' => CancelSent(x))
      BY <2>3, <3>1, Zenon DEF CancelSent
    <3>3. \/ book'[x] = book[x]
          \/ m.order = x /\ m.kind = "created" /\ x \notin guard
          \/ m.order = x /\ m.kind = "updated" /\ book[x] # 0
      BY Zenon, <1>2, <1>3, <2>1, <2>5 DEF DeleteOrder, Insert
    <3>4. m.order = x /\ m.kind = "created" => OnWire(x)
      BY Zenon DEF OnWire
    <3> QED
      BY <2>1, <2>2, <3>1, <3>2, <3>3, <3>4, ZenonT(40) DEF HeardAt
  <2> QED
    BY Zenon, <2>4, <2>5
<1>6. wire' \subseteq wire
  BY Zenon, <1>1
<1> QED
  BY <1>1, <1>4, <1>5, <1>6, PeerStep, Zenon

\* A lost message only leaves the wire.
LEMMA LoseStep ==
    ASSUME PublishInv, NEW m \in wire, Lose(m)
    PROVE  PublishInv' /\ Falls(outbox, outbox')
<1>1. /\ wire' \subseteq wire /\ UNCHANGED <<options, outbox, quiet, recent, pressure, signals>>
      /\ UNCHANGED watchVars /\ UNCHANGED makerVars /\ UNCHANGED <<book, guard, answer, heard>>
      /\ losses > 0 /\ losses' = losses - 1
  BY Zenon DEF Lose
<1>2. losses' \in Nat
  BY <1>1 DEF PublishInv, PeerTypes
<1>3. PeerTypes'
  BY <1>1, <1>2, Zenon DEF PublishInv, PeerTypes
<1>4. ASSUME NEW x \in Orders
      PROVE  (CancelSent(x)' => CancelSent(x)) /\ HeardAt(x)'
  <2>1. HeardAt(x)
    BY Zenon DEF PublishInv, At
  <2> QED
    BY <1>1, <2>1, Zenon DEF makerVars, CancelSent, CancelOnWire, OnWire, HeardAt
<1> QED
  BY <1>1, <1>3, <1>4, PeerStep, Zenon

\* The synchronisation: an answer given after the cancellation does not list the
\* order, and one given before it is applied while the order is guarded.
LEMMA SyncStep ==
    ASSUME PublishInv, Sync \/ \E o \in Orders : GuardExpires(o)
    PROVE  PublishInv' /\ Falls(outbox, outbox')
<1>1. UNCHANGED outboxVars /\ UNCHANGED watchVars /\ UNCHANGED makerVars /\ UNCHANGED <<losses, heard>>
  BY Zenon DEF Sync, SyncRequested, SyncAnswered, SyncApplied, Evict, GuardExpires
<1>2. /\ wire' = wire /\ mybook \in [Orders -> Volumes] /\ book \in [Orders -> Volumes]
      /\ Unlisted \in [Orders -> Volumes] /\ guard \subseteq Orders
  BY Zenon, <1>1, OutboxAssumption DEF outboxVars, PublishInv, MakerTypes, PeerTypes, Unlisted
<1>3. PeerTypes'
  <2>1. book' \in [Orders -> Volumes]
    <3>1. CASE SyncApplied
      <4>1. answer \in [Orders -> Volumes]
        BY <3>1, Zenon DEF SyncApplied, PublishInv, PeerTypes
      <4> QED
        BY Zenon, <3>1, <4>1, OutboxAssumption DEF SyncApplied
    <3>2. CASE ~SyncApplied
      BY <1>2, <3>2, Zenon DEF Sync, SyncRequested, SyncAnswered, Evict, GuardExpires
    <3> QED
      BY Zenon, <3>1, <3>2
  <2>2. answer' \in {NoAnswer, Requested} \union [Orders -> Volumes]
    BY <1>2, Zenon DEF Sync, SyncRequested, SyncAnswered, SyncApplied, Evict, GuardExpires, PublishInv, PeerTypes
  <2>3. guard' \subseteq Orders
    BY <1>2, Zenon DEF Sync, SyncRequested, SyncAnswered, SyncApplied, Evict, GuardExpires
  <2> QED
    BY <1>1, <2>1, <2>2, <2>3, Zenon DEF PublishInv, PeerTypes
<1>4. ASSUME NEW x \in Orders
      PROVE  (CancelSent(x)' => CancelSent(x)) /\ HeardAt(x)'
  <2>1. HeardAt(x) /\ CancelAt(x) /\ raced' = raced /\ heard' = heard /\ (OnWire(x)' <=> OnWire(x))
    BY <1>1, <1>2, Zenon DEF PublishInv, At, makerVars, OnWire
  <2>2. CancelSent(x)' => CancelSent(x)
    BY <1>1, <1>2, Zenon DEF CancelSent, CancelOnWire
  <2>3. NoAnswer[x] < 1 /\ Requested[x] < 1 /\ Unlisted[x] = 0
    BY DEF NoAnswer, Requested, Unlisted, None
  <2>4. HeardAt(x)'
    <3> SUFFICES ASSUME x \in heard, x \notin raced
                 PROVE  book'[x] = 0 /\ (x \in guard' \/ (answer'[x] < 1 /\ ~OnWire(x)))
      BY <2>1, Zenon DEF HeardAt
    <3>1. book[x] = 0 /\ mybook[x] = 0 /\ (x \in guard \/ (answer[x] < 1 /\ ~OnWire(x)))
      BY <2>1, Zenon DEF HeardAt, CancelAt, CancelSent
    <3>2. CASE SyncRequested
      BY <2>3, <3>1, <3>2, ZenonT(40) DEF SyncRequested
    <3>3. CASE SyncAnswered
      BY <3>1, <3>3 DEF SyncAnswered
    <3>4. CASE SyncApplied
      <4>1. answer \in [Orders -> Volumes]
        BY <3>4, Zenon DEF SyncApplied, PublishInv, PeerTypes
      <4>2. book'[x] = IF x \in guard THEN 0 ELSE answer[x]
        BY <3>4, Zenon DEF SyncApplied
      <4>3. answer[x] \in Nat
        BY <4>1, OutboxAssumption, Zenon
      <4>4. book'[x] = 0
        BY <3>1, <4>2, <4>3
      <4> QED
        BY <2>3, <3>1, <3>4, <4>4, Zenon DEF SyncApplied
    <3>5. CASE Evict
      BY <2>3, <3>1, <3>5, Zenon DEF Evict
    <3>6. CASE \E o \in Orders : GuardExpires(o)
      <4>1. PICK o \in Orders : GuardExpires(o)
        BY Zenon, <3>6
      <4>2. book' = book /\ answer' = answer /\ guard' = guard \ {o} /\ answer[o] < 1 /\ ~OnWire(o)
        BY <4>1, Zenon DEF GuardExpires, OnWire
      <4> QED
        BY Zenon, <3>1, <4>2
    <3> QED
      BY <3>2, <3>3, <3>4, <3>5, <3>6, ZenonT(40) DEF Sync
  <2> QED
    BY Zenon, <2>2, <2>4
<1>5. wire' \subseteq wire /\ UNCHANGED <<options, outbox, quiet, recent, pressure, signals>>
  BY Zenon, <1>1 DEF outboxVars
<1> QED
  BY <1>1, <1>3, <1>4, <1>5, PeerStep, ZenonT(40)

-----------------------------------------------------------------------------
(* The theorems.                                                            *)

\* A node starts with nothing announced, and with a watch if it restores an
\* order.
LEMMA PublishInit == Init => PublishInv
<1> SUFFICES ASSUME Init
             PROVE  PublishInv
  BY Zenon
<1>1. PICK s \in Scenarios :
        /\ coalescing = s.coalescing /\ ceiling = s.ceiling /\ signals = s.signals /\ losses = s.losses
        /\ active = s.active /\ balance = s.balance /\ changes = s.changes
        /\ store = s.restored
        /\ phase = [o \in Orders |-> IF o \in s.later THEN "new" ELSE "done"]
  BY Zenon DEF Init
<1>2. /\ coalescing \in BOOLEAN /\ ceiling \in Nat \ {0} /\ active \in BOOLEAN /\ signals \in Nat /\ losses \in Nat
      /\ changes \in Nat /\ balance \in Volumes
      /\ store \subseteq Orders /\ \A o \in store : o \notin s.later
  BY Zenon, <1>1, PublishAssumption
<1>3. /\ outbox = NoOutbox /\ quiet = TripForgotten /\ recent = FALSE /\ pressure = FALSE /\ wire = {}
  BY Zenon DEF Init, OutboxInit
<1>4. OutboxInv
  <2>1. quiet \in 0..TripForgotten
    BY <1>3, OutboxAssumption
  <2>2. recent \in BOOLEAN /\ pressure \in BOOLEAN /\ wire \subseteq Message
    BY <1>3, Zenon
  <2> QED
    BY <1>2, <1>3, <2>1, <2>2, Zenon DEF OutboxInv, GoodOutbox
<1>5. IsFiniteSet(Orders) /\ Cardinality(Orders) \in Nat /\ (store # {} => Cardinality(Orders) >= 1)
      /\ Cardinality(Past) \in Nat /\ (store # {} => Cardinality(Past) >= 1)
  <2>1. IsFiniteSet(Orders) /\ Past \subseteq Orders /\ store \subseteq Past
    BY Zenon, <1>1, <1>2, PublishAssumption DEF Past
  <2>2. IsFiniteSet(Past) /\ Cardinality(Orders) \in Nat /\ Cardinality(Past) \in Nat
    BY <2>1, FS_Subset, FS_CardinalityType, Zenon
  <2>3. store # {} => Cardinality(Orders) # 0 /\ Cardinality(Past) # 0
    <3>1. store # {} => Orders # {} /\ Past # {}
      BY Zenon, <2>1
    <3> QED
      BY <2>1, <2>2, <3>1, FS_EmptySet, Zenon
  <2> QED
    BY <2>1, <2>2, <2>3
<1>6. /\ watch = IF store = {} THEN NoWatch ELSE Registered(1, None)
      /\ generation = IF store = {} THEN 1 ELSE 2
      /\ task = [g \in Generations |-> IF g < generation THEN Asleep ELSE NoTask]
  BY Zenon DEF Init
<1>7. /\ NoTask \in [at : {"none", "asleep", "read", "changed", "handle", "ended"},
                     value : Volumes, todo : SUBSET Orders]
      /\ Asleep \in [at : {"none", "asleep", "read", "changed", "handle", "ended"},
                     value : Volumes, todo : SUBSET Orders]
      /\ Asleep.at = "asleep" /\ Asleep.todo = {} /\ NoTask.todo = {}
      /\ NoWatch.gen = 0 /\ Registered(1, None).gen = 1
  BY Zenon, OutboxAssumption DEF NoTask, Asleep, NoWatch, Registered
<1>8. WatchTypeOK
  <2>1. watch \in [gen : 0..Cardinality(Orders), seen : Volumes \union {None}]
    BY <1>5, <1>6 DEF NoWatch, Registered
  <2>2. generation \in 1..Cardinality(Orders) + 1
    BY <1>5, <1>6
  <2>3. task \in [Generations -> [at : {"none", "asleep", "read", "changed", "handle", "ended"},
                                  value : Volumes, todo : SUBSET Orders]]
    BY <1>6, <1>7, Zenon
  <2> QED
    BY <1>2, <2>1, <2>2, <2>3, ZenonT(40) DEF WatchTypeOK
<1>9. WatchInv
  <2>1. store # {} => 1 \in Generations /\ 1 < generation /\ task[1] = Asleep
    BY <1>5, <1>6 DEF Generations
  <2>2. \A g \in Generations : task[g].todo = {}
    BY <1>6, <1>7, Zenon
  <2>3. watch.gen < generation /\ generation <= Cardinality(Past) + 1
    BY <1>5, <1>6, <1>7
  <2>4. CASE store = {}
    BY <1>6, <1>7, <2>2, <2>3, <2>4, ZenonT(40) DEF WatchInv
  <2>5. CASE store # {}
    <3>1. watch.gen = 1 /\ task[watch.gen].at = "asleep"
      BY <1>6, <1>7, <2>1, <2>5, Zenon
    <3> QED
      BY <2>2, <2>3, <2>5, <3>1 DEF WatchInv
  <2> QED
    BY Zenon, <2>4, <2>5
<1>10. /\ seed = [o \in Orders |-> None] /\ vol = [o \in Orders |-> FullVolume]
       /\ mybook = Unlisted /\ pass = NoPass /\ dropped = {} /\ raced = {}
       /\ book = Unlisted /\ guard = {} /\ answer = NoAnswer /\ heard = {}
  BY Zenon DEF Init
<1>11. MakerTypes
  BY Zenon, <1>1, <1>10, FullVolumeType, OutboxAssumption DEF MakerTypes, Unlisted, NoPass
<1>12. PeerTypes
  BY Zenon, <1>2, <1>10, OutboxAssumption DEF PeerTypes, Unlisted
<1>13. ASSUME NEW o \in Orders
       PROVE  At(o)
  <2>1. /\ phase[o] = IF o \in s.later THEN "new" ELSE "done"
        /\ mybook[o] = 0 /\ vol[o] = FullVolume /\ pass.todo = {} /\ pass.cancel = {}
    BY Zenon, <1>1, <1>10 DEF Unlisted, NoPass
  <2>2. ~CancelSent(o)
    BY Zenon, <1>3, <1>10 DEF CancelSent, CancelOnWire
  <2> QED
    BY <1>2, <1>10, <2>1, <2>2, ZenonT(40) DEF At, PhaseAt, ConvertAt, PassAt, OwnAt, CancelAt, HeardAt, Outside, Entering
<1> QED
  BY <1>4, <1>8, <1>9, <1>11, <1>12, <1>13, ZenonT(40) DEF PublishInv

\* Every step keeps the invariant, and lowers the trip rate if it degrades.
LEMMA PublishStep ==
    ASSUME PublishInv, [Next]_vars
    PROVE  PublishInv' /\ Falls(outbox, outbox')
<1>1. CASE UNCHANGED vars
  <2>1. /\ UNCHANGED outboxVars /\ UNCHANGED watchVars /\ UNCHANGED makerVars /\ UNCHANGED peerVars
    BY <1>1, Zenon DEF vars
  <2>2. OutboxMoves({}, {})
    BY <2>1, QuietEffect, Zenon DEF PublishInv
  <2>3. WatchTypeOK' /\ MakerTypes'
    BY <2>1, Zenon DEF PublishInv, WatchTypeOK, MakerTypes, watchVars, makerVars, coins
  <2>4. WatchInv'
    BY <2>1, <2>3, WatchKeeps, Zenon DEF watchVars, makerVars, TasksGoOn, Onward, Outside
  <2> QED
    BY <2>1, <2>2, <2>3, <2>4, NoOrder, Zenon DEF watchVars
<1>2. CASE \E o \in Orders : \/ Enter(o) \/ CancelOrder(o)
                             \/ ExpireDrops(o) \/ ExpireNotifies(o)
                             \/ \E v \in Volumes : CreateChecks(o, v)
  BY <1>2, CreateChecksStep, CreateAnnouncesStep, ConvertAddsStep, WatchStartsStep, ConvertAnnouncesStep,
     CancelOrderStep, ExpireDropsStep, ExpireNotifiesStep, Zenon DEF Enter
<1>3. CASE Reconcile
  BY <1>3, ReconcileReadsStep, ReconcileAppliesStep, ReconcileCancelsStep, Zenon DEF Reconcile
<1>4. CASE \E g \in Generations : WatchStep(g) \/ \E o \in Orders : BalanceUpdated(g, o)
  BY <1>4, WatchStepKeeps, BalanceUpdatedStep, Zenon
<1>5. CASE \/ \E later \in BOOLEAN : OutboxStep(Pump(later))
           \/ OutboxStep(PressureRises) \/ OutboxStep(PressureFalls) \/ OutboxStep(RelayCloses)
  BY <1>5, OutboxStepKeeps, Zenon
<1>6. CASE CoinStep(CoinsActivate) \/ \E v \in Volumes : CoinStep(BalanceChanges(v))
  BY <1>6, CoinStepKeeps, OutboxAssumption, Zenon
<1>7. CASE \E m \in wire : Deliver(m) \/ Lose(m)
  BY <1>7, DeliverStep, LoseStep, Zenon
<1>8. CASE Sync \/ \E o \in Orders : GuardExpires(o)
  BY <1>8, SyncStep, Zenon
<1> QED
  BY <1>1, <1>2, <1>3, <1>4, <1>5, <1>6, <1>7, <1>8, ZenonT(40) DEF Next

\* The invariant holds in every state of the maker and its peer.
THEOREM PublishInvariant == Spec => []PublishInv
<1>1. PublishInv /\ [Next]_vars => PublishInv'
  BY PublishStep, Zenon
<1> QED
  BY PublishInit, <1>1, PTL DEF Spec

\* The state has its types, the bucket of the outbox never holds more than its
\* capacity, and the outbox holds at most one message for each order
\* (PubkeyOutbox::push, Budget).
THEOREM PublishTypes == Spec => []TypeOK
<1>1. ASSUME PublishInv
      PROVE  TypeOK
  <2>1. outbox \in Outbox /\ outbox.tokens <= outbox.rate /\ OneSlot(outbox.pending)
    <3>1. OneSlot(<<>>)
      BY DEF OneSlot
    <3> QED
      BY <1>1, <3>1, OutboxThere, Zenon DEF PublishInv, OutboxInv, GoodOutbox, Running, Waits
  <2>2. OutboxTypeOK
    BY <1>1, <2>1, Zenon DEF PublishInv, OutboxInv, OutboxTypeOK, Outbox, capacity
  <2>3. answer \in [Orders -> Volumes \union {None, None - 1}]
    BY Zenon, <1>1 DEF PublishInv, PeerTypes, NoAnswer, Requested
  <2> QED
    BY <1>1, <2>1, <2>2, <2>3, ZenonT(40) DEF PublishInv, TypeOK, OneSlot, MakerTypes, PeerTypes
<1> QED
  BY PublishInvariant, <1>1, PTL

\* Once a peer has handled the cancellation of an order it does not list it
\* again, for every rate of the outbox and every delay of messages and answers
\* (delete_order, index_insert_or_update, apply_sync_answer).
THEOREM NeverRelisted == Spec => []CancelledNotRelisted
<1>1. PublishInv => CancelledNotRelisted
  BY Zenon DEF PublishInv, At, HeardAt, PeerTypes, CancelledNotRelisted
<1> QED
  BY PublishInvariant, <1>1, PTL

\* The balance is watched exactly while the store has orders
\* (decrement_ticker_count, start_maker_balance_watch, stop_generation).
THEOREM OrdersAreWatched == Spec => []WatchedWhileOrders
<1>1. PublishInv => WatchedWhileOrders
  BY Zenon DEF PublishInv, WatchInv, WatchedWhileOrders
<1> QED
  BY PublishInvariant, <1>1, PTL

\* The own order book lists an order with the volume it has, and none that has
\* left the store (maker_order_updated_p2p_notify,
\* reconcile_missing_own_maker_orders).
THEOREM OwnBookStaysTrue == Spec => []OwnBookIsTrue
<1>1. PublishInv => OwnBookIsTrue
  BY Zenon DEF PublishInv, At, OwnAt, OwnBookIsTrue
<1> QED
  BY PublishInvariant, <1>1, PTL

\* The rate that a signal leaves behind falls from signal to signal while it is
\* remembered (Budget::signal, climb_limit).
THEOREM TripsKeepFalling == Spec => TripFalls
<1>1. PublishInv /\ [Next]_vars
        => [~outbox.degraded /\ outbox'.degraded /\ outbox.trip # 0
              => outbox'.trip < outbox.trip \/ outbox.trip = Floor]_vars
  BY PublishStep, Zenon DEF Falls
<1> QED
  BY PublishInvariant, <1>1, PTL DEF Spec, TripFalls
=============================================================================
