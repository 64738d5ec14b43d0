-------------------------- MODULE OrderMatchLemmas --------------------------
(***************************************************************************)
(* What OrderMatchProofs rests on: what reserved_amount adds up, what each *)
(* handler changes, the parts of the inductive invariant, and the types,   *)
(* for every set of orders, offers, requests and nodes.                    *)
(***************************************************************************)
EXTENDS OrderMatch, FiniteSetTheorems, TLAPS

-----------------------------------------------------------------------------
(* What reserved_amount adds up.                                            *)

Pick(s) == CHOOSE x \in s : TRUE

\* g adds up the matches m for every set of D.
Sums(g, m, D) ==
    g = [s \in D |-> IF s = {} THEN 0 ELSE m[Pick(s)].base + g[s \ {Pick(s)}]]

Amounts(m) == CHOOSE g : Sums(g, m, SUBSET Takers)

UpTo(n) == {s \in SUBSET Takers : Cardinality(s) <= n}

\* reserved_amount is such a sum.
LEMMA ReservedIs == ASSUME NEW ord PROVE reserved_amount(ord) = Amounts(ord.matches)[Takers]
BY Zenon DEF reserved_amount, MapThenSumSet, MapThenFoldSet, Amounts, Sums, Pick

\* Induction over the naturals, for a set of them.
LEMMA AllNaturals ==
    ASSUME NEW good, 0 \in good, \A n \in Nat : n \in good => n + 1 \in good
    PROVE  Nat \subseteq good
<1> DEFINE bad == Nat \ good
<1> SUFFICES ASSUME bad # {} PROVE FALSE
  BY Zenon
<1>1. PICK n \in bad : \A k \in bad : <<k, n>> \notin OpToRel(<, Nat)
  BY Zenon, WFMin, NatLessThanWellFounded
<1>2. n # 0 /\ n - 1 \in Nat /\ n - 1 \notin good
  <2>1. n # 0
    BY Zenon
  <2>2. n - 1 \in Nat /\ (n - 1) + 1 = n
    BY <2>1
  <2>3. QED
    BY Zenon, <2>1, <2>2
<1>3. <<n - 1, n>> \in OpToRel(<, Nat)
  BY <1>2 DEF OpToRel
<1>4. QED
  BY Zenon, <1>1, <1>2, <1>3

\* What is left of a set is smaller.
LEMMA PickShrinks ==
    ASSUME NEW s \in SUBSET Takers, s # {}
    PROVE  /\ Pick(s) \in s
           /\ s \ {Pick(s)} \in SUBSET Takers
           /\ Cardinality(s) \in Nat /\ Cardinality(s) # 0
           /\ Cardinality(s \ {Pick(s)}) = Cardinality(s) - 1
<1>1. Pick(s) \in s
  BY Zenon DEF Pick
<1>2. IsFiniteSet(s)
  BY Zenon, FS_Subset, OrderMatchAssumption
<1>3. Cardinality(s) \in Nat /\ Cardinality(s) # 0
  BY Zenon, <1>2, FS_CardinalityType, FS_EmptySet
<1>4. QED
  BY Zenon, <1>1, <1>2, <1>3, FS_RemoveElement

\* The recursion of the sum is well defined.
LEMMA SumsExist == ASSUME NEW m PROVE Sums(Amounts(m), m, SUBSET Takers)
<1> DEFINE good == {n \in Nat : \E g : Sums(g, m, UpTo(n))}
<1>1. 0 \in good
  <2>1. UpTo(0) = {{}}
    <3>1. ASSUME NEW s \in SUBSET Takers, s # {} PROVE ~(Cardinality(s) <= 0)
      <4>1. Cardinality(s) \in Nat /\ Cardinality(s) # 0
        BY Zenon, <3>1, PickShrinks
      <4>2. QED
        BY <4>1
    <3>2. QED
      BY <3>1, FS_EmptySet DEF UpTo
  <2>2. Sums([s \in {{}} |-> 0], m, UpTo(0))
    BY Zenon, <2>1 DEF Sums
  <2>3. QED
    BY Zenon, <2>2
<1>2. ASSUME NEW n \in Nat, n \in good PROVE n + 1 \in good
  <2>1. PICK g : Sums(g, m, UpTo(n))
    BY Zenon, <1>2
  <2> DEFINE h == [s \in UpTo(n + 1) |-> IF s = {} THEN 0 ELSE m[Pick(s)].base + g[s \ {Pick(s)}]]
  <2>2. ASSUME NEW s \in UpTo(n) PROVE s \in UpTo(n + 1) /\ h[s] = g[s]
    <3>1. Cardinality(s) \in Nat
      BY Zenon, FS_CardinalityType, FS_Subset, OrderMatchAssumption DEF UpTo
    <3>2. s \in UpTo(n + 1)
      BY <3>1 DEF UpTo
    <3>3. QED
      BY Zenon, <2>1, <3>2 DEF Sums
  <2>3. ASSUME NEW s \in UpTo(n + 1), s # {} PROVE s \ {Pick(s)} \in UpTo(n)
    BY <2>3, PickShrinks DEF UpTo
  <2>4. Sums(h, m, UpTo(n + 1))
    <3>1. \A s \in UpTo(n + 1) : s # {} => h[s \ {Pick(s)}] = g[s \ {Pick(s)}]
      BY Zenon, <2>2, <2>3
    <3>2. QED
      BY Zenon, <3>1 DEF Sums
  <2>5. QED
    BY <2>4
<1>3. Cardinality(Takers) \in good
  <2>1. Nat \subseteq good
    <3> HIDE DEF good
    <3> QED
      BY Zenon, <1>1, <1>2, AllNaturals
  <2>2. QED
    BY Zenon, <2>1, FS_CardinalityType, OrderMatchAssumption
<1>4. UpTo(Cardinality(Takers)) = SUBSET Takers
  BY Zenon, FS_Subset, OrderMatchAssumption DEF UpTo
<1>5. QED
  BY Zenon, <1>3, <1>4 DEF Amounts

\* What a sum is, from a set less one element.
LEMMA AmountsOf ==
    ASSUME NEW m, NEW s \in SUBSET Takers
    PROVE  Amounts(m)[s] = IF s = {} THEN 0 ELSE m[Pick(s)].base + Amounts(m)[s \ {Pick(s)}]
<1>1. Amounts(m) = [u \in SUBSET Takers |-> IF u = {} THEN 0 ELSE m[Pick(u)].base + Amounts(m)[u \ {Pick(u)}]]
  BY SumsExist, Zenon DEF Sums
<1> DEFINE g == Amounts(m)
<1>2. g = [u \in SUBSET Takers |-> IF u = {} THEN 0 ELSE m[Pick(u)].base + g[u \ {Pick(u)}]]
  BY <1>1, Zenon
<1> HIDE DEF g
<1>3. g[s] = IF s = {} THEN 0 ELSE m[Pick(s)].base + g[s \ {Pick(s)}]
  BY <1>2, Zenon
<1>4. QED
  BY <1>3, Zenon DEF g

\* Induction over the sets of takers, in the order of the sum.
LEMMA AllSets ==
    ASSUME NEW good, {} \in good,
           \A s \in SUBSET Takers : s # {} /\ s \ {Pick(s)} \in good => s \in good
    PROVE  Takers \in good
<1> DEFINE sizes == {n \in Nat : \A s \in SUBSET Takers : Cardinality(s) = n => s \in good}
<1>1. 0 \in sizes
  BY PickShrinks, Zenon
<1>2. ASSUME NEW n \in Nat, n \in sizes PROVE n + 1 \in sizes
  <2> SUFFICES ASSUME NEW s \in SUBSET Takers, Cardinality(s) = n + 1 PROVE s \in good
    OBVIOUS
  <2>1. s # {}
    BY FS_EmptySet
  <2>2. Cardinality(s \ {Pick(s)}) = n /\ s \ {Pick(s)} \in SUBSET Takers
    BY <2>1, PickShrinks
  <2>3. s \ {Pick(s)} \in good
    BY Zenon, <1>2, <2>2
  <2>4. QED
    BY Zenon, <2>1, <2>3
<1>3. Nat \subseteq sizes
  <2> HIDE DEF sizes
  <2> QED
    BY Zenon, <1>1, <1>2, AllNaturals
<1>4. QED
  BY Zenon, <1>3, FS_CardinalityType, OrderMatchAssumption

\* The matches of an order, as far as the sum goes.
Summable(m) == \A t \in Takers : m[t].base \in Nat

\* The sum of amounts is an amount, and no match holds more than all.
LEMMA SumIsNatural ==
    ASSUME NEW m, Summable(m)
    PROVE  Amounts(m)[Takers] \in Nat
<1> DEFINE good == {s \in SUBSET Takers : Amounts(m)[s] \in Nat}
<1>1. {} \in good
  BY AmountsOf
<1>2. ASSUME NEW s \in SUBSET Takers, s # {}, s \ {Pick(s)} \in good PROVE s \in good
  <2>1. Pick(s) \in Takers /\ Amounts(m)[s] = m[Pick(s)].base + Amounts(m)[s \ {Pick(s)}]
    BY Zenon, <1>2, AmountsOf, PickShrinks
  <2>2. m[Pick(s)].base \in Nat /\ Amounts(m)[s \ {Pick(s)}] \in Nat
    BY Zenon, <1>2, <2>1 DEF Summable
  <2>3. Amounts(m)[s] \in Nat
    BY <2>1, <2>2
  <2>4. QED
    BY Zenon, <2>3
<1>3. Takers \in good
  <2> HIDE DEF good
  <2> QED
    BY Zenon, <1>1, <1>2, AllSets
<1>4. QED
  BY Zenon, <1>3

\* Matches that hold nothing add up to nothing.
LEMMA SumIsZero ==
    ASSUME NEW m, \A t \in Takers : m[t].base = 0
    PROVE  Amounts(m)[Takers] = 0
<1> DEFINE good == {s \in SUBSET Takers : Amounts(m)[s] = 0}
<1>1. {} \in good
  BY Zenon, AmountsOf
<1>2. ASSUME NEW s \in SUBSET Takers, s # {}, s \ {Pick(s)} \in good PROVE s \in good
  <2>1. Pick(s) \in Takers /\ Amounts(m)[s] = m[Pick(s)].base + Amounts(m)[s \ {Pick(s)}]
    BY Zenon, <1>2, AmountsOf, PickShrinks
  <2>2. m[Pick(s)].base = 0 /\ Amounts(m)[s \ {Pick(s)}] = 0
    BY Zenon, <1>2, <2>1
  <2>3. Amounts(m)[s] = 0
    BY <2>1, <2>2
  <2>4. QED
    BY Zenon, <2>3
<1>3. Takers \in good
  <2> HIDE DEF good
  <2> QED
    BY Zenon, <1>1, <1>2, AllSets
<1>4. QED
  BY Zenon, <1>3

\* One match changes, and the sum with it.
LEMMA SumChanges ==
    ASSUME NEW m, NEW k, NEW t \in Takers, Summable(m), Summable(k),
           \A u \in Takers : u # t => k[u].base = m[u].base
    PROVE  Amounts(k)[Takers] = Amounts(m)[Takers] + (k[t].base - m[t].base)
<1> DEFINE d == k[t].base - m[t].base
           good == {s \in SUBSET Takers : /\ Amounts(m)[s] \in Nat
                                          /\ Amounts(k)[s] = Amounts(m)[s] + (IF t \in s THEN d ELSE 0)}
<1>0. d \in Int /\ m[t].base \in Nat /\ k[t].base \in Nat
  BY DEF Summable
<1>1. {} \in good
  BY AmountsOf
<1>2. ASSUME NEW s \in SUBSET Takers, s # {}, s \ {Pick(s)} \in good PROVE s \in good
  <2> DEFINE rest1 == s \ {Pick(s)}
  <2>1. /\ Amounts(m)[s] = m[Pick(s)].base + Amounts(m)[rest1]
        /\ Amounts(k)[s] = k[Pick(s)].base + Amounts(k)[rest1]
        /\ Pick(s) \in s
    BY <1>2, AmountsOf, PickShrinks, Zenon
  <2>2. m[Pick(s)].base \in Nat /\ k[Pick(s)].base \in Nat /\ Amounts(m)[rest1] \in Nat
    BY Zenon, <1>2, <2>1 DEF Summable
  <2>3. CASE Pick(s) = t
    <3>1. Amounts(k)[rest1] = Amounts(m)[rest1] /\ t \in s
      BY <1>2, <2>1, <2>2, <2>3
    <3>2. QED
      BY <1>0, <2>1, <2>2, <2>3, <3>1
  <2>4. CASE Pick(s) # t
    <3>1. Amounts(k)[rest1] = Amounts(m)[rest1] + (IF t \in s THEN d ELSE 0)
      BY Zenon, <1>2, <2>4
    <3>2. k[Pick(s)].base = m[Pick(s)].base
      BY Zenon, <2>1, <2>4
    <3>3. QED
      BY <1>0, <2>1, <2>2, <3>1, <3>2
  <2>5. QED
    BY Zenon, <2>3, <2>4
<1>3. Takers \in good
  <2> HIDE DEF good
  <2> QED
    BY Zenon, <1>1, <1>2, AllSets
<1>4. QED
  BY Zenon, <1>3

-----------------------------------------------------------------------------
(* Types.                                                                   *)

BusyState == [how : {"no", "locked", "open", "delete"}, state : Order]
UpdateState == [active : BOOLEAN, before : Order, vol : Nat, min : Nat, price : Price]

TakerWork == {"no", "save", "delete", "toMaker", "saveMaker"}

\* The values an order has before anything happens to it.
LEMMA ConstantTypes ==
    /\ NoMatch \in Match /\ NoOrder \in Order /\ NoTaker \in TakerState
    /\ Idle \in BusyState /\ Deletion \in BusyState /\ NoUpdate \in UpdateState
<1>1. NoMatch \in Match /\ NoTaker \in TakerState /\ <<1, 1>> \in Price
  BY DEF NoMatch, Match, NoTaker, TakerState, Price
<1>2. NoOrder \in Order
  BY Zenon, <1>1 DEF NoOrder, Order
<1>3. QED
  <2>1. 0 \in Nat
    OBVIOUS
  <2>2. QED
    BY Zenon, <1>1, <1>2, <2>1 DEF Idle, BusyState, Deletion, NoUpdate, UpdateState

\* An order stays one when a part of it changes.
LEMMA OrderParts ==
    ASSUME NEW ord \in Order
    PROVE  /\ \A b \in BOOLEAN : [ord EXCEPT !.live = b] \in Order
           /\ \A v \in Nat : [ord EXCEPT !.vol = v] \in Order
           /\ \A v, k \in Nat, p \in Price : [ord EXCEPT !.vol = v, !.min = k, !.price = p] \in Order
           /\ \A t \in Takers, m \in Match : [ord EXCEPT !.matches[t] = m] \in Order
           /\ \A t \in Takers, b \in BOOLEAN : [ord EXCEPT !.matches[t].connected = b] \in Order
<1>1. \A b \in BOOLEAN : [ord EXCEPT !.live = b] \in Order
  BY Zenon DEF Order
<1>2. \A v \in Nat : [ord EXCEPT !.vol = v] \in Order
  BY Zenon DEF Order
<1>3. \A v, k \in Nat, p \in Price : [ord EXCEPT !.vol = v, !.min = k, !.price = p] \in Order
  BY Zenon DEF Order
<1>4. \A t \in Takers, m \in Match : [ord EXCEPT !.matches[t] = m] \in Order
  BY Zenon DEF Order
<1>5. \A t \in Takers, b \in BOOLEAN : [ord EXCEPT !.matches[t].connected = b] \in Order
  BY DEF Order, Match
<1>6. QED
  BY <1>1, <1>2, <1>3, <1>4, <1>5, Zenon

\* The volume held is an amount.
LEMMA ReservedType ==
    ASSUME NEW ord \in Order
    PROVE  reserved_amount(ord) \in Nat
<1>1. Summable(ord.matches)
  BY Zenon DEF Order, Match, Summable
<1>2. QED
  BY Zenon, <1>1, SumIsNatural, ReservedIs

\* The quotients of Quote and From<TakerOrder> are amounts.
LEMMA Quotient == ASSUME NEW a \in Nat, NEW b \in Nat, NEW c \in Nat \ {0} PROVE (a * b) \div c \in Nat
<1>1. a * b \in Nat
  OBVIOUS
<1>2. ASSUME NEW x \in Nat PROVE x \div c \in Nat
  OBVIOUS
<1>3. QED
  BY Zenon, <1>1, <1>2

\* match_with_request computes amounts.
LEMMA QuoteType ==
    ASSUME NEW ord \in Order, NEW r \in Request
    PROVE  Quote(ord, r).base \in Nat /\ Quote(ord, r).rel \in Nat
<1>1. r.base \in Nat /\ ord.price[1] \in Nat \ {0} /\ ord.price[2] \in Nat \ {0}
  BY Zenon DEF Order, Price, Request
<1>2. QED
  BY <1>1, Quotient, Zenon DEF Quote

\* From<TakerOrder> for MakerOrder yields a maker order.
LEMMA FromTakerType ==
    ASSUME NEW r \in Request
    PROVE  FromTakerOrder(r) \in Order
<1>1. r.base \in Nat \ {0} /\ r.rel \in Nat \ {0} /\ r.min \in Nat
  BY Zenon DEF Request
<1>2. (r.min * r.rel) \div r.base \in Nat
  BY <1>1, Quotient, Zenon
<1>3. <<r.rel, r.base>> \in Price /\ <<r.base, r.rel>> \in Price
  BY Zenon, <1>1 DEF Price
<1>4. QED
  BY <1>1, <1>2, <1>3, ConstantTypes, Zenon DEF FromTakerOrder, Order

-----------------------------------------------------------------------------
(* The argument.                                                            *)

\* The answers sent so far.
Answers == {r \in sent : r.kind = "reserved"}

\* By one of these answers, maker order o answers taker order t with these amounts.
Answered(answers, o, t, base, rel) ==
    \E r \in answers : r.order = o /\ r.taker = t /\ r.base = base /\ r.rel = rel

\* A node walks over its orders once for each request, and answers once.
WalkInv == \A n \in Nodes, t \in Takers : \A o \in walk[n][t] : NodeOf[o] = n /\ RequestMsg(t) \in seen[n]
WalkedInv ==
    \A r \in Answers : RequestMsg(r.taker) \in seen[NodeOf[r.order]] /\ walk[NodeOf[r.order]][r.taker] = {}
OneAnswer == \A r, q \in Answers : r.taker = q.taker /\ NodeOf[r.order] = NodeOf[q.order] => r = q
PendingInv == \A t \in Takers : \A r \in pending[t] : r \in Answers /\ r.taker = t

AnswerInv == WalkInv /\ WalkedInv /\ OneAnswer /\ PendingInv

\* A taker connects to an order that has answered it.
ConnectAnswered ==
    \A t \in Takers, o \in AllOrders : ConnectMsg(t, o) \in sent => \E r \in Answers : r.order = o /\ r.taker = t
ConnectInv == ConnectAnswered /\ \A c \in connecting : ConnectMsg(c[1], c[2]) \in sent

\* A match of an order, in memory, published or on disk, is one it answered with.
MatchesAnswered(answers, o, ord) ==
    \A t \in Takers : Matched(ord, t) => Answered(answers, o, t, ord.matches[t].base, ord.matches[t].rel)

MatchInv ==
    \A o \in AllOrders : /\ MatchesAnswered(Answers, o, order[o]) /\ MatchesAnswered(Answers, o, saved[o])
                         /\ MatchesAnswered(Answers, o, busy[o].state)
                         /\ busy[o].how = "delete" => busy[o].state = NoOrder

\* A maker starts a swap with the amounts of its answer, and for a connection.
MakerSwapInv ==
    \A s \in makerSwaps : /\ s.base > 0 /\ Answered(Answers, s.order, s.taker, s.base, s.rel)
                          /\ ConnectMsg(s.taker, s.order) \in sent
ConnectedInv ==
    \A t \in Takers, o \in AllOrders :
        ConnectedMsg(o, t) \in sent => \E s \in makerSwaps : s.order = o /\ s.taker = t
BobInv == MakerSwapInv /\ ConnectedInv

\* The amounts are the ones the taker asked for, at its price or better.
Within(s, q) == IF q.action = "Buy" THEN s.base = q.base /\ s.rel <= q.rel
                                    ELSE s.rel = q.base /\ q.rel <= s.base

\* A taker order has at most one match, of an answer within its limit.
OneMatch(answers, q, t, matches) ==
    /\ \A m \in matches : m.taker = t /\ Answered(answers, m.order, t, m.base, m.rel) /\ Within(m, q)
    /\ \A m, k \in matches : m = k

TakerMatchInv ==
    \A t \in Takers : /\ OneMatch(Answers, request[t], t, taker[t].matches)
                      /\ OneMatch(Answers, request[t], t, savedTaker[t].matches)

\* The record of a taker order is the order, once its storage work is done.
TakerRecordInv ==
    \A t \in Takers :
        /\ taker[t].live /\ takerBusy[t] # "save" => savedTaker[t] = taker[t]
        /\ takerBusy[t] \in {"delete", "toMaker", "saveMaker"} => ~taker[t].live
        /\ takerBusy[t] = "saveMaker" => ~savedTaker[t].live
        /\ t \in budget.takers => ~taker[t].live /\ ~savedTaker[t].live /\ takerBusy[t] = "no"

\* Only a crash loses a match the taker order has connected to.
TakerConnectInv ==
    \A t \in Takers, o \in AllOrders :
        ConnectMsg(t, o) \in sent /\ NodeOf[t] \notin crashed => \E m \in taker[t].matches : m.order = o

AliceInv == TakerMatchInv /\ TakerRecordInv /\ TakerConnectInv

\* The maker has started the swap a taker order has started; when a crash brings
\* the taker order back it has that one match.
Swapped(s) ==
    /\ s \in makerSwaps /\ Within(s, request[s.taker])
    /\ taker[s.taker].live => taker[s.taker].matches = {s}
    /\ savedTaker[s.taker].live => savedTaker[s.taker].matches = {s}
    /\ takerBusy[s.taker] \notin {"toMaker", "saveMaker"} /\ s.taker \notin budget.takers

AliceSwapInv ==
    /\ \A s \in takerSwaps : Swapped(s)
    /\ \A s, u \in takerSwaps : s.taker = u.taker => s = u

\* A taker order that may still trade is no maker order yet.
Unconverted(t) ==
    \/ t \in budget.takers \/ taker[t].live \/ savedTaker[t].live \/ takerBusy[t] \notin {"no", "saveMaker"}
    \/ \E s \in takerSwaps : s.taker = t

ConvertInv ==
    \A t \in Takers : Unconverted(t) =>
        /\ order[t] = NoOrder /\ saved[t] = NoOrder /\ busy[t] = Idle /\ t \notin cancelled
        /\ \A n \in Nodes, u \in Takers : t \notin walk[n][u]
        /\ \A r \in Answers : r.order # t

\* A restart does not bring a cancelled order back: the history records its
\* removal, or its record is gone for good; or nothing prevents it.
Gone(o) == o \in removals \/ o \in Takers \ Kept \/ (o \in Orders /\ ~saved[o].live)

\* A cancelled order is gone, in memory and, once its deletion is done, for the
\* next restart; and no handler that holds it finds an ongoing match in it.
Ended(o) ==
    /\ ~order[o].live
    /\ busy[o].how = "delete" \/ (busy[o].how = "no" /\ Gone(o))
    /\ \A t \in Takers : <<t, o>> \in connecting => ~Ongoing(order[o], t)

CancelInv == \A o \in cancelled : Restorable(o) \/ Ended(o)

\* No order holds more than its volume, in memory, published or on disk; nor
\* will it after the update in progress.
Covered(ord) == reserved_amount(ord) <= ord.vol

VolumeInv ==
    \A o \in AllOrders : /\ Covered(order[o]) /\ Covered(saved[o]) /\ Covered(busy[o].state)
                         /\ update[o].active => reserved_amount(update[o].before) <= update[o].vol

-----------------------------------------------------------------------------
(* What the steps do, and the types.                                        *)

\* Every order belongs to a node.
LEMMA Homes == \A o \in AllOrders : NodeOf[o] \in Nodes
BY Zenon, OrderMatchAssumption

\* An answer is a MakerReserved message.
LEMMA AnswerTypes ==
    ASSUME TypeOK, NEW r \in Answers
    PROVE  /\ r \in sent /\ r.kind = "reserved"
           /\ r.order \in AllOrders /\ r.taker \in Takers /\ r.base \in Nat /\ r.rel \in Nat
<1>1. r \in sent /\ r.kind = "reserved" /\ r \in Message
  BY Zenon DEF Answers, TypeOK
<1>2. QED
  BY Zenon, <1>1 DEF Message

\* The messages of a negotiation, of which only MakerReserved is an answer.
LEMMA MessageTypes ==
    ASSUME NEW t \in Takers, NEW o \in AllOrders
    PROVE  /\ RequestMsg(t) \in Message /\ ConnectMsg(t, o) \in Message /\ ConnectedMsg(o, t) \in Message
           /\ RequestMsg(t).kind # "reserved" /\ ConnectMsg(t, o).kind # "reserved"
           /\ ConnectedMsg(o, t).kind # "reserved"
BY Zenon DEF Message, RequestMsg, ConnectMsg, ConnectedMsg

\* The steps of a taker order that leave the maker orders alone.
TakerOnly(t) ==
    \/ LpAutoBuy(t)
    \/ \E msg \in sent : ProcessMakerReserved(t, msg)
    \/ SelectReserved(t)
    \/ \E o \in AllOrders : ProcessMakerConnected(t, o)
    \/ TimedOutTakerOrder(t)
    \/ CancelTakerOrder(t)

\* They do not answer anybody.
LEMMA TakerFrame ==
    ASSUME TypeOK, AnswerInv, NEW t \in Takers, TakerOnly(t)
    PROVE  /\ UNCHANGED <<orderVars, update, walk, connecting, makerSwaps, cancelled, rest, savedTaker>>
           /\ sent \subseteq sent' /\ sent' \subseteq Message /\ Answers' = Answers
<1>1. UNCHANGED <<orderVars, update, walk, connecting, makerSwaps, cancelled, rest, savedTaker>>
  BY Zenon DEF TakerOnly, LpAutoBuy, ProcessMakerReserved, SelectReserved, ProcessMakerConnected,
     TimedOutTakerOrder, CancelTakerOrder, history
<1>2. sent' = sent \/ \E m \in Message : m.kind # "reserved" /\ sent' = sent \union {m}
  <2>1. CASE LpAutoBuy(t)
    <3>1. sent' = sent \union {RequestMsg(t)} /\ t \in AllOrders
      BY Zenon, <2>1 DEF LpAutoBuy, AllOrders
    <3>2. QED
      BY Zenon, <3>1, MessageTypes
  <2>2. CASE SelectReserved(t)
    <3>1. ASSUME NEW r \in Acceptable(t), sent' = sent \union {ConnectMsg(t, r.order)}
          PROVE  \E m \in Message : m.kind # "reserved" /\ sent' = sent \union {m}
      <4>1. r.order \in AllOrders
        BY Zenon, AnswerTypes DEF Acceptable, AnswerInv, PendingInv
      <4>2. QED
        BY Zenon, <3>1, <4>1, MessageTypes
    <3>2. QED
      BY Zenon, <2>2, <3>1 DEF SelectReserved
  <2>3. CASE \/ \E msg \in sent : ProcessMakerReserved(t, msg)
             \/ \E o \in AllOrders : ProcessMakerConnected(t, o)
             \/ TimedOutTakerOrder(t)
             \/ CancelTakerOrder(t)
    BY Zenon, <2>3 DEF ProcessMakerReserved, ProcessMakerConnected, TimedOutTakerOrder, CancelTakerOrder, netVars
  <2>4. QED
    BY Zenon, <2>1, <2>2, <2>3 DEF TakerOnly
<1>3. QED
  BY Zenon, <1>1, <1>2 DEF Answers, TypeOK

\* Groups of variables.
OrderTypes ==
    /\ order \in [AllOrders -> Order] /\ saved \in [AllOrders -> Order]
    /\ busy \in [AllOrders -> BusyState] /\ update \in [AllOrders -> UpdateState]
    /\ walk \in [Nodes -> [Takers -> SUBSET AllOrders]]
    /\ connecting \subseteq Takers \X AllOrders
    /\ makerSwaps \subseteq SwapRecord /\ cancelled \subseteq AllOrders

TakerTypes ==
    /\ taker \in [Takers -> TakerState] /\ savedTaker \in [Takers -> TakerState]
    /\ takerBusy \in [Takers -> TakerWork]
    /\ pending \in [Takers -> SUBSET Message] /\ collecting \in [Takers -> BOOLEAN]
    /\ takerSwaps \subseteq SwapRecord

NetTypes ==
    /\ request \in [Takers -> Request] /\ budget \in Budget
    /\ sent \subseteq Message /\ seen \in [Nodes -> SUBSET Message]
    /\ crashed \subseteq Nodes /\ removals \subseteq AllOrders

\* The groups make up the type invariant.
LEMMA TypeParts == TypeOK <=> OrderTypes /\ TakerTypes /\ NetTypes
BY Zenon DEF TypeOK, OrderTypes, TakerTypes, NetTypes, BusyState, UpdateState, TakerWork

\* They do after a step, too.
LEMMA TypePartsNext == OrderTypes' /\ TakerTypes' /\ NetTypes' => TypeOK'
BY Zenon DEF TypeOK, OrderTypes, TakerTypes, NetTypes, BusyState, UpdateState, TakerWork

\* What is handled was sent.
LEMMA HandleType ==
    ASSUME TypeOK, NEW n \in Nodes, NEW msg, Handle(n, msg)
    PROVE  /\ seen' \in [Nodes -> SUBSET Message]
           /\ \A k \in Nodes : seen[k] \subseteq seen'[k]
           /\ msg \in seen'[n] /\ msg \notin seen[n] /\ msg \in sent
BY Zenon DEF Handle, TypeOK

\* A taker order stays one when a part of it changes.
LEMMA TakerParts ==
    ASSUME NEW a \in TakerState
    PROVE  /\ \A b \in BOOLEAN : [a EXCEPT !.live = b] \in TakerState
           /\ \A s \in SwapRecord : [a EXCEPT !.matches = @ \union {s}] \in TakerState
<1>1. \A b \in BOOLEAN : [a EXCEPT !.live = b] \in TakerState
  BY Zenon DEF TakerState
<1>2. \A s \in SwapRecord : [a EXCEPT !.matches = @ \union {s}] \in TakerState
  BY Zenon DEF TakerState
<1>3. QED
  BY Zenon, <1>1, <1>2

\* What they do to the taker order.
LEMMA TakerEffect ==
    ASSUME TypeOK, AnswerInv, NEW t \in Takers, TakerOnly(t)
    PROVE  /\ taker' = [taker EXCEPT ![t] = taker'[t]]
           /\ taker'[t] \in TakerState
           /\ takerBusy' = [takerBusy EXCEPT ![t] = takerBusy'[t]]
           /\ takerBusy'[t] \in TakerWork
           /\ budget' \in Budget
           /\ pending' \in [Takers -> SUBSET Message] /\ collecting' \in [Takers -> BOOLEAN]
           /\ seen' \in [Nodes -> SUBSET Message] /\ \A k \in Nodes : seen[k] \subseteq seen'[k]
           /\ takerSwaps' \subseteq SwapRecord
<1>0. t \in AllOrders /\ NodeOf[t] \in Nodes /\ taker[t] \in TakerState
  BY Zenon, Homes DEF AllOrders, TypeOK
<1>1. CASE LpAutoBuy(t)
  <2>1. budget' \in Budget
    BY Zenon, <1>1 DEF LpAutoBuy, TypeOK, Budget
  <2>2. taker' = [taker EXCEPT ![t] = taker'[t]] /\ taker'[t] \in TakerState
    <3>1. taker' = [taker EXCEPT ![t] = [taker[t] EXCEPT !.live = TRUE]]
      BY Zenon, <1>1 DEF LpAutoBuy
    <3>2. [taker[t] EXCEPT !.live = TRUE] \in TakerState
      BY Zenon, <1>0, TakerParts
    <3>3. QED
      BY Zenon, <3>1, <3>2 DEF TypeOK
  <2>3. takerBusy' = [takerBusy EXCEPT ![t] = takerBusy'[t]] /\ takerBusy'[t] = "save"
    <3>1. takerBusy' = [takerBusy EXCEPT ![t] = "save"]
      BY Zenon, <1>1 DEF LpAutoBuy
    <3>2. QED
      BY Zenon, <3>1 DEF TypeOK
  <2>4. UNCHANGED <<pending, collecting, seen, takerSwaps>>
    BY Zenon, <1>1 DEF LpAutoBuy, history
  <2>5. QED
    BY Zenon, <2>1, <2>2, <2>3, <2>4 DEF TypeOK, TakerWork
<1>2. ASSUME NEW msg \in sent, ProcessMakerReserved(t, msg)
      PROVE  /\ UNCHANGED <<taker, takerBusy, budget, takerSwaps>>
             /\ pending' \in [Takers -> SUBSET Message] /\ collecting' \in [Takers -> BOOLEAN]
             /\ seen' \in [Nodes -> SUBSET Message] /\ \A k \in Nodes : seen[k] \subseteq seen'[k]
  <2>1. seen' \in [Nodes -> SUBSET Message] /\ \A k \in Nodes : seen[k] \subseteq seen'[k]
    BY Zenon, <1>0, <1>2, HandleType DEF ProcessMakerReserved
  <2>2. pending' \in [Takers -> SUBSET Message] /\ collecting' \in [Takers -> BOOLEAN]
    BY <1>2 DEF ProcessMakerReserved, TypeOK
  <2>3. QED
    BY Zenon, <1>2, <2>1, <2>2 DEF ProcessMakerReserved, history
<1>3. CASE SelectReserved(t)
  <2>1. collecting' \in [Takers -> BOOLEAN]
    BY Zenon, <1>3 DEF SelectReserved, TypeOK
  <2>2. pending' = pending \/ pending' = [pending EXCEPT ![t] = {}]
    BY Zenon, <1>3 DEF SelectReserved
  <2>3. takerBusy' = takerBusy \/ takerBusy' = [takerBusy EXCEPT ![t] = "save"]
    BY Zenon, <1>3 DEF SelectReserved
  <2>4. taker' = [taker EXCEPT ![t] = taker'[t]] /\ taker'[t] \in TakerState
    <3>1. ASSUME NEW r \in Acceptable(t), taker' = [taker EXCEPT ![t].matches = @ \union {Swap(r.order, t, r)}]
          PROVE  taker' = [taker EXCEPT ![t] = taker'[t]] /\ taker'[t] \in TakerState
      <4>1. r.order \in AllOrders /\ r.base \in Nat /\ r.rel \in Nat
        BY Zenon, AnswerTypes DEF Acceptable, AnswerInv, PendingInv
      <4>2. Swap(r.order, t, r) \in SwapRecord
        BY Zenon, <4>1 DEF Swap, SwapRecord
      <4>3. [taker[t] EXCEPT !.matches = @ \union {Swap(r.order, t, r)}] \in TakerState
        BY Zenon, <1>0, <4>2, TakerParts
      <4>4. taker' = [taker EXCEPT ![t] = [taker[t] EXCEPT !.matches = @ \union {Swap(r.order, t, r)}]]
        BY Zenon, <3>1
      <4>5. QED
        BY Zenon, <4>3, <4>4 DEF TypeOK
    <3>2. CASE taker' = taker
      BY Zenon, <1>0, <3>2 DEF TypeOK
    <3>3. QED
      BY Zenon, <1>3, <3>1, <3>2 DEF SelectReserved
  <2>5. UNCHANGED <<budget, seen, takerSwaps>>
    BY Zenon, <1>3 DEF SelectReserved, history
  <2>6. pending' \in [Takers -> SUBSET Message] /\ takerBusy' = [takerBusy EXCEPT ![t] = takerBusy'[t]]
        /\ takerBusy'[t] \in TakerWork
    BY Zenon, <2>2, <2>3 DEF TypeOK, TakerWork
  <2>7. QED
    BY Zenon, <2>1, <2>4, <2>5, <2>6 DEF TypeOK
<1>4. ASSUME \/ \E o \in AllOrders : ProcessMakerConnected(t, o)
             \/ TimedOutTakerOrder(t)
             \/ CancelTakerOrder(t)
      PROVE  /\ taker' = [taker EXCEPT ![t].live = FALSE]
             /\ \/ takerBusy' = [takerBusy EXCEPT ![t] = "delete"]
                \/ takerBusy' = [takerBusy EXCEPT ![t] = "toMaker"]
             /\ UNCHANGED <<budget, pending, collecting>>
             /\ seen' \in [Nodes -> SUBSET Message] /\ \A k \in Nodes : seen[k] \subseteq seen'[k]
             /\ takerSwaps' \subseteq SwapRecord
  <2>1. ASSUME NEW o \in AllOrders, ProcessMakerConnected(t, o)
        PROVE  /\ seen' \in [Nodes -> SUBSET Message] /\ \A k \in Nodes : seen[k] \subseteq seen'[k]
               /\ takerSwaps' \subseteq SwapRecord
    <3>1. seen' \in [Nodes -> SUBSET Message] /\ \A k \in Nodes : seen[k] \subseteq seen'[k]
      BY Zenon, <1>0, <2>1, HandleType DEF ProcessMakerConnected
    <3>2. \E m \in taker[t].matches : takerSwaps' = takerSwaps \union {m}
      BY Zenon, <2>1 DEF ProcessMakerConnected, MatchWith
    <3>3. QED
      BY Zenon, <1>0, <3>1, <3>2 DEF TypeOK, TakerState
  <2>2. CASE TimedOutTakerOrder(t) \/ CancelTakerOrder(t)
    BY Zenon, <2>2 DEF TimedOutTakerOrder, CancelTakerOrder, netVars, history, TypeOK
  <2>3. QED
    BY Zenon, <1>4, <2>1, <2>2 DEF ProcessMakerConnected, TimedOutTakerOrder, CancelTakerOrder
<1>5. CASE \/ \E o \in AllOrders : ProcessMakerConnected(t, o)
           \/ TimedOutTakerOrder(t)
           \/ CancelTakerOrder(t)
  <2>1. taker' = [taker EXCEPT ![t] = taker'[t]] /\ taker'[t] \in TakerState
    <3>1. taker' = [taker EXCEPT ![t] = [taker[t] EXCEPT !.live = FALSE]]
      BY Zenon, <1>4, <1>5
    <3>2. [taker[t] EXCEPT !.live = FALSE] \in TakerState
      BY Zenon, <1>0, TakerParts
    <3>3. QED
      BY Zenon, <3>1, <3>2 DEF TypeOK
  <2>2. takerBusy' = [takerBusy EXCEPT ![t] = takerBusy'[t]] /\ takerBusy'[t] \in TakerWork
    BY Zenon, <1>4, <1>5 DEF TypeOK, TakerWork
  <2>3. QED
    BY Zenon, <1>4, <1>5, <2>1, <2>2 DEF TypeOK
<1>6. CASE \E msg \in sent : ProcessMakerReserved(t, msg)
  <2>1. taker' = [taker EXCEPT ![t] = taker'[t]] /\ takerBusy' = [takerBusy EXCEPT ![t] = takerBusy'[t]]
        /\ takerBusy'[t] \in TakerWork
    BY Zenon, <1>2, <1>6 DEF TypeOK, TakerWork
  <2>2. QED
    BY Zenon, <1>0, <1>2, <1>6, <2>1 DEF TypeOK
<1>7. QED
  BY Zenon, <1>1, <1>3, <1>5, <1>6 DEF TakerOnly
\* A step of the loop's passes, of the balance events or of the user's calls,
\* or the end of storage work, changes order o alone.
OrderOnlyStep(o) ==
    \/ \E t \in Takers : TimedOutMakerMatch(o, t)
    \/ OrderStep(o)

\* Nothing of the negotiation changes, and recorded removals stay.
LEMMA OrderFrame ==
    ASSUME TypeOK, NEW o \in AllOrders, OrderOnlyStep(o)
    PROVE  /\ UNCHANGED <<walk, connecting, takerVars, netVars, makerSwaps, takerSwaps, request, crashed>>
           /\ budget'.takers = budget.takers /\ budget' \in Budget
           /\ removals \subseteq removals' /\ removals' \subseteq AllOrders
<1>1. UNCHANGED <<walk, connecting, takerVars, netVars, makerSwaps, takerSwaps, request, crashed>>
  BY Zenon DEF OrderOnlyStep, OrderStep, TimedOutMakerMatch, StoreMakerOrder, CheckBalance, CancelExpired,
     CancelPrevious, CancelMakerOrder, BalanceUpdated, UpdateChecks, ApplyUpdated, OrderOnly, history, rest
<1>0. removals' = removals \/ removals' = removals \union ({o} \intersect Kept)
  BY Zenon DEF OrderOnlyStep, OrderStep, TimedOutMakerMatch, StoreMakerOrder, CheckBalance, CancelExpired,
     CancelPrevious, CancelMakerOrder, BalanceUpdated, UpdateChecks, ApplyUpdated, OrderOnly, rest
<1>2. budget' = budget \/ (budget.updates > 0 /\ budget' = [budget EXCEPT !.updates = @ - 1])
  BY Zenon DEF OrderOnlyStep, OrderStep, TimedOutMakerMatch, StoreMakerOrder, CheckBalance, CancelExpired,
     CancelPrevious, CancelMakerOrder, BalanceUpdated, UpdateChecks, ApplyUpdated, OrderOnly
<1>3. ASSUME NEW b \in Budget, b.updates > 0
      PROVE  [b EXCEPT !.updates = @ - 1] \in Budget /\ [b EXCEPT !.updates = @ - 1].takers = b.takers
  <2>1. b.updates - 1 \in Nat
    BY <1>3 DEF Budget
  <2>2. QED
    BY Zenon, <2>1 DEF Budget
<1>4. QED
  BY Zenon, <1>0, <1>1, <1>2, <1>3 DEF TypeOK

\* What such a step does to its order: it never turns live; a match stays or is
\* dropped while unconnected; what is stored is what was published.
OrderEffect(o) ==
    /\ order' = [order EXCEPT ![o] = order'[o]] /\ order'[o] \in Order
    /\ saved' = [saved EXCEPT ![o] = saved'[o]] /\ saved'[o] \in {saved[o], busy[o].state}
    /\ busy' = [busy EXCEPT ![o] = busy'[o]]
    /\ \/ busy'[o] \in {busy[o], Idle, Deletion}
       \/ order[o].live /\ busy'[o] = [how |-> "open", state |-> order'[o]]
    /\ update' = [update EXCEPT ![o] = update'[o]] /\ update'[o] \in UpdateState
    /\ order'[o].live => order[o].live
    /\ \A t \in Takers : \/ order'[o].matches[t] = order[o].matches[t]
                         \/ Ongoing(order[o], t) /\ order'[o].matches[t] = NoMatch
    /\ ~order[o].live => /\ order'[o] = order[o] /\ cancelled' = cancelled
                         /\ \/ saved'[o] = saved[o] /\ busy'[o] = busy[o]
                            \/ /\ busy[o].how # "no" /\ saved'[o] = busy[o].state
                               /\ busy'[o] \in {Idle, Deletion}
                               /\ busy[o].how = "delete" /\ o \in Kept => o \in removals'
    /\ \/ cancelled' = cancelled
       \/ /\ cancelled' = cancelled \union {o} /\ busy'[o] = Deletion /\ ~order'[o].live
          /\ \A t \in Takers : ~Ongoing(order'[o], t)
    /\ VolumeInv => /\ Covered(order'[o])
                    /\ update'[o].active => reserved_amount(update'[o].before) <= update'[o].vol

\* The parts of the state of one order.
LEMMA OrderState ==
    ASSUME TypeOK, NEW o \in AllOrders
    PROVE  /\ order[o] \in Order /\ saved[o] \in Order /\ busy[o] \in BusyState /\ busy[o].state \in Order
           /\ update[o] \in UpdateState /\ update[o].before \in Order
           /\ update[o].vol \in Nat /\ update[o].min \in Nat /\ update[o].price \in Price
           /\ order[o].vol \in Nat /\ order[o].matches \in [Takers -> Match] /\ order[o].live \in BOOLEAN
<1>1. order[o] \in Order /\ saved[o] \in Order /\ busy[o] \in BusyState /\ update[o] \in UpdateState
  BY Zenon DEF TypeOK, BusyState, UpdateState
<1>2. QED
  BY Zenon, <1>1 DEF BusyState, UpdateState, Order

\* A component that does not change is a change to itself.
LEMMA SameEntry ==
    ASSUME TypeOK, NEW o \in AllOrders
    PROVE  /\ order = [order EXCEPT ![o] = order[o]] /\ saved = [saved EXCEPT ![o] = saved[o]]
           /\ busy = [busy EXCEPT ![o] = busy[o]] /\ update = [update EXCEPT ![o] = update[o]]
BY Zenon DEF TypeOK

\* An order of which only the volume and the price change reserves the same.
LEMMA SameMatches ==
    ASSUME NEW a, NEW b, a.matches = b.matches
    PROVE  reserved_amount(a) = reserved_amount(b)
BY Zenon, ReservedIs
\* An order that is taken out keeps its matches.
LEMMA OutEffect ==
    ASSUME TypeOK, NEW o \in AllOrders, order[o].live,
           order' = [order EXCEPT ![o].live = FALSE],
           \/ cancelled' = cancelled /\ busy' \in {busy, [busy EXCEPT ![o] = Deletion]}
           \/ /\ cancelled' = cancelled \union {o} /\ busy' = [busy EXCEPT ![o] = Deletion]
              /\ ~has_ongoing_matches(order[o]),
           UNCHANGED <<saved, update>>
    PROVE  OrderEffect(o)
<1>a. PICK out : out = [order[o] EXCEPT !.live = FALSE]
  BY Zenon
<1>0. out \in Order
  BY Zenon, <1>a, OrderState, OrderParts
<1>1. out.matches = order[o].matches /\ out.vol = order[o].vol /\ out.live = FALSE
  BY <1>a, OrderState DEF Order
<1>2. order' = [order EXCEPT ![o] = out] /\ order'[o] = out
  BY Zenon, <1>a DEF TypeOK
<1>3. busy' = [busy EXCEPT ![o] = busy'[o]] /\ busy'[o] \in {busy[o], Deletion}
  BY Zenon DEF TypeOK
<1>4. saved' = [saved EXCEPT ![o] = saved'[o]] /\ saved'[o] = saved[o] /\ update' = [update EXCEPT ![o] = update'[o]]
      /\ update'[o] = update[o]
  BY Zenon, SameEntry
<1>5. VolumeInv => Covered(out) /\ (update[o].active => reserved_amount(update[o].before) <= update[o].vol)
  BY Zenon, <1>1, SameMatches DEF VolumeInv, Covered
<1>6. \A t \in Takers : Ongoing(out, t) <=> Ongoing(order[o], t)
  BY Zenon, <1>1 DEF Ongoing, Matched
<1>7. \/ cancelled' = cancelled
      \/ cancelled' = cancelled \union {o} /\ busy'[o] = Deletion /\ \A t \in Takers : ~Ongoing(out, t)
  BY Zenon, <1>6 DEF has_ongoing_matches, TypeOK
<1>8. QED
  BY ZenonT(40), <1>0, <1>1, <1>2, <1>3, <1>4, <1>5, <1>7, OrderState DEF OrderEffect

\* The end of the storage work.
LEMMA StoreEffect ==
    ASSUME TypeOK, NEW o \in AllOrders, StoreMakerOrder(o)
    PROVE  OrderEffect(o)
<1>1. UNCHANGED <<order, update, cancelled>> /\ busy[o].how # "no"
  BY Zenon DEF StoreMakerOrder, history
<1>2. saved' = [saved EXCEPT ![o] = saved'[o]] /\ saved'[o] = busy[o].state
  BY Zenon DEF StoreMakerOrder, TypeOK
<1>3. busy' = [busy EXCEPT ![o] = busy'[o]] /\ busy'[o] \in {Idle, Deletion}
  BY Zenon DEF StoreMakerOrder, TypeOK
<1>4. busy[o].how = "delete" /\ o \in Kept => o \in removals'
  BY Zenon DEF StoreMakerOrder
<1>5. QED
  BY Zenon, <1>1, <1>2, <1>3, <1>4, SameEntry, OrderState DEF OrderEffect, VolumeInv

\* A change of a live order that is published, or that a balance event makes.
LEMMA ChangeEffect ==
    ASSUME TypeOK, NEW o \in AllOrders, order[o].live, NEW new \in Order,
           order' = [order EXCEPT ![o] = new],
           busy' \in {busy, [busy EXCEPT ![o] = [how |-> "open", state |-> order'[o]]]},
           update' \in {update, [update EXCEPT ![o] = NoUpdate]},
           \A t \in Takers : \/ new.matches[t] = order[o].matches[t]
                             \/ Ongoing(order[o], t) /\ new.matches[t] = NoMatch,
           VolumeInv => Covered(new),
           UNCHANGED <<saved, cancelled>>
    PROVE  OrderEffect(o)
<1>1. order'[o] = new
  BY Zenon DEF TypeOK
<1>2. \/ busy' = busy /\ busy'[o] = busy[o]
      \/ busy' = [busy EXCEPT ![o] = busy'[o]] /\ busy'[o] = [how |-> "open", state |-> order'[o]]
  BY Zenon DEF TypeOK
<1>3. update' = [update EXCEPT ![o] = update'[o]] /\ update'[o] \in {update[o], NoUpdate}
  BY DEF TypeOK
<1>4. NoUpdate.active = FALSE
  BY Zenon DEF NoUpdate
<1>5. update'[o] \in UpdateState
  BY Zenon, <1>3, OrderState, ConstantTypes
<1>6. VolumeInv => (update'[o].active => reserved_amount(update'[o].before) <= update'[o].vol)
  BY Zenon, <1>3, <1>4 DEF VolumeInv
<1>7. QED
  BY ZenonT(40), <1>1, <1>2, <1>3, <1>5, <1>6, SameEntry DEF OrderEffect
\* One match of an order is replaced.
WithMatch(ord, t, m) == [ord EXCEPT !.matches[t] = m]

Replaced(ord, t, m, new) ==
    /\ new \in Order /\ new.live = ord.live /\ new.vol = ord.vol /\ new.matches[t] = m
    /\ \A u \in Takers : u # t => new.matches[u] = ord.matches[u]
    /\ reserved_amount(new) = reserved_amount(ord) + (m.base - ord.matches[t].base)

\* Replacing a match moves the reserved amount by the difference.
LEMMA MatchChanges ==
    ASSUME NEW ord \in Order, NEW t \in Takers, NEW m \in Match
    PROVE  Replaced(ord, t, m, WithMatch(ord, t, m))
<1>0. PICK new : new = WithMatch(ord, t, m)
  BY Zenon
<1>1. new \in Order
  BY Zenon, <1>0, OrderParts DEF WithMatch
<1>2. /\ new.live = ord.live /\ new.vol = ord.vol /\ new.matches[t] = m
      /\ \A u \in Takers : u # t => new.matches[u] = ord.matches[u]
  BY Zenon, <1>0 DEF Order, WithMatch
<1>3. Summable(new.matches) /\ Summable(ord.matches)
  BY Zenon, <1>1 DEF Summable, Order, Match
<1>4. reserved_amount(new) = reserved_amount(ord) + (m.base - ord.matches[t].base)
  <2>1. \A u \in Takers : u # t => new.matches[u].base = ord.matches[u].base
    BY Zenon, <1>2
  <2>2. Amounts(new.matches)[Takers] = Amounts(ord.matches)[Takers] + (new.matches[t].base - ord.matches[t].base)
    BY Zenon, <1>3, <2>1, SumChanges
  <2>3. QED
    BY Zenon, <1>2, <2>2, ReservedIs
<1>5. QED
  BY Zenon, <1>0, <1>1, <1>2, <1>4 DEF Replaced

\* The amounts of one order are natural numbers.
LEMMA OrderNumbers ==
    ASSUME NEW ord \in Order
    PROVE  /\ reserved_amount(ord) \in Nat /\ ord.vol \in Nat
           /\ \A t \in Takers : ord.matches[t] \in Match /\ ord.matches[t].base \in Nat /\ ord.matches[t].rel \in Nat
<1>1. ord.vol \in Nat /\ \A t \in Takers : ord.matches[t] \in Match
  BY Zenon DEF Order
<1>2. QED
  BY Zenon, <1>1, ReservedType DEF Match

\* It is what each pass, balance event and call does.
LEMMA OrderStepEffect ==
    ASSUME TypeOK, NEW o \in AllOrders, OrderOnlyStep(o)
    PROVE  OrderEffect(o)
<1>0. order[o] \in Order /\ busy[o] \in BusyState /\ update[o] \in UpdateState
  BY Zenon, OrderState
<1>1. ASSUME NEW t \in Takers, TimedOutMakerMatch(o, t) PROVE OrderEffect(o)
  <2>0. PICK new : new = WithMatch(order[o], t, NoMatch)
    BY Zenon
  <2>1. /\ order[o].live /\ Ongoing(order[o], t) /\ order' = [order EXCEPT ![o] = new]
        /\ busy' = [busy EXCEPT ![o] = [how |-> "open", state |-> order'[o]]]
        /\ UNCHANGED <<saved, update, cancelled>>
    BY Zenon, <1>1, <2>0 DEF TimedOutMakerMatch, TimedOut, Publish, OrderOnly, WithMatch
  <2>2. NoMatch.base = 0
    BY Zenon DEF NoMatch
  <2>3. Replaced(order[o], t, NoMatch, new)
    BY Zenon, <1>0, <2>0, ConstantTypes, MatchChanges
  <2>4. Covered(order[o]) => Covered(new)
    <3>1. reserved_amount(order[o]) \in Nat /\ order[o].vol \in Nat /\ order[o].matches[t].base \in Nat
      BY Zenon, <1>0, OrderNumbers
    <3>2. QED
      BY <2>2, <2>3, <3>1 DEF Covered, Replaced
  <2>5. QED
    BY Zenon, <2>1, <2>3, <2>4, ChangeEffect DEF VolumeInv, Replaced
<1>2. CASE CheckBalance(o) \/ CancelPrevious(o) \/ CancelMakerOrder(o)
  <2>1. \/ cancelled' = cancelled
        \/ cancelled' = cancelled \union {o} /\ ~has_ongoing_matches(order[o])
    BY Zenon, <1>2 DEF CheckBalance, CancelPrevious, CancelMakerOrder, is_cancellable
  <2>2. /\ order[o].live /\ order' = [order EXCEPT ![o].live = FALSE]
        /\ busy' = [busy EXCEPT ![o] = Deletion] /\ UNCHANGED <<saved, update>>
    BY Zenon, <1>2 DEF CheckBalance, CancelPrevious, CancelMakerOrder, TakeOut, OrderOnly
  <2>3. QED
    BY Zenon, <2>1, <2>2, OutEffect
<1>3. CASE CancelExpired(o)
  <2>1. /\ order[o].live /\ order' = [order EXCEPT ![o].live = FALSE]
        /\ busy' \in {busy, [busy EXCEPT ![o] = Deletion]} /\ UNCHANGED <<saved, update, cancelled>>
    BY Zenon, <1>3 DEF CancelExpired, OrderOnly
  <2>2. QED
    BY Zenon, <2>1, OutEffect
<1>4. ASSUME NEW vol \in Volumes, BalanceUpdated(o, vol) PROVE OrderEffect(o)
  <2>1. CASE TakeOut(o)
    BY Zenon, <1>4, <2>1, OutEffect DEF BalanceUpdated, TakeOut, OrderOnly
  <2>2. CASE CutVolume(o, vol) /\ UNCHANGED busy
    <3> DEFINE new == [order[o] EXCEPT !.vol = reserved_amount(order[o]) + vol]
    <3>1. order[o].live /\ order' = [order EXCEPT ![o] = new] /\ UNCHANGED <<saved, update, cancelled, busy>>
      BY Zenon, <1>4, <2>2 DEF BalanceUpdated, CutVolume, OrderOnly
    <3>2. vol \in Nat /\ reserved_amount(order[o]) \in Nat
      BY Zenon, <1>0, OrderNumbers, OrderMatchAssumption
    <3>3. /\ reserved_amount(order[o]) + vol \in Nat
          /\ reserved_amount(order[o]) <= reserved_amount(order[o]) + vol
      BY <3>2
    <3>4. new \in Order
      BY Zenon, <1>0, <3>3, OrderParts
    <3>5. new.matches = order[o].matches /\ new.vol = reserved_amount(order[o]) + vol
      BY Zenon, <1>0 DEF Order
    <3> HIDE DEF new
    <3>6. Covered(new)
      BY Zenon, <3>3, <3>5, SameMatches DEF Covered
    <3>7. QED
      BY Zenon, <3>1, <3>4, <3>5, <3>6, ChangeEffect
  <2>3. QED
    BY Zenon, <1>4, <2>1, <2>2 DEF BalanceUpdated
<1>5. ASSUME NEW offer \in Offers, UpdateChecks(o, offer) PROVE OrderEffect(o)
  <2> DEFINE u == [active |-> TRUE, before |-> order[o], vol |-> offer.vol, min |-> offer.min,
                  price |-> offer.price]
  <2>1. /\ order[o].live /\ UNCHANGED <<order, saved, busy, cancelled>> /\ update' = [update EXCEPT ![o] = u]
        /\ offer.vol > reserved_amount(order[o])
    BY Zenon, <1>5 DEF UpdateChecks, orderVars, history
  <2>2. offer.vol \in Nat /\ offer.min \in Nat /\ offer.price \in Price
    BY Zenon, OrderMatchAssumption DEF Offer
  <2>3. u \in UpdateState
    BY Zenon, <1>0, <2>2 DEF UpdateState
  <2>4. u.before = order[o] /\ u.vol = offer.vol
    BY Zenon
  <2>5. reserved_amount(u.before) <= u.vol
    <3>1. reserved_amount(order[o]) \in Nat
      BY Zenon, <1>0, OrderNumbers
    <3>2. QED
      BY <2>1, <2>2, <3>1
  <2> HIDE DEF u
  <2>6. update' = [update EXCEPT ![o] = update'[o]] /\ update'[o] = u
    BY Zenon, <2>1 DEF TypeOK
  <2>7. QED
    BY Zenon, <1>0, <2>1, <2>3, <2>5, <2>6, SameEntry DEF OrderEffect, VolumeInv
<1>6. CASE ApplyUpdated(o)
  <2>1. CASE order[o].live /\ OrderUnchanged(o)
    <3> DEFINE new == [order[o] EXCEPT !.vol = update[o].vol, !.min = update[o].min, !.price = update[o].price]
    <3>1. /\ order' = [order EXCEPT ![o] = new] /\ UNCHANGED <<saved, cancelled>>
          /\ busy' = [busy EXCEPT ![o] = [how |-> "open", state |-> order'[o]]]
          /\ update' = [update EXCEPT ![o] = NoUpdate] /\ update[o].active
      BY Zenon, <1>6, <2>1 DEF ApplyUpdated, Publish, history
    <3>2. new \in Order
      BY Zenon, <1>0, OrderState, OrderParts
    <3>3. new.matches = order[o].matches /\ new.vol = update[o].vol
      BY Zenon, <1>0 DEF Order
    <3> HIDE DEF new
    <3>4. VolumeInv => Covered(new)
      BY Zenon, <2>1, <3>1, <3>3, SameMatches DEF Covered, VolumeInv, OrderUnchanged
    <3>5. QED
      BY Zenon, <2>1, <3>1, <3>2, <3>3, <3>4, ChangeEffect
  <2>2. CASE ~(order[o].live /\ OrderUnchanged(o))
    <3>1. UNCHANGED <<order, saved, busy, cancelled>> /\ update' = [update EXCEPT ![o] = NoUpdate]
      BY Zenon, <1>6, <2>2 DEF ApplyUpdated, history
    <3>2. update' = [update EXCEPT ![o] = update'[o]] /\ update'[o] = NoUpdate
      BY Zenon, <3>1 DEF TypeOK
    <3>3. NoUpdate \in UpdateState /\ ~NoUpdate.active
      BY Zenon, ConstantTypes DEF NoUpdate
    <3>4. QED
      BY Zenon, <1>0, <3>1, <3>2, <3>3, SameEntry DEF OrderEffect, VolumeInv
  <2>3. QED
    BY Zenon, <2>1, <2>2
<1>7. QED
  BY Zenon, <1>1, <1>2, <1>3, <1>4, <1>5, <1>6, StoreEffect DEF OrderOnlyStep, OrderStep
-----------------------------------------------------------------------------
(* The handlers of the negotiation.                                         *)

\* The request is answered: what process_taker_request leaves behind.
Reserves(n, t, o, m, msg) ==
    /\ order' = [order EXCEPT ![o] = WithMatch(order[o], t, m)]
    /\ busy' = IF order[o].live
               THEN [busy EXCEPT ![o] = [how |-> "locked", state |-> WithMatch(order[o], t, m)]] ELSE busy
    /\ sent' = sent \union {msg} /\ Answers' = Answers \union {msg}
    /\ msg.kind = "reserved" /\ msg.order = o /\ msg.taker = t /\ msg.base = m.base /\ msg.rel = m.rel
    /\ ~Matched(order[o], t) /\ ~m.connected
    /\ Replaced(order[o], t, m, WithMatch(order[o], t, m)) /\ Covered(WithMatch(order[o], t, m))

MatchOf(a, b) == [NoMatch EXCEPT !.base = a, !.rel = b]

IsMatchOf(m, a, b) == m \in Match /\ m.base = a /\ m.rel = b /\ m.connected = FALSE

\* A new match is not connected.
LEMMA NewMatch == ASSUME NEW a \in Nat, NEW b \in Nat PROVE IsMatchOf(MatchOf(a, b), a, b)
<1>0. PICK m : m = [NoMatch EXCEPT !.base = a, !.rel = b]
  BY Zenon
<1>1. PICK k : k = [NoMatch EXCEPT !.base = a]
  BY Zenon
<1>2. k \in Match /\ k.base = a /\ k.connected = FALSE
  BY Zenon, <1>1 DEF NoMatch, Match
<1>3. m = [k EXCEPT !.rel = b]
  BY Zenon, <1>0, <1>1
<1>4. m \in Match /\ m.base = a /\ m.rel = b /\ m.connected = FALSE
  BY Zenon, <1>2, <1>3 DEF Match
<1>5. QED
  BY Zenon, <1>0, <1>4 DEF IsMatchOf, MatchOf

\* process_taker_request ends its loop without an answer, takes the order out,
\* or reserves the volume and answers.
LEMMA RequestEffect ==
    ASSUME TypeOK, NEW t \in Takers, NEW o \in AllOrders, ProcessTakerRequest(NodeOf[o], t, o)
    PROVE  \/ UNCHANGED <<order, busy, sent>>
           \/ order[o].live /\ Free(o) /\ order' = [order EXCEPT ![o].live = FALSE]
              /\ busy' = [busy EXCEPT ![o] = Deletion] /\ UNCHANGED sent
           \/ \E m \in Match, msg \in Message : Reserves(NodeOf[o], t, o, m, msg)
<1>0. order[o] \in Order /\ request[t] \in Request /\ order[o].side \in {"X", "Y"}
  BY Zenon, OrderState DEF TypeOK, Order
<1> DEFINE q == Quote(order[o], request[t])
           msg == ReservedMsg(o, t, q)
<1>1. q.base \in Nat /\ q.rel \in Nat
  BY Zenon, <1>0, QuoteType
<1>a. PICK m : m = MatchOf(q.base, q.rel)
  BY Zenon
<1>2. m \in Match /\ m.base = q.base /\ m.rel = q.rel /\ m.connected = FALSE
  <2> HIDE DEF q
  <2>1. IsMatchOf(MatchOf(q.base, q.rel), q.base, q.rel)
    BY Zenon, <1>1, NewMatch
  <2>2. QED
    BY Zenon, <1>a, <2>1 DEF IsMatchOf
<1>3. /\ msg \in Message /\ msg.kind = "reserved" /\ msg.order = o /\ msg.taker = t
      /\ msg.base = q.base /\ msg.rel = q.rel
  <2> HIDE DEF q
  <2> QED
    BY Zenon, <1>0, <1>1 DEF Message, ReservedMsg
<1>4. CASE /\ ~Matched(order[o], t)
           /\ order' = [order EXCEPT ![o].matches[t] = [NoMatch EXCEPT !.base = q.base, !.rel = q.rel]]
           /\ sent' = sent \union {msg} /\ Publish(o, "locked")
  <2>2. order' = [order EXCEPT ![o] = WithMatch(order[o], t, m)]
    BY Zenon, <1>4, <1>a DEF WithMatch, MatchOf
  <2> HIDE DEF msg
  <2>3. order'[o] = WithMatch(order[o], t, m)
    BY Zenon, <2>2 DEF TypeOK
  <2>4. busy' = IF order[o].live
                THEN [busy EXCEPT ![o] = [how |-> "locked", state |-> WithMatch(order[o], t, m)]] ELSE busy
    BY Zenon, <1>4, <2>3, SameEntry DEF Publish
  <2>5. Answers' = Answers \union {msg}
    BY Zenon, <1>3, <1>4 DEF Answers
  <2>6. Replaced(order[o], t, m, WithMatch(order[o], t, m))
    BY Zenon, <1>0, <1>2, MatchChanges
  <2>7. Covered(WithMatch(order[o], t, m))
    <3>1. q.base <= order[o].vol - reserved_amount(order[o])
      <4>1. q.base \in order[o].min .. (order[o].vol - reserved_amount(order[o]))
        BY Zenon DEF ProcessTakerRequest, match_with_request, available_amount
      <4>2. order[o].vol \in Nat /\ order[o].min \in Nat /\ reserved_amount(order[o]) \in Nat
        BY Zenon, <1>0, ReservedType DEF Order
      <4> HIDE DEF q
      <4>3. QED
        BY <4>1, <4>2
    <3>2. order[o].matches[t].base = 0
      BY <1>0, <1>4, OrderNumbers DEF Matched
    <3>3. order[o].vol \in Nat /\ reserved_amount(order[o]) \in Nat
      BY Zenon, <1>0, OrderNumbers
    <3> HIDE DEF q
    <3>4. QED
      BY <1>1, <1>2, <2>6, <3>1, <3>2, <3>3 DEF Covered, Replaced
  <2>8. Reserves(NodeOf[o], t, o, m, msg)
    BY ZenonT(40), <1>2, <1>3, <1>4, <2>2, <2>4, <2>5, <2>6, <2>7 DEF Reserves
  <2>9. QED
    BY Zenon, <1>2, <1>3, <2>8
<1>5. QED
  BY Zenon, <1>4 DEF ProcessTakerRequest, TakeOut

\* The swap is started: what process_taker_connect leaves behind.
Connects(t, o, m) ==
    /\ order' = [order EXCEPT ![o] = WithMatch(order[o], t, m)]
    /\ busy' = IF order[o].live
               THEN [busy EXCEPT ![o] = [how |-> "locked", state |-> WithMatch(order[o], t, m)]] ELSE busy
    /\ sent' = sent \union {ConnectedMsg(o, t)}
    /\ makerSwaps' = makerSwaps \union {Swap(o, t, m)}
    /\ Ongoing(order[o], t) /\ m.connected /\ m.base = order[o].matches[t].base /\ m.rel = order[o].matches[t].rel
    /\ Replaced(order[o], t, m, WithMatch(order[o], t, m))
    /\ Covered(order[o]) => Covered(WithMatch(order[o], t, m))

\* process_taker_connect drops the message or starts the swap.
LEMMA ConnectEffect ==
    ASSUME TypeOK, NEW t \in Takers, NEW o \in AllOrders, ProcessTakerConnect(t, o)
    PROVE  /\ Answers' = Answers
           /\ \/ UNCHANGED <<order, makerSwaps, sent, busy>>
              \/ \E m \in Match : Connects(t, o, m)
<1>0. order[o] \in Order /\ order[o].matches[t] \in Match
  BY OrderState DEF Order
<1>1. PICK m : m = [order[o].matches[t] EXCEPT !.connected = TRUE]
  BY Zenon
<1>2. m \in Match /\ m.connected = TRUE /\ m.base = order[o].matches[t].base /\ m.rel = order[o].matches[t].rel
  BY Zenon, <1>0, <1>1 DEF Match
<1>3. CASE Ongoing(order[o], t)
  <2>1. StartBob(t, o, order[o].matches[t])
    BY Zenon, <1>3 DEF ProcessTakerConnect
  <2>2. order' = [order EXCEPT ![o] = WithMatch(order[o], t, m)]
    BY Zenon, <1>1, <2>1 DEF StartBob, WithMatch
  <2>3. order'[o] = WithMatch(order[o], t, m)
    BY Zenon, <2>2 DEF TypeOK
  <2>4. busy' = IF order[o].live
                THEN [busy EXCEPT ![o] = [how |-> "locked", state |-> WithMatch(order[o], t, m)]] ELSE busy
    BY Zenon, <2>1, <2>3, SameEntry DEF StartBob, Publish
  <2>5. Replaced(order[o], t, m, WithMatch(order[o], t, m))
    BY ZenonT(40), <1>0, <1>2, MatchChanges
  <2>6. Covered(order[o]) => Covered(WithMatch(order[o], t, m))
    <3>1. order[o].vol \in Nat /\ reserved_amount(order[o]) \in Nat /\ order[o].matches[t].base \in Nat
      BY Zenon, <1>0, OrderNumbers
    <3>2. QED
      BY <1>2, <2>5, <3>1 DEF Covered, Replaced
  <2>7. makerSwaps' = makerSwaps \union {Swap(o, t, m)}
    BY Zenon, <1>2, <2>1 DEF StartBob, Swap
  <2>8. Connects(t, o, m)
    BY ZenonT(40), <1>2, <1>3, <2>1, <2>2, <2>4, <2>5, <2>6, <2>7 DEF Connects, StartBob
  <2>9. Answers' = Answers
    <3>1. sent' = sent \union {ConnectedMsg(o, t)} /\ ConnectedMsg(o, t).kind # "reserved"
      BY Zenon, <2>8, MessageTypes DEF Connects
    <3>2. QED
      BY Zenon, <3>1 DEF Answers
  <2>10. QED
    BY Zenon, <1>2, <2>8, <2>9
<1>4. CASE ~Ongoing(order[o], t)
  BY Zenon, <1>4 DEF ProcessTakerConnect, Answers
<1>5. QED
  BY Zenon, <1>3, <1>4
-----------------------------------------------------------------------------
(* Types.                                                                   *)

\* The storage work done under my_taker_orders.
Stores(t) == StoreTakerOrder(t) \/ SaveConverted(t)

\* It leaves these alone.
LEMMA StoresFrame ==
    ASSUME NEW t \in Takers, Stores(t)
    PROVE  UNCHANGED <<busy, update, budget, walk, connecting, taker, pending, collecting, sent, seen,
                       makerSwaps, takerSwaps, cancelled, request, crashed, removals>>
BY Zenon DEF Stores, StoreTakerOrder, SaveConverted, netVars, history, rest

\* Storing a taker order keeps the types, whether or not it is issued as a maker
\* order.
LEMMA StoreTakerType ==
    ASSUME TypeOK, NEW t \in Takers, Stores(t)
    PROVE  TypeOK'
<1>0. t \in AllOrders /\ FromTakerOrder(request[t]) \in Order
  <2>1. request[t] \in Request
    BY Zenon DEF TypeOK
  <2>2. QED
    BY Zenon, <2>1, FromTakerType DEF AllOrders
<1>1. takerBusy' \in [Takers -> TakerWork]
  <2>1. \/ takerBusy' = [takerBusy EXCEPT ![t] = "no"]
        \/ takerBusy' = [takerBusy EXCEPT ![t] = "saveMaker"]
    BY Zenon DEF Stores, StoreTakerOrder, SaveConverted
  <2>2. QED
    BY Zenon, <2>1 DEF TypeOK, TakerWork
<1>2. savedTaker' \in [Takers -> TakerState]
  <2>1. NoTaker \in TakerState /\ taker[t] \in TakerState
    BY Zenon, ConstantTypes DEF TypeOK
  <2>2. \/ savedTaker' = savedTaker \/ savedTaker' = [savedTaker EXCEPT ![t] = taker[t]]
        \/ savedTaker' = [savedTaker EXCEPT ![t] = NoTaker]
    BY Zenon DEF Stores, StoreTakerOrder, SaveConverted
  <2>3. QED
    BY Zenon, <2>1, <2>2 DEF TypeOK
<1>3. order' \in [AllOrders -> Order] /\ saved' \in [AllOrders -> Order]
  <2>0. PICK new \in Order : new = FromTakerOrder(request[t])
    BY Zenon, <1>0
  <2>1. /\ order' = order \/ order' = [order EXCEPT ![t] = new]
        /\ saved' = saved \/ saved' = [saved EXCEPT ![t] = new]
    BY Zenon, <2>0 DEF Stores, StoreTakerOrder, SaveConverted
  <2>2. order \in [AllOrders -> Order] /\ saved \in [AllOrders -> Order]
    BY Zenon DEF TypeOK
  <2>3. order' \in [AllOrders -> Order]
    BY Zenon, <1>0, <2>1, <2>2
  <2>4. saved' \in [AllOrders -> Order]
    BY Zenon, <1>0, <2>1, <2>2
  <2>5. QED
    BY Zenon, <2>3, <2>4
<1>4. OrderTypes'
  BY Zenon, <1>3, TypeParts, StoresFrame DEF OrderTypes
<1>5. TakerTypes' /\ NetTypes'
  BY Zenon, <1>1, <1>2, TypeParts, StoresFrame DEF TakerTypes, NetTypes
<1>6. QED
  BY Zenon, <1>4, <1>5, TypePartsNext

\* A changed order and what is published of it have their types.
LEMMA EntryTypes ==
    ASSUME TypeOK, NEW o \in AllOrders, NEW new \in Order,
           order' = [order EXCEPT ![o] = new],
           busy' \in {busy, [busy EXCEPT ![o] = Deletion], [busy EXCEPT ![o] = [how |-> "locked", state |-> new]]}
    PROVE  order' \in [AllOrders -> Order] /\ busy' \in [AllOrders -> BusyState]
<1>1. PICK b : b = [how |-> "locked", state |-> new]
  BY Zenon
<1>2. b \in BusyState /\ Deletion \in BusyState
  BY Zenon, <1>1, ConstantTypes DEF BusyState
<1>3. busy' \in {busy, [busy EXCEPT ![o] = Deletion], [busy EXCEPT ![o] = b]}
  BY Zenon, <1>1
<1>4. order \in [AllOrders -> Order] /\ busy \in [AllOrders -> BusyState]
  BY Zenon DEF TypeOK, BusyState
<1>5. QED
  BY Zenon, <1>2, <1>3, <1>4

\* The maker's handlers keep the types.
LEMMA NegotiationType ==
    ASSUME TypeOK, NEW t \in Takers, NEW o \in AllOrders,
           \/ \E n \in Nodes : TakeOrders(n, t)
           \/ PassOver(NodeOf[o], t, o)
           \/ ProcessTakerRequest(NodeOf[o], t, o)
           \/ TakeOrder(t, o)
           \/ ProcessTakerConnect(t, o)
    PROVE  TypeOK'
<1>0. NodeOf[o] \in Nodes /\ request[t] \in Request /\ order[o] \in Order
  BY Zenon, Homes DEF TypeOK
<1>1. ASSUME NEW n \in Nodes, TakeOrders(n, t) PROVE TypeOK'
  <2>1. seen' \in [Nodes -> SUBSET Message]
    BY Zenon, <1>1, HandleType DEF TakeOrders
  <2>2. walk' \in [Nodes -> [Takers -> SUBSET AllOrders]]
    <3>1. PICK own \in SUBSET AllOrders : walk' = [walk EXCEPT ![n][t] = own]
      <4>1. {u \in request[t].by : NodeOf[u] = n /\ order[u].live} \in SUBSET AllOrders
        BY Zenon, <1>0 DEF Request
      <4>2. QED
        BY ZenonT(40), <1>1, <4>1 DEF TakeOrders
    <3>2. QED
      BY Zenon, <3>1 DEF TypeOK
  <2>3. QED
    <3>1. OrderTypes'
      BY Zenon, <1>1, <2>1, <2>2, TypeParts DEF TakeOrders, OrderTypes, orderVars, history
    <3>2. TakerTypes' /\ NetTypes'
      BY Zenon, <1>1, <2>1, <2>2, TypeParts DEF TakeOrders, TakerTypes, NetTypes, takerVars, history, rest
    <3>3. QED
      BY Zenon, <3>1, <3>2, TypePartsNext
<1>2. CASE PassOver(NodeOf[o], t, o)
  <2>1. walk' \in [Nodes -> [Takers -> SUBSET AllOrders]]
    BY <1>0, <1>2 DEF PassOver, TypeOK
  <2>2. QED
    <3>1. OrderTypes'
      BY Zenon, <1>2, <2>1, TypeParts DEF PassOver, OrderTypes, orderVars, history
    <3>2. TakerTypes' /\ NetTypes'
      BY ZenonT(40), <1>2, <2>1, TypeParts DEF PassOver, TakerTypes, NetTypes, takerVars, netVars, history, rest
    <3>3. QED
      BY Zenon, <3>1, <3>2, TypePartsNext
<1>3. CASE ProcessTakerRequest(NodeOf[o], t, o)
  <2>1. walk' \in [Nodes -> [Takers -> SUBSET AllOrders]]
    <3>1. walk' = [walk EXCEPT ![NodeOf[o]][t] = {}]
      BY Zenon, <1>3 DEF ProcessTakerRequest
    <3>2. QED
      BY Zenon, <1>0, <3>1 DEF TypeOK
  <2>2. order' \in [AllOrders -> Order] /\ busy' \in [AllOrders -> BusyState] /\ sent' \subseteq Message
    <3>1. CASE UNCHANGED <<order, busy, sent>>
      BY Zenon, <3>1 DEF TypeOK, BusyState
    <3>2. CASE order' = [order EXCEPT ![o].live = FALSE] /\ busy' = [busy EXCEPT ![o] = Deletion] /\ UNCHANGED sent
      <4>1. PICK new : new = [order[o] EXCEPT !.live = FALSE]
        BY Zenon
      <4>2. new \in Order /\ order' = [order EXCEPT ![o] = new]
        BY Zenon, <1>0, <3>2, <4>1, OrderParts
      <4>3. QED
        BY ZenonT(40), <3>2, <4>2, EntryTypes DEF TypeOK
    <3>3. ASSUME NEW m \in Match, NEW msg \in Message, Reserves(NodeOf[o], t, o, m, msg)
          PROVE  order' \in [AllOrders -> Order] /\ busy' \in [AllOrders -> BusyState] /\ sent' \subseteq Message
      <4>1. sent' \subseteq Message
        BY Zenon, <3>3 DEF Reserves, TypeOK
      <4>2. QED
        BY ZenonT(40), <3>3, <4>1, EntryTypes DEF Reserves, Replaced
    <3>4. QED
      BY Zenon, <1>3, <3>1, <3>2, <3>3, RequestEffect
  <2>3. QED
    <3>1. OrderTypes'
      BY Zenon, <1>3, <2>1, <2>2, TypeParts DEF ProcessTakerRequest, OrderTypes, history
    <3>2. TakerTypes' /\ NetTypes'
      BY Zenon, <1>3, <2>1, <2>2, TypeParts DEF ProcessTakerRequest, TakerTypes, NetTypes, takerVars, history, rest
    <3>3. QED
      BY Zenon, <3>1, <3>2, TypePartsNext
<1>4. CASE TakeOrder(t, o)
  <2>1. seen' \in [Nodes -> SUBSET Message]
    BY Zenon, <1>0, <1>4, HandleType DEF TakeOrder
  <2>2. connecting' \subseteq Takers \X AllOrders
    BY <1>4 DEF TakeOrder, TypeOK
  <2>3. QED
    <3>1. OrderTypes'
      BY Zenon, <1>4, <2>1, <2>2, TypeParts DEF TakeOrder, OrderTypes, orderVars, history
    <3>2. TakerTypes' /\ NetTypes'
      BY Zenon, <1>4, <2>1, <2>2, TypeParts DEF TakeOrder, TakerTypes, NetTypes, takerVars, history, rest
    <3>3. QED
      BY Zenon, <3>1, <3>2, TypePartsNext
<1>5. CASE ProcessTakerConnect(t, o)
  <2>1. connecting' \subseteq Takers \X AllOrders
    BY Zenon, <1>5 DEF ProcessTakerConnect, TypeOK
  <2>2. order' \in [AllOrders -> Order] /\ busy' \in [AllOrders -> BusyState] /\ sent' \subseteq Message
        /\ makerSwaps' \subseteq SwapRecord
    <3>1. CASE UNCHANGED <<order, makerSwaps, sent, busy>>
      BY Zenon, <3>1 DEF TypeOK, BusyState
    <3>2. ASSUME NEW m \in Match, Connects(t, o, m)
          PROVE  order' \in [AllOrders -> Order] /\ busy' \in [AllOrders -> BusyState] /\ sent' \subseteq Message
                 /\ makerSwaps' \subseteq SwapRecord
      <4>1. ConnectedMsg(o, t) \in Message /\ Swap(o, t, m) \in SwapRecord
        BY Zenon, MessageTypes DEF Swap, SwapRecord, Match
      <4>2. sent' = sent \union {ConnectedMsg(o, t)} /\ makerSwaps' = makerSwaps \union {Swap(o, t, m)}
        BY Zenon, <3>2 DEF Connects
      <4>3. sent' \subseteq Message /\ makerSwaps' \subseteq SwapRecord
        BY Zenon, <4>1, <4>2 DEF TypeOK
      <4>4. QED
        BY Zenon, <3>2, <4>3, EntryTypes DEF Connects, Replaced
    <3>3. QED
      BY Zenon, <1>5, <3>1, <3>2, ConnectEffect
  <2>3. QED
    <3>1. OrderTypes'
      BY Zenon, <1>5, <2>1, <2>2, TypeParts DEF ProcessTakerConnect, OrderTypes, history
    <3>2. TakerTypes' /\ NetTypes'
      BY ZenonT(40), <1>5, <2>1, <2>2, TypeParts DEF ProcessTakerConnect, TakerTypes, NetTypes, takerVars, history, rest
    <3>3. QED
      BY Zenon, <3>1, <3>2, TypePartsNext
<1>6. QED
  BY ZenonT(40), <1>1, <1>2, <1>3, <1>4, <1>5
\* A restart restores values of the same types.
LEMMA CrashType ==
    ASSUME TypeOK, NEW n \in Nodes, CrashRestart(n)
    PROVE  TypeOK'
<1>0. Idle \in BusyState /\ NoUpdate \in UpdateState
  BY Zenon, ConstantTypes
<1>1. order' \in [AllOrders -> Order] /\ saved' \in [AllOrders -> Order]
  <2>1. saved' \in [AllOrders -> Order]
    BY Zenon, ConstantTypes DEF CrashRestart, TypeOK
  <2>2. order' \in [AllOrders -> Order]
    BY Zenon, <2>1 DEF CrashRestart, TypeOK
  <2>3. QED
    BY Zenon, <2>1, <2>2
<1>2. busy' \in [AllOrders -> BusyState]
  <2>1. busy \in [AllOrders -> BusyState]
    BY Zenon DEF TypeOK, BusyState
  <2>2. QED
    BY Zenon, <1>0, <2>1 DEF CrashRestart
<1>3. update' \in [AllOrders -> UpdateState]
  <2>1. update \in [AllOrders -> UpdateState]
    BY Zenon DEF TypeOK, UpdateState
  <2>2. QED
    BY Zenon, <1>0, <2>1 DEF CrashRestart
<1>4. walk' \in [Nodes -> [Takers -> SUBSET AllOrders]]
  <2>1. PICK none : none = [t \in Takers |-> {}]
    BY Zenon
  <2>2. none \in [Takers -> SUBSET AllOrders]
    BY Zenon, <2>1
  <2>3. walk' = [walk EXCEPT ![n] = none]
    BY Zenon, <2>1 DEF CrashRestart
  <2>4. QED
    BY Zenon, <2>2, <2>3 DEF TypeOK
<1>5. connecting' \subseteq connecting /\ cancelled' \subseteq cancelled
  BY Zenon DEF CrashRestart
<1>6. OrderTypes'
  <2>1. connecting \subseteq Takers \X AllOrders /\ cancelled \subseteq AllOrders
    BY Zenon DEF TypeOK
  <2>2. connecting' \subseteq Takers \X AllOrders /\ cancelled' \subseteq AllOrders
    BY Zenon, <1>5, <2>1
  <2>3. QED
    BY ZenonT(40), <1>1, <1>2, <1>3, <1>4, <2>2, TypeParts DEF CrashRestart, OrderTypes
<1>7. taker' \in [Takers -> TakerState]
  BY Zenon DEF CrashRestart, TypeOK
<1>8. takerBusy' \in [Takers -> TakerWork]
  BY Zenon DEF CrashRestart, TypeOK, TakerWork
<1>9. pending' \in [Takers -> SUBSET Message]
  BY Zenon DEF CrashRestart, TypeOK
<1>10. collecting' \in [Takers -> BOOLEAN]
  BY Zenon DEF CrashRestart, TypeOK
<1>11. budget' \in Budget
  <2>1. budget \in Budget /\ budget.crashes \in [Nodes -> Nat]
    BY Zenon DEF TypeOK, Budget
  <2>2. PICK c : c = [budget.crashes EXCEPT ![n] = @ - 1]
    BY Zenon
  <2>3. c \in [Nodes -> Nat]
    <3>1. budget.crashes[n] > 0
      BY Zenon DEF CrashRestart
    <3>2. QED
      BY <2>1, <2>2, <3>1
  <2>4. budget' = [budget EXCEPT !.crashes = c]
    BY Zenon, <2>2 DEF CrashRestart
  <2>5. QED
    BY Zenon, <2>1, <2>3, <2>4 DEF Budget
<1>12. crashed' \subseteq Nodes
  BY Zenon DEF CrashRestart, TypeOK
<1>13. TakerTypes'
  BY ZenonT(40), <1>7, <1>8, <1>9, <1>10, TypeParts DEF CrashRestart, TakerTypes
<1>14. NetTypes'
  BY Zenon, <1>11, <1>12, TypeParts DEF CrashRestart, NetTypes, netVars
<1>15. QED
  BY Zenon, <1>6, <1>13, <1>14, TypePartsNext

\* The passes, the balance events and the user's calls keep the types.
LEMMA OrderOnlyType ==
    ASSUME TypeOK, NEW o \in AllOrders, OrderOnlyStep(o)
    PROVE  TypeOK'
<1>0. OrderEffect(o) /\ order[o] \in Order /\ saved[o] \in Order /\ busy[o] \in BusyState /\ busy[o].state \in Order
  BY ZenonT(40), OrderStepEffect, OrderState
<1>1. order' \in [AllOrders -> Order]
  BY Zenon, <1>0 DEF OrderEffect, TypeOK
<1>2. saved' \in [AllOrders -> Order]
  BY Zenon, <1>0 DEF OrderEffect, TypeOK
<1>3. busy' \in [AllOrders -> BusyState]
  <2>1. PICK b : b = [how |-> "open", state |-> order'[o]]
    BY ZenonT(40)
  <2>2. b \in BusyState
    BY Zenon, <1>0, <2>1 DEF BusyState, OrderEffect
  <2>3. busy'[o] \in BusyState
    BY Zenon, <1>0, <2>1, <2>2, ConstantTypes DEF OrderEffect
  <2>4. busy \in [AllOrders -> BusyState] /\ busy' = [busy EXCEPT ![o] = busy'[o]]
    BY Zenon, <1>0 DEF TypeOK, BusyState, OrderEffect
  <2>5. QED
    BY Zenon, <2>3, <2>4
<1>4. update' \in [AllOrders -> UpdateState]
  <2>1. update \in [AllOrders -> UpdateState] /\ update' = [update EXCEPT ![o] = update'[o]] /\ update'[o] \in UpdateState
    BY ZenonT(40), <1>0 DEF TypeOK, UpdateState, OrderEffect
  <2>2. QED
    BY Zenon, <2>1
<1>5. cancelled' \subseteq AllOrders
  BY <1>0 DEF OrderEffect, TypeOK
<1>6. OrderTypes'
  BY Zenon, <1>1, <1>2, <1>3, <1>4, <1>5, OrderFrame, TypeParts DEF OrderTypes
<1>7. TakerTypes' /\ NetTypes'
  BY Zenon, OrderFrame, TypeParts DEF TakerTypes, NetTypes, takerVars, netVars, rest
<1>8. QED
  BY Zenon, <1>6, <1>7, TypePartsNext

\* The steps, as the arguments below tell them apart.
LEMMA NextCases ==
    Next => \/ \E t \in Takers : TakerOnly(t)
            \/ \E t \in Takers : Stores(t)
            \/ \E t \in Takers, n \in Nodes : TakeOrders(n, t)
            \/ \E t \in Takers, o \in AllOrders : PassOver(NodeOf[o], t, o)
            \/ \E t \in Takers, o \in AllOrders : ProcessTakerRequest(NodeOf[o], t, o)
            \/ \E t \in Takers, o \in AllOrders : TakeOrder(t, o)
            \/ \E t \in Takers, o \in AllOrders : ProcessTakerConnect(t, o)
            \/ \E o \in AllOrders : OrderOnlyStep(o)
            \/ \E n \in Nodes : CrashRestart(n)
BY Zenon DEF Next, TakerStep, NegotiationStep, TakerOnly, Stores, OrderOnlyStep

\* The taker's handlers keep the types.
LEMMA TakerOnlyType ==
    ASSUME TypeOK, AnswerInv, NEW t \in Takers, TakerOnly(t)
    PROVE  TypeOK'
<1>1. OrderTypes'
  BY Zenon, TakerFrame, TypeParts DEF OrderTypes, orderVars
<1>2. taker' \in [Takers -> TakerState]
  <2>1. taker' = [taker EXCEPT ![t] = taker'[t]] /\ taker'[t] \in TakerState /\ taker \in [Takers -> TakerState]
    BY Zenon, TakerEffect DEF TypeOK
  <2>2. QED
    BY Zenon, <2>1
<1>3. takerBusy' \in [Takers -> TakerWork]
  <2>1. /\ takerBusy' = [takerBusy EXCEPT ![t] = takerBusy'[t]]
        /\ takerBusy'[t] \in TakerWork
        /\ takerBusy \in [Takers -> TakerWork]
    BY Zenon, TakerEffect DEF TypeOK, TakerWork
  <2>2. QED
    BY Zenon, <2>1
<1>4. TakerTypes'
  BY Zenon, <1>2, <1>3, TakerFrame, TakerEffect, TypeParts DEF TakerTypes
<1>5. NetTypes'
  BY Zenon, TakerFrame, TakerEffect, TypeParts DEF NetTypes, rest
<1>6. QED
  BY Zenon, <1>1, <1>4, <1>5, TypePartsNext

\* Every step keeps the types.
LEMMA TypeStep == ASSUME TypeOK, AnswerInv, [Next]_vars PROVE TypeOK'
<1>1. CASE Next
  <2>1. \A t \in Takers, n \in Nodes : TakeOrders(n, t) => TypeOK'
    <3>1. ASSUME NEW t \in Takers, NEW n \in Nodes, TakeOrders(n, t) PROVE TypeOK'
      <4>1. t \in AllOrders
        BY Zenon DEF AllOrders
      <4>2. QED
        BY Zenon, <3>1, <4>1, NegotiationType
    <3>2. QED
      BY Zenon, <3>1
  <2>2. QED
    BY ZenonT(40), <1>1, <2>1, NextCases, TakerOnlyType, StoreTakerType, NegotiationType, OrderOnlyType, CrashType
<1>2. CASE UNCHANGED vars
  <2>1. OrderTypes /\ TakerTypes /\ NetTypes
    BY Zenon, TypeParts
  <2>2. UNCHANGED <<order, saved, busy, update, walk, connecting, makerSwaps, cancelled>>
    BY Zenon, <1>2 DEF vars, orderVars, takerVars, netVars, history, rest
  <2>3. OrderTypes'
    BY Zenon, <2>1, <2>2 DEF OrderTypes
  <2>4. TakerTypes'
    BY Zenon, <1>2, <2>1 DEF TakerTypes, vars, orderVars, takerVars, netVars, history, rest
  <2>5. NetTypes'
    BY Zenon, <1>2, <2>1 DEF NetTypes, vars, orderVars, takerVars, netVars, history, rest
  <2>6. QED
    BY Zenon, <2>3, <2>4, <2>5, TypePartsNext
<1>3. QED
  BY Zenon, <1>1, <1>2

\* The types hold at the start.
LEMMA TypeInit == ASSUME Init PROVE TypeOK
<1>0. PICK sc \in Scenarios :
        /\ request = sc.request /\ budget = sc.budget
        /\ order = [o \in AllOrders |->
                     IF o \in Orders /\ sc.offer[o].vol > 0
                     THEN [NoOrder EXCEPT !.live = TRUE, !.vol = sc.offer[o].vol, !.min = sc.offer[o].min,
                                          !.price = sc.offer[o].price]
                     ELSE NoOrder]
  BY Zenon DEF Init
<1>1. sc.offer \in [Orders -> Offer] /\ request \in [Takers -> Request] /\ budget \in Budget
  BY Zenon, <1>0, OrderMatchAssumption
<1>2. ASSUME NEW f \in Offer
      PROVE  [NoOrder EXCEPT !.live = TRUE, !.vol = f.vol, !.min = f.min, !.price = f.price] \in Order
  <2>1. f.vol \in Nat /\ f.min \in Nat /\ f.price \in Price
    BY Zenon DEF Offer
  <2>2. NoOrder \in Order
    BY Zenon, ConstantTypes
  <2>3. QED
    BY Zenon, <2>1, <2>2 DEF Order
<1>3. order \in [AllOrders -> Order]
  <2>1. \A o \in AllOrders : order[o] \in Order
    <3>1. ASSUME NEW o \in AllOrders PROVE order[o] \in Order
      <4>1. CASE o \in Orders /\ sc.offer[o].vol > 0
        <5>1. sc.offer[o] \in Offer
          BY Zenon, <1>1, <4>1
        <5>2. order[o] = [NoOrder EXCEPT !.live = TRUE, !.vol = sc.offer[o].vol, !.min = sc.offer[o].min,
                                         !.price = sc.offer[o].price]
          BY Zenon, <1>0, <4>1
        <5>3. QED
          BY Zenon, <1>2, <5>1, <5>2
      <4>2. CASE ~(o \in Orders /\ sc.offer[o].vol > 0)
        BY Zenon, <1>0, <4>2, ConstantTypes
      <4>3. QED
        BY Zenon, <4>1, <4>2
    <3>2. QED
      BY Zenon, <3>1
  <2>2. QED
    BY Zenon, <1>0, <2>1
<1>4. saved = order /\ busy = [o \in AllOrders |-> Idle] /\ update = [o \in AllOrders |-> NoUpdate]
  BY Zenon DEF Init
<1>5. OrderTypes
  <2>1. busy \in [AllOrders -> BusyState]
    BY Zenon, <1>4, ConstantTypes
  <2>2. update \in [AllOrders -> UpdateState]
    BY Zenon, <1>4, ConstantTypes
  <2>3. /\ walk \in [Nodes -> [Takers -> SUBSET AllOrders]] /\ connecting \subseteq Takers \X AllOrders
        /\ makerSwaps \subseteq SwapRecord /\ cancelled \subseteq AllOrders
    BY Zenon DEF Init
  <2>4. QED
    BY Zenon, <1>3, <1>4, <2>1, <2>2, <2>3 DEF OrderTypes
<1>6. TakerTypes
  BY Zenon, ConstantTypes DEF Init, TakerTypes, TakerWork
<1>7. NetTypes
  BY Zenon, <1>1 DEF Init, NetTypes
<1>8. QED
  BY Zenon, <1>5, <1>6, <1>7, TypeParts
=============================================================================
