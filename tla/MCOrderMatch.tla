---------------------------- MODULE MCOrderMatch ----------------------------
(***************************************************************************)
(* The instance of OrderMatch for TLC: two maker orders and two taker      *)
(* orders, each on a node of its own, and a set of starting points that    *)
(* each bring one kind of interference into play.                          *)
(***************************************************************************)
EXTENDS OrderMatch, TLC

CONSTANTS m1, m2, t1, t2

MCNodes == {m1, m2, t1, t2}
MCNodeOf == [o \in MCNodes |-> o]

Cheap == [vol |-> 2, min |-> 1, price |-> <<1, 1>>]
Dear == [vol |-> 1, min |-> 1, price |-> <<2, 1>>]
Absent == [Cheap EXCEPT !.vol = 0]
MCOffers == {Dear}

\* A taker pays up to two of Y for one of X.
Buy(base) == [action |-> "Buy", base |-> base, rel |-> 2 * base, min |-> 1,
              by |-> AllOrders, gtc |-> FALSE]
Sell(base) == [action |-> "Sell", base |-> base, rel |-> 2 * base, min |-> 1,
               by |-> AllOrders, gtc |-> FALSE]
GoodTillCancelled(r) == [r EXCEPT !.gtc = TRUE]

Scenario(offer1, offer2, req1, req2, who, crash, n) ==
    [offer |-> (m1 :> offer1 @@ m2 :> offer2),
     request |-> (t1 :> req1 @@ t2 :> req2),
     budget |-> [crashes |-> [x \in MCNodes |-> IF x \in crash THEN 1 ELSE 0],
                 updates |-> n, takers |-> who]]

\* Two takers contend for the volume of one order.
Contention == Scenario(Cheap, Absent, Buy(1), Buy(2), {t1, t2}, {}, 0)

\* One taker asks for all of an order that may be updated, and the maker's node
\* may crash.
MakerCrash == Scenario(Cheap, Absent, Buy(1), Buy(2), {t2}, {m1}, 1)

\* One taker chooses between two makers, and its node may crash.
TakerCrash == Scenario(Dear, [Cheap EXCEPT !.vol = 1], Buy(1), Sell(1), {t1}, {t1}, 0)

\* A taker order becomes a maker order, which the other's request may match,
\* and its node may crash.
Conversion == Scenario(Absent, Absent, GoodTillCancelled(Buy(1)), Sell(1), {t1, t2}, {t1}, 0)

\* The same with the other taker's order, whose removal no history records.
Unrecorded == Scenario(Absent, Absent, Sell(1), GoodTillCancelled(Buy(1)), {t1, t2}, {t2}, 0)

MCScenarios == {Contention, MakerCrash, TakerCrash, Conversion, Unrecorded}
=============================================================================
