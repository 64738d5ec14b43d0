--------------------------- MODULE MCMakerPublish ---------------------------
(***************************************************************************)
(* The instance of MakerPublish for TLC: one order that the user creates   *)
(* or the node restores, one converted taker order, and starting points    *)
(* that each bring one kind of interference into play.                     *)
(***************************************************************************)
EXTENDS MakerPublish

CONSTANTS made, converted

\* A starting point without coalescing, signals or losses.
Plain(on, bal, kept, new) ==
    [coalescing |-> FALSE, ceiling |-> RaiseStep, signals |-> 0, losses |-> 0, active |-> on,
     balance |-> bal, changes |-> 0, restored |-> kept, later |-> new]

\* The balance moves while an order is created, and a message may be lost.
BalanceMoves == [Plain(TRUE, 2, {}, {made}) EXCEPT !.changes = 2, !.losses = 2]

\* An order is created beside a conversion, which the balance does not cover.
TwoEnter == Plain(TRUE, 1, {}, {made, converted})

\* A restored order, and a conversion, whose coins are not active yet.
Restored == Plain(FALSE, 1, {made}, {})
Inactive == [Plain(FALSE, 1, {}, {converted}) EXCEPT !.coalescing = TRUE]

\* A restored order that the balance does not cover.
Uncovered == Plain(FALSE, 0, {made}, {})

\* Relays that do not keep up while the watch cuts a restored order.
Degraded == [Plain(TRUE, 1, {made}, {}) EXCEPT
                 !.coalescing = TRUE, !.ceiling = 2 * RaiseStep + 1, !.signals = 2]

\* A ceiling so low that the bucket never holds a token.
Starved == [Plain(TRUE, 1, {made}, {}) EXCEPT
                !.coalescing = TRUE, !.ceiling = Token - 1]

MCScenarios ==
    {BalanceMoves, TwoEnter, Restored, Inactive, Uncovered, Degraded, Starved}
=============================================================================
