----------------------------- MODULE AtomicSwap -----------------------------
(* What an atomic swap promises, said of its two payments alone.  The legacy  *)
(* protocol and version two both implement it.                                *)
(*                                                                            *)
(* The taker locks its coins only against a maker payment that is locked, the *)
(* maker claims them, and thereby publishes the secret, only while its own    *)
(* payment is still there for the taker, and the taker claims that one only   *)
(* with the secret.  What was claimed is never reclaimed.                     *)
VARIABLES maker, taker

Payment == {"none", "locked", "claimed", "reclaimed"}

LockMaker == maker = "none" /\ maker' = "locked" /\ UNCHANGED taker

LockTaker == taker = "none" /\ maker = "locked" /\ taker' = "locked" /\ UNCHANGED maker

ClaimTaker == taker = "locked" /\ maker = "locked" /\ taker' = "claimed" /\ UNCHANGED maker

ClaimMaker == maker = "locked" /\ taker = "claimed" /\ maker' = "claimed" /\ UNCHANGED taker

ReclaimTaker == taker = "locked" /\ taker' = "reclaimed" /\ UNCHANGED maker

ReclaimMaker == maker = "locked" /\ maker' = "reclaimed" /\ UNCHANGED taker

Init == maker = "none" /\ taker = "none"

Next == LockMaker \/ LockTaker \/ ClaimTaker \/ ClaimMaker \/ ReclaimTaker \/ ReclaimMaker

Spec == Init /\ [][Next]_<<maker, taker>>

(* Type correctness.                                                          *)
TypeOK == maker \in Payment /\ taker \in Payment

(* Nobody is left without both: the maker payment is claimed only when the    *)
(* maker has claimed the taker's.                                             *)
ClaimedForClaimed == maker = "claimed" => taker = "claimed"
=============================================================================
