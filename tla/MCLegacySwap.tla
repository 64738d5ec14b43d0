---------------------------- MODULE MCLegacySwap ----------------------------
(* LegacySwap for TLC.  The constants are given in the .cfg files; a unit of  *)
(* the clock is a quarter or an eighth of lock_duration.                      *)
EXTENDS LegacySwap, TLC
=============================================================================
