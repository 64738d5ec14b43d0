------------------------------ MODULE MCSwapV2 ------------------------------
(* SwapV2 for TLC.  A unit of the clock is a third or a quarter of            *)
(* lock_duration.                                                             *)
EXTENDS SwapV2, TLC
=============================================================================
