-------------------------- MODULE MCOrderWriteGate --------------------------
(* The write gate of one maker order with a few callers. *)
EXTENDS OrderWriteGate
=============================================================================
