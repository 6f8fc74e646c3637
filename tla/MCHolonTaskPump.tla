--------------------------- MODULE MCHolonTaskPump ---------------------------
(* Two pumps on one task. *)
EXTENDS HolonTaskPump, TLC

Pumps == Permutations(Pump)
==============================================================================
