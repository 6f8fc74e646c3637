------------------------ MODULE MCHolonDeploymentStore ------------------------
(* HolonDeploymentStore for TLC: a few processes, any of which may die.         *)
EXTENDS HolonDeploymentStore, TLC

Workers == Permutations(Worker)
===============================================================================
