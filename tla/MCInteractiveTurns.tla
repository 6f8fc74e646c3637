-------------------------- MODULE MCInteractiveTurns --------------------------
(* Instances of InteractiveTurns: two turns, of one actor (so that one waits  *)
(* in the queue) or of two.                                                   *)
EXTENDS InteractiveTurns, TLC

CONSTANTS a1, a2, t1, t2

OneActor == t1 :> a1 @@ t2 :> a1
TwoActors == t1 :> a1 @@ t2 :> a2
==============================================================================
