--------------------------- MODULE MCControlEngine ---------------------------
(* Instances of ControlEngine: two cohorts that share a head, so that one    *)
(* commit can take the buffered sequence another cohort was waiting for.     *)
EXTENDS ControlEngine, TLC

CONSTANTS e1, h1, h2, c1, c2

MCHeadsOf == c1 :> {h1, h2} @@ c2 :> {h2}
==============================================================================
