---------------------------- MODULE MCFiberDriver ----------------------------
(* An interactive main fiber with a synchronous and a detached delegate. *)
EXTENDS FiberDriver

CONSTANTS main, delegate, detached

Fibers == {main, delegate, detached}
Parents == [f \in Fibers |-> IF f = main THEN None ELSE main]
==============================================================================
