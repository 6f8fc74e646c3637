------------------------- MODULE AtomicRevisionStore -------------------------
(***************************************************************************)
(* What the deployment runtime store promises its callers: one history of  *)
(* snapshots that only grows, and operations that take effect at one point *)
(* between their call and their return.  A call that fails, or whose       *)
(* process dies, took effect once or not at all, and its caller cannot     *)
(* tell which.                                                             *)
(*                                                                         *)
(* A snapshot is the set of its facts (coordinators, members, sessions,    *)
(* subscriptions); revision r is element r + 1 of the history.             *)
(***************************************************************************)
EXTENDS Integers, Sequences

CONSTANTS
    Worker,     \* the callers
    Fact        \* what a snapshot may record

VARIABLES
    history,    \* the snapshots in the order of their revisions
    phase,      \* "idle", "called", "taken": where the caller's operation is
    request,    \* the caller's operation
    effect,     \* what a taken operation will return: the history it saw or made
    answer      \* what the last finished operation returned, or <<>>

vars == <<history, phase, request, effect, answer>>

Snapshot == SUBSET Fact
Chain == Seq(Snapshot)
Request == [kind : {"open", "load", "commit"}, expected : Nat, revision : Nat, next : Snapshot]
NoRequest == [kind |-> "load", expected |-> 0, revision |-> 0, next |-> {}]

\* p is an initial part of the history h
PartOf(p, h) == Len(p) <= Len(h) /\ \A i \in 1..Len(p) : p[i] = h[i]
------------------------------------------------------------------------------
Init ==
    /\ history = <<>>
    /\ phase = [w \in Worker |-> "idle"]
    /\ request = [w \in Worker |-> NoRequest]
    /\ effect = [w \in Worker |-> <<>>]
    /\ answer = [w \in Worker |-> <<>>]

Call(w) ==
    /\ phase[w] = "idle"
    /\ request'[w] \in Request
    /\ request' = [request EXCEPT ![w] = request'[w]]
    /\ phase' = [phase EXCEPT ![w] = "called"]
    /\ answer' = [answer EXCEPT ![w] = <<>>]
    /\ UNCHANGED <<history, effect>>

\* The operation takes effect and is bound to return h.
Take(w, h) ==
    /\ phase[w] = "called"
    /\ phase' = [phase EXCEPT ![w] = "taken"]
    /\ effect' = [effect EXCEPT ![w] = h]
    /\ UNCHANGED <<request, answer>>

\* open on a new store makes revision 0; on an existing one it reads, as load does.
Create(w) ==
    /\ request[w].kind = "open"
    /\ history = <<>>
    /\ history' = Append(history, {})
    /\ Take(w, history')

Read(w) ==
    /\ request[w].kind \in {"open", "load"}
    /\ history # <<>>
    /\ history' = history
    /\ Take(w, history)

\* commit adds the snapshot of the revision after the expected one, and keeps every fact.
Commit(w) ==
    /\ request[w].kind = "commit"
    /\ Len(history) = request[w].expected + 1
    /\ request[w].revision = Len(history)
    /\ history[Len(history)] \subseteq request[w].next
    /\ history' = Append(history, request[w].next)
    /\ Take(w, history')

Return(w) ==
    /\ phase[w] = "taken"
    /\ phase' = [phase EXCEPT ![w] = "idle"]
    /\ answer' = [answer EXCEPT ![w] = effect[w]]
    /\ effect' = [effect EXCEPT ![w] = <<>>]
    /\ request' = [request EXCEPT ![w] = NoRequest]
    /\ history' = history

Abandon(w) ==
    /\ phase[w] # "idle"
    /\ phase' = [phase EXCEPT ![w] = "idle"]
    /\ effect' = [effect EXCEPT ![w] = <<>>]
    /\ request' = [request EXCEPT ![w] = NoRequest]
    /\ UNCHANGED <<history, answer>>

Next == \E w \in Worker :
    Call(w) \/ Create(w) \/ Read(w) \/ Commit(w) \/ Return(w) \/ Abandon(w)

Spec == Init /\ [][Next]_vars
==============================================================================
