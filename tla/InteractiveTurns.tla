-------------------------- MODULE InteractiveTurns --------------------------
(***************************************************************************)
(* The interactive-turn coordinator: it admits turns into a queue per      *)
(* actor, starts at most one turn per actor, drives the actors' fibers in  *)
(* slices of a single pump and settles the promise of every turn.          *)
(*                                                                         *)
(*   ai-organ-logic/src/runtime/AiAgentRuntimeCoordinator.ts               *)
(*                                             turns, pump, shutdown       *)
(*   ai-runtime-host-capsule/src/sessionHost.ts                            *)
(*                                             cancel and answer commands  *)
(*   ai-organ-logic/src/orchestratorCapsule/internals/driverRuntime.ts     *)
(*                                             inspect, signals, resume    *)
(*                                                                         *)
(* JavaScript runs one stretch of code between two awaits without          *)
(* interruption.  A pump slice is split at its awaits: the driver tick,    *)
(* the seal after a turn starts to wait for a human, and the settling of   *)
(* the completed turns.  Between two awaits (`Uninterrupted') no other     *)
(* actor takes a step.                                                     *)
(*                                                                         *)
(* An actor's fibers are abstracted to what the coordinator reads of them: *)
(* the status of the root, whether some fiber is ready or running or has   *)
(* an operation in flight, and whether one waits for a human.              *)
(***************************************************************************)
EXTENDS Integers, Sequences, FiniteSets

CONSTANTS
    Actors,         \* actor ids, each with its main fiber
    TurnIds,        \* turn ids
    NoTurn,         \* no turn
    ActorOf,        \* the actor a turn is addressed to
    Compatibility,  \* turns of runInteractiveTurn; the others are the host's
    Timed,          \* turns admitted with a timeout
    HumanWaits,     \* the kinds of human wait the fibers of this instance install
    MaxOutstanding, \* maxOutstandingTurns
    MaxQueued       \* maxQueuedTurnsPerActor

ASSUME TurnsAssumption ==
    /\ NoTurn \notin TurnIds
    /\ ActorOf \in [TurnIds -> Actors]
    /\ Compatibility \subseteq TurnIds
    /\ Timed \subseteq TurnIds
    /\ HumanWaits \subseteq {"child", "root", "all"}
    /\ MaxOutstanding \in Nat
    /\ MaxQueued \in Nat
    /\ IsFiniteSet(TurnIds)

VARIABLES
    turn,       \* the entries of the turns map, with the promise of each
    active,     \* activeByActor
    queue,      \* queuedByActor
    completed,  \* finished turns whose promise no slice has taken up
    batch,      \* the turns settleCompleted is settling
    execution,  \* per actor, actor.execution: the turn of its origin and its status
    fiber,      \* per actor, its fibers as the driver holds them
    pump,       \* where the pump is
    seen,       \* inspected: the fibers as the slice read them before its loop
    todo,       \* the entries the loop of the slice has still to look at
    answering,  \* turns whose answer was submitted and not yet announced
    closing,    \* "open", "closing" (shutdown), "closed" or "disposed"
    stopping,   \* the turns shutdown has still to cancel
    awaited     \* the turns whose promises shutdown awaits

vars == <<turn, active, queue, completed, batch, execution, fiber, pump, seen, todo,
          answering, closing, stopping, awaited>>
------------------------------------------------------------------------------
Terminal == {"succeeded", "failed", "cancelled", "interrupted"}
TurnStates == {"absent", "queued", "running", "waiting_input"} \cup Terminal
TurnEntry ==
    [state : TurnStates, cancelRequested : BOOLEAN, preparing : BOOLEAN, delivered : BOOLEAN,
     aborted : BOOLEAN, signalled : BOOLEAN, expired : BOOLEAN, timedOut : BOOLEAN,
     promise : {"pending", "resolved", "rejected"}]

\* work: "ready" when a fiber is ready or running or has a resume pending,
\* "op" when all are suspended and one has an operation in flight.
\* human: the wait is a child's (continue_others), the root's, or pauses all.
Fiber == [root : {"live", "failed", "cancelled"}, work : {"none", "ready", "op"},
          human : {"none", "child", "root", "all"}]
Execution == [owner : TurnIds \cup {NoTurn}, status : {"none", "active", "interrupted", "settled"}]
PumpStates == {"off", "scheduled", "ticking", "deciding", "sealing", "settling"}

NewEntry ==
    [state |-> "absent", cancelRequested |-> FALSE, preparing |-> FALSE, delivered |-> FALSE,
     aborted |-> FALSE, signalled |-> FALSE, expired |-> FALSE, timedOut |-> FALSE,
     promise |-> "pending"]
Calm == [root |-> "live", work |-> "none", human |-> "none"]
AllCalm == [a \in Actors |-> Calm]

Init ==
    /\ turn = [t \in TurnIds |-> NewEntry]
    /\ active = [a \in Actors |-> NoTurn]
    /\ queue = [a \in Actors |-> <<>>]
    /\ completed = {}
    /\ batch = {}
    /\ execution = [a \in Actors |-> [owner |-> NoTurn, status |-> "none"]]
    /\ fiber = AllCalm
    /\ pump = "off"
    /\ seen = AllCalm
    /\ todo = {}
    /\ answering = {}
    /\ closing = "open"
    /\ stopping = {}
    /\ awaited = {}

Disposed == closing = "disposed"
Uninterrupted == pump = "deciding" \/ stopping # {}
Live(t) == turn[t].state \notin Terminal \cup {"absent"}
ActiveTurns == {active[a] : a \in Actors} \ {NoTurn}
------------------------------------------------------------------------------
(* The driver, as the coordinator calls it.                                *)

\* applyResumeFiber on the main fiber.
Resumed(f) ==
    [root |-> IF f.root = "failed" THEN "live" ELSE f.root, work |-> "ready",
     human |-> IF f.human = "child" THEN "child" ELSE "none"]

\* reviveFiber for a terminal main fiber, resumeFiber for any other.
Revived(f) == [Resumed(f) EXCEPT !.root = "live"]

\* An interrupt signal to every fiber of the scope that is not terminal.
Interrupted(f) ==
    IF f.root = "live" \/ f.work # "none" \/ f.human # "none"
    THEN [f EXCEPT !.work = "ready", !.human = "none"] ELSE f

\* emitFiberSignal drops every signal for an actor whose execution was interrupted.
Reachable(a) == execution[a].status # "interrupted"

\* The end of an answered wait: the wake signal of the answer.
Answered(f) == [f EXCEPT !.work = "ready", !.human = "none"]
------------------------------------------------------------------------------
(* Finishing and interrupting a turn.                                      *)

\* schedulePump.
SchedulePump == pump' = IF pump = "off" /\ ~ Disposed THEN "scheduled" ELSE pump

\* The execution record after a turn ends: a local turn that only paused its
\* caller leaves the execution active.
ExecutionAfter(t, state, result) ==
    LET a == ActorOf[t]
        paused == t \in Compatibility /\ result \in {"timeout_unsettled", "blocked_on_human"}
    IN  IF execution[a].status # "none" /\ (t \in Compatibility \/ execution[a].owner = t)
        THEN [execution EXCEPT ![a].status =
                 IF paused THEN "active"
                 ELSE IF state = "interrupted" THEN "interrupted" ELSE "settled"]
        ELSE execution

\* A queue without turn t, which is in it at most once.
Without(q, t) ==
    IF \E i \in 1..Len(q) : q[i] = t
    THEN LET at == CHOOSE i \in 1..Len(q) : q[i] = t
         IN  SubSeq(q, 1, at - 1) \o SubSeq(q, at + 1, Len(q))
    ELSE q

\* finishTurn on the entry as the caller has patched it (entry).
FinishTurn(t, entry, state, result) ==
    LET a == ActorOf[t]
    IN  IF entry.state \in Terminal
        THEN /\ turn' = [turn EXCEPT ![t] = entry]
             /\ UNCHANGED <<active, queue, completed, execution>>
        ELSE /\ turn' = [turn EXCEPT ![t] = [entry EXCEPT !.state = state]]
             /\ active' = [active EXCEPT ![a] = IF @ = t THEN NoTurn ELSE @]
             /\ queue' = [queue EXCEPT ![a] = Without(@, t)]
             /\ completed' = completed \cup {t}
             /\ execution' = ExecutionAfter(t, state, result)

\* interruptTurn: abort the delivery; a delivered turn's fibers are signalled,
\* once (the signals carry an idempotency key per turn and fiber).
InterruptTurn(t, entry) ==
    LET a == ActorOf[t]
    IN  /\ turn' = [turn EXCEPT ![t] =
                       [entry EXCEPT !.aborted = TRUE, !.signalled = @ \/ entry.delivered]]
        /\ fiber' = IF entry.delivered /\ ~ entry.signalled /\ Reachable(a)
                    THEN [fiber EXCEPT ![a] = Interrupted(@)] ELSE fiber
------------------------------------------------------------------------------
(* Requests of the host.                                                   *)

\* admit.
Admit(t) ==
    /\ ~ Uninterrupted
    /\ closing = "open"
    /\ turn[t].state = "absent"
    /\ Cardinality({u \in TurnIds : Live(u)}) < MaxOutstanding
    /\ Len(queue[ActorOf[t]]) < MaxQueued
    /\ turn' = [turn EXCEPT ![t].state = "queued"]
    /\ queue' = [queue EXCEPT ![ActorOf[t]] = Append(@, t)]
    /\ SchedulePump
    /\ UNCHANGED <<active, completed, batch, execution, fiber, seen, todo, answering, closing, stopping, awaited>>

\* A mutant: only the fibers' records count.
ScopeSettledByRecords(t, f) == f[ActorOf[t]].work # "ready"

\* What readScope finds of turn t in the fibers f read at some time.  The
\* records come from f; the operations in flight are read from the live actors.
ScopeSettled(t, f) == f[ActorOf[t]].work # "ready" /\ fiber[ActorOf[t]].work # "op"
ScopeHuman(t, f) ==
    IF t \in Compatibility
    THEN f[ActorOf[t]].human = "root" \/ \E b \in Actors : f[b].human = "all"
    ELSE f[ActorOf[t]].human # "none"

\* A running turn that has nothing left to do, though no slice has noticed.
DoneUnnoticed(t) ==
    /\ turn[t].delivered /\ ~ turn[t].preparing /\ ~ turn[t].cancelRequested
    /\ turn[t].state = "running"
    /\ ScopeSettled(t, fiber) /\ ~ ScopeHuman(t, fiber)

\* cancelInteractiveTurn on a turn that is not terminal: one whose fibers have
\* settled has succeeded, ...
CancelSettled(t) ==
    /\ DoneUnnoticed(t)
    /\ FinishTurn(t, turn[t], "succeeded", "settled")
    /\ UNCHANGED fiber

\* ... one still in its queue is cancelled at once, ...
CancelQueued(t) ==
    /\ turn[t].state = "queued"
    /\ FinishTurn(t, turn[t], "cancelled", "cancelled")
    /\ UNCHANGED fiber

\* A mutant: a finished turn is not told apart.
StoppableAlways(t) == turn[t].state \notin {"absent", "queued"}

Stoppable(t) == turn[t].state \notin {"absent", "queued"} \cup Terminal

\* ... any other is asked to stop, once.
CancelRunning(t) ==
    /\ Stoppable(t)
    /\ ~ DoneUnnoticed(t)
    /\ IF turn[t].cancelRequested
       THEN UNCHANGED <<turn, fiber>>
       ELSE InterruptTurn(t, [turn[t] EXCEPT !.cancelRequested = TRUE, !.state = "running"])
    /\ UNCHANGED <<active, queue, completed, execution>>

Cancel(t) ==
    /\ CancelSettled(t) \/ CancelQueued(t) \/ CancelRunning(t)
    /\ SchedulePump
    /\ UNCHANGED <<batch, seen, todo, answering, closing, awaited>>

\* cancel_turn.
CancelTurn(t) == ~ Uninterrupted /\ Cancel(t) /\ UNCHANGED stopping

\* answer_question up to its await: the answer wakes the waiting fiber.
SubmitAnswer(t) ==
    LET a == ActorOf[t]
    IN  /\ ~ Uninterrupted
        /\ t \notin Compatibility
        /\ turn[t].state \in {"running", "waiting_input"}
        /\ active[a] = t
        /\ fiber[a].human # "none"
        /\ fiber' = IF Reachable(a) THEN [fiber EXCEPT ![a] = Answered(@)] ELSE fiber
        /\ answering' = answering \cup {t}
        /\ UNCHANGED <<turn, active, queue, completed, batch, execution, pump, seen, todo,
                       closing, stopping, awaited>>

\* A mutant: an answer is only taken up when the pump rests.
ResumableAtRest(t) == turn[t].state = "waiting_input" /\ pump = "off"

Resumable(t) == turn[t].state = "waiting_input"

\* answer_question after its await: resumeInteractiveTurn.
ResumeTurn(t) ==
    /\ ~ Uninterrupted
    /\ t \in answering
    /\ answering' = answering \ {t}
    /\ IF Resumable(t)
       THEN /\ turn' = [turn EXCEPT ![t].state = "running"]
            /\ fiber' = [fiber EXCEPT ![ActorOf[t]] = Resumed(@)]
            /\ SchedulePump
       ELSE UNCHANGED <<turn, fiber, pump>>
    /\ UNCHANGED <<active, queue, completed, batch, execution, seen, todo, closing, stopping, awaited>>

\* An answer to a wait that ended a local turn: no turn is there to resume.
AnswerLocally(a) ==
    /\ ~ Uninterrupted
    /\ \E t \in Compatibility : ActorOf[t] = a
    /\ active[a] \in Compatibility \cup {NoTurn}
    /\ fiber[a].human # "none"
    /\ Reachable(a)
    /\ fiber' = [fiber EXCEPT ![a] = Answered(@)]
    /\ UNCHANGED <<turn, active, queue, completed, batch, execution, pump, seen, todo,
                   answering, closing, stopping, awaited>>
------------------------------------------------------------------------------
(* Delivery.                                                               *)

\* A mutant: the entry still counts as in preparation.
PreparedStillPreparing(entry) == entry

\* The entry when its delivery is over.
Prepared(entry) == [entry EXCEPT !.preparing = FALSE]

\* deliveryFinished.
DeliveryFinished(t) ==
    LET a == ActorOf[t]
        entry == Prepared(turn[t])
    IN  /\ ~ Uninterrupted
        /\ turn[t].preparing
        /\ IF entry.aborted
           THEN /\ IF entry.timedOut
                   THEN FinishTurn(t, entry, "interrupted", "timeout_unsettled")
                   ELSE FinishTurn(t, entry, "cancelled", "cancelled")
                /\ UNCHANGED fiber
           ELSE /\ turn' = [turn EXCEPT ![t] = [entry EXCEPT !.delivered = TRUE]]
                /\ fiber' = [fiber EXCEPT ![a] = Revived(@)]
                /\ UNCHANGED <<active, queue, completed, execution>>
        /\ SchedulePump
        /\ UNCHANGED <<batch, seen, todo, answering, closing, stopping, awaited>>

\* The delivery's promise is rejected.
DeliveryRejected(t) ==
    LET entry == Prepared(turn[t])
    IN  /\ ~ Uninterrupted
        /\ turn[t].preparing
        /\ IF entry.aborted THEN FinishTurn(t, entry, "cancelled", "cancelled")
                            ELSE FinishTurn(t, entry, "failed", "failed")
        /\ SchedulePump
        /\ UNCHANGED <<batch, fiber, seen, todo, answering, closing, stopping, awaited>>

\* Date.now() reaches the deadline that was set when the turn started.
Expire(t) ==
    /\ ~ Uninterrupted
    /\ t \in Timed
    /\ turn[t].state \in {"running", "waiting_input"}
    /\ ~ turn[t].expired
    /\ turn' = [turn EXCEPT ![t].expired = TRUE]
    /\ UNCHANGED <<active, queue, completed, batch, execution, fiber, pump, seen, todo,
                   answering, closing, stopping, awaited>>
------------------------------------------------------------------------------
(* The pump.                                                               *)

Startable == {a \in Actors : queue[a] # <<>> /\ active[a] = NoTurn}

\* How a delivery can go: a promise, a plain return, or an exception.  Local
\* turns have no delivery callback.
Deliveries(t) == IF t \in Compatibility THEN {"returned"} ELSE {"promised", "returned", "thrown"}

\* A mutant: a starting turn goes on with whatever execution is there.
ExecutionOnStartKept(a, t) ==
    IF execution[a].status # "none" THEN execution[a] ELSE [owner |-> t, status |-> "active"]

\* The execution record a starting turn leaves its actor with: a local turn
\* continues the execution another local turn left active.
ExecutionOnStart(a, t) ==
    IF t \in Compatibility /\ execution[a].status = "active" /\ execution[a].owner \in Compatibility
    THEN execution[a] ELSE [owner |-> t, status |-> "active"]

\* startQueued: for every actor without an active turn, the first of its queue;
\* how[a] says how the delivery went.
StartQueued(how) ==
    LET first(a) == Head(queue[a])
        thrown == {a \in Startable : how[a] = "thrown"}
    IN  /\ turn' = [t \in TurnIds |->
                IF ActorOf[t] \in Startable /\ t = first(ActorOf[t])
                THEN [turn[t] EXCEPT
                        !.state = IF how[ActorOf[t]] = "thrown" THEN "failed" ELSE "running",
                        !.preparing = how[ActorOf[t]] = "promised",
                        !.delivered = how[ActorOf[t]] = "returned"]
                ELSE turn[t]]
        /\ queue' = [a \in Actors |-> IF a \in Startable THEN Tail(queue[a]) ELSE queue[a]]
        /\ active' = [a \in Actors |->
                IF a \in Startable \ thrown THEN first(a) ELSE active[a]]
        /\ completed' = completed \cup {first(a) : a \in thrown}
        /\ execution' = [a \in Actors |->
                IF a \notin Startable THEN execution[a]
                ELSE IF a \in thrown
                THEN [ExecutionOnStart(a, first(a)) EXCEPT !.status = "settled"]
                ELSE ExecutionOnStart(a, first(a))]
        /\ fiber' = [a \in Actors |->
                IF a \in Startable /\ how[a] = "returned" THEN Revived(fiber[a]) ELSE fiber[a]]

\* The end of a slice: the pump runs again if there is something for it to do.
SomethingToPump ==
    \/ \E a \in Actors : active[a] # NoTurn /\ turn[active[a]].state = "running"
    \/ Startable # {}
    \/ completed # {}

\* A mutant: completions that arrive while a batch settles are not seen.
EndSliceIgnoresCompleted ==
    /\ pump' = IF ~ Disposed /\ ((ActiveTurns \cap {t \in TurnIds : turn[t].state = "running"})' # {}
                                \/ Startable' # {})
               THEN "scheduled" ELSE "off"
    /\ seen' = AllCalm
    /\ todo' = {}

\* A mutant: only the queues and the completions keep the pump going.
EndSliceForgetsRunning ==
    /\ pump' = IF ~ Disposed /\ (Startable' # {} \/ completed' # {}) THEN "scheduled" ELSE "off"
    /\ seen' = AllCalm
    /\ todo' = {}

EndSlice ==
    /\ pump' = IF ~ Disposed /\ SomethingToPump' THEN "scheduled" ELSE "off"
    /\ seen' = AllCalm
    /\ todo' = {}

\* The start of a slice.
PumpBegin ==
    /\ pump = "scheduled"
    /\ stopping = {}
    /\ ~ Disposed
    /\ \E how \in [Startable -> {"promised", "returned", "thrown"}] :
          /\ \A a \in Startable : how[a] \in Deliveries(Head(queue[a]))
          /\ StartQueued(how)
    /\ IF \E a \in Actors : /\ active'[a] # NoTurn
                             /\ turn'[active'[a]].delivered
                             /\ turn'[active'[a]].state = "running"
       THEN pump' = "ticking" /\ UNCHANGED <<seen, todo>>
       ELSE pump' = "deciding" /\ seen' = fiber' /\ todo' = ActiveTurns'
    /\ UNCHANGED <<batch, answering, closing, stopping, awaited>>

\* A slice that finds the coordinator disposed.
PumpDisposed ==
    /\ pump = "scheduled"
    /\ Disposed
    /\ UNCHANGED <<turn, active, queue, completed, batch, execution, fiber, answering, closing, stopping, awaited>>
    /\ EndSlice

\* The tick returns: the fibers are inspected once, for all active turns.
PumpInspect ==
    /\ pump = "ticking"
    /\ stopping = {}
    /\ pump' = "deciding"
    /\ seen' = fiber
    /\ todo' = ActiveTurns
    /\ UNCHANGED <<turn, active, queue, completed, batch, execution, fiber, answering, closing, stopping, awaited>>

Examine(t) ==
    /\ pump = "deciding"
    /\ t \in todo
    /\ todo' = todo \ {t}
    /\ UNCHANGED <<batch, seen, answering, closing, stopping, awaited>>

\* A turn in delivery, or one whose delivery was rejected after the loop began, is
\* passed over; in delivery it is aborted when its deadline has passed.
SkipUndelivered(t) ==
    LET late == turn[t].preparing /\ turn[t].expired
    IN  /\ Examine(t)
        /\ turn[t].preparing \/ ~ turn[t].delivered
        /\ turn' = [turn EXCEPT ![t].timedOut = @ \/ late, ![t].aborted = @ \/ late]
        /\ UNCHANGED <<active, queue, completed, execution, fiber, pump>>

\* What the loop reads of a delivered turn.
ExamineDelivered(t) ==
    /\ Examine(t)
    /\ ~ turn[t].preparing
    /\ turn[t].delivered

Root(t) == seen[ActorOf[t]].root
Settled(t) == ScopeSettled(t, seen)
WaitsForHuman(t) == ScopeHuman(t, seen) /\ ~ turn[t].cancelRequested

\* The root ended while a child still works: the children are interrupted.
InterruptOrphans(t) ==
    /\ ExamineDelivered(t)
    /\ Root(t) # "live"
    /\ ~ Settled(t)
    /\ InterruptTurn(t, turn[t])
    /\ UNCHANGED <<active, queue, completed, execution, pump>>

FinishFailed(t) ==
    /\ ExamineDelivered(t)
    /\ Root(t) = "failed"
    /\ Settled(t)
    /\ IF turn[t].cancelRequested THEN FinishTurn(t, turn[t], "cancelled", "cancelled")
                                  ELSE FinishTurn(t, turn[t], "failed", "failed")
    /\ UNCHANGED <<fiber, pump>>

FinishCancelled(t) ==
    /\ ExamineDelivered(t)
    /\ Root(t) # "failed"
    /\ Settled(t)
    /\ Root(t) = "cancelled" \/ turn[t].cancelRequested
    /\ IF turn[t].timedOut THEN FinishTurn(t, turn[t], "interrupted", "timeout_unsettled")
                           ELSE FinishTurn(t, turn[t], "cancelled", "cancelled")
    /\ UNCHANGED <<fiber, pump>>

\* The branches below are reached by a live root, with no settled cancellation.
Undecided(t) ==
    /\ ExamineDelivered(t)
    /\ Root(t) = "live"
    /\ ~ (Settled(t) /\ turn[t].cancelRequested)

\* A local turn ends at a human wait, ...
FinishAtHuman(t) ==
    /\ Undecided(t)
    /\ WaitsForHuman(t)
    /\ t \in Compatibility
    /\ FinishTurn(t, turn[t], "succeeded", "blocked_on_human")
    /\ UNCHANGED <<fiber, pump>>

\* ... a host's turn stays active and waits; entering the wait is sealed.
AwaitHuman(t) ==
    /\ Undecided(t)
    /\ WaitsForHuman(t)
    /\ t \notin Compatibility
    /\ turn' = [turn EXCEPT ![t].state = "waiting_input"]
    /\ pump' = IF turn[t].state = "waiting_input" THEN pump ELSE "sealing"
    /\ UNCHANGED <<active, queue, completed, execution, fiber>>

FinishSettled(t) ==
    /\ Undecided(t)
    /\ ~ WaitsForHuman(t)
    /\ Settled(t)
    /\ FinishTurn(t, turn[t], "succeeded", "settled")
    /\ UNCHANGED <<fiber, pump>>

Overdue(t) == turn[t].expired /\ ~ turn[t].timedOut

\* The deadline ends a local turn and leaves its fibers alone; it interrupts a
\* host's turn.
TimeOut(t) ==
    /\ Undecided(t)
    /\ ~ WaitsForHuman(t)
    /\ ~ Settled(t)
    /\ Overdue(t)
    /\ IF t \in Compatibility
       THEN FinishTurn(t, turn[t], "interrupted", "timeout_unsettled") /\ UNCHANGED fiber
       ELSE /\ InterruptTurn(t, [turn[t] EXCEPT !.timedOut = TRUE, !.cancelRequested = TRUE,
                                               !.state = "running"])
            /\ UNCHANGED <<active, queue, completed, execution>>
    /\ UNCHANGED pump

StillRunning(t) ==
    /\ Undecided(t)
    /\ ~ WaitsForHuman(t)
    /\ ~ Settled(t)
    /\ ~ Overdue(t)
    /\ UNCHANGED <<turn, active, queue, completed, execution, fiber, pump>>

Decide(t) ==
    \/ SkipUndelivered(t)
    \/ InterruptOrphans(t) \/ FinishFailed(t) \/ FinishCancelled(t)
    \/ FinishAtHuman(t) \/ AwaitHuman(t) \/ FinishSettled(t)
    \/ TimeOut(t) \/ StillRunning(t)

\* The awaits of the human wait return and the loop goes on, with the fibers it
\* read before.
PumpSealed ==
    /\ pump = "sealing"
    /\ stopping = {}
    /\ pump' = "deciding"
    /\ UNCHANGED <<turn, active, queue, completed, batch, execution, fiber, seen, todo,
                   answering, closing, stopping, awaited>>

\* settleCompleted up to its awaits; with nothing completed the slice ends.
PumpSettle ==
    /\ pump = "deciding"
    /\ todo = {}
    /\ batch' = completed
    /\ completed' = {}
    /\ UNCHANGED <<turn, active, queue, execution, fiber, answering, closing, stopping, awaited>>
    /\ IF completed = {} THEN EndSlice
       ELSE pump' = "settling" /\ seen' = AllCalm /\ UNCHANGED todo

Settle(ts, outcome) ==
    [t \in TurnIds |-> IF t \in ts /\ turn[t].promise = "pending"
                       THEN [turn[t] EXCEPT !.promise = outcome] ELSE turn[t]]

\* A mutant: what completed during the settling is dropped with the batch.
PumpSettledDropsCompleted ==
    /\ pump = "settling"
    /\ stopping = {}
    /\ \E outcome \in {"resolved", "rejected"} : turn' = Settle(batch, outcome)
    /\ batch' = {}
    /\ completed' = {}
    /\ UNCHANGED <<active, queue, execution, fiber, answering, closing, stopping, awaited>>
    /\ EndSlice

\* The persistence of the batch succeeded, or failed.
PumpSettled ==
    /\ pump = "settling"
    /\ stopping = {}
    /\ \E outcome \in {"resolved", "rejected"} : turn' = Settle(batch, outcome)
    /\ batch' = {}
    /\ UNCHANGED <<active, queue, completed, execution, fiber, answering, closing, stopping, awaited>>
    /\ EndSlice

\* The tick or the seal throws: every active turn fails, and with the completed
\* ones its promise is rejected.
PumpFails ==
    /\ pump \in {"ticking", "sealing"}
    /\ stopping = {}
    /\ LET failed == {t \in ActiveTurns : Live(t)}
           ended == Settle(completed \cup failed, "rejected")
       IN  /\ turn' = [t \in TurnIds |->
                  IF t \in failed THEN [ended[t] EXCEPT !.state = "failed"] ELSE ended[t]]
           /\ active' = [a \in Actors |-> IF active[a] \in failed THEN NoTurn ELSE active[a]]
           /\ execution' = [a \in Actors |->
                  IF active[a] \in failed
                     /\ (active[a] \in Compatibility \/ execution[a].owner = active[a])
                  THEN [execution[a] EXCEPT !.status = "settled"] ELSE execution[a]]
    /\ completed' = {}
    /\ UNCHANGED <<queue, batch, fiber, answering, closing, stopping, awaited>>
    /\ EndSlice
------------------------------------------------------------------------------
(* Shutdown.  SessionRuntimeAssembly disposes of the coordinator after      *)
(* awaiting its shutdown.                                                  *)

\* shutdown up to its cancellations.
Shutdown ==
    /\ ~ Uninterrupted
    /\ closing = "open"
    /\ closing' = "closing"
    /\ stopping' = {t \in TurnIds : Live(t)}
    /\ awaited' = stopping'
    /\ UNCHANGED <<turn, active, queue, completed, batch, execution, fiber, pump, seen, todo, answering>>

ShutdownCancel(t) ==
    /\ t \in stopping
    /\ Cancel(t)
    /\ stopping' = stopping \ {t}

\* The promises are settled; then, in the pump's lane, every fiber is settled
\* and the owned tasks are awaited.
ShutdownDone ==
    /\ closing = "closing"
    /\ stopping = {}
    /\ \A t \in awaited : turn[t].promise # "pending"
    /\ pump \in {"off", "scheduled"}
    /\ closing' = "closed"
    /\ fiber' = [a \in Actors |-> [Calm EXCEPT !.root = fiber[a].root]]
    /\ UNCHANGED <<turn, active, queue, completed, batch, execution, pump, seen, todo,
                   answering, stopping, awaited>>

Dispose ==
    /\ ~ Uninterrupted
    /\ closing = "closed"
    /\ closing' = "disposed"
    /\ LET resolved == Settle({t \in TurnIds : Live(t)}, "resolved")
       IN  turn' = [t \in TurnIds |->
               IF Live(t) THEN [resolved[t] EXCEPT !.aborted = TRUE] ELSE turn[t]]
    /\ active' = [a \in Actors |-> NoTurn]
    /\ queue' = [a \in Actors |-> <<>>]
    /\ UNCHANGED <<completed, batch, execution, fiber, pump, seen, todo, answering, stopping, awaited>>
------------------------------------------------------------------------------
(* The fibers.  They make progress at every await, not only in the pump's   *)
(* tick: a signal posts a tick of its own.  A fiber of an interrupted       *)
(* execution is only suspended.                                             *)

FiberStep(a, work) ==
    /\ ~ Uninterrupted
    /\ fiber[a].work = work
    /\ UNCHANGED <<turn, active, queue, completed, batch, execution, pump, seen, todo,
                   answering, closing, stopping, awaited>>

\* A fiber that was interrupted consumes cancel_requested at its next step and
\* starts nothing new.
Interruption(a) == active[a] # NoTurn /\ turn[active[a]].signalled

\* A provider or tool call starts, and returns.
FiberStartsOp(a) ==
    FiberStep(a, "ready") /\ Reachable(a) /\ ~ Interruption(a) /\ fiber' = [fiber EXCEPT ![a].work = "op"]

FiberOpReturns(a) ==
    FiberStep(a, "op") /\ Reachable(a) /\ fiber' = [fiber EXCEPT ![a].work = "ready"]

\* The last fiber of the scope has nothing left to do.
FiberSettles(a) ==
    FiberStep(a, "ready") /\ fiber' = [fiber EXCEPT ![a].work = "none"]

\* A fiber suspends on a human; others of the scope may go on.
FiberAsks(a) ==
    /\ FiberStep(a, "ready")
    /\ Reachable(a) /\ ~ Interruption(a)
    /\ fiber[a].human = "none"
    /\ \E k \in HumanWaits, w \in {"none", "ready"} :
          /\ k # "child" => fiber[a].root = "live"
          /\ fiber' = [fiber EXCEPT ![a].human = k, ![a].work = w]

\* The root fails or is cancelled; its children may go on.
FiberEnds(a) ==
    /\ FiberStep(a, "ready")
    /\ Reachable(a)
    /\ fiber[a].root = "live"
    /\ fiber[a].human \in {"none", "child"}
    /\ \E r \in {"failed", "cancelled"}, w \in {"none", "ready"} :
          fiber' = [fiber EXCEPT ![a].root = r, ![a].work = w]
------------------------------------------------------------------------------
PumpStep ==
    \/ PumpBegin \/ PumpDisposed \/ PumpInspect
    \/ \E t \in TurnIds : Decide(t)
    \/ PumpSealed \/ PumpSettle \/ PumpSettled

Next ==
    \/ \E t \in TurnIds : \/ Admit(t) \/ CancelTurn(t) \/ SubmitAnswer(t) \/ ResumeTurn(t)
                          \/ DeliveryFinished(t) \/ DeliveryRejected(t) \/ Expire(t)
                          \/ Decide(t) \/ ShutdownCancel(t)
    \/ \E a \in Actors : \/ AnswerLocally(a) \/ FiberStartsOp(a) \/ FiberOpReturns(a)
                         \/ FiberSettles(a) \/ FiberAsks(a) \/ FiberEnds(a)
    \/ PumpBegin \/ PumpDisposed \/ PumpInspect \/ PumpSealed \/ PumpSettle \/ PumpSettled
    \/ PumpFails \/ Shutdown \/ ShutdownDone \/ Dispose

Spec == Init /\ [][Next]_vars

\* The pump is driven by timers and by the awaits it starts; a delivery callback
\* returns, an operation of a fiber returns, a submitted answer is announced.
\* The fairness of these is strong because each stretch of uninterrupted code
\* disables them for its duration; that of ShutdownDone because it waits for its
\* turn in the pump's first-come lane.  The last conjunct is an assumption about
\* the agents: one that keeps getting the chance to stop, with no question open,
\* does stop.
Fairness ==
    /\ WF_vars(PumpStep)
    /\ SF_vars(ShutdownDone)
    /\ SF_vars(\E t \in TurnIds : DeliveryFinished(t) \/ DeliveryRejected(t))
    /\ SF_vars(\E t \in TurnIds : ResumeTurn(t))
    /\ WF_vars(\E t \in TurnIds : ShutdownCancel(t))
    /\ \A a \in Actors : /\ SF_vars(FiberOpReturns(a))
                         /\ SF_vars(FiberSettles(a) /\ fiber[a].human = "none")

\* People answer, and no agent asks for ever.
HumanFairness ==
    /\ SF_vars(\E t \in TurnIds : SubmitAnswer(t))
    /\ \A a \in Actors : <>[][~ FiberAsks(a)]_vars

FairSpec == Spec /\ Fairness
------------------------------------------------------------------------------
(* Properties.                                                             *)

\* The types, and the shape of a slice: a turn is in delivery or delivered, and
\* the loop and the batch of a slice exist only while the slice does.
TypeOK ==
    /\ turn \in [TurnIds -> TurnEntry]
    /\ active \in [Actors -> TurnIds \cup {NoTurn}]
    /\ queue \in [Actors -> Seq(TurnIds)]
    /\ completed \in SUBSET TurnIds /\ batch \in SUBSET TurnIds /\ todo \in SUBSET TurnIds
    /\ execution \in [Actors -> Execution]
    /\ fiber \in [Actors -> Fiber] /\ seen \in [Actors -> Fiber]
    /\ pump \in PumpStates
    /\ answering \in SUBSET TurnIds
    /\ stopping \in SUBSET TurnIds /\ awaited \in SUBSET TurnIds
    /\ closing \in {"open", "closing", "closed", "disposed"}
    /\ \A t \in TurnIds : turn[t].preparing => ~ turn[t].delivered
    /\ todo # {} => pump \in {"deciding", "sealing"}
    /\ batch # {} => pump = "settling"
    /\ stopping \subseteq awaited

\* The pump is never off while there is something for it to do: no request,
\* delivery or slice leaves a running turn, a startable queue or an unsettled
\* promise behind without schedulePump, whatever slice was ending meanwhile.
NoSilentStall == pump = "off" /\ ~ Disposed => ~ SomethingToPump

QueuedAt(t, i) == i \in 1..Len(queue[ActorOf[t]]) /\ queue[ActorOf[t]][i] = t

\* A turn whose promise is pending is where something will settle it: in its
\* actor's queue, active, or among the finished turns a slice settles.  A turn
\* is queued exactly once, and an active turn is one of that actor, not finished.
NoLostTurn ==
    /\ ~ Disposed => \A t \in TurnIds :
          turn[t].state # "absent" /\ turn[t].promise = "pending" =>
              \/ turn[t].state = "queued" /\ \E i \in 1..Len(queue[ActorOf[t]]) : QueuedAt(t, i)
              \/ active[ActorOf[t]] = t
              \/ t \in completed \cup batch
    /\ \A a \in Actors :
          /\ active[a] # NoTurn =>
                ActorOf[active[a]] = a /\ turn[active[a]].state \in {"running", "waiting_input"}
          /\ \A i, j \in 1..Len(queue[a]) :
                /\ turn[queue[a][i]].state = "queued"
                /\ queue[a][i] = queue[a][j] => i = j

\* The signals that interrupt or answer an active turn are not dropped: its
\* actor's execution is not left interrupted by an earlier turn.
ActiveTurnIsReachable ==
    \A a \in Actors : active[a] # NoTurn => execution[a].status \in {"active", "settled"}

\* A host's turn is reported as succeeded only when its actor's fibers have
\* nothing left to do and wait for no human.
SucceededMeansSettled ==
    [][\A t \in TurnIds \ Compatibility :
          turn[t].state # "succeeded" /\ turn'[t].state = "succeeded" =>
              fiber[ActorOf[t]].work = "none" /\ fiber[ActorOf[t]].human = "none"]_vars

\* When the pump rests, a turn that waits for input has a fiber that waits for
\* it: an answer given at any point of the slice resumes the turn.
NoForgottenAnswer ==
    pump = "off" /\ ~ Disposed =>
        \A t \in TurnIds : turn[t].state = "waiting_input" /\ t \notin answering =>
            fiber[ActorOf[t]].human # "none"

\* A finished turn stays as it finished.
TerminalIsFinal ==
    [][\A t \in TurnIds : turn[t].state \in Terminal => turn'[t].state = turn[t].state]_vars

\* A turn that was asked to stop, by its user, its deadline or a shutdown, is
\* settled in the end, whether or not anyone answers its questions.  A request
\* is never taken back, a settled promise stays settled and the turns are few,
\* so this says of each turn that its request leads to its settlement.
CancelSettles ==
    []<>(\A t \in TurnIds : turn[t].cancelRequested => turn[t].promise # "pending" \/ Disposed)

\* When people answer and the agents stop asking, every turn is settled in the
\* end (for each turn, as above).
EveryTurnSettles ==
    HumanFairness =>
        []<>(\A t \in TurnIds : turn[t].state # "absent" => turn[t].promise # "pending" \/ Disposed)

\* A shutdown comes to its end.
ShutdownCompletes == closing = "closing" ~> closing \in {"closed", "disposed"}
==============================================================================
