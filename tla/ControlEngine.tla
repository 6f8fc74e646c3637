---------------------------- MODULE ControlEngine ----------------------------
(***************************************************************************)
(* The runtime-control engine: a command loop over four deques that turns  *)
(* effect requests into dispatches, buffers durable heads and commits a    *)
(* cohort of heads once all of them are buffered.                          *)
(*                                                                         *)
(*   ai-runtime-control-logic/src/engineCapsule/coreLogic.ts   the steps   *)
(*   ai-runtime-control-support/src/index.ts                   the ports   *)
(*   ai-runtime-control-composer/src/index.ts                  the holder  *)
(*                                                                         *)
(* The holder keeps one visible state (`engine').  A run works on a copy   *)
(* of it (`run') across the awaits of the ports and assigns the copy back  *)
(* when the loop ends; a port that throws discards the copy, but not what  *)
(* the ports already wrote to disk.                                        *)
(***************************************************************************)
EXTENDS Integers, Sequences, FiniteSets

CONSTANTS
    Effects,      \* effect ids
    HandlerKeys,  \* handler keys named by effect requests
    Handlers,     \* the keys the effect port has a handler for
    Heads,        \* durable head ids
    Cohorts,      \* cohort ids
    HeadsOf,      \* the headIds of a cohort
    HeadSequences,\* the sequences a head may be buffered at
    Budgets,      \* the values of maxSteps
    MaxQueued     \* bound: no command is enqueued from outside beyond this many

ASSUME EngineAssumption ==
    /\ Handlers \subseteq HandlerKeys
    /\ HeadSequences \subseteq Nat
    /\ Budgets \subseteq Nat
    /\ MaxQueued \in Nat
    /\ HeadsOf \in [Cohorts -> SUBSET Heads]
    /\ \A c \in Cohorts : HeadsOf[c] # {}
    /\ IsFiniteSet(Cohorts)

VARIABLES
    engine,       \* the state the holder shows (getState)
    run,          \* the copy a run in flight works on
    budget,       \* steps the run may still take; Idle when no run is in flight
    headFile,     \* per head, the sequences its file has held
    commitFile    \* per cohort, the marker in its commit file

vars == <<engine, run, budget, headFile, commitFile>>
------------------------------------------------------------------------------
NotBuffered == -1
NotCovered == -1
Marker == [Heads -> Nat \cup {NotCovered}]
NoMarker == [h \in Heads |-> NotCovered]
Idle == -1

\* COMMAND_DEQUES: the deques with their priorities, lowest served first.
Deques == {"effectResult", "safepoint", "commit", "normal"}
Priority == [effectResult |-> 5, safepoint |-> 15, commit |-> 20, normal |-> 50]

EffectRequest(e, k) == [kind |-> "effect_request", effectId |-> e, handlerKey |-> k]
EffectResult(e) == [kind |-> "effect_result", effectId |-> e]
DurableHeadBuffer(h, n) == [kind |-> "durable_head_buffer", headId |-> h, sequence |-> n]
SafepointEvaluate(c) == [kind |-> "safepoint_evaluate", cohortId |-> c]
CohortCommit(c) == [kind |-> "cohort_commit", cohortId |-> c]

EffectRequests == {EffectRequest(e, k) : e \in Effects, k \in HandlerKeys}
EffectResults == {EffectResult(e) : e \in Effects}
HeadBuffers == {DurableHeadBuffer(h, n) : h \in Heads, n \in HeadSequences}
SafepointEvaluates == {SafepointEvaluate(c) : c \in Cohorts}
CohortCommits == {CohortCommit(c) : c \in Cohorts}
Commands ==
    EffectRequests \cup EffectResults \cup HeadBuffers \cup SafepointEvaluates \cup CohortCommits

\* A mutant: commits are queued with the rest.
CommandQueueForCommitsInNormal(cmd) ==
    CASE cmd.kind = "effect_result"      -> "effectResult"
      [] cmd.kind = "safepoint_evaluate" -> "safepoint"
      [] OTHER                           -> "normal"

\* commandQueueFor.
CommandQueueFor(cmd) ==
    CASE cmd.kind = "effect_result"      -> "effectResult"
      [] cmd.kind = "safepoint_evaluate" -> "safepoint"
      [] cmd.kind = "cohort_commit"      -> "commit"
      [] OTHER                           -> "normal"

\* The commands each deque can hold, by CommandQueueFor.
CommandsOf == [effectResult |-> EffectResults, safepoint |-> SafepointEvaluates,
               commit |-> CohortCommits, normal |-> EffectRequests \cup HeadBuffers]

EffectStatus == {"none", "requested", "dirty", "orphaned", "completed"}
EffectRecord == [status : EffectStatus, requestSeen : BOOLEAN, resultSeen : BOOLEAN]
HeadState == [committed : Nat, buffered : Nat \cup {NotBuffered}]
CohortState == [status : {"open", "dirty", "committed"}, marker : Marker]
RecoveryClass == {"clean", "pending", "orphaned", "dirty"}

\* createAiRuntimeControlState, with the cohorts a caller hands in.
CreateState(dirtyCohorts) ==
    [q |-> [d \in Deques |-> <<>>],
     effects |-> [e \in Effects |->
        [status |-> "none", requestSeen |-> FALSE, resultSeen |-> FALSE]],
     heads |-> [h \in Heads |-> [committed |-> 0, buffered |-> NotBuffered]],
     cohorts |-> [c \in Cohorts |->
        [status |-> IF c \in dirtyCohorts THEN "dirty" ELSE "open", marker |-> NoMarker]],
     class |-> "clean"]
------------------------------------------------------------------------------
(* Selection.                                                              *)

CanCommitCohort(s, c) ==
    /\ s.cohorts[c].status # "dirty"
    /\ \A h \in HeadsOf[c] : s.heads[h].buffered # NotBuffered

\* The deques the selector may take from: a commit waits at the front of its
\* deque until its cohort can commit, whatever stands behind it.
Selectable(s) ==
    {d \in Deques : /\ s.q[d] # <<>>
                    /\ d = "commit" => CanCommitCohort(s, Head(s.q[d]).cohortId)}

Selected(s) == CHOOSE d \in Selectable(s) : \A o \in Selectable(s) : Priority[d] <= Priority[o]

Dequeue(s, d) == [s EXCEPT !.q = [s.q EXCEPT ![d] = Tail(s.q[d])]]

Enqueue(s, cmd) ==
    LET d == CommandQueueFor(cmd)
    IN  [s EXCEPT !.q = [s.q EXCEPT ![d] = Append(s.q[d], cmd)]]

Queued(s, cmd) == \E d \in Deques : \E i \in 1..Len(s.q[d]) : s.q[d][i] = cmd
------------------------------------------------------------------------------
(* The effect of one command on the copy a run works on, as the set of     *)
(* states it can lead to.                                                  *)

WithEffect(s, e, r) == [s EXCEPT !.effects = [s.effects EXCEPT ![e] = r]]
WithClass(s, class) == [s EXCEPT !.class = class]

\* The record a request leaves, over whatever was there.
RequestRecord(k) ==
    [status |-> IF k \in Handlers THEN "requested" ELSE "dirty",
     requestSeen |-> TRUE, resultSeen |-> FALSE]

\* A mutant: the result of the dispatch is not queued.
StepEffectRequestDropsResult(s, e, k) ==
    LET s1 == WithEffect(s, e, RequestRecord(k))
    IN  {IF k \in Handlers THEN s1 ELSE WithClass(s1, "dirty")}

\* effect_request: an unknown handler makes the session dirty, a known one is
\* dispatched and its result queued.
StepEffectRequest(s, e, k) ==
    LET s1 == WithEffect(s, e, RequestRecord(k))
    IN  {IF k \in Handlers THEN Enqueue(s1, EffectResult(e)) ELSE WithClass(s1, "dirty")}

\* The record after a result: one that nothing asked for is an orphan; any later
\* result for the same effect completes it unless it is dirty.
ResultRecord(old) ==
    [status |-> CASE old.status = "none"               -> "orphaned"
                  [] old.status = "dirty"              -> "dirty"
                  [] old.status \notin {"none", "dirty"} -> "completed",
     requestSeen |-> old.requestSeen,
     resultSeen |-> TRUE]

\* A mutant: an orphan is recorded, the session's class is left to the end of the run.
StepEffectResultKeepsClass(s, e) ==
    {WithEffect(s, e, ResultRecord(s.effects[e]))}

\* effect_result.
StepEffectResult(s, e) ==
    LET s1 == WithEffect(s, e, ResultRecord(s.effects[e]))
    IN  {IF s.effects[e].status = "none" THEN WithClass(s1, "orphaned") ELSE s1}

\* A mutant: the queued commit of any cohort is taken for this one's.
CohortsToEvaluateOnce(s, h) ==
    {c \in Cohorts : /\ h \in HeadsOf[c]
                     /\ ~ Queued(s, SafepointEvaluate(c))
                     /\ s.q["commit"] = <<>>}

\* The cohorts a buffered head schedules a safepoint evaluation for.
CohortsToEvaluate(s, h) ==
    {c \in Cohorts : /\ h \in HeadsOf[c]
                     /\ ~ Queued(s, SafepointEvaluate(c))
                     /\ ~ Queued(s, CohortCommit(c))}

\* The sequences that list a set once; the code uses the order in which the
\* cohorts were handed to the engine.
Listings(D) == {w \in [1..Cardinality(D) -> D] : \A c \in D : \E i \in 1..Cardinality(D) : w[i] = c}

WithEvaluations(s, evaluations) ==
    [s EXCEPT !.q = [s.q EXCEPT !["safepoint"] = s.q["safepoint"] \o evaluations]]

\* enqueueSafepointEvaluationForHead.
EnqueueSafepointEvaluations(s, h) ==
    LET D == CohortsToEvaluate(s, h)
    IN  {WithEvaluations(s, [i \in 1..Cardinality(D) |-> SafepointEvaluate(w[i])]) : w \in Listings(D)}

WithBuffered(s, h, n) ==
    [s EXCEPT !.heads = [s.heads EXCEPT ![h] = [committed |-> s.heads[h].committed, buffered |-> n]]]

\* durable_head_buffer, after the port wrote the head's file.
StepHeadBuffer(s, h, n) == EnqueueSafepointEvaluations(WithBuffered(s, h, n), h)

\* A mutant: a cohort is committed once.
StepSafepointEvaluateOnce(s, c) ==
    {IF /\ CanCommitCohort(s, c) /\ ~ Queued(s, CohortCommit(c))
        /\ s.cohorts[c].status = "open"
     THEN Enqueue(s, CohortCommit(c)) ELSE s}

\* safepoint_evaluate: enqueueCohortCommitIfAbsent for a cohort that can commit.
StepSafepointEvaluate(s, c) ==
    {IF CanCommitCohort(s, c) /\ ~ Queued(s, CohortCommit(c))
     THEN Enqueue(s, CohortCommit(c)) ELSE s}

\* The sequences the commit port writes: buffered where there is one.
MarkerOf(s, c) ==
    [h \in Heads |-> CASE h \notin HeadsOf[c]                  -> NotCovered
                        [] h \in HeadsOf[c]
                           /\ s.heads[h].buffered # NotBuffered -> s.heads[h].buffered
                        [] h \in HeadsOf[c]
                           /\ s.heads[h].buffered = NotBuffered -> s.heads[h].committed]

\* The cohort's heads move from buffered to committed.
WithCommitted(s, c) ==
    [s EXCEPT
        !.heads = [h \in Heads |->
            IF h \in HeadsOf[c]
            THEN [committed |-> MarkerOf(s, c)[h], buffered |-> NotBuffered]
            ELSE s.heads[h]],
        !.cohorts = [s.cohorts EXCEPT ![c] =
            [status |-> "committed", marker |-> MarkerOf(s, c)]]]

\* cohort_commit, after the port wrote the cohort's commit file.
StepCohortCommit(s, c) ==
    {IF CanCommitCohort(s, c) THEN WithCommitted(s, c) ELSE s}

Step(s, cmd) ==
    CASE cmd.kind = "effect_request"      -> StepEffectRequest(s, cmd.effectId, cmd.handlerKey)
      [] cmd.kind = "effect_result"       -> StepEffectResult(s, cmd.effectId)
      [] cmd.kind = "durable_head_buffer" -> StepHeadBuffer(s, cmd.headId, cmd.sequence)
      [] cmd.kind = "safepoint_evaluate"  -> StepSafepointEvaluate(s, cmd.cohortId)
      [] cmd.kind = "cohort_commit"       -> StepCohortCommit(s, cmd.cohortId)

\* A mutant: the head file is written only when the cohort commits.
WritesOfPortsAtCommit(s, cmd) ==
    /\ UNCHANGED headFile
    /\ commitFile' = IF cmd.kind = "cohort_commit" /\ CanCommitCohort(s, cmd.cohortId)
                     THEN [commitFile EXCEPT ![cmd.cohortId] = MarkerOf(s, cmd.cohortId)]
                     ELSE commitFile

\* What the ports write while a command is processed.
WritesOfPorts(s, cmd) ==
    /\ headFile' = IF cmd.kind = "durable_head_buffer"
                   THEN [headFile EXCEPT ![cmd.headId] = @ \cup {cmd.sequence}]
                   ELSE headFile
    /\ commitFile' = IF cmd.kind = "cohort_commit" /\ CanCommitCohort(s, cmd.cohortId)
                     THEN [commitFile EXCEPT ![cmd.cohortId] = MarkerOf(s, cmd.cohortId)]
                     ELSE commitFile

\* classifyAiRuntimeControlRecovery; the engine never records "failed".
Classify(s) ==
    LET has(st) == \E e \in Effects : s.effects[e].status = st
    IN  IF has("dirty") \/ \E c \in Cohorts : s.cohorts[c].status = "dirty" THEN "dirty"
        ELSE IF has("orphaned") THEN "orphaned"
        ELSE IF has("requested") THEN "pending"
        ELSE s.class
------------------------------------------------------------------------------
(* The holder.                                                             *)

Running == budget # Idle

Init ==
    /\ \E D \in SUBSET Cohorts : engine = CreateState(D)
    /\ run = engine
    /\ budget = Idle
    /\ headFile = [h \in Heads |-> {}]
    /\ commitFile = [c \in Cohorts |-> NoMarker]

QueuedCount(s) ==
    Len(s.q["effectResult"]) + Len(s.q["safepoint"]) + Len(s.q["commit"]) + Len(s.q["normal"])

\* enqueue: on the visible state, even while a run is in flight.
EnqueueCommand(cmd) ==
    /\ QueuedCount(engine) < MaxQueued
    /\ engine' = Enqueue(engine, cmd)
    /\ UNCHANGED <<run, budget, headFile, commitFile>>

\* runUntilIdle up to its first step: the run takes its copy.
StartRun(n) ==
    /\ ~ Running
    /\ run' = engine
    /\ budget' = n
    /\ UNCHANGED <<engine, headFile, commitFile>>

\* runOneAiRuntimeControlStep, all of its port calls successful.
RunStep ==
    /\ Running
    /\ budget > 0
    /\ Selectable(run) # {}
    /\ LET d == Selected(run)
           cmd == Head(run.q[d])
           s == Dequeue(run, d)
       IN  /\ run' \in Step(s, cmd)
           /\ WritesOfPorts(s, cmd)
    /\ budget' = budget - 1
    /\ UNCHANGED engine

\* The same step with a port call that throws: the copy is dropped and the
\* visible state stays as it was.  A file write either happened or did not.
RunThrow ==
    /\ Running
    /\ budget > 0
    /\ Selectable(run) # {}
    /\ LET d == Selected(run)
           cmd == Head(run.q[d])
           s == Dequeue(run, d)
       IN  /\ \/ cmd.kind = "effect_request" /\ cmd.handlerKey \in Handlers
              \/ cmd.kind = "durable_head_buffer"
              \/ cmd.kind = "cohort_commit" /\ CanCommitCohort(s, cmd.cohortId)
           /\ \/ WritesOfPorts(s, cmd)
              \/ UNCHANGED <<headFile, commitFile>>
    /\ budget' = Idle
    /\ run' = engine
    /\ UNCHANGED engine

\* The loop ends: the copy, reclassified, becomes the visible state.  What was
\* enqueued on the visible state meanwhile is overwritten.
FinishRun ==
    /\ engine' = WithClass(run, Classify(run))
    /\ run' = engine'
    /\ budget' = Idle
    /\ UNCHANGED <<headFile, commitFile>>

\* ... because no command can be selected.
RunIdle ==
    /\ Running
    /\ budget > 0
    /\ Selectable(run) = {}
    /\ FinishRun

\* ... because maxSteps are used up.
RunExhausted ==
    /\ budget = 0
    /\ FinishRun

Next ==
    \/ \E cmd \in Commands : EnqueueCommand(cmd)
    \/ \E n \in Budgets : StartRun(n)
    \/ RunStep
    \/ RunThrow
    \/ RunIdle
    \/ RunExhausted

Spec == Init /\ [][Next]_vars
------------------------------------------------------------------------------
(* Properties.                                                             *)

EngineState ==
    [q : [Deques -> Seq(Commands)], effects : [Effects -> EffectRecord],
     heads : [Heads -> HeadState], cohorts : [Cohorts -> CohortState],
     class : RecoveryClass]

StateOK(s) ==
    /\ s \in EngineState
    /\ \A d \in Deques : s.q[d] \in Seq(CommandsOf[d])

\* The visible state and a run's copy are states of the engine, with every
\* command in the deque commandQueueFor names for it.
TypeOK ==
    /\ StateOK(engine)
    /\ StateOK(run)
    /\ budget \in Nat \cup {Idle}
    /\ headFile \in [Heads -> SUBSET Nat]
    /\ commitFile \in [Cohorts -> Marker]

CohortsServed(s) ==
    \A c \in Cohorts :
        CanCommitCohort(s, c) => Queued(s, SafepointEvaluate(c)) \/ Queued(s, CohortCommit(c))

RequestsServed(s) ==
    \A e \in Effects : s.effects[e].status = "requested" => Queued(s, EffectResult(e))

\* A cohort whose heads are all buffered always has a command queued that will
\* commit it: the deduplication in enqueueSafepointEvaluationForHead and
\* enqueueCohortCommitIfAbsent never drops the last one.
NoStrandedCohort == CohortsServed(engine) /\ CohortsServed(run)

\* An effect recorded as requested has its result queued: runOne awaits the
\* dispatch, so no state, of a finished run or of one cut short by maxSteps or
\* by a port that threw, waits for a result that is not coming.
NoDanglingRequest == RequestsServed(engine) /\ RequestsServed(run)

\* A state the engine shows as clean holds no effect that is dirty, orphaned or
\* unanswered, nor one that was completed without ever being requested.
CleanMeansClean ==
    engine.class = "clean" =>
        \A e \in Effects :
            /\ engine.effects[e].status \in {"none", "completed"}
            /\ engine.effects[e].status = "completed" => engine.effects[e].requestSeen

\* A commit file names only sequences that were written to their head's file
\* first, whatever runs were dropped in between by a port that threw, and a
\* cohort shown as committed has a commit file.
WriteAhead ==
    \A c \in Cohorts :
        /\ commitFile[c] # NoMarker => \A h \in HeadsOf[c] :
               commitFile[c][h] \in headFile[h]
        /\ engine.cohorts[c].status = "committed" => commitFile[c] # NoMarker

\* A run that stops because nothing can be selected leaves no effect waiting,
\* and leaves a cohort fully buffered but uncommitted only when the front of the
\* commit deque is the commit of another cohort, one that cannot commit yet.
IdleIsSettled ==
    [][RunIdle =>
        /\ \A e \in Effects : engine'.effects[e].status # "requested"
        /\ \A c \in Cohorts : CanCommitCohort(engine', c) =>
               /\ engine'.q["commit"] # <<>>
               /\ ~ CanCommitCohort(engine', Head(engine'.q["commit"]).cohortId)]_vars
==============================================================================
