# eidolon-anchor: a TLA+ model of the agent runtime

eidolon-anchor runs AI agents as *actors* whose work is cut into cooperative
*fibers*. A session hosts the actors, feeds them user input as *interactive
turns*, calls providers and tools as *effects* whose lifecycle is journalled, and
saves checkpoints from which a crashed session can be recovered. This directory
models the parts of that runtime whose correctness depends on ordering: which
steps of which actors may fall between two awaits, which files are on disk when
the process stops, what is still queued when a loop ends.

All paths below are relative to `src/cell/packages/` unless they start with `src/`.

## 1. Inventory

| Component | State | Operations | Interacts with |
|---|---|---|---|
| Control engine (`ai-runtime-control-logic/src/engineCapsule`, `-support`, `-composer`) | four command deques, effect records, durable heads, cohorts, recovery class; head files and commit files | enqueue, runUntilIdle (select, step, classify) | effect handlers and durable-head ports, awaited inside a step |
| Turn coordinator (`ai-organ-logic/src/runtime/AiAgentRuntimeCoordinator.ts`) | turn entries with promises, active turn and queue per actor, completed set, pump and shutdown flags, execution record of each actor | admit, cancel, resume, pump slice, settle, shutdown, dispose | host commands, delivery callbacks, the fiber driver, persistence |
| Fiber driver (`ai-organ-logic/src/orchestratorCapsule/internals/driverRuntime.ts`, `decisions.ts`) | fiber records (ready, running, suspended with a reason, terminal), pending resumes, child-completion bindings, messages to the orchestrator actor | spawn, tick of a lane, resume, revive, fiber result, mailbox scan of a slice | coordinator, executor, mailboxes |
| Executor (`ai-organ-logic/src/exec/AiAgentExecutor.ts`) | cooperative phase of each fiber, operation in flight | one step per phase: drain, start and end of provider, tool and parser calls, consumption of mail | driver, effect evidence, questionnaires |
| Durable control signals (`ai-core-logic/src/runtime/DurableControlSignals.ts`) | pending signals, consumed tombstones, consumed checkpoint | emit, consume, prune, redeliver | driver, snapshots |
| Checkpoint and recovery (`ai-runtime-control-composer`, `ai-file-store-logic`, `ai-organ-logic/src/persistence`) | effect journal with its head file, snapshot files, commit file, upgrade file | save, append evidence, recovery gate, session upgrade | engine, executor, file system |
| Deployment runtime store (`ai-organ-logic/src/organization/HolonDeploymentRuntimeStore.ts`) | lock file, head, records, trees, receipts, prepared and committed transactions | open, load, commit, each with the takeover of a stale lock and the recovery of interrupted transactions | processes that share the directory |
| Task pump (`ai-organ-logic/src/organization/HolonTaskSpacePump.ts`, `HolonTaskRuntimeProcessor.ts`, `HolonTaskPumpJournal.ts`, the task manager's processors) | the task's status, attempt, claim and lease; command receipts; the journal's intents, results and locks | expire, renew, claim, start, dispatch, settle, fail, cancel | pumps in several processes, the effect adapter |
| Heartbeats, coordination engine, thread goals, hooks, workflow runtime | see `PROJECT.json` | | |
| Front ends, permissions, questionnaires, provider adapters | strings, I/O and views | | |

What makes the modelled parts hard: JavaScript interleaves them at every
`await`, so a value read before an await may be stale after it; a run of the
engine works on a copy while callers go on enqueueing; a pump decides to stop
while work arrives; a checkpoint is several file writes with a possible crash
between any two; several processes share directories with lock files, leases and
compare-and-swap. `PROJECT.json` lists these hazards at their lines, each with the
properties that would notice it going wrong.

What each component must guarantee:

* engine: a committable cohort and an open request always have the command queued
  that serves them; nothing is shown as clean that is not; commits never name
  heads that were not written;
* coordinator: every admitted turn is settled once and stays settled, no answer,
  cancellation or wake-up of the pump is lost, shutdown ends;
* checkpoint: what a completed save leaves is recoverable, evidence is read back in
  the order in which it was recorded;
* driver, executor and signals: no completion, child report or mail is lost because of
  what its fiber was doing when it came; the driver comes to rest;
* deployment store: commits are atomic and, once acknowledged, permanent;
* task pump: a task is settled once, by the attempt that owns it, and eventually.

## 2. Plan

In the order of importance for the runtime; what is done is marked.

1. `ControlEngine` (done, proved): the command loop every durable step goes through.
2. `InteractiveTurns` (done, with liveness; every safety property proved, three of them for
   sessions with one actor). To do: waits of child fibers.
3. `SessionCheckpoint` (done, every safety property proved, and the conditions under which
   the two that the code violates hold): saving and recovering with crashes. To do: an
   abstract specification of a crash-safe store ("the last completed save, or a refusal")
   and the refinement, under the condition of `QuietSpec`; two concurrent saves.
4. `FiberDriver` (done, with liveness; safety proved): orchestrator and stepper. To do:
   interrupts and cancellation, the pruning of consumed signals; the refinement of the
   fibers of 2 by it.
5. `HolonDeploymentStore` and `AtomicRevisionStore` (done; safety and refinement proved
   while no two workers take over one stale lock at once).
6. `HolonTaskPump` (done, with liveness; safety proved, and which failures can reach the
   attempt of another). To do: several tasks, the Waiting status.
7. The safepoint classification as an operator over fiber phases and mailboxes, used
   by 3 and 4.
8. The heartbeat scheduler, the coordination engine, thread goals, hooks, workflow
   runtime, rotation of the observation journals.

Composition: `HolonDeploymentStore` instantiates `AtomicRevisionStore`; 4 details the
fibers of 2; 3 takes its commit step from 1 (`CommitByPort` is one run of the engine over
the checkpoint cohort).

## 3. The modules

### ControlEngine

`engine` is the state `getState` shows, `run` the copy a `runUntilIdle` in flight
works on, `budget` what is left of `maxSteps`, `headFile` and `commitFile` what
the ports have written. `EnqueueCommand` is the holder's `enqueue`; `StartRun`
copies the state; `RunStep` is one iteration of the loop (select and dequeue, the
step of the command's kind with everything it enqueues, the writes of the port);
`RunIdle`, `RunExhausted` and `RunThrow` end the run. A throwing port discards the
copy and keeps the files. Callers await one run at a time (composer, lines 423, 462,
578), hence `StartRun` asks for no run in flight. Payloads, ids and the text of
results are dropped; a handler is known or removed.

### InteractiveTurns

One variable per map of the coordinator (`turn`, `active`, `queue`, `completed`), the
pump with the snapshot it reads once per slice (`pump`, `seen`, `todo`, `batch`), the
execution record of each actor, and the fibers as the coordinator sees them: status
of the root, whether there is work, which kind of human wait. A slice is cut at
its awaits; between two awaits nobody else moves. `op` is read live, the records come
from `seen`, as in `readScope`. Iteration over `activeByActor` and `queuedByActor` is
in any order. A resume message to a fiber is applied at once. Ids are never reused,
so forgetting retained terminal turns is left out, and so are listeners. `Dispose`
follows a shutdown, as in `SessionRuntimeAssembly`.

### SessionCheckpoint

| Variable | In the code |
|---|---|
| `mem` | the live fibers (their operations) and the control-signal store (its last version) |
| `behind`, `appending` | the write-behind queue; the append between its record and its head file |
| `journal`, `head` | `runtime-control/effects.xnl` and its journal head |
| `fibers`, `vm`, `stamp` | actor and fiber files; `vm.json` with the manifest; `updatedAt` of the conversation index |
| `commit`, `upgrade` | commit file of the checkpoint cohort, marker in the upgrade file |
| `save`, `toClose` | the save (or upgrade command) in flight, and the operations it still has to close |
| `saved`, `lost` | history: no `vm.json` newer than the last completed save; operations whose evidence was dropped |

Every await of `saveAiAgentRuntimeSnapshot` and
`runFileStoreAiRuntimeConcreteCheckpoint` is an action boundary: `SaveBegin`,
`ReadSuperseded`, `CloseSuperseded`, `Serialise`, `CheckPending` or `SkipPending`,
`RequestCheckpoint`, `FlushConversation`, `WriteFibers`, `WriteVm`, `RecordResult`,
`ReadHeads`, `CommitByPort`, `CommitWithSequence`, `WriteUpgrade`; `SaveFails`
is the catch block, `AppendFails` an append that throws before there is one. A missing
journal head is derived and written by whoever asks for it first (`KeepHead`), before the
first record is. An append that fails leaves no record; a record without its head is left
by a crash only. Operations go on at all of them: saves
are also made outside the coordinator's queue (`persistSnapshot`,
`checkpointWithoutExecution`) and `cancelActorTurn` ticks the driver itself.
`Recover` is the gate and the repair of what the snapshot has in flight,
`ApplyUpgrade` to `WriteUpgrade` the upgrade command.

What the journal says of an effect is `Replay`, the fold of `AfterEvent` over the records,
as `rebuildEffectsFromLifecycleEvidence` goes through them. It is a recursive function over
positions, and the part of the journal up to a sequence (`Through`) keeps each record at its
position: the parts that a proof compares then differ only in which positions they have.

Abstractions: `waiting` evidence counts as a request (both are pending); the heads of
the checkpoint cohort are the control-signal version and the conversation stamp (the
schema version is constant, and `vm.json` holds no mailboxes); `vm.json`,
questionnaires and manifest are one write; all operations are provider or tool calls;
after a recovery an operation the image does not know may start again under
its id, after a fresh start it may not; snapshots migrated from older versions and
contained v4 checkpoints are left out; there is one save at a time.

### FiberDriver

| Variable | In the code |
|---|---|
| `status` | the fiber's record; a suspended fiber's status is its wait reason |
| `phase`, `op`, `spawned` | the stepper's phase, its operation under way, what the running tool has spawned |
| `mail` | kinds of unread wake mail, and the marker of an open questionnaire |
| `result`, `resumes`, `pendingResumes` | `fiber_result` and `resume_fiber` on their way to the orchestrator actor; its `pendingResumes` |
| `signals` | idempotency keys of the childDone signals |

A signal changes mailbox and record at once, from wherever it is sent; results,
resumes and ticks are messages handed out in the order of `ORCH_MAILBOX_PRIORITY`
(`NoResults`). One `Step...` action per outcome of a phase of `aiAgentCooperativeStep`;
`OpCompletes` is the completion of an operation, `SpawnFiber` and `Ask` what a
running tool does. `MailboxScan` is what a slice does when it has no fiber to dispatch.
A fiber in `Limited` has a model with an input limit and may have to compress its history
before the model is called, an operation of its own with its own wait; for the others that
phase is part of the next. The model's answer may ask for several tool calls, one after
the other; one that asks for none goes on as after a tool's result. `StepIdles` are the two
turns that end without a word to the parent: the provider's input was rejected locally, or
`maxIterations` is reached.
Which ready fiber a tick takes (priority, age) is any of them. The policy of a
questionnaire is `pause_all`; hosts with `effects.questionnaires` ask with
`continue_others`. Interrupts (`settleInterruptedFiber`), `tickUntilBlocked` and the
window in which a finished delegate is a tombstone are left out, and so is an answer to a
questionnaire that is gone (`AiAgentExecutor.ts` 6965-6979, which drops it and yields).

Four observations that contradict no promise: a human wait of a background
delegate pauses its interactive root as well; a synchronous delegate
that ends its turn as in `StepIdles` leaves its parent waiting until somebody writes to the
delegate; mail that arrives during a provider call
makes slices step the waiting fiber over and over until their tick limit; a completed fiber with unread mail
keeps `tickUntil...Settled` from settling, and that wait counts no ticks, so callers that
pass `maxTicks` and no wall budget (`SessionRuntimeAssembly.ts:1412`, `DelegateActor.ts:290`,
`AddressedExecutionActivation.ts:34`) wait until the mail is gone.

### HolonDeploymentStore and AtomicRevisionStore

Each worker is a process in a call of `open`, `load` or `commit`; `pc` names the next file
operation. The lock file is known by its maker and by whether its owner record has been
written. A head stands for its whole chain of snapshots (every tree names its
predecessor's digest), records, trees and receipts are content-addressed. `Fault` is an
operation that throws, `Crash` a process that dies, anywhere. Most writes that throw late, when
the directory is synced, cannot be told from a throw of the next one; the last of a commit and
the removal of the lock have actions of their own (`CommitUnsynced`, `UnlockUnsynced`), since
an error is then returned with the effect in place. A request names the revision that its
caller expects, any of them; `Admits` refuses all but the current one.

`AtomicRevisionStore` is what a caller may rely on: a history that only grows, and
operations that take effect at one point, or for failed ones perhaps not at all.
`Register` maps the detailed state to it: a commit takes effect when its transaction is
prepared, not when the head is replaced, because whoever comes next rolls it
forward; the history is the head, or the next head of the open transaction. A process
that dies between creating the lock file and writing its owner leaves an empty lock that
every later call refuses (`GiveUp`); the refinement allows that, since calls may fail.

### HolonTaskPump

One task and several pumps. The TaskSpace's revision is abstracted to `current`: whether
a pump's last reading is still the head, which is what `loadExpected` compares.
An attempt names its claim, its intent and its lock; `ids` is the attempt the pump derived
its command ids from, which decides what is a replay. The heartbeat beside an
execution is `Beat`; `Tick` ages the lease (young, old, lapsed). A pump's clock may lag:
where the code compares with its own clock, a lapsed lease may be missed. The reading and
the claim in `coordinateHolonTaskAssignment` are one step: a race lost between them ends
the iteration as one lost before does. Root control, the Waiting status and further tasks
(except as `OtherCommit`) are left out.

A pump that starts an attempt follows, with its heartbeat, the claim that the start's
snapshot shows, which after a replayed start may be a later one's (`tended`). Between looking
for an earlier start and issuing its own, another pump may have issued the same
(`raced`). A lease that somebody keeps (`Kept`) runs out only when its keeper is
held up, `MaxMissed` times; one that nobody keeps always does. With `MaxLapses` at least two
above `MaxFaults` the bound on lapses stops no lease that nobody keeps: TLC would show the
stop as a violation of `EventuallySettled`.

Two states are dead ends (`DeadEnd`): a start that was first issued on another revision than
the claim's and whose issuer is gone, so that every replay of it is refused
(`StartRefused`), and a journal lock whose maker died or failed before it wrote its name
(`LockOrphaned`). The pumps keep the claim alive and cannot end it; only a cancellation
does. `Converges`, which the documents promise, is violated by them;
`EventuallySettled` says that there are no others: a task is settled, or from some
point on it is in a dead end.

## 4. The runs

| Run | Instance | Shows |
|---|---|---|
| `engine` | 1 effect, a known and a removed handler key, 2 heads, cohorts {h1,h2} and {h2}, `Budgets` {1, 9}, 3 commands queued from outside | `TypeOK`, `NoStrandedCohort`, `NoDanglingRequest`, `CleanMeansClean`, `WriteAhead`, `IdleIsSettled` |
| `turns` | 1 actor, a host turn with a deadline and a `runInteractiveTurn`; 2 outstanding, 1 queued | `TypeOK`, `NoSilentStall`, `NoLostTurn`, `ActiveTurnIsReachable`, `NoForgottenAnswer`, `SucceededMeansSettled`, `TerminalIsFinal`, and `CancelSettles`, `EveryTurnSettles`, `ShutdownCompletes` under fairness |
| `turns_stale_answer` | 2 actors | violates `NoForgottenAnswer` (finding) |
| `checkpoint` | 1 operation, 2 saves, 2 events | `TypeOK`, `PendingIsUnanswered`, `SavedIsRecoverable`, `PrefixStable`, `SkipOnlyForLive` |
| `checkpoint_saved` | the same | violates `EverySaveIsRecoverable` (finding) |
| `checkpoint_torn` | the same | violates `AdmittedIsWhole` (finding) |
| `deployment` | 2 workers, 1 fact, revisions 0 and 1, 2 faults or deaths | `TypeOK`, `LockExclusive`, `Recoverable`, `AnswersKept`, `Refinement` |
| `deployment_race` | 3 workers, 1 fault | violates `AnswersKept` (finding) |
| `holon_pump` | 2 pumps, 3 lapsed leases, one of them with a keeper, 1 fault | `TypeOK`, `SettledByOwner`, `TerminalStays`, `LiveLeaseKept`, and `EventuallySettled` under fairness |
| `holon_pump_dead_end` | 2 pumps, no lapsed lease, 1 fault | violates `Converges` (finding) |
| `holon_pump_late_failure` | 2 pumps, 1 lapsed lease | violates `FailedByOwner` (finding) |
| `fibers` | an interactive main fiber whose model has an input limit, a synchronous and a detached delegate; 2 inputs, 2 tool calls, 1 questionnaire; an answer that is not accepted counts as an input | `TypeOK`, `CompletionKept`, `NoAbandonedParent`, and `MailIsRead`, `ComesToRest` under fairness |

Why the bounds suffice for the cases in mind. Engine: two cohorts that share a head
are the smallest instance in which one commit consumes what another waits for; a
budget of 1 cuts a run after every step; three queued commands give a result before
its request, duplicates, and a buffered head behind a blocked commit. Turns: two turns
of one actor give queueing, the handover of the actor and a stale execution record;
two actors are needed only for the stale inspection. Checkpoint: the first save makes
the state in which the second is interrupted; `MaxEvents` = 2 allows a crash during a
recovery or an upgrade, a crash with a control signal or a sealed conversation, and a
failed append or save with any of them. Deployment: two faults give a crash inside a
commit and a second one inside the recovery of it; with two workers a stale lock has
one taker (theorem `TwoWorkersSuffice`), so the condition of `TakeoverSpec` holds by itself, and
the race of two takers needs the third worker of `deployment_race`. Its `LockExclusive` sees no
contended takeover, therefore; that one is the subject of `deployment_race` and of the theorem
`LockIsExclusive`. Pump: a lapsed lease that has a keeper makes a second attempt
beside a first that is still running, the fault kills or interrupts one of them or
lets another task's commit in between, and the other lapses are those of what is then left
without a keeper. With 4 lapses and 2 faults all properties hold as well (1,123,166 states). Fibers: three fibers are the least with a parent, a child that is
awaited and one that is not, on both lanes. Deadlock is checked for the engine; a
coordinator with all turns settled, a session the gate refuses, a store whose workers died,
a settled task and idle fibers rest (`CHECK_DEADLOCK FALSE`).

Fairness (`FairSpec` of `InteractiveTurns`): timers fire and awaits return, so the
pump's steps are weakly fair; deliveries, operations of agents and the announcement
of a submitted answer return; a fiber that waits for nobody eventually settles; a
shutdown in progress goes on. Some are strong because the uninterrupted
stretches of a slice disable everybody else for a moment. `EveryTurnSettles` further assumes
(`HumanFairness`, inside the property) that people answer and agents stop asking.

`Fairness` of `FiberDriver`: messages are handled, steps end, operations answer or time out,
and slices of both lanes follow one another ("A slow preamble must not consume the
whole quantum before a ready fiber is dispatched", `driverRuntime.ts`); all weak. People
owe nothing: what a human wait holds is excepted in the properties.

`Fairness` of `HolonTaskPump`: a live pump goes on and is woken again (the probe every 100 ms,
`HolonTaskRuntimeRoutes.ts:277`; a failed wake is rescheduled), and time passes. Two strong
conditions say that no pump is overtaken for ever: heartbeats, the commits it can lose
to, are a third of a lease apart, and a pump that renewed looks again at once. Processes may
die, but one pump is left, as a host restarts its own.

Every property of a passing run has a mutant: an operator next to the definition
it replaces (marked "A mutant"), a plausible slip with which TLC finds the property violated.

### Findings

* `turns_stale_answer`: `pumpSlice` reads the fibers once and goes on using the reading
  after an await; with two actors an answer is overwritten.
* `checkpoint_saved`: an operation that starts between the safepoint and the
  serialisation is saved in flight while its request is not yet durable. After a
  crash, recovery records it as failed; without a request that is an orphan, which the
  next save commits without looking and the gate then refuses for ever. Every such trace
  has a start in that window or a lost append (theorem `QuietSavesAreRecoverable`), so a
  second look at the safepoint when the runtime is serialised would do.
* `checkpoint_torn`: a crash between the fiber files and `vm.json` is admitted as clean. A
  crash or a failed save there is the only way to it (`AdmittedIsWholeUnlessTorn`).
* `deployment_race`: `acquireLock` compares the stale lock with its claim, then unlinks by
  name. Of two processes taking over at once the second removes the first's new lock;
  both commit on the same head and an acknowledged revision disappears.
* `holon_pump_late_failure`: after a member failed, the pump fails whatever claim is live,
  also that of the attempt that has replaced its own. These are the only failures that go
  astray (theorem `FailureOfReplacedAttempt`); the comparison that the pump makes before
  it settles would prevent them.
* `holon_pump_dead_end`: a crash can stop a task for good, against "Crashes and concurrent
  pumps converge on one claim, one accepted effect/result and one terminal settlement."
  (`track.xnl:28` of the pump's track) and "Fresh service instances must converge on one
  accepted adapter effect and one TaskSpace settlement." (its `design.md:53`). A pump that dies
  or fails between creating the journal's lock and writing its owner leaves an empty file, on
  which every other pump's `JSON.parse` throws. A start issued on a later revision than the
  claim's is refused to all other pumps as `command-receipt-mismatch`, which is no
  `recoverableRace`. In both states each woken pump first renews the lease, so that
  the claim never expires.

Two observations contradict no promise and have no run. A duplicate of an unrequested
result turns its orphaned record into a completed one while the class of the session stays
orphaned. The stale reading of `turns_stale_answer` has two more
effects with two actors. A turn whose delivery ends during the other's seal is reported as
succeeded before its input ran. And a turn that a cancel found settled, and finished as
succeeded, during that await is published as `waiting_input` again (line 716; a deadline
publishes `running`, line 729), since `publishTurn` does not look at the state it replaces. Its
promise is settled, but it counts as outstanding for good: no slice visits it.

## 5. What is proved

### The engine

`ControlEngineProofs` proves, with TLAPS, for every set of effects, handler keys, heads
and cohorts, every assignment of heads to cohorts, every budget and queue bound:

| Theorem | States |
|---|---|
| `TypeCorrect` | `Spec => []TypeOK` |
| `NoCohortIsStranded` | `Spec => []NoStrandedCohort` |
| `NoRequestDangles` | `Spec => []NoDanglingRequest` |
| `CleanIsClean` | `Spec => []CleanMeansClean` |
| `CommitsAreWrittenAhead` | `Spec => []WriteAhead` |
| `IdleRunsAreSettled` | `Spec => IdleIsSettled` |

The only assumption is `EngineAssumption` (handlers are among the keys, sequences and
bounds are naturals, every cohort has heads, there are finitely many cohorts).

The argument. `StateInv(s)` collects what a single state of the engine satisfies: its
type, that committable cohorts and open requests have their commands queued, and that
a clean class is honest. It is not preserved by the steps inside one iteration: between
taking a command off its deque and acting on it, the command may be the one that
served a cohort or a request. `TakenInv(s, cmd)` is what holds there: served by the
queues or by `cmd`. One lemma per kind of command leads from `TakenInv` back to
`StateInv`. The files need more: a run may be dropped after its ports wrote, so
`OnDisk` ties both the visible state and the copy to the files, and files only grow.
`IInv` is `StateInv` and `OnDisk` of both states with `FilesOK`, and that a visible
clean state has no open request, which holds for the visible state only: a run's copy
is reclassified at its end. `Inductive` proves it, and each theorem
follows from it; `IdleRunsAreSettled` also uses what the selector's refusal says about
each deque.

### The coordinator

`InteractiveTurnsProofs`, for every set of actors and turns, every assignment of turns to actors,
all limits, deadlines and kinds of human waits:

| Theorem | States |
|---|---|
| `TypeCorrect` | `Spec => []TypeOK` |
| `PumpNeverStalls` | `Spec => []NoSilentStall` |
| `SignalsReachTheTurn` | `Spec => []ActiveTurnIsReachable` |
| `NoTurnIsLost` | `Spec => []NoLostTurn` |
| `FinishedStaysFinished` | with one actor, `Spec => TerminalIsFinal` |
| `SuccessIsSettled` | with one actor, `Spec => SucceededMeansSettled` |
| `NoAnswerIsForgotten` | with one actor and no waits of child fibers, `Spec => []NoForgottenAnswer` |

`TurnsAssumption` says that `NoTurn` is no turn, that there are finitely many turns, each with
an actor, and that the kinds of waits and the limits are what they are called.

The argument. Where a turn is (`Places`) is stated per actor and per turn: the active one
belongs to the actor, is not finished and has an execution record that is its own or that
local turns pass on; a queue holds each of its turns once, and they are queued; a pending
promise is queued, active or completed. Many requests, callbacks and decisions touch one
turn; each is shown to be a `PatchedTurn` (an entry is
rewritten, nothing moves) or a `FinishedTurn` (`finishTurn`), and the conjuncts are proved for
these two; `finishTurn` on an entry that is terminal already moves nothing, which is what
makes cancel, delivery and slice safe in any order. `NoSilentStall` needs `Places`: whoever
makes work for the pump schedules it, and what only looks like work is no active turn.

With several actors three properties are false: the loop awaits the seal of one turn and
goes on with the old `inspected`. For a single actor `SoloInv` says that nothing is left to
examine after a seal, that what is examined is active and read as it is, and that what runs
is active; so no slice meets a finished turn. `AskInv` adds what an answer needs: a turn in
delivery waits for nobody, shutdown awaits every unfinished turn, and a root cannot end with
its own question open. A child's question can be closed with its root (`InterruptOrphans`),
which leaves the turn waiting: hence the second hypothesis, and the hazard at line 699.

TLC checked `IInv` with two actors (10,004,513 states) and `SoloInv` and `AskInv` with one
(379,448), on instances with deadlines, a local turn, and waits of all kinds, before the proof.

### The fiber driver

`FiberDriverProofs`, for every set of fibers, every choice of parents, lanes and interactive
roots, and all bounds: `TypeCorrect` (`TypeOK`), `NoCompletionIsLost` (`CompletionKept`) and
`NoParentIsAbandoned` (`NoAbandonedParent`), all of `Spec`.

A completion races the result of the step that suspends its fiber, so `CompletionKept` alone
is not inductive. `OperationOK` says where an operation is (under way, or answered in the
mailbox, exactly in the phases that wait for one), `ResultOK` what a result on its way says
about its fiber (a completion that came after the step is in `pendingResumes`; the end of a
child was signalled before its result was sent), `ChildOK` that from the spawn of a
synchronous child until its parent is resumed the report is in the mailbox or some child
still owes it. The last is needed because the parent's wait begins some steps after the
spawn, and the child may have ended by then.

### The deployment store

`HolonDeploymentStoreProofs`, for every set of workers and facts, all revisions and any number
of faults and deaths:

| Theorem | States |
|---|---|
| `TypeCorrect` | `Spec => []TypeOK` |
| `LockIsExclusive` | `TakeoverSpec => []LockExclusive` |
| `AlwaysRecoverable` | `TakeoverSpec => []Recoverable` |
| `AnswersAreKept` | `TakeoverSpec => []AnswersKept` |
| `StoreImplementsRegister` | `TakeoverSpec => Refinement` |
| `TwoWorkersSuffice` | with at most two workers, `Spec => TakeoverSpec` |

`deployment_race` shows that with three workers the lock does not exclude. `TakeoverSpec` is
`Spec` without that one race: no two workers are between the comparison of a stale lock and
its unlink (`OneTaker`). The theorems say that nothing else is wrong: with it, however many
workers there are and wherever they die, the store is an atomic register. For two workers
the condition is a theorem. The constants' assumption says that `None` is no worker and no lock.

The invariant has four parts. `TypeInv`: whoever publishes or rolls forward has a prepared
transaction in hand. `LockInv`: whoever is under the lock made it, and whoever is about to
remove one sees the lock of a dead worker. `FilesInv`: at most one transaction is open, the
head is what it expects or what it makes, its materials are there, and what was committed
is in the head's history. `WorkerInv`, per program counter: what a recovery in progress still
has to look at includes the open transaction, nothing is open between the end of a recovery
and the prepared file, and an answer is part of the head. `WorkerInv` speaks of the worker
under the lock, so each of its steps first uses that no other is there. The refinement goes
step by step: preparing is the register's commit, the return of an operation its answer,
a fault its failure, everything else a stutter. Before the proof TLC checked the
invariant with two workers and two faults, and with three workers and one.

### The task pump

`HolonTaskPumpProofs`, for every set of pumps and all bounds: `TypeCorrect` (`TypeOK`),
`SuccessIsOwned` (`SettledByOwner`), `TerminalIsFinal` (`TerminalStays`) and `LiveLeaseIsKept`
(`LiveLeaseKept`), all of `Spec`, assuming that `None` is no pump and no claim.

A pump acts on what it read earlier. `ReadingOK` says what that is worth: while nothing was
committed since, the claim it saw is the one its command meets; if something was, the
revision is refused. `ExecutionOK` follows an execution: the effect was accepted before the
result was journalled, and the result is there before the task is settled. `AttemptsPaid`
(attempts are paid for with lapsed leases) gives the type of the attempt counter, and
`SuccessRecorded` remembers of a success what `SettledByOwner` asks for.

`FailureOfReplacedAttempt` bounds what `holon_pump_late_failure` shows, for the code as it is: a
recorded failure is that of the attempt it ends or of one that this has replaced, with a
lapsed lease for each attempt in between, so while no lease has lapsed `FailedByOwner` holds.
`FailureInv` adds to the invariant that no pump works on an attempt ahead of the task's
(`NoneAhead`) and what a recorded failure keeps of that (`FailureRecorded`).

### The checkpoint

`EvidenceReplayProofs`, `SessionCheckpointProofs` and `CheckpointConditions`, for every set
of operations and all bounds on saves and events:

| Theorem | States |
|---|---|
| `CheckpointTypes` | `Spec => []TypeOK` |
| `PendingUnanswered` | `Spec => []PendingIsUnanswered` |
| `SavedRecoverable` | `Spec => []SavedIsRecoverable` |
| `CommittedPrefixStable` | `Spec => PrefixStable` |
| `SkipsOnlyForLive` | `Spec => SkipOnlyForLive` |
| `QuietSavesAreRecoverable` | `QuietSpec => []EverySaveIsRecoverable` |
| `AdmittedIsWholeUnlessTorn` | `WholeSpec => []AdmittedIsWhole` |

The assumptions are that the bounds are naturals (`CheckpointAssumption`) and that `None` is
no sequence, marker or commit (`NoneAssumption`). `QuietSpec` and `WholeSpec` are `Spec` with
fewer steps: no operation starts between the safepoint of a save and its serialisation; no
crash and no failure comes between the fiber files and `vm.json`.

Replay. What a recursive function computes needs induction, and the library's induction
theorems take a predicate, which the provers cannot instantiate. So `SetInduction` is stated
for a set of naturals, and proved from the least element of a set, which the
well-foundedness of `<` gives (`WFMin`, a theorem about sets). With it the equation inside
`Replay` has a solution (`FoldExists`) and only one (`FoldUnique`), hence `Replay` obeys it
(`ReplayStep`); parts of a journal that agree on an effect replay alike (`ReplayAgrees`).
`ReplayPending` says when an effect is left pending, `ReplayNotOrphaned` when it is no orphan.

The invariant. `PrefixStable` needs that a new record goes above every sequence a commit
names. That is not obvious, for the head file may be one record behind after a crash, and
the next record is then given the sequence of the last: `SequenceInv` says that records
reach at most one above `LastSequence`, that an append in flight never takes it back, and that
saves and commits are at or below it. `CommitInv` follows a save through its commit: the
heads it read are those of the files, the evidence it covers has nothing pending, and both
stay so, the first because only a save writes `vm.json` and the conversation only moves on,
the second because committed evidence is stable; once `saved`, the same of the commit on
disk. `PhaseInv` says which phase of the process meets which step of a save, so that no
recovery or upgrade works beside one. `SkipOnlyForLive` needs `QueueInv` (a
queued request is followed by the end of its operation, unless that runs) and `ClosingInv` (from
the moment superseded operations are read, every other pending one is unsettled): an
operation may become pending after the reading only by a queued request, and what ends it is
then behind it in the queue. Before the proof TLC
checked each part on the run's instance.

The conditions. `OrderInv` says that without a lost append every end, in the journal and in
the queue, comes after a request of its effect; then no part of the journal has an orphan,
and the gate has nothing left to refuse. It rests on `RequestInv`, that whatever a save, a
recovery or an upgrade is to close has its request in the journal. For recoveries that
is `QuietInv`: no image has an operation in flight. This is the point at which the code fails,
where a recovery closes an operation whose request was never appended. `WholeInv`
follows the two writes.

### Model-checked only

Every invariant and action property of the passing runs has a theorem. Liveness under
fairness (`CancelSettles`, `EveryTurnSettles`, `ShutdownCompletes`, `MailIsRead`,
`ComesToRest`, `EventuallySettled`) is out of TLAPS's reach and stays with TLC, and so do the
counterexamples of the findings. For the findings about safety a theorem says under which
condition the property does hold, or what of it remains; `Converges` is a liveness
property, and what remains of it is `EventuallySettled`.

## 6. What is not modelled

`PROJECT.json` lists every component with its reason. Not modelled for good: user
interfaces, provider adapters and prompt assembly (I/O and text), permission patterns and
questionnaire parsing (strings), file formats. The repository has some two hundred thousand
lines, most of them these; the model covers the runtime core whose correctness depends
on order, and the share of all lines it stands for is a few percent.

Not modelled yet: the plan's open items, two concurrent saves, migrated snapshots, the
conversation domains beyond their stamp, workflow runtime and authoring, coordination engine,
heartbeats, goals and hooks. Known and not covered by a property: a delivery callback that
never settles, deadlines of turns that wait for input, heads of observation
journals, a failed delegate that is revived and reports a second time under
another key. In `InteractiveTurns` the passing runs let only the root fiber wait for a
human; with waits of child fibers `NoForgottenAnswer` fails in the model, which is
listed as a hazard and is why its theorem excludes them.
