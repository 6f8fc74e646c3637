-------------------------- MODULE SessionCheckpoint --------------------------
(***************************************************************************)
(* Saving and recovering a session.  A save closes abandoned effects,      *)
(* serialises the runtime, notes how far the effect journal reaches,       *)
(* writes the snapshot files and commits them with a commit file and an    *)
(* upgrade file; recovery admits a session only when these agree.          *)
(*                                                                         *)
(*   ai-organ-logic/src/persistence/RuntimeSnapshots.ts     save, recover  *)
(*   ai-runtime-control-composer/src/index.ts      checkpoint and upgrade  *)
(*   ai-runtime-control-logic/src/recoveryScanner.ts        classification *)
(*   ai-file-store-logic/src/index.ts              journal and its head    *)
(*                                                                         *)
(* Operations of the agents go on at every await of a save, and their      *)
(* evidence is written behind.  The process may stop between any two       *)
(* writes; each file is replaced atomically.                               *)
(***************************************************************************)
EXTENDS Integers, Sequences, FiniteSets

CONSTANTS
    None,         \* no value
    Ops,          \* provider and tool operations, the effects of the agents
    MaxSaves,     \* bound: saves that reach the checkpoint writer
    MaxEvents     \* bound: control signals, writes of the conversation index and faults
                  \* (crashes, failed saves, failed appends), together

ASSUME CheckpointAssumption ==
    /\ MaxSaves \in Nat
    /\ MaxEvents \in Nat

VARIABLES
    proc,       \* "up", "down", "recovering", "upgrading"
    mem,        \* the live runtime: the operations, the last control signal
    behind,     \* evidence the write-behind port has not yet appended
    journal,    \* runtime-control/effects.xnl
    head,       \* the journal's head file: its lastSequence, or None
    appending,  \* an append whose record is written and whose head is not
    fibers,     \* runtime_state: the actor and fiber files
    vm,         \* runtime_state/vm.json and the manifest, or None
    stamp,      \* updatedAt of the conversation index
    commit,     \* the commit file of the checkpoint cohort, or None
    upgrade,    \* the checkpoint marker in upgrade.json, or None
    save,       \* the save, or the session upgrade, in flight
    toClose,    \* operations that a save or a recovery still has to record as failed
    saved,      \* history: vm.json is that of the last completed save
    lost,       \* history: operations with evidence that write-behind failed to append
    saves,      \* saves that reached the writer; also names checkpoint effects
    faults

session == <<fibers, vm, stamp, commit, upgrade>>
history == <<saved, lost>>
vars == <<proc, mem, behind, journal, head, appending, session, save, toClose, history, saves, faults>>
------------------------------------------------------------------------------
Checkpoints == 1..MaxSaves
Effects == Ops \cup Checkpoints
OpState == {"new", "running", "ended"}
Runtime == [ops : [Ops -> OpState], version : 0..MaxEvents]
NewRuntime == [ops |-> [o \in Ops |-> "new"], version |-> 0]

Event(kind, e) == [kind |-> kind, effect |-> e]
Events == {Event(k, e) : k \in {"request", "result", "failed"}, e \in Effects}
Record(n, ev) == [sequence |-> n, event |-> ev]

\* The marker string lists the sequences of the cohort's heads.
Marker == [version : Nat, stamp : Nat]
Commit == [marker : Marker, sequence : Nat \cup {None}]

\* None is neither a sequence nor a record.
ASSUME NoneAssumption == None \notin Int /\ None \notin Marker /\ None \notin Commit

Idle == [pc |-> "idle", image |-> NewRuntime, sequence |-> 0, heads |-> None]
------------------------------------------------------------------------------
(* The effect journal.                                                     *)

\* A mutant: the sequence of the last record is used again.
NextSequenceReused(base) == base

NextSequence(base) == base + 1

\* readRuntimeControlEffectEvidenceSequence: the head file where there is one,
\* else the last record of the journal; the head that was missing is then written.
LastSequence ==
    CASE head # None                    -> head
      [] head = None /\ journal = <<>>  -> 0
      [] head = None /\ journal # <<>>  -> journal[Len(journal)].sequence
KeepHead == head' = LastSequence

\* appendRuntimeControlEffectEvidence, one at a time per file: first the record, ...
AppendRecord(ev, by) ==
    /\ appending = None
    /\ journal' = Append(journal, Record(NextSequence(LastSequence), ev))
    /\ appending' = [by |-> by, sequence |-> NextSequence(LastSequence)]
    /\ KeepHead

\* ... then the head.
AppendHead ==
    /\ appending # None
    /\ head' = appending.sequence
    /\ appending' = None
    /\ UNCHANGED <<proc, mem, behind, journal, session, save, toClose, history, saves, faults>>

Awaiting(by) == appending # None /\ appending.by = by

\* The records up to sequence n, each at its position in the journal.
Through(n) == [i \in {i \in 1..Len(journal) : journal[i].sequence <= n} |-> journal[i]]

Unseen == [status |-> "none", requestSeen |-> FALSE, resultSeen |-> FALSE]

\* A mutant: a request opens an effect again that already has its result.
AfterEventReopened(r, kind) ==
    CASE kind = "request" ->
           [r EXCEPT !.requestSeen = TRUE, !.status = "requested"]
      [] kind = "result" ->
           [r EXCEPT !.resultSeen = TRUE, !.status = IF r.requestSeen THEN "completed" ELSE "orphaned"]
      [] kind = "failed" ->
           [r EXCEPT !.status = IF r.requestSeen THEN "failed" ELSE "orphaned"]

\* One event of rebuildEffectsFromLifecycleEvidence.
AfterEvent(r, kind) ==
    CASE kind = "request" ->
           [r EXCEPT !.requestSeen = TRUE, !.status = IF r.resultSeen THEN @ ELSE "requested"]
      [] kind = "result" ->
           [r EXCEPT !.resultSeen = TRUE, !.status = IF r.requestSeen THEN "completed" ELSE "orphaned"]
      [] kind = "failed" ->
           [r EXCEPT !.status = IF r.requestSeen THEN "failed" ELSE "orphaned"]

\* The fold of AfterEvent over the events of effect e at the positions 1..n.
Replay(records, e, n) ==
    LET rec[i \in 0..n] ==
            IF i = 0 THEN Unseen
            ELSE IF i \in DOMAIN records /\ records[i].event.effect = e
                 THEN AfterEvent(rec[i - 1], records[i].event.kind)
                 ELSE rec[i - 1]
    IN  rec[n]

\* What a part of the journal says of effect e.
Rebuilt(records, e) == Replay(records, e, Len(journal))

PendingIn(records, E) == {e \in E : Rebuilt(records, e).status = "requested"}
OrphanedIn(records) == {e \in Effects : Rebuilt(records, e).status = "orphaned"}

\* inferRuntimeControlCheckpointEffectEvidenceSequence: the last checkpoint result;
\* 0 without evidence, None when no checkpoint has a result.
Inferred ==
    LET results == {i \in 1..Len(journal) :
                        journal[i].event.kind = "result" /\ journal[i].event.effect \in Checkpoints}
    IN  CASE journal = <<>>                   -> 0
          [] journal # <<>> /\ results = {}   -> None
          [] journal # <<>> /\ results # {}   ->
                journal[CHOOSE i \in results : \A j \in results : j <= i].sequence

\* The evidence a commit covers.
Prefix(c) ==
    LET n == IF c.sequence # None THEN c.sequence ELSE Inferred
    IN  IF n # None THEN Through(n) ELSE <<>>
------------------------------------------------------------------------------
(* Classification of the files.                                            *)

MarkerNow == [version |-> vm, stamp |-> stamp]

\* A mutant: the conversation's head, too, has to be the committed one.
HeadsMatchExactly(m) == vm = m.version /\ stamp = m.stamp

\* The heads agree with the marker; the conversation's may have moved on.
HeadsMatch(m) == vm = m.version /\ stamp >= m.stamp

\* classifyRealSessionRecovery for a commit.
ClassOf(c) ==
    IF ~ HeadsMatch(c.marker) THEN "dirty"
    ELSE IF OrphanedIn(Prefix(c)) # {} THEN "orphaned"
    ELSE IF PendingIn(Prefix(c), Effects) # {} THEN "pending"
    ELSE "clean"

\* The operations in flight in the snapshot.
InflightOnDisk == {o \in Ops : fibers.ops[o] = "running"}

\* readRuntimeControlRecoveryGate and assertPendingEffectsBelongToRecoveredInflight.
GateAdmits ==
    /\ upgrade # None
    /\ commit # None
    /\ upgrade = commit.marker
    /\ ClassOf(commit) \in {"clean", "pending"}
    /\ PendingIn(Prefix(commit), Ops) \subseteq InflightOnDisk
------------------------------------------------------------------------------
Init ==
    /\ proc = "up"
    /\ mem = NewRuntime
    /\ behind = <<>>
    /\ journal = <<>>
    /\ head = None
    /\ appending = None
    /\ fibers = NewRuntime
    /\ vm = None
    /\ stamp = 0
    /\ commit = None
    /\ upgrade = None
    /\ save = Idle
    /\ toClose = {}
    /\ saved = FALSE
    /\ lost = {}
    /\ saves = 0
    /\ faults = 0
------------------------------------------------------------------------------
(* The agents.                                                             *)

EventsSoFar == mem.version + stamp + faults

Fault == EventsSoFar < MaxEvents /\ faults' = faults + 1

OpStart(o) ==
    /\ proc = "up"
    /\ mem.ops[o] = "new"
    /\ mem' = [mem EXCEPT !.ops[o] = "running"]
    /\ behind' = Append(behind, Event("request", o))
    /\ UNCHANGED <<proc, journal, head, appending, session, save, toClose, history, saves, faults>>

OpEnd(o) ==
    /\ proc = "up"
    /\ mem.ops[o] = "running"
    /\ mem' = [mem EXCEPT !.ops[o] = "ended"]
    /\ \E kind \in {"result", "failed"} : behind' = Append(behind, Event(kind, o))
    /\ UNCHANGED <<proc, journal, head, appending, session, save, toClose, history, saves, faults>>

\* A control signal is emitted.
Signal ==
    /\ proc = "up"
    /\ EventsSoFar < MaxEvents
    /\ mem' = [mem EXCEPT !.version = @ + 1]
    /\ UNCHANGED <<proc, behind, journal, head, appending, session, save, toClose, history, saves, faults>>

\* The write-behind port appends the next piece of evidence, ...
WriteBehind ==
    /\ behind # <<>>
    /\ ~ Awaiting("agents")
    /\ AppendRecord(Head(behind), "agents")
    /\ behind' = Tail(behind)
    /\ UNCHANGED <<proc, mem, session, save, toClose, history, saves, faults>>

\* ... or loses it: a failed append is reported and not repeated.
WriteBehindFails ==
    /\ behind # <<>>
    /\ ~ Awaiting("agents")
    /\ behind' = Tail(behind)
    /\ lost' = lost \cup {Head(behind).effect}
    /\ Fault
    /\ UNCHANGED <<proc, mem, journal, head, appending, session, save, toClose, saved, saves>>

\* The completed progress of a turn is sealed outside a save.
SealProgress ==
    /\ proc = "up"
    /\ save.pc = "idle"
    /\ EventsSoFar < MaxEvents
    /\ stamp' = stamp + 1
    /\ UNCHANGED <<proc, mem, behind, journal, head, appending, fibers, vm, commit, upgrade, save,
                   toClose, history, saves, faults>>
------------------------------------------------------------------------------
(* saveAiAgentRuntimeSnapshot.                                             *)

Saving(pc) == proc = "up" /\ save.pc = pc /\ ~ Awaiting("save")

\* The safepoint: no operation is in flight.
SaveBegin ==
    /\ Saving("idle")
    /\ saves < MaxSaves
    /\ \A o \in Ops : mem.ops[o] # "running"
    /\ save' = [save EXCEPT !.pc = "reading"]
    /\ UNCHANGED <<proc, mem, behind, journal, head, appending, session, toClose, history, saves, faults>>

\* A mutant: operations of an earlier life of the process are left open.
SupersededNone == {}

\* closeSupersededRuntimeControlPendingEffects: what the journal has pending and
\* no fiber has in flight.
Superseded == {o \in PendingIn(journal, Ops) : mem.ops[o] # "running"}

ReadSuperseded ==
    /\ Saving("reading")
    /\ toClose' = Superseded
    /\ save' = [save EXCEPT !.pc = "closing"]
    /\ UNCHANGED <<proc, mem, behind, journal, head, appending, session, history, saves, faults>>

Close(o) ==
    /\ o \in toClose
    /\ AppendRecord(Event("failed", o), "save")
    /\ toClose' = toClose \ {o}
    /\ UNCHANGED <<proc, mem, behind, session, save, history, saves, faults>>

CloseSuperseded(o) == Saving("closing") /\ Close(o)

\* The runtime is serialised, without another look at the safepoint.
Serialise ==
    /\ Saving("closing")
    /\ toClose = {}
    /\ save' = [save EXCEPT !.pc = "checking", !.image = mem]
    /\ UNCHANGED <<proc, mem, behind, journal, head, appending, session, toClose, history, saves, faults>>

\* runFileStoreAiRuntimeConcreteCheckpoint: the journal's sequence is read and the
\* evidence up to it must have no operation pending, ...
CheckPending ==
    /\ Saving("checking")
    /\ PendingIn(Through(LastSequence), Ops) = {}
    /\ save' = [save EXCEPT !.pc = "requesting", !.sequence = LastSequence]
    /\ KeepHead
    /\ UNCHANGED <<proc, mem, behind, journal, appending, session, toClose, history, saves, faults>>

\* ... or the save is skipped.
SkipPending ==
    /\ Saving("checking")
    /\ PendingIn(Through(LastSequence), Ops) # {}
    /\ save' = Idle
    /\ KeepHead
    /\ UNCHANGED <<proc, mem, behind, journal, appending, session, toClose, history, saves, faults>>

RequestCheckpoint ==
    /\ Saving("requesting")
    /\ AppendRecord(Event("request", saves + 1), "save")
    /\ saves' = saves + 1
    /\ save' = [save EXCEPT !.pc = "flushing"]
    /\ UNCHANGED <<proc, mem, behind, session, toClose, history, faults>>

\* The writer: the conversation, ...
FlushConversation ==
    /\ Saving("flushing")
    /\ \/ UNCHANGED stamp
       \/ EventsSoFar < MaxEvents /\ stamp' = stamp + 1
    /\ save' = [save EXCEPT !.pc = "fibers"]
    /\ UNCHANGED <<proc, mem, behind, journal, head, appending, fibers, vm, commit, upgrade,
                   toClose, history, saves, faults>>

\* ... the actor and fiber files, ...
WriteFibers ==
    /\ Saving("fibers")
    /\ fibers' = save.image
    /\ save' = [save EXCEPT !.pc = "vm"]
    /\ UNCHANGED <<proc, mem, behind, journal, head, appending, vm, stamp, commit, upgrade,
                   toClose, history, saves, faults>>

\* ... vm.json and the manifest.
WriteVm ==
    /\ Saving("vm")
    /\ vm' = save.image.version
    /\ saved' = FALSE
    /\ save' = [save EXCEPT !.pc = "written"]
    /\ UNCHANGED <<proc, mem, behind, journal, head, appending, fibers, stamp, commit, upgrade,
                   toClose, lost, saves, faults>>

RecordResult ==
    /\ Saving("written")
    /\ AppendRecord(Event("result", saves), "save")
    /\ save' = [save EXCEPT !.pc = "heads"]
    /\ UNCHANGED <<proc, mem, behind, session, toClose, history, saves, faults>>

\* The prefix is checked again, the heads are read back from the files.
ReadHeads ==
    /\ Saving("heads")
    /\ PendingIn(Through(save.sequence), Ops) = {}
    /\ save' = [save EXCEPT !.pc = "committing", !.heads = MarkerNow]
    /\ UNCHANGED <<proc, mem, behind, journal, head, appending, session, toClose, history, saves, faults>>

Committing(pc) == proc \in {"up", "upgrading"} /\ save.pc = pc /\ ~ Awaiting("save")

\* The engine's commit port writes the commit file, without a sequence, ...
CommitByPort ==
    /\ Committing("committing")
    /\ commit' = [marker |-> save.heads, sequence |-> None]
    /\ \/ proc = "up" /\ save' = [save EXCEPT !.pc = "recommitting"] /\ UNCHANGED head
       \/ /\ proc = "upgrading"
          /\ save' = [save EXCEPT !.pc = "recommitting", !.sequence = LastSequence]
          /\ KeepHead
    /\ UNCHANGED <<proc, mem, behind, journal, appending, fibers, vm, stamp, upgrade,
                   toClose, history, saves, faults>>

\* ... the composer again, with the sequence, ...
CommitWithSequence ==
    /\ Committing("recommitting")
    /\ commit' = [marker |-> save.heads, sequence |-> save.sequence]
    /\ save' = [save EXCEPT !.pc = "marking"]
    /\ UNCHANGED <<proc, mem, behind, journal, head, appending, fibers, vm, stamp, upgrade,
                   toClose, history, saves, faults>>

\* ... and the upgrade file.
WriteUpgrade ==
    /\ Committing("marking")
    /\ upgrade' = save.heads
    /\ save' = Idle
    /\ saved' = (saved \/ proc = "up")
    /\ proc' = IF proc = "upgrading" THEN "down" ELSE proc
    /\ UNCHANGED <<mem, behind, journal, head, appending, fibers, vm, stamp, commit,
                   toClose, lost, saves, faults>>

\* An append before the checkpoint's request is recorded fails: the save is over.
AppendFails ==
    /\ (Saving("closing") /\ toClose # {}) \/ Saving("requesting")
    /\ appending = None
    /\ save' = Idle
    /\ toClose' = {}
    /\ Fault
    /\ UNCHANGED <<proc, mem, behind, journal, head, appending, session, history, saves>>

\* A step of the checkpoint throws: the attempt is recorded as failed, if that
\* append succeeds, and the runtime goes on with the files as they are.
SaveFails ==
    /\ proc = "up"
    /\ save.pc \in {"flushing", "fibers", "vm", "written", "heads", "committing", "recommitting", "marking"}
    /\ ~ Awaiting("save")
    /\ save' = Idle
    /\ \/ AppendRecord(Event("failed", saves), "save")
       \/ UNCHANGED <<journal, head, appending>>
    /\ Fault
    /\ UNCHANGED <<proc, mem, behind, session, toClose, history, saves>>
------------------------------------------------------------------------------
(* Crash, recovery and the upgrade command.                                *)

\* The process stops, wherever it is.
Crash ==
    /\ proc # "down"
    /\ proc' = "down"
    /\ mem' = NewRuntime
    /\ behind' = <<>>
    /\ appending' = None
    /\ save' = Idle
    /\ toClose' = {}
    /\ Fault
    /\ UNCHANGED <<journal, head, session, history, saves>>

\* No snapshot: the session starts afresh, with operation ids of its own.
StartAfresh ==
    /\ proc = "down"
    /\ vm = None
    /\ proc' = "up"
    /\ mem' = [NewRuntime EXCEPT !.ops = [o \in Ops |->
                  IF \E i \in 1..Len(journal) : journal[i].event.effect = o THEN "ended" ELSE "new"]]
    /\ UNCHANGED <<behind, journal, head, appending, session, save, toClose, history, saves, faults>>

\* buildPendingAiGeneratedFromCompletedEffect: how an operation in flight ended is known.
Answered(o) ==
    \E i \in 1..Len(journal) : journal[i].event.effect = o /\ journal[i].event.kind \in {"result", "failed"}

\* recoverAiAgentRuntime behind the gate: an operation in flight in the snapshot
\* ends, by its evidence or, without any, as failed.
Recover ==
    /\ proc = "down"
    /\ vm # None
    /\ GateAdmits
    /\ proc' = "recovering"
    /\ mem' = [ops |-> [o \in Ops |-> IF fibers.ops[o] = "running" THEN "ended" ELSE fibers.ops[o]],
               version |-> vm]
    /\ toClose' = {o \in InflightOnDisk : ~ Answered(o)}
    /\ UNCHANGED <<behind, journal, head, appending, session, save, history, saves, faults>>

RecordInterrupted(o) == proc = "recovering" /\ Close(o)

Recovered ==
    /\ proc = "recovering"
    /\ toClose = {}
    /\ ~ Awaiting("save")
    /\ proc' = "up"
    /\ UNCHANGED <<mem, behind, journal, head, appending, session, save, toClose, history, saves, faults>>

\* Without a commit all evidence counts, but for checkpoints that were interrupted.
NothingBlocks == PendingIn(journal, Ops) = {} /\ OrphanedIn(journal) = {}

\* applyFileStoreAiRuntimeSessionUpgrade on a session it accepts: one that has
\* never been upgraded and nothing blocks, or one whose commit is clean and whose
\* upgrade file is of an earlier commit.
Upgradable ==
    \/ upgrade = None /\ commit = None /\ NothingBlocks
    \/ upgrade = None /\ commit # None /\ ClassOf(commit) = "clean"
    \/ upgrade # None /\ commit # None /\ ClassOf(commit) = "clean" /\ upgrade # commit.marker

ApplyUpgrade ==
    /\ proc = "down"
    /\ vm # None
    /\ Upgradable
    /\ proc' = "upgrading"
    /\ toClose' = IF commit = None THEN PendingIn(journal, Checkpoints) ELSE {}
    /\ save' = [save EXCEPT !.pc = "terminalizing"]
    /\ UNCHANGED <<mem, behind, journal, head, appending, session, history, saves, faults>>

\* terminalizeInterruptedRuntimeCheckpointEffects.
Terminalize(e) == Committing("terminalizing") /\ Close(e)

UpgradeHeads ==
    /\ Committing("terminalizing")
    /\ toClose = {}
    /\ save' = [save EXCEPT !.pc = "committing", !.heads = MarkerNow]
    /\ UNCHANGED <<proc, mem, behind, journal, head, appending, session, toClose, history, saves, faults>>
------------------------------------------------------------------------------
Next ==
    \/ \E o \in Ops : OpStart(o) \/ OpEnd(o) \/ CloseSuperseded(o) \/ RecordInterrupted(o)
    \/ \E e \in Checkpoints : Terminalize(e)
    \/ Signal \/ WriteBehind \/ WriteBehindFails \/ AppendHead \/ SealProgress
    \/ SaveBegin \/ ReadSuperseded \/ Serialise \/ CheckPending \/ SkipPending
    \/ RequestCheckpoint \/ FlushConversation \/ WriteFibers \/ WriteVm \/ RecordResult
    \/ ReadHeads \/ CommitByPort \/ CommitWithSequence \/ WriteUpgrade
    \/ AppendFails \/ SaveFails
    \/ Crash \/ StartAfresh \/ Recover \/ Recovered \/ ApplyUpgrade \/ UpgradeHeads

Spec == Init /\ [][Next]_vars
------------------------------------------------------------------------------
(* Properties.                                                             *)

\* The types; and the order of the records in the journal is that of their
\* sequences, so that sorting what is read back changes nothing.
TypeOK ==
    /\ proc \in {"up", "down", "recovering", "upgrading"}
    /\ mem \in Runtime /\ fibers \in Runtime
    /\ behind \in Seq(Events)
    /\ journal \in Seq([sequence : Nat \ {0}, event : Events])
    /\ \A i, j \in 1..Len(journal) : i < j => journal[i].sequence <= journal[j].sequence
    /\ head \in Nat \cup {None}
    /\ vm \in 0..MaxEvents \cup {None}
    /\ stamp \in 0..MaxEvents
    /\ commit \in Commit \cup {None}
    /\ upgrade \in Marker \cup {None}
    /\ toClose \in SUBSET Effects
    /\ saved \in BOOLEAN /\ lost \in SUBSET Ops
    /\ saves \in 0..MaxSaves /\ faults \in 0..MaxEvents

\* Which effects the evidence leaves pending: those requested, without any result, and
\* without a failure since the last request.  A result counts for good, also when a
\* session recovered from an older image requests the same operation once more.
PendingIsUnanswered ==
    PendingIn(journal, Effects) =
        {journal[i].event.effect : i \in
            {i \in 1..Len(journal) :
                /\ journal[i].event.kind = "request"
                /\ \A j \in 1..Len(journal) :
                      journal[j].event.effect = journal[i].event.effect =>
                          /\ journal[j].event.kind # "result"
                          /\ journal[j].event.kind = "failed" => j < i}}

\* Evidence up to the sequence that a commit names never changes: neither appends
\* that run while the sequence is read, nor a sequence given twice because the
\* process stopped between a record and its head, add to what was committed.
PrefixStable ==
    [][ (commit # None /\ commit' = commit /\ commit.sequence # None)
            => Through(commit.sequence)' = Through(commit.sequence) ]_vars

\* What a completed save leaves is recoverable until the next save replaces vm.json,
\* whatever the agents, further evidence, sealed progress, an interrupted later save
\* or a recovery add; unless the evidence it covers holds an orphaned effect, the
\* one thing that a save does not look for and that the gate refuses.
SavedIsRecoverable == saved => (GateAdmits \/ OrphanedIn(Prefix(commit)) # {})

\* A save that is skipped for pending operations waits for evidence that is still to
\* come: an operation an earlier life of the process left open does not block saves.
SkipOnlyForLive ==
    [][ SkipPending =>
            \A o \in PendingIn(Through(LastSequence), Ops) :
                \/ mem.ops[o] = "running"
                \/ o \in lost
                \/ \E i \in 1..Len(behind) : behind[i].effect = o
                \/ \E i \in 1..Len(journal) :
                        journal[i].sequence > LastSequence /\ journal[i].event.effect = o ]_vars

\* docs/impl/runtime/overview/snapshot-safepoints.md:13, "If snapshot save completes
\* and the process exits immediately, recovery must resume from a usable state",
\* even where no append ever fails.
EverySaveIsRecoverable == (saved /\ lost = {}) => GateAdmits

\* ai-runtime-control-engine-adoption.xnl:97, "SHALL NOT silently resume dirty state":
\* files the gate admits are those of one save.
AdmittedIsWhole == (proc = "down" /\ vm # None /\ GateAdmits) => fibers.version = vm
==============================================================================
