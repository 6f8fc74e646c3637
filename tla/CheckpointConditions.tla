------------------------ MODULE CheckpointConditions ------------------------
(***************************************************************************)
(* What would make good the two things that SessionCheckpoint does not     *)
(* promise.  Every save is recoverable when no operation starts between    *)
(* the safepoint and the serialisation of a save; what the gate admits is  *)
(* of one save when nothing stops a save between the fiber files and       *)
(* vm.json.                                                                *)
(***************************************************************************)
EXTENDS SessionCheckpointProofs

\* The specification without operations that start between the safepoint of a save
\* and its serialisation.
QuietNext == Next /\ (save.pc \in {"reading", "closing"} => \A o \in Ops : ~ OpStart(o))
QuietSpec == Init /\ [][QuietNext]_vars

\* The specification without a crash or a failure between the fiber files and vm.json.
WholeNext == Next /\ (save.pc = "vm" => ~ Crash /\ ~ SaveFails)
WholeSpec == Init /\ [][WholeNext]_vars
------------------------------------------------------------------------------
(* The invariants.                                                         *)

\* No image has an operation in flight.
QuietInv ==
    /\ save.pc \in {"reading", "closing"} => \A o \in Ops : mem.ops[o] # "running"
    /\ \A o \in Ops : save.image.ops[o] # "running" /\ fibers.ops[o] # "running"

RequestIn(records, e) ==
    \E i \in 1..Len(records) : records[i].event.kind = "request" /\ records[i].event.effect = e

\* Every end in the records comes after a request of its effect.
Ordered(records) ==
    \A i \in 1..Len(records) :
        records[i].event.kind # "request" =>
            \E j \in 1..Len(records) : /\ j < i
                                       /\ records[j].event.kind = "request"
                                       /\ records[j].event.effect = records[i].event.effect

\* What a save, a recovery or an upgrade is to record the end of has its request.
RequestInv ==
    /\ \A e \in toClose : RequestIn(journal, e)
    /\ proc = "up" /\ save.pc \in InWriter \cup InCommit => RequestIn(journal, saves)

\* The request of e is among the first n events of the queue.
RequestQueued(queue, n, e) == \E j \in 1..n : queue[j].kind = "request" /\ queue[j].effect = e

\* Every end in the queue has its request before it, there or in the records.
QueueOrdered(records, queue) ==
    \A i \in 1..Len(queue) :
        queue[i].kind # "request" =>
            RequestIn(records, queue[i].effect) \/ RequestQueued(queue, i - 1, queue[i].effect)

\* So has every operation that runs.
RunningRequested(records, queue, ops) ==
    \A o \in Ops : ops[o] = "running" =>
        RequestIn(records, o) \/ RequestQueued(queue, Len(queue), o)

\* Evidence is in order as long as none was lost.
OrderInv ==
    lost = {} => /\ Ordered(journal)
                 /\ QueueOrdered(journal, behind)
                 /\ RunningRequested(journal, behind, mem.ops)

QuietIInv == IInv /\ QuietInv /\ RequestInv /\ OrderInv

\* The fiber files and vm.json are of one save, but between their writes.
WholeInv ==
    /\ save.pc = "vm" => fibers = save.image
    /\ save.pc # "vm" /\ vm # None => fibers.version = vm
------------------------------------------------------------------------------
(* The files of one save.                                                  *)

\* Only a crash or a failure at "vm" would leave that step without the write of vm.json.
LEMMA WholeInvPreserved ==
    ASSUME TypeOK, SaveTypes, PhaseInv, WholeInv, [WholeNext]_vars
    PROVE  WholeInv'
<1>a. save \in SaveRecord /\ fibers \in Runtime
  BY DEF TypeOK, SaveTypes
<1>b. Next \/ UNCHANGED vars
  BY DEF WholeNext
<1>1. ASSUME NEW o \in Ops, OpStart(o) PROVE WholeInv'
  BY <1>1, <1>a DEF OpStart, WholeInv, SaveRecord, session, history
<1>2. ASSUME NEW o \in Ops, OpEnd(o) PROVE WholeInv'
  BY <1>2, <1>a DEF OpEnd, WholeInv, SaveRecord, session, history
<1>3. ASSUME NEW o \in Ops, CloseSuperseded(o) PROVE WholeInv'
  BY <1>3, <1>a DEF CloseSuperseded, Close, Saving, WholeInv, SaveRecord, session, history
<1>4. ASSUME NEW o \in Ops, RecordInterrupted(o) PROVE WholeInv'
  BY <1>4, <1>a DEF RecordInterrupted, Close, WholeInv, SaveRecord, session, history
<1>5. ASSUME NEW e \in Checkpoints, Terminalize(e) PROVE WholeInv'
  BY <1>5, <1>a DEF Terminalize, Close, Committing, WholeInv, SaveRecord, session, history
<1>6. CASE Signal
  BY <1>6, <1>a DEF Signal, WholeInv, SaveRecord, session, history
<1>7. CASE WriteBehind
  BY <1>7, <1>a DEF WriteBehind, WholeInv, SaveRecord, session, history
<1>8. CASE WriteBehindFails
  BY <1>8, <1>a DEF WriteBehindFails, WholeInv, SaveRecord, session, history
<1>9. CASE AppendHead
  BY <1>9, <1>a DEF AppendHead, WholeInv, SaveRecord, session, history
<1>10. CASE SealProgress
  BY <1>10, <1>a DEF SealProgress, WholeInv, SaveRecord, session, history
<1>11. CASE SaveBegin
  BY <1>11, <1>a DEF SaveBegin, Saving, WholeInv, SaveRecord, session, history
<1>12. CASE ReadSuperseded
  BY <1>12, <1>a DEF ReadSuperseded, Saving, WholeInv, SaveRecord, session, history
<1>13. CASE Serialise
  BY <1>13, <1>a DEF Serialise, Saving, WholeInv, SaveRecord, session, history
<1>14. CASE CheckPending
  BY <1>14, <1>a DEF CheckPending, Saving, WholeInv, SaveRecord, session, history
<1>15. CASE SkipPending
  BY <1>15, <1>a DEF SkipPending, Saving, Idle, WholeInv, SaveRecord, session, history
<1>16. CASE RequestCheckpoint
  BY <1>16, <1>a DEF RequestCheckpoint, Saving, WholeInv, SaveRecord, session, history
<1>17. CASE FlushConversation
  BY <1>17, <1>a DEF FlushConversation, Saving, WholeInv, SaveRecord, session, history
<1>18. CASE WriteFibers
  BY <1>18, <1>a DEF WriteFibers, Saving, WholeInv, SaveRecord, session, history
<1>19. CASE WriteVm
  BY <1>19, <1>a DEF WriteVm, Saving, WholeInv, SaveRecord, session, history
<1>20. CASE RecordResult
  BY <1>20, <1>a DEF RecordResult, Saving, WholeInv, SaveRecord, session, history
<1>21. CASE ReadHeads
  BY <1>21, <1>a DEF ReadHeads, Saving, WholeInv, SaveRecord, session, history
<1>22. CASE CommitByPort
  BY <1>22, <1>a DEF CommitByPort, Committing, WholeInv, SaveRecord, session, history
<1>23. CASE CommitWithSequence
  BY <1>23, <1>a DEF CommitWithSequence, Committing, WholeInv, SaveRecord, session, history
<1>24. CASE WriteUpgrade
  BY <1>24, <1>a DEF WriteUpgrade, Committing, Idle, WholeInv, SaveRecord, session, history
<1>25. CASE SaveFails
  <2>1. save.pc # "vm"
    <3>1. CASE WholeNext
      BY <1>25, <3>1 DEF WholeNext
    <3>2. CASE UNCHANGED vars
      BY <1>25, <3>2, CheckpointAssumption DEF vars, SaveFails, Fault, TypeOK
    <3>. QED
      BY <3>1, <3>2
  <2>. QED
    BY <1>25, <2>1, <1>a DEF SaveFails, WholeInv, Idle, SaveRecord, session, history
<1>26. CASE Crash
  <2>1. save.pc # "vm"
    <3>1. CASE WholeNext
      BY <1>26, <3>1 DEF WholeNext
    <3>2. CASE UNCHANGED vars
      BY <1>26, <3>2, CheckpointAssumption DEF vars, Crash, Fault, TypeOK
    <3>. QED
      BY <3>1, <3>2
  <2>. QED
    BY <1>26, <2>1, <1>a DEF Crash, WholeInv, Idle, SaveRecord, session, history
<1>27. CASE StartAfresh
  <2>1. save = Idle
    BY <1>27 DEF StartAfresh, PhaseInv
  <2>. QED
    BY <1>27, <2>1, <1>a DEF StartAfresh, WholeInv, Idle, SaveRecord, session, history
<1>28. CASE Recover
  <2>1. save = Idle
    BY <1>28 DEF Recover, PhaseInv
  <2>. QED
    BY <1>28, <2>1, <1>a DEF Recover, WholeInv, Idle, SaveRecord, session, history
<1>29. CASE Recovered
  <2>1. save = Idle
    BY <1>29 DEF Recovered, PhaseInv
  <2>. QED
    BY <1>29, <2>1, <1>a DEF Recovered, WholeInv, Idle, SaveRecord, session, history
<1>30. CASE ApplyUpgrade
  <2>1. save = Idle
    BY <1>30 DEF ApplyUpgrade, PhaseInv
  <2>. QED
    BY <1>30, <2>1, <1>a DEF ApplyUpgrade, WholeInv, Idle, SaveRecord, session, history
<1>31. CASE UpgradeHeads
  BY <1>31, <1>a DEF UpgradeHeads, Committing, WholeInv, SaveRecord, session, history
<1>32. CASE UNCHANGED vars
  BY <1>32 DEF vars, WholeInv, session, history
<1>33. CASE AppendFails
  BY <1>33, <1>a DEF AppendFails, Saving, Idle, WholeInv, SaveRecord, session, history
<1>. QED
  BY <1>1, <1>2, <1>3, <1>4, <1>5, <1>6, <1>7, <1>8, <1>9, <1>10, <1>11, <1>12, <1>13,
     <1>14, <1>15, <1>16, <1>17, <1>18, <1>19, <1>20, <1>21, <1>22, <1>23, <1>24, <1>25,
     <1>26, <1>27, <1>28, <1>29, <1>30, <1>31, <1>32, <1>33, <1>b DEF Next

\* "SHALL NOT silently resume dirty state" (ai-runtime-control-engine-adoption.xnl) holds
\* where nothing stops a save between the fiber files and vm.json: what
\* readRuntimeControlRecoveryGate admits is then of one save.
THEOREM AdmittedIsWholeUnlessTorn == WholeSpec => []AdmittedIsWhole
<1>1. Init => IInv /\ WholeInv
  <2>1. Init => IInv
    BY InitIInv
  <2>2. Init => WholeInv
    BY DEF Init, WholeInv, Idle
  <2>. QED
    BY <2>1, <2>2
<1>2. IInv /\ WholeInv /\ [WholeNext]_vars => IInv' /\ WholeInv'
  <2>. SUFFICES ASSUME IInv, WholeInv, [WholeNext]_vars PROVE IInv' /\ WholeInv'
    OBVIOUS
  <2>1. [Next]_vars
    BY DEF WholeNext
  <2>2. IInv'
    BY <2>1, NextIInv
  <2>3. WholeInv'
    BY WholeInvPreserved DEF IInv
  <2>. QED
    BY <2>2, <2>3
<1>3. IInv /\ WholeInv => AdmittedIsWhole
  BY DEF IInv, PhaseInv, WholeInv, AdmittedIsWhole, Idle
<1>. QED
  BY <1>1, <1>2, <1>3, PTL DEF WholeSpec
------------------------------------------------------------------------------
(* Quiet saves.                                                            *)

\* The image is taken in the quiet between the safepoint and the serialisation.
LEMMA QuietInvPreserved ==
    ASSUME TypeOK, SaveTypes, PhaseInv, QuietInv, [QuietNext]_vars
    PROVE  QuietInv'
<1>a. save \in SaveRecord /\ fibers \in Runtime /\ mem \in Runtime
  BY DEF TypeOK, SaveTypes
<1>b. Idle.pc \notin {"reading", "closing"} /\ \A o \in Ops : Idle.image.ops[o] # "running"
  BY DEF Idle, NewRuntime
<1>c. Next \/ UNCHANGED vars
  BY DEF QuietNext
<1>1. ASSUME NEW o \in Ops, OpStart(o) PROVE QuietInv'
  <2>1. save.pc \notin {"reading", "closing"}
    <3>1. CASE QuietNext
      BY <1>1, <3>1 DEF QuietNext
    <3>2. CASE UNCHANGED vars
      <4>1. mem'.ops[o] = "running" /\ mem.ops[o] = "new"
        BY <1>1, <1>a DEF OpStart, Runtime
      <4>. QED
        BY <3>2, <4>1 DEF vars
    <3>. QED
      BY <3>1, <3>2
  <2>. QED
    BY <1>1, <2>1 DEF OpStart, QuietInv, session
<1>2. ASSUME NEW o \in Ops, OpEnd(o) PROVE QuietInv'
  <2>1. \A p \in Ops : mem'.ops[p] = "running" => mem.ops[p] = "running"
    BY <1>2, <1>a DEF OpEnd, Runtime
  <2>. QED
    BY <1>2, <2>1 DEF OpEnd, QuietInv, session
<1>3. ASSUME NEW o \in Ops, CloseSuperseded(o) PROVE QuietInv'
  BY <1>3, <1>a DEF CloseSuperseded, Close, Saving, QuietInv, SaveRecord, session, history
<1>4. ASSUME NEW o \in Ops, RecordInterrupted(o) PROVE QuietInv'
  BY <1>4, <1>a DEF RecordInterrupted, Close, QuietInv, SaveRecord, session, history
<1>5. ASSUME NEW e \in Checkpoints, Terminalize(e) PROVE QuietInv'
  BY <1>5, <1>a DEF Terminalize, Close, Committing, QuietInv, SaveRecord, session, history
<1>6. CASE Signal
  <2>1. mem'.ops = mem.ops
    BY <1>6, <1>a DEF Signal, Runtime
  <2>. QED
    BY <1>6, <2>1 DEF Signal, QuietInv, session
<1>7. CASE WriteBehind
  BY <1>7, <1>a DEF WriteBehind, QuietInv, SaveRecord, session, history
<1>8. CASE WriteBehindFails
  BY <1>8, <1>a DEF WriteBehindFails, QuietInv, SaveRecord, session, history
<1>9. CASE AppendHead
  BY <1>9, <1>a DEF AppendHead, QuietInv, SaveRecord, session, history
<1>10. CASE SealProgress
  BY <1>10, <1>a DEF SealProgress, QuietInv, SaveRecord, session, history
<1>11. CASE SaveBegin
  BY <1>11, <1>a DEF SaveBegin, Saving, QuietInv, SaveRecord, session, history
<1>12. CASE ReadSuperseded
  BY <1>12, <1>a DEF ReadSuperseded, Saving, QuietInv, SaveRecord, session, history
<1>13. CASE Serialise
  BY <1>13, <1>a DEF Serialise, Saving, QuietInv, SaveRecord, session, history
<1>14. CASE CheckPending
  BY <1>14, <1>a DEF CheckPending, Saving, QuietInv, SaveRecord, session, history
<1>15. CASE SkipPending
  <2>1. save' = Idle /\ fibers' = fibers
    BY <1>15 DEF SkipPending, session
  <2>. QED
    BY <1>b, <2>1 DEF QuietInv
<1>16. CASE RequestCheckpoint
  BY <1>16, <1>a DEF RequestCheckpoint, Saving, QuietInv, SaveRecord, session, history
<1>17. CASE FlushConversation
  BY <1>17, <1>a DEF FlushConversation, Saving, QuietInv, SaveRecord, session, history
<1>18. CASE WriteFibers
  BY <1>18, <1>a DEF WriteFibers, Saving, QuietInv, SaveRecord, session, history
<1>19. CASE WriteVm
  BY <1>19, <1>a DEF WriteVm, Saving, QuietInv, SaveRecord, session, history
<1>20. CASE RecordResult
  BY <1>20, <1>a DEF RecordResult, Saving, QuietInv, SaveRecord, session, history
<1>21. CASE ReadHeads
  BY <1>21, <1>a DEF ReadHeads, Saving, QuietInv, SaveRecord, session, history
<1>22. CASE CommitByPort
  BY <1>22, <1>a DEF CommitByPort, Committing, QuietInv, SaveRecord, session, history
<1>23. CASE CommitWithSequence
  BY <1>23, <1>a DEF CommitWithSequence, Committing, QuietInv, SaveRecord, session, history
<1>24. CASE WriteUpgrade
  <2>1. save' = Idle /\ fibers' = fibers
    BY <1>24 DEF WriteUpgrade, session
  <2>. QED
    BY <1>b, <2>1 DEF QuietInv
<1>25. CASE SaveFails
  <2>1. save' = Idle /\ fibers' = fibers
    BY <1>25 DEF SaveFails, session
  <2>. QED
    BY <1>b, <2>1 DEF QuietInv
<1>26. CASE Crash
  <2>1. save' = Idle /\ fibers' = fibers
    BY <1>26 DEF Crash, session
  <2>. QED
    BY <1>b, <2>1 DEF QuietInv
<1>27. CASE StartAfresh
  <2>1. save = Idle
    BY <1>27 DEF StartAfresh, PhaseInv
  <2>2. save'.pc \notin {"reading", "closing"} /\ save'.image = save.image /\ fibers' = fibers
    BY <1>27, <2>1 DEF StartAfresh, Idle, session
  <2>. QED
    BY <2>2 DEF QuietInv
<1>28. CASE Recover
  <2>1. save = Idle
    BY <1>28 DEF Recover, PhaseInv
  <2>2. save'.pc \notin {"reading", "closing"} /\ save'.image = save.image /\ fibers' = fibers
    BY <1>28, <2>1 DEF Recover, Idle, session
  <2>. QED
    BY <2>2 DEF QuietInv
<1>29. CASE Recovered
  <2>1. save = Idle
    BY <1>29 DEF Recovered, PhaseInv
  <2>2. save'.pc \notin {"reading", "closing"} /\ save'.image = save.image /\ fibers' = fibers
    BY <1>29, <2>1 DEF Recovered, Idle, session
  <2>. QED
    BY <2>2 DEF QuietInv
<1>30. CASE ApplyUpgrade
  <2>1. save = Idle
    BY <1>30 DEF ApplyUpgrade, PhaseInv
  <2>2. save'.pc \notin {"reading", "closing"} /\ save'.image = save.image /\ fibers' = fibers
    BY <1>30, <2>1 DEF ApplyUpgrade, Idle, session
  <2>. QED
    BY <2>2 DEF QuietInv
<1>31. CASE UpgradeHeads
  BY <1>31, <1>a DEF UpgradeHeads, Committing, QuietInv, SaveRecord, session, history
<1>32. CASE UNCHANGED vars
  BY <1>32 DEF vars, QuietInv, session, history
<1>33. CASE AppendFails
  <2>1. save' = Idle /\ fibers' = fibers
    BY <1>33 DEF AppendFails, session
  <2>. QED
    BY <1>b, <2>1 DEF QuietInv
<1>. QED
  BY <1>1, <1>2, <1>3, <1>4, <1>5, <1>6, <1>7, <1>8, <1>9, <1>10, <1>11, <1>12, <1>13,
     <1>14, <1>15, <1>16, <1>17, <1>18, <1>19, <1>20, <1>21, <1>22, <1>23, <1>24, <1>25,
     <1>26, <1>27, <1>28, <1>29, <1>30, <1>31, <1>32, <1>33, <1>c DEF Next

\* A request stays, and an appended one is there.
LEMMA RequestAfterAppend ==
    ASSUME JournalInv, NEW ev \in Events, NEW by \in {"agents", "save"}, AppendRecord(ev, by)
    PROVE  \A e : RequestIn(journal', e) <=> RequestIn(journal, e) \/ (ev.kind = "request" /\ ev.effect = e)
<1>1. /\ Len(journal') = Len(journal) + 1
      /\ \A i \in 1..Len(journal) : journal'[i] = journal[i]
      /\ journal'[Len(journal) + 1] = Record(LastSequence + 1, ev)
  BY AppendedRecord
<1>2. Len(journal) \in Nat
  BY DEF JournalInv
<1>3. journal'[Len(journal) + 1].event = ev
  BY <1>1 DEF Record
<1>4. TAKE e
<1>5. ASSUME RequestIn(journal, e) PROVE RequestIn(journal', e)
  BY <1>1, <1>2, <1>5 DEF RequestIn
<1>6. ASSUME ev.kind = "request", ev.effect = e PROVE RequestIn(journal', e)
  <2>1. Len(journal) + 1 \in 1..Len(journal')
    BY <1>1, <1>2
  <2>. QED
    BY <1>3, <1>6, <2>1 DEF RequestIn
<1>7. ASSUME RequestIn(journal', e), ~ RequestIn(journal, e) PROVE ev.kind = "request" /\ ev.effect = e
  <2>1. PICK i \in 1..Len(journal') : journal'[i].event.kind = "request" /\ journal'[i].event.effect = e
    BY <1>7 DEF RequestIn
  <2>2. i \notin 1..Len(journal)
    BY <1>1, <1>7, <2>1 DEF RequestIn
  <2>3. i = Len(journal) + 1
    BY <1>1, <1>2, <2>2
  <2>. QED
    BY <1>3, <2>1, <2>3
<1>. QED
  BY <1>5, <1>6, <1>7

\* An end that is appended after its request keeps the order.
LEMMA OrderedAfterAppend ==
    ASSUME JournalInv, NEW ev \in Events, NEW by \in {"agents", "save"}, AppendRecord(ev, by),
           Ordered(journal), ev.kind = "request" \/ RequestIn(journal, ev.effect)
    PROVE  Ordered(journal')
<1>1. /\ Len(journal') = Len(journal) + 1
      /\ \A i \in 1..Len(journal) : journal'[i] = journal[i]
      /\ journal'[Len(journal) + 1] = Record(LastSequence + 1, ev)
  BY AppendedRecord
<1>2. Len(journal) \in Nat
  BY DEF JournalInv
<1>3. journal'[Len(journal) + 1].event = ev
  BY <1>1 DEF Record
<1>4. SUFFICES ASSUME NEW i \in 1..Len(journal'), journal'[i].event.kind # "request"
               PROVE  \E j \in 1..Len(journal') :
                          /\ j < i
                          /\ journal'[j].event.kind = "request"
                          /\ journal'[j].event.effect = journal'[i].event.effect
  BY DEF Ordered
<1>5. CASE i \in 1..Len(journal)
  <2>1. PICK j \in 1..Len(journal) :
            /\ j < i
            /\ journal[j].event.kind = "request"
            /\ journal[j].event.effect = journal[i].event.effect
    BY <1>1, <1>4, <1>5 DEF Ordered
  <2>2. j \in 1..Len(journal') /\ journal'[j] = journal[j] /\ journal'[i] = journal[i]
    BY <1>1, <1>2, <1>5
  <2>. QED
    BY <2>1, <2>2
<1>6. CASE i = Len(journal) + 1
  <2>1. RequestIn(journal, ev.effect)
    BY <1>3, <1>4, <1>6
  <2>2. PICK j \in 1..Len(journal) : journal[j].event.kind = "request" /\ journal[j].event.effect = ev.effect
    BY <2>1 DEF RequestIn
  <2>3. j \in 1..Len(journal') /\ journal'[j] = journal[j] /\ j < i
    BY <1>1, <1>2, <1>6
  <2>. QED
    BY <1>3, <1>6, <2>2, <2>3
<1>. QED
  BY <1>1, <1>2, <1>5, <1>6

\* What a replay has pending was requested.
LEMMA PendingRequested ==
    ASSUME JournalInv, NEW E
    PROVE  \A e \in PendingIn(journal, E) : RequestIn(journal, e)
BY PendingOp DEF PendingIn, Unanswered, OwnUpTo, RequestIn

\* Requests stay in the journal.
LEMMA RequestsStay ==
    ASSUME JournalInv, JournalStep
    PROVE  \A e : RequestIn(journal, e) => RequestIn(journal', e)
<1>1. CASE \E ev \in Events, by \in {"agents", "save"} : AppendRecord(ev, by)
  BY <1>1, RequestAfterAppend
<1>2. CASE UNCHANGED journal
  BY <1>2
<1>. QED
  BY <1>1, <1>2 DEF JournalStep

\* toClose is what the journal has pending, for no fiber file has an operation in flight.
LEMMA RequestInvPreserved ==
    ASSUME TypeOK, SaveTypes, SequenceInv, PhaseInv, QuietInv, RequestInv, [Next]_vars
    PROVE  RequestInv'
<1>a. save \in SaveRecord /\ saves \in Nat
  BY CheckpointAssumption DEF TypeOK, SaveTypes
<1>b. JournalInv
  BY JournalInvHolds
<1>c. \A e : RequestIn(journal, e) => RequestIn(journal', e)
  BY <1>b, RequestsStay, NextIsJournalStep
<1>1. ASSUME NEW o \in Ops, OpStart(o) PROVE RequestInv'
  BY <1>1, <1>a, <1>c DEF OpStart, RequestInv
<1>2. ASSUME NEW o \in Ops, OpEnd(o) PROVE RequestInv'
  BY <1>2, <1>a, <1>c DEF OpEnd, RequestInv
<1>3. ASSUME NEW o \in Ops, CloseSuperseded(o) PROVE RequestInv'
  <2>1. toClose' \subseteq toClose /\ UNCHANGED <<proc, save, saves>>
    BY <1>3 DEF CloseSuperseded, Close
  <2>. QED
    BY <1>c, <2>1 DEF RequestInv
<1>4. ASSUME NEW o \in Ops, RecordInterrupted(o) PROVE RequestInv'
  <2>1. toClose' \subseteq toClose /\ UNCHANGED <<proc, save, saves>>
    BY <1>4 DEF RecordInterrupted, Close
  <2>. QED
    BY <1>c, <2>1 DEF RequestInv
<1>5. ASSUME NEW e \in Checkpoints, Terminalize(e) PROVE RequestInv'
  <2>1. toClose' \subseteq toClose /\ UNCHANGED <<proc, save, saves>>
    BY <1>5 DEF Terminalize, Close
  <2>. QED
    BY <1>c, <2>1 DEF RequestInv
<1>6. CASE Signal
  BY <1>6, <1>a, <1>c DEF Signal, RequestInv
<1>7. CASE WriteBehind
  BY <1>7, <1>a, <1>c DEF WriteBehind, RequestInv
<1>8. CASE WriteBehindFails
  BY <1>8, <1>a, <1>c DEF WriteBehindFails, RequestInv
<1>9. CASE AppendHead
  BY <1>9, <1>a, <1>c DEF AppendHead, RequestInv
<1>10. CASE SealProgress
  BY <1>10, <1>a, <1>c DEF SealProgress, RequestInv
<1>11. CASE SaveBegin
  <2>1. save'.pc = "reading" /\ UNCHANGED <<proc, saves, toClose>>
    BY <1>11, <1>a DEF SaveBegin, SaveRecord
  <2>. QED
    BY <1>c, <2>1 DEF RequestInv, InWriter, InCommit
<1>12. CASE ReadSuperseded
  <2>1. toClose' \subseteq PendingIn(journal, Ops) /\ save'.pc = "closing" /\ journal' = journal
    BY <1>12, <1>a DEF ReadSuperseded, Superseded, SaveRecord
  <2>. QED
    BY <1>b, <2>1, PendingRequested DEF RequestInv, InWriter, InCommit
<1>13. CASE Serialise
  <2>1. save'.pc = "checking" /\ UNCHANGED <<proc, saves, toClose>>
    BY <1>13, <1>a DEF Serialise, SaveRecord
  <2>. QED
    BY <1>c, <2>1 DEF RequestInv, InWriter, InCommit
<1>14. CASE CheckPending
  <2>1. save'.pc = "requesting" /\ UNCHANGED <<proc, saves, toClose>>
    BY <1>14, <1>a DEF CheckPending, SaveRecord
  <2>. QED
    BY <1>c, <2>1 DEF RequestInv, InWriter, InCommit
<1>15. CASE SkipPending
  <2>1. save' = Idle /\ toClose' \subseteq toClose
    BY <1>15 DEF SkipPending
  <2>2. Idle.pc \notin InWriter \cup InCommit
    BY DEF Idle, InWriter, InCommit
  <2>. QED
    BY <1>c, <2>1, <2>2 DEF RequestInv
<1>16. CASE RequestCheckpoint
  <2>1. saves + 1 \in Checkpoints
    BY <1>16, <1>a, CheckpointAssumption DEF RequestCheckpoint, Saving, PhaseInv, BeforeWriter, Checkpoints
  <2>2. Event("request", saves + 1) \in Events
    BY <2>1, EventTypes DEF Effects, Kinds
  <2>3. AppendRecord(Event("request", saves + 1), "save") /\ saves' = saves + 1 /\ toClose' = toClose
    BY <1>16 DEF RequestCheckpoint
  <2>4. RequestIn(journal', saves + 1)
    BY <1>b, <2>2, <2>3, RequestAfterAppend, EventTypes
  <2>. QED
    BY <1>c, <2>3, <2>4 DEF RequestInv
<1>17. CASE FlushConversation
  <2>1. UNCHANGED <<proc, saves, toClose>> /\ save.pc \in InWriter \cup InCommit
    BY <1>17 DEF FlushConversation, Saving, InWriter, InCommit
  <2>. QED
    BY <1>c, <2>1 DEF RequestInv
<1>18. CASE WriteFibers
  <2>1. UNCHANGED <<proc, saves, toClose>> /\ save.pc \in InWriter \cup InCommit
    BY <1>18 DEF WriteFibers, Saving, InWriter, InCommit
  <2>. QED
    BY <1>c, <2>1 DEF RequestInv
<1>19. CASE WriteVm
  <2>1. UNCHANGED <<proc, saves, toClose>> /\ save.pc \in InWriter \cup InCommit
    BY <1>19 DEF WriteVm, Saving, InWriter, InCommit
  <2>. QED
    BY <1>c, <2>1 DEF RequestInv
<1>20. CASE RecordResult
  <2>1. UNCHANGED <<proc, saves, toClose>> /\ save.pc \in InWriter \cup InCommit
    BY <1>20 DEF RecordResult, Saving, InWriter, InCommit
  <2>. QED
    BY <1>c, <2>1 DEF RequestInv
<1>21. CASE ReadHeads
  <2>1. UNCHANGED <<proc, saves, toClose>> /\ save.pc \in InWriter \cup InCommit
    BY <1>21 DEF ReadHeads, Saving, InWriter, InCommit
  <2>. QED
    BY <1>c, <2>1 DEF RequestInv
<1>22. CASE CommitByPort
  <2>1. UNCHANGED <<proc, saves, toClose>> /\ save.pc \in InWriter \cup InCommit
    BY <1>22 DEF CommitByPort, Committing, InWriter, InCommit
  <2>. QED
    BY <1>c, <2>1 DEF RequestInv
<1>23. CASE CommitWithSequence
  <2>1. UNCHANGED <<proc, saves, toClose>> /\ save.pc \in InWriter \cup InCommit
    BY <1>23 DEF CommitWithSequence, Committing, InWriter, InCommit
  <2>. QED
    BY <1>c, <2>1 DEF RequestInv
<1>24. CASE WriteUpgrade
  <2>1. save' = Idle /\ toClose' \subseteq toClose
    BY <1>24 DEF WriteUpgrade
  <2>2. Idle.pc \notin InWriter \cup InCommit
    BY DEF Idle, InWriter, InCommit
  <2>. QED
    BY <1>c, <2>1, <2>2 DEF RequestInv
<1>25. CASE SaveFails
  <2>1. save' = Idle /\ toClose' \subseteq toClose
    BY <1>25 DEF SaveFails
  <2>2. Idle.pc \notin InWriter \cup InCommit
    BY DEF Idle, InWriter, InCommit
  <2>. QED
    BY <1>c, <2>1, <2>2 DEF RequestInv
<1>26. CASE Crash
  <2>1. save' = Idle /\ toClose' \subseteq toClose
    BY <1>26 DEF Crash
  <2>2. Idle.pc \notin InWriter \cup InCommit
    BY DEF Idle, InWriter, InCommit
  <2>. QED
    BY <1>c, <2>1, <2>2 DEF RequestInv
<1>27. CASE StartAfresh
  <2>1. save = Idle /\ UNCHANGED <<save, toClose>>
    BY <1>27 DEF StartAfresh, PhaseInv
  <2>. QED
    BY <1>c, <2>1 DEF RequestInv, Idle, InWriter, InCommit
<1>28. CASE Recover
  <2>1. InflightOnDisk = {}
    BY DEF InflightOnDisk, QuietInv
  <2>2. toClose' = {} /\ proc' = "recovering"
    BY <1>28, <2>1 DEF Recover
  <2>. QED
    BY <2>2 DEF RequestInv
<1>29. CASE Recovered
  <2>1. save = Idle /\ UNCHANGED <<save, toClose>>
    BY <1>29 DEF Recovered, PhaseInv
  <2>. QED
    BY <1>c, <2>1 DEF RequestInv, Idle, InWriter, InCommit
<1>30. CASE ApplyUpgrade
  <2>1. proc' = "upgrading" /\ toClose' \subseteq PendingIn(journal, Checkpoints) /\ journal' = journal
    BY <1>30 DEF ApplyUpgrade
  <2>. QED
    BY <1>b, <2>1, PendingRequested DEF RequestInv
<1>31. CASE UpgradeHeads
  <2>1. proc = "upgrading" /\ UNCHANGED <<proc, toClose>>
    BY <1>31 DEF UpgradeHeads, Committing, PhaseInv
  <2>. QED
    BY <1>c, <2>1 DEF RequestInv
<1>32. CASE UNCHANGED vars
  BY <1>32, <1>c DEF vars, RequestInv
<1>33. CASE AppendFails
  <2>1. save' = Idle /\ toClose' = {}
    BY <1>33 DEF AppendFails
  <2>2. Idle.pc \notin InWriter \cup InCommit
    BY DEF Idle, InWriter, InCommit
  <2>. QED
    BY <2>1, <2>2 DEF RequestInv
<1>. QED
  BY <1>1, <1>2, <1>3, <1>4, <1>5, <1>6, <1>7, <1>8, <1>9, <1>10, <1>11, <1>12, <1>13,
     <1>14, <1>15, <1>16, <1>17, <1>18, <1>19, <1>20, <1>21, <1>22, <1>23, <1>24, <1>25,
     <1>26, <1>27, <1>28, <1>29, <1>30, <1>31, <1>32, <1>33 DEF Next

\* The three ways in which a step leaves the evidence in order: it adds none, ...
LEMMA OrderKept ==
    ASSUME OrderInv, UNCHANGED <<journal, behind, lost>>,
           \A o \in Ops : mem'.ops[o] = "running" => mem.ops[o] = "running"
    PROVE  OrderInv'
BY DEF OrderInv, RunningRequested

\* ... it appends what the order allows, ...
LEMMA OrderAfterAppend ==
    ASSUME JournalInv, OrderInv, NEW ev \in Events, AppendRecord(ev, "save"),
           ev.kind = "request" \/ RequestIn(journal, ev.effect), UNCHANGED <<mem, behind, lost>>
    PROVE  OrderInv'
<1>1. \A e : RequestIn(journal, e) => RequestIn(journal', e)
  BY RequestAfterAppend
<1>2. Ordered(journal) => Ordered(journal')
  BY OrderedAfterAppend
<1>. QED
  BY <1>1, <1>2 DEF OrderInv, QueueOrdered, RunningRequested

\* ... or it appends the first event of the queue.
LEMMA OrderAfterWriteBehind ==
    ASSUME JournalInv, OrderInv, behind \in Seq(Events), behind # <<>>, behind' = Tail(behind),
           AppendRecord(Head(behind), "agents"), UNCHANGED <<mem, lost>>
    PROVE  OrderInv'
<1>1. /\ Len(behind) \in Nat /\ Len(behind) # 0 /\ Len(behind') = Len(behind) - 1
      /\ \A j \in 1..Len(behind') : behind'[j] = behind[j + 1]
      /\ Head(behind) = behind[1] /\ behind[1] \in Events
  OBVIOUS
<1>2. SUFFICES ASSUME lost = {}
      PROVE  /\ Ordered(journal')
             /\ QueueOrdered(journal', behind')
             /\ RunningRequested(journal', behind', mem.ops)
  BY DEF OrderInv
<1>3. /\ Ordered(journal)
      /\ QueueOrdered(journal, behind)
      /\ RunningRequested(journal, behind, mem.ops)
  BY <1>2 DEF OrderInv
<1>4. \A e : RequestIn(journal', e) <=> RequestIn(journal, e) \/ (behind[1].kind = "request" /\ behind[1].effect = e)
  BY <1>1, RequestAfterAppend
<1>5. Ordered(journal')
  <2>1. ASSUME behind[1].kind # "request" PROVE RequestIn(journal, behind[1].effect)
    <3>1. ~ RequestQueued(behind, 0, behind[1].effect)
      BY DEF RequestQueued
    <3>2. 1 \in 1..Len(behind) /\ 1 - 1 = 0
      BY <1>1
    <3>. QED
      BY <1>3, <2>1, <3>1, <3>2 DEF QueueOrdered
  <2>. QED
    BY <1>1, <1>3, <2>1, OrderedAfterAppend
\* What was among the first n + 1 of the queue is in the journal or among the first n.
<1>6. ASSUME NEW e, NEW n \in 0..Len(behind'), RequestIn(journal, e) \/ RequestQueued(behind, n + 1, e)
      PROVE  RequestIn(journal', e) \/ RequestQueued(behind', n, e)
  <2>1. CASE RequestIn(journal, e)
    BY <1>4, <2>1
  <2>2. CASE RequestQueued(behind, n + 1, e)
    <3>1. PICK j \in 1..(n + 1) : behind[j].kind = "request" /\ behind[j].effect = e
      BY <2>2 DEF RequestQueued
    <3>2. CASE j = 1
      BY <1>4, <3>1, <3>2
    <3>3. CASE j # 1
      <4>1. j - 1 \in 1..n /\ j - 1 \in 1..Len(behind') /\ (j - 1) + 1 = j
        BY <1>1, <3>3
      <4>2. behind'[j - 1] = behind[j]
        BY <1>1, <4>1
      <4>. QED
        BY <3>1, <4>1, <4>2 DEF RequestQueued
    <3>. QED
      BY <3>2, <3>3
  <2>. QED
    BY <1>6, <2>1, <2>2
<1>7. QueueOrdered(journal', behind')
  <2>1. SUFFICES ASSUME NEW i \in 1..Len(behind'), behind'[i].kind # "request"
        PROVE  RequestIn(journal', behind'[i].effect) \/ RequestQueued(behind', i - 1, behind'[i].effect)
    BY DEF QueueOrdered
  <2>2. i + 1 \in 1..Len(behind) /\ behind'[i] = behind[i + 1] /\ (i + 1) - 1 = (i - 1) + 1
    BY <1>1
  <2>3. i - 1 \in 0..Len(behind')
    BY <1>1
  <2>4. RequestIn(journal, behind'[i].effect) \/ RequestQueued(behind, (i - 1) + 1, behind'[i].effect)
    BY <1>3, <2>1, <2>2 DEF QueueOrdered
  <2>. QED
    BY <1>6, <2>3, <2>4
<1>8. RunningRequested(journal', behind', mem.ops)
  <2>1. SUFFICES ASSUME NEW o \in Ops, mem.ops[o] = "running"
        PROVE  RequestIn(journal', o) \/ RequestQueued(behind', Len(behind'), o)
    BY DEF RunningRequested
  <2>2. Len(behind') \in 0..Len(behind') /\ Len(behind') + 1 = Len(behind)
    BY <1>1
  <2>3. RequestIn(journal, o) \/ RequestQueued(behind, Len(behind') + 1, o)
    BY <1>3, <2>1, <2>2 DEF RunningRequested
  <2>. QED
    BY <1>6, <2>2, <2>3
<1>. QED
  BY <1>5, <1>7, <1>8

\* An event at the end of the queue: a request, or the end of what has its request.
LEMMA OrderAfterQueued ==
    ASSUME OrderInv, behind \in Seq(Events), NEW ev \in Events, behind' = Append(behind, ev),
           UNCHANGED <<journal, lost>>, NEW o \in Ops, ev.effect = o,
           ev.kind = "request" \/ mem.ops[o] = "running",
           \A p \in Ops : mem'.ops[p] = "running" => mem.ops[p] = "running" \/ (p = o /\ ev.kind = "request")
    PROVE  OrderInv'
<1>1. /\ Len(behind) \in Nat /\ Len(behind') = Len(behind) + 1
      /\ \A j \in 1..Len(behind) : behind'[j] = behind[j]
      /\ behind'[Len(behind) + 1] = ev
  OBVIOUS
<1>2. SUFFICES ASSUME lost = {}
      PROVE  Ordered(journal) /\ QueueOrdered(journal, behind') /\ RunningRequested(journal, behind', mem'.ops)
  BY DEF OrderInv
<1>3. /\ Ordered(journal)
      /\ QueueOrdered(journal, behind)
      /\ RunningRequested(journal, behind, mem.ops)
  BY <1>2 DEF OrderInv
<1>4. ASSUME NEW e, NEW n \in 0..Len(behind), NEW m \in n..Len(behind'), RequestQueued(behind, n, e)
      PROVE  RequestQueued(behind', m, e)
  <2>1. PICK j \in 1..n : behind[j].kind = "request" /\ behind[j].effect = e
    BY <1>4 DEF RequestQueued
  <2>2. j \in 1..m /\ behind'[j] = behind[j]
    BY <1>1, <1>4
  <2>. QED
    BY <2>1, <2>2 DEF RequestQueued
<1>5. QueueOrdered(journal, behind')
  <2>1. SUFFICES ASSUME NEW i \in 1..Len(behind'), behind'[i].kind # "request"
        PROVE  RequestIn(journal, behind'[i].effect) \/ RequestQueued(behind', i - 1, behind'[i].effect)
    BY DEF QueueOrdered
  <2>2. CASE i \in 1..Len(behind)
    <3>1. behind'[i] = behind[i] /\ i - 1 \in 0..Len(behind) /\ i - 1 \in (i - 1)..Len(behind')
      BY <1>1, <2>2
    <3>2. RequestIn(journal, behind[i].effect) \/ RequestQueued(behind, i - 1, behind[i].effect)
      BY <1>3, <2>1, <2>2, <3>1 DEF QueueOrdered
    <3>. QED
      BY <1>4, <3>1, <3>2
  <2>3. CASE i = Len(behind) + 1
    <3>1. behind'[i] = ev /\ i - 1 = Len(behind)
      BY <1>1, <2>3
    <3>2. RequestIn(journal, o) \/ RequestQueued(behind, Len(behind), o)
      BY <1>3, <2>1, <3>1 DEF RunningRequested
    <3>3. Len(behind) \in 0..Len(behind) /\ Len(behind) \in Len(behind)..Len(behind')
      BY <1>1
    <3>. QED
      BY <1>4, <3>1, <3>2, <3>3
  <2>. QED
    BY <1>1, <2>2, <2>3
<1>6. RunningRequested(journal, behind', mem'.ops)
  <2>1. SUFFICES ASSUME NEW p \in Ops, mem'.ops[p] = "running"
        PROVE  RequestIn(journal, p) \/ RequestQueued(behind', Len(behind'), p)
    BY DEF RunningRequested
  <2>2. CASE mem.ops[p] = "running"
    <3>1. Len(behind) \in 0..Len(behind) /\ Len(behind') \in Len(behind)..Len(behind')
      BY <1>1
    <3>. QED
      BY <1>3, <1>4, <2>2, <3>1 DEF RunningRequested
  <2>3. CASE p = o /\ ev.kind = "request"
    <3>1. Len(behind') \in 1..Len(behind') /\ behind'[Len(behind')] = ev
      BY <1>1
    <3>. QED
      BY <2>3, <3>1 DEF RequestQueued
  <2>. QED
    BY <2>1, <2>2, <2>3
<1>. QED
  BY <1>3, <1>5, <1>6

\* Every record of an end is appended after the request of its effect.
LEMMA OrderInvPreserved ==
    ASSUME TypeOK, SaveTypes, SequenceInv, PhaseInv, RequestInv, OrderInv, [Next]_vars
    PROVE  OrderInv'
<1>a. mem \in Runtime /\ behind \in Seq(Events) /\ saves \in Nat
  BY CheckpointAssumption DEF TypeOK
<1>b. JournalInv
  BY JournalInvHolds
<1>c. ASSUME proc = "up", save.pc \in InWriter \cup InCommit
      PROVE  /\ RequestIn(journal, saves)
             /\ \A k \in Kinds : Event(k, saves) \in Events /\ Event(k, saves).effect = saves
             /\ "result" \in Kinds /\ "failed" \in Kinds
  <2>1. saves \in Checkpoints
    BY <1>c, <1>a, CheckpointAssumption DEF PhaseInv, TypeOK, Checkpoints
  <2>2. saves \in Effects
    BY <2>1 DEF Effects
  <2>3. "result" \in Kinds /\ "failed" \in Kinds
    BY DEF Kinds
  <2>. QED
    BY <1>c, <2>2, <2>3, EventTypes DEF RequestInv
<1>1. ASSUME NEW o \in Ops, OpStart(o) PROVE OrderInv'
  <2>1. behind' = Append(behind, Event("request", o)) /\ UNCHANGED <<journal, lost>>
    BY <1>1 DEF OpStart, history
  <2>2. \A p \in Ops : mem'.ops[p] = "running" => mem.ops[p] = "running" \/ p = o
    BY <1>1, <1>a DEF OpStart, Runtime
  <2>3. Event("request", o) \in Events /\ Event("request", o).effect = o /\ Event("request", o).kind = "request"
    BY EventTypes DEF Effects, Kinds
  <2>. QED
    BY <1>a, <2>1, <2>2, <2>3, OrderAfterQueued
<1>2. ASSUME NEW o \in Ops, OpEnd(o) PROVE OrderInv'
  <2>1. PICK kind \in {"result", "failed"} : behind' = Append(behind, Event(kind, o))
    BY <1>2 DEF OpEnd
  <2>2. Event(kind, o) \in Events /\ Event(kind, o).effect = o
    BY EventTypes DEF Effects, Kinds
  <2>3. UNCHANGED <<journal, lost>> /\ mem.ops[o] = "running"
    BY <1>2 DEF OpEnd, history
  <2>4. \A p \in Ops : mem'.ops[p] = "running" => mem.ops[p] = "running"
    BY <1>2, <1>a DEF OpEnd, Runtime
  <2>. QED
    BY <1>a, <2>1, <2>2, <2>3, <2>4, OrderAfterQueued
<1>3. ASSUME NEW o \in Ops, CloseSuperseded(o) PROVE OrderInv'
  <2>1. /\ AppendRecord(Event("failed", o), "save") /\ o \in toClose
        /\ UNCHANGED <<mem, behind, lost>>
    BY <1>3 DEF CloseSuperseded, Close, history
  <2>2. Event("failed", o) \in Events /\ Event("failed", o).effect = o
    BY EventTypes DEF Effects, Kinds
  <2>3. RequestIn(journal, o)
    BY <2>1 DEF RequestInv
  <2>. QED
    BY <1>b, <2>1, <2>2, <2>3, OrderAfterAppend
<1>4. ASSUME NEW o \in Ops, RecordInterrupted(o) PROVE OrderInv'
  <2>1. /\ AppendRecord(Event("failed", o), "save") /\ o \in toClose
        /\ UNCHANGED <<mem, behind, lost>>
    BY <1>4 DEF RecordInterrupted, Close, history
  <2>2. Event("failed", o) \in Events /\ Event("failed", o).effect = o
    BY EventTypes DEF Effects, Kinds
  <2>3. RequestIn(journal, o)
    BY <2>1 DEF RequestInv
  <2>. QED
    BY <1>b, <2>1, <2>2, <2>3, OrderAfterAppend
<1>5. ASSUME NEW e \in Checkpoints, Terminalize(e) PROVE OrderInv'
  <2>1. /\ AppendRecord(Event("failed", e), "save") /\ e \in toClose
        /\ UNCHANGED <<mem, behind, lost>>
    BY <1>5 DEF Terminalize, Close, history
  <2>2. Event("failed", e) \in Events /\ Event("failed", e).effect = e
    BY EventTypes DEF Effects, Kinds
  <2>3. RequestIn(journal, e)
    BY <2>1 DEF RequestInv
  <2>. QED
    BY <1>b, <2>1, <2>2, <2>3, OrderAfterAppend
<1>6. CASE Signal
  <2>1. UNCHANGED <<journal, behind, lost>> /\ mem'.ops = mem.ops
    BY <1>6, <1>a DEF Signal, history, Runtime
  <2>. QED
    BY <2>1, OrderKept
<1>7. CASE WriteBehind
  BY <1>7, <1>a, <1>b, OrderAfterWriteBehind DEF WriteBehind, history
<1>8. CASE WriteBehindFails
  <2>1. lost' # {}
    BY <1>8 DEF WriteBehindFails
  <2>. QED
    BY <2>1 DEF OrderInv
<1>9. CASE AppendHead
  <2>1. UNCHANGED <<journal, behind, lost, mem>>
    BY <1>9 DEF AppendHead, history
  <2>. QED
    BY <2>1, OrderKept
<1>10. CASE SealProgress
  <2>1. UNCHANGED <<journal, behind, lost, mem>>
    BY <1>10 DEF SealProgress, history
  <2>. QED
    BY <2>1, OrderKept
<1>11. CASE SaveBegin
  <2>1. UNCHANGED <<journal, behind, lost, mem>>
    BY <1>11 DEF SaveBegin, history
  <2>. QED
    BY <2>1, OrderKept
<1>12. CASE ReadSuperseded
  <2>1. UNCHANGED <<journal, behind, lost, mem>>
    BY <1>12 DEF ReadSuperseded, history
  <2>. QED
    BY <2>1, OrderKept
<1>13. CASE Serialise
  <2>1. UNCHANGED <<journal, behind, lost, mem>>
    BY <1>13 DEF Serialise, history
  <2>. QED
    BY <2>1, OrderKept
<1>14. CASE CheckPending
  <2>1. UNCHANGED <<journal, behind, lost, mem>>
    BY <1>14 DEF CheckPending, history
  <2>. QED
    BY <2>1, OrderKept
<1>15. CASE SkipPending
  <2>1. UNCHANGED <<journal, behind, lost, mem>>
    BY <1>15 DEF SkipPending, history
  <2>. QED
    BY <2>1, OrderKept
<1>16. CASE RequestCheckpoint
  <2>1. saves + 1 \in Checkpoints
    BY <1>16, <1>a, CheckpointAssumption DEF RequestCheckpoint, Saving, PhaseInv, BeforeWriter, Checkpoints
  <2>2. Event("request", saves + 1) \in Events /\ Event("request", saves + 1).kind = "request"
    BY <2>1, EventTypes DEF Effects, Kinds
  <2>3. AppendRecord(Event("request", saves + 1), "save") /\ UNCHANGED <<mem, behind, lost>>
    BY <1>16 DEF RequestCheckpoint, history
  <2>. QED
    BY <1>b, <2>2, <2>3, OrderAfterAppend
<1>17. CASE FlushConversation
  <2>1. UNCHANGED <<journal, behind, lost, mem>>
    BY <1>17 DEF FlushConversation, history
  <2>. QED
    BY <2>1, OrderKept
<1>18. CASE WriteFibers
  <2>1. UNCHANGED <<journal, behind, lost, mem>>
    BY <1>18 DEF WriteFibers, history
  <2>. QED
    BY <2>1, OrderKept
<1>19. CASE WriteVm
  <2>1. UNCHANGED <<journal, behind, lost, mem>>
    BY <1>19 DEF WriteVm, history
  <2>. QED
    BY <2>1, OrderKept
<1>20. CASE RecordResult
  <2>1. AppendRecord(Event("result", saves), "save") /\ UNCHANGED <<mem, behind, lost>>
    BY <1>20 DEF RecordResult, history
  <2>2. proc = "up" /\ save.pc \in InWriter \cup InCommit
    BY <1>20 DEF RecordResult, Saving, InWriter
  <2>. QED
    BY <1>b, <1>c, <2>1, <2>2, OrderAfterAppend
<1>21. CASE ReadHeads
  <2>1. UNCHANGED <<journal, behind, lost, mem>>
    BY <1>21 DEF ReadHeads, history
  <2>. QED
    BY <2>1, OrderKept
<1>22. CASE CommitByPort
  <2>1. UNCHANGED <<journal, behind, lost, mem>>
    BY <1>22 DEF CommitByPort, history
  <2>. QED
    BY <2>1, OrderKept
<1>23. CASE CommitWithSequence
  <2>1. UNCHANGED <<journal, behind, lost, mem>>
    BY <1>23 DEF CommitWithSequence, history
  <2>. QED
    BY <2>1, OrderKept
<1>24. CASE WriteUpgrade
  <2>1. UNCHANGED <<journal, behind, lost, mem>>
    BY <1>24 DEF WriteUpgrade, history
  <2>. QED
    BY <2>1, OrderKept
<1>25. CASE SaveFails
  <2>1. UNCHANGED <<mem, behind, lost>>
    BY <1>25 DEF SaveFails, history
  <2>2. proc = "up" /\ save.pc \in InWriter \cup InCommit
    BY <1>25 DEF SaveFails, InWriter, InCommit
  <2>3. CASE AppendRecord(Event("failed", saves), "save")
    BY <1>b, <1>c, <2>1, <2>2, <2>3, OrderAfterAppend
  <2>4. CASE UNCHANGED journal
    BY <2>1, <2>4, OrderKept
  <2>. QED
    BY <1>25, <2>3, <2>4 DEF SaveFails
<1>26. CASE Crash
  <2>1. behind' = <<>> /\ UNCHANGED <<journal, lost>> /\ \A o \in Ops : mem'.ops[o] # "running"
    BY <1>26 DEF Crash, NewRuntime, history
  <2>. QED
    BY <2>1 DEF OrderInv, QueueOrdered, RunningRequested
<1>27. CASE StartAfresh
  <2>1. behind' = <<>> /\ UNCHANGED <<journal, lost>> /\ \A o \in Ops : mem'.ops[o] # "running"
    BY <1>27 DEF StartAfresh, NewRuntime, PhaseInv, history
  <2>. QED
    BY <2>1 DEF OrderInv, QueueOrdered, RunningRequested
<1>28. CASE Recover
  <2>1. behind' = <<>> /\ UNCHANGED <<journal, lost>> /\ \A o \in Ops : mem'.ops[o] # "running"
    BY <1>28 DEF Recover, PhaseInv, history
  <2>. QED
    BY <2>1 DEF OrderInv, QueueOrdered, RunningRequested
<1>29. CASE Recovered
  <2>1. UNCHANGED <<journal, behind, lost, mem>>
    BY <1>29 DEF Recovered, history
  <2>. QED
    BY <2>1, OrderKept
<1>30. CASE ApplyUpgrade
  <2>1. UNCHANGED <<journal, behind, lost, mem>>
    BY <1>30 DEF ApplyUpgrade, history
  <2>. QED
    BY <2>1, OrderKept
<1>31. CASE UpgradeHeads
  <2>1. UNCHANGED <<journal, behind, lost, mem>>
    BY <1>31 DEF UpgradeHeads, history
  <2>. QED
    BY <2>1, OrderKept
<1>32. CASE UNCHANGED vars
  <2>1. UNCHANGED <<journal, behind, lost, mem>>
    BY <1>32 DEF vars, history
  <2>. QED
    BY <2>1, OrderKept
<1>33. CASE AppendFails
  <2>1. UNCHANGED <<journal, behind, lost, mem>>
    BY <1>33 DEF AppendFails, history
  <2>. QED
    BY <2>1, OrderKept
<1>. QED
  BY <1>1, <1>2, <1>3, <1>4, <1>5, <1>6, <1>7, <1>8, <1>9, <1>10, <1>11, <1>12, <1>13,
     <1>14, <1>15, <1>16, <1>17, <1>18, <1>19, <1>20, <1>21, <1>22, <1>23, <1>24, <1>25,
     <1>26, <1>27, <1>28, <1>29, <1>30, <1>31, <1>32, <1>33 DEF Next

\* In a journal that is in order no prefix has an orphan.
LEMMA OrderedNotOrphaned ==
    ASSUME JournalInv, Ordered(journal), NEW n \in Nat
    PROVE  OrphanedIn(Through(n)) = {}
<1>. DEFINE D == {i \in 1..Len(journal) : journal[i].sequence <= n}
<1>1. /\ DOMAIN Through(n) = D
      /\ \A i \in D : Through(n)[i] = journal[i]
  BY DEF Through
<1>2. Len(journal) \in Nat /\ D \subseteq 1..Len(journal)
  BY DEF JournalInv
<1>3. /\ \A i \in 1..Len(journal) : journal[i].event.kind \in Kinds
      /\ \A i \in 1..Len(journal) : journal[i].sequence \in Nat
  BY RecordsOf, EventTypes DEF JournalInv
<1>4. ASSUME NEW i \in D, journal[i].event.kind # "request"
      PROVE  \E j \in D : /\ j < i
                          /\ journal[j].event.kind = "request"
                          /\ journal[j].event.effect = journal[i].event.effect
  <2>1. PICK j \in 1..Len(journal) :
            /\ j < i
            /\ journal[j].event.kind = "request"
            /\ journal[j].event.effect = journal[i].event.effect
    BY <1>2, <1>4 DEF Ordered
  <2>2. journal[j].sequence <= journal[i].sequence
    BY <1>2, <2>1 DEF JournalInv, Sorted
  <2>3. j \in D
    BY <1>3, <2>2
  <2>. QED
    BY <2>1, <2>3
<1>. HIDE DEF D
<1>5. ASSUME NEW e PROVE Replay(Through(n), e, Len(journal)).status # "orphaned"
  <2>1. \A i \in DOMAIN Through(n) : Through(n)[i].event.kind \in Kinds
    BY <1>1, <1>2, <1>3
  <2>2. \A i \in DOMAIN Through(n) :
            (Through(n)[i].event.effect = e /\ Through(n)[i].event.kind # "request") =>
                \E j \in DOMAIN Through(n) :
                    j < i /\ Through(n)[j].event.effect = e /\ Through(n)[j].event.kind = "request"
    BY <1>1, <1>4
  <2>3. DOMAIN Through(n) \subseteq 1..Len(journal)
    BY <1>1, <1>2
  <2>. QED
    BY <1>2, <2>1, <2>2, <2>3, ReplayNotOrphaned
<1>. QED
  BY <1>5 DEF OrphanedIn, Rebuilt

\* "If snapshot save completes and the process exits immediately, recovery must resume
\* from a usable state" (docs/impl/runtime/overview/snapshot-safepoints.md) holds where
\* no append fails and no operation starts between the safepoint that a save checks and
\* the serialisation of the runtime.
THEOREM QuietSavesAreRecoverable == QuietSpec => []EverySaveIsRecoverable
<1>1. Init => QuietIInv
  <2>. SUFFICES ASSUME Init PROVE QuietIInv
    OBVIOUS
  <2>1. IInv
    BY InitIInv
  <2>2. QuietInv
    BY DEF Init, QuietInv, Idle, NewRuntime
  <2>3. RequestInv
    BY DEF Init, RequestInv, Idle, InWriter, InCommit
  <2>4. OrderInv
    BY DEF Init, OrderInv, Ordered, QueueOrdered, RunningRequested, NewRuntime
  <2>. QED
    BY <2>1, <2>2, <2>3, <2>4 DEF QuietIInv
<1>2. QuietIInv /\ [QuietNext]_vars => QuietIInv'
  <2>. SUFFICES ASSUME QuietIInv, [QuietNext]_vars PROVE QuietIInv'
    OBVIOUS
  <2>1. [Next]_vars
    BY DEF QuietNext
  <2>2. IInv /\ QuietInv /\ RequestInv /\ OrderInv /\ TypeOK /\ SaveTypes /\ SequenceInv /\ PhaseInv
    BY DEF QuietIInv, IInv
  <2>3. IInv'
    BY <2>1, <2>2, NextIInv
  <2>4. QuietInv'
    BY <2>2, QuietInvPreserved
  <2>5. RequestInv'
    BY <2>1, <2>2, RequestInvPreserved
  <2>6. OrderInv'
    BY <2>1, <2>2, OrderInvPreserved
  <2>. QED
    BY <2>3, <2>4, <2>5, <2>6 DEF QuietIInv
<1>3. QuietIInv => EverySaveIsRecoverable
  <2>. SUFFICES ASSUME QuietIInv, saved, lost = {} PROVE GateAdmits
    BY DEF EverySaveIsRecoverable
  <2>1. JournalInv /\ Ordered(journal)
    BY JournalInvHolds DEF QuietIInv, IInv, OrderInv
  <2>2. commit.sequence \in Nat
    BY DEF QuietIInv, IInv, CommitInv
  <2>3. Prefix(commit) = Through(commit.sequence)
    BY <2>2, NoneAssumption DEF Prefix
  <2>4. OrphanedIn(Prefix(commit)) = {}
    BY <2>1, <2>2, <2>3, OrderedNotOrphaned
  <2>. QED
    BY <2>4, SavedFromInv DEF QuietIInv, SavedIsRecoverable
<1>. QED
  BY <1>1, <1>2, <1>3, PTL DEF QuietSpec
==============================================================================
