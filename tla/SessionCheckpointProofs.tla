----------------------- MODULE SessionCheckpointProofs -----------------------
(***************************************************************************)
(* Proofs about SessionCheckpoint: types, what is pending, the stability   *)
(* of committed evidence, that a completed save stays recoverable, and     *)
(* that saves are skipped for live operations only.                        *)
(***************************************************************************)
EXTENDS EvidenceReplayProofs

------------------------------------------------------------------------------
(* The inductive invariant.                                                *)

Pcs == {"idle", "reading", "closing", "checking", "requesting", "flushing", "fibers", "vm",
        "written", "heads", "committing", "recommitting", "marking", "terminalizing"}
BeforeWriter == {"reading", "closing", "checking", "requesting"}
InWriter == {"flushing", "fibers", "vm", "written", "heads"}
InCommit == {"committing", "recommitting", "marking"}

SaveRecord == [pc : Pcs, image : Runtime, sequence : Nat, heads : Marker \cup {None}]

\* The save and the append in flight; write-behind carries evidence of operations only.
SaveTypes ==
    /\ save \in SaveRecord
    /\ appending \in [by : {"agents", "save"}, sequence : Nat \ {0}] \cup {None}
    /\ \A i \in 1..Len(behind) : behind[i].effect \in Ops

\* A new record goes above LastSequence, and what is committed, or about to be, is at
\* or below it.
SequenceInv ==
    /\ \A i \in 1..Len(journal) : journal[i].sequence <= LastSequence + 1
    /\ appending # None => LastSequence <= appending.sequence
    /\ save.sequence <= LastSequence
    /\ commit # None /\ commit.sequence # None => commit.sequence <= LastSequence

\* Which phase of the process meets which step of a save.
PhaseInv ==
    /\ proc \in {"down", "recovering"} => save = Idle
    /\ proc = "upgrading" => vm # None /\ save.pc \in InCommit \cup {"terminalizing"}
    /\ save.pc = "terminalizing" => proc = "upgrading"
    /\ proc # "up" => behind = <<>>
    /\ save.pc \in BeforeWriter => saves < MaxSaves
    /\ proc = "up" /\ save.pc \in InWriter \cup InCommit => saves # 0
    /\ save.pc \in {"written", "heads"} => vm # None
    /\ save.pc \in InCommit => save.heads \in Marker

\* The records of a journal up to sequence n, and the operations they leave pending.
UpTo(records, n) == [i \in {i \in 1..Len(records) : records[i].sequence <= n} |-> records[i]]
PendingUpTo(records, n) ==
    {o \in Ops : Replay(UpTo(records, n), o, Len(records)).status = "requested"}

\* What the commit in the making has, and what the last completed one keeps.
CommitInv ==
    /\ proc = "up" /\ save.pc \in InCommit =>
            HeadsMatch(save.heads) /\ PendingUpTo(journal, save.sequence) = {}
    /\ save.pc \in {"recommitting", "marking"} => commit \in Commit /\ commit.marker = save.heads
    /\ save.pc = "marking" => commit.sequence = save.sequence
    /\ saved =>
          /\ proc # "upgrading"
          /\ save.pc \notin {"written", "heads"} \cup InCommit
          /\ commit \in Commit
          /\ commit.sequence \in Nat
          /\ upgrade = commit.marker
          /\ HeadsMatch(commit.marker)
          /\ PendingUpTo(journal, commit.sequence) = {}

\* More evidence of operation o may come, or some was lost.
Unsettled(o) ==
    \/ mem.ops[o] = "running"
    \/ o \in lost
    \/ \E i \in 1..Len(behind) : behind[i].effect = o

\* A request in the queue is followed by evidence of the end of its operation, unless
\* that still runs.
QueueInv ==
    \A i \in 1..Len(behind) :
        behind[i].kind = "request" =>
            \/ mem.ops[behind[i].effect] = "running"
            \/ \E j \in 1..Len(behind) : i < j /\ behind[j].effect = behind[i].effect

\* Once a save has read what is superseded, every other pending operation is unsettled.
ClosingInv ==
    /\ save.pc = "checking" => toClose = {}
    /\ save.pc \in {"closing", "checking"} =>
            \A o \in Ops : Unanswered(journal, o, Len(journal)) => Unsettled(o) \/ o \in toClose

IInv == TypeOK /\ SaveTypes /\ SequenceInv /\ PhaseInv /\ CommitInv /\ QueueInv /\ ClosingInv

JournalRecord == [sequence : Nat \ {0}, event : Events]

Sorted == \A i, j \in 1..Len(journal) : i < j => journal[i].sequence <= journal[j].sequence

\* The part of the invariant that is about the journal and its head alone.
JournalInv ==
    /\ journal \in Seq(JournalRecord)
    /\ Sorted
    /\ head \in Nat \cup {None}
    /\ appending \in [by : {"agents", "save"}, sequence : Nat \ {0}] \cup {None}
    /\ \A i \in 1..Len(journal) : journal[i].sequence <= LastSequence + 1
    /\ appending # None => LastSequence <= appending.sequence

\* It follows from the invariant.
LEMMA JournalInvHolds ==
    TypeOK /\ SaveTypes /\ SequenceInv => JournalInv
BY DEF TypeOK, SaveTypes, SequenceInv, JournalInv, JournalRecord, Sorted

\* What a record of a journal is.
LEMMA RecordsOf ==
    ASSUME NEW s \in Seq(JournalRecord)
    PROVE  \A i \in 1..Len(s) : s[i] \in JournalRecord /\ s[i].sequence \in Nat /\ s[i].event \in Events
<1>1. TAKE i \in 1..Len(s)
<1>2. s[i] \in JournalRecord
  OBVIOUS
<1>. QED
  BY <1>2 DEF JournalRecord

\* The sequence that an append starts from, also where there is no head file.
LEMMA LastSequenceNat ==
    ASSUME journal \in Seq(JournalRecord), head \in Nat \cup {None}
    PROVE  LastSequence \in Nat
<1>1. CASE head # None
  BY <1>1 DEF LastSequence
<1>2. CASE head = None /\ journal = <<>>
  BY <1>2 DEF LastSequence
<1>3. CASE head = None /\ journal # <<>>
  <2>1. Len(journal) \in 1..Len(journal)
    BY <1>3
  <2>2. journal[Len(journal)] \in JournalRecord
    BY <2>1
  <2>. QED
    BY <1>3, <2>2 DEF LastSequence, JournalRecord
<1>. QED
  BY <1>1, <1>2, <1>3

\* The three things a step may do to the journal; a reader may write the missing head.
JournalStep ==
    \/ \E ev \in Events, by \in {"agents", "save"} : AppendRecord(ev, by)
    \/ appending # None /\ head' = appending.sequence /\ appending' = None /\ UNCHANGED journal
    \/ UNCHANGED journal /\ (UNCHANGED head \/ KeepHead) /\ appending' \in {appending, None}

\* What an event is.
LEMMA EventTypes ==
    /\ \A ev \in Events : ev.kind \in Kinds /\ ev.effect \in Effects
    /\ \A k \in Kinds, e \in Effects : Event(k, e) \in Events
    /\ \A k, e : Event(k, e).kind = k /\ Event(k, e).effect = e
<1>1. \A k, e : Event(k, e).kind = k /\ Event(k, e).effect = e
  BY DEF Event
<1>2. ASSUME NEW ev \in Events PROVE ev.kind \in Kinds /\ ev.effect \in Effects
  <2>1. PICK k \in Kinds, e \in Effects : ev = Event(k, e)
    BY DEF Events, Kinds
  <2>. QED
    BY <1>1, <2>1
<1>3. \A k \in Kinds, e \in Effects : Event(k, e) \in Events
  BY DEF Events, Kinds
<1>. QED
  BY <1>1, <1>2, <1>3

\* A record that is appended keeps the order of the sequences, and nothing of what was
\* there changes; a crash before its head is written may let the next one have its sequence.
LEMMA AppendedRecord ==
    ASSUME JournalInv, NEW ev \in Events, NEW by \in {"agents", "save"}, AppendRecord(ev, by)
    PROVE  /\ JournalInv'
           /\ Len(journal') = Len(journal) + 1
           /\ \A i \in 1..Len(journal) : journal'[i] = journal[i]
           /\ journal'[Len(journal) + 1] = Record(LastSequence + 1, ev)
           /\ LastSequence' \in Nat
           /\ LastSequence <= LastSequence'
<1>. DEFINE new == Record(LastSequence + 1, ev)
<1>1. LastSequence \in Nat
  BY LastSequenceNat DEF JournalInv
<1>2. new \in JournalRecord /\ new.sequence = LastSequence + 1
  BY <1>1 DEF Record, JournalRecord
<1>3. journal' = Append(journal, new) /\ head' = LastSequence
  BY DEF AppendRecord, NextSequence, KeepHead
<1>4. appending' = [by |-> by, sequence |-> LastSequence + 1]
  BY DEF AppendRecord, NextSequence
<1>5. journal \in Seq(JournalRecord)
  BY DEF JournalInv
<1>. HIDE DEF new
<1>6. /\ journal' \in Seq(JournalRecord)
      /\ Len(journal') = Len(journal) + 1
      /\ \A i \in 1..Len(journal) : journal'[i] = journal[i]
      /\ journal'[Len(journal) + 1] = new
  BY <1>2, <1>3, <1>5
<1>7. LastSequence' = LastSequence
  <2>1. head' # None
    BY <1>1, <1>3, NoneAssumption
  <2>. QED
    BY <1>3, <2>1 DEF LastSequence
<1>9. LastSequence' \in Nat /\ LastSequence <= LastSequence' /\ LastSequence' <= LastSequence + 1
  BY <1>1, <1>7
<1>10. \A i \in 1..Len(journal') : journal'[i].sequence <= LastSequence + 1
  <2>1. TAKE i \in 1..Len(journal')
  <2>2. CASE i \in 1..Len(journal)
    BY <1>6, <2>2 DEF JournalInv
  <2>3. CASE i = Len(journal) + 1
    BY <1>1, <1>2, <1>6, <2>3
  <2>. QED
    BY <1>5, <1>6, <2>2, <2>3
<1>11. \A i \in 1..Len(journal') : journal'[i].sequence \in Nat
  BY <1>6, RecordsOf
<1>12. Sorted'
  <2>1. SUFFICES ASSUME NEW i \in 1..Len(journal'), NEW j \in 1..Len(journal'), i < j
                 PROVE  journal'[i].sequence <= journal'[j].sequence
    BY DEF Sorted
  <2>2. CASE j \in 1..Len(journal)
    <3>1. i \in 1..Len(journal)
      BY <1>5, <2>1, <2>2
    <3>. QED
      BY <1>6, <2>1, <2>2, <3>1 DEF JournalInv, Sorted
  <2>3. CASE j = Len(journal) + 1
    BY <1>2, <1>6, <1>10, <2>3
  <2>. QED
    BY <1>5, <1>6, <2>2, <2>3
<1>13. \A i \in 1..Len(journal') : journal'[i].sequence <= LastSequence' + 1
  BY <1>1, <1>9, <1>10, <1>11
<1>14. /\ appending' \in [by : {"agents", "save"}, sequence : Nat \ {0}] \cup {None}
       /\ appending'.sequence = LastSequence + 1
  BY <1>1, <1>4
<1>15. head' \in Nat \cup {None}
  BY <1>1, <1>3
<1>16. JournalInv'
  BY <1>6, <1>9, <1>12, <1>13, <1>14, <1>15 DEF JournalInv
<1>. QED
  BY <1>6, <1>9, <1>16 DEF new

\* The head that follows a record never takes LastSequence back.
LEMMA WrittenHead ==
    ASSUME JournalInv, appending # None, head' = appending.sequence, appending' = None,
           UNCHANGED journal
    PROVE  JournalInv' /\ LastSequence' \in Nat /\ LastSequence <= LastSequence'
<1>1. LastSequence \in Nat
  BY LastSequenceNat DEF JournalInv
<1>2. appending.sequence \in Nat /\ LastSequence <= appending.sequence
  BY DEF JournalInv
<1>3. head' # None
  BY <1>2, NoneAssumption
<1>4. LastSequence' = appending.sequence
  BY <1>3 DEF LastSequence
<1>5. \A i \in 1..Len(journal) : journal[i].sequence \in Nat /\ journal[i].sequence <= LastSequence + 1
  BY RecordsOf DEF JournalInv
<1>6. \A i \in 1..Len(journal') : journal'[i].sequence <= LastSequence' + 1
  BY <1>1, <1>2, <1>4, <1>5
<1>. QED
  BY <1>2, <1>4, <1>6 DEF JournalInv, Sorted

\* So the journal's part of the invariant is kept, and LastSequence never falls.
LEMMA JournalPreserved ==
    ASSUME JournalInv, JournalStep
    PROVE  JournalInv' /\ LastSequence' \in Nat /\ LastSequence <= LastSequence'
<1>1. CASE \E ev \in Events, by \in {"agents", "save"} : AppendRecord(ev, by)
  BY <1>1, AppendedRecord
<1>2. CASE appending # None /\ head' = appending.sequence /\ appending' = None /\ UNCHANGED journal
  BY <1>2, WrittenHead
<1>3. CASE UNCHANGED journal /\ (UNCHANGED head \/ KeepHead) /\ appending' \in {appending, None}
  <2>1. LastSequence \in Nat /\ LastSequence # None
    BY LastSequenceNat, NoneAssumption DEF JournalInv
  <2>2. LastSequence' = LastSequence /\ head' \in Nat \cup {None}
    <3>1. CASE UNCHANGED head
      BY <1>3, <3>1 DEF LastSequence, JournalInv
    <3>2. CASE KeepHead
      <4>1. head' = LastSequence
        BY <3>2 DEF KeepHead
      <4>2. head' # None => LastSequence' = head'
        BY DEF LastSequence
      <4>. QED
        BY <2>1, <4>1, <4>2
    <3>. QED
      BY <1>3, <3>1, <3>2
  <2>. QED
    BY <1>3, <2>1, <2>2 DEF JournalInv, Sorted
<1>. QED
  BY <1>1, <1>2, <1>3 DEF JournalStep

\* Evidence at or below LastSequence never changes, nor does what it says.
LEMMA ThroughStable ==
    ASSUME JournalInv, JournalStep, NEW n \in Nat, n <= LastSequence
    PROVE  /\ Through(n)' = Through(n)
           /\ PendingIn(Through(n), Ops)' = PendingIn(Through(n), Ops)
<1>1. CASE UNCHANGED journal
  BY <1>1 DEF Through, PendingIn, Rebuilt
<1>2. ASSUME NEW ev \in Events, NEW by \in {"agents", "save"}, AppendRecord(ev, by)
      PROVE  /\ Through(n)' = Through(n)
             /\ PendingIn(Through(n), Ops)' = PendingIn(Through(n), Ops)
  <2>1. LastSequence \in Nat
    BY LastSequenceNat DEF JournalInv
  <2>2. Len(journal) \in Nat
    BY DEF JournalInv
  <2>3. /\ Len(journal') = Len(journal) + 1
        /\ \A i \in 1..Len(journal) : journal'[i] = journal[i]
        /\ journal'[Len(journal) + 1] = Record(LastSequence + 1, ev)
    BY <1>2, AppendedRecord
  <2>3a. journal'[Len(journal) + 1].sequence = LastSequence + 1
    BY <2>3 DEF Record
  <2>. DEFINE below == {i \in 1..Len(journal) : journal[i].sequence <= n}
              below2 == {i \in 1..Len(journal') : journal'[i].sequence <= n}
  <2>4. below2 = below
    <3>1. ASSUME NEW i \in below2 PROVE i \in below
      <4>1. i # Len(journal) + 1
        BY <2>1, <2>3a
      <4>. QED
        BY <2>2, <2>3, <4>1
    <3>2. ASSUME NEW i \in below PROVE i \in below2
      BY <2>2, <2>3
    <3>. QED
      BY <3>1, <3>2
  <2>5. Through(n) = [i \in below |-> journal[i]]
    BY DEF Through
  <2>6. Through(n)' = [i \in below2 |-> journal'[i]]
    BY DEF Through
  <2>7. \A i \in below : journal'[i] = journal[i]
    BY <2>3
  <2>8. Through(n)' = Through(n)
    <3>. HIDE DEF below, below2
    <3>. QED
      BY <2>4, <2>5, <2>6, <2>7
  <2>9. Len(journal) + 1 \notin DOMAIN Through(n)
    BY <2>2, <2>5
  <2>10. ASSUME NEW e
         PROVE  Replay(Through(n), e, Len(journal) + 1) = Replay(Through(n), e, Len(journal))
    <3>1. Replay(Through(n), e, Len(journal) + 1)
             = Step(Through(n), e, Len(journal) + 1, Replay(Through(n), e, Len(journal)))
      BY <2>2, ReplayStep
    <3>. QED
      BY <2>9, <3>1 DEF Step
  <2>11. PendingIn(Through(n), Ops)' = {e \in Ops : Replay(Through(n)', e, Len(journal')).status = "requested"}
    BY DEF PendingIn, Rebuilt
  <2>12. PendingIn(Through(n), Ops) = {e \in Ops : Replay(Through(n), e, Len(journal)).status = "requested"}
    BY DEF PendingIn, Rebuilt
  <2>. QED
    BY <2>3, <2>8, <2>10, <2>11, <2>12
<1>. QED
  BY <1>1, <1>2 DEF JournalStep

\* The same with the journal as a parameter, for use in the next state.
LEMMA PendingUpToThrough ==
    \A n : PendingIn(Through(n), Ops) = PendingUpTo(journal, n)
BY DEF PendingIn, Through, Rebuilt, PendingUpTo, UpTo

\* Evidence at or below LastSequence is as it was after every step.
LEMMA UpToStable ==
    ASSUME JournalInv, JournalStep
    PROVE  \A n \in Nat : n <= LastSequence =>
               /\ UpTo(journal', n) = UpTo(journal, n)
               /\ PendingUpTo(journal', n) = PendingUpTo(journal, n)
<1>1. TAKE n \in Nat
<1>2. HAVE n <= LastSequence
<1>3. /\ Through(n)' = Through(n)
      /\ PendingIn(Through(n), Ops)' = PendingIn(Through(n), Ops)
  BY <1>2, ThroughStable
<1>4. PendingIn(Through(n), Ops)' = PendingUpTo(journal', n)
  BY DEF PendingIn, Through, Rebuilt, PendingUpTo, UpTo
<1>5. Through(n)' = UpTo(journal', n) /\ Through(n) = UpTo(journal, n)
  BY DEF Through, UpTo
<1>. QED
  BY <1>3, <1>4, <1>5, PendingUpToThrough

\* Where all evidence of an operation is at or below n, the part up to n says of it
\* what the whole journal says.
LEMMA RebuiltThrough ==
    ASSUME journal \in Seq(JournalRecord), NEW n \in Nat, NEW e,
           \A i \in 1..Len(journal) : journal[i].event.effect = e => journal[i].sequence <= n
    PROVE  Rebuilt(Through(n), e) = Rebuilt(journal, e)
<1>1. Len(journal) \in Nat /\ DOMAIN journal = 1..Len(journal)
  OBVIOUS
<1>2. /\ DOMAIN Through(n) = {i \in 1..Len(journal) : journal[i].sequence <= n}
      /\ \A i \in DOMAIN Through(n) : Through(n)[i] = journal[i]
  BY DEF Through
<1>3. \A i \in 1..Len(journal) : \A x : Step(Through(n), e, i, x) = Step(journal, e, i, x)
  BY <1>1, <1>2 DEF Step
<1>. QED
  BY <1>1, <1>3, ReplayAgrees DEF Rebuilt

\* Every step of the specification does one of the three to the journal.
LEMMA NextIsJournalStep ==
    TypeOK /\ PhaseInv /\ [Next]_vars => JournalStep
<1>. SUFFICES ASSUME TypeOK, PhaseInv, [Next]_vars PROVE JournalStep
  OBVIOUS
<1>1. ASSUME NEW o \in Ops, OpStart(o) PROVE JournalStep
  BY <1>1 DEF OpStart, JournalStep
<1>2. ASSUME NEW o \in Ops, OpEnd(o) PROVE JournalStep
  BY <1>2 DEF OpEnd, JournalStep
<1>3. ASSUME NEW o \in Ops, CloseSuperseded(o) PROVE JournalStep
  BY <1>3, EventTypes DEF CloseSuperseded, Close, JournalStep, Effects, Kinds
<1>4. ASSUME NEW o \in Ops, RecordInterrupted(o) PROVE JournalStep
  BY <1>4, EventTypes DEF RecordInterrupted, Close, JournalStep, Effects, Kinds
<1>5. ASSUME NEW e \in Checkpoints, Terminalize(e) PROVE JournalStep
  BY <1>5, EventTypes DEF Terminalize, Close, JournalStep, Effects, Kinds
<1>6. CASE Signal
  BY <1>6 DEF Signal, JournalStep
<1>7. CASE WriteBehind
  <2>1. Head(behind) \in Events
    BY <1>7 DEF WriteBehind, TypeOK
  <2>. QED
    BY <1>7, <2>1 DEF WriteBehind, JournalStep
<1>8. CASE WriteBehindFails
  BY <1>8 DEF WriteBehindFails, JournalStep
<1>9. CASE AppendHead
  BY <1>9 DEF AppendHead, JournalStep
<1>10. CASE SealProgress
  BY <1>10 DEF SealProgress, JournalStep
<1>11. CASE SaveBegin
  BY <1>11 DEF SaveBegin, JournalStep
<1>12. CASE ReadSuperseded
  BY <1>12 DEF ReadSuperseded, JournalStep
<1>13. CASE Serialise
  BY <1>13 DEF Serialise, JournalStep
<1>14. CASE CheckPending
  BY <1>14 DEF CheckPending, JournalStep
<1>15. CASE SkipPending
  BY <1>15 DEF SkipPending, JournalStep
<1>16. CASE RequestCheckpoint
  <2>1. saves + 1 \in Checkpoints
    BY <1>16, CheckpointAssumption DEF RequestCheckpoint, Saving, PhaseInv, TypeOK, BeforeWriter, Checkpoints
  <2>2. Event("request", saves + 1) \in Events
    BY <2>1, EventTypes DEF Effects, Kinds
  <2>. QED
    BY <1>16, <2>2 DEF RequestCheckpoint, JournalStep
<1>17. CASE FlushConversation
  BY <1>17 DEF FlushConversation, JournalStep
<1>18. CASE WriteFibers
  BY <1>18 DEF WriteFibers, JournalStep
<1>19. CASE WriteVm
  BY <1>19 DEF WriteVm, JournalStep
<1>20. CASE RecordResult
  <2>1. saves \in Checkpoints
    BY <1>20, CheckpointAssumption DEF RecordResult, Saving, PhaseInv, TypeOK, InWriter, Checkpoints
  <2>2. Event("result", saves) \in Events
    BY <2>1, EventTypes DEF Effects, Kinds
  <2>. QED
    BY <1>20, <2>2 DEF RecordResult, JournalStep
<1>21. CASE ReadHeads
  BY <1>21 DEF ReadHeads, JournalStep
<1>22. CASE CommitByPort
  BY <1>22 DEF CommitByPort, JournalStep
<1>23. CASE CommitWithSequence
  BY <1>23 DEF CommitWithSequence, JournalStep
<1>24. CASE WriteUpgrade
  BY <1>24 DEF WriteUpgrade, JournalStep
<1>25. CASE SaveFails
  <2>1. saves \in Checkpoints
    BY <1>25, CheckpointAssumption DEF SaveFails, PhaseInv, TypeOK, InWriter, InCommit, Checkpoints
  <2>2. Event("failed", saves) \in Events
    BY <2>1, EventTypes DEF Effects, Kinds
  <2>. QED
    BY <1>25, <2>2 DEF SaveFails, JournalStep
<1>26. CASE Crash
  BY <1>26 DEF Crash, JournalStep
<1>27. CASE StartAfresh
  BY <1>27 DEF StartAfresh, JournalStep
<1>28. CASE Recover
  BY <1>28 DEF Recover, JournalStep
<1>29. CASE Recovered
  BY <1>29 DEF Recovered, JournalStep
<1>30. CASE ApplyUpgrade
  BY <1>30 DEF ApplyUpgrade, JournalStep
<1>31. CASE UpgradeHeads
  BY <1>31 DEF UpgradeHeads, JournalStep
<1>32. CASE UNCHANGED vars
  BY <1>32 DEF vars, JournalStep
<1>33. CASE AppendFails
  BY <1>33 DEF AppendFails, JournalStep
<1>. QED
  BY <1>1, <1>2, <1>3, <1>4, <1>5, <1>6, <1>7, <1>8, <1>9, <1>10, <1>11, <1>12, <1>13,
     <1>14, <1>15, <1>16, <1>17, <1>18, <1>19, <1>20, <1>21, <1>22, <1>23, <1>24, <1>25,
     <1>26, <1>27, <1>28, <1>29, <1>30, <1>31, <1>32, <1>33 DEF Next

\* The types of all that is not the journal.
Types ==
    /\ proc \in {"up", "down", "recovering", "upgrading"}
    /\ mem \in Runtime /\ fibers \in Runtime
    /\ behind \in Seq(Events)
    /\ \A i \in 1..Len(behind) : behind[i].effect \in Ops
    /\ vm \in 0..MaxEvents \cup {None}
    /\ stamp \in 0..MaxEvents
    /\ commit \in Commit \cup {None}
    /\ upgrade \in Marker \cup {None}
    /\ save \in SaveRecord
    /\ toClose \in SUBSET Effects
    /\ saved \in BOOLEAN /\ lost \in SUBSET Ops
    /\ saves \in 0..MaxSaves /\ faults \in 0..MaxEvents

\* They and the journal's part are the type invariant.
LEMMA TypesHold ==
    /\ TypeOK /\ SaveTypes => Types
    /\ Types /\ JournalInv => TypeOK /\ SaveTypes
BY DEF TypeOK, SaveTypes, Types, JournalInv, JournalRecord, Sorted

\* A new runtime and a save that is none.
LEMMA IdleTypes == NewRuntime \in Runtime /\ Idle \in SaveRecord
<1>1. NewRuntime \in Runtime
  BY CheckpointAssumption DEF NewRuntime, Runtime, OpState
<1>. QED
  BY <1>1 DEF Idle, SaveRecord, Pcs

\* Every action keeps them; EventsSoFar bounds the version, the stamp and the faults.
LEMMA TypesPreserved ==
    TypeOK /\ SaveTypes /\ SequenceInv /\ PhaseInv /\ [Next]_vars => Types'
<1>. SUFFICES ASSUME TypeOK, SaveTypes, SequenceInv, PhaseInv, [Next]_vars PROVE Types'
  OBVIOUS
<1>a. Types /\ LastSequence \in Nat
  BY TypesHold, JournalInvHolds, LastSequenceNat DEF JournalInv
<1>. USE CheckpointAssumption
<1>b. EventsSoFar < MaxEvents => stamp < MaxEvents /\ faults < MaxEvents
  BY <1>a DEF EventsSoFar, Types, Runtime
<1>c. NewRuntime \in Runtime /\ Idle \in SaveRecord
  BY IdleTypes
<1>1. ASSUME NEW o \in Ops, OpStart(o) PROVE Types'
  <2>1. mem' \in Runtime
    BY <1>1, <1>a DEF OpStart, Types, Runtime, OpState
  <2>2. Event("request", o) \in Events /\ Event("request", o).effect \in Ops
    BY EventTypes DEF Effects, Kinds
  <2>3. behind' \in Seq(Events) /\ \A i \in 1..Len(behind') : behind'[i].effect \in Ops
    BY <1>1, <1>a, <2>2 DEF OpStart, Types
  <2>. QED
    BY <1>1, <1>a, <2>1, <2>3 DEF OpStart, Types, session, history
<1>2. ASSUME NEW o \in Ops, OpEnd(o) PROVE Types'
  <2>1. mem' \in Runtime
    BY <1>2, <1>a DEF OpEnd, Types, Runtime, OpState
  <2>2. PICK kind \in {"result", "failed"} : behind' = Append(behind, Event(kind, o))
    BY <1>2 DEF OpEnd
  <2>3. Event(kind, o) \in Events /\ Event(kind, o).effect \in Ops
    BY EventTypes DEF Effects, Kinds
  <2>4. behind' \in Seq(Events) /\ \A i \in 1..Len(behind') : behind'[i].effect \in Ops
    BY <1>a, <2>2, <2>3 DEF Types
  <2>. QED
    BY <1>2, <1>a, <2>1, <2>4 DEF OpEnd, Types, session, history
<1>3. ASSUME NEW o \in Ops, CloseSuperseded(o) PROVE Types'
  BY <1>3, <1>a DEF CloseSuperseded, Close, AppendRecord, Types, session, history
<1>4. ASSUME NEW o \in Ops, RecordInterrupted(o) PROVE Types'
  BY <1>4, <1>a DEF RecordInterrupted, Close, AppendRecord, Types, session, history
<1>5. ASSUME NEW e \in Checkpoints, Terminalize(e) PROVE Types'
  BY <1>5, <1>a DEF Terminalize, Close, AppendRecord, Types, session, history
<1>6. CASE Signal
  <2>1. mem' \in Runtime
    BY <1>6, <1>a DEF Signal, EventsSoFar, Types, Runtime
  <2>. QED
    BY <1>6, <1>a, <2>1 DEF Signal, Types, session, history
<1>7. CASE WriteBehind
  <2>1. behind' \in Seq(Events) /\ \A i \in 1..Len(behind') : behind'[i].effect \in Ops
    BY <1>7, <1>a DEF WriteBehind, Types
  <2>. QED
    BY <1>7, <1>a, <2>1 DEF WriteBehind, Types, session, history
<1>8. CASE WriteBehindFails
  <2>1. behind' \in Seq(Events) /\ \A i \in 1..Len(behind') : behind'[i].effect \in Ops
    BY <1>8, <1>a DEF WriteBehindFails, Types
  <2>2. Head(behind).effect \in Ops
    BY <1>8, <1>a DEF WriteBehindFails, Types
  <2>3. faults' \in 0..MaxEvents
    BY <1>8, <1>a, <1>b DEF WriteBehindFails, Fault, Types
  <2>. QED
    BY <1>8, <1>a, <2>1, <2>2, <2>3 DEF WriteBehindFails, Types, session, history
<1>9. CASE AppendHead
  BY <1>9, <1>a DEF AppendHead, Types, session, history
<1>10. CASE SealProgress
  <2>1. stamp' \in 0..MaxEvents
    BY <1>10, <1>a, <1>b DEF SealProgress, Types
  <2>. QED
    BY <1>10, <1>a, <2>1 DEF SealProgress, Types, session, history
<1>11. CASE SaveBegin
  <2>1. save' \in SaveRecord
    BY <1>11, <1>a DEF SaveBegin, Types, SaveRecord, Pcs
  <2>. QED
    BY <1>11, <1>a, <2>1 DEF SaveBegin, Types, session, history
<1>12. CASE ReadSuperseded
  <2>1. save' \in SaveRecord
    BY <1>12, <1>a DEF ReadSuperseded, Types, SaveRecord, Pcs
  <2>2. toClose' \in SUBSET Effects
    BY <1>12 DEF ReadSuperseded, Superseded, PendingIn, Effects
  <2>. QED
    BY <1>12, <1>a, <2>1, <2>2 DEF ReadSuperseded, Types, session, history
<1>13. CASE Serialise
  <2>1. save' \in SaveRecord
    BY <1>13, <1>a DEF Serialise, Types, SaveRecord, Pcs
  <2>. QED
    BY <1>13, <1>a, <2>1 DEF Serialise, Types, session, history
<1>14. CASE CheckPending
  <2>1. save' \in SaveRecord
    BY <1>14, <1>a DEF CheckPending, Types, SaveRecord, Pcs
  <2>. QED
    BY <1>14, <1>a, <2>1 DEF CheckPending, Types, session, history
<1>15. CASE SkipPending
  BY <1>15, <1>a, <1>c DEF SkipPending, Types, session, history
<1>16. CASE RequestCheckpoint
  <2>1. save' \in SaveRecord
    BY <1>16, <1>a DEF RequestCheckpoint, Types, SaveRecord, Pcs
  <2>2. saves' \in 0..MaxSaves
    BY <1>16, <1>a DEF RequestCheckpoint, Saving, PhaseInv, BeforeWriter, Types
  <2>. QED
    BY <1>16, <1>a, <2>1, <2>2 DEF RequestCheckpoint, Types, session, history
<1>17. CASE FlushConversation
  <2>1. save' \in SaveRecord
    BY <1>17, <1>a DEF FlushConversation, Types, SaveRecord, Pcs
  <2>2. stamp' \in 0..MaxEvents
    BY <1>17, <1>a, <1>b DEF FlushConversation, Types
  <2>. QED
    BY <1>17, <1>a, <2>1, <2>2 DEF FlushConversation, Types, session, history
<1>18. CASE WriteFibers
  <2>1. save' \in SaveRecord /\ fibers' \in Runtime
    BY <1>18, <1>a DEF WriteFibers, Types, SaveRecord, Pcs
  <2>. QED
    BY <1>18, <1>a, <2>1 DEF WriteFibers, Types, session, history
<1>19. CASE WriteVm
  <2>1. save' \in SaveRecord /\ save.image \in Runtime
    BY <1>19, <1>a DEF WriteVm, Types, SaveRecord, Pcs
  <2>2. vm' \in 0..MaxEvents
    BY <1>19, <2>1 DEF WriteVm, Runtime
  <2>. QED
    BY <1>19, <1>a, <2>1, <2>2 DEF WriteVm, Types, session, history
<1>20. CASE RecordResult
  <2>1. save' \in SaveRecord
    BY <1>20, <1>a DEF RecordResult, Types, SaveRecord, Pcs
  <2>. QED
    BY <1>20, <1>a, <2>1 DEF RecordResult, Types, session, history
<1>21. CASE ReadHeads
  <2>1. MarkerNow \in Marker
    BY <1>21, <1>a DEF ReadHeads, Saving, PhaseInv, Types, MarkerNow, Marker
  <2>2. save' \in SaveRecord
    BY <1>21, <1>a, <2>1 DEF ReadHeads, Types, SaveRecord, Pcs
  <2>. QED
    BY <1>21, <1>a, <2>2 DEF ReadHeads, Types, session, history
<1>22. CASE CommitByPort
  <2>1. save.heads \in Marker
    BY <1>22 DEF CommitByPort, Committing, PhaseInv, InCommit
  <2>2. commit' \in Commit
    BY <1>22, <2>1 DEF CommitByPort, Commit
  <2>3. save' \in SaveRecord
    BY <1>22, <1>a DEF CommitByPort, Types, SaveRecord, Pcs
  <2>. QED
    BY <1>22, <1>a, <2>2, <2>3 DEF CommitByPort, Types, session, history
<1>23. CASE CommitWithSequence
  <2>1. save.heads \in Marker
    BY <1>23 DEF CommitWithSequence, Committing, PhaseInv, InCommit
  <2>2. commit' \in Commit
    BY <1>23, <1>a, <2>1 DEF CommitWithSequence, Commit, Types, SaveRecord
  <2>3. save' \in SaveRecord
    BY <1>23, <1>a DEF CommitWithSequence, Types, SaveRecord, Pcs
  <2>. QED
    BY <1>23, <1>a, <2>2, <2>3 DEF CommitWithSequence, Types, session, history
<1>24. CASE WriteUpgrade
  <2>1. upgrade' \in Marker
    BY <1>24 DEF WriteUpgrade, Committing, PhaseInv, InCommit
  <2>2. saved' \in BOOLEAN /\ proc' \in {"up", "down", "recovering", "upgrading"}
    BY <1>24, <1>a DEF WriteUpgrade, Types
  <2>. QED
    BY <1>24, <1>a, <1>c, <2>1, <2>2 DEF WriteUpgrade, Types, session, history
<1>25. CASE SaveFails
  <2>1. faults' \in 0..MaxEvents
    BY <1>25, <1>a, <1>b DEF SaveFails, Fault, Types
  <2>. QED
    BY <1>25, <1>a, <1>c, <2>1 DEF SaveFails, Types, session, history
<1>26. CASE Crash
  <2>1. faults' \in 0..MaxEvents
    BY <1>26, <1>a, <1>b DEF Crash, Fault, Types
  <2>2. behind' \in Seq(Events) /\ \A i \in 1..Len(behind') : behind'[i].effect \in Ops
    BY <1>26 DEF Crash
  <2>. QED
    BY <1>26, <1>a, <1>c, <2>1, <2>2 DEF Crash, Types, session, history
<1>27. CASE StartAfresh
  <2>1. mem' \in Runtime
    BY <1>27, <1>c DEF StartAfresh, Runtime, OpState, NewRuntime
  <2>. QED
    BY <1>27, <1>a, <2>1 DEF StartAfresh, Types, session, history
<1>28. CASE Recover
  <2>1. mem' \in Runtime
    BY <1>28, <1>a DEF Recover, Runtime, OpState, Types
  <2>2. toClose' \in SUBSET Effects
    BY <1>28 DEF Recover, InflightOnDisk, Effects
  <2>. QED
    BY <1>28, <1>a, <2>1, <2>2 DEF Recover, Types, session, history
<1>29. CASE Recovered
  BY <1>29, <1>a DEF Recovered, Types, session, history
<1>30. CASE ApplyUpgrade
  <2>1. save' \in SaveRecord
    BY <1>30, <1>a DEF ApplyUpgrade, Types, SaveRecord, Pcs
  <2>2. toClose' \in SUBSET Effects
    BY <1>30 DEF ApplyUpgrade, PendingIn, Effects
  <2>. QED
    BY <1>30, <1>a, <2>1, <2>2 DEF ApplyUpgrade, Types, session, history
<1>31. CASE UpgradeHeads
  <2>1. MarkerNow \in Marker
    BY <1>31, <1>a DEF UpgradeHeads, Committing, PhaseInv, Types, MarkerNow, Marker
  <2>2. save' \in SaveRecord
    BY <1>31, <1>a, <2>1 DEF UpgradeHeads, Types, SaveRecord, Pcs
  <2>. QED
    BY <1>31, <1>a, <2>2 DEF UpgradeHeads, Types, session, history
<1>32. CASE UNCHANGED vars
  BY <1>32, <1>a DEF vars, Types, session, history
<1>33. CASE AppendFails
  <2>1. faults' \in 0..MaxEvents
    BY <1>33, <1>a, <1>b DEF AppendFails, Fault, Types
  <2>. QED
    BY <1>33, <1>a, <1>c, <2>1 DEF AppendFails, Types, session, history
<1>. QED
  BY <1>1, <1>2, <1>3, <1>4, <1>5, <1>6, <1>7, <1>8, <1>9, <1>10, <1>11, <1>12, <1>13,
     <1>14, <1>15, <1>16, <1>17, <1>18, <1>19, <1>20, <1>21, <1>22, <1>23, <1>24, <1>25,
     <1>26, <1>27, <1>28, <1>29, <1>30, <1>31, <1>32, <1>33 DEF Next

\* The sequences that a commit names, or is about to name, are at most LastSequence.
Committed ==
    /\ save.sequence <= LastSequence
    /\ commit # None /\ commit.sequence # None => commit.sequence <= LastSequence

\* SequenceInv is the journal's part and Committed.
LEMMA SequenceInvParts ==
    SequenceInv <=> /\ \A i \in 1..Len(journal) : journal[i].sequence <= LastSequence + 1
                    /\ appending # None => LastSequence <= appending.sequence
                    /\ Committed
BY DEF SequenceInv, Committed

\* A commit takes its sequence from save.sequence, and that is read from LastSequence.
LEMMA CommittedPreserved ==
    ASSUME TypeOK, SaveTypes, SequenceInv, PhaseInv, [Next]_vars
    PROVE  Committed'
<1>a. LastSequence \in Nat /\ LastSequence' \in Nat /\ LastSequence <= LastSequence'
  BY JournalInvHolds, NextIsJournalStep, JournalPreserved, LastSequenceNat DEF JournalInv
<1>b. /\ save \in SaveRecord /\ save.sequence \in Nat
      /\ Committed
      /\ commit # None /\ commit.sequence # None => commit.sequence \in Nat
  BY SequenceInvParts DEF SaveTypes, SaveRecord, TypeOK, Commit
<1>1. ASSUME NEW o \in Ops, OpStart(o) PROVE Committed'
  BY <1>1, <1>a, <1>b DEF OpStart, Committed, session
<1>2. ASSUME NEW o \in Ops, OpEnd(o) PROVE Committed'
  BY <1>2, <1>a, <1>b DEF OpEnd, Committed, session
<1>3. ASSUME NEW o \in Ops, CloseSuperseded(o) PROVE Committed'
  BY <1>3, <1>a, <1>b DEF CloseSuperseded, Close, Committed, session
<1>4. ASSUME NEW o \in Ops, RecordInterrupted(o) PROVE Committed'
  BY <1>4, <1>a, <1>b DEF RecordInterrupted, Close, Committed, session
<1>5. ASSUME NEW e \in Checkpoints, Terminalize(e) PROVE Committed'
  BY <1>5, <1>a, <1>b DEF Terminalize, Close, Committed, session
<1>6. CASE Signal
  BY <1>6, <1>a, <1>b DEF Signal, Committed, session
<1>7. CASE WriteBehind
  BY <1>7, <1>a, <1>b DEF WriteBehind, Committed, session
<1>8. CASE WriteBehindFails
  BY <1>8, <1>a, <1>b DEF WriteBehindFails, Committed, session
<1>9. CASE AppendHead
  BY <1>9, <1>a, <1>b DEF AppendHead, Committed, session
<1>10. CASE SealProgress
  BY <1>10, <1>a, <1>b DEF SealProgress, Committed, session
<1>11. CASE SaveBegin
  BY <1>11, <1>a, <1>b DEF SaveBegin, Committed, SaveRecord, session
<1>12. CASE ReadSuperseded
  BY <1>12, <1>a, <1>b DEF ReadSuperseded, Committed, SaveRecord, session
<1>13. CASE Serialise
  BY <1>13, <1>a, <1>b DEF Serialise, Committed, SaveRecord, session
<1>14. CASE CheckPending
  BY <1>14, <1>a, <1>b DEF CheckPending, Committed, SaveRecord, session
<1>15. CASE SkipPending
  BY <1>15, <1>a, <1>b DEF SkipPending, Idle, Committed, session
<1>16. CASE RequestCheckpoint
  BY <1>16, <1>a, <1>b DEF RequestCheckpoint, Committed, SaveRecord, session
<1>17. CASE FlushConversation
  BY <1>17, <1>a, <1>b DEF FlushConversation, Committed, SaveRecord, session
<1>18. CASE WriteFibers
  BY <1>18, <1>a, <1>b DEF WriteFibers, Committed, SaveRecord, session
<1>19. CASE WriteVm
  BY <1>19, <1>a, <1>b DEF WriteVm, Committed, SaveRecord, session
<1>20. CASE RecordResult
  BY <1>20, <1>a, <1>b DEF RecordResult, Committed, SaveRecord, session
<1>21. CASE ReadHeads
  BY <1>21, <1>a, <1>b DEF ReadHeads, Committed, SaveRecord, session
<1>22. CASE CommitByPort
  <2>1. save'.sequence = IF proc = "upgrading" THEN LastSequence ELSE save.sequence
    BY <1>22, <1>b DEF CommitByPort, SaveRecord
  <2>2. commit'.sequence = None
    BY <1>22 DEF CommitByPort
  <2>. QED
    BY <1>a, <1>b, <2>1, <2>2 DEF Committed
<1>23. CASE CommitWithSequence
  <2>1. save'.sequence = save.sequence
    BY <1>23, <1>b DEF CommitWithSequence, SaveRecord
  <2>2. commit'.sequence = save.sequence
    BY <1>23 DEF CommitWithSequence
  <2>. QED
    BY <1>a, <1>b, <2>1, <2>2 DEF Committed
<1>24. CASE WriteUpgrade
  BY <1>24, <1>a, <1>b DEF WriteUpgrade, Idle, Committed, session
<1>25. CASE SaveFails
  BY <1>25, <1>a, <1>b DEF SaveFails, Idle, Committed, session
<1>26. CASE Crash
  BY <1>26, <1>a, <1>b DEF Crash, Idle, Committed, session
<1>27. CASE StartAfresh
  BY <1>27, <1>a, <1>b DEF StartAfresh, Committed, session
<1>28. CASE Recover
  BY <1>28, <1>a, <1>b DEF Recover, Committed, session
<1>29. CASE Recovered
  BY <1>29, <1>a, <1>b DEF Recovered, Committed, session
<1>30. CASE ApplyUpgrade
  BY <1>30, <1>a, <1>b DEF ApplyUpgrade, Committed, SaveRecord, session
<1>31. CASE UpgradeHeads
  BY <1>31, <1>a, <1>b DEF UpgradeHeads, Committed, SaveRecord, session
<1>32. CASE UNCHANGED vars
  BY <1>32, <1>a, <1>b DEF vars, Committed, session
<1>33. CASE AppendFails
  BY <1>33, <1>a, <1>b DEF AppendFails, Idle, Committed, session
<1>. QED
  BY <1>1, <1>2, <1>3, <1>4, <1>5, <1>6, <1>7, <1>8, <1>9, <1>10, <1>11, <1>12, <1>13,
     <1>14, <1>15, <1>16, <1>17, <1>18, <1>19, <1>20, <1>21, <1>22, <1>23, <1>24, <1>25,
     <1>26, <1>27, <1>28, <1>29, <1>30, <1>31, <1>32, <1>33 DEF Next

\* Types and sequences are kept together.
LEMMA SequenceInvPreserved ==
    ASSUME TypeOK, SaveTypes, SequenceInv, PhaseInv, [Next]_vars
    PROVE  TypeOK' /\ SaveTypes' /\ SequenceInv'
<1>1. JournalInv'
  BY JournalInvHolds, NextIsJournalStep, JournalPreserved
<1>2. Types'
  BY TypesPreserved
<1>3. TypeOK' /\ SaveTypes'
  BY <1>1, <1>2 DEF TypeOK, SaveTypes, Types, JournalInv, JournalRecord, Sorted
<1>4. Committed'
  BY CommittedPreserved
<1>. QED
  BY <1>1, <1>3, <1>4 DEF SequenceInv, Committed, JournalInv

\* The process and the step of its save move together.
LEMMA PhaseInvPreserved ==
    ASSUME TypeOK, SaveTypes, PhaseInv, [Next]_vars
    PROVE  PhaseInv'
<1>a. /\ save \in SaveRecord
      /\ proc \in {"up", "down", "recovering", "upgrading"}
      /\ vm \in 0..MaxEvents \cup {None} /\ stamp \in 0..MaxEvents
      /\ saves \in 0..MaxSaves
      /\ PhaseInv
  BY DEF TypeOK, SaveTypes
<1>1. ASSUME NEW o \in Ops, OpStart(o) PROVE PhaseInv'
  BY <1>1, <1>a DEF OpStart, PhaseInv, BeforeWriter, InWriter, InCommit, session
<1>2. ASSUME NEW o \in Ops, OpEnd(o) PROVE PhaseInv'
  BY <1>2, <1>a DEF OpEnd, PhaseInv, BeforeWriter, InWriter, InCommit, session
<1>3. ASSUME NEW o \in Ops, CloseSuperseded(o) PROVE PhaseInv'
  BY <1>3, <1>a DEF CloseSuperseded, Close, PhaseInv, BeforeWriter, InWriter, InCommit, session
<1>4. ASSUME NEW o \in Ops, RecordInterrupted(o) PROVE PhaseInv'
  BY <1>4, <1>a DEF RecordInterrupted, Close, PhaseInv, BeforeWriter, InWriter, InCommit, session
<1>5. ASSUME NEW e \in Checkpoints, Terminalize(e) PROVE PhaseInv'
  BY <1>5, <1>a DEF Terminalize, Close, PhaseInv, BeforeWriter, InWriter, InCommit, session
<1>6. CASE Signal
  BY <1>6, <1>a DEF Signal, PhaseInv, BeforeWriter, InWriter, InCommit, session
<1>7. CASE WriteBehind
  BY <1>7, <1>a DEF WriteBehind, PhaseInv, BeforeWriter, InWriter, InCommit, session
<1>8. CASE WriteBehindFails
  BY <1>8, <1>a DEF WriteBehindFails, PhaseInv, BeforeWriter, InWriter, InCommit, session
<1>9. CASE AppendHead
  BY <1>9, <1>a DEF AppendHead, PhaseInv, BeforeWriter, InWriter, InCommit, session
<1>10. CASE SealProgress
  BY <1>10, <1>a DEF SealProgress, PhaseInv, BeforeWriter, InWriter, InCommit, session
<1>11. CASE SaveBegin
  <2>1. proc = "up" /\ save.pc = "idle" /\ save'.pc = "reading" /\ save'.heads = save.heads
    BY <1>11, <1>a DEF SaveBegin, Saving, SaveRecord
  <2>. QED
    BY <1>11, <1>a, <2>1 DEF SaveBegin, PhaseInv, BeforeWriter, InWriter, InCommit, session
<1>12. CASE ReadSuperseded
  <2>1. proc = "up" /\ save.pc = "reading" /\ save'.pc = "closing" /\ save'.heads = save.heads
    BY <1>12, <1>a DEF ReadSuperseded, Saving, SaveRecord
  <2>. QED
    BY <1>12, <1>a, <2>1 DEF ReadSuperseded, PhaseInv, BeforeWriter, InWriter, InCommit, session
<1>13. CASE Serialise
  <2>1. proc = "up" /\ save.pc = "closing" /\ save'.pc = "checking" /\ save'.heads = save.heads
    BY <1>13, <1>a DEF Serialise, Saving, SaveRecord
  <2>. QED
    BY <1>13, <1>a, <2>1 DEF Serialise, PhaseInv, BeforeWriter, InWriter, InCommit, session
<1>14. CASE CheckPending
  <2>1. proc = "up" /\ save.pc = "checking" /\ save'.pc = "requesting" /\ save'.heads = save.heads
    BY <1>14, <1>a DEF CheckPending, Saving, SaveRecord
  <2>. QED
    BY <1>14, <1>a, <2>1 DEF CheckPending, PhaseInv, BeforeWriter, InWriter, InCommit, session
<1>15. CASE SkipPending
  BY <1>15, <1>a DEF SkipPending, Idle, Saving, Committing, PhaseInv, BeforeWriter, InWriter, InCommit, session
<1>16. CASE RequestCheckpoint
  <2>1. proc = "up" /\ save.pc = "requesting" /\ save'.pc = "flushing" /\ save'.heads = save.heads
    BY <1>16, <1>a DEF RequestCheckpoint, Saving, SaveRecord
  <2>. QED
    BY <1>16, <1>a, <2>1 DEF RequestCheckpoint, PhaseInv, BeforeWriter, InWriter, InCommit, session
<1>17. CASE FlushConversation
  <2>1. proc = "up" /\ save.pc = "flushing" /\ save'.pc = "fibers" /\ save'.heads = save.heads
    BY <1>17, <1>a DEF FlushConversation, Saving, SaveRecord
  <2>. QED
    BY <1>17, <1>a, <2>1 DEF FlushConversation, PhaseInv, BeforeWriter, InWriter, InCommit, session
<1>18. CASE WriteFibers
  <2>1. proc = "up" /\ save.pc = "fibers" /\ save'.pc = "vm" /\ save'.heads = save.heads
    BY <1>18, <1>a DEF WriteFibers, Saving, SaveRecord
  <2>. QED
    BY <1>18, <1>a, <2>1 DEF WriteFibers, PhaseInv, BeforeWriter, InWriter, InCommit, session
<1>19. CASE WriteVm
  <2>1. proc = "up" /\ save.pc = "vm" /\ save'.pc = "written"
    BY <1>19, <1>a DEF WriteVm, Saving, SaveRecord
  <2>2. vm' \in Int
    BY <1>19, <1>a DEF WriteVm, SaveRecord, Runtime
  <2>3. vm' # None
    BY <2>2, NoneAssumption
  <2>. QED
    BY <1>19, <1>a, <2>1, <2>3 DEF WriteVm, PhaseInv, BeforeWriter, InWriter, InCommit, session
<1>20. CASE RecordResult
  <2>1. proc = "up" /\ save.pc = "written" /\ save'.pc = "heads" /\ save'.heads = save.heads
    BY <1>20, <1>a DEF RecordResult, Saving, SaveRecord
  <2>. QED
    BY <1>20, <1>a, <2>1 DEF RecordResult, PhaseInv, BeforeWriter, InWriter, InCommit, session
<1>21. CASE ReadHeads
  <2>1. proc = "up" /\ save.pc = "heads" /\ save'.pc = "committing" /\ save'.heads = MarkerNow
    BY <1>21, <1>a DEF ReadHeads, Saving, SaveRecord
  <2>2. MarkerNow \in Marker
    BY <1>a, <2>1 DEF PhaseInv, MarkerNow, Marker
  <2>. QED
    BY <1>21, <1>a, <2>1, <2>2 DEF ReadHeads, PhaseInv, BeforeWriter, InWriter, InCommit, session
<1>22. CASE CommitByPort
  <2>1. proc \in {"up", "upgrading"} /\ save.pc = "committing" /\ save'.pc = "recommitting" /\ save'.heads = save.heads
    BY <1>22, <1>a DEF CommitByPort, Committing, SaveRecord
  <2>. QED
    BY <1>22, <1>a, <2>1 DEF CommitByPort, PhaseInv, BeforeWriter, InWriter, InCommit, session
<1>23. CASE CommitWithSequence
  <2>1. proc \in {"up", "upgrading"} /\ save.pc = "recommitting" /\ save'.pc = "marking" /\ save'.heads = save.heads
    BY <1>23, <1>a DEF CommitWithSequence, Committing, SaveRecord
  <2>. QED
    BY <1>23, <1>a, <2>1 DEF CommitWithSequence, PhaseInv, BeforeWriter, InWriter, InCommit, session
<1>24. CASE WriteUpgrade
  BY <1>24, <1>a DEF WriteUpgrade, Idle, Saving, Committing, PhaseInv, BeforeWriter, InWriter, InCommit, session
<1>25. CASE SaveFails
  BY <1>25, <1>a DEF SaveFails, Idle, Saving, Committing, PhaseInv, BeforeWriter, InWriter, InCommit, session
<1>26. CASE Crash
  BY <1>26, <1>a DEF Crash, Idle, Saving, Committing, PhaseInv, BeforeWriter, InWriter, InCommit, session
<1>27. CASE StartAfresh
  BY <1>27, <1>a DEF StartAfresh, Idle, PhaseInv, BeforeWriter, InWriter, InCommit, session
<1>28. CASE Recover
  BY <1>28, <1>a DEF Recover, Idle, PhaseInv, BeforeWriter, InWriter, InCommit, session
<1>29. CASE Recovered
  BY <1>29, <1>a DEF Recovered, Idle, PhaseInv, BeforeWriter, InWriter, InCommit, session
<1>30. CASE ApplyUpgrade
  <2>1. proc = "down" /\ proc' = "upgrading" /\ save'.pc = "terminalizing"
    BY <1>30, <1>a DEF ApplyUpgrade, SaveRecord
  <2>. QED
    BY <1>30, <1>a, <2>1 DEF ApplyUpgrade, PhaseInv, BeforeWriter, InWriter, InCommit, session
<1>31. CASE UpgradeHeads
  <2>1. save.pc = "terminalizing" /\ save'.pc = "committing" /\ save'.heads = MarkerNow
    BY <1>31, <1>a DEF UpgradeHeads, Committing, SaveRecord
  <2>2. MarkerNow \in Marker
    BY <1>a, <2>1 DEF PhaseInv, MarkerNow, Marker
  <2>. QED
    BY <1>31, <1>a, <2>1, <2>2 DEF UpgradeHeads, PhaseInv, BeforeWriter, InWriter, InCommit, session
<1>32. CASE UNCHANGED vars
  BY <1>32, <1>a DEF vars, PhaseInv, session
<1>33. CASE AppendFails
  BY <1>33, <1>a DEF AppendFails, Saving, Idle, PhaseInv, BeforeWriter, InWriter, InCommit, session
<1>. QED
  BY <1>1, <1>2, <1>3, <1>4, <1>5, <1>6, <1>7, <1>8, <1>9, <1>10, <1>11, <1>12, <1>13,
     <1>14, <1>15, <1>16, <1>17, <1>18, <1>19, <1>20, <1>21, <1>22, <1>23, <1>24, <1>25,
     <1>26, <1>27, <1>28, <1>29, <1>30, <1>31, <1>32, <1>33 DEF Next

\* The heads that a save commits are those of the files, which only the next save writes
\* again, and the evidence it covers has nothing pending and does not change.
LEMMA CommitInvPreserved ==
    ASSUME TypeOK, SaveTypes, SequenceInv, PhaseInv, CommitInv, [Next]_vars
    PROVE  CommitInv'
<1>a. /\ save \in SaveRecord /\ save.sequence \in Nat
      /\ proc \in {"up", "down", "recovering", "upgrading"}
      /\ stamp \in Nat
      /\ PhaseInv
  BY CheckpointAssumption DEF TypeOK, SaveTypes, SaveRecord
<1>b. CommitInv
  OBVIOUS
<1>c. /\ saved => PendingUpTo(journal', commit.sequence) = {}
      /\ \A n : n = save.sequence => PendingUpTo(journal', n) = PendingUpTo(journal, n)
  <2>1. \A n \in Nat : n <= LastSequence => PendingUpTo(journal', n) = PendingUpTo(journal, n)
    BY JournalInvHolds, NextIsJournalStep, UpToStable
  <2>2. save.sequence <= LastSequence
    BY DEF SequenceInv
  <2>3. saved => commit.sequence \in Nat /\ commit.sequence <= LastSequence
    BY NoneAssumption DEF SequenceInv, CommitInv
  <2>. QED
    BY <1>a, <1>b, <2>1, <2>2, <2>3 DEF CommitInv
<1>d. saved => commit.marker \in Marker /\ commit.marker.stamp \in Nat
  BY <1>b DEF CommitInv, Commit, Marker
<1>1. ASSUME NEW o \in Ops, OpStart(o) PROVE CommitInv'
  BY <1>1, <1>a, <1>b, <1>c DEF OpStart, CommitInv, HeadsMatch, session, history
<1>2. ASSUME NEW o \in Ops, OpEnd(o) PROVE CommitInv'
  BY <1>2, <1>a, <1>b, <1>c DEF OpEnd, CommitInv, HeadsMatch, session, history
<1>3. ASSUME NEW o \in Ops, CloseSuperseded(o) PROVE CommitInv'
  BY <1>3, <1>a, <1>b, <1>c DEF CloseSuperseded, Close, CommitInv, HeadsMatch, session, history
<1>4. ASSUME NEW o \in Ops, RecordInterrupted(o) PROVE CommitInv'
  BY <1>4, <1>a, <1>b, <1>c DEF RecordInterrupted, Close, CommitInv, HeadsMatch, session, history
<1>5. ASSUME NEW e \in Checkpoints, Terminalize(e) PROVE CommitInv'
  BY <1>5, <1>a, <1>b, <1>c DEF Terminalize, Close, CommitInv, HeadsMatch, session, history
<1>6. CASE Signal
  BY <1>6, <1>a, <1>b, <1>c DEF Signal, CommitInv, HeadsMatch, session, history
<1>7. CASE WriteBehind
  BY <1>7, <1>a, <1>b, <1>c DEF WriteBehind, CommitInv, HeadsMatch, session, history
<1>8. CASE WriteBehindFails
  BY <1>8, <1>a, <1>b, <1>c DEF WriteBehindFails, CommitInv, HeadsMatch, session, history
<1>9. CASE AppendHead
  BY <1>9, <1>a, <1>b, <1>c DEF AppendHead, CommitInv, HeadsMatch, session, history
<1>10. CASE SealProgress
  <2>1. stamp' >= stamp /\ stamp' \in Nat
    BY <1>10, <1>a DEF SealProgress
  <2>2. saved => stamp' >= commit.marker.stamp
    BY <1>a, <1>b, <1>d, <2>1 DEF CommitInv, HeadsMatch
  <2>. QED
    BY <1>10, <1>a, <1>b, <1>c, <2>2 DEF SealProgress, InCommit, CommitInv, HeadsMatch, session, history
<1>11. CASE SaveBegin
  <2>1. save.pc = "idle" /\ save'.pc = "reading"
    BY <1>11, <1>a DEF SaveBegin, Saving, SaveRecord
  <2>. QED
    BY <1>11, <1>a, <1>b, <1>c, <2>1 DEF SaveBegin, InCommit, CommitInv, HeadsMatch, session, history
<1>12. CASE ReadSuperseded
  <2>1. save.pc = "reading" /\ save'.pc = "closing"
    BY <1>12, <1>a DEF ReadSuperseded, Saving, SaveRecord
  <2>. QED
    BY <1>12, <1>a, <1>b, <1>c, <2>1 DEF ReadSuperseded, InCommit, CommitInv, HeadsMatch, session, history
<1>13. CASE Serialise
  <2>1. save.pc = "closing" /\ save'.pc = "checking"
    BY <1>13, <1>a DEF Serialise, Saving, SaveRecord
  <2>. QED
    BY <1>13, <1>a, <1>b, <1>c, <2>1 DEF Serialise, InCommit, CommitInv, HeadsMatch, session, history
<1>14. CASE CheckPending
  <2>1. save.pc = "checking" /\ save'.pc = "requesting"
    BY <1>14, <1>a DEF CheckPending, Saving, SaveRecord
  <2>. QED
    BY <1>14, <1>a, <1>b, <1>c, <2>1 DEF CheckPending, InCommit, CommitInv, HeadsMatch, session, history
<1>15. CASE SkipPending
  BY <1>15, <1>a, <1>b, <1>c DEF SkipPending, Idle, InCommit, CommitInv, HeadsMatch, session, history
<1>16. CASE RequestCheckpoint
  <2>1. save.pc = "requesting" /\ save'.pc = "flushing"
    BY <1>16, <1>a DEF RequestCheckpoint, Saving, SaveRecord
  <2>. QED
    BY <1>16, <1>a, <1>b, <1>c, <2>1 DEF RequestCheckpoint, InCommit, CommitInv, HeadsMatch, session, history
<1>17. CASE FlushConversation
  <2>1. save.pc = "flushing" /\ save'.pc = "fibers"
    BY <1>17, <1>a DEF FlushConversation, Saving, SaveRecord
  <2>2. stamp' >= stamp /\ stamp' \in Nat
    BY <1>17, <1>a DEF FlushConversation
  <2>3. saved => stamp' >= commit.marker.stamp
    BY <1>a, <1>b, <1>d, <2>2 DEF CommitInv, HeadsMatch
  <2>. QED
    BY <1>17, <1>a, <1>b, <1>c, <2>1, <2>3 DEF FlushConversation, InCommit, CommitInv, HeadsMatch, session, history
<1>18. CASE WriteFibers
  <2>1. save.pc = "fibers" /\ save'.pc = "vm"
    BY <1>18, <1>a DEF WriteFibers, Saving, SaveRecord
  <2>. QED
    BY <1>18, <1>a, <1>b, <1>c, <2>1 DEF WriteFibers, InCommit, CommitInv, HeadsMatch, session, history
<1>19. CASE WriteVm
  <2>1. save.pc = "vm" /\ save'.pc = "written"
    BY <1>19, <1>a DEF WriteVm, Saving, SaveRecord
  <2>. QED
    BY <1>19, <1>a, <1>b, <1>c, <2>1 DEF WriteVm, InCommit, CommitInv, HeadsMatch, session, history
<1>20. CASE RecordResult
  <2>1. save.pc = "written" /\ save'.pc = "heads"
    BY <1>20, <1>a DEF RecordResult, Saving, SaveRecord
  <2>. QED
    BY <1>20, <1>a, <1>b, <1>c, <2>1 DEF RecordResult, InCommit, CommitInv, HeadsMatch, session, history
<1>21. CASE ReadHeads
  <2>1. save.pc = "heads" /\ save'.pc = "committing" /\ save'.heads = MarkerNow /\ save'.sequence = save.sequence
    BY <1>21, <1>a DEF ReadHeads, Saving, SaveRecord
  <2>2. vm = MarkerNow.version /\ stamp >= MarkerNow.stamp
    BY <1>a DEF MarkerNow
  <2>3. PendingUpTo(journal, save.sequence) = {}
    BY <1>21, PendingUpToThrough DEF ReadHeads
  <2>. QED
    BY <1>21, <1>a, <1>b, <1>c, <2>1, <2>2, <2>3 DEF ReadHeads, InCommit, CommitInv, HeadsMatch, session, history
<1>22. CASE CommitByPort
  <2>1. /\ save.pc = "committing" /\ save'.pc = "recommitting" /\ save'.heads = save.heads
        /\ proc = "up" => save'.sequence = save.sequence
    BY <1>22, <1>a DEF CommitByPort, Committing, SaveRecord
  <2>2. commit' \in Commit /\ commit'.marker = save.heads
    BY <1>22, <1>a, <2>1 DEF CommitByPort, Commit, PhaseInv, InCommit
  <2>. QED
    BY <1>22, <1>a, <1>b, <1>c, <2>1, <2>2 DEF CommitByPort, InCommit, CommitInv, HeadsMatch, session, history
<1>23. CASE CommitWithSequence
  <2>1. /\ save.pc = "recommitting" /\ save'.pc = "marking" /\ save'.heads = save.heads
        /\ save'.sequence = save.sequence
    BY <1>23, <1>a DEF CommitWithSequence, Committing, SaveRecord
  <2>2. commit' \in Commit /\ commit'.marker = save.heads /\ commit'.sequence = save.sequence
    BY <1>23, <1>a, <2>1 DEF CommitWithSequence, Commit, PhaseInv, InCommit, SaveRecord
  <2>. QED
    BY <1>23, <1>a, <1>b, <1>c, <2>1, <2>2 DEF CommitWithSequence, InCommit, CommitInv, HeadsMatch, session, history
<1>24. CASE WriteUpgrade
  <2>1. save.pc = "marking" /\ save'.pc = "idle"
    BY <1>24, <1>a DEF WriteUpgrade, Committing, Idle
  <2>2. /\ commit \in Commit /\ commit.marker = save.heads /\ commit.sequence = save.sequence
        /\ save.sequence \in Nat
        /\ ~ saved
    BY <1>a, <1>b, <2>1 DEF CommitInv, InCommit, SaveRecord
  <2>3. CASE proc = "up"
    <3>1. HeadsMatch(commit.marker) /\ PendingUpTo(journal', commit.sequence) = {}
      BY <1>a, <1>b, <1>c, <2>1, <2>2, <2>3 DEF CommitInv, InCommit
    <3>. QED
      BY <1>24, <1>a, <2>1, <2>2, <2>3, <3>1 DEF WriteUpgrade, InCommit, CommitInv, HeadsMatch, session, history
  <2>4. CASE proc # "up"
    BY <1>24, <1>a, <2>1, <2>2, <2>4 DEF WriteUpgrade, InCommit, CommitInv, HeadsMatch, session, history
  <2>. QED
    BY <2>3, <2>4
<1>25. CASE SaveFails
  BY <1>25, <1>a, <1>b, <1>c DEF SaveFails, Idle, InCommit, CommitInv, HeadsMatch, session, history
<1>26. CASE Crash
  BY <1>26, <1>a, <1>b, <1>c DEF Crash, Idle, InCommit, CommitInv, HeadsMatch, session, history
<1>27. CASE StartAfresh
  BY <1>27, <1>a, <1>b, <1>c DEF StartAfresh, PhaseInv, Idle, InCommit, CommitInv, HeadsMatch, session, history
<1>28. CASE Recover
  BY <1>28, <1>a, <1>b, <1>c DEF Recover, PhaseInv, Idle, InCommit, CommitInv, HeadsMatch, session, history
<1>29. CASE Recovered
  BY <1>29, <1>a, <1>b, <1>c DEF Recovered, PhaseInv, Idle, InCommit, CommitInv, HeadsMatch, session, history
<1>30. CASE ApplyUpgrade
  <2>1. save'.pc = "terminalizing"
    BY <1>30, <1>a DEF ApplyUpgrade, SaveRecord
  <2>2. ~ saved
    <3>1. SUFFICES ASSUME saved PROVE FALSE
      OBVIOUS
    <3>2. upgrade = commit.marker /\ upgrade # None
      BY <1>b, <3>1, <1>d, NoneAssumption DEF CommitInv
    <3>. QED
      BY <1>30, <3>2 DEF ApplyUpgrade, Upgradable
  <2>. QED
    BY <1>30, <1>a, <1>b, <2>1, <2>2 DEF ApplyUpgrade, InCommit, CommitInv, HeadsMatch, session, history
<1>31. CASE UpgradeHeads
  <2>1. save.pc = "terminalizing" /\ save'.pc = "committing"
    BY <1>31, <1>a DEF UpgradeHeads, Committing, SaveRecord
  <2>2. proc = "upgrading"
    BY <1>a, <2>1 DEF PhaseInv
  <2>. QED
    BY <1>31, <1>a, <1>b, <1>c, <2>1, <2>2 DEF UpgradeHeads, InCommit, CommitInv, HeadsMatch, session, history
<1>32. CASE UNCHANGED vars
  BY <1>32, <1>a, <1>b, <1>c DEF vars, CommitInv, HeadsMatch, session, history
<1>33. CASE AppendFails
  BY <1>33, <1>a, <1>b, <1>c DEF AppendFails, Idle, InCommit, CommitInv, HeadsMatch, session, history
<1>. QED
  BY <1>1, <1>2, <1>3, <1>4, <1>5, <1>6, <1>7, <1>8, <1>9, <1>10, <1>11, <1>12, <1>13,
     <1>14, <1>15, <1>16, <1>17, <1>18, <1>19, <1>20, <1>21, <1>22, <1>23, <1>24, <1>25,
     <1>26, <1>27, <1>28, <1>29, <1>30, <1>31, <1>32, <1>33 DEF Next

\* What the replay of the whole journal leaves pending, by ReplayPending.
LEMMA PendingOp ==
    ASSUME JournalInv
    PROVE  \A e : Rebuilt(journal, e).status = "requested" <=> Unanswered(journal, e, Len(journal))
<1>1. Len(journal) \in Nat /\ DOMAIN journal = 1..Len(journal)
  BY DEF JournalInv
<1>2. \A i \in 1..Len(journal) : journal[i].event.kind \in Kinds
  BY RecordsOf, EventTypes DEF JournalInv
<1>. QED
  BY <1>1, <1>2, ReplayPending DEF Rebuilt

\* An operation that is pending after an append was requested by it, or was pending before
\* and the record is of another.
LEMMA UnansweredAfterAppend ==
    ASSUME JournalInv, NEW ev \in Events, NEW by \in {"agents", "save"}, AppendRecord(ev, by), NEW o,
           Unanswered(journal', o, Len(journal'))
    PROVE  \/ ev.effect = o /\ ev.kind = "request"
           \/ ev.effect # o /\ Unanswered(journal, o, Len(journal))
<1>1. /\ Len(journal') = Len(journal) + 1
      /\ \A i \in 1..Len(journal) : journal'[i] = journal[i]
      /\ journal'[Len(journal) + 1] = Record(LastSequence + 1, ev)
  BY AppendedRecord
<1>2. Len(journal) \in Nat
  BY DEF JournalInv
<1>3. journal'[Len(journal) + 1].event = ev
  BY <1>1 DEF Record
<1>4. PICK i \in 1..Len(journal') :
          /\ journal'[i].event.effect = o
          /\ journal'[i].event.kind = "request"
          /\ \A j \in 1..Len(journal') :
                journal'[j].event.effect = o =>
                    /\ journal'[j].event.kind # "result"
                    /\ journal'[j].event.kind = "failed" => j < i
  BY DEF Unanswered, OwnUpTo
<1>5. CASE ev.effect = o
  <2>1. ev.kind \in Kinds
    BY EventTypes
  <2>2. ev.kind # "result" /\ (ev.kind = "failed" => Len(journal) + 1 < i)
    BY <1>1, <1>2, <1>3, <1>4, <1>5
  <2>. QED
    BY <1>1, <1>2, <1>5, <2>1, <2>2 DEF Kinds
<1>6. CASE ev.effect # o
  <2>1. i \in 1..Len(journal)
    BY <1>1, <1>2, <1>3, <1>4, <1>6
  <2>2. /\ journal[i].event.effect = o
        /\ journal[i].event.kind = "request"
        /\ \A j \in 1..Len(journal) :
                journal[j].event.effect = o =>
                    /\ journal[j].event.kind # "result"
                    /\ journal[j].event.kind = "failed" => j < i
    BY <1>1, <1>2, <1>4, <2>1
  <2>. QED
    BY <1>6, <2>1, <2>2 DEF Unanswered, OwnUpTo
<1>. QED
  BY <1>5, <1>6

\* Taking the first event off the queue leaves the rest in order.
LEMMA QueueAfterTail ==
    ASSUME QueueInv, mem' = mem, Len(behind) \in Nat, Len(behind) # 0,
           Len(behind') = Len(behind) - 1,
           \A j \in 1..Len(behind') : behind'[j] = behind[j + 1]
    PROVE  QueueInv'
<1>1. SUFFICES ASSUME NEW i \in 1..Len(behind'), behind'[i].kind = "request",
                      mem'.ops[behind'[i].effect] # "running"
               PROVE  \E j \in 1..Len(behind') : i < j /\ behind'[j].effect = behind'[i].effect
  BY DEF QueueInv
<1>2. i + 1 \in 1..Len(behind) /\ behind'[i] = behind[i + 1]
  OBVIOUS
<1>3. PICK j \in 1..Len(behind) : i + 1 < j /\ behind[j].effect = behind[i + 1].effect
  BY <1>1, <1>2 DEF QueueInv
<1>4. j - 1 \in 1..Len(behind') /\ i < j - 1 /\ behind'[j - 1] = behind[j]
  BY <1>2, <1>3
<1>. QED
  BY <1>2, <1>3, <1>4

\* An operation ends once, and its end is queued behind its request.
LEMMA QueueInvPreserved ==
    ASSUME TypeOK, SaveTypes, PhaseInv, QueueInv, [Next]_vars
    PROVE  QueueInv'
<1>a. /\ mem \in Runtime
      /\ behind \in Seq(Events)
      /\ \A i \in 1..Len(behind) : behind[i].effect \in Ops
  BY DEF TypeOK, SaveTypes
<1>1. ASSUME NEW o \in Ops, OpStart(o) PROVE QueueInv'
  <2>1. /\ behind' = Append(behind, Event("request", o))
        /\ mem'.ops[o] = "running"
        /\ \A p \in Ops : mem.ops[p] = "running" => mem'.ops[p] = "running"
    BY <1>1, <1>a DEF OpStart, Runtime
  <2>2. Event("request", o) \in Events /\ Event("request", o).effect = o
    BY EventTypes DEF Effects, Kinds
  <2>3. SUFFICES ASSUME NEW i \in 1..Len(behind'), behind'[i].kind = "request"
                 PROVE  \/ mem'.ops[behind'[i].effect] = "running"
                        \/ \E j \in 1..Len(behind') : i < j /\ behind'[j].effect = behind'[i].effect
    BY DEF QueueInv
  <2>4. CASE i = Len(behind) + 1
    BY <1>a, <2>1, <2>2, <2>4
  <2>5. CASE i \in 1..Len(behind)
    <3>1. behind'[i] = behind[i] /\ behind[i].effect \in Ops
      BY <1>a, <2>1, <2>2, <2>5
    <3>2. CASE mem.ops[behind[i].effect] = "running"
      BY <2>1, <3>1, <3>2
    <3>3. CASE \E j \in 1..Len(behind) : i < j /\ behind[j].effect = behind[i].effect
      BY <1>a, <2>1, <2>2, <3>1, <3>3
    <3>. QED
      BY <2>3, <2>5, <3>1, <3>2, <3>3 DEF QueueInv
  <2>. QED
    BY <1>a, <2>1, <2>2, <2>4, <2>5
<1>2. ASSUME NEW o \in Ops, OpEnd(o) PROVE QueueInv'
  <2>1. PICK kind \in {"result", "failed"} : behind' = Append(behind, Event(kind, o))
    BY <1>2 DEF OpEnd
  <2>2. Event(kind, o) \in Events /\ Event(kind, o).effect = o /\ Event(kind, o).kind # "request"
    BY EventTypes DEF Effects, Kinds
  <2>3. \A p \in Ops : p # o => mem'.ops[p] = mem.ops[p]
    BY <1>2, <1>a DEF OpEnd, Runtime
  <2>4. SUFFICES ASSUME NEW i \in 1..Len(behind'), behind'[i].kind = "request"
                 PROVE  \/ mem'.ops[behind'[i].effect] = "running"
                        \/ \E j \in 1..Len(behind') : i < j /\ behind'[j].effect = behind'[i].effect
    BY DEF QueueInv
  <2>5. /\ Len(behind') = Len(behind) + 1 /\ Len(behind) \in Nat
        /\ behind'[Len(behind) + 1] = Event(kind, o)
        /\ \A j \in 1..Len(behind) : behind'[j] = behind[j]
    BY <1>a, <2>1, <2>2
  <2>6. i \in 1..Len(behind) /\ behind'[i] = behind[i] /\ behind[i].effect \in Ops
    BY <1>a, <2>2, <2>4, <2>5
  <2>7. CASE behind[i].effect = o
    BY <2>2, <2>5, <2>6, <2>7
  <2>8. CASE behind[i].effect # o
    BY <2>3, <2>4, <2>5, <2>6, <2>8 DEF QueueInv
  <2>. QED
    BY <2>7, <2>8
<1>3. ASSUME NEW o \in Ops, CloseSuperseded(o) PROVE QueueInv'
  BY <1>3 DEF CloseSuperseded, Close, QueueInv, session, history
<1>4. ASSUME NEW o \in Ops, RecordInterrupted(o) PROVE QueueInv'
  BY <1>4 DEF RecordInterrupted, Close, QueueInv, session, history
<1>5. ASSUME NEW e \in Checkpoints, Terminalize(e) PROVE QueueInv'
  BY <1>5 DEF Terminalize, Close, QueueInv, session, history
<1>6. CASE Signal
  BY <1>6 DEF Signal, QueueInv, session, history
<1>7. CASE WriteBehind
  <2>1. behind # <<>> /\ behind' = Tail(behind) /\ mem' = mem
    BY <1>7 DEF WriteBehind
  <2>2. /\ Len(behind) \in Nat /\ Len(behind) # 0 /\ Len(behind') = Len(behind) - 1
        /\ \A j \in 1..Len(behind') : behind'[j] = behind[j + 1]
    BY <1>a, <2>1
  <2>. QED
    BY <2>1, <2>2, QueueAfterTail
<1>8. CASE WriteBehindFails
  <2>1. behind # <<>> /\ behind' = Tail(behind) /\ mem' = mem
    BY <1>8 DEF WriteBehindFails
  <2>2. /\ Len(behind) \in Nat /\ Len(behind) # 0 /\ Len(behind') = Len(behind) - 1
        /\ \A j \in 1..Len(behind') : behind'[j] = behind[j + 1]
    BY <1>a, <2>1
  <2>. QED
    BY <2>1, <2>2, QueueAfterTail
<1>9. CASE AppendHead
  BY <1>9 DEF AppendHead, QueueInv, session, history
<1>10. CASE SealProgress
  BY <1>10 DEF SealProgress, QueueInv, session, history
<1>11. CASE SaveBegin
  BY <1>11 DEF SaveBegin, QueueInv, session, history
<1>12. CASE ReadSuperseded
  BY <1>12 DEF ReadSuperseded, QueueInv, session, history
<1>13. CASE Serialise
  BY <1>13 DEF Serialise, QueueInv, session, history
<1>14. CASE CheckPending
  BY <1>14 DEF CheckPending, QueueInv, session, history
<1>15. CASE SkipPending
  BY <1>15 DEF SkipPending, QueueInv, session, history
<1>16. CASE RequestCheckpoint
  BY <1>16 DEF RequestCheckpoint, QueueInv, session, history
<1>17. CASE FlushConversation
  BY <1>17 DEF FlushConversation, QueueInv, session, history
<1>18. CASE WriteFibers
  BY <1>18 DEF WriteFibers, QueueInv, session, history
<1>19. CASE WriteVm
  BY <1>19 DEF WriteVm, QueueInv, session, history
<1>20. CASE RecordResult
  BY <1>20 DEF RecordResult, QueueInv, session, history
<1>21. CASE ReadHeads
  BY <1>21 DEF ReadHeads, QueueInv, session, history
<1>22. CASE CommitByPort
  BY <1>22 DEF CommitByPort, QueueInv, session, history
<1>23. CASE CommitWithSequence
  BY <1>23 DEF CommitWithSequence, QueueInv, session, history
<1>24. CASE WriteUpgrade
  BY <1>24 DEF WriteUpgrade, QueueInv, session, history
<1>25. CASE SaveFails
  BY <1>25 DEF SaveFails, QueueInv, session, history
<1>26. CASE Crash
  BY <1>26 DEF Crash, QueueInv
<1>27. CASE StartAfresh
  BY <1>27 DEF StartAfresh, PhaseInv, QueueInv
<1>28. CASE Recover
  BY <1>28 DEF Recover, PhaseInv, QueueInv
<1>29. CASE Recovered
  BY <1>29 DEF Recovered, QueueInv, session, history
<1>30. CASE ApplyUpgrade
  BY <1>30 DEF ApplyUpgrade, QueueInv, session, history
<1>31. CASE UpgradeHeads
  BY <1>31 DEF UpgradeHeads, QueueInv, session, history
<1>32. CASE UNCHANGED vars
  BY <1>32 DEF vars, QueueInv, session, history
<1>33. CASE AppendFails
  BY <1>33 DEF AppendFails, QueueInv, session, history
<1>. QED
  BY <1>1, <1>2, <1>3, <1>4, <1>5, <1>6, <1>7, <1>8, <1>9, <1>10, <1>11, <1>12, <1>13,
     <1>14, <1>15, <1>16, <1>17, <1>18, <1>19, <1>20, <1>21, <1>22, <1>23, <1>24, <1>25,
     <1>26, <1>27, <1>28, <1>29, <1>30, <1>31, <1>32, <1>33 DEF Next

\* What is pending when ReadSuperseded looks is closed or runs; what becomes pending later
\* was queued, and so is unsettled by QueueInv.
LEMMA ClosingInvPreserved ==
    ASSUME TypeOK, SaveTypes, SequenceInv, PhaseInv, QueueInv, ClosingInv, [Next]_vars
    PROVE  ClosingInv'
<1>a. /\ save \in SaveRecord
      /\ mem \in Runtime
      /\ behind \in Seq(Events)
  BY DEF TypeOK, SaveTypes
<1>b. JournalInv
  BY JournalInvHolds
<1>1. ASSUME NEW o \in Ops, OpStart(o) PROVE ClosingInv'
  <2>1. behind' = Append(behind, Event("request", o)) /\ UNCHANGED <<journal, lost, save, toClose>>
    BY <1>1 DEF OpStart, history
  <2>2. \A p \in Ops : mem.ops[p] = "running" => mem'.ops[p] = "running"
    BY <1>1, <1>a DEF OpStart, Runtime
  <2>3. \A p \in Ops : Unsettled(p) => Unsettled(p)'
    <3>1. TAKE p \in Ops
    <3>2. \A i \in 1..Len(behind) : i \in 1..Len(behind') /\ behind'[i] = behind[i]
      BY <1>a, <2>1
    <3>. QED
      BY <2>1, <2>2, <3>2 DEF Unsettled
  <2>. QED
    BY <2>1, <2>3 DEF ClosingInv
<1>2. ASSUME NEW o \in Ops, OpEnd(o) PROVE ClosingInv'
  <2>1. PICK kind \in {"result", "failed"} : behind' = Append(behind, Event(kind, o))
    BY <1>2 DEF OpEnd
  <2>2. UNCHANGED <<journal, lost, save, toClose>> /\ \A p \in Ops : p # o => mem'.ops[p] = mem.ops[p]
    BY <1>2, <1>a DEF OpEnd, history, Runtime
  <2>3. Event(kind, o).effect = o
    BY EventTypes
  <2>4. /\ \A i \in 1..Len(behind) : i \in 1..Len(behind') /\ behind'[i] = behind[i]
        /\ Len(behind) + 1 \in 1..Len(behind') /\ behind'[Len(behind) + 1] = Event(kind, o)
    BY <1>a, <2>1
  <2>5. \A p \in Ops : Unsettled(p) => Unsettled(p)'
    <3>1. TAKE p \in Ops
    <3>2. CASE p = o
      BY <2>3, <2>4, <3>2 DEF Unsettled
    <3>3. CASE p # o
      BY <2>2, <2>4, <3>3 DEF Unsettled
    <3>. QED
      BY <3>2, <3>3
  <2>. QED
    BY <2>2, <2>5 DEF ClosingInv
<1>3. ASSUME NEW o \in Ops, CloseSuperseded(o) PROVE ClosingInv'
  <2>1. /\ save.pc = "closing" /\ AppendRecord(Event("failed", o), "save")
        /\ toClose' = toClose \ {o} /\ UNCHANGED <<mem, lost, behind, save>>
    BY <1>3 DEF CloseSuperseded, Saving, Close, history
  <2>2. Event("failed", o) \in Events /\ Event("failed", o).effect = o /\ Event("failed", o).kind # "request"
    BY EventTypes DEF Effects, Kinds
  <2>3. ASSUME NEW p \in Ops, Unanswered(journal', p, Len(journal'))
        PROVE  p # o /\ Unanswered(journal, p, Len(journal))
    BY <1>b, <2>1, <2>2, <2>3, UnansweredAfterAppend
  <2>. QED
    BY <2>1, <2>3 DEF ClosingInv, Unsettled
<1>4. ASSUME NEW o \in Ops, RecordInterrupted(o) PROVE ClosingInv'
  <2>1. save.pc = "idle" /\ save' = save
    BY <1>4 DEF RecordInterrupted, Close, PhaseInv, Idle
  <2>. QED
    BY <2>1 DEF ClosingInv
<1>5. ASSUME NEW e \in Checkpoints, Terminalize(e) PROVE ClosingInv'
  <2>1. save.pc = "terminalizing" /\ save' = save
    BY <1>5 DEF Terminalize, Committing, Close
  <2>. QED
    BY <2>1 DEF ClosingInv
<1>6. CASE Signal
  BY <1>6 DEF Signal, ClosingInv, Unsettled, session, history
<1>7. CASE WriteBehind
  <2>1. /\ behind # <<>> /\ AppendRecord(Head(behind), "agents") /\ behind' = Tail(behind)
        /\ UNCHANGED <<mem, lost, save, toClose>>
    BY <1>7 DEF WriteBehind, history
  <2>2. /\ Len(behind) \in Nat /\ Len(behind) # 0 /\ Len(behind') = Len(behind) - 1
        /\ \A j \in 1..Len(behind') : behind'[j] = behind[j + 1]
        /\ Head(behind) = behind[1] /\ Head(behind) \in Events
    BY <1>a, <2>1
  <2>3. ASSUME NEW i \in 1..Len(behind), i # 1
        PROVE  i - 1 \in 1..Len(behind') /\ behind'[i - 1] = behind[i]
    BY <2>2, <2>3
  <2>4. ASSUME NEW o \in Ops, Unanswered(journal', o, Len(journal')), ~ Unsettled(o)'
        PROVE  Unanswered(journal, o, Len(journal)) /\ ~ Unsettled(o)
    <3>1. \/ Head(behind).effect = o /\ Head(behind).kind = "request"
          \/ Head(behind).effect # o /\ Unanswered(journal, o, Len(journal))
      BY <1>b, <2>1, <2>2, <2>4, UnansweredAfterAppend
    <3>2. mem.ops[o] # "running" /\ o \notin lost /\ \A j \in 1..Len(behind') : behind'[j].effect # o
      BY <2>1, <2>4 DEF Unsettled
    <3>3. ~ (Head(behind).effect = o /\ Head(behind).kind = "request")
      <4>1. SUFFICES ASSUME behind[1].effect = o, behind[1].kind = "request" PROVE FALSE
        BY <2>2
      <4>2. PICK j \in 1..Len(behind) : 1 < j /\ behind[j].effect = o
        BY <2>2, <3>2, <4>1 DEF QueueInv
      <4>. QED
        BY <2>3, <3>2, <4>2
    <3>4. \A i \in 1..Len(behind) : behind[i].effect # o
      BY <2>2, <2>3, <3>1, <3>2, <3>3
    <3>. QED
      BY <3>1, <3>2, <3>3, <3>4 DEF Unsettled
  <2>. QED
    BY <2>1, <2>4 DEF ClosingInv
<1>8. CASE WriteBehindFails
  <2>1. /\ behind # <<>> /\ behind' = Tail(behind) /\ lost' = lost \cup {Head(behind).effect}
        /\ UNCHANGED <<mem, journal, save, toClose>>
    BY <1>8 DEF WriteBehindFails
  <2>2. /\ Len(behind) \in Nat /\ Len(behind) # 0 /\ Len(behind') = Len(behind) - 1
        /\ \A j \in 1..Len(behind') : behind'[j] = behind[j + 1]
        /\ Head(behind) = behind[1]
    BY <1>a, <2>1
  <2>3. ASSUME NEW i \in 1..Len(behind), i # 1
        PROVE  i - 1 \in 1..Len(behind') /\ behind'[i - 1] = behind[i]
    BY <2>2, <2>3
  <2>4. \A o \in Ops : Unsettled(o) => Unsettled(o)'
    BY <2>1, <2>2, <2>3 DEF Unsettled
  <2>. QED
    BY <2>1, <2>4 DEF ClosingInv
<1>9. CASE AppendHead
  BY <1>9 DEF AppendHead, ClosingInv, Unsettled, session, history
<1>10. CASE SealProgress
  BY <1>10 DEF SealProgress, ClosingInv, Unsettled, session, history
<1>11. CASE SaveBegin
  <2>1. save'.pc = "reading"
    BY <1>11, <1>a DEF SaveBegin, SaveRecord, Idle
  <2>. QED
    BY <2>1 DEF ClosingInv
<1>12. CASE ReadSuperseded
  <2>1. save'.pc = "closing" /\ UNCHANGED <<journal, mem, lost, behind>>
    BY <1>12, <1>a DEF ReadSuperseded, SaveRecord, history
  <2>2. ASSUME NEW o \in Ops, Unanswered(journal, o, Len(journal)), mem.ops[o] # "running"
        PROVE  o \in toClose'
    <3>1. o \in PendingIn(journal, Ops)
      BY <1>b, <2>2, PendingOp DEF PendingIn
    <3>. QED
      BY <1>12, <2>2, <3>1 DEF ReadSuperseded, Superseded
  <2>. QED
    BY <2>1, <2>2 DEF ClosingInv, Unsettled
<1>13. CASE Serialise
  <2>1. save.pc = "closing" /\ save'.pc = "checking" /\ toClose = {} /\ UNCHANGED <<journal, mem, lost, behind, toClose>>
    BY <1>13, <1>a DEF Serialise, Saving, SaveRecord, history
  <2>. QED
    BY <2>1 DEF ClosingInv, Unsettled
<1>14. CASE CheckPending
  <2>1. save'.pc = "requesting"
    BY <1>14, <1>a DEF CheckPending, SaveRecord, Idle
  <2>. QED
    BY <2>1 DEF ClosingInv
<1>15. CASE SkipPending
  <2>1. save'.pc = "idle"
    BY <1>15, <1>a DEF SkipPending, SaveRecord, Idle
  <2>. QED
    BY <2>1 DEF ClosingInv
<1>16. CASE RequestCheckpoint
  <2>1. save'.pc = "flushing"
    BY <1>16, <1>a DEF RequestCheckpoint, SaveRecord, Idle
  <2>. QED
    BY <2>1 DEF ClosingInv
<1>17. CASE FlushConversation
  <2>1. save'.pc = "fibers"
    BY <1>17, <1>a DEF FlushConversation, SaveRecord, Idle
  <2>. QED
    BY <2>1 DEF ClosingInv
<1>18. CASE WriteFibers
  <2>1. save'.pc = "vm"
    BY <1>18, <1>a DEF WriteFibers, SaveRecord, Idle
  <2>. QED
    BY <2>1 DEF ClosingInv
<1>19. CASE WriteVm
  <2>1. save'.pc = "written"
    BY <1>19, <1>a DEF WriteVm, SaveRecord, Idle
  <2>. QED
    BY <2>1 DEF ClosingInv
<1>20. CASE RecordResult
  <2>1. save'.pc = "heads"
    BY <1>20, <1>a DEF RecordResult, SaveRecord, Idle
  <2>. QED
    BY <2>1 DEF ClosingInv
<1>21. CASE ReadHeads
  <2>1. save'.pc = "committing"
    BY <1>21, <1>a DEF ReadHeads, SaveRecord, Idle
  <2>. QED
    BY <2>1 DEF ClosingInv
<1>22. CASE CommitByPort
  <2>1. save'.pc = "recommitting"
    BY <1>22, <1>a DEF CommitByPort, SaveRecord, Idle
  <2>. QED
    BY <2>1 DEF ClosingInv
<1>23. CASE CommitWithSequence
  <2>1. save'.pc = "marking"
    BY <1>23, <1>a DEF CommitWithSequence, SaveRecord, Idle
  <2>. QED
    BY <2>1 DEF ClosingInv
<1>24. CASE WriteUpgrade
  <2>1. save'.pc = "idle"
    BY <1>24, <1>a DEF WriteUpgrade, SaveRecord, Idle
  <2>. QED
    BY <2>1 DEF ClosingInv
<1>25. CASE SaveFails
  <2>1. save'.pc = "idle"
    BY <1>25, <1>a DEF SaveFails, SaveRecord, Idle
  <2>. QED
    BY <2>1 DEF ClosingInv
<1>26. CASE Crash
  <2>1. save'.pc = "idle"
    BY <1>26, <1>a DEF Crash, SaveRecord, Idle
  <2>. QED
    BY <2>1 DEF ClosingInv
<1>27. CASE StartAfresh
  <2>1. save.pc = "idle" /\ save' = save
    BY <1>27 DEF StartAfresh, PhaseInv, Idle
  <2>. QED
    BY <2>1 DEF ClosingInv
<1>28. CASE Recover
  <2>1. save.pc = "idle" /\ save' = save
    BY <1>28 DEF Recover, PhaseInv, Idle
  <2>. QED
    BY <2>1 DEF ClosingInv
<1>29. CASE Recovered
  <2>1. save.pc = "idle" /\ save' = save
    BY <1>29 DEF Recovered, PhaseInv, Idle
  <2>. QED
    BY <2>1 DEF ClosingInv
<1>30. CASE ApplyUpgrade
  <2>1. save'.pc = "terminalizing"
    BY <1>30, <1>a DEF ApplyUpgrade, SaveRecord, Idle
  <2>. QED
    BY <2>1 DEF ClosingInv
<1>31. CASE UpgradeHeads
  <2>1. save'.pc = "committing"
    BY <1>31, <1>a DEF UpgradeHeads, SaveRecord, Idle
  <2>. QED
    BY <2>1 DEF ClosingInv
<1>32. CASE UNCHANGED vars
  BY <1>32 DEF vars, ClosingInv, Unsettled, session, history
<1>33. CASE AppendFails
  <2>1. save'.pc = "idle"
    BY <1>33, <1>a DEF AppendFails, SaveRecord, Idle
  <2>. QED
    BY <2>1 DEF ClosingInv
<1>. QED
  BY <1>1, <1>2, <1>3, <1>4, <1>5, <1>6, <1>7, <1>8, <1>9, <1>10, <1>11, <1>12, <1>13,
     <1>14, <1>15, <1>16, <1>17, <1>18, <1>19, <1>20, <1>21, <1>22, <1>23, <1>24, <1>25,
     <1>26, <1>27, <1>28, <1>29, <1>30, <1>31, <1>32, <1>33 DEF Next
------------------------------------------------------------------------------
(* The theorems.                                                           *)

\* The initial state satisfies the invariant, ...
LEMMA InitIInv == Init => IInv
<1>. SUFFICES ASSUME Init PROVE IInv
  OBVIOUS
<1>1. LastSequence = 0
  BY DEF Init, LastSequence
<1>2. TypeOK
  <2>1. behind \in Seq(Events) /\ journal \in Seq([sequence : Nat \ {0}, event : Events]) /\ Len(journal) = 0
    BY DEF Init
  <2>2. 0 \in 0..MaxEvents /\ 0 \in 0..MaxSaves
    BY CheckpointAssumption
  <2>3. mem \in Runtime /\ fibers \in Runtime
    BY IdleTypes DEF Init
  <2>4. \A i, j \in 1..Len(journal) : i < j => journal[i].sequence <= journal[j].sequence
    BY <2>1
  <2>5. /\ head \in Nat \cup {None}
        /\ vm \in 0..MaxEvents \cup {None}
        /\ stamp \in 0..MaxEvents
        /\ commit \in Commit \cup {None}
        /\ upgrade \in Marker \cup {None}
    BY <2>2 DEF Init
  <2>6. /\ proc \in {"up", "down", "recovering", "upgrading"}
        /\ toClose \in SUBSET Effects
        /\ saved \in BOOLEAN /\ lost \in SUBSET Ops
        /\ saves \in 0..MaxSaves /\ faults \in 0..MaxEvents
    BY <2>2 DEF Init
  <2>. QED
    BY <2>1, <2>3, <2>4, <2>5, <2>6 DEF TypeOK
<1>3. SaveTypes
  BY IdleTypes DEF Init, SaveTypes
<1>4. SequenceInv
  BY <1>1 DEF Init, SequenceInv, Idle
<1>5. PhaseInv
  BY DEF Init, PhaseInv, Idle, BeforeWriter, InWriter, InCommit
<1>6. CommitInv
  BY DEF Init, CommitInv, Idle, InCommit
<1>7. QueueInv /\ ClosingInv
  BY DEF Init, QueueInv, ClosingInv, Idle
<1>. QED
  BY <1>2, <1>3, <1>4, <1>5, <1>6, <1>7 DEF IInv

\* ... and every step keeps it.
LEMMA NextIInv == IInv /\ [Next]_vars => IInv'
<1>. SUFFICES ASSUME IInv, [Next]_vars PROVE IInv'
  OBVIOUS
<1>1. TypeOK /\ SaveTypes /\ SequenceInv /\ PhaseInv /\ CommitInv /\ QueueInv /\ ClosingInv
  BY DEF IInv
<1>2. TypeOK' /\ SaveTypes' /\ SequenceInv'
  BY <1>1, SequenceInvPreserved
<1>3. PhaseInv'
  BY <1>1, PhaseInvPreserved
<1>4. CommitInv'
  BY <1>1, CommitInvPreserved
<1>5. QueueInv'
  BY <1>1, QueueInvPreserved
<1>6. ClosingInv'
  BY <1>1, ClosingInvPreserved
<1>. QED
  BY <1>2, <1>3, <1>4, <1>5, <1>6 DEF IInv

\* The inductive invariant holds throughout.
THEOREM Inductive == Spec => []IInv
<1>1. Init => IInv
  BY InitIInv
<1>2. IInv /\ [Next]_vars => IInv'
  BY NextIInv
<1>. QED
  BY <1>1, <1>2, PTL DEF Spec

\* The types, and the journal in the order of its sequences, although a process that stops
\* between a record and its head gives a sequence twice (appendRuntimeControlEffectEvidence).
THEOREM CheckpointTypes == Spec => []TypeOK
<1>1. IInv => TypeOK
  BY DEF IInv
<1>. QED
  BY <1>1, Inductive, PTL

\* For every journal, rebuildEffectsFromLifecycleEvidence leaves pending exactly the effects
\* that were requested, have no result, and no failure since their last request.
THEOREM PendingUnanswered == Spec => []PendingIsUnanswered
<1>1. IInv => PendingIsUnanswered
  <2>. SUFFICES ASSUME IInv PROVE PendingIsUnanswered
    OBVIOUS
  <2>1. JournalInv
    BY JournalInvHolds DEF IInv
  <2>2. \A e : Rebuilt(journal, e).status = "requested" <=> Unanswered(journal, e, Len(journal))
    BY <2>1, PendingOp
  <2>3. \A i \in 1..Len(journal) : journal[i].event.effect \in Effects
    <3>1. \A i \in 1..Len(journal) : journal[i].event \in Events
      <4>1. \A i \in 1..Len(journal) : journal[i] \in JournalRecord
        BY <2>1 DEF JournalInv
      <4>2. \A r \in JournalRecord : r.event \in Events
        BY DEF JournalRecord
      <4>. QED
        BY <4>1, <4>2
    <3>2. \A ev \in Events : ev.effect \in Effects
      BY DEF Events, Event
    <3>. QED
      BY <3>1, <3>2
  <2>. DEFINE Open == {i \in 1..Len(journal) :
                          /\ journal[i].event.kind = "request"
                          /\ \A j \in 1..Len(journal) :
                                journal[j].event.effect = journal[i].event.effect =>
                                    /\ journal[j].event.kind # "result"
                                    /\ journal[j].event.kind = "failed" => j < i}
  <2>4. \A e : Unanswered(journal, e, Len(journal)) <=> \E i \in Open : journal[i].event.effect = e
    BY DEF Unanswered, OwnUpTo
  <2>5. {e \in Effects : Unanswered(journal, e, Len(journal))} = {journal[i].event.effect : i \in Open}
    <3>. HIDE DEF Open
    <3>1. \A i \in Open : journal[i].event.effect \in Effects
      BY <2>3 DEF Open
    <3>. QED
      BY <2>4, <3>1
  <2>6. PendingIn(journal, Effects) = {e \in Effects : Unanswered(journal, e, Len(journal))}
    BY <2>2 DEF PendingIn
  <2>. QED
    BY <2>5, <2>6 DEF PendingIsUnanswered
<1>. QED
  BY <1>1, Inductive, PTL

\* The gate admits what a completed save leaves, unless it covers an orphaned effect:
\* CommitInv has every other of its conditions.
LEMMA SavedFromInv == IInv => SavedIsRecoverable
<1>. SUFFICES ASSUME IInv, saved, OrphanedIn(Prefix(commit)) = {} PROVE GateAdmits
  BY DEF SavedIsRecoverable
<1>1. /\ commit \in Commit /\ commit.sequence \in Nat /\ upgrade = commit.marker
      /\ HeadsMatch(commit.marker) /\ PendingUpTo(journal, commit.sequence) = {}
  BY DEF IInv, CommitInv
<1>2. commit # None /\ upgrade # None /\ commit.sequence # None
  BY <1>1, NoneAssumption DEF Commit
<1>3. Prefix(commit) = Through(commit.sequence)
  BY <1>2 DEF Prefix
<1>4. PendingIn(Prefix(commit), Ops) = {}
  BY <1>1, <1>3, PendingUpToThrough
<1>5. ClassOf(commit) \in {"clean", "pending"}
  <2>1. CASE PendingIn(Prefix(commit), Effects) = {}
    BY <1>1, <2>1 DEF ClassOf
  <2>2. CASE PendingIn(Prefix(commit), Effects) # {}
    BY <1>1, <2>2 DEF ClassOf
  <2>. QED
    BY <2>1, <2>2
<1>. QED
  BY <1>1, <1>2, <1>4, <1>5 DEF GateAdmits

\* What a completed save leaves, readRuntimeControlRecoveryGate admits until the next save
\* writes vm.json, unless the evidence it covers holds an orphaned effect.
THEOREM SavedRecoverable == Spec => []SavedIsRecoverable
BY SavedFromInv, Inductive, PTL

\* The evidence up to the sequence that a commit names never changes: what the gate replays
\* is what runFileStoreAiRuntimeConcreteCheckpoint saw.
THEOREM CommittedPrefixStable == Spec => PrefixStable
<1>1. ASSUME IInv, [Next]_vars, commit # None, commit' = commit, commit.sequence # None
      PROVE  Through(commit.sequence)' = Through(commit.sequence)
  <2>1. commit.sequence \in Nat /\ commit.sequence <= LastSequence
    BY <1>1 DEF IInv, TypeOK, SequenceInv, Commit
  <2>2. JournalInv /\ JournalStep
    BY <1>1, JournalInvHolds, NextIsJournalStep DEF IInv
  <2>3. UpTo(journal', commit.sequence) = UpTo(journal, commit.sequence)
    BY <2>1, <2>2, UpToStable
  <2>4. Through(commit.sequence)' = UpTo(journal', commit'.sequence)
    BY DEF Through, UpTo
  <2>5. Through(commit.sequence) = UpTo(journal, commit.sequence)
    BY DEF Through, UpTo
  <2>. QED
    BY <1>1, <2>3, <2>4, <2>5
<1>2. IInv /\ [Next]_vars =>
        [(commit # None /\ commit' = commit /\ commit.sequence # None)
            => Through(commit.sequence)' = Through(commit.sequence)]_vars
  BY <1>1
<1>. QED
  BY <1>2, Inductive, PTL DEF Spec, PrefixStable

\* A save is skipped only for operations whose evidence is still to come, or was lost:
\* closeSupersededRuntimeControlPendingEffects leaves none of an earlier life of the process.
THEOREM SkipsOnlyForLive == Spec => SkipOnlyForLive
<1>1. ASSUME IInv, SkipPending, NEW o \in PendingIn(Through(LastSequence), Ops),
             ~ \E i \in 1..Len(journal) :
                    journal[i].sequence > LastSequence /\ journal[i].event.effect = o
      PROVE  Unsettled(o)
  <2>1. save.pc = "checking"
    BY <1>1 DEF SkipPending, Saving
  <2>2. JournalInv
    BY <1>1, JournalInvHolds DEF IInv
  <2>3. LastSequence \in Nat /\ journal \in Seq(JournalRecord)
    BY <2>2, LastSequenceNat DEF JournalInv
  <2>4. \A i \in 1..Len(journal) : journal[i].event.effect = o => journal[i].sequence <= LastSequence
    BY <1>1, <2>3, RecordsOf
  <2>5. Rebuilt(Through(LastSequence), o) = Rebuilt(journal, o)
    BY <2>3, <2>4, RebuiltThrough
  <2>6. o \in Ops /\ Rebuilt(journal, o).status = "requested"
    BY <1>1, <2>5 DEF PendingIn
  <2>7. Unanswered(journal, o, Len(journal))
    BY <2>2, <2>6, PendingOp
  <2>. QED
    BY <1>1, <2>1, <2>6, <2>7 DEF IInv, ClosingInv
<1>2. IInv /\ [Next]_vars =>
        [SkipPending =>
            \A o \in PendingIn(Through(LastSequence), Ops) :
                \/ mem.ops[o] = "running"
                \/ o \in lost
                \/ \E i \in 1..Len(behind) : behind[i].effect = o
                \/ \E i \in 1..Len(journal) :
                        journal[i].sequence > LastSequence /\ journal[i].event.effect = o]_vars
  BY <1>1 DEF Unsettled
<1>. QED
  BY <1>2, Inductive, PTL DEF Spec, SkipOnlyForLive
==============================================================================
