------------------------- MODULE HolonTaskPumpProofs -------------------------
(***************************************************************************)
(* Proofs about HolonTaskPump, for any set of pumps and all bounds.        *)
(***************************************************************************)
EXTENDS HolonTaskPump, FiniteSetTheorems, TLAPS

(***************************************************************************)
(* What a pump's reading of the space is worth: while nothing was          *)
(* committed since, the claim it saw is the one that its command meets.    *)
(***************************************************************************)
ReadingOK(p) ==
    /\ pc[p] = "expire" /\ current[p] => Lapsed
    /\ pc[p] = "renew" /\ current[p] => claim # None
    /\ pc[p] = "start" /\ current[p] => OwnsAttempt(p)
    /\ pc[p] = "settle" /\ current[p] => OwnsAttempt(p) /\ status = "Running"
    /\ pc[p] = "fail" /\ current[p] => claim # None /\ status = "Running"

(***************************************************************************)
(* How far an execution has come: the result is there when dispatch ends   *)
(* without an error, and the effect was accepted before the result.        *)
(***************************************************************************)
ExecutionOK(p) ==
    /\ pc[p] = "accepted" => InvocationRef(p) \in accepted
    /\ pc[p] = "release" /\ error[p] = "none" => results[mine[p]] # None
    /\ pc[p] \in {"observe", "settle"} => results[mine[p]] # None

\* A result is one of an accepted effect.
ResultsAccepted == \A n \in Attempts, p \in Pump : results[n] # None => InvocationRef(p) \in accepted

\* An attempt after the first was paid for with a lapsed lease, and the next one is.
AttemptsPaid == attempt <= lapses + 1 /\ (Lapsed => attempt <= lapses)

\* What was recorded of a success.
SuccessRecorded ==
    status = "Succeeded" =>
        /\ settlement \in Settlements
        /\ settlement.by = settlement.attempt
        /\ results[settlement.attempt] # None

IInv ==
    /\ TypeOK
    /\ AttemptsPaid
    /\ ResultsAccepted
    /\ SuccessRecorded
    /\ \A p \in Pump : ReadingOK(p) /\ ExecutionOK(p)
------------------------------------------------------------------------------
LEMMA Constants ==
    /\ Attempts \subseteq Nat /\ 1 \in Attempts /\ MaxLapses + 1 \in Attempts
    /\ None \notin Pump /\ None \notin Claims
  BY PumpAssumption DEF Attempts, Claims

LEMMA Domains ==
    ASSUME TypeOK
    PROVE  /\ DOMAIN pc = Pump /\ DOMAIN current = Pump /\ DOMAIN adopt = Pump /\ DOMAIN ids = Pump
           /\ DOMAIN mine = Pump /\ DOMAIN tended = Pump /\ DOMAIN beat = Pump /\ DOMAIN error = Pump
           /\ DOMAIN results = Attempts /\ DOMAIN starts = Attempts /\ DOMAIN lock = Attempts
           /\ \A p \in Pump : mine[p] \in Attempts /\ ids[p] \in Attempts
  BY DEF TypeOK

------------------------------------------------------------------------------
(* Types *)

Places == Executing \cup {"idle", "expire", "renew", "assign", "check", "start", "observe",
                          "settle", "observeFailed", "fail", "dead"}

\* The types of the pumps' variables, of the space, and of the rest.
LocalTypes ==
    /\ pc \in [Pump -> Places]
    /\ adopt \in [Pump -> BOOLEAN]
    /\ ids \in [Pump -> Attempts]
    /\ mine \in [Pump -> Attempts]
    /\ tended \in [Pump -> Attempts]
    /\ raced \subseteq Pump
    /\ beat \in [Pump -> {"off", "on", "failed"}]
    /\ error \in [Pump -> {"none", "stale", "failed", "thrown"}]
SpaceTypes ==
    /\ status \in {"Ready", "Claimed", "Running"} \cup Terminal
    /\ attempt \in Attempts
    /\ claim \in Claims \cup {None}
    /\ (claim # None) <=> status \in {"Claimed", "Running"}
    /\ age \in {"young", "old", "lapsed"}
    /\ starts \in [Attempts -> Starts \cup {None}]
    /\ settlement \in Settlements \cup {None}
    /\ lapses \in 0..MaxLapses
JournalTypes ==
    /\ results \in [Attempts -> Pump \cup {None}]
    /\ lock \in [Attempts -> Locks \cup {None}]
    /\ accepted \subseteq {InvocationRef(p) : p \in Pump}

LEMMA TypeParts ==
    /\ TypeOK <=> /\ LocalTypes /\ SpaceTypes /\ JournalTypes
                  /\ current \in [Pump -> BOOLEAN] /\ faults \in 0..MaxFaults
    /\ (TypeOK <=> /\ LocalTypes /\ SpaceTypes /\ JournalTypes
                   /\ current \in [Pump -> BOOLEAN] /\ faults \in 0..MaxFaults)'
  BY DEF TypeOK, LocalTypes, SpaceTypes, JournalTypes, Places

\* Where a pump can go, and what ends an iteration or an execution.
LEMMA LocalSteps ==
    ASSUME LocalTypes, NEW p \in Pump, NEW l \in Places
    PROVE  /\ Leave(p, l) => LocalTypes'
           /\ Keep(p, l) => LocalTypes'
           /\ Executed(p, l) => LocalTypes'
  <1>1. Leave(p, l) => LocalTypes'
    BY Constants, SMTT(30) DEF LocalTypes, Leave, Goto
  <1>2. Keep(p, l) => LocalTypes'
    BY SMTT(30) DEF LocalTypes, Keep, Goto
  <1>3. Executed(p, l) => LocalTypes'
    BY Constants, SMTT(30) DEF LocalTypes, Executed, Goto
  <1> QED BY <1>1, <1>2, <1>3

\* The space and the journal as they were.
LEMMA SameTypes ==
    /\ SpaceTypes /\ UNCHANGED space => SpaceTypes'
    /\ JournalTypes /\ UNCHANGED <<journal, accepted>> => JournalTypes'
    /\ current \in [Pump -> BOOLEAN] /\ UNCHANGED current => (current \in [Pump -> BOOLEAN])'
  BY DEF SpaceTypes, JournalTypes, space, journal

\* The reading of the space is TRUE or FALSE.
LEMMA CurrentTypes ==
    ASSUME current \in [Pump -> BOOLEAN], NEW p \in Pump
    PROVE  /\ ReadSpace(p) => current' \in [Pump -> BOOLEAN]
           /\ Forget(p) => current' \in [Pump -> BOOLEAN]
           /\ Committed => current' \in [Pump -> BOOLEAN]
  BY DEF ReadSpace, Forget, Committed

\* The claim keeps its shape when its revision is no longer fresh.
LEMMA ClaimFacts ==
    ASSUME SpaceTypes
    PROVE  /\ claim # None => /\ claim \in Claims /\ claim.fresh \in BOOLEAN
                              /\ [claim EXCEPT !.fresh = FALSE] \in Claims
           /\ \A n \in Attempts : [id |-> n, fresh |-> TRUE] \in Claims
           /\ None \notin Claims
  BY Constants DEF SpaceTypes, Claims

\* A pump's own variables.
LEMMA LocalTyped ==
    ASSUME LocalTypes, SpaceTypes, NEW p \in Pump, PumpStep(p) \/ Beat(p) \/ Crash(p)
    PROVE  LocalTypes'
  <1> USE DEF Places, Executing
  <1>1. CASE Observe(p)
    <2>1. CASE Goto(p, "assign")
      <3>1. /\ pc' = [pc EXCEPT ![p] = "assign"] /\ ids' = [ids EXCEPT ![p] = attempt]
            /\ adopt' = [adopt EXCEPT ![p] = status # "Ready"] /\ UNCHANGED <<mine, tended, raced, beat, error>>
        BY <1>1, <2>1, SMTT(30) DEF Observe, LocalTypes, Goto, Keep
      <3> QED BY <3>1, SMTT(30) DEF LocalTypes, SpaceTypes
    <2>2. CASE Keep(p, "expire") \/ Keep(p, "renew")
      BY <2>2, LocalSteps
    <2> QED BY <1>1, <2>1, <2>2 DEF Observe
  <1>2. CASE ExpireTaskClaim(p)
    BY <1>2, LocalSteps DEF ExpireTaskClaim
  <1>3. CASE HeartbeatTaskClaim(p)
    BY <1>3, LocalSteps DEF HeartbeatTaskClaim
  <1>4. CASE Assign(p)
    <2>1. CASE Goto(p, "check")
      <3>1. /\ pc' = [pc EXCEPT ![p] = "check"] /\ UNCHANGED <<ids, tended, raced, beat, error>>
            /\ mine' = [mine EXCEPT ![p] = ids[p]] \/ mine' = [mine EXCEPT ![p] = attempt]
            /\ adopt' = [adopt EXCEPT ![p] = FALSE] \/ UNCHANGED adopt
        BY <1>4, <2>1, SMTT(30) DEF Assign, LocalTypes, Goto, Leave
      <3> QED BY <3>1, ZenonT(60) DEF LocalTypes, SpaceTypes
    <2>2. CASE Leave(p, "idle")
      BY <2>2, LocalSteps
    <2> QED BY <1>4, <2>1, <2>2 DEF Assign
  <1>5. CASE CheckClaim(p)
    BY <1>5, LocalSteps DEF CheckClaim
  <1>6. CASE Start(p)
    <2>1. CASE Started(p)
      <3>1. (IF claim # None THEN attempt ELSE mine[p]) \in Attempts
        BY DEF LocalTypes, SpaceTypes
      <3>2. raced' \subseteq Pump
        BY <1>6, <2>1 DEF Start, LocalTypes, Leave
      <3> QED BY <2>1, <3>1, <3>2, SMTT(30) DEF Started, LocalTypes, Goto
    <2>2. CASE Leave(p, "idle")
      BY <2>2, LocalSteps
    <2> QED BY <1>6, <2>1, <2>2 DEF Start
  <1>7. CASE Dispatch(p)
    BY <1>7, LocalSteps DEF Dispatch
  <1>8. CASE Lock(p)
    BY <1>8, LocalSteps DEF Lock
  <1>9. CASE SignLock(p)
    BY <1>9, LocalSteps DEF SignLock
  <1>10. CASE FindLocked(p)
    BY <1>10, LocalSteps DEF FindLocked
  <1>11. CASE StealLock(p)
    BY <1>11, LocalSteps DEF StealLock
  <1>12. CASE Recheck(p)
    BY <1>12, LocalSteps DEF Recheck
  <1>13. CASE Accept(p)
    BY <1>13, LocalSteps DEF Accept
  <1>14. CASE EffectFails(p)
    BY <1>14, LocalSteps DEF EffectFails, Throw, LocalTypes, Goto
  <1>15. CASE WriteResult(p)
    BY <1>15, LocalSteps DEF WriteResult, Throw, LocalTypes, Goto
  <1>16. CASE Release(p)
    BY <1>16, LocalSteps DEF Release
  <1>17. CASE ObserveResult(p)
    BY <1>17, LocalSteps DEF ObserveResult
  <1>18. CASE SettleTask(p)
    BY <1>18, LocalSteps DEF SettleTask
  <1>19. CASE ObserveFailed(p)
    BY <1>19, LocalSteps DEF ObserveFailed
  <1>20. CASE FailTask(p)
    BY <1>20, LocalSteps DEF FailTask
  <1>21. CASE Beat(p)
    BY <1>21, LocalSteps DEF Beat, LocalTypes, Goto
  <1>22. CASE Crash(p)
    BY <1>22, LocalSteps DEF Crash
  <1> QED
    BY <1>1, <1>2, <1>3, <1>4, <1>5, <1>6, <1>7, <1>8, <1>9, <1>10, <1>11,
       <1>12, <1>13, <1>14, <1>15, <1>16, <1>17, <1>18, <1>19, <1>20, <1>21, <1>22 DEF PumpStep

\* The space, as the commands leave it.
LEMMA SpaceTyped ==
    ASSUME IInv, SpaceTypes, LocalTypes, Next
    PROVE  SpaceTypes'
  <1> USE ClaimFacts
  <1>1. ASSUME NEW p \in Pump, ExpireTaskClaim(p), current[p] PROVE SpaceTypes'
    <2>1. attempt <= lapses
      BY <1>1 DEF IInv, AttemptsPaid, ReadingOK, ExpireTaskClaim
    <2>2. attempt + 1 \in Attempts
      BY <2>1, PumpAssumption DEF SpaceTypes, Attempts
    <2> QED BY <1>1, <2>2 DEF ExpireTaskClaim, SpaceTypes
  <1>2. ASSUME NEW p \in Pump, HeartbeatTaskClaim(p) \/ Beat(p), ~(UNCHANGED space) PROVE SpaceTypes'
    <2>1. Renewed /\ claim # None /\ UNCHANGED <<status, attempt, starts, settlement, lapses>>
      BY <1>2 DEF IInv, ReadingOK, HeartbeatTaskClaim, Beat, Tends
    <2> QED BY <2>1 DEF Renewed, SpaceTypes
  <1>3. ASSUME NEW p \in Pump, Assign(p), ~(UNCHANGED space) PROVE SpaceTypes'
    <2>1. /\ status' = "Claimed" /\ claim' = [id |-> ids[p], fresh |-> TRUE] /\ age' = "young"
          /\ UNCHANGED <<attempt, starts, settlement, lapses>>
      BY <1>3 DEF Assign
    <2>2. claim' \in Claims
      BY <2>1 DEF LocalTypes
    <2> QED BY <2>1, <2>2 DEF SpaceTypes
  <1>4. ASSUME NEW p \in Pump, Start(p), ~(UNCHANGED space) PROVE SpaceTypes'
    <2>1. /\ status' = "Running" /\ claim' = [claim EXCEPT !.fresh = FALSE] /\ claim # None
          /\ starts' = [starts EXCEPT ![ids[p]] = [attempt |-> mine[p], fresh |-> claim.fresh]]
          /\ UNCHANGED <<attempt, age, settlement, lapses>>
      BY <1>4 DEF Start, SpaceTypes
    <2>2. [attempt |-> mine[p], fresh |-> claim.fresh] \in Starts
      BY <2>1 DEF LocalTypes, Starts
    <2> QED BY <2>1, <2>2 DEF SpaceTypes
  <1>5. ASSUME NEW p \in Pump, NEW s \in {"Succeeded", "Failed"}, Close(s, p) PROVE SpaceTypes'
    <2>1. settlement' \in Settlements
      BY <1>5 DEF Close, Settlements, SpaceTypes, LocalTypes
    <2> QED BY <1>5, <2>1 DEF Close, SpaceTypes, Terminal
  <1>6. CASE Tick \/ OtherCommit \/ CancelTask
    <2>1. CASE Tick
      <3>1. lapses' \in 0..MaxLapses
        BY <2>1, PumpAssumption DEF Tick, SpaceTypes
      <3> QED BY <2>1, <3>1 DEF Tick, SpaceTypes
    <2>2. CASE OtherCommit
      <3>1. /\ claim' \in Claims \cup {None} /\ (claim' # None <=> claim # None)
            /\ UNCHANGED <<status, attempt, age, starts, settlement, lapses>>
        BY <2>2 DEF OtherCommit
      <3> QED BY <3>1 DEF SpaceTypes
    <2>3. CASE CancelTask
      BY <2>3 DEF CancelTask, SpaceTypes, Terminal
    <2> QED BY <1>6, <2>1, <2>2, <2>3
  <1>7. CASE UNCHANGED space
    BY <1>7, SameTypes
  <1>8. ASSUME NEW p \in Pump, PumpStep(p) \/ Beat(p) \/ Crash(p) PROVE SpaceTypes'
    BY <1>1, <1>2, <1>3, <1>4, <1>5, <1>7, <1>8
    DEF PumpStep, Observe, ExpireTaskClaim, CheckClaim, Dispatch, Lock, SignLock, FindLocked, StealLock,
        Recheck, Accept, EffectFails, WriteResult, Release, ObserveResult, SettleTask, ObserveFailed,
        FailTask, Crash
  <1> QED BY <1>6, <1>8 DEF Next

\* The journal's files and the adapter's keys.
LEMMA JournalTyped ==
    ASSUME JournalTypes, LocalTypes, NEW p \in Pump, PumpStep(p) \/ Beat(p) \/ Crash(p)
    PROVE  JournalTypes'
  <1>1. CASE Lock(p) \/ SignLock(p) \/ StealLock(p) \/ WriteResult(p) \/ Release(p)
    <2>1. results' \in [Attempts -> Pump \cup {None}] /\ accepted' = accepted
      BY <1>1 DEF Lock, SignLock, StealLock, WriteResult, Release, JournalTypes, LocalTypes
    <2>2. \A x \in Locks : [x EXCEPT !.signed = TRUE] \in Locks
      BY DEF Locks
    <2>3. [by |-> p, signed |-> FALSE] \in Locks
      BY DEF Locks
    <2>4. lock' \in [Attempts -> Locks \cup {None}]
      <3>1. CASE SignLock(p)
        <4>1. CASE lock' = lock
          BY <4>1 DEF JournalTypes
        <4>2. CASE lock[mine[p]] # None /\ lock' = [lock EXCEPT ![mine[p]].signed = TRUE]
          <5>1. mine[p] \in Attempts /\ lock[mine[p]] \in Locks
            BY <4>2 DEF JournalTypes, LocalTypes
          <5> QED BY <4>2, <5>1, <2>2 DEF JournalTypes
        <4> QED BY <3>1, <4>1, <4>2 DEF SignLock
      <3>2. CASE ~SignLock(p)
        BY <1>1, <2>3, <3>2 DEF Lock, StealLock, WriteResult, Release, JournalTypes, LocalTypes
      <3> QED BY <3>1, <3>2
    <2> QED BY <2>1, <2>4 DEF JournalTypes
  <1>2. CASE Accept(p)
    BY <1>2 DEF Accept, JournalTypes, journal
  <1>3. CASE UNCHANGED <<journal, accepted>>
    BY <1>3, SameTypes
  <1> QED BY <1>1, <1>2, <1>3
          DEF PumpStep, Observe, ExpireTaskClaim, HeartbeatTaskClaim, Assign, CheckClaim, Start, Dispatch,
              FindLocked, Recheck, EffectFails, ObserveResult, SettleTask, ObserveFailed, FailTask,
              Beat, Crash

\* The pump's reading of the space.
LEMMA CurrentTyped ==
    ASSUME current \in [Pump -> BOOLEAN], NEW p \in Pump, PumpStep(p) \/ Beat(p) \/ Crash(p)
    PROVE  current' \in [Pump -> BOOLEAN]
  BY CurrentTypes
  DEF PumpStep, Observe, ExpireTaskClaim, HeartbeatTaskClaim, Renewed, Assign, CheckClaim, Start, Dispatch,
      Lock, SignLock, FindLocked, StealLock, Recheck, Accept, EffectFails, WriteResult, Release,
      ObserveResult, SettleTask, Close, ObserveFailed, FailTask, Beat, Crash

LEMMA FaultsTyped ==
    ASSUME faults \in 0..MaxFaults, Next
    PROVE  faults' \in 0..MaxFaults
  <1>1. faults' = faults \/ CountFault
    BY ZenonT(60)
       DEF Next, PumpStep, Observe, ExpireTaskClaim, HeartbeatTaskClaim, Assign, CheckClaim, Start,
           Dispatch, Lock, SignLock, FindLocked, StealLock, Recheck, Accept, EffectFails, WriteResult,
           Release, ObserveResult, SettleTask, ObserveFailed, FailTask, Beat, Crash, Tick, OtherCommit,
           CancelTask
  <1> QED BY <1>1, PumpAssumption DEF CountFault

\* Every step keeps the types.
LEMMA KeepsTypes ==
    ASSUME IInv, Next
    PROVE  TypeOK'
  <1>1. /\ LocalTypes /\ SpaceTypes /\ JournalTypes
        /\ current \in [Pump -> BOOLEAN] /\ faults \in 0..MaxFaults
    BY TypeParts DEF IInv
  <1>2. LocalTypes' /\ JournalTypes' /\ current' \in [Pump -> BOOLEAN]
    <2>1. ASSUME NEW p \in Pump, PumpStep(p) \/ Beat(p) \/ Crash(p)
          PROVE  LocalTypes' /\ JournalTypes' /\ current' \in [Pump -> BOOLEAN]
      BY <1>1, <2>1, LocalTyped, JournalTyped, CurrentTyped
    <2>2. CASE Tick \/ OtherCommit \/ CancelTask
      <3>1. UNCHANGED <<pc, adopt, ids, mine, tended, raced, beat, error, journal, accepted>>
            /\ (Committed \/ current' = current)
        BY <2>2 DEF Tick, OtherCommit, CancelTask, local
      <3> QED BY <1>1, <3>1, SameTypes DEF LocalTypes, Committed
    <2> QED BY <2>1, <2>2 DEF Next
  <1> QED BY <1>1, <1>2, SpaceTyped, FaultsTyped, TypeParts

------------------------------------------------------------------------------
(* Attempts, results, readings *)

\* Only the commands of the space, and time, change it.
LEMMA SpaceChange ==
    ASSUME NEW p \in Pump, PumpStep(p) \/ Beat(p) \/ Crash(p)
    PROVE  \/ UNCHANGED space
           \/ ExpireTaskClaim(p) \/ HeartbeatTaskClaim(p) \/ Assign(p) \/ Start(p)
           \/ SettleTask(p) \/ FailTask(p) \/ Beat(p)
  BY DEF PumpStep, Observe, CheckClaim, Dispatch, Lock, SignLock, FindLocked, StealLock, Recheck, Accept,
         EffectFails, WriteResult, Release, ObserveResult, ObserveFailed, Crash

\* A new attempt is paid for with a lapsed lease.
LEMMA KeepsPaid ==
    ASSUME IInv, Next
    PROVE  AttemptsPaid'
  <1> USE Domains, Constants DEF IInv, AttemptsPaid, Lapsed
  <1>1. ASSUME NEW p \in Pump, ExpireTaskClaim(p) PROVE AttemptsPaid'
    <2>1. CASE current[p]
      <3>1. attempt <= lapses /\ attempt' = attempt + 1 /\ claim' = None /\ lapses' = lapses
        BY <1>1, <2>1 DEF ExpireTaskClaim, ReadingOK
      <3> QED BY <3>1 DEF TypeOK
    <2>2. CASE ~current[p]
      BY <1>1, <2>2 DEF ExpireTaskClaim, space
    <2> QED BY <2>1, <2>2
  <1>2. ASSUME NEW p \in Pump, HeartbeatTaskClaim(p) PROVE AttemptsPaid'
    BY <1>2 DEF HeartbeatTaskClaim, Renewed, space, TypeOK
  <1>3. ASSUME NEW p \in Pump, Assign(p) PROVE AttemptsPaid'
    BY <1>3 DEF Assign, space, TypeOK
  <1>4. ASSUME NEW p \in Pump, Start(p) PROVE AttemptsPaid'
    BY <1>4 DEF Start, space, TypeOK
  <1>5. ASSUME NEW p \in Pump, SettleTask(p) PROVE AttemptsPaid'
    BY <1>5 DEF SettleTask, Close, space, TypeOK
  <1>6. ASSUME NEW p \in Pump, FailTask(p) PROVE AttemptsPaid'
    BY <1>6 DEF FailTask, Close, space, TypeOK
  <1>7. ASSUME NEW p \in Pump, Beat(p) PROVE AttemptsPaid'
    BY <1>7 DEF Beat, Renewed, space, TypeOK
  <1>8. CASE Tick \/ OtherCommit \/ CancelTask
    BY <1>8 DEF Tick, OtherCommit, CancelTask, TypeOK
  <1>9. CASE UNCHANGED space
    BY <1>9 DEF space
  <1> QED
    BY <1>1, <1>2, <1>3, <1>4, <1>5, <1>6, <1>7, <1>8, <1>9, SpaceChange DEF Next

\* A result is written after the effect was accepted.
LEMMA KeepsResults ==
    ASSUME IInv, Next
    PROVE  ResultsAccepted'
  <1> USE Domains DEF IInv, ResultsAccepted, InvocationRef
  <1>1. ASSUME NEW p \in Pump, WriteResult(p) PROVE ResultsAccepted'
    BY <1>1 DEF WriteResult, ExecutionOK
  <1>2. ASSUME NEW p \in Pump, Accept(p) PROVE ResultsAccepted'
    BY <1>2 DEF Accept, journal
  <1>3. CASE UNCHANGED <<results, accepted>>
    BY <1>3
  <1> QED
    BY <1>1, <1>2, <1>3, ZenonT(60)
    DEF Next, PumpStep, journal, Observe, ExpireTaskClaim, HeartbeatTaskClaim, Assign, CheckClaim,
        Start, Dispatch, Lock, SignLock, FindLocked, StealLock, Recheck, EffectFails, Release,
        ObserveResult, SettleTask, ObserveFailed, FailTask, Beat, Crash, Tick, OtherCommit,
        CancelTask

\* A result stays.
LEMMA ResultsStay ==
    ASSUME IInv, Next, NEW n \in Attempts, results[n] # None
    PROVE  results'[n] # None
  <1>1. ASSUME NEW p \in Pump, WriteResult(p) PROVE results'[n] # None
    BY <1>1, Domains, Constants DEF WriteResult, IInv
  <1> QED
    BY <1>1, ZenonT(60)
    DEF Next, PumpStep, journal, Observe, ExpireTaskClaim, HeartbeatTaskClaim, Assign, CheckClaim,
        Start, Dispatch, Lock, SignLock, FindLocked, StealLock, Recheck, Accept, EffectFails,
        Release, ObserveResult, SettleTask, ObserveFailed, FailTask, Beat, Crash, Tick,
        OtherCommit, CancelTask

\* A success is recorded by the attempt it ends, and stays.
LEMMA KeepsSuccess ==
    ASSUME IInv, Next
    PROVE  SuccessRecorded'
  <1>1. CASE UNCHANGED <<status, settlement>>
    <2>1. ASSUME status = "Succeeded" PROVE results'[settlement.attempt] # None
      <3>1. settlement.attempt \in Attempts /\ results[settlement.attempt] # None
        BY <2>1 DEF IInv, SuccessRecorded, Settlements
      <3> QED BY <3>1, ResultsStay
    <2> QED BY <1>1, <2>1 DEF IInv, SuccessRecorded
  <1>2. CASE status' # "Succeeded"
    BY <1>2 DEF SuccessRecorded
  <1>3. ASSUME NEW p \in Pump, SettleTask(p), current[p] PROVE SuccessRecorded'
    <2>1. attempt = mine[p] /\ results[mine[p]] # None /\ mine[p] \in Attempts /\ ids[p] \in Attempts
      BY <1>3, Domains DEF SettleTask, IInv, ReadingOK, ExecutionOK, OwnsAttempt
    <2>2. settlement' = [attempt |-> mine[p], by |-> mine[p], id |-> ids[p]] /\ results' = results
      BY <1>3, <2>1 DEF SettleTask, Close, journal
    <2> QED BY <2>1, <2>2 DEF SuccessRecorded, Settlements
  <1>4. ASSUME NEW p \in Pump, ~current[p], SettleTask(p) \/ ExpireTaskClaim(p) PROVE UNCHANGED <<status, settlement>>
    BY <1>4 DEF SettleTask, ExpireTaskClaim, space
  <1> QED
    BY <1>1, <1>2, <1>3, <1>4, SpaceChange
    DEF Next, ExpireTaskClaim, HeartbeatTaskClaim, Assign, Start, FailTask, Close, Beat, Tick, OtherCommit,
        CancelTask, space

\* A pump's reading holds while nothing is committed.
LEMMA KeepsReading ==
    ASSUME IInv, NEW q \in Pump, Next
    PROVE  ReadingOK(q)'
  <1> USE Domains DEF IInv, ReadingOK, OwnsAttempt, Lapsed
  <1>1. CASE Committed
    BY <1>1 DEF Committed
  <1>2. CASE Tick
    BY <1>2 DEF Tick, local
  <1>3. ASSUME NEW p \in Pump, Observe(p) PROVE ReadingOK(q)'
    <2>1. UNCHANGED <<status, attempt, claim, age, mine>>
      BY <1>3 DEF Observe, Keep, space
    <2>2. CASE q = p
      <3>1. /\ pc'[p] \in {"expire", "renew", "assign"}
            /\ (pc'[p] = "expire" => Lapsed) /\ (pc'[p] = "renew" => claim # None)
        BY <1>3 DEF Observe, Keep, Goto, Recovering, TypeOK
      <3> QED BY <2>1, <2>2, <3>1
    <2>3. CASE q # p
      <3>1. pc'[q] = pc[q] /\ current'[q] = current[q]
        BY <1>3, <2>3 DEF Observe, Keep, Goto, ReadSpace
      <3> QED BY <2>1, <3>1
    <2> QED BY <2>2, <2>3
  <1>4. ASSUME NEW p \in Pump, ExpireTaskClaim(p) PROVE ReadingOK(q)'
    BY <1>1, <1>4 DEF ExpireTaskClaim, Committed, Leave, Goto, space
  <1>5. ASSUME NEW p \in Pump, HeartbeatTaskClaim(p) PROVE ReadingOK(q)'
    BY <1>1, <1>5 DEF HeartbeatTaskClaim, Renewed, Committed, Leave, Goto, space
  <1>6. ASSUME NEW p \in Pump, Assign(p) PROVE ReadingOK(q)'
    BY <1>1, <1>6 DEF Assign, Replayed, Leave, Committed, Goto, space
  <1>7. ASSUME NEW p \in Pump, CheckClaim(p) PROVE ReadingOK(q)'
    BY <1>1, <1>7 DEF CheckClaim, ReadSpace, Keep, Leave, Goto, space
  <1>8. ASSUME NEW p \in Pump, Start(p) PROVE ReadingOK(q)'
    BY <1>1, <1>8 DEF Start, Started, Forget, Committed, Leave, Goto, space
  <1>9. ASSUME NEW p \in Pump, Dispatch(p) PROVE ReadingOK(q)'
    BY <1>1, <1>9 DEF Dispatch, Executed, Keep, Goto, space
  <1>10. ASSUME NEW p \in Pump, Lock(p) PROVE ReadingOK(q)'
    BY <1>1, <1>10 DEF Lock, Keep, Goto, space
  <1>11. ASSUME NEW p \in Pump, SignLock(p) PROVE ReadingOK(q)'
    BY <1>1, <1>11 DEF SignLock, Keep, Leave, Goto, space
  <1>12. ASSUME NEW p \in Pump, FindLocked(p) PROVE ReadingOK(q)'
    BY <1>1, <1>12 DEF FindLocked, Keep, Leave, Goto, space
  <1>13. ASSUME NEW p \in Pump, StealLock(p) PROVE ReadingOK(q)'
    BY <1>1, <1>13 DEF StealLock, Keep, Goto, space
  <1>14. ASSUME NEW p \in Pump, Recheck(p) PROVE ReadingOK(q)'
    BY <1>1, <1>14 DEF Recheck, Keep, Goto, space
  <1>15. ASSUME NEW p \in Pump, Accept(p) PROVE ReadingOK(q)'
    BY <1>1, <1>15 DEF Accept, Keep, Goto, space
  <1>16. ASSUME NEW p \in Pump, EffectFails(p) PROVE ReadingOK(q)'
    BY <1>1, <1>16 DEF EffectFails, Throw, Goto, space
  <1>17. ASSUME NEW p \in Pump, WriteResult(p) PROVE ReadingOK(q)'
    BY <1>1, <1>17 DEF WriteResult, Keep, Throw, Goto, space
  <1>18. ASSUME NEW p \in Pump, Release(p) PROVE ReadingOK(q)'
    BY <1>1, <1>18 DEF Release, Executed, Leave, Goto, space
  <1>19. ASSUME NEW p \in Pump, ObserveResult(p) PROVE ReadingOK(q)'
    BY <1>1, <1>19 DEF ObserveResult, ReadSpace, Keep, Leave, Goto, space
  <1>20. ASSUME NEW p \in Pump, SettleTask(p) PROVE ReadingOK(q)'
    BY <1>1, <1>20 DEF SettleTask, Close, Committed, Keep, Leave, Goto, space
  <1>21. ASSUME NEW p \in Pump, ObserveFailed(p) PROVE ReadingOK(q)'
    BY <1>1, <1>21 DEF ObserveFailed, ReadSpace, Keep, Leave, Goto, space
  <1>22. ASSUME NEW p \in Pump, FailTask(p) PROVE ReadingOK(q)'
    BY <1>1, <1>22 DEF FailTask, Close, Committed, Leave, Goto, space
  <1>23. ASSUME NEW p \in Pump, Beat(p) PROVE ReadingOK(q)'
    BY <1>1, <1>23 DEF Beat, Renewed, Committed, Goto, space
  <1>24. ASSUME NEW p \in Pump, Crash(p) PROVE ReadingOK(q)'
    BY <1>1, <1>24 DEF Crash, Leave, Forget, Goto, space
  <1> QED
    BY <1>1, <1>2, <1>3, <1>4, <1>5, <1>6, <1>7, <1>8, <1>9, <1>10, <1>11, <1>12, <1>13,
       <1>14, <1>15, <1>16, <1>17, <1>18, <1>19, <1>20, <1>21, <1>22, <1>23, <1>24
    DEF Next, PumpStep, OtherCommit, CancelTask

\* An execution's progress.
LEMMA KeepsExecution ==
    ASSUME IInv, NEW q \in Pump, Next
    PROVE  ExecutionOK(q)'
  <1> USE Domains, Constants DEF IInv, ExecutionOK, InvocationRef
  <1>1. ASSUME NEW p \in Pump, Observe(p) PROVE ExecutionOK(q)'
    BY <1>1 DEF Observe, ReadSpace, Keep, Goto, journal
  <1>2. ASSUME NEW p \in Pump, ExpireTaskClaim(p) PROVE ExecutionOK(q)'
    BY <1>2 DEF ExpireTaskClaim, Committed, Leave, Goto, journal
  <1>3. ASSUME NEW p \in Pump, HeartbeatTaskClaim(p) PROVE ExecutionOK(q)'
    BY <1>3 DEF HeartbeatTaskClaim, Renewed, Committed, Leave, Goto, journal
  <1>4. ASSUME NEW p \in Pump, Assign(p) PROVE ExecutionOK(q)'
    BY <1>4 DEF Assign, Leave, Committed, Goto, journal
  <1>5. ASSUME NEW p \in Pump, CheckClaim(p) PROVE ExecutionOK(q)'
    BY <1>5 DEF CheckClaim, ReadSpace, Keep, Leave, Goto, journal
  <1>6. ASSUME NEW p \in Pump, Start(p) PROVE ExecutionOK(q)'
    BY <1>6 DEF Start, Started, Forget, Committed, Leave, Goto, journal
  <1>7. ASSUME NEW p \in Pump, Dispatch(p) PROVE ExecutionOK(q)'
    BY <1>7 DEF Dispatch, Executed, Keep, Goto, journal
  <1>8. ASSUME NEW p \in Pump, Lock(p) PROVE ExecutionOK(q)'
    BY <1>8 DEF Lock, Keep, Goto, journal
  <1>9. ASSUME NEW p \in Pump, SignLock(p) PROVE ExecutionOK(q)'
    BY <1>9 DEF SignLock, Keep, Leave, Goto, journal
  <1>10. ASSUME NEW p \in Pump, FindLocked(p) PROVE ExecutionOK(q)'
    BY <1>10 DEF FindLocked, Keep, Leave, Goto, journal
  <1>11. ASSUME NEW p \in Pump, StealLock(p) PROVE ExecutionOK(q)'
    BY <1>11 DEF StealLock, Keep, Goto, journal
  <1>12. ASSUME NEW p \in Pump, Recheck(p) PROVE ExecutionOK(q)'
    BY <1>12 DEF Recheck, Keep, Goto, journal
  <1>13. ASSUME NEW p \in Pump, Accept(p) PROVE ExecutionOK(q)'
    BY <1>13 DEF Accept, Keep, Goto, journal
  <1>14. ASSUME NEW p \in Pump, EffectFails(p) PROVE ExecutionOK(q)'
    BY <1>14 DEF EffectFails, Throw, Goto, journal
  <1>15. ASSUME NEW p \in Pump, WriteResult(p) PROVE ExecutionOK(q)'
    BY <1>15 DEF WriteResult, Keep, Throw, Goto, journal
  <1>16. ASSUME NEW p \in Pump, Release(p) PROVE ExecutionOK(q)'
    BY <1>16 DEF Release, Executed, Leave, Goto, journal
  <1>17. ASSUME NEW p \in Pump, ObserveResult(p) PROVE ExecutionOK(q)'
    BY <1>17 DEF ObserveResult, ReadSpace, Keep, Leave, Goto, journal
  <1>18. ASSUME NEW p \in Pump, SettleTask(p) PROVE ExecutionOK(q)'
    BY <1>18 DEF SettleTask, Close, Committed, Keep, Leave, Goto, journal
  <1>19. ASSUME NEW p \in Pump, ObserveFailed(p) PROVE ExecutionOK(q)'
    BY <1>19 DEF ObserveFailed, ReadSpace, Keep, Leave, Goto, journal
  <1>20. ASSUME NEW p \in Pump, FailTask(p) PROVE ExecutionOK(q)'
    BY <1>20 DEF FailTask, Close, Committed, Leave, Goto, journal
  <1>21. ASSUME NEW p \in Pump, Beat(p) PROVE ExecutionOK(q)'
    BY <1>21 DEF Beat, Renewed, Committed, Goto, journal
  <1>22. ASSUME NEW p \in Pump, Crash(p) PROVE ExecutionOK(q)'
    BY <1>22 DEF Crash, Leave, Forget, Goto, journal
  <1>23. CASE Tick \/ OtherCommit \/ CancelTask
    BY <1>23 DEF Tick, OtherCommit, CancelTask, journal, local
  <1> QED
    BY <1>1, <1>2, <1>3, <1>4, <1>5, <1>6, <1>7, <1>8, <1>9, <1>10, <1>11, <1>12, <1>13,
       <1>14, <1>15, <1>16, <1>17, <1>18, <1>19, <1>20, <1>21, <1>22, <1>23
    DEF Next, PumpStep

------------------------------------------------------------------------------
LEMMA InitInv == Init => IInv
  <1> SUFFICES ASSUME Init PROVE IInv
    OBVIOUS
  <1>1. TypeOK
    BY Constants, PumpAssumption DEF Init, TypeOK, Terminal, Executing
  <1>2. AttemptsPaid /\ ResultsAccepted /\ SuccessRecorded
    BY DEF Init, AttemptsPaid, ResultsAccepted, SuccessRecorded, Lapsed
  <1>3. \A p \in Pump : ReadingOK(p) /\ ExecutionOK(p)
    BY DEF Init, ReadingOK, ExecutionOK
  <1> QED BY <1>1, <1>2, <1>3 DEF IInv

LEMMA NextKeeps == IInv /\ [Next]_vars => IInv'
  <1>1. IInv /\ Next => IInv'
    BY KeepsTypes, KeepsPaid, KeepsResults, KeepsSuccess, KeepsReading, KeepsExecution DEF IInv
  <1>2. IInv /\ UNCHANGED vars => IInv'
    <2> SUFFICES ASSUME IInv, UNCHANGED vars PROVE IInv'
      OBVIOUS
    <2> USE DEF IInv, vars, space, journal, local
    <2>1. TypeOK'
      BY DEF TypeOK
    <2>2. AttemptsPaid' /\ ResultsAccepted' /\ SuccessRecorded'
      BY DEF AttemptsPaid, ResultsAccepted, SuccessRecorded, Lapsed
    <2>3. \A p \in Pump : ReadingOK(p)' /\ ExecutionOK(p)'
      BY DEF ReadingOK, ExecutionOK, Lapsed, OwnsAttempt
    <2> QED BY <2>1, <2>2, <2>3
  <1> QED BY <1>1, <1>2

LEMMA Inductive == Spec => []IInv
  BY InitInv, NextKeeps, PTL DEF Spec

\* Every variable keeps its type, for any number of pumps: there is a claim exactly while the
\* task is Claimed or Running, and there are never more attempts than leases that ran out, plus one.
THEOREM TypeCorrect == Spec => []TypeOK
  <1>1. IInv => TypeOK
    BY DEF IInv
  <1> QED BY <1>1, Inductive, PTL

\* A task that succeeded was settled by the attempt whose result was journalled, and one effect
\* was accepted for all attempts (executeHolonTask, HolonTaskPumpJournal.dispatch).
THEOREM SuccessIsOwned == Spec => []SettledByOwner
  <1>1. IInv => SettledByOwner
    <2> SUFFICES ASSUME IInv, status = "Succeeded" PROVE SettledByOwner
      BY DEF SettledByOwner
    <2>1. /\ settlement.by = settlement.attempt /\ settlement.attempt \in Attempts
          /\ results[settlement.attempt] # None
      BY DEF IInv, SuccessRecorded, Settlements
    <2>2. results[settlement.attempt] \in Pump
      BY <2>1 DEF IInv, TypeOK
    <2>3. accepted = {"task"}
      BY <2>1, <2>2 DEF IInv, TypeOK, ResultsAccepted, InvocationRef
    <2> QED BY <2>1, <2>3, FS_Singleton DEF SettledByOwner
  <1> QED BY <1>1, Inductive, PTL

\* A terminal task stays as it is, whatever commands are still under way (loadExpected).
THEOREM TerminalIsFinal == Spec => TerminalStays
  <1>1. IInv /\ [Next]_vars => [(status \in Terminal) => UNCHANGED <<status, settlement, attempt, claim>>]_vars
    <2> SUFFICES ASSUME IInv, Next, status \in Terminal PROVE UNCHANGED <<status, settlement, attempt, claim>>
      OBVIOUS
    <2>1. claim = None /\ status \notin {"Ready", "Claimed", "Running"}
      BY DEF IInv, TypeOK, Terminal
    <2> QED
      BY <2>1, SpaceChange
      DEF Next, IInv, ReadingOK, Lapsed, OwnsAttempt, ExpireTaskClaim, HeartbeatTaskClaim, Assign, Start,
          SettleTask, FailTask, Beat, Tick, OtherCommit, CancelTask, space
  <1> QED BY <1>1, Inductive, PTL DEF Spec, TerminalStays

\* A claim is taken away only when its lease is over at that moment: a heartbeat that came
\* between the look and the expiry keeps it (expectedRevision of expireTaskClaim).
THEOREM LiveLeaseIsKept == Spec => LiveLeaseKept
  <1>1. IInv /\ [Next]_vars => [attempt' # attempt => age = "lapsed"]_vars
    <2> SUFFICES ASSUME IInv, Next PROVE attempt' # attempt => age = "lapsed"
      OBVIOUS
    <2> QED
      BY SpaceChange
      DEF Next, IInv, ReadingOK, Lapsed, ExpireTaskClaim, HeartbeatTaskClaim, Assign, Start,
          SettleTask, FailTask, Close, Beat, Tick, OtherCommit, CancelTask, space
  <1> QED BY <1>1, Inductive, PTL DEF Spec, LiveLeaseKept
------------------------------------------------------------------------------
(* How far a failure can stray. *)

\* No pump is ahead of the task.
NoneAhead == \A p \in Pump : ids[p] <= attempt /\ mine[p] <= attempt

\* What was recorded of a failure.
FailureRecorded ==
    status = "Failed" =>
        /\ settlement \in Settlements
        /\ settlement.by <= settlement.attempt
        /\ settlement.attempt <= lapses + 1

FailureInv == IInv /\ NoneAhead /\ FailureRecorded

\* Attempts only grow, and a pump takes up what it finds.
LEMMA KeepsAhead ==
    ASSUME IInv, NoneAhead, Next
    PROVE  NoneAhead'
  <1> USE Domains, Constants DEF NoneAhead
  <1>1. attempt' \in Nat /\ attempt \in Nat /\ attempt <= attempt' /\ 1 <= attempt
    <2>1. attempt \in Nat /\ 1 <= attempt
      BY DEF IInv, TypeOK, Attempts
    <2>2. attempt' = attempt \/ attempt' = attempt + 1
      BY SpaceChange
      DEF Next, ExpireTaskClaim, HeartbeatTaskClaim, Assign, Start, SettleTask, FailTask, Close, Beat, Tick,
          OtherCommit, CancelTask, space
    <2> QED BY <2>1, <2>2
  <1>2. ASSUME NEW p \in Pump, PumpStep(p) \/ Beat(p) \/ Crash(p), NEW q \in Pump
        PROVE  /\ ids'[q] \in {ids[q], 1, attempt}
               /\ mine'[q] \in {mine[q], ids[q], 1, attempt}
    BY <1>2
    DEF IInv, PumpStep, Observe, ExpireTaskClaim, HeartbeatTaskClaim, Assign, CheckClaim, Start, Started,
        Dispatch, Lock, SignLock, FindLocked, StealLock, Recheck, Accept, EffectFails, WriteResult, Release,
        ObserveResult, SettleTask, ObserveFailed, FailTask, Beat, Crash, Keep, Leave, Executed, Throw
  <1>3. ASSUME NEW p \in Pump, PumpStep(p) \/ Beat(p) \/ Crash(p) PROVE NoneAhead'
    <2> SUFFICES ASSUME NEW q \in Pump PROVE ids'[q] <= attempt' /\ mine'[q] <= attempt'
      OBVIOUS
    <2>1. /\ ids[q] \in Nat /\ mine[q] \in Nat /\ ids[q] <= attempt /\ mine[q] <= attempt
      BY DEF IInv
    <2>2. /\ ids'[q] \in {ids[q], 1, attempt}
          /\ mine'[q] \in {mine[q], ids[q], 1, attempt}
      BY <1>2, <1>3
    <2> QED BY <1>1, <2>1, <2>2
  <1>4. CASE Tick \/ OtherCommit \/ CancelTask
    BY <1>1, <1>4 DEF Tick, OtherCommit, CancelTask, local
  <1> QED BY <1>3, <1>4 DEF Next

\* A failure is recorded against the live attempt, and stays.
LEMMA KeepsFailed ==
    ASSUME IInv, NoneAhead, FailureRecorded, Next
    PROVE  FailureRecorded'
  <1> USE DEF FailureRecorded
  <1>1. CASE UNCHANGED <<status, settlement, lapses>>
    BY <1>1
  <1>2. CASE status' # "Failed"
    BY <1>2
  <1>3. ASSUME NEW p \in Pump, FailTask(p), current[p] PROVE FailureRecorded'
    <2>1. /\ settlement' = [attempt |-> attempt, by |-> mine[p], id |-> None] /\ lapses' = lapses
      BY <1>3 DEF FailTask, Close
    <2>2. attempt \in Attempts /\ mine[p] \in Attempts /\ mine[p] <= attempt /\ attempt <= lapses + 1
      BY Domains DEF IInv, TypeOK, NoneAhead, AttemptsPaid
    <2> QED BY <2>1, <2>2 DEF Settlements
  <1>4. ASSUME NEW p \in Pump, ~current[p], FailTask(p) \/ ExpireTaskClaim(p) \/ SettleTask(p)
        PROVE  UNCHANGED <<status, settlement, lapses>>
    BY <1>4 DEF FailTask, SettleTask, ExpireTaskClaim, space
  <1>5. CASE Tick
    <2>1. status # "Failed"
      BY <1>5 DEF Tick, IInv, TypeOK
    <2> QED BY <1>5, <2>1 DEF Tick
  <1> QED
    BY <1>1, <1>2, <1>3, <1>4, <1>5, SpaceChange
    DEF Next, ExpireTaskClaim, HeartbeatTaskClaim, Assign, Start, SettleTask, Close, Beat, OtherCommit,
        CancelTask, space

\* A failure that ends an attempt is its own or that of an attempt it replaced, and at least as
\* many leases ran out as lie between the two; while no lease has run out, it is its own.  The
\* failures that holon_pump_late_failure shows are thus the only ones that go astray
\* (pumpHolonTaskSpace after MEMBER_EXECUTION_FAILED).
THEOREM FailureOfReplacedAttempt ==
    Spec => [](status = "Failed" =>
                  /\ settlement.by <= settlement.attempt
                  /\ settlement.attempt - settlement.by <= lapses
                  /\ lapses = 0 => FailedByOwner)
  <1> DEFINE Strayed == status = "Failed" =>
                  /\ settlement.by <= settlement.attempt
                  /\ settlement.attempt - settlement.by <= lapses
                  /\ lapses = 0 => FailedByOwner
  <1>1. Init => FailureInv
    BY InitInv DEF Init, FailureInv, NoneAhead, FailureRecorded
  <1>2. FailureInv /\ [Next]_vars => FailureInv'
    <2>1. ASSUME FailureInv, Next PROVE FailureInv'
      BY <2>1, NextKeeps, KeepsAhead, KeepsFailed DEF FailureInv
    <2>2. ASSUME FailureInv, UNCHANGED vars PROVE FailureInv'
      <3>1. IInv'
        BY <2>2, NextKeeps DEF FailureInv
      <3> QED BY <2>2, <3>1 DEF FailureInv, NoneAhead, FailureRecorded, vars, space, local
    <2> QED BY <2>1, <2>2
  <1>3. FailureInv => Strayed
    <2> SUFFICES ASSUME FailureInv, status = "Failed" PROVE Strayed
      OBVIOUS
    <2>1. /\ settlement.by \in Nat /\ settlement.attempt \in Nat /\ 1 <= settlement.by /\ lapses \in Nat
          /\ settlement.by <= settlement.attempt /\ settlement.attempt <= lapses + 1
      BY DEF FailureInv, FailureRecorded, Settlements, Attempts, IInv, TypeOK
    <2> QED BY <2>1 DEF FailedByOwner
  <1> QED BY <1>1, <1>2, <1>3, PTL DEF Spec
==============================================================================
