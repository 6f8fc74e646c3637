---------------------------- MODULE HolonTaskPump ----------------------------
(***************************************************************************)
(* The pumps that carry one task of a TaskSpace from Ready to a terminal   *)
(* status, in several processes at once:                                   *)
(*                                                                         *)
(*   ai-organ-logic/src/organization/HolonTaskSpacePump.ts        the loop *)
(*   ai-organ-logic/src/organization/HolonTaskRuntimeProcessor.ts execute  *)
(*   ai-organ-logic/src/organization/HolonTaskPumpJournal.ts      dispatch *)
(*   ai-support/src/organization/FileHolonTaskPumpJournalStore.ts lock     *)
(*   vendor/task-manager/task-manager-logic/src/processors.ts     commands *)
(*                                                                         *)
(* A TaskSpace command is a compare-and-swap on the space's revision.  A   *)
(* pump that read the space keeps `current`: whether nothing was committed *)
(* since, that is, whether its expectedRevision and its claim token still  *)
(* are the head's.  Expiry gives the task a new attempt, and an attempt is *)
(* claimed once, so an attempt names its claim, its intent and its lock.   *)
(* Commands are replayed by their ids, derived from the attempt the pump   *)
(* saw when it chose the task.  A lease is young, old (its second half) or *)
(* lapsed.  A restarted process is another pump.                           *)
(***************************************************************************)
EXTENDS Integers, FiniteSets

CONSTANTS
    Pump,         \* processes, each with one lane for the TaskSpace
    MaxLapses,    \* bound: leases that run out
    MaxMissed,    \* bound: how many of them, at most, before a lease that a pump keeps runs out
    MaxFaults,    \* bound: deaths of pumps, interrupted executions and commits of others
    None

ASSUME PumpAssumption ==
    /\ None \notin Pump \cup [id : Nat, fresh : BOOLEAN]
    /\ MaxLapses \in Nat /\ MaxMissed \in 0..MaxLapses
    /\ MaxFaults \in Nat

VARIABLES
    status,       \* of the task
    attempt,      \* of the task; its leaseEpoch goes with it
    claim,        \* activeClaim, or None: [id, fresh], the attempt its command id was derived
                  \* from, and whether the space's revision is still the one the claim made
    age,          \* of the claim's lease
    starts,       \* by command id: the start receipt's [attempt, fresh], or None
    settlement,   \* the pump's terminal receipt, or None: [attempt, by, id], by: the attempt whose
                  \* outcome it records, id: the attempt its command id was derived from, if any
    results,      \* the journal's result of each attempt: the pump that wrote it, or None
    lock,         \* the journal's lock file of each attempt: [by, signed], or None
    accepted,     \* idempotency keys whose effect the adapter has accepted
    pc,           \* where each pump is; "dead" when its process is gone
    current,      \* the space is as the pump last read it
    adopt,        \* the pump took up a claimed task, so its claim command is a replay
    ids,          \* the attempt the pump derives its command ids from
    mine,         \* the attempt the pump's claim receipt is for
    tended,       \* the attempt whose claim the heartbeat beside an execution follows
    raced,        \* pumps about to start that saw no start yet, while another pump's was
                  \* committed on the very revision they read
    beat,         \* the heartbeat beside an execution: "off", "on", "failed"
    error,        \* how dispatch ended: "none", "stale", "failed", "thrown"
    lapses, faults

space == <<status, attempt, claim, age, starts, settlement, lapses>>
journal == <<results, lock>>
local == <<pc, current, adopt, ids, mine, tended, raced, beat, error>>
vars == <<space, journal, accepted, local, faults>>

Attempts == 1..(MaxLapses + 1)
Terminal == {"Succeeded", "Failed", "Cancelled"}
Executing == {"dispatch", "lock", "sign", "steal", "locked", "effect", "accepted", "release"}

\* The adapter's key belongs to the task, not to an attempt.
InvocationRef(p) == "task"

\* Mutant of OwnsAttempt: any live claim of the task will do.
OwnsTask(p) == claim # None

\* sameClaimAttempt: the live claim is that of the pump's attempt.
OwnsAttempt(p) == claim # None /\ attempt = mine[p]
------------------------------------------------------------------------------
Init ==
    /\ status = "Ready" /\ attempt = 1 /\ claim = None /\ age = "young"
    /\ starts = [n \in Attempts |-> None]
    /\ settlement = None
    /\ results = [n \in Attempts |-> None]
    /\ lock = [n \in Attempts |-> None]
    /\ accepted = {}
    /\ pc = [p \in Pump |-> "idle"]
    /\ current = [p \in Pump |-> FALSE]
    /\ adopt = [p \in Pump |-> FALSE]
    /\ ids = [p \in Pump |-> 1]
    /\ mine = [p \in Pump |-> 1]
    /\ tended = [p \in Pump |-> 1]
    /\ raced = {}
    /\ beat = [p \in Pump |-> "off"]
    /\ error = [p \in Pump |-> "none"]
    /\ lapses = 0 /\ faults = 0

Goto(p, l) == pc' = [pc EXCEPT ![p] = l]
\* The pump reads the space for the command it is about to issue; whoever commits makes every
\* earlier reading stale.
ReadSpace(p) == current' = [current EXCEPT ![p] = TRUE]
Forget(p) == current' = [current EXCEPT ![p] = FALSE]
Committed == current' = [p \in Pump |-> FALSE]
\* The execution is over, and the heartbeat beside it with it.
Executed(p, l) ==
    /\ Goto(p, l)
    /\ beat' = [beat EXCEPT ![p] = "off"]
    /\ tended' = [tended EXCEPT ![p] = 1]
    /\ error' = [error EXCEPT ![p] = "none"]
    /\ UNCHANGED <<adopt, ids, mine, raced>>
\* The iteration ends, or the pump throws and is woken again: its local state is forgotten.
Leave(p, l) ==
    /\ Goto(p, l)
    /\ adopt' = [adopt EXCEPT ![p] = FALSE]
    /\ ids' = [ids EXCEPT ![p] = 1]
    /\ mine' = [mine EXCEPT ![p] = 1]
    /\ tended' = [tended EXCEPT ![p] = 1]
    /\ raced' = raced \ {p}
    /\ beat' = [beat EXCEPT ![p] = "off"]
    /\ error' = [error EXCEPT ![p] = "none"]
Keep(p, l) == Goto(p, l) /\ UNCHANGED <<adopt, ids, mine, tended, raced, beat, error>>
CountFault == faults < MaxFaults /\ faults' = faults + 1
-----------------------------------------------------------------------------
(* pumpHolonTaskSpace *)

Lapsed == claim # None /\ age = "lapsed"
\* recoveringTask: the claim's command id is the one a pump derives from the task now.
Recovering == status \in {"Claimed", "Running"} /\ claim.id = attempt

Observe(p) ==
    /\ pc[p] = "idle"
    /\ \/ Lapsed /\ ReadSpace(p) /\ Keep(p, "expire")
       \/ ~Lapsed /\ Recovering /\ age = "old" /\ ReadSpace(p) /\ Keep(p, "renew")
       \/ /\ ~Lapsed
          /\ status # "Ready" => Recovering /\ age = "young"
          /\ ids' = [ids EXCEPT ![p] = attempt]
          /\ adopt' = [adopt EXCEPT ![p] = status # "Ready"]
          /\ Goto(p, "assign")
          /\ UNCHANGED <<current, mine, tended, raced, beat, error>>
    /\ UNCHANGED <<space, journal, accepted, faults>>

\* Mutant of ExpireTaskClaim: the revision the pump observed is not expected.
ExpireObserved(p) ==
    /\ pc[p] = "expire"
    /\ IF claim # None
       THEN /\ status' = "Ready" /\ attempt' = attempt + 1 /\ claim' = None /\ age' = "young"
            /\ UNCHANGED <<starts, settlement, lapses>>
            /\ Committed
       ELSE UNCHANGED <<space, current>>
    /\ Leave(p, "idle")
    /\ UNCHANGED <<journal, accepted, faults>>

ExpireTaskClaim(p) ==
    /\ pc[p] = "expire"
    /\ IF current[p]
       THEN /\ status' = "Ready" /\ attempt' = attempt + 1 /\ claim' = None /\ age' = "young"
            /\ UNCHANGED <<starts, settlement, lapses>>
            /\ Committed
       ELSE UNCHANGED <<space, current>>
    /\ Leave(p, "idle")
    /\ UNCHANGED <<journal, accepted, faults>>

Renewed == age' = "young" /\ claim' = [claim EXCEPT !.fresh = FALSE] /\ Committed

HeartbeatTaskClaim(p) ==
    /\ pc[p] = "renew"
    /\ IF current[p]
       THEN Renewed /\ UNCHANGED <<status, attempt, starts, settlement, lapses>>
       ELSE UNCHANGED <<space, current>>
    /\ Leave(p, "idle")
    /\ UNCHANGED <<journal, accepted, faults>>
-----------------------------------------------------------------------------
(* executeHolonTask *)

\* The settlement command was already carried out.
Replayed(p) == settlement # None /\ settlement.id = ids[p]

\* The settlement is replayed, or the claim command is, or the task is claimed, or another
\* pump was faster.
Assign(p) ==
    /\ pc[p] = "assign"
    /\ \/ /\ Replayed(p)
          /\ Leave(p, "idle")
          /\ UNCHANGED <<space, current>>
       \/ /\ ~Replayed(p) /\ adopt[p]
          /\ mine' = [mine EXCEPT ![p] = ids[p]]
          /\ adopt' = [adopt EXCEPT ![p] = FALSE]
          /\ Goto(p, "check")
          /\ UNCHANGED <<space, current, ids, tended, raced, beat, error>>
       \/ /\ ~Replayed(p) /\ ~adopt[p] /\ status = "Ready"
          /\ status' = "Claimed" /\ claim' = [id |-> ids[p], fresh |-> TRUE] /\ age' = "young"
          /\ Committed
          /\ mine' = [mine EXCEPT ![p] = attempt]
          /\ Goto(p, "check")
          /\ UNCHANGED <<attempt, starts, settlement, lapses, adopt, ids, tended, raced, beat, error>>
       \/ /\ ~Replayed(p) /\ ~adopt[p] /\ status # "Ready"
          /\ Leave(p, "idle")
          /\ UNCHANGED <<space, current>>
    /\ UNCHANGED <<journal, accepted, faults>>

\* The reading that start is based on, before the member runtime is ensured.
CheckClaim(p) ==
    /\ pc[p] = "check"
    /\ IF OwnsAttempt(p) THEN ReadSpace(p) /\ Keep(p, "start") ELSE Leave(p, "idle") /\ UNCHANGED current
    /\ UNCHANGED <<space, journal, accepted, faults>>

\* The execution goes on, with a heartbeat that follows the claim the start's snapshot shows.
Started(p) ==
    /\ Goto(p, "dispatch")
    /\ beat' = [beat EXCEPT ![p] = "on"]
    /\ tended' = [tended EXCEPT ![p] = IF claim # None THEN attempt ELSE mine[p]]
    /\ UNCHANGED <<adopt, ids, mine, error>>

\* The receipt is that of a start on the revision that the claim made.
StartMatches(p) == starts[ids[p]] = [attempt |-> mine[p], fresh |-> TRUE]

\* A start that the pump finds is replayed from the claim receipt, and only matches when it was
\* first issued on the revision that the claim made; one that came after it looked matches when
\* it was issued on the revision the pump read.  Otherwise the command is thrown out.
Start(p) ==
    /\ pc[p] = "start"
    /\ \/ /\ starts[ids[p]] # None
          /\ StartMatches(p) \/ p \in raced
          /\ Started(p) /\ raced' = raced \ {p}
          /\ Forget(p)
          /\ UNCHANGED space
       \/ /\ starts[ids[p]] # None /\ ~StartMatches(p)
          /\ Leave(p, "idle")
          /\ Forget(p)
          /\ UNCHANGED space
       \/ /\ starts[ids[p]] = None
          /\ current[p] /\ status = "Claimed"
          /\ status' = "Running"
          /\ starts' = [starts EXCEPT ![ids[p]] = [attempt |-> mine[p], fresh |-> claim.fresh]]
          /\ claim' = [claim EXCEPT !.fresh = FALSE]
          /\ Committed
          /\ Started(p)
          /\ raced' = raced \cup {q \in Pump \ {p} : pc[q] = "start" /\ current[q] /\ ids[q] = ids[p]}
          /\ UNCHANGED <<attempt, age, settlement, lapses>>
       \/ /\ starts[ids[p]] = None
          /\ ~(current[p] /\ status = "Claimed")
          /\ Leave(p, "idle")
          /\ Forget(p)
          /\ UNCHANGED space
    /\ UNCHANGED <<journal, accepted, faults>>

\* The claim that the heartbeat follows is live.
Tends(p) == claim # None /\ attempt = tended[p]

\* maintainClaimHeartbeat, beside an execution: renews the claim it follows, or finds that
\* attempt gone or its lease over by its own clock, which may lag, and aborts the execution.
Beat(p) ==
    /\ pc[p] \in Executing /\ beat[p] = "on"
    /\ \/ /\ Tends(p) /\ status = "Running"
          /\ Renewed
          /\ UNCHANGED <<status, attempt, starts, settlement, lapses, beat>>
       \/ /\ ~(Tends(p) /\ status = "Running" /\ age # "lapsed")
          /\ beat' = [beat EXCEPT ![p] = "failed"]
          /\ UNCHANGED <<space, current>>
    /\ UNCHANGED <<journal, accepted, pc, adopt, ids, mine, tended, raced, error, faults>>
-----------------------------------------------------------------------------
(* HolonTaskPumpJournal.dispatch and the lock of its file store *)

Dispatch(p) ==
    /\ pc[p] = "dispatch"
    /\ IF results[mine[p]] # None THEN Executed(p, "observe") ELSE Keep(p, "lock")
    /\ UNCHANGED <<space, journal, accepted, current, faults>>

Lock(p) ==
    /\ pc[p] = "lock"
    /\ lock[mine[p]] = None
    /\ lock' = [lock EXCEPT ![mine[p]] = [by |-> p, signed |-> FALSE]]
    /\ Keep(p, "sign")
    /\ UNCHANGED <<space, results, accepted, current, faults>>

\* The owner is written into the lock file; when that fails, the empty file stays.
SignLock(p) ==
    /\ pc[p] = "sign"
    /\ \/ /\ lock' = IF lock[mine[p]] # None /\ lock[mine[p]].by = p
                     THEN [lock EXCEPT ![mine[p]].signed = TRUE] ELSE lock
          /\ Keep(p, "locked")
          /\ UNCHANGED faults
       \/ /\ CountFault
          /\ Leave(p, "idle")
          /\ UNCHANGED lock
    /\ UNCHANGED <<space, results, accepted, current>>

\* Mutant of FindLocked: the lock of a dead owner is waited for like any other.
FindLockedAndWait(p) ==
    /\ pc[p] = "lock"
    /\ lock[mine[p]] # None
    /\ Leave(p, "idle")
    /\ UNCHANGED <<space, journal, accepted, current, faults>>

\* An old lock of a dead owner is taken away; an empty one cannot be parsed, and the lock of
\* a live owner times out: dispatch throws.
FindLocked(p) ==
    /\ pc[p] = "lock"
    /\ lock[mine[p]] # None
    /\ IF lock[mine[p]].signed /\ pc[lock[mine[p]].by] = "dead"
       THEN Keep(p, "steal") ELSE Leave(p, "idle")
    /\ UNCHANGED <<space, journal, accepted, current, faults>>

StealLock(p) ==
    /\ pc[p] = "steal"
    /\ lock' = [lock EXCEPT ![mine[p]] = None]
    /\ Keep(p, "lock")
    /\ UNCHANGED <<space, results, accepted, current, faults>>

\* Under the lock, another pump's result is taken before the effect is called.
Recheck(p) ==
    /\ pc[p] = "locked"
    /\ Keep(p, IF results[mine[p]] # None THEN "release" ELSE "effect")
    /\ UNCHANGED <<space, journal, accepted, current, faults>>

\* The adapter accepts the effect durably, or knows the key already.
Accept(p) ==
    /\ pc[p] = "effect"
    /\ accepted' = accepted \cup {InvocationRef(p)}
    /\ Keep(p, "accepted")
    /\ UNCHANGED <<space, journal, current, faults>>

Throw(p, e) ==
    /\ error' = [error EXCEPT ![p] = IF beat[p] = "failed" THEN "stale" ELSE e]
    /\ Goto(p, "release")
    /\ UNCHANGED <<adopt, ids, mine, tended, raced, beat>>

\* The member fails, or the execution is interrupted.
EffectFails(p) ==
    /\ pc[p] = "effect"
    /\ InvocationRef(p) \notin accepted
    /\ \/ Throw(p, "failed") /\ UNCHANGED faults
       \/ Throw(p, "thrown") /\ CountFault
    /\ UNCHANGED <<space, journal, accepted, current>>

\* The effect returned: an aborted execution throws; a result that another pump wrote in the
\* meantime is a conflict (writeImmutable).
WriteResult(p) ==
    /\ pc[p] = "accepted"
    /\ IF beat[p] # "failed" /\ results[mine[p]] = None
       THEN results' = [results EXCEPT ![mine[p]] = p] /\ Keep(p, "release")
       ELSE results' = results /\ Throw(p, "thrown")
    /\ UNCHANGED <<space, lock, accepted, current, faults>>

\* A lock that is gone or another's fails the dispatch, whatever it had achieved.
Release(p) ==
    /\ pc[p] = "release"
    /\ LET held == lock[mine[p]] # None /\ lock[mine[p]].by = p
           e == IF held THEN error[p] ELSE "thrown"
       IN /\ lock' = IF held THEN [lock EXCEPT ![mine[p]] = None] ELSE lock
          /\ \/ e = "none" /\ beat[p] # "failed" /\ Executed(p, "observe")
             \/ e = "failed" /\ Executed(p, "observeFailed")
             \/ e # "failed" /\ ~(e = "none" /\ beat[p] # "failed") /\ Leave(p, "idle")
    /\ UNCHANGED <<space, results, accepted, current, faults>>
-----------------------------------------------------------------------------
(* Settling the task *)

\* The settlement loop reads the space; a lapsed lease is seen by the pump's clock or not.
ObserveResult(p) ==
    /\ pc[p] = "observe"
    /\ \/ OwnsAttempt(p) /\ status = "Running" /\ ReadSpace(p) /\ Keep(p, "settle")
       \/ ~(OwnsAttempt(p) /\ status = "Running" /\ age # "lapsed") /\ Leave(p, "idle") /\ UNCHANGED current
    /\ UNCHANGED <<space, journal, accepted, faults>>

\* Mutant of Close: the settled task keeps its claim.
CloseClaimed(s, p) ==
    /\ status' = s
    /\ settlement' = [attempt |-> attempt, by |-> mine[p],
                      id |-> IF s = "Succeeded" THEN ids[p] ELSE None]
    /\ Committed
    /\ UNCHANGED <<attempt, claim, age, starts, lapses>>

Close(s, p) ==
    /\ status' = s /\ claim' = None
    /\ settlement' = [attempt |-> attempt, by |-> mine[p],
                      id |-> IF s = "Succeeded" THEN ids[p] ELSE None]
    /\ Committed
    /\ UNCHANGED <<attempt, age, starts, lapses>>

SettleTask(p) ==
    /\ pc[p] = "settle"
    /\ \/ current[p] /\ Close("Succeeded", p) /\ Leave(p, "idle")
       \/ ~current[p] /\ UNCHANGED <<space, current>> /\ (Keep(p, "observe") \/ Leave(p, "idle"))
    /\ UNCHANGED <<journal, accepted, faults>>

\* After MEMBER_EXECUTION_FAILED the pump fails whatever claim is live now.
ObserveFailed(p) ==
    /\ pc[p] = "observeFailed"
    /\ IF claim # None /\ status = "Running"
       THEN ReadSpace(p) /\ Keep(p, "fail")
       ELSE Leave(p, "idle") /\ UNCHANGED current
    /\ UNCHANGED <<space, journal, accepted, faults>>

\* Mutant of FailTask: the revision the pump observed is not expected.
FailObserved(p) ==
    /\ pc[p] = "fail"
    /\ Close("Failed", p)
    /\ Leave(p, "idle")
    /\ UNCHANGED <<journal, accepted, faults>>

FailTask(p) ==
    /\ pc[p] = "fail"
    /\ IF current[p] THEN Close("Failed", p) ELSE UNCHANGED <<space, current>>
    /\ Leave(p, "idle")
    /\ UNCHANGED <<journal, accepted, faults>>
-----------------------------------------------------------------------------
(* The environment *)

\* Somebody keeps the lease: any pump that looks at a claim it can take up, or one that is
\* working under the claim or follows it with its heartbeat.
Kept ==
    \/ claim.id = attempt
    \/ \E p \in Pump : /\ pc[p] \notin {"idle", "expire", "renew", "assign", "dead"}
                       /\ mine[p] = attempt \/ (beat[p] = "on" /\ tended[p] = attempt)

\* Time passes.  The lease of a claim that nobody keeps always runs out; that of a claim that
\* somebody keeps does when the keeper is held up.
Tick ==
    /\ claim # None
    /\ \/ age = "young" /\ age' = "old" /\ UNCHANGED lapses
       \/ /\ age = "old" /\ lapses < (IF Kept THEN MaxMissed ELSE MaxLapses)
          /\ lapses' = lapses + 1 /\ age' = "lapsed"
    /\ UNCHANGED <<status, attempt, claim, starts, settlement, journal, accepted, local, faults>>

\* A command for another task of the space.
OtherCommit ==
    /\ CountFault
    /\ claim' = IF claim = None THEN None ELSE [claim EXCEPT !.fresh = FALSE]
    /\ Committed
    /\ UNCHANGED <<status, attempt, age, starts, settlement, lapses, journal, accepted, pc, adopt,
                   ids, mine, tended, raced, beat, error>>

\* task.cancel, by the owner of the space.
CancelTask ==
    /\ CountFault
    /\ status \notin Terminal
    /\ status' = "Cancelled" /\ claim' = None
    /\ Committed
    /\ UNCHANGED <<attempt, age, starts, settlement, lapses, journal, accepted, pc, adopt, ids, mine,
                   tended, raced, beat, error>>

\* A process dies; the host starts another in time, so one pump is always left.
Crash(p) ==
    /\ pc[p] # "dead"
    /\ \E q \in Pump \ {p} : pc[q] # "dead"
    /\ CountFault
    /\ Leave(p, "dead")
    /\ Forget(p)
    /\ UNCHANGED <<space, journal, accepted>>
-----------------------------------------------------------------------------
PumpStep(p) ==
    \/ Observe(p) \/ ExpireTaskClaim(p) \/ HeartbeatTaskClaim(p)
    \/ Assign(p) \/ CheckClaim(p) \/ Start(p)
    \/ Dispatch(p) \/ Lock(p) \/ SignLock(p) \/ FindLocked(p) \/ StealLock(p) \/ Recheck(p)
    \/ Accept(p) \/ EffectFails(p) \/ WriteResult(p) \/ Release(p)
    \/ ObserveResult(p) \/ SettleTask(p) \/ ObserveFailed(p) \/ FailTask(p)

Next ==
    \/ \E p \in Pump : PumpStep(p) \/ Beat(p) \/ Crash(p)
    \/ Tick \/ OtherCommit \/ CancelTask

Spec == Init /\ [][Next]_vars

\* The compare-and-swap that carries the task on succeeds.
Advance(p) == (Start(p) \/ SettleTask(p) \/ FailTask(p)) /\ status' # status

\* Every process that lives keeps running and a woken pump wakes again, and time passes.  No
\* pump is overtaken for ever: it looks at the task again right after it renewed a lease,
\* half a lease before that grows old, and its reading and its compare-and-swap are adjacent,
\* while the commits it can lose to are heartbeats, a third of a lease apart.
Fairness ==
    /\ \A p \in Pump :
          /\ WF_vars(PumpStep(p))
          /\ SF_vars(Observe(p) /\ pc'[p] = "assign")
          /\ SF_vars(Advance(p))
    /\ WF_vars(Tick)

LiveSpec == Spec /\ Fairness
-----------------------------------------------------------------------------
(* Properties *)

Claims == [id : Attempts, fresh : BOOLEAN]
Starts == [attempt : Attempts, fresh : BOOLEAN]
Settlements == [attempt : Attempts, by : Attempts, id : Attempts \cup {None}]
Locks == [by : Pump, signed : BOOLEAN]

\* Every variable has its type; a task has a claim exactly while it is Claimed or Running,
\* as the TaskSpace owner's admission demands.
TypeOK ==
    /\ status \in {"Ready", "Claimed", "Running"} \cup Terminal
    /\ attempt \in Attempts
    /\ claim \in Claims \cup {None}
    /\ (claim # None) <=> status \in {"Claimed", "Running"}
    /\ age \in {"young", "old", "lapsed"}
    /\ starts \in [Attempts -> Starts \cup {None}]
    /\ settlement \in Settlements \cup {None}
    /\ results \in [Attempts -> Pump \cup {None}]
    /\ lock \in [Attempts -> Locks \cup {None}]
    /\ accepted \subseteq {InvocationRef(p) : p \in Pump}
    /\ pc \in [Pump -> Executing \cup {"idle", "expire", "renew", "assign", "check", "start", "observe",
                                      "settle", "observeFailed", "fail", "dead"}]
    /\ current \in [Pump -> BOOLEAN]
    /\ adopt \in [Pump -> BOOLEAN]
    /\ ids \in [Pump -> Attempts]
    /\ mine \in [Pump -> Attempts]
    /\ tended \in [Pump -> Attempts]
    /\ raced \subseteq Pump
    /\ beat \in [Pump -> {"off", "on", "failed"}]
    /\ error \in [Pump -> {"none", "stale", "failed", "thrown"}]
    /\ lapses \in 0..MaxLapses
    /\ faults \in 0..MaxFaults

\* A task that succeeded was settled by the very attempt whose result was journalled, and the
\* adapter had accepted one effect, for all attempts: a late result of an expired attempt never settles its
\* successor (sameClaimAttempt before settleTask in executeHolonTask).
SettledByOwner ==
    status = "Succeeded" =>
        /\ settlement.by = settlement.attempt
        /\ results[settlement.attempt] # None
        /\ Cardinality(accepted) = 1

\* Once terminal, a task stays as it is, whatever the other pumps still had under way: every
\* command after the settlement loses its compare-and-swap (loadExpected).
TerminalStays ==
    [][(status \in Terminal) => UNCHANGED <<status, settlement, attempt, claim>>]_vars

\* A claim is only taken away when its lease is over now, not when it was over at the time
\* another pump looked: a heartbeat in between keeps it (expectedRevision of expireTaskClaim).
LiveLeaseKept ==
    [][attempt' # attempt => age = "lapsed"]_vars

\* The start command was issued on another revision than the claim's, so that every pump's replay of
\* it is refused, and whoever issued it is gone.
StartRefused ==
    /\ claim # None /\ claim.id = attempt
    /\ starts[attempt] # None /\ starts[attempt] # [attempt |-> attempt, fresh |-> TRUE]
    /\ \A p \in Pump : mine[p] = attempt => pc[p] \in {"idle", "expire", "renew", "assign", "check", "start", "dead"}

\* The journal's lock of the live attempt is empty for good: who made it died, or failed, before
\* it wrote its name.
LockOrphaned ==
    /\ claim # None /\ results[attempt] = None
    /\ lock[attempt] # None /\ ~lock[attempt].signed
    /\ pc[lock[attempt].by] # "sign"

DeadEnd == StartRefused \/ LockOrphaned

\* A task becomes terminal, through deaths of pumps, interrupted executions, expiries and lost
\* races, unless it stays for ever in one of the two dead ends: every other state that a pump
\* leaves behind is one from which another takes over (pumpHolonTaskSpace woken by the probe).
EventuallySettled == <>(status \in Terminal) \/ <>[]DeadEnd

\* Crashes and concurrent pumps converge on one terminal settlement.
Converges == <>(status \in Terminal)

\* A failure that is recorded is that of the attempt it ends.
FailedByOwner == status = "Failed" => settlement.by = settlement.attempt
==============================================================================
