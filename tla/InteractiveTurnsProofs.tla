------------------------ MODULE InteractiveTurnsProofs ------------------------
(***************************************************************************)
(* Proofs about InteractiveTurns, for any set of actors and turns and all  *)
(* limits.  The first part follows a turn through the places it can be in; *)
(* the second is about sessions with one actor.                            *)
(***************************************************************************)
EXTENDS InteractiveTurns, SequenceTheorems, TLAPS

\* The turns in a queue, and that none is in it twice.
Elems(q) == {q[i] : i \in 1..Len(q)}
Distinct(q) == \A i, j \in 1..Len(q) : q[i] = q[j] => i = j

\* admit's push, startQueued's shift and finishTurn's filter, as sets of turns.
LEMMA AppendedQueue ==
    ASSUME NEW S, NEW q \in Seq(S), NEW e \in S
    PROVE  /\ Append(q, e) \in Seq(S)
           /\ Elems(Append(q, e)) = Elems(q) \cup {e}
           /\ Distinct(q) /\ e \notin Elems(q) => Distinct(Append(q, e))
<1> DEFINE r == Append(q, e)
<1>1. /\ r \in Seq(S) /\ Len(r) = Len(q) + 1 /\ r[Len(q) + 1] = e
      /\ \A i \in 1..Len(q) : r[i] = q[i]
  BY AppendProperties
<1>2. Len(q) \in Nat
  BY LenProperties
<1> HIDE DEF r
<1>3. 1..Len(r) = 1..Len(q) \cup {Len(q) + 1}
  BY <1>1, <1>2
<1>4. Elems(r) = Elems(q) \cup {e}
  BY <1>1, <1>3 DEF Elems
<1>5. Distinct(q) /\ e \notin Elems(q) => Distinct(r)
  BY <1>1, <1>2, <1>3 DEF Elems, Distinct
<1> QED
  BY <1>1, <1>4, <1>5 DEF r

LEMMA TailOfQueue ==
    ASSUME NEW S, NEW q \in Seq(S), q # <<>>
    PROVE  /\ Tail(q) \in Seq(S)
           /\ Head(q) \in S
           /\ Head(q) \in Elems(q)
           /\ Distinct(q) => Distinct(Tail(q)) /\ Elems(Tail(q)) = Elems(q) \ {Head(q)}
<1> DEFINE r == Tail(q)
<1>1. /\ Head(q) \in S /\ r \in Seq(S) /\ Len(r) = Len(q) - 1
      /\ \A i \in 1..Len(r) : r[i] = q[i + 1]
  BY HeadTailProperties
<1>2. Len(q) \in Nat /\ Len(q) # 0 /\ Head(q) = q[1]
  BY EmptySeq, LenProperties
<1> HIDE DEF r
<1>3. Head(q) \in Elems(q)
  BY <1>2 DEF Elems
<1>4. ASSUME Distinct(q) PROVE Distinct(r)
  <2> SUFFICES ASSUME NEW i \in 1..Len(r), NEW j \in 1..Len(r), r[i] = r[j] PROVE i = j
    BY DEF Distinct
  <2>1. i + 1 \in 1..Len(q) /\ j + 1 \in 1..Len(q)
    BY <1>1, <1>2
  <2> QED
    BY <1>1, <1>4, <2>1 DEF Distinct
<1>5. ASSUME Distinct(q) PROVE Elems(r) = Elems(q) \ {Head(q)}
  <2>1. \A i \in 1..Len(r) : i + 1 \in 1..Len(q) /\ i + 1 # 1
    BY <1>1, <1>2
  <2>2. \A i \in 1..Len(q) : i # 1 => i - 1 \in 1..Len(r) /\ (i - 1) + 1 = i
    BY <1>1, <1>2
  <2>3. 1 \in 1..Len(q)
    BY <1>2
  <2>4. ASSUME NEW i \in 1..Len(r) PROVE r[i] \in Elems(q) \ {Head(q)}
    BY <1>1, <1>2, <1>5, <2>1, <2>3 DEF Elems, Distinct
  <2>5. ASSUME NEW i \in 1..Len(q), q[i] # Head(q) PROVE q[i] \in Elems(r)
    <3>1. i - 1 \in 1..Len(r) /\ r[i - 1] = q[i]
      BY <1>1, <1>2, <2>2, <2>5
    <3> QED
      BY <3>1 DEF Elems
  <2> QED
    BY <2>4, <2>5 DEF Elems
<1> QED
  BY <1>1, <1>3, <1>4, <1>5 DEF r

LEMMA QueueWithout ==
    ASSUME NEW S, NEW q \in Seq(S), NEW t, Distinct(q)
    PROVE  /\ Without(q, t) \in Seq(S)
           /\ Distinct(Without(q, t))
           /\ Elems(Without(q, t)) = Elems(q) \ {t}
<1>1. CASE ~ \E i \in 1..Len(q) : q[i] = t
  BY <1>1 DEF Without, Elems
<1>2. CASE \E i \in 1..Len(q) : q[i] = t
  <2> DEFINE at == CHOOSE i \in 1..Len(q) : q[i] = t
             r == SubSeq(q, 1, at - 1)
             s == SubSeq(q, at + 1, Len(q))
             w == r \o s
  <2>1. at \in 1..Len(q) /\ q[at] = t
    BY <1>2
  <2>2. Without(q, t) = w
    BY <1>2 DEF Without
  <2>3. Len(q) \in Nat
    BY LenProperties
  <2> HIDE DEF at
  <2>4. r \in Seq(S) /\ Len(r) = at - 1 /\ \A i \in 1..(at - 1) : r[i] = q[i]
    <3>1. \A i \in 1..(at - 1) : i \in 1..Len(q)
      BY <2>1, <2>3
    <3>2. 1 \in Int /\ at - 1 \in Int
      BY <2>1, <2>3
    <3> QED
      BY <2>1, <2>3, <3>1, <3>2, SubSeqProperties, SMTT(30)
  <2>5. s \in Seq(S) /\ Len(s) = Len(q) - at /\ \A i \in 1..(Len(q) - at) : s[i] = q[at + i]
    <3>1. \A i \in (at + 1)..Len(q) : i \in 1..Len(q)
      BY <2>1, <2>3
    <3> QED
      BY <2>1, <2>3, <3>1, SubSeqProperties, SMTT(30)
  <2> HIDE DEF r, s
  <2>6. /\ w \in Seq(S) /\ Len(w) = Len(q) - 1
        /\ \A i \in 1..Len(w) : w[i] = IF i < at THEN q[i] ELSE q[i + 1]
    <3>1. w \in Seq(S) /\ Len(w) = Len(r) + Len(s)
          /\ \A i \in 1..(Len(r) + Len(s)) : w[i] = IF i <= Len(r) THEN r[i] ELSE s[i - Len(r)]
      BY <2>4, <2>5, ConcatProperties
    <3> HIDE DEF w
    <3>2. Len(w) = Len(q) - 1
      BY <2>1, <2>3, <2>4, <2>5, <3>1
    <3>3. ASSUME NEW i \in 1..Len(w), i < at PROVE w[i] = q[i]
      BY <2>1, <2>3, <2>4, <2>5, <3>1, <3>3
    <3>4. ASSUME NEW i \in 1..Len(w), ~ (i < at) PROVE w[i] = q[i + 1]
      <4>1. i - (at - 1) \in 1..(Len(q) - at) /\ at + (i - (at - 1)) = i + 1
        BY <2>1, <2>3, <3>2, <3>4
      <4>2. w[i] = s[i - (at - 1)]
        BY <2>1, <2>3, <2>4, <2>5, <3>1, <3>4
      <4> QED
        BY <2>5, <4>1, <4>2
    <3> QED
      BY <3>1, <3>2, <3>3, <3>4
  <2> HIDE DEF w
  <2>7. Distinct(w)
    <3> SUFFICES ASSUME NEW i \in 1..Len(w), NEW j \in 1..Len(w), w[i] = w[j] PROVE i = j
      BY DEF Distinct
    <3>1. i \in 1..Len(q) /\ i + 1 \in 1..Len(q) /\ j \in 1..Len(q) /\ j + 1 \in 1..Len(q)
      BY <2>3, <2>6
    <3> QED
      BY <2>1, <2>6, <3>1 DEF Distinct
  <2>8. ASSUME NEW i \in 1..Len(w) PROVE w[i] \in Elems(q) \ {t}
    <3>1. i \in 1..Len(q) /\ i + 1 \in 1..Len(q)
      BY <2>3, <2>6
    <3>2. (i < at => i # at) /\ (~ (i < at) => i + 1 # at)
      BY <2>1, <2>3, <3>1
    <3> QED
      BY <2>1, <2>6, <3>1, <3>2 DEF Elems, Distinct
  <2>9. ASSUME NEW i \in 1..Len(q), q[i] # t PROVE q[i] \in Elems(w)
    <3>1. CASE i < at
      <4>1. i \in 1..Len(w) /\ w[i] = q[i]
        BY <2>1, <2>3, <2>6, <3>1
      <4> QED
        BY <4>1 DEF Elems
    <3>2. CASE ~ (i < at)
      <4>1. i # at
        BY <2>1, <2>9
      <4>2. i - 1 \in 1..Len(w) /\ ~ (i - 1 < at) /\ (i - 1) + 1 = i
        BY <2>1, <2>3, <2>6, <3>2, <4>1
      <4>3. w[i - 1] = q[i]
        BY <2>6, <4>2
      <4> QED
        BY <4>2, <4>3 DEF Elems
    <3> QED
      BY <3>1, <3>2
  <2>10. Elems(w) = Elems(q) \ {t}
    BY <2>8, <2>9 DEF Elems
  <2> QED
    BY <2>2, <2>6, <2>7, <2>10
<1> QED
  BY <1>1, <1>2
------------------------------------------------------------------------------
(***************************************************************************)
(* Where a turn can be.  An active turn is one of that actor and not       *)
(* finished; its execution record is its own, or one that local turns      *)
(* pass on, and was not left interrupted.                                  *)
(***************************************************************************)
ActiveOK(a) ==
    active[a] # NoTurn =>
        /\ ActorOf[active[a]] = a
        /\ turn[active[a]].state \in {"running", "waiting_input"}
        /\ execution[a].status \in {"active", "settled"}
        /\ execution[a].owner = active[a] \/ {active[a], execution[a].owner} \subseteq Compatibility

\* A queue holds turns of its actor that wait to start, each once.
QueueOK(a) ==
    /\ Distinct(queue[a])
    /\ \A t \in Elems(queue[a]) : ActorOf[t] = a /\ turn[t].state = "queued"

\* A queued turn is in its queue; a turn whose promise is pending is queued,
\* active or among the completed.  A local turn runs only as the active one,
\* which a host's turn need not: see SingleActor below.
TurnOK(t) ==
    /\ ~ Disposed /\ turn[t].state = "queued" => t \in Elems(queue[ActorOf[t]])
    /\ ~ Disposed /\ t \in Compatibility /\ turn[t].state \in {"running", "waiting_input"} =>
           active[ActorOf[t]] = t
    /\ ~ Disposed /\ turn[t].state # "absent" /\ turn[t].promise = "pending" =>
           turn[t].state = "queued" \/ active[ActorOf[t]] = t \/ t \in completed \cup batch
    /\ t \in todo \/ turn[t].preparing => turn[t].state \notin {"absent", "queued"}
    /\ turn[t].preparing => t \notin Compatibility

Places ==
    /\ \A a \in Actors : ActiveOK(a) /\ QueueOK(a)
    /\ \A t \in TurnIds : TurnOK(t)
    /\ Disposed => \A a \in Actors : active[a] = NoTurn /\ queue[a] = <<>>

\* The inductive invariant.  NoSilentStall is inductive only with the places:
\* a step that touches a turn which no slice would visit stalls nobody.
IInv == TypeOK /\ Places /\ NoSilentStall
------------------------------------------------------------------------------
(* What the operators make of a well-typed entry, fiber and queue.          *)

LEMMA FiberTypes ==
    ASSUME NEW f \in Fiber
    PROVE  Resumed(f) \in Fiber /\ Revived(f) \in Fiber /\ Interrupted(f) \in Fiber /\ Answered(f) \in Fiber
  BY DEF Fiber, Resumed, Revived, Interrupted, Answered

LEMMA FinishTypes ==
    ASSUME TypeOK, Places, NEW t \in TurnIds, NEW entry \in TurnEntry, NEW s \in Terminal, NEW r,
           entry.preparing => ~ entry.delivered, FinishTurn(t, entry, s, r)
    PROVE  /\ turn' \in [TurnIds -> TurnEntry]
           /\ active' \in [Actors -> TurnIds \cup {NoTurn}]
           /\ queue' \in [Actors -> Seq(TurnIds)]
           /\ completed' \in SUBSET TurnIds
           /\ execution' \in [Actors -> Execution]
           /\ \A u \in TurnIds : turn'[u].preparing => ~ turn'[u].delivered
<1> USE DEF TypeOK
<1>0. ActorOf[t] \in Actors
  BY TurnsAssumption
<1>1. CASE entry.state \in Terminal
  BY <1>1 DEF FinishTurn
<1>2. CASE entry.state \notin Terminal
  <2> DEFINE e == [entry EXCEPT !.state = s]
  <2>1. turn' = [turn EXCEPT ![t] = e]
    BY <1>2 DEF FinishTurn
  <2>2. e \in TurnEntry /\ (e.preparing => ~ e.delivered)
    BY DEF TurnEntry, TurnStates
  <2>3. Without(queue[ActorOf[t]], t) \in Seq(TurnIds)
    BY <1>0, QueueWithout DEF Places, QueueOK
  <2>4. execution' \in [Actors -> Execution]
    <3>1. execution' = ExecutionAfter(t, s, r)
      BY <1>2 DEF FinishTurn
    <3>2. \/ execution' = execution
          \/ \E v \in {"active", "interrupted", "settled"} :
                execution' = [execution EXCEPT ![ActorOf[t]].status = v]
      BY <3>1 DEF ExecutionAfter
    <3>3. CASE execution' = execution
      BY <3>3
    <3>4. ASSUME NEW v \in {"active", "interrupted", "settled"},
                 execution' = [execution EXCEPT ![ActorOf[t]].status = v]
          PROVE  execution' \in [Actors -> Execution]
      <4>1. execution \in [Actors -> Execution]
        OBVIOUS
      <4>2. [execution[ActorOf[t]] EXCEPT !.status = v] \in Execution
        BY <1>0, <4>1 DEF Execution
      <4> QED
        BY <3>4, <4>1, <4>2
    <3> QED
      BY <3>2, <3>3, <3>4
  <2>5. active' \in [Actors -> TurnIds \cup {NoTurn}]
    <3>1. active' = [active EXCEPT ![ActorOf[t]] = IF @ = t THEN NoTurn ELSE @]
      BY <1>2 DEF FinishTurn
    <3> QED
      BY <1>0, <3>1
  <2>7. queue' \in [Actors -> Seq(TurnIds)]
    <3>1. queue' = [queue EXCEPT ![ActorOf[t]] = Without(queue[ActorOf[t]], t)]
      BY <1>0, <1>2 DEF FinishTurn
    <3> QED
      BY <1>0, <2>3, <3>1
  <2>8. completed' \in SUBSET TurnIds
    BY <1>2 DEF FinishTurn
  <2> HIDE DEF e
  <2>6. \A u \in TurnIds : turn'[u].preparing => ~ turn'[u].delivered
    BY <2>1, <2>2
  <2> QED
    BY <2>1, <2>2, <2>4, <2>5, <2>6, <2>7, <2>8
<1> QED
  BY <1>1, <1>2

\* The two ways in which a step changes one turn: its entry is patched, or the
\* turn is finished.
PatchedTurn(t) ==
    \E e \in TurnEntry :
        /\ turn' = [turn EXCEPT ![t] = e]
        /\ e.promise = turn[t].promise
        /\ e.preparing => turn[t].preparing /\ ~ e.delivered
        /\ e.state # turn[t].state =>
               /\ turn[t].state \notin {"absent", "queued"}
               /\ t \in Compatibility => turn[t].state \in {"running", "waiting_input"}
               /\ e.state \in {"running", "waiting_input"}
               /\ e.preparing => e.state = "running"
        /\ UNCHANGED <<active, queue, completed, execution>>

FinishedTurn(t) ==
    \E e \in TurnEntry, s \in Terminal, r \in {"settled", "cancelled", "failed", "timeout_unsettled", "blocked_on_human"} :
        /\ FinishTurn(t, e, s, r)
        /\ e.state = turn[t].state
        /\ turn[t].state # "absent"
        /\ e.promise = turn[t].promise
        /\ ~ e.preparing
        /\ s = "interrupted" /\ t \in Compatibility => r = "timeout_unsettled"

\* Each operation on one turn either patches its entry or finishes it.
LEMMA InterruptPatches ==
    ASSUME TypeOK, NEW t \in TurnIds, NEW e \in TurnEntry, InterruptTurn(t, e),
           e.promise = turn[t].promise,
           e.preparing => turn[t].preparing /\ ~ e.delivered,
           e.state # turn[t].state =>
               /\ turn[t].state \notin {"absent", "queued"}
               /\ t \in Compatibility => turn[t].state \in {"running", "waiting_input"}
               /\ e.state \in {"running", "waiting_input"}
               /\ e.preparing => e.state = "running",
           UNCHANGED <<active, queue, completed, execution>>
    PROVE  PatchedTurn(t) /\ fiber' \in [Actors -> Fiber]
<1> DEFINE d == [e EXCEPT !.aborted = TRUE, !.signalled = @ \/ e.delivered]
<1>1. turn' = [turn EXCEPT ![t] = d]
  BY DEF InterruptTurn
<1>2. /\ d \in TurnEntry /\ d.preparing = e.preparing /\ d.delivered = e.delivered
      /\ d.state = e.state /\ d.promise = e.promise
  BY DEF TurnEntry
<1> HIDE DEF d
<1>3. fiber' \in [Actors -> Fiber]
  BY TurnsAssumption, FiberTypes DEF InterruptTurn, TypeOK
<1> QED
  BY <1>1, <1>2, <1>3 DEF PatchedTurn

LEMMA FinishFinishes ==
    ASSUME TypeOK, NEW t \in TurnIds, NEW s \in Terminal, turn[t].state # "absent", ~ turn[t].preparing,
           NEW r \in {"settled", "cancelled", "failed", "timeout_unsettled", "blocked_on_human"},
           s = "interrupted" /\ t \in Compatibility => r = "timeout_unsettled",
           FinishTurn(t, turn[t], s, r)
    PROVE  FinishedTurn(t)
  BY DEF TypeOK, FinishedTurn

LEMMA CancelChanges ==
    ASSUME TypeOK, Places, NEW t \in TurnIds,
           CancelSettled(t) \/ CancelQueued(t) \/ CancelRunning(t)
    PROVE  (PatchedTurn(t) \/ FinishedTurn(t)) /\ fiber' \in [Actors -> Fiber]
<1>0. /\ turn[t] \in TurnEntry /\ (turn[t].preparing => ~ turn[t].delivered)
      /\ fiber \in [Actors -> Fiber] /\ turn \in [TurnIds -> TurnEntry]
  BY DEF TypeOK
<1>1. CASE CancelSettled(t)
  BY <1>0, <1>1, FinishFinishes DEF CancelSettled, DoneUnnoticed, Terminal
<1>2. CASE CancelQueued(t)
  <2>1. ~ turn[t].preparing
    BY <1>2 DEF CancelQueued, Places, TurnOK
  <2> QED
    BY <1>0, <1>2, <2>1, FinishFinishes DEF CancelQueued, Terminal
<1>3. CASE CancelRunning(t)
  <2>1. CASE turn[t].cancelRequested
    <3>1. turn' = [turn EXCEPT ![t] = turn[t]]
      BY <1>0, <1>3, <2>1 DEF CancelRunning
    <3> QED
      BY <1>0, <1>3, <2>1, <3>1 DEF CancelRunning, PatchedTurn
  <2>2. CASE ~ turn[t].cancelRequested
    <3> DEFINE e == [turn[t] EXCEPT !.cancelRequested = TRUE, !.state = "running"]
    <3>1. /\ e \in TurnEntry /\ e.preparing = turn[t].preparing /\ e.delivered = turn[t].delivered
          /\ e.state = "running" /\ e.promise = turn[t].promise
      BY <1>0 DEF TurnEntry, TurnStates
    <3>2. InterruptTurn(t, e) /\ UNCHANGED <<active, queue, completed, execution>>
      BY <1>3, <2>2 DEF CancelRunning
    <3>3. turn[t].state \in {"running", "waiting_input"}
      BY <1>0, <1>3 DEF CancelRunning, Stoppable, TurnEntry, TurnStates
    <3> HIDE DEF e
    <3> QED
      BY <1>0, <3>1, <3>2, <3>3, InterruptPatches
  <2> QED
    BY <2>1, <2>2
<1> QED
  BY <1>1, <1>2, <1>3

LEMMA ResumeChanges ==
    ASSUME TypeOK, Places, NEW t \in TurnIds, ResumeTurn(t)
    PROVE  PatchedTurn(t) /\ fiber' \in [Actors -> Fiber]
<1>0. /\ turn[t] \in TurnEntry /\ (turn[t].preparing => ~ turn[t].delivered)
      /\ fiber \in [Actors -> Fiber] /\ turn \in [TurnIds -> TurnEntry]
  BY DEF TypeOK
<1>1. CASE Resumable(t)
  <2> DEFINE e == [turn[t] EXCEPT !.state = "running"]
  <2>1. /\ e \in TurnEntry /\ e.preparing = turn[t].preparing /\ e.delivered = turn[t].delivered
        /\ e.state = "running" /\ e.promise = turn[t].promise
    BY <1>0 DEF TurnEntry, TurnStates
  <2>2. turn' = [turn EXCEPT ![t] = e] /\ fiber' = [fiber EXCEPT ![ActorOf[t]] = Resumed(fiber[ActorOf[t]])]
    BY <1>0, <1>1, TurnsAssumption DEF ResumeTurn
  <2> HIDE DEF e
  <2>3. PatchedTurn(t)
    BY <1>0, <1>1, <2>1, <2>2 DEF PatchedTurn, ResumeTurn, Resumable
  <2> QED
    BY <1>0, <2>2, <2>3, FiberTypes, TurnsAssumption
<1>2. CASE ~ Resumable(t)
  <2>1. turn' = [turn EXCEPT ![t] = turn[t]]
    BY <1>0, <1>2 DEF ResumeTurn
  <2> QED
    BY <1>0, <1>2, <2>1 DEF ResumeTurn, PatchedTurn
<1> QED
  BY <1>1, <1>2

LEMMA ExpireChanges ==
    ASSUME TypeOK, NEW t \in TurnIds, Expire(t)
    PROVE  PatchedTurn(t)
<1> DEFINE e == [turn[t] EXCEPT !.expired = TRUE]
<1>0. turn[t] \in TurnEntry /\ (turn[t].preparing => ~ turn[t].delivered)
  BY DEF TypeOK
<1>1. /\ e \in TurnEntry /\ e.preparing = turn[t].preparing /\ e.delivered = turn[t].delivered
      /\ e.state = turn[t].state /\ e.promise = turn[t].promise
  BY <1>0 DEF TurnEntry
<1>2. turn' = [turn EXCEPT ![t] = e]
  BY DEF Expire
<1> HIDE DEF e
<1> QED
  BY <1>0, <1>1, <1>2 DEF PatchedTurn, Expire

LEMMA DeliveryChanges ==
    ASSUME TypeOK, Places, NEW t \in TurnIds, DeliveryFinished(t) \/ DeliveryRejected(t)
    PROVE  (PatchedTurn(t) \/ FinishedTurn(t)) /\ fiber' \in [Actors -> Fiber]
<1> DEFINE e == Prepared(turn[t])
<1>0. /\ turn[t] \in TurnEntry /\ fiber \in [Actors -> Fiber] /\ ActorOf[t] \in Actors
      /\ turn[t].state # "absent" /\ t \notin Compatibility
  BY TurnsAssumption DEF TypeOK, Places, TurnOK, DeliveryFinished, DeliveryRejected
<1>1. /\ e \in TurnEntry /\ ~ e.preparing /\ e.state = turn[t].state /\ e.promise = turn[t].promise
      /\ e.aborted = turn[t].aborted
  BY <1>0 DEF TurnEntry, Prepared
<1>2. CASE DeliveryRejected(t)
  <2>1. FinishTurn(t, e, "cancelled", "cancelled") \/ FinishTurn(t, e, "failed", "failed")
    BY <1>2 DEF DeliveryRejected
  <2> HIDE DEF e
  <2>2. FinishedTurn(t)
    BY <1>0, <1>1, <2>1 DEF FinishedTurn, Terminal
  <2> QED
    BY <1>0, <1>2, <2>2 DEF DeliveryRejected
<1>3. CASE DeliveryFinished(t) /\ e.aborted
  <2>1. /\ FinishTurn(t, e, "interrupted", "timeout_unsettled") \/ FinishTurn(t, e, "cancelled", "cancelled")
        /\ UNCHANGED fiber
    BY <1>3 DEF DeliveryFinished
  <2> HIDE DEF e
  <2>2. FinishedTurn(t)
    BY <1>0, <1>1, <2>1 DEF FinishedTurn, Terminal
  <2> QED
    BY <1>0, <2>1, <2>2
<1>4. CASE DeliveryFinished(t) /\ ~ e.aborted
  <2> DEFINE d == [e EXCEPT !.delivered = TRUE]
  <2>1. /\ turn' = [turn EXCEPT ![t] = d]
        /\ fiber' = [fiber EXCEPT ![ActorOf[t]] = Revived(fiber[ActorOf[t]])]
        /\ UNCHANGED <<active, queue, completed, execution>>
    BY <1>0, <1>4 DEF DeliveryFinished
  <2> HIDE DEF e
  <2>2. d \in TurnEntry /\ ~ d.preparing /\ d.state = e.state /\ d.promise = e.promise
    BY <1>1 DEF TurnEntry
  <2> HIDE DEF d
  <2>3. PatchedTurn(t)
    BY <1>1, <2>1, <2>2 DEF PatchedTurn
  <2> QED
    BY <1>0, <2>1, <2>3, FiberTypes
<1> QED
  BY <1>2, <1>3, <1>4

LEMMA DecideChanges ==
    ASSUME TypeOK, Places, NEW t \in TurnIds, Decide(t)
    PROVE  (PatchedTurn(t) \/ FinishedTurn(t)) /\ fiber' \in [Actors -> Fiber]
<1>0. /\ turn[t] \in TurnEntry /\ fiber \in [Actors -> Fiber] /\ turn \in [TurnIds -> TurnEntry]
      /\ (turn[t].preparing => ~ turn[t].delivered) /\ ActorOf[t] \in Actors
  BY TurnsAssumption DEF TypeOK
<1>1. t \in todo
  BY DEF Decide, SkipUndelivered, InterruptOrphans, FinishFailed, FinishCancelled, FinishAtHuman,
         AwaitHuman, FinishSettled, TimeOut, StillRunning, Undecided, ExamineDelivered, Examine
<1>2. turn[t].state \notin {"absent", "queued"}
  BY <1>1 DEF Places, TurnOK
<1>3. CASE SkipUndelivered(t)
  <2> DEFINE late == turn[t].preparing /\ turn[t].expired
             e == [turn[t] EXCEPT !.timedOut = @ \/ late, !.aborted = @ \/ late]
  <2>1. turn' = [turn EXCEPT ![t] = e] /\ UNCHANGED <<active, queue, completed, execution, fiber>>
    BY <1>0, <1>3 DEF SkipUndelivered
  <2>2. /\ e \in TurnEntry /\ e.preparing = turn[t].preparing /\ e.delivered = turn[t].delivered
        /\ e.state = turn[t].state /\ e.promise = turn[t].promise
    BY <1>0 DEF TurnEntry
  <2> HIDE DEF e
  <2> QED
    BY <1>0, <2>1, <2>2 DEF PatchedTurn
<1>4. CASE InterruptOrphans(t)
  BY <1>0, <1>4, InterruptPatches DEF InterruptOrphans
<1>5. CASE FinishFailed(t)
  <2>1. FinishTurn(t, turn[t], "cancelled", "cancelled") \/ FinishTurn(t, turn[t], "failed", "failed")
    BY <1>5 DEF FinishFailed
  <2> QED
    BY <1>0, <1>2, <1>5, <2>1, FinishFinishes DEF FinishFailed, Undecided, ExamineDelivered, Terminal
<1>6. CASE FinishCancelled(t)
  <2>1. FinishTurn(t, turn[t], "interrupted", "timeout_unsettled") \/ FinishTurn(t, turn[t], "cancelled", "cancelled")
    BY <1>6 DEF FinishCancelled
  <2> QED
    BY <1>0, <1>2, <1>6, <2>1, FinishFinishes DEF FinishCancelled, Undecided, ExamineDelivered, Terminal
<1>7. CASE FinishAtHuman(t)
  BY <1>0, <1>2, <1>7, FinishFinishes DEF FinishAtHuman, Undecided, ExamineDelivered, Terminal
<1>8. CASE AwaitHuman(t)
  <2> DEFINE e == [turn[t] EXCEPT !.state = "waiting_input"]
  <2>1. /\ turn' = [turn EXCEPT ![t] = e] /\ UNCHANGED <<active, queue, completed, execution, fiber>>
        /\ t \notin Compatibility /\ ~ turn[t].preparing
    BY <1>0, <1>8 DEF AwaitHuman, Undecided, ExamineDelivered
  <2>2. /\ e \in TurnEntry /\ e.preparing = turn[t].preparing /\ e.delivered = turn[t].delivered
        /\ e.state = "waiting_input" /\ e.promise = turn[t].promise
    BY <1>0 DEF TurnEntry, TurnStates
  <2> HIDE DEF e
  <2> QED
    BY <1>0, <1>2, <2>1, <2>2 DEF PatchedTurn
<1>9. CASE FinishSettled(t)
  BY <1>0, <1>2, <1>9, FinishFinishes DEF FinishSettled, Undecided, ExamineDelivered, Terminal
<1>10. CASE TimeOut(t)
  <2>1. CASE t \in Compatibility
    BY <1>0, <1>2, <1>10, <2>1, FinishFinishes DEF TimeOut, Undecided, ExamineDelivered, Terminal
  <2>2. CASE t \notin Compatibility
    <3> DEFINE e == [turn[t] EXCEPT !.timedOut = TRUE, !.cancelRequested = TRUE, !.state = "running"]
    <3>1. /\ e \in TurnEntry /\ e.preparing = turn[t].preparing /\ e.delivered = turn[t].delivered
          /\ e.state = "running" /\ e.promise = turn[t].promise
      BY <1>0 DEF TurnEntry, TurnStates
    <3>2. InterruptTurn(t, e) /\ UNCHANGED <<active, queue, completed, execution>>
      BY <1>10, <2>2 DEF TimeOut
    <3> HIDE DEF e
    <3> QED
      BY <1>0, <1>2, <2>2, <3>1, <3>2, InterruptPatches
  <2> QED
    BY <2>1, <2>2
<1>11. CASE StillRunning(t)
  <2>1. turn' = [turn EXCEPT ![t] = turn[t]]
    BY <1>0, <1>11 DEF StillRunning
  <2> QED
    BY <1>0, <1>11, <2>1 DEF StillRunning, PatchedTurn
<1> QED
  BY <1>3, <1>4, <1>5, <1>6, <1>7, <1>8, <1>9, <1>10, <1>11 DEF Decide

\* startQueued and settleCompleted change many entries at once.
LEMMA StartTypes ==
    ASSUME TypeOK, NEW how \in [Startable -> {"promised", "returned", "thrown"}], StartQueued(how)
    PROVE  /\ turn' \in [TurnIds -> TurnEntry]
           /\ active' \in [Actors -> TurnIds \cup {NoTurn}]
           /\ queue' \in [Actors -> Seq(TurnIds)]
           /\ completed' \in SUBSET TurnIds
           /\ execution' \in [Actors -> Execution]
           /\ fiber' \in [Actors -> Fiber]
           /\ \A u \in TurnIds : turn'[u].preparing => ~ turn'[u].delivered
<1>0. /\ turn \in [TurnIds -> TurnEntry] /\ active \in [Actors -> TurnIds \cup {NoTurn}]
      /\ queue \in [Actors -> Seq(TurnIds)] /\ completed \in SUBSET TurnIds
      /\ execution \in [Actors -> Execution] /\ fiber \in [Actors -> Fiber]
      /\ \A u \in TurnIds : turn[u].preparing => ~ turn[u].delivered
  BY DEF TypeOK
<1>1. \A a \in Startable : /\ a \in Actors /\ Head(queue[a]) \in TurnIds
                           /\ Tail(queue[a]) \in Seq(TurnIds)
  BY <1>0, TailOfQueue DEF Startable
<1>2. ASSUME NEW a \in Startable
      PROVE  ExecutionOnStart(a, Head(queue[a])) \in Execution
  BY <1>0, <1>1 DEF ExecutionOnStart, Execution
<1>3. turn' \in [TurnIds -> TurnEntry] /\ \A u \in TurnIds : turn'[u].preparing => ~ turn'[u].delivered
  <2> DEFINE e(u) == [turn[u] EXCEPT
                        !.state = IF how[ActorOf[u]] = "thrown" THEN "failed" ELSE "running",
                        !.preparing = how[ActorOf[u]] = "promised",
                        !.delivered = how[ActorOf[u]] = "returned"]
  <2>1. ASSUME NEW u \in TurnIds PROVE e(u) \in TurnEntry /\ (e(u).preparing => ~ e(u).delivered)
    <3> DEFINE x == IF how[ActorOf[u]] = "thrown" THEN "failed" ELSE "running"
               p == how[ActorOf[u]] = "promised"
               d == how[ActorOf[u]] = "returned"
    <3>1. x \in TurnStates /\ p \in BOOLEAN /\ d \in BOOLEAN /\ (p => ~ d)
      BY DEF TurnStates, Terminal
    <3>2. turn[u] \in TurnEntry
      BY <1>0
    <3>3. e(u) = [turn[u] EXCEPT !.state = x, !.preparing = p, !.delivered = d]
      OBVIOUS
    <3> HIDE DEF x, p, d
    <3>4. ASSUME NEW r \in TurnEntry
          PROVE  /\ [r EXCEPT !.state = x, !.preparing = p, !.delivered = d] \in TurnEntry
                 /\ [r EXCEPT !.state = x, !.preparing = p, !.delivered = d].preparing = p
                 /\ [r EXCEPT !.state = x, !.preparing = p, !.delivered = d].delivered = d
      BY <3>1 DEF TurnEntry
    <3> HIDE DEF e
    <3> QED
      BY <3>1, <3>2, <3>3, <3>4
  <2>2. turn' = [u \in TurnIds |-> IF ActorOf[u] \in Startable /\ u = Head(queue[ActorOf[u]])
                                   THEN e(u) ELSE turn[u]]
    BY DEF StartQueued
  <2> HIDE DEF e
  <2> QED
    BY <1>0, <2>1, <2>2
<1>4. active' \in [Actors -> TurnIds \cup {NoTurn}]
  BY <1>0, <1>1 DEF StartQueued
<1>5. queue' \in [Actors -> Seq(TurnIds)]
  BY <1>0, <1>1 DEF StartQueued
<1>6. completed' \in SUBSET TurnIds
  <2>1. completed' = completed \cup {Head(queue[a]) : a \in {b \in Startable : how[b] = "thrown"}}
    BY DEF StartQueued
  <2> QED
    BY <1>0, <1>1, <2>1
<1>7. execution' \in [Actors -> Execution]
  <2>1. \A a \in Startable : [ExecutionOnStart(a, Head(queue[a])) EXCEPT !.status = "settled"] \in Execution
    BY <1>2 DEF Execution
  <2>2. execution' = [a \in Actors |->
                IF a \notin Startable THEN execution[a]
                ELSE IF a \in {b \in Startable : how[b] = "thrown"}
                THEN [ExecutionOnStart(a, Head(queue[a])) EXCEPT !.status = "settled"]
                ELSE ExecutionOnStart(a, Head(queue[a]))]
    BY DEF StartQueued
  <2> QED
    BY <1>0, <1>2, <2>1, <2>2
<1>8. fiber' \in [Actors -> Fiber]
  BY <1>0, FiberTypes DEF StartQueued
<1> QED
  BY <1>3, <1>4, <1>5, <1>6, <1>7, <1>8

LEMMA SettleTypes ==
    ASSUME turn \in [TurnIds -> TurnEntry], NEW ts, NEW outcome \in {"resolved", "rejected"},
           NEW u \in TurnIds
    PROVE  /\ Settle(ts, outcome)[u] \in TurnEntry
           /\ Settle(ts, outcome)[u].state = turn[u].state
           /\ Settle(ts, outcome)[u].preparing = turn[u].preparing
           /\ Settle(ts, outcome)[u].delivered = turn[u].delivered
           /\ Settle(ts, outcome)[u].promise =
                  IF u \in ts /\ turn[u].promise = "pending" THEN outcome ELSE turn[u].promise
  BY DEF Settle, TurnEntry

\* What a step leaves typed by leaving it alone.
LEMMA TypeFrame ==
    ASSUME TypeOK,
           turn' \in [TurnIds -> TurnEntry],
           \A u \in TurnIds : turn'[u].preparing => ~ turn'[u].delivered,
           active' \in [Actors -> TurnIds \cup {NoTurn}],
           queue' \in [Actors -> Seq(TurnIds)],
           completed' \in SUBSET TurnIds,
           execution' \in [Actors -> Execution],
           fiber' \in [Actors -> Fiber],
           seen' = seen \/ seen' = fiber' \/ seen' = AllCalm,
           batch' \in SUBSET TurnIds, todo' \in SUBSET TurnIds, answering' \in SUBSET TurnIds,
           stopping' \in SUBSET TurnIds, awaited' \in SUBSET TurnIds,
           pump' \in PumpStates, closing' \in {"open", "closing", "closed", "disposed"},
           todo' # {} => pump' \in {"deciding", "sealing"},
           batch' # {} => pump' = "settling",
           stopping' \subseteq awaited'
    PROVE  TypeOK'
<1>1. seen' \in [Actors -> Fiber]
  BY DEF TypeOK, AllCalm, Calm, Fiber
<1> QED
  BY <1>1 DEF TypeOK

LEMMA SchedulePumpTypes ==
    ASSUME TypeOK, SchedulePump
    PROVE  /\ pump' \in PumpStates
           /\ pump \in {"deciding", "sealing", "settling"} => pump' = pump
  BY DEF SchedulePump, TypeOK, PumpStates

\* A patched or finished turn leaves a well-typed coordinator.
LEMMA ChangedTypes ==
    ASSUME TypeOK, Places, NEW t \in TurnIds, PatchedTurn(t) \/ FinishedTurn(t)
    PROVE  /\ turn' \in [TurnIds -> TurnEntry]
           /\ active' \in [Actors -> TurnIds \cup {NoTurn}]
           /\ queue' \in [Actors -> Seq(TurnIds)]
           /\ completed' \in SUBSET TurnIds
           /\ execution' \in [Actors -> Execution]
           /\ \A u \in TurnIds : turn'[u].preparing => ~ turn'[u].delivered
<1>1. CASE PatchedTurn(t)
  <2>1. PICK e \in TurnEntry : /\ turn' = [turn EXCEPT ![t] = e]
                               /\ e.preparing => ~ e.delivered
                               /\ UNCHANGED <<active, queue, completed, execution>>
    BY <1>1 DEF PatchedTurn
  <2> QED
    BY <2>1 DEF TypeOK
<1>2. CASE FinishedTurn(t)
  <2>1. PICK e \in TurnEntry, s \in Terminal,
             r \in {"settled", "cancelled", "failed", "timeout_unsettled", "blocked_on_human"} :
            FinishTurn(t, e, s, r) /\ ~ e.preparing
    BY <1>2 DEF FinishedTurn
  <2> QED
    BY <2>1, FinishTypes
<1> QED
  BY <1>1, <1>2

\* The steps of one turn.
TurnStep(t) ==
    \/ CancelTurn(t) \/ ShutdownCancel(t) \/ ResumeTurn(t) \/ DeliveryFinished(t)
    \/ DeliveryRejected(t) \/ Expire(t) \/ Decide(t)

\* All of them, seen as one kind of step.
LEMMA TurnStepChanges ==
    ASSUME TypeOK, Places, NEW t \in TurnIds, TurnStep(t)
    PROVE  /\ PatchedTurn(t) \/ FinishedTurn(t)
           /\ fiber' \in [Actors -> Fiber]
           /\ UNCHANGED <<batch, seen, closing, awaited>>
           /\ todo' \subseteq todo
           /\ answering' \subseteq answering
           /\ stopping' \subseteq stopping
           /\ pump' = pump \/ SchedulePump \/ (pump = "deciding" /\ pump' = "sealing")
<1>1. CASE CancelTurn(t) \/ ShutdownCancel(t)
  BY <1>1, CancelChanges DEF CancelTurn, ShutdownCancel, Cancel
<1>2. CASE ResumeTurn(t)
  BY <1>2, ResumeChanges DEF ResumeTurn
<1>3. CASE DeliveryFinished(t)
  BY <1>3, DeliveryChanges DEF DeliveryFinished
<1>4. CASE DeliveryRejected(t)
  BY <1>4, DeliveryChanges DEF DeliveryRejected
<1>5. CASE Expire(t)
  BY <1>5, ExpireChanges DEF Expire, TypeOK
<1>6. CASE Decide(t)
  <2>1. Examine(t)
    BY <1>6 DEF Decide, SkipUndelivered, InterruptOrphans, FinishFailed, FinishCancelled, FinishAtHuman,
         AwaitHuman, FinishSettled, TimeOut, StillRunning, Undecided, ExamineDelivered
  <2>2. pump' = pump \/ pump' = "sealing"
    BY <1>6 DEF Decide, SkipUndelivered, InterruptOrphans, FinishFailed, FinishCancelled, FinishAtHuman,
         AwaitHuman, FinishSettled, TimeOut, StillRunning
  <2> QED
    BY <1>6, <2>1, <2>2, DecideChanges DEF Examine
<1> QED
  BY <1>1, <1>2, <1>3, <1>4, <1>5, <1>6 DEF TurnStep

\* The steps that leave every turn as it is.
QuietStep ==
    \/ \E t \in TurnIds : SubmitAnswer(t)
    \/ \E a \in Actors : \/ AnswerLocally(a) \/ FiberStartsOp(a) \/ FiberOpReturns(a)
                         \/ FiberSettles(a) \/ FiberAsks(a) \/ FiberEnds(a)
    \/ PumpDisposed \/ PumpInspect \/ PumpSealed \/ Shutdown \/ ShutdownDone

LEMMA QuietFibers ==
    ASSUME TypeOK, QuietStep
    PROVE  fiber' \in [Actors -> Fiber]
<1>0. fiber \in [Actors -> Fiber]
  BY DEF TypeOK
<1>1. ASSUME NEW t \in TurnIds, SubmitAnswer(t) PROVE fiber' \in [Actors -> Fiber]
  BY <1>0, <1>1, FiberTypes, TurnsAssumption DEF SubmitAnswer
<1>2. ASSUME NEW a \in Actors, AnswerLocally(a) PROVE fiber' \in [Actors -> Fiber]
  BY <1>0, <1>2, FiberTypes DEF AnswerLocally
<1>3. ASSUME NEW a \in Actors, FiberStartsOp(a) \/ FiberOpReturns(a) \/ FiberSettles(a)
      PROVE  fiber' \in [Actors -> Fiber]
  BY <1>0, <1>3 DEF FiberStartsOp, FiberOpReturns, FiberSettles, Fiber
<1>4. ASSUME NEW a \in Actors, FiberAsks(a) PROVE fiber' \in [Actors -> Fiber]
  <2>1. PICK k \in HumanWaits, w \in {"none", "ready"} :
            fiber' = [fiber EXCEPT ![a].human = k, ![a].work = w]
    BY <1>4 DEF FiberAsks
  <2> QED
    BY <1>0, <2>1, TurnsAssumption, ZenonT(60) DEF Fiber
<1>5. ASSUME NEW a \in Actors, FiberEnds(a) PROVE fiber' \in [Actors -> Fiber]
  <2>1. PICK r \in {"failed", "cancelled"}, w \in {"none", "ready"} :
            fiber' = [fiber EXCEPT ![a].root = r, ![a].work = w]
    BY <1>5 DEF FiberEnds
  <2> QED
    BY <1>0, <2>1, ZenonT(60) DEF Fiber
<1>6. CASE PumpDisposed \/ PumpInspect \/ PumpSealed \/ Shutdown
  BY <1>0, <1>6 DEF PumpDisposed, PumpInspect, PumpSealed, Shutdown
<1>7. CASE ShutdownDone
  BY <1>0, <1>7 DEF ShutdownDone, Calm, Fiber
<1> QED
  BY <1>1, <1>2, <1>3, <1>4, <1>5, <1>6, <1>7 DEF QuietStep

LEMMA QuietFrame ==
    ASSUME QuietStep
    PROVE  /\ UNCHANGED <<turn, active, queue, completed, batch, execution>>
           /\ closing' = closing \/ (closing = "open" /\ closing' = "closing")
                \/ (closing = "closing" /\ closing' = "closed")
  BY DEF QuietStep, SubmitAnswer, AnswerLocally, FiberStartsOp, FiberOpReturns, FiberSettles, FiberAsks,
         FiberEnds, FiberStep, PumpDisposed, PumpInspect, PumpSealed, Shutdown, ShutdownDone

LEMMA QuietTypes ==
    ASSUME TypeOK, QuietStep
    PROVE  TypeOK'
<1>0. fiber' \in [Actors -> Fiber]
  BY QuietFibers
<1> USE DEF TypeOK
<1>1. CASE \E t \in TurnIds : SubmitAnswer(t)
  BY <1>0, <1>1, TypeFrame DEF SubmitAnswer
<1>2. ASSUME NEW a \in Actors, AnswerLocally(a) \/ FiberStartsOp(a) \/ FiberOpReturns(a)
                         \/ FiberSettles(a) \/ FiberAsks(a) \/ FiberEnds(a)
      PROVE TypeOK'
  <2>1. UNCHANGED <<turn, active, queue, completed, batch, execution, pump, seen, todo,
                   answering, closing, stopping, awaited>>
    BY <1>2 DEF AnswerLocally, FiberStartsOp, FiberOpReturns, FiberSettles, FiberAsks, FiberEnds, FiberStep
  <2> QED
    BY <1>0, <2>1, TypeFrame
<1>3. CASE PumpDisposed
  <2>1. pump' \in {"scheduled", "off"} /\ seen' = AllCalm /\ todo' = {}
    BY <1>3 DEF PumpDisposed, EndSlice
  <2>2. batch' # {} => pump' = "settling"
    BY <1>3 DEF PumpDisposed
  <2> QED
    BY <1>0, <1>3, <2>1, <2>2, TypeFrame DEF PumpDisposed, PumpStates
<1>4. CASE PumpInspect
  <2>1. ActiveTurns \in SUBSET TurnIds
    BY DEF ActiveTurns
  <2> QED
    BY <1>0, <1>4, <2>1, TypeFrame DEF PumpInspect, PumpStates
<1>5. CASE PumpSealed
  BY <1>0, <1>5, TypeFrame DEF PumpSealed, PumpStates
<1>6. CASE Shutdown
  <2>1. stopping' \in SUBSET TurnIds /\ awaited' = stopping'
    BY <1>6 DEF Shutdown
  <2> QED
    BY <1>0, <1>6, <2>1, TypeFrame DEF Shutdown
<1>7. CASE ShutdownDone
  BY <1>0, <1>7, TypeFrame DEF ShutdownDone
<1> QED
  BY <1>1, <1>2, <1>3, <1>4, <1>5, <1>6, <1>7 DEF QuietStep

LEMMA TurnStepTypes ==
    ASSUME TypeOK, Places, NEW t \in TurnIds, TurnStep(t)
    PROVE  TypeOK'
<1>1. /\ turn' \in [TurnIds -> TurnEntry]
      /\ active' \in [Actors -> TurnIds \cup {NoTurn}]
      /\ queue' \in [Actors -> Seq(TurnIds)]
      /\ completed' \in SUBSET TurnIds
      /\ execution' \in [Actors -> Execution]
      /\ \A u \in TurnIds : turn'[u].preparing => ~ turn'[u].delivered
  BY TurnStepChanges, ChangedTypes
<1>2. /\ fiber' \in [Actors -> Fiber]
      /\ UNCHANGED <<batch, seen, closing, awaited>>
      /\ todo' \subseteq todo /\ answering' \subseteq answering /\ stopping' \subseteq stopping
      /\ pump' = pump \/ SchedulePump \/ (pump = "deciding" /\ pump' = "sealing")
  BY TurnStepChanges
<1>3. /\ pump' \in PumpStates
      /\ pump \in {"deciding", "sealing"} => pump' \in {"deciding", "sealing"}
      /\ pump = "settling" => pump' = pump
  BY <1>2, SchedulePumpTypes DEF PumpStates, TypeOK
<1>4. /\ batch' \in SUBSET TurnIds /\ todo' \in SUBSET TurnIds /\ answering' \in SUBSET TurnIds
      /\ stopping' \in SUBSET TurnIds /\ awaited' \in SUBSET TurnIds /\ stopping' \subseteq awaited'
      /\ closing' \in {"open", "closing", "closed", "disposed"}
  BY <1>2 DEF TypeOK
<1>5. (todo' # {} => pump' \in {"deciding", "sealing"}) /\ (batch' # {} => pump' = "settling")
  BY <1>2, <1>3 DEF TypeOK
<1> QED
  BY <1>1, <1>2, <1>3, <1>4, <1>5, TypeFrame

LEMMA EndSliceTypes ==
    ASSUME EndSlice
    PROVE  pump' \in {"scheduled", "off"} /\ seen' = AllCalm /\ todo' = {}
  BY DEF EndSlice

LEMMA OtherTypes ==
    ASSUME TypeOK, Places,
           \/ \E t \in TurnIds : Admit(t)
           \/ PumpBegin \/ PumpSettle \/ PumpSettled \/ PumpFails \/ Dispose
    PROVE  TypeOK'
<1> USE DEF TypeOK
<1>1. ASSUME NEW t \in TurnIds, Admit(t) PROVE TypeOK'
  <2>0. ActorOf[t] \in Actors
    BY TurnsAssumption
  <2>1. queue' \in [Actors -> Seq(TurnIds)]
    BY <1>1, <2>0, AppendedQueue DEF Admit
  <2>2. /\ turn' \in [TurnIds -> TurnEntry]
        /\ \A u \in TurnIds : turn'[u].preparing => ~ turn'[u].delivered
    <3> DEFINE e == [turn[t] EXCEPT !.state = "queued"]
    <3>1. turn' = [turn EXCEPT ![t] = e]
      BY <1>1 DEF Admit
    <3>2. e \in TurnEntry /\ (e.preparing => ~ e.delivered)
      BY ZenonT(60) DEF TurnEntry, TurnStates
    <3> HIDE DEF e
    <3> QED
      BY <3>1, <3>2
  <2>3. pump' \in PumpStates /\ (pump \in {"deciding", "sealing", "settling"} => pump' = pump)
    BY <1>1, SchedulePumpTypes DEF Admit
  <2> QED
    BY <1>1, <2>1, <2>2, <2>3, TypeFrame DEF Admit
<1>2. CASE PumpBegin
  <2>1. PICK how \in [Startable -> {"promised", "returned", "thrown"}] : StartQueued(how)
    BY <1>2 DEF PumpBegin
  <2>2. /\ turn' \in [TurnIds -> TurnEntry]
        /\ active' \in [Actors -> TurnIds \cup {NoTurn}]
        /\ queue' \in [Actors -> Seq(TurnIds)]
        /\ completed' \in SUBSET TurnIds
        /\ execution' \in [Actors -> Execution]
        /\ fiber' \in [Actors -> Fiber]
        /\ \A u \in TurnIds : turn'[u].preparing => ~ turn'[u].delivered
    BY <2>1, StartTypes
  <2>3. \/ pump' = "ticking" /\ UNCHANGED <<seen, todo>>
        \/ pump' = "deciding" /\ seen' = fiber' /\ todo' = ActiveTurns'
    BY <1>2 DEF PumpBegin
  <2>4. ActiveTurns' \in SUBSET TurnIds
    BY <2>2 DEF ActiveTurns
  <2>5. pump = "scheduled" /\ UNCHANGED <<batch, answering, closing, stopping, awaited>>
    BY <1>2 DEF PumpBegin
  <2>6. batch' = {} /\ todo = {}
    BY <2>5
  <2> QED
    BY <2>2, <2>3, <2>4, <2>5, <2>6, TypeFrame DEF PumpStates
<1>3. CASE PumpSettle
  <2>1. /\ batch' = completed /\ completed' = {} /\ todo = {}
        /\ UNCHANGED <<turn, active, queue, execution, fiber, answering, closing, stopping, awaited>>
    BY <1>3 DEF PumpSettle
  <2>2. CASE completed = {}
    BY <1>3, <2>1, <2>2, EndSliceTypes, TypeFrame DEF PumpSettle, PumpStates
  <2>3. CASE completed # {}
    BY <1>3, <2>1, <2>3, TypeFrame DEF PumpSettle, PumpStates
  <2> QED
    BY <2>2, <2>3
<1>4. CASE PumpSettled
  <2>1. PICK outcome \in {"resolved", "rejected"} : turn' = Settle(batch, outcome)
    BY <1>4 DEF PumpSettled
  <2>2. /\ turn' \in [TurnIds -> TurnEntry]
        /\ \A u \in TurnIds : turn'[u].preparing => ~ turn'[u].delivered
    <3>1. \A u \in TurnIds : turn'[u] \in TurnEntry /\ turn'[u].preparing = turn[u].preparing
                                /\ turn'[u].delivered = turn[u].delivered
      BY <2>1, SettleTypes
    <3>2. DOMAIN turn' = TurnIds /\ turn' = [u \in TurnIds |-> turn'[u]]
      BY <2>1 DEF Settle
    <3> QED
      BY <3>1, <3>2
  <2>3. batch' = {} /\ UNCHANGED <<active, queue, completed, execution, fiber, answering, closing, stopping, awaited>>
    BY <1>4 DEF PumpSettled
  <2>4. EndSlice
    BY <1>4 DEF PumpSettled
  <2> QED
    BY <2>2, <2>3, <2>4, EndSliceTypes, TypeFrame DEF PumpStates
<1>5. CASE PumpFails
  <2> DEFINE failed == {t \in ActiveTurns : Live(t)}
             ended == Settle(completed \cup failed, "rejected")
  <2>1. turn' = [t \in TurnIds |-> IF t \in failed THEN [ended[t] EXCEPT !.state = "failed"] ELSE ended[t]]
    BY <1>5 DEF PumpFails
  <2>2. \A u \in TurnIds : ended[u] \in TurnEntry /\ ended[u].preparing = turn[u].preparing
                                /\ ended[u].delivered = turn[u].delivered
    BY SettleTypes
  <2>3. /\ turn' \in [TurnIds -> TurnEntry]
        /\ \A u \in TurnIds : turn'[u].preparing => ~ turn'[u].delivered
    <3> HIDE DEF ended, failed
    <3>1. ASSUME NEW e \in TurnEntry
          PROVE  /\ [e EXCEPT !.state = "failed"] \in TurnEntry
                 /\ [e EXCEPT !.state = "failed"].preparing = e.preparing
                 /\ [e EXCEPT !.state = "failed"].delivered = e.delivered
      BY DEF TurnEntry, TurnStates, Terminal
    <3> QED
      BY <2>1, <2>2, <3>1
  <2>4. active' \in [Actors -> TurnIds \cup {NoTurn}]
    BY <1>5 DEF PumpFails
  <2>5. execution' \in [Actors -> Execution]
    <3>1. execution' = [a \in Actors |->
                  IF active[a] \in failed
                     /\ (active[a] \in Compatibility \/ execution[a].owner = active[a])
                  THEN [execution[a] EXCEPT !.status = "settled"] ELSE execution[a]]
      BY <1>5 DEF PumpFails
    <3>2. \A a \in Actors : [execution[a] EXCEPT !.status = "settled"] \in Execution
      BY DEF Execution
    <3> HIDE DEF failed
    <3> QED
      BY <3>1, <3>2
  <2>6. /\ completed' = {} /\ pump \in {"ticking", "sealing"}
        /\ UNCHANGED <<queue, batch, fiber, answering, closing, stopping, awaited>>
    BY <1>5 DEF PumpFails
  <2>7. EndSlice
    BY <1>5 DEF PumpFails
  <2> QED
    BY <2>3, <2>4, <2>5, <2>6, <2>7, EndSliceTypes, TypeFrame DEF PumpStates
<1>6. CASE Dispose
  <2> DEFINE resolved == Settle({t \in TurnIds : Live(t)}, "resolved")
  <2>1. turn' = [t \in TurnIds |-> IF Live(t) THEN [resolved[t] EXCEPT !.aborted = TRUE] ELSE turn[t]]
    BY <1>6 DEF Dispose
  <2>2. \A u \in TurnIds : resolved[u] \in TurnEntry /\ resolved[u].preparing = turn[u].preparing
                                /\ resolved[u].delivered = turn[u].delivered
    BY SettleTypes
  <2>3. /\ turn' \in [TurnIds -> TurnEntry]
        /\ \A u \in TurnIds : turn'[u].preparing => ~ turn'[u].delivered
    <3> HIDE DEF resolved
    <3>1. \A u \in TurnIds : LET e == [resolved[u] EXCEPT !.aborted = TRUE]
                             IN  e \in TurnEntry /\ e.preparing = resolved[u].preparing
                                 /\ e.delivered = resolved[u].delivered
      BY <2>2, ZenonT(60) DEF TurnEntry
    <3> QED
      BY <2>1, <2>2, <3>1
  <2>4. active' \in [Actors -> TurnIds \cup {NoTurn}] /\ queue' \in [Actors -> Seq(TurnIds)]
    BY <1>6, EmptySeq DEF Dispose
  <2> QED
    BY <1>6, <2>3, <2>4, TypeFrame DEF Dispose
<1> QED
  BY <1>1, <1>2, <1>3, <1>4, <1>5, <1>6
------------------------------------------------------------------------------
(* Each kind of step keeps the turns where something settles them.         *)

LEMMA PatchKeepsPlaces ==
    ASSUME TypeOK, Places, NEW t \in TurnIds, PatchedTurn(t),
           UNCHANGED <<batch, closing>>, todo' \subseteq todo
    PROVE  Places'
<1>1. PICK e \in TurnEntry :
        /\ turn' = [turn EXCEPT ![t] = e]
        /\ e.promise = turn[t].promise
        /\ e.preparing => turn[t].preparing
        /\ e.state # turn[t].state =>
               /\ turn[t].state \notin {"absent", "queued"}
               /\ t \in Compatibility => turn[t].state \in {"running", "waiting_input"}
               /\ e.state \in {"running", "waiting_input"}
        /\ UNCHANGED <<active, queue, completed, execution>>
  BY DEF PatchedTurn
<1>2. \A u \in TurnIds : turn'[u] = IF u = t THEN e ELSE turn[u]
  BY <1>1 DEF TypeOK
<1>3. Disposed' = Disposed
  BY DEF Disposed
<1>4. ASSUME NEW a \in Actors PROVE ActiveOK(a)' /\ QueueOK(a)'
  <2>1. ActiveOK(a)'
    <3>1. ActiveOK(a)
      BY DEF Places
    <3>2. active[a] \in TurnIds \cup {NoTurn}
      BY DEF TypeOK
    <3> QED
      BY <1>1, <1>2, <3>1, <3>2 DEF ActiveOK
  <2>2. QueueOK(a)'
    <3>1. QueueOK(a)
      BY DEF Places
    <3>2. Elems(queue[a]) \subseteq TurnIds
      BY DEF TypeOK, Elems
    <3> QED
      BY <1>1, <1>2, <3>1, <3>2 DEF QueueOK, Distinct, Elems
  <2> QED
    BY <2>1, <2>2
<1>5. ASSUME NEW u \in TurnIds PROVE TurnOK(u)'
  <2>1. TurnOK(u) /\ TurnOK(t)
    BY DEF Places
  <2>2. Elems(queue[ActorOf[u]])' = Elems(queue[ActorOf[u]])
    BY <1>1 DEF Elems
  <2> QED
    BY <1>1, <1>2, <1>3, <2>1, <2>2 DEF TurnOK
<1> QED
  BY <1>1, <1>3, <1>4, <1>5 DEF Places

\* finishTurn takes the turn out of its place and puts it among the completed;
\* an entry that is terminal already stays where it is.
LEMMA FinishKeepsPlaces ==
    ASSUME TypeOK, Places, NEW t \in TurnIds, FinishedTurn(t),
           UNCHANGED <<batch, closing>>, todo' \subseteq todo
    PROVE  Places'
<1>0. PICK e \in TurnEntry, s \in Terminal,
           r \in {"settled", "cancelled", "failed", "timeout_unsettled", "blocked_on_human"} :
        /\ FinishTurn(t, e, s, r)
        /\ e.state = turn[t].state
        /\ turn[t].state # "absent"
        /\ e.promise = turn[t].promise
        /\ ~ e.preparing
        /\ s = "interrupted" /\ t \in Compatibility => r = "timeout_unsettled"
  BY DEF FinishedTurn
<1>1. CASE e.state \in Terminal
  <2>1. PatchedTurn(t)
    BY <1>0, <1>1 DEF FinishTurn, PatchedTurn
  <2> QED
    BY <2>1, PatchKeepsPlaces
<1>2. CASE e.state \notin Terminal
  <2> DEFINE b == ActorOf[t]
             d == [e EXCEPT !.state = s]
  <2>1. b \in Actors
    BY TurnsAssumption
  <2>2. /\ turn' = [turn EXCEPT ![t] = d]
        /\ active' = [active EXCEPT ![b] = IF active[b] = t THEN NoTurn ELSE active[b]]
        /\ queue' = [queue EXCEPT ![b] = Without(queue[b], t)]
        /\ completed' = completed \cup {t}
        /\ execution' = ExecutionAfter(t, s, r)
    BY <1>0, <1>2, <2>1 DEF FinishTurn, TypeOK
  <2>3. d.state = s /\ d.promise = turn[t].promise /\ (d.preparing => turn[t].preparing)
    BY <1>0 DEF TurnEntry
  <2> HIDE DEF b, d
  <2>4. \A u \in TurnIds : turn'[u] = IF u = t THEN d ELSE turn[u]
    BY <2>2 DEF TypeOK
  <2>5. Disposed' = Disposed
    BY DEF Disposed
  <2>6. /\ Distinct(queue'[b]) /\ Elems(queue'[b]) = Elems(queue[b]) \ {t}
        /\ \A a \in Actors : a # b => queue'[a] = queue[a]
    <3>1. queue[b] \in Seq(TurnIds) /\ Distinct(queue[b])
      BY <2>1 DEF TypeOK, Places, QueueOK
    <3>2. queue'[b] = Without(queue[b], t) /\ \A a \in Actors : a # b => queue'[a] = queue[a]
      BY <2>1, <2>2 DEF TypeOK
    <3> QED
      BY <3>1, <3>2, QueueWithout
  <2>7. \A a \in Actors : active'[a] = IF active[a] = t /\ a = b THEN NoTurn ELSE active[a]
    BY <2>1, <2>2 DEF TypeOK
  <2>8. /\ \A a \in Actors : execution'[a].owner = execution[a].owner
        /\ \A a \in Actors : a # b => execution'[a] = execution[a]
        /\ execution'[b] = execution[b] \/ t \in Compatibility \/ execution[b].owner = t
        /\ execution'[b].status # execution[b].status =>
              execution'[b].status \in {"active", "settled"} \/ t \notin Compatibility
    <3>1. execution \in [Actors -> Execution]
      BY DEF TypeOK
    <3>2. CASE execution' = execution
      BY <3>2
    <3>3. CASE execution' # execution
      <4> DEFINE v == IF t \in Compatibility /\ r \in {"timeout_unsettled", "blocked_on_human"} THEN "active"
                      ELSE IF s = "interrupted" THEN "interrupted" ELSE "settled"
      <4>1. /\ execution' = [execution EXCEPT ![b].status = v]
            /\ t \in Compatibility \/ execution[b].owner = t
        BY <2>2, <3>3 DEF ExecutionAfter, b
      <4>2. t \in Compatibility => v \in {"active", "settled"}
        BY <1>0
      <4> HIDE DEF v
      <4>3. \A a \in Actors : execution'[a] = IF a = b THEN [execution[b] EXCEPT !.status = v] ELSE execution[a]
        BY <2>1, <3>1, <4>1
      <4>4. execution[b] \in Execution
        BY <2>1, <3>1
      <4>5. execution'[b].status = v /\ execution'[b].owner = execution[b].owner
        BY <2>1, <4>3, <4>4 DEF Execution
      <4> QED
        BY <2>1, <4>1, <4>2, <4>3, <4>5
    <3> QED
      BY <3>2, <3>3
  <2>9. ASSUME NEW a \in Actors PROVE ActiveOK(a)'
    <3>1. ActiveOK(a)
      BY DEF Places
    <3>2. active[a] \in TurnIds \cup {NoTurn} /\ NoTurn \notin TurnIds
      BY TurnsAssumption DEF TypeOK
    <3> SUFFICES ASSUME active'[a] # NoTurn
                 PROVE  /\ ActorOf[active'[a]] = a
                        /\ turn'[active'[a]].state \in {"running", "waiting_input"}
                        /\ execution'[a].status \in {"active", "settled"}
                        /\ execution'[a].owner = active'[a]
                              \/ {active'[a], execution'[a].owner} \subseteq Compatibility
      BY DEF ActiveOK
    <3>3. active'[a] = active[a] /\ active[a] # NoTurn /\ active[a] \in TurnIds
      BY <2>7, <3>2
    <3>4. ActorOf[active[a]] = a /\ active[a] # t
      BY <2>7, <3>1, <3>3 DEF ActiveOK, b
    <3>5. turn'[active'[a]].state \in {"running", "waiting_input"}
      BY <2>4, <3>1, <3>3, <3>4 DEF ActiveOK
    <3>6. execution'[a].owner = active'[a] \/ {active'[a], execution'[a].owner} \subseteq Compatibility
      BY <2>8, <3>1, <3>3 DEF ActiveOK
    <3>7. execution'[a].status \in {"active", "settled"}
      BY <2>8, <3>1, <3>3, <3>4 DEF ActiveOK
    <3> QED
      BY <3>3, <3>4, <3>5, <3>6, <3>7
  <2>10. ASSUME NEW a \in Actors PROVE QueueOK(a)'
    <3>1. QueueOK(a)
      BY DEF Places
    <3>2. Elems(queue[a]) \subseteq TurnIds
      BY DEF TypeOK, Elems
    <3>3. Distinct(queue'[a]) /\ Elems(queue'[a]) \subseteq Elems(queue[a]) \ {t}
      <4>1. a # b => t \notin Elems(queue[a])
        BY <3>1 DEF QueueOK, b
      <4> QED
        BY <2>6, <3>1, <4>1 DEF QueueOK
    <3>4. \A u \in Elems(queue'[a]) : ActorOf[u] = a /\ turn'[u].state = "queued"
      BY <2>4, <3>1, <3>2, <3>3 DEF QueueOK
    <3> QED
      BY <3>3, <3>4 DEF QueueOK, Distinct, Elems
  <2>11. ASSUME NEW u \in TurnIds PROVE TurnOK(u)'
    <3>1. TurnOK(u) /\ TurnOK(t)
      BY DEF Places
    <3>2. ActorOf[u] \in Actors
      BY TurnsAssumption
    <3>3. Elems(queue[ActorOf[u]])' = Elems(queue'[ActorOf[u]])
      BY DEF Elems
    <3>4. CASE u = t
      <4>1. turn'[u].state \in Terminal /\ turn'[u].state \notin {"absent", "queued", "running", "waiting_input"}
        BY <2>3, <2>4, <3>4 DEF Terminal
      <4>2. u \in completed'
        BY <2>2, <3>4
      <4>3. turn'[u].preparing => turn[u].preparing
        BY <2>3, <2>4, <3>4
      <4> QED
        BY <3>1, <4>1, <4>2, <4>3 DEF TurnOK
    <3>5. CASE u # t
      <4>1. turn'[u] = turn[u]
        BY <2>4, <3>5
      <4>2. active[ActorOf[u]] = u => active'[ActorOf[u]] = u
        BY <2>7, <3>2, <3>5
      <4>3. u \in Elems(queue[ActorOf[u]]) => u \in Elems(queue'[ActorOf[u]])
        BY <2>6, <3>2, <3>5
      <4>4. completed \subseteq completed'
        BY <2>2
      <4> QED
        BY <2>5, <3>1, <3>3, <4>1, <4>2, <4>3, <4>4 DEF TurnOK
    <3> QED
      BY <3>4, <3>5
  <2>12. Disposed' => \A a \in Actors : active'[a] = NoTurn /\ queue'[a] = <<>>
    <3>1. ASSUME Disposed, NEW a \in Actors PROVE active'[a] = NoTurn /\ queue'[a] = <<>>
      <4>1. active[a] = NoTurn /\ queue[a] = <<>> /\ queue[b] = <<>>
        BY <2>1, <3>1 DEF Places
      <4>2. Without(<<>>, t) = <<>>
        BY DEF Without
      <4> QED
        BY <2>1, <2>2, <2>7, <4>1, <4>2 DEF TypeOK
    <3> QED
      BY <2>5, <3>1
  <2> QED
    BY <2>9, <2>10, <2>11, <2>12 DEF Places
<1> QED
  BY <1>1, <1>2

LEMMA TurnStepKeepsPlaces ==
    ASSUME TypeOK, Places, NEW t \in TurnIds, TurnStep(t)
    PROVE  Places'
  BY TurnStepChanges, PatchKeepsPlaces, FinishKeepsPlaces

LEMMA QuietKeepsPlaces ==
    ASSUME TypeOK, Places, QuietStep
    PROVE  Places'
<1>1. /\ UNCHANGED <<turn, active, queue, completed, batch, execution>> /\ Disposed' = Disposed
  BY QuietFrame DEF Disposed
<1>2. \A u \in TurnIds : u \in todo' => u \in todo \/ u \in ActiveTurns
  BY EndSliceTypes DEF QuietStep, SubmitAnswer, AnswerLocally, FiberStartsOp, FiberOpReturns, FiberSettles,
         FiberAsks, FiberEnds, FiberStep, PumpDisposed, PumpInspect, PumpSealed, Shutdown, ShutdownDone
<1>3. \A u \in ActiveTurns : turn[u].state \notin {"absent", "queued"}
  BY DEF ActiveTurns, Places, ActiveOK
<1>4. ASSUME NEW a \in Actors PROVE ActiveOK(a)' /\ QueueOK(a)'
  BY <1>1 DEF Places, ActiveOK, QueueOK, Distinct, Elems
<1>5. ASSUME NEW u \in TurnIds PROVE TurnOK(u)'
  <2>1. TurnOK(u)
    BY DEF Places
  <2>2. Elems(queue[ActorOf[u]])' = Elems(queue[ActorOf[u]])
    BY <1>1 DEF Elems
  <2> QED
    BY <1>1, <1>2, <1>3, <2>1, <2>2 DEF TurnOK
<1> QED
  BY <1>1, <1>4, <1>5 DEF Places

LEMMA AdmitKeepsPlaces ==
    ASSUME TypeOK, Places, NEW t \in TurnIds, Admit(t)
    PROVE  Places'
<1> DEFINE b == ActorOf[t]
           e == [turn[t] EXCEPT !.state = "queued"]
<1>0. b \in Actors /\ turn[t].state = "absent"
  BY TurnsAssumption DEF Admit
<1>1. /\ turn' = [turn EXCEPT ![t] = e]
      /\ queue' = [queue EXCEPT ![b] = Append(queue[b], t)]
      /\ UNCHANGED <<active, completed, batch, execution, todo, closing>>
  BY <1>0 DEF Admit, TypeOK
<1>2. e.state = "queued" /\ e.preparing = turn[t].preparing
  BY DEF TypeOK, TurnEntry
<1> HIDE DEF b, e
<1>3. \A u \in TurnIds : turn'[u] = IF u = t THEN e ELSE turn[u]
  BY <1>1 DEF TypeOK
<1>4. ~ Disposed /\ Disposed' = Disposed
  BY <1>1 DEF Disposed, Admit
<1>5. /\ Distinct(queue'[b]) /\ Elems(queue'[b]) = Elems(queue[b]) \cup {t}
      /\ \A a \in Actors : a # b => queue'[a] = queue[a]
  <2>1. queue[b] \in Seq(TurnIds) /\ Distinct(queue[b]) /\ t \notin Elems(queue[b])
    BY <1>0 DEF TypeOK, Places, QueueOK
  <2>2. queue'[b] = Append(queue[b], t) /\ \A a \in Actors : a # b => queue'[a] = queue[a]
    BY <1>0, <1>1 DEF TypeOK
  <2> QED
    BY <2>1, <2>2, AppendedQueue
<1>6. ASSUME NEW a \in Actors PROVE ActiveOK(a)'
  <2>1. ActiveOK(a) /\ active[a] \in TurnIds \cup {NoTurn}
    BY DEF Places, TypeOK
  <2>2. active[a] # t \/ active[a] = NoTurn
    BY <1>0, <2>1 DEF ActiveOK
  <2> QED
    BY <1>1, <1>3, <2>1, <2>2 DEF ActiveOK
<1>7. ASSUME NEW a \in Actors PROVE QueueOK(a)'
  <2>1. QueueOK(a) /\ Elems(queue[a]) \subseteq TurnIds
    BY DEF Places, TypeOK, Elems
  <2>2. Distinct(queue'[a]) /\ \A u \in Elems(queue'[a]) : u \in Elems(queue[a]) \/ (u = t /\ a = b)
    BY <1>5, <2>1 DEF QueueOK
  <2>3. \A u \in Elems(queue'[a]) : ActorOf[u] = a /\ turn'[u].state = "queued"
    BY <1>2, <1>3, <2>1, <2>2 DEF QueueOK, b
  <2> QED
    BY <2>2, <2>3 DEF QueueOK, Distinct, Elems
<1>8. ASSUME NEW u \in TurnIds PROVE TurnOK(u)'
  <2>1. TurnOK(u) /\ ActorOf[u] \in Actors
    BY TurnsAssumption DEF Places
  <2>2. Elems(queue[ActorOf[u]])' = Elems(queue'[ActorOf[u]])
    BY DEF Elems
  <2>3. Elems(queue[ActorOf[u]]) \subseteq Elems(queue'[ActorOf[u]])
    BY <1>5, <2>1
  <2>4. CASE u = t
    <3>1. u \in Elems(queue'[ActorOf[u]]) /\ turn'[u].state = "queued" /\ u \notin todo /\ ~ turn'[u].preparing
      BY <1>0, <1>2, <1>3, <1>5, <2>1, <2>4 DEF b, TurnOK
    <3> QED
      BY <1>1, <2>2, <3>1 DEF TurnOK
  <2>5. CASE u # t
    BY <1>1, <1>3, <1>4, <2>1, <2>2, <2>3, <2>5 DEF TurnOK
  <2> QED
    BY <2>4, <2>5
<1> QED
  BY <1>4, <1>6, <1>7, <1>8 DEF Places

\* startQueued: the heads of the queues become active, or fail at once.
LEMMA BeginKeepsPlaces ==
    ASSUME TypeOK, Places, PumpBegin
    PROVE  Places'
<1>1. PICK how \in [Startable -> {"promised", "returned", "thrown"}] :
          /\ \A a \in Startable : how[a] \in Deliveries(Head(queue[a]))
          /\ StartQueued(how)
  BY DEF PumpBegin
<1> DEFINE first(a) == Head(queue[a])
           thrown == {a \in Startable : how[a] = "thrown"}
           started(u) == ActorOf[u] \in Startable /\ u = first(ActorOf[u])
           e(u) == [turn[u] EXCEPT !.state = IF how[ActorOf[u]] = "thrown" THEN "failed" ELSE "running",
                                   !.preparing = how[ActorOf[u]] = "promised",
                                   !.delivered = how[ActorOf[u]] = "returned"]
<1>2. ~ Disposed /\ UNCHANGED <<batch, closing>> /\ Disposed' = Disposed /\ todo = {}
  BY DEF PumpBegin, Disposed, TypeOK
<1>3. ASSUME NEW a \in Startable
      PROVE  /\ a \in Actors /\ active[a] = NoTurn /\ first(a) \in TurnIds /\ ActorOf[first(a)] = a
             /\ first(a) \in Elems(queue[a])
             /\ Distinct(Tail(queue[a])) /\ Elems(Tail(queue[a])) = Elems(queue[a]) \ {first(a)}
  <2>1. a \in Actors /\ active[a] = NoTurn /\ queue[a] # <<>> /\ queue[a] \in Seq(TurnIds) /\ QueueOK(a)
    BY DEF Startable, Places, TypeOK
  <2> QED
    BY <2>1, TailOfQueue DEF QueueOK
<1>4. \A u \in TurnIds : turn'[u] = IF started(u) THEN e(u) ELSE turn[u]
  BY <1>1 DEF StartQueued
<1>5. \A u \in TurnIds : /\ e(u).state = IF how[ActorOf[u]] = "thrown" THEN "failed" ELSE "running"
                         /\ e(u).preparing = (how[ActorOf[u]] = "promised")
                         /\ e(u).promise = turn[u].promise
  BY DEF TypeOK, TurnEntry
<1>6. \A a \in Actors : queue'[a] = IF a \in Startable THEN Tail(queue[a]) ELSE queue[a]
  BY <1>1 DEF StartQueued
<1>7. \A a \in Actors : active'[a] = IF a \in Startable \ thrown THEN first(a) ELSE active[a]
  BY <1>1 DEF StartQueued
<1>8. completed' = completed \cup {first(a) : a \in thrown}
  BY <1>1 DEF StartQueued
<1>9. \A a \in Actors : execution'[a] =
                IF a \notin Startable THEN execution[a]
                ELSE IF a \in thrown
                THEN [ExecutionOnStart(a, first(a)) EXCEPT !.status = "settled"]
                ELSE ExecutionOnStart(a, first(a))
  BY <1>1 DEF StartQueued
<1>10. thrown \subseteq Startable /\ Startable \subseteq Actors
  BY DEF Startable
<1>11. \A a \in Startable : turn'[first(a)] = e(first(a)) /\ started(first(a))
  BY <1>3, <1>4
<1>12. \A a \in Startable \ thrown : how[a] # "thrown"
  OBVIOUS
<1>13. \A a \in thrown : how[a] = "thrown"
  OBVIOUS
<1>14. \A a \in Startable : how[a] = "promised" => first(a) \notin Compatibility
  BY <1>1 DEF Deliveries
<1>15. \A u \in TurnIds : started(u) => ActorOf[u] \in Startable /\ u = first(ActorOf[u])
  OBVIOUS
<1>16. \A u \in TurnIds : ActorOf[u] \in Actors
  BY TurnsAssumption
<1>17. \A a \in Actors, u \in TurnIds : active[a] = u => ~ started(u)
  <2> SUFFICES ASSUME NEW a \in Actors, NEW u \in TurnIds, active[a] = u, started(u) PROVE FALSE
    OBVIOUS
  <2>1. active[a] # NoTurn /\ ActorOf[u] = a
    BY TurnsAssumption DEF Places, ActiveOK
  <2> QED
    BY <1>3, <1>15, <2>1
<1> HIDE DEF first, thrown, started, e
<1>20. ASSUME NEW a \in Actors PROVE ActiveOK(a)'
  <2>1. ActiveOK(a) /\ active[a] \in TurnIds \cup {NoTurn}
    BY DEF Places, TypeOK
  <2>2. CASE a \in Startable \ thrown
    <3>1. active'[a] = first(a) /\ first(a) \in TurnIds /\ ActorOf[first(a)] = a
      BY <1>3, <1>7, <2>2
    <3>2. turn'[first(a)].state = "running"
      BY <1>3, <1>5, <1>11, <1>12, <2>2
    <3>3. execution'[a] = ExecutionOnStart(a, first(a))
      BY <1>9, <2>2
    <3>4. /\ execution'[a].status = "active"
          /\ execution'[a].owner = first(a) \/ {first(a), execution'[a].owner} \subseteq Compatibility
      BY <3>3 DEF ExecutionOnStart
    <3> QED
      BY <3>1, <3>2, <3>4 DEF ActiveOK
  <2>3. CASE a \in thrown
    <3>1. active'[a] = NoTurn
      BY <1>3, <1>7, <1>10, <2>3
    <3> QED
      BY <3>1 DEF ActiveOK
  <2>4. CASE a \notin Startable
    <3>1. active'[a] = active[a] /\ execution'[a] = execution[a]
      BY <1>7, <1>9, <2>4
    <3>2. active[a] # NoTurn => turn'[active[a]] = turn[active[a]]
      BY <1>4, <1>17, <2>1
    <3> QED
      BY <2>1, <3>1, <3>2 DEF ActiveOK
  <2> QED
    BY <2>2, <2>3, <2>4
<1>21. ASSUME NEW a \in Actors PROVE QueueOK(a)'
  <2>1. QueueOK(a) /\ Elems(queue[a]) \subseteq TurnIds
    BY DEF Places, TypeOK, Elems
  <2>2. Distinct(queue'[a]) /\ Elems(queue'[a]) = Elems(queue[a]) \ (IF a \in Startable THEN {first(a)} ELSE {})
    BY <1>3, <1>6, <2>1 DEF QueueOK
  <2>3. \A u \in Elems(queue'[a]) : ~ started(u)
    BY <1>15, <2>1, <2>2 DEF QueueOK
  <2>4. \A u \in Elems(queue'[a]) : ActorOf[u] = a /\ turn'[u].state = "queued"
    BY <1>4, <2>1, <2>2, <2>3 DEF QueueOK
  <2> QED
    BY <2>2, <2>4 DEF QueueOK, Distinct, Elems
<1>22. ASSUME NEW u \in TurnIds PROVE TurnOK(u)'
  <2> DEFINE b == ActorOf[u]
  <2>1. TurnOK(u) /\ b \in Actors
    BY <1>16 DEF Places
  <2>2. Elems(queue[b])' = Elems(queue'[b])
    BY DEF Elems
  <2>3. u \in todo' => u \in ActiveTurns'
    BY <1>2 DEF PumpBegin
  <2>4. CASE started(u)
    <3>1. /\ b \in Startable /\ u = first(b) /\ turn'[u] = e(u)
      BY <1>4, <1>15, <2>4
    <3>2. turn'[u].state \in {"failed", "running"} /\ (turn'[u].state = "running" => b \notin thrown)
      BY <1>5, <1>13, <3>1
    <3>3. b \in thrown => u \in completed'
      BY <1>8, <3>1
    <3>4. b \notin thrown => active'[b] = u
      BY <1>7, <2>1, <3>1
    <3>5. turn'[u].preparing => u \notin Compatibility
      BY <1>5, <1>14, <3>1
    <3> QED
      BY <2>1, <3>2, <3>3, <3>4, <3>5 DEF TurnOK
  <2>5. CASE ~ started(u)
    <3>1. turn'[u] = turn[u]
      BY <1>4, <2>5
    <3>2. u \in Elems(queue[b]) => u \in Elems(queue'[b])
      <4>1. b \in Startable => u # first(b)
        BY <2>5 DEF started
      <4> QED
        BY <1>3, <1>6, <2>1, <4>1
    <3>3. active[b] = u => active'[b] = u
      <4>1. NoTurn \notin TurnIds
        BY TurnsAssumption
      <4> QED
        BY <1>3, <1>7, <2>1, <4>1
    <3>4. completed \subseteq completed' /\ batch' = batch
      BY <1>2, <1>8
    <3>5. u \in ActiveTurns' => turn'[u].state \notin {"absent", "queued"}
      <4>1. u \in ActiveTurns' => \E a \in Actors : active'[a] = u /\ active'[a] # NoTurn
        BY DEF ActiveTurns
      <4> QED
        BY <1>20, <4>1 DEF ActiveOK
    <3> QED
      BY <1>2, <2>1, <2>2, <2>3, <3>1, <3>2, <3>3, <3>4, <3>5 DEF TurnOK
  <2> QED
    BY <2>4, <2>5
<1> QED
  BY <1>2, <1>20, <1>21, <1>22 DEF Places

\* settleCompleted: the batch is taken from the completed and then settled.
LEMMA SettlingKeepsPlaces ==
    ASSUME TypeOK, Places, PumpSettle \/ PumpSettled
    PROVE  Places'
<1>1. UNCHANGED <<active, queue, execution, closing>> /\ Disposed' = Disposed /\ (todo' = {} \/ todo' = todo)
  BY EndSliceTypes DEF PumpSettle, PumpSettled, Disposed
<1>2. /\ \A u \in TurnIds : /\ turn'[u].state = turn[u].state
                            /\ turn'[u].preparing = turn[u].preparing
                            /\ turn'[u].promise = "pending" => turn[u].promise = "pending"
      /\ \A u \in TurnIds : turn'[u].promise = "pending" /\ u \in completed \cup batch => u \in completed' \cup batch'
  <2>1. CASE PumpSettle
    <3>1. batch = {} /\ UNCHANGED turn /\ batch' = completed
      BY <2>1 DEF PumpSettle, TypeOK
    <3> QED
      BY <3>1
  <2>2. CASE PumpSettled
    <3>1. PICK outcome \in {"resolved", "rejected"} : turn' = Settle(batch, outcome)
      BY <2>2 DEF PumpSettled
    <3>2. completed' = completed
      BY <2>2 DEF PumpSettled
    <3>3. \A u \in TurnIds : /\ turn'[u].state = turn[u].state
                             /\ turn'[u].preparing = turn[u].preparing
                             /\ turn'[u].promise = IF u \in batch /\ turn[u].promise = "pending"
                                                   THEN outcome ELSE turn[u].promise
      BY <3>1, SettleTypes DEF TypeOK
    <3> QED
      BY <3>2, <3>3
  <2> QED
    BY <2>1, <2>2
<1>4. ASSUME NEW a \in Actors PROVE ActiveOK(a)' /\ QueueOK(a)'
  <2>1. ActiveOK(a) /\ QueueOK(a) /\ active[a] \in TurnIds \cup {NoTurn} /\ Elems(queue[a]) \subseteq TurnIds
    BY DEF Places, TypeOK, Elems
  <2>2. ActiveOK(a)'
    BY <1>1, <1>2, <2>1 DEF ActiveOK
  <2>3. QueueOK(a)'
    BY <1>1, <1>2, <2>1 DEF QueueOK, Distinct, Elems
  <2> QED
    BY <2>2, <2>3
<1>5. ASSUME NEW u \in TurnIds PROVE TurnOK(u)'
  <2>1. TurnOK(u)
    BY DEF Places
  <2>2. Elems(queue[ActorOf[u]])' = Elems(queue[ActorOf[u]])
    BY <1>1 DEF Elems
  <2> QED
    BY <1>1, <1>2, <2>1, <2>2 DEF TurnOK
<1> QED
  BY <1>1, <1>4, <1>5 DEF Places

\* A slice that throws settles what is completed and what is active.
LEMMA FailureKeepsPlaces ==
    ASSUME TypeOK, Places, PumpFails
    PROVE  Places'
<1> DEFINE failed == {t \in ActiveTurns : Live(t)}
           ended == Settle(completed \cup failed, "rejected")
<1>1. turn' = [t \in TurnIds |-> IF t \in failed THEN [ended[t] EXCEPT !.state = "failed"] ELSE ended[t]]
  BY DEF PumpFails
<1>2. \A a \in Actors : active'[a] = IF active[a] \in failed THEN NoTurn ELSE active[a]
  BY DEF PumpFails
<1>3. UNCHANGED <<queue, batch, closing>> /\ todo' = {} /\ Disposed' = Disposed /\ batch = {}
  BY EndSliceTypes DEF PumpFails, Disposed, TypeOK
<1>4. \A a \in Actors : active[a] # NoTurn => active[a] \in failed
  BY DEF ActiveTurns, Live, Places, ActiveOK, Terminal
<1>5. \A u \in failed : u \in TurnIds /\ u \in ActiveTurns
  BY DEF ActiveTurns, TypeOK
<1>6. \A u \in TurnIds : /\ ended[u] \in TurnEntry /\ ended[u].state = turn[u].state
                         /\ ended[u].preparing = turn[u].preparing
                         /\ u \in completed \cup failed => ended[u].promise # "pending"
                         /\ ended[u].promise = "pending" => turn[u].promise = "pending"
  BY SettleTypes, SMTT(30) DEF TypeOK
<1> HIDE DEF ended, failed
<1>7. \A u \in TurnIds : /\ turn'[u].state = IF u \in failed THEN "failed" ELSE turn[u].state
                         /\ turn'[u].preparing = turn[u].preparing
                         /\ u \in completed \cup failed => turn'[u].promise # "pending"
                         /\ turn'[u].promise = "pending" => turn[u].promise = "pending"
  BY <1>1, <1>6 DEF TurnEntry
<1>8. ASSUME NEW a \in Actors PROVE ActiveOK(a)' /\ QueueOK(a)'
  <2>1. ActiveOK(a)'
    BY <1>2, <1>4 DEF ActiveOK
  <2>2. QueueOK(a) /\ Elems(queue[a]) \subseteq TurnIds
    BY DEF Places, TypeOK, Elems
  <2>3. \A u \in Elems(queue[a]) : u \notin failed
    BY <1>5, <2>2 DEF ActiveTurns, Places, ActiveOK, QueueOK
  <2>4. QueueOK(a)'
    BY <1>3, <1>7, <2>2, <2>3 DEF QueueOK, Distinct, Elems
  <2> QED
    BY <2>1, <2>4
<1>9. ASSUME NEW u \in TurnIds PROVE TurnOK(u)'
  <2>1. TurnOK(u)
    BY DEF Places
  <2>2. Elems(queue[ActorOf[u]])' = Elems(queue[ActorOf[u]])
    BY <1>3 DEF Elems
  <2>3. active[ActorOf[u]] = u => u \in failed
    BY <1>4, TurnsAssumption
  <2> QED
    BY <1>3, <1>7, <2>1, <2>2, <2>3 DEF TurnOK
<1>10. Disposed' => \A a \in Actors : active'[a] = NoTurn /\ queue'[a] = <<>>
  BY <1>2, <1>3 DEF Places
<1> QED
  BY <1>8, <1>9, <1>10 DEF Places

LEMMA DisposeKeepsPlaces ==
    ASSUME TypeOK, Places, Dispose
    PROVE  Places'
<1>1. /\ \A a \in Actors : active'[a] = NoTurn /\ queue'[a] = <<>>
      /\ Disposed' /\ todo' = todo
  BY DEF Dispose, Disposed
<1>2. \A u \in TurnIds : turn'[u].state = turn[u].state /\ turn'[u].preparing = turn[u].preparing
  <2> DEFINE resolved == Settle({t \in TurnIds : Live(t)}, "resolved")
  <2>1. turn' = [t \in TurnIds |-> IF Live(t) THEN [resolved[t] EXCEPT !.aborted = TRUE] ELSE turn[t]]
    BY DEF Dispose
  <2>2. \A u \in TurnIds : /\ resolved[u] \in TurnEntry /\ resolved[u].state = turn[u].state
                           /\ resolved[u].preparing = turn[u].preparing
    BY SettleTypes DEF TypeOK
  <2> HIDE DEF resolved
  <2> QED
    BY <2>1, <2>2 DEF TurnEntry
<1>3. ASSUME NEW a \in Actors PROVE ActiveOK(a)' /\ QueueOK(a)'
  <2>1. Len(<<>>) = 0
    BY EmptySeq
  <2> QED
    BY <1>1, <2>1 DEF ActiveOK, QueueOK, Distinct, Elems
<1>4. ASSUME NEW u \in TurnIds PROVE TurnOK(u)'
  BY <1>1, <1>2 DEF Places, TurnOK
<1> QED
  BY <1>1, <1>3, <1>4 DEF Places
------------------------------------------------------------------------------
(* Each kind of step leaves the pump on, or nothing for it to do.          *)

LEMMA ScheduledIsNoStall ==
    ASSUME SchedulePump, UNCHANGED closing
    PROVE  NoSilentStall'
  BY DEF SchedulePump, NoSilentStall, Disposed

LEMMA EndedIsNoStall ==
    ASSUME EndSlice, UNCHANGED closing
    PROVE  NoSilentStall'
  BY DEF EndSlice, NoSilentStall, Disposed

LEMMA StallFrame ==
    ASSUME TypeOK, NoSilentStall, UNCHANGED <<active, queue, completed, pump>>, ~ Disposed' => ~ Disposed,
           \A u \in TurnIds : turn'[u].state = turn[u].state
    PROVE  NoSilentStall'
<1>1. Startable' = Startable
  BY DEF Startable
<1>2. \A a \in Actors : active[a] \in TurnIds \cup {NoTurn}
  BY DEF TypeOK
<1>3. SomethingToPump' <=> SomethingToPump
  BY <1>1, <1>2 DEF SomethingToPump
<1> QED
  BY <1>3 DEF NoSilentStall

LEMMA TurnStepDoesNotStall ==
    ASSUME TypeOK, Places, NoSilentStall, NEW t \in TurnIds, TurnStep(t)
    PROVE  NoSilentStall'
<1>0. UNCHANGED closing
  BY TurnStepChanges
<1>1. CASE CancelTurn(t) \/ ShutdownCancel(t) \/ DeliveryFinished(t) \/ DeliveryRejected(t)
  BY <1>0, <1>1, ScheduledIsNoStall
     DEF CancelTurn, ShutdownCancel, Cancel, DeliveryFinished, DeliveryRejected
<1>2. CASE ResumeTurn(t)
  <2>1. CASE Resumable(t)
    BY <1>0, <1>2, <2>1, ScheduledIsNoStall DEF ResumeTurn
  <2>2. CASE ~ Resumable(t)
    BY <1>2, <2>2, StallFrame DEF ResumeTurn, Disposed
  <2> QED
    BY <2>1, <2>2
<1>3. CASE Expire(t)
  <2>1. \A u \in TurnIds : turn'[u].state = turn[u].state
    BY <1>3 DEF Expire, TypeOK, TurnEntry
  <2> QED
    BY <1>3, <2>1, StallFrame DEF Expire, Disposed
<1>4. CASE Decide(t)
  <2>1. pump' # "off"
    BY <1>4 DEF Decide, SkipUndelivered, InterruptOrphans, FinishFailed, FinishCancelled, FinishAtHuman,
         AwaitHuman, FinishSettled, TimeOut, StillRunning, Undecided, ExamineDelivered, Examine
  <2> QED
    BY <2>1 DEF NoSilentStall
<1> QED
  BY <1>1, <1>2, <1>3, <1>4 DEF TurnStep

LEMMA QuietDoesNotStall ==
    ASSUME TypeOK, NoSilentStall, QuietStep
    PROVE  NoSilentStall'
<1>1. UNCHANGED <<turn, active, queue, completed>> /\ (~ Disposed' => ~ Disposed)
  BY QuietFrame DEF Disposed
<1>2. pump' = pump \/ pump' # "off" \/ (EndSlice /\ UNCHANGED closing)
  BY DEF QuietStep, SubmitAnswer, AnswerLocally, FiberStartsOp, FiberOpReturns, FiberSettles, FiberAsks,
         FiberEnds, FiberStep, PumpDisposed, PumpInspect, PumpSealed, Shutdown, ShutdownDone
<1>3. CASE pump' = pump
  BY <1>1, <1>3, StallFrame
<1>4. CASE pump' # "off"
  BY <1>4 DEF NoSilentStall
<1> QED
  BY <1>2, <1>3, <1>4, EndedIsNoStall

LEMMA OtherDoesNotStall ==
    ASSUME TypeOK, NoSilentStall,
           \/ \E t \in TurnIds : Admit(t)
           \/ PumpBegin \/ PumpSettle \/ PumpSettled \/ PumpFails \/ Dispose
    PROVE  NoSilentStall'
<1>1. CASE \E t \in TurnIds : Admit(t)
  BY <1>1, ScheduledIsNoStall DEF Admit
<1>2. CASE PumpBegin
  BY <1>2 DEF PumpBegin, NoSilentStall
<1>3. CASE PumpSettle
  <2>1. EndSlice \/ pump' = "settling"
    BY <1>3 DEF PumpSettle
  <2> QED
    BY <1>3, <2>1, EndedIsNoStall DEF PumpSettle, NoSilentStall
<1>4. CASE PumpSettled \/ PumpFails
  BY <1>4, EndedIsNoStall DEF PumpSettled, PumpFails
<1>5. CASE Dispose
  BY <1>5 DEF Dispose, NoSilentStall, Disposed
<1> QED
  BY <1>1, <1>2, <1>3, <1>4, <1>5
------------------------------------------------------------------------------
\* The kinds of steps are all there are.
LEMMA NextSteps ==
    ASSUME Next
    PROVE  \/ \E t \in TurnIds : TurnStep(t)
           \/ QuietStep
           \/ \E t \in TurnIds : Admit(t)
           \/ PumpBegin \/ PumpSettle \/ PumpSettled \/ PumpFails \/ Dispose
<1>1. CASE \E t \in TurnIds : \/ Admit(t) \/ CancelTurn(t) \/ SubmitAnswer(t) \/ ResumeTurn(t)
                          \/ DeliveryFinished(t) \/ DeliveryRejected(t) \/ Expire(t)
                          \/ Decide(t) \/ ShutdownCancel(t)
  BY <1>1 DEF TurnStep, QuietStep
<1>2. CASE \E a \in Actors : \/ AnswerLocally(a) \/ FiberStartsOp(a) \/ FiberOpReturns(a)
                         \/ FiberSettles(a) \/ FiberAsks(a) \/ FiberEnds(a)
  BY <1>2 DEF QuietStep
<1> QED
  BY <1>1, <1>2 DEF Next, QuietStep

LEMMA InitInv == Init => IInv
<1> SUFFICES ASSUME Init PROVE IInv
  OBVIOUS
<1> USE DEF Init
<1>0. \A t \in TurnIds : turn[t] = NewEntry
  OBVIOUS
<1>1. TypeOK
  <2>1. NewEntry \in TurnEntry /\ ~ NewEntry.preparing
    BY DEF NewEntry, TurnEntry, TurnStates
  <2>2. fiber \in [Actors -> Fiber] /\ seen \in [Actors -> Fiber]
    BY DEF AllCalm, Calm, Fiber
  <2>3. execution \in [Actors -> Execution]
    BY DEF Execution
  <2>4. queue \in [Actors -> Seq(TurnIds)]
    BY EmptySeq
  <2> QED
    BY <1>0, <2>1, <2>2, <2>3, <2>4 DEF TypeOK, PumpStates
<1>2. Places
  <2>1. \A t \in TurnIds : turn[t].state = "absent" /\ ~ turn[t].preparing
    BY <1>0 DEF NewEntry
  <2>2. Len(<<>>) = 0
    BY EmptySeq
  <2>3. ASSUME NEW a \in Actors PROVE ActiveOK(a) /\ QueueOK(a)
    BY <2>2 DEF ActiveOK, QueueOK, Distinct, Elems
  <2>4. ASSUME NEW t \in TurnIds PROVE TurnOK(t)
    BY <2>1 DEF TurnOK
  <2> QED
    BY <2>3, <2>4 DEF Places
<1>3. NoSilentStall
  BY DEF NoSilentStall, SomethingToPump, Startable
<1> QED
  BY <1>1, <1>2, <1>3 DEF IInv

LEMMA StutterInv == IInv /\ UNCHANGED vars => IInv'
<1> SUFFICES ASSUME IInv, UNCHANGED vars PROVE IInv'
  OBVIOUS
<1> USE DEF vars
<1>1. TypeOK'
  BY DEF IInv, TypeOK
<1>2. Places'
  BY DEF IInv, Places, ActiveOK, QueueOK, TurnOK, Distinct, Elems, Disposed
<1>3. NoSilentStall'
  BY StallFrame DEF IInv, Disposed
<1> QED
  BY <1>1, <1>2, <1>3 DEF IInv

LEMMA Inductive == IInv /\ [Next]_vars => IInv'
<1> SUFFICES ASSUME IInv, [Next]_vars PROVE IInv'
  OBVIOUS
<1>0. TypeOK /\ Places /\ NoSilentStall
  BY DEF IInv
<1>1. CASE Next
  <2>1. CASE \E t \in TurnIds : TurnStep(t)
    BY <1>0, <2>1, TurnStepTypes, TurnStepKeepsPlaces, TurnStepDoesNotStall DEF IInv
  <2>2. CASE QuietStep
    BY <1>0, <2>2, QuietTypes, QuietKeepsPlaces, QuietDoesNotStall DEF IInv
  <2>3. CASE \/ \E t \in TurnIds : Admit(t)
             \/ PumpBegin \/ PumpSettle \/ PumpSettled \/ PumpFails \/ Dispose
    <3>1. TypeOK' /\ NoSilentStall'
      BY <1>0, <2>3, OtherTypes, OtherDoesNotStall
    <3>2. Places'
      BY <1>0, <2>3, AdmitKeepsPlaces, BeginKeepsPlaces, SettlingKeepsPlaces, FailureKeepsPlaces, DisposeKeepsPlaces
    <3> QED
      BY <3>1, <3>2 DEF IInv
  <2> QED
    BY <1>1, <2>1, <2>2, <2>3, NextSteps
<1>2. CASE UNCHANGED vars
  BY <1>2, StutterInv
<1> QED
  BY <1>1, <1>2

LEMMA Invariance == Spec => []IInv
  BY InitInv, Inductive, PTL DEF Spec

\* The coordinator's entries, queues and fibers stay well formed: a turn is in
\* delivery or delivered, not both, and the loop and the batch of a slice exist
\* only while that slice runs.
THEOREM TypeCorrect == Spec => []TypeOK
<1>1. IInv => TypeOK
  BY DEF IInv
<1> QED
  BY <1>1, Invariance, PTL

\* The pump is never off with a running active turn, a startable queue or an
\* unsettled completion: every request, delivery and slice that makes work
\* for the pump schedules it, for any number of actors and turns.
THEOREM PumpNeverStalls == Spec => []NoSilentStall
<1>1. IInv => NoSilentStall
  BY DEF IInv
<1> QED
  BY <1>1, Invariance, PTL

\* emitFiberSignal drops no signal to an active turn: startQueued never leaves
\* it with the execution record that an interrupted turn left behind.
THEOREM SignalsReachTheTurn == Spec => []ActiveTurnIsReachable
<1>1. IInv => ActiveTurnIsReachable
  BY DEF IInv, Places, ActiveOK, ActiveTurnIsReachable
<1> QED
  BY <1>1, Invariance, PTL

\* A turn whose promise is pending is in its actor's queue, active, or among the
\* turns that settleCompleted will settle; the queues hold each turn once.
THEOREM NoTurnIsLost == Spec => []NoLostTurn
<1>1. ASSUME IInv PROVE NoLostTurn
  <2>0. TypeOK /\ Places
    BY <1>1 DEF IInv
  <2>1. ASSUME ~ Disposed, NEW t \in TurnIds, turn[t].state # "absent", turn[t].promise = "pending"
        PROVE  \/ turn[t].state = "queued" /\ \E i \in 1..Len(queue[ActorOf[t]]) : QueuedAt(t, i)
               \/ active[ActorOf[t]] = t
               \/ t \in completed \cup batch
    <3>1. TurnOK(t)
      BY <2>0 DEF Places
    <3>2. t \in Elems(queue[ActorOf[t]]) => \E i \in 1..Len(queue[ActorOf[t]]) : QueuedAt(t, i)
      BY DEF Elems, QueuedAt
    <3> QED
      BY <2>1, <3>1, <3>2 DEF TurnOK
  <2>2. ASSUME NEW a \in Actors
        PROVE  /\ active[a] # NoTurn =>
                    ActorOf[active[a]] = a /\ turn[active[a]].state \in {"running", "waiting_input"}
               /\ \A i, j \in 1..Len(queue[a]) :
                    /\ turn[queue[a][i]].state = "queued"
                    /\ queue[a][i] = queue[a][j] => i = j
    BY <2>0 DEF Places, ActiveOK, QueueOK, Distinct, Elems
  <2> QED
    BY <2>1, <2>2 DEF NoLostTurn
<1> QED
  BY <1>1, Invariance, PTL
------------------------------------------------------------------------------
(***************************************************************************)
(* A session with one actor.  With several, the seal of one actor's wait   *)
(* is an await in the middle of the loop: the slice goes on with fibers it *)
(* read before, and publishes for a turn that was delivered, answered or   *)
(* finished meanwhile.  The model checker has such behaviours against      *)
(* TerminalIsFinal, SucceededMeansSettled and NoForgottenAnswer.  With one *)
(* actor the seal is the last thing the loop does, and they hold.          *)
(***************************************************************************)
SingleActor == \A a, b \in Actors : a = b

\* Nothing is left to examine after a seal, what is examined is active and its
\* fibers are as they were read, and what runs is active.
SoloInv ==
    /\ stopping # {} => pump # "deciding"
    /\ pump = "sealing" => todo = {}
    /\ pump = "deciding" /\ todo # {} => seen = fiber /\ todo \subseteq ActiveTurns
    /\ ~ Disposed => \A t \in TurnIds :
          /\ turn[t].state \in {"running", "waiting_input"} => active[ActorOf[t]] = t
          /\ turn[t].promise # "pending" \/ t \in completed \cup batch => turn[t].state \in Terminal

\* Finished turns stay finished in a step.
KeepsFinished == \A u \in TurnIds : turn[u].state \in Terminal => turn'[u].state = turn[u].state

\* finishTurn changes no entry that is terminal already.
LEMMA FinishKeepsFinished ==
    ASSUME TypeOK, NEW t \in TurnIds, NEW e \in TurnEntry, NEW s \in Terminal, NEW r,
           e.state = turn[t].state, FinishTurn(t, e, s, r)
    PROVE  /\ KeepsFinished
           /\ \A u \in TurnIds : u # t => turn'[u] = turn[u]
           /\ turn[t].state \notin Terminal => turn'[t].state = s
           /\ turn'[t].preparing = e.preparing
<1>1. CASE e.state \in Terminal
  BY <1>1 DEF FinishTurn, KeepsFinished, TypeOK
<1>2. CASE e.state \notin Terminal
  <2> DEFINE d == [e EXCEPT !.state = s]
  <2>1. turn' = [turn EXCEPT ![t] = d]
    BY <1>2 DEF FinishTurn
  <2>2. d.state = s /\ d.preparing = e.preparing
    BY DEF TurnEntry
  <2> HIDE DEF d
  <2> QED
    BY <1>2, <2>1, <2>2 DEF KeepsFinished, TypeOK
<1> QED
  BY <1>1, <1>2

\* The slice of a single actor examines its active turn, on the fibers as they are.
LEMMA SoloExamine ==
    ASSUME SingleActor, TypeOK, Places, SoloInv, NEW t \in TurnIds, Examine(t)
    PROVE  /\ t \in ActiveTurns /\ active[ActorOf[t]] = t /\ turn[t].state \in {"running", "waiting_input"}
           /\ todo' = {} /\ seen = fiber /\ ~ Disposed
<1>1. pump = "deciding" /\ t \in todo /\ todo' = todo \ {t}
  BY DEF Examine
<1>2. seen = fiber /\ todo \subseteq ActiveTurns
  BY <1>1 DEF SoloInv
<1>3. PICK a \in Actors : active[a] = t /\ active[a] # NoTurn
  BY <1>1, <1>2 DEF ActiveTurns
<1>4. ActorOf[t] = a /\ turn[t].state \in {"running", "waiting_input"} /\ ~ Disposed
  BY <1>3 DEF Places, ActiveOK
<1>5. \A u \in ActiveTurns : u = t
  BY <1>3 DEF SingleActor, ActiveTurns
<1> QED
  BY <1>1, <1>2, <1>3, <1>4, <1>5

LEMMA DecideExamines ==
    ASSUME NEW t \in TurnIds, Decide(t)
    PROVE  Examine(t)
  BY DEF Decide, SkipUndelivered, InterruptOrphans, FinishFailed, FinishCancelled, FinishAtHuman,
         AwaitHuman, FinishSettled, TimeOut, StillRunning, Undecided, ExamineDelivered

\* publishTurn has no terminal guard; with one actor it is never called for a
\* finished turn.
LEMMA SoloTurnStepKeepsFinished ==
    ASSUME SingleActor, TypeOK, Places, SoloInv, NEW t \in TurnIds, TurnStep(t)
    PROVE  KeepsFinished /\ \A u \in TurnIds : u # t => turn'[u] = turn[u]
<1>0. turn[t] \in TurnEntry /\ turn \in [TurnIds -> TurnEntry]
  BY DEF TypeOK
<1>1. CASE FinishedTurn(t)
  <2>1. PICK e \in TurnEntry, s \in Terminal,
             r \in {"settled", "cancelled", "failed", "timeout_unsettled", "blocked_on_human"} :
            FinishTurn(t, e, s, r) /\ e.state = turn[t].state
    BY <1>1 DEF FinishedTurn
  <2> QED
    BY <2>1, FinishKeepsFinished
<1>2. CASE PatchedTurn(t)
  <2>1. PICK e \in TurnEntry : turn' = [turn EXCEPT ![t] = e]
    BY <1>2 DEF PatchedTurn
  <2>2. \A u \in TurnIds : turn'[u] = IF u = t THEN e ELSE turn[u]
    BY <1>0, <2>1
  <2>3. turn[t].state \in Terminal => turn'[t].state = turn[t].state
    <3> SUFFICES ASSUME turn[t].state \in Terminal PROVE turn'[t].state = turn[t].state
      OBVIOUS
    <3>1. CASE CancelTurn(t) \/ ShutdownCancel(t)
      <4>1. ~ CancelQueued(t) /\ ~ CancelSettled(t) /\ ~ CancelRunning(t)
        BY DEF CancelQueued, CancelSettled, DoneUnnoticed, CancelRunning, Stoppable, Terminal
      <4> QED
        BY <3>1, <4>1 DEF CancelTurn, ShutdownCancel, Cancel
    <3>2. CASE ResumeTurn(t)
      <4>1. ~ Resumable(t)
        BY DEF Resumable, Terminal
      <4> QED
        BY <3>2, <4>1 DEF ResumeTurn
    <3>3. CASE DeliveryFinished(t) \/ DeliveryRejected(t)
      <4> DEFINE d == Prepared(turn[t])
      <4>1. d \in TurnEntry /\ d.state = turn[t].state
        BY <1>0 DEF Prepared, TurnEntry
      <4>2. \/ \E s \in Terminal, r \in {"cancelled", "failed", "timeout_unsettled"} : FinishTurn(t, d, s, r)
            \/ turn' = [turn EXCEPT ![t] = [d EXCEPT !.delivered = TRUE]]
        BY <3>3 DEF DeliveryFinished, DeliveryRejected, Terminal
      <4>3. [d EXCEPT !.delivered = TRUE].state = d.state
        BY <4>1 DEF TurnEntry
      <4> HIDE DEF d
      <4> QED
        BY <1>0, <4>1, <4>2, <4>3, FinishKeepsFinished DEF KeepsFinished
    <3>4. CASE Expire(t)
      BY <3>4 DEF Expire, Terminal
    <3>5. CASE Decide(t)
      <4>1. turn[t].state \in {"running", "waiting_input"}
        BY <3>5, DecideExamines, SoloExamine
      <4> QED
        BY <4>1 DEF Terminal
    <3> QED
      BY <3>1, <3>2, <3>3, <3>4, <3>5 DEF TurnStep
  <2> QED
    BY <2>2, <2>3 DEF KeepsFinished
<1> QED
  BY <1>1, <1>2, TurnStepChanges

LEMMA OtherKeepsFinished ==
    ASSUME TypeOK, Places,
           \/ QuietStep \/ UNCHANGED vars
           \/ \E t \in TurnIds : Admit(t)
           \/ PumpBegin \/ PumpSettle \/ PumpSettled \/ PumpFails \/ Dispose
    PROVE  KeepsFinished
<1>0. turn \in [TurnIds -> TurnEntry]
  BY DEF TypeOK
<1>1. CASE QuietStep \/ UNCHANGED vars
  BY <1>1, QuietFrame DEF KeepsFinished, vars
<1>2. ASSUME NEW t \in TurnIds, Admit(t) PROVE KeepsFinished
  BY <1>0, <1>2 DEF Admit, KeepsFinished, Terminal
<1>3. CASE PumpBegin
  <2>1. \A u \in TurnIds : ActorOf[u] \in Startable /\ u = Head(queue[ActorOf[u]]) => turn[u].state = "queued"
    BY TailOfQueue DEF Startable, Places, QueueOK, TypeOK
  <2>2. \A u \in TurnIds : ~ (ActorOf[u] \in Startable /\ u = Head(queue[ActorOf[u]])) => turn'[u] = turn[u]
    BY <1>3, ZenonT(60) DEF PumpBegin, StartQueued
  <2> QED
    BY <2>1, <2>2 DEF KeepsFinished, Terminal
<1>4. CASE PumpSettle \/ PumpSettled
  BY <1>0, <1>4, SettleTypes DEF PumpSettle, PumpSettled, KeepsFinished
<1>5. CASE PumpFails
  <2> DEFINE failed == {t \in ActiveTurns : Live(t)}
             ended == Settle(completed \cup failed, "rejected")
  <2>1. turn' = [t \in TurnIds |-> IF t \in failed THEN [ended[t] EXCEPT !.state = "failed"] ELSE ended[t]]
    BY <1>5 DEF PumpFails
  <2>2. \A u \in TurnIds : ended[u].state = turn[u].state
    BY <1>0, SettleTypes
  <2>3. \A u \in failed : turn[u].state \notin Terminal
    BY DEF Live
  <2> HIDE DEF failed, ended
  <2> QED
    BY <2>1, <2>2, <2>3 DEF KeepsFinished
<1>6. CASE Dispose
  <2> DEFINE resolved == Settle({t \in TurnIds : Live(t)}, "resolved")
  <2>1. turn' = [t \in TurnIds |-> IF Live(t) THEN [resolved[t] EXCEPT !.aborted = TRUE] ELSE turn[t]]
    BY <1>6 DEF Dispose
  <2> HIDE DEF resolved
  <2> QED
    BY <2>1 DEF KeepsFinished, Live
<1> QED
  BY <1>1, <1>2, <1>3, <1>4, <1>5, <1>6

\* SoloInv in two parts, for the steps that change them.
SoloTurn(t) ==
    ~ Disposed =>
        /\ turn[t].state \in {"running", "waiting_input"} => active[ActorOf[t]] = t
        /\ turn[t].promise # "pending" \/ t \in completed \cup batch => turn[t].state \in Terminal

SoloPump ==
    /\ stopping # {} => pump # "deciding"
    /\ pump = "sealing" => todo = {}
    /\ pump = "deciding" /\ todo # {} => seen = fiber /\ todo \subseteq ActiveTurns

LEMMA SoloParts == SoloInv <=> SoloPump /\ \A t \in TurnIds : SoloTurn(t)
  BY DEF SoloInv, SoloPump, SoloTurn

LEMMA SoloPumpStep ==
    ASSUME SingleActor, TypeOK, Places, SoloInv, Next
    PROVE  SoloPump'
<1>0. SoloPump
  BY SoloParts
<1>1. ASSUME NEW t \in TurnIds, Decide(t) PROVE SoloPump'
  <2>1. pump = "deciding" /\ UNCHANGED stopping /\ todo' = {}
    BY <1>1, DecideExamines, SoloExamine DEF Examine
  <2> QED
    BY <1>0, <2>1 DEF SoloPump
<1>2. ASSUME NEW t \in TurnIds,
             CancelTurn(t) \/ ResumeTurn(t) \/ DeliveryFinished(t) \/ DeliveryRejected(t) \/ Admit(t)
                \/ Expire(t) \/ SubmitAnswer(t)
      PROVE  SoloPump'
  <2>1. pump # "deciding" /\ UNCHANGED <<todo, stopping>> /\ (pump' = pump \/ pump' = "scheduled")
    BY <1>2 DEF CancelTurn, Cancel, ResumeTurn, DeliveryFinished, DeliveryRejected, Admit, Expire, SubmitAnswer,
           Uninterrupted, SchedulePump
  <2> QED
    BY <1>0, <2>1 DEF SoloPump
<1>3. ASSUME NEW t \in TurnIds, ShutdownCancel(t) PROVE SoloPump'
  <2>1. pump # "deciding" /\ UNCHANGED todo /\ (pump' = pump \/ pump' = "scheduled")
    BY <1>0, <1>3 DEF SoloPump, ShutdownCancel, Cancel, SchedulePump
  <2> QED
    BY <1>0, <2>1 DEF SoloPump
<1>4. ASSUME NEW a \in Actors, AnswerLocally(a) \/ FiberStartsOp(a) \/ FiberOpReturns(a)
                         \/ FiberSettles(a) \/ FiberAsks(a) \/ FiberEnds(a)
      PROVE SoloPump'
  <2>1. pump # "deciding" /\ UNCHANGED <<pump, todo, stopping>>
    BY <1>4 DEF AnswerLocally, FiberStartsOp, FiberOpReturns, FiberSettles, FiberAsks, FiberEnds, FiberStep,
           Uninterrupted
  <2> QED
    BY <1>0, <2>1 DEF SoloPump
<1>5. CASE PumpBegin
  BY <1>5 DEF PumpBegin, SoloPump
<1>6. CASE PumpInspect
  <2>1. ActiveTurns' = ActiveTurns
    BY <1>6 DEF PumpInspect, ActiveTurns
  <2> QED
    BY <1>6, <2>1 DEF PumpInspect, SoloPump
<1>7. CASE PumpSealed
  BY <1>0, <1>7 DEF PumpSealed, SoloPump
<1>8. CASE PumpSettle
  <2>1. todo = {} /\ (pump' = "settling" \/ pump' \in {"scheduled", "off"})
    BY <1>8, EndSliceTypes DEF PumpSettle
  <2> QED
    BY <2>1 DEF SoloPump
<1>9. CASE PumpDisposed \/ PumpSettled \/ PumpFails
  BY <1>9, EndSliceTypes DEF PumpDisposed, PumpSettled, PumpFails, SoloPump
<1>10. CASE Shutdown \/ ShutdownDone \/ Dispose
  <2>1. UNCHANGED <<pump, todo, seen>> /\ pump # "deciding"
    BY <1>10 DEF Shutdown, ShutdownDone, Dispose, Uninterrupted
  <2> QED
    BY <1>0, <2>1 DEF SoloPump
<1> QED
  BY <1>1, <1>2, <1>3, <1>4, <1>5, <1>6, <1>7, <1>8, <1>9, <1>10 DEF Next

LEMMA SoloTurnStep ==
    ASSUME SingleActor, TypeOK, Places, SoloInv, NEW t \in TurnIds, TurnStep(t), NEW u \in TurnIds
    PROVE  SoloTurn(u)'
<1>0. SoloTurn(u) /\ KeepsFinished /\ (u # t => turn'[u] = turn[u]) /\ ActorOf[u] \in Actors /\ ActorOf[t] \in Actors
  BY SoloParts, SoloTurnStepKeepsFinished, TurnsAssumption
<1>1. UNCHANGED <<batch, closing>> /\ Disposed' = Disposed
  BY TurnStepChanges DEF Disposed
<1>2. turn \in [TurnIds -> TurnEntry] /\ active \in [Actors -> TurnIds \cup {NoTurn}]
  BY DEF TypeOK
<1>3. CASE PatchedTurn(t)
  <2>1. PICK e \in TurnEntry :
            /\ turn' = [turn EXCEPT ![t] = e]
            /\ e.promise = turn[t].promise
            /\ e.state # turn[t].state => turn[t].state \notin {"absent", "queued"}
            /\ UNCHANGED <<active, completed>>
    BY <1>3 DEF PatchedTurn
  <2>2. CASE u # t
    BY <1>0, <1>1, <2>1, <2>2 DEF SoloTurn
  <2>3. CASE u = t
    <3>1. turn'[u] = e
      BY <1>2, <2>1, <2>3
    <3>2. turn'[u].state \in {"running", "waiting_input"} => turn[u].state \in {"running", "waiting_input"}
      <4>1. turn[u].state \in TurnStates
        BY <1>2 DEF TurnEntry
      <4> QED
        BY <1>0, <2>1, <2>3, <3>1, <4>1 DEF KeepsFinished, TurnStates, Terminal
    <3> QED
      BY <1>0, <1>1, <2>1, <2>3, <3>1, <3>2 DEF SoloTurn, KeepsFinished
  <2> QED
    BY <2>2, <2>3
<1>4. CASE FinishedTurn(t)
  <2>1. PICK e \in TurnEntry, s \in Terminal,
             r \in {"settled", "cancelled", "failed", "timeout_unsettled", "blocked_on_human"} :
            FinishTurn(t, e, s, r) /\ e.state = turn[t].state /\ e.promise = turn[t].promise
    BY <1>4 DEF FinishedTurn
  <2>2. turn'[t].state \in Terminal
    BY <2>1, FinishKeepsFinished DEF KeepsFinished
  <2>3. CASE u = t
    BY <2>2, <2>3 DEF SoloTurn, Terminal
  <2>4. CASE u # t
    <3>1. completed' \subseteq completed \cup {t} /\ (active[ActorOf[u]] = u => active'[ActorOf[u]] = u)
      BY <1>0, <1>2, <2>1, <2>4 DEF FinishTurn
    <3> QED
      BY <1>0, <1>1, <2>4, <3>1 DEF SoloTurn
  <2> QED
    BY <2>3, <2>4
<1> QED
  BY <1>3, <1>4, TurnStepChanges

LEMMA SoloOtherStep ==
    ASSUME TypeOK, Places, SoloInv, NEW u \in TurnIds,
           \/ QuietStep
           \/ \E t \in TurnIds : Admit(t)
           \/ PumpBegin \/ PumpSettle \/ PumpSettled \/ PumpFails \/ Dispose
    PROVE  SoloTurn(u)'
<1>0. SoloTurn(u) /\ KeepsFinished /\ ActorOf[u] \in Actors
  BY SoloParts, OtherKeepsFinished, TurnsAssumption
<1>1. turn \in [TurnIds -> TurnEntry] /\ active \in [Actors -> TurnIds \cup {NoTurn}]
  BY DEF TypeOK
<1>2. CASE QuietStep
  BY <1>0, <1>2, QuietFrame DEF SoloTurn, Disposed
<1>3. ASSUME NEW t \in TurnIds, Admit(t) PROVE SoloTurn(u)'
  <2>1. ~ Disposed /\ turn[t].state = "absent" /\ UNCHANGED <<active, completed, batch, closing>>
    BY <1>3 DEF Admit, Disposed
  <2>2. CASE u = t
    <3>1. turn[t].promise = "pending" /\ t \notin completed \cup batch
      BY <1>0, <2>1, <2>2 DEF SoloTurn, Terminal
    <3>2. turn'[t].state = "queued" /\ turn'[t].promise = turn[t].promise
      BY <1>1, <1>3 DEF Admit, TurnEntry
    <3> QED
      BY <2>1, <2>2, <3>1, <3>2 DEF SoloTurn
  <2>3. CASE u # t
    <3>1. turn'[u] = turn[u]
      BY <1>1, <1>3, <2>3 DEF Admit
    <3> QED
      BY <1>0, <2>1, <3>1 DEF SoloTurn, Disposed
  <2> QED
    BY <2>2, <2>3
<1>4. CASE PumpBegin
  <2>1. PICK how \in [Startable -> {"promised", "returned", "thrown"}] : StartQueued(how)
    BY <1>4 DEF PumpBegin
  <2> DEFINE b == ActorOf[u]
             started == b \in Startable /\ u = Head(queue[b])
             thrown == {a \in Startable : how[a] = "thrown"}
  <2>2. ~ Disposed /\ UNCHANGED <<batch, closing>>
    BY <1>4 DEF PumpBegin
  <2>3. completed' = completed \cup {Head(queue[a]) : a \in thrown}
    BY <2>1 DEF StartQueued
  <2>4. \A a \in Startable : ActorOf[Head(queue[a])] = a /\ turn[Head(queue[a])].state = "queued"
    BY TailOfQueue DEF Startable, Places, QueueOK, TypeOK
  <2>5. \A a \in Actors : active'[a] = IF a \in Startable \ thrown THEN Head(queue[a]) ELSE active[a]
    BY <2>1 DEF StartQueued
  <2>6. CASE started
    <3>1. turn'[u] = [turn[u] EXCEPT !.state = IF how[b] = "thrown" THEN "failed" ELSE "running",
                                     !.preparing = how[b] = "promised", !.delivered = how[b] = "returned"]
      BY <2>1, <2>6 DEF StartQueued
    <3>2. /\ turn'[u].state = IF how[b] = "thrown" THEN "failed" ELSE "running"
          /\ turn'[u].promise = turn[u].promise
      BY <1>1, <3>1 DEF TurnEntry
    <3>3. turn[u].promise = "pending" /\ u \notin completed \cup batch
      BY <1>0, <2>2, <2>4, <2>6 DEF SoloTurn, Terminal
    <3>4. CASE how[b] = "thrown"
      BY <3>2, <3>4 DEF SoloTurn, Terminal
    <3>5. CASE how[b] # "thrown"
      <4>1. active'[b] = u
        BY <1>0, <2>5, <2>6, <3>5
      <4>2. u \notin completed'
        BY <2>3, <2>4, <3>3, <3>5
      <4> QED
        BY <2>2, <3>2, <3>3, <4>1, <4>2 DEF SoloTurn
    <3> QED
      BY <3>4, <3>5
  <2>7. CASE ~ started
    <3>1. turn'[u] = turn[u]
      BY <2>1, <2>7 DEF StartQueued
    <3>2. u \in completed' => u \in completed
      BY <2>3, <2>4, <2>7
    <3>3. active[b] = u => active'[b] = u
      BY <1>0, <2>5, TurnsAssumption DEF Startable
    <3> QED
      BY <1>0, <2>2, <3>1, <3>2, <3>3 DEF SoloTurn, Disposed
  <2> QED
    BY <2>6, <2>7
<1>5. CASE PumpSettle
  BY <1>0, <1>5 DEF PumpSettle, SoloTurn, Disposed
<1>6. CASE PumpSettled
  <2>1. PICK outcome \in {"resolved", "rejected"} : turn' = Settle(batch, outcome)
    BY <1>6 DEF PumpSettled
  <2>2. /\ turn'[u].state = turn[u].state
        /\ turn'[u].promise # "pending" => turn[u].promise # "pending" \/ u \in batch
    BY <1>1, <2>1, SettleTypes
  <2>3. UNCHANGED <<active, completed, closing>> /\ batch' = {}
    BY <1>6 DEF PumpSettled
  <2> QED
    BY <1>0, <2>2, <2>3 DEF SoloTurn, Disposed
<1>7. CASE PumpFails
  <2> DEFINE failed == {t \in ActiveTurns : Live(t)}
             ended == Settle(completed \cup failed, "rejected")
  <2>1. turn' = [t \in TurnIds |-> IF t \in failed THEN [ended[t] EXCEPT !.state = "failed"] ELSE ended[t]]
    BY <1>7 DEF PumpFails
  <2>2. /\ ended[u] \in TurnEntry /\ ended[u].state = turn[u].state
        /\ ended[u].promise # "pending" => turn[u].promise # "pending" \/ u \in completed \cup failed
    BY <1>1, SettleTypes
  <2>3. active[ActorOf[u]] = u => u \in failed
    BY <1>0, TurnsAssumption DEF ActiveTurns, Live, Places, ActiveOK, Terminal
  <2>4. completed' = {} /\ UNCHANGED <<batch, closing>>
    BY <1>7 DEF PumpFails
  <2> HIDE DEF failed, ended
  <2>5. CASE u \in failed
    <3>1. turn'[u].state = "failed"
      BY <2>1, <2>2, <2>5 DEF TurnEntry
    <3> QED
      BY <3>1 DEF SoloTurn, Terminal
  <2>6. CASE u \notin failed
    <3>1. turn'[u] = ended[u]
      BY <2>1, <2>6
    <3> QED
      BY <1>0, <2>2, <2>3, <2>4, <2>6, <3>1 DEF SoloTurn, Disposed
  <2> QED
    BY <2>5, <2>6
<1>8. CASE Dispose
  BY <1>8 DEF Dispose, SoloTurn, Disposed
<1> QED
  BY <1>2, <1>3, <1>4, <1>5, <1>6, <1>7, <1>8

LEMMA SoloInitInv == Init => SoloInv
  BY DEF Init, SoloInv, NewEntry

LEMMA SoloInductive ==
    ASSUME SingleActor
    PROVE  IInv /\ SoloInv /\ [Next]_vars => SoloInv'
<1> SUFFICES ASSUME IInv, SoloInv, [Next]_vars PROVE SoloInv'
  OBVIOUS
<1>0. TypeOK /\ Places
  BY DEF IInv
<1>1. CASE Next
  <2>1. SoloPump'
    BY <1>0, <1>1, SoloPumpStep
  <2>2. ASSUME NEW u \in TurnIds PROVE SoloTurn(u)'
    BY <1>0, <1>1, NextSteps, SoloTurnStep, SoloOtherStep
  <2> QED
    BY <2>1, <2>2 DEF SoloInv, SoloPump, SoloTurn
<1>2. CASE UNCHANGED vars
  BY <1>2 DEF vars, SoloInv, Disposed, ActiveTurns
<1> QED
  BY <1>1, <1>2

\* A finished turn of a session with one actor is never taken back to running or
\* waiting_input, or to another outcome, by a late slice, answer or cancel.
THEOREM FinishedStaysFinished ==
    ASSUME SingleActor
    PROVE  Spec => TerminalIsFinal
<1>1. ASSUME IInv, SoloInv, [Next]_vars
      PROVE  [\A t \in TurnIds : turn[t].state \in Terminal => turn'[t].state = turn[t].state]_vars
  <2>1. KeepsFinished
    BY <1>1, NextSteps, SoloTurnStepKeepsFinished, OtherKeepsFinished DEF IInv
  <2> QED
    BY <2>1 DEF KeepsFinished
<1> QED
  BY <1>1, Invariance, SoloInitInv, SoloInductive, PTL DEF Spec, TerminalIsFinal
------------------------------------------------------------------------------
\* No turn becomes succeeded in a step, but for those in S.
NoSuccessBut(S) ==
    \A u \in TurnIds \ S : turn'[u].state = "succeeded" => turn[u].state = "succeeded"

LEMMA PatchIsNoSuccess ==
    ASSUME TypeOK, NEW t \in TurnIds, PatchedTurn(t)
    PROVE  NoSuccessBut({})
<1>1. PICK e \in TurnEntry : /\ turn' = [turn EXCEPT ![t] = e]
                             /\ e.state # turn[t].state => e.state \in {"running", "waiting_input"}
  BY DEF PatchedTurn
<1>2. \A u \in TurnIds : turn'[u] = IF u = t THEN e ELSE turn[u]
  BY <1>1 DEF TypeOK
<1> QED
  BY <1>1, <1>2 DEF NoSuccessBut

LEMMA OtherFinishIsNoSuccess ==
    ASSUME TypeOK, NEW t \in TurnIds, NEW e \in TurnEntry, NEW s \in Terminal \ {"succeeded"}, NEW r,
           e.state = turn[t].state, FinishTurn(t, e, s, r)
    PROVE  NoSuccessBut({})
  BY FinishKeepsFinished DEF NoSuccessBut, KeepsFinished

\* A turn becomes succeeded in a slice or a cancel that finds its scope settled,
\* or is a local turn that ends at a human wait.
LEMMA SoloSuccess ==
    ASSUME SingleActor, TypeOK, Places, SoloInv, NEW t \in TurnIds, TurnStep(t)
    PROVE  \/ NoSuccessBut({})
           \/ t \in Compatibility /\ NoSuccessBut({t})
           \/ /\ NoSuccessBut({t})
              /\ fiber[ActorOf[t]].work = "none" /\ fiber[ActorOf[t]].human = "none"
<1>0. /\ turn[t] \in TurnEntry /\ ActorOf[t] \in Actors /\ fiber[ActorOf[t]] \in Fiber
      /\ NoSuccessBut({t})
  BY TurnsAssumption, SoloTurnStepKeepsFinished DEF TypeOK, NoSuccessBut
<1>1. CASE CancelTurn(t) \/ ShutdownCancel(t)
  <2>1. CASE CancelSettled(t)
    <3>1. ScopeSettled(t, fiber) /\ ~ ScopeHuman(t, fiber)
      BY <2>1 DEF CancelSettled, DoneUnnoticed
    <3> QED
      BY <1>0, <3>1 DEF ScopeSettled, ScopeHuman, Fiber
  <2>2. CASE CancelQueued(t)
    BY <1>0, <2>2, OtherFinishIsNoSuccess DEF CancelQueued, Terminal
  <2>3. CASE CancelRunning(t)
    <3>1. CASE turn[t].cancelRequested
      BY <2>3, <3>1 DEF CancelRunning, NoSuccessBut
    <3>2. CASE ~ turn[t].cancelRequested
      <4> DEFINE e == [turn[t] EXCEPT !.cancelRequested = TRUE, !.state = "running"]
                 d == [e EXCEPT !.aborted = TRUE, !.signalled = @ \/ e.delivered]
      <4>1. turn' = [turn EXCEPT ![t] = d]
        BY <2>3, <3>2 DEF CancelRunning, InterruptTurn
      <4>2. d.state = "running"
        BY <1>0 DEF TurnEntry
      <4> HIDE DEF d
      <4> QED
        BY <4>1, <4>2 DEF NoSuccessBut, TypeOK
    <3> QED
      BY <3>1, <3>2
  <2> QED
    BY <1>1, <2>1, <2>2, <2>3 DEF CancelTurn, ShutdownCancel, Cancel
<1>2. CASE ResumeTurn(t)
  BY <1>2, ResumeChanges, PatchIsNoSuccess
<1>3. CASE DeliveryFinished(t) \/ DeliveryRejected(t)
  <2> DEFINE d == Prepared(turn[t])
  <2>1. d \in TurnEntry /\ d.state = turn[t].state
    BY <1>0 DEF Prepared, TurnEntry
  <2>2. \/ \E s \in Terminal \ {"succeeded"}, r \in {"cancelled", "failed", "timeout_unsettled"} : FinishTurn(t, d, s, r)
        \/ turn' = [turn EXCEPT ![t] = [d EXCEPT !.delivered = TRUE]]
    BY <1>3 DEF DeliveryFinished, DeliveryRejected, Terminal
  <2>3. [d EXCEPT !.delivered = TRUE].state = d.state
    BY <2>1 DEF TurnEntry
  <2> HIDE DEF d
  <2>4. CASE turn' = [turn EXCEPT ![t] = [d EXCEPT !.delivered = TRUE]]
    BY <2>1, <2>3, <2>4 DEF NoSuccessBut, TypeOK
  <2> QED
    BY <2>1, <2>2, <2>4, OtherFinishIsNoSuccess
<1>4. CASE Expire(t)
  BY <1>4, ExpireChanges, PatchIsNoSuccess
<1>5. CASE Decide(t)
  <2>0. seen = fiber
    BY <1>5, DecideExamines, SoloExamine
  <2>1. CASE FinishSettled(t)
    <3>1. ScopeSettled(t, seen) /\ ~ ScopeHuman(t, seen)
      BY <2>1 DEF FinishSettled, Undecided, WaitsForHuman, Settled
    <3> QED
      BY <1>0, <2>0, <3>1 DEF ScopeSettled, ScopeHuman, Fiber
  <2>2. CASE FinishAtHuman(t)
    BY <1>0, <2>2 DEF FinishAtHuman
  <2>3. CASE FinishFailed(t)
    <3>1. FinishTurn(t, turn[t], "cancelled", "cancelled") \/ FinishTurn(t, turn[t], "failed", "failed")
      BY <2>3 DEF FinishFailed
    <3> QED
      BY <1>0, <3>1, OtherFinishIsNoSuccess DEF Terminal
  <2>4. CASE FinishCancelled(t)
    <3>1. FinishTurn(t, turn[t], "interrupted", "timeout_unsettled") \/ FinishTurn(t, turn[t], "cancelled", "cancelled")
      BY <2>4 DEF FinishCancelled
    <3> QED
      BY <1>0, <3>1, OtherFinishIsNoSuccess DEF Terminal
  <2>5. CASE SkipUndelivered(t) \/ InterruptOrphans(t) \/ AwaitHuman(t) \/ StillRunning(t)
    <3>1. CASE SkipUndelivered(t)
      BY <3>1 DEF SkipUndelivered, NoSuccessBut, TypeOK, TurnEntry
    <3>2. CASE InterruptOrphans(t)
      BY <1>0, <3>2, InterruptPatches, PatchIsNoSuccess DEF InterruptOrphans, TypeOK
    <3>3. CASE AwaitHuman(t)
      BY <3>3 DEF AwaitHuman, NoSuccessBut, TypeOK, TurnEntry
    <3>4. CASE StillRunning(t)
      BY <3>4 DEF StillRunning, NoSuccessBut
    <3> QED
      BY <2>5, <3>1, <3>2, <3>3, <3>4
  <2>6. CASE TimeOut(t)
    <3>1. CASE t \in Compatibility
      BY <1>0, <3>1
    <3>2. CASE t \notin Compatibility
      <4> DEFINE e == [turn[t] EXCEPT !.timedOut = TRUE, !.cancelRequested = TRUE, !.state = "running"]
                 d == [e EXCEPT !.aborted = TRUE, !.signalled = @ \/ e.delivered]
      <4>1. turn' = [turn EXCEPT ![t] = d]
        BY <2>6, <3>2 DEF TimeOut, InterruptTurn
      <4>2. d.state = "running"
        BY <1>0 DEF TurnEntry
      <4> HIDE DEF d
      <4> QED
        BY <4>1, <4>2 DEF NoSuccessBut, TypeOK
    <3> QED
      BY <3>1, <3>2
  <2> QED
    BY <1>5, <2>1, <2>2, <2>3, <2>4, <2>5, <2>6 DEF Decide
<1> QED
  BY <1>1, <1>2, <1>3, <1>4, <1>5 DEF TurnStep

LEMMA OtherIsNoSuccess ==
    ASSUME TypeOK,
           \/ QuietStep \/ UNCHANGED vars
           \/ \E t \in TurnIds : Admit(t)
           \/ PumpBegin \/ PumpSettle \/ PumpSettled \/ PumpFails \/ Dispose
    PROVE  NoSuccessBut({})
<1>0. turn \in [TurnIds -> TurnEntry]
  BY DEF TypeOK
<1>1. CASE QuietStep \/ UNCHANGED vars
  BY <1>1, QuietFrame DEF NoSuccessBut, vars
<1>2. ASSUME NEW t \in TurnIds, Admit(t) PROVE NoSuccessBut({})
  BY <1>0, <1>2 DEF Admit, NoSuccessBut, TurnEntry
<1>3. CASE PumpBegin
  <2>1. PICK how \in [Startable -> {"promised", "returned", "thrown"}] : StartQueued(how)
    BY <1>3 DEF PumpBegin
  <2> DEFINE e(u) == [turn[u] EXCEPT !.state = IF how[ActorOf[u]] = "thrown" THEN "failed" ELSE "running",
                                   !.preparing = how[ActorOf[u]] = "promised",
                                   !.delivered = how[ActorOf[u]] = "returned"]
  <2>2. \A u \in TurnIds : turn'[u] = turn[u] \/ turn'[u] = e(u)
    BY <2>1 DEF StartQueued
  <2>3. \A u \in TurnIds : e(u).state # "succeeded"
    BY <1>0 DEF TurnEntry
  <2> HIDE DEF e
  <2> QED
    BY <2>2, <2>3 DEF NoSuccessBut
<1>4. CASE PumpSettle \/ PumpSettled
  BY <1>0, <1>4, SettleTypes DEF PumpSettle, PumpSettled, NoSuccessBut
<1>5. CASE PumpFails
  <2> DEFINE failed == {t \in ActiveTurns : Live(t)}
             ended == Settle(completed \cup failed, "rejected")
  <2>1. turn' = [t \in TurnIds |-> IF t \in failed THEN [ended[t] EXCEPT !.state = "failed"] ELSE ended[t]]
    BY <1>5 DEF PumpFails
  <2>2. \A u \in TurnIds : ended[u] \in TurnEntry /\ ended[u].state = turn[u].state
    BY <1>0, SettleTypes
  <2> HIDE DEF failed, ended
  <2> QED
    BY <2>1, <2>2 DEF NoSuccessBut, TurnEntry
<1>6. CASE Dispose
  <2> DEFINE resolved == Settle({t \in TurnIds : Live(t)}, "resolved")
  <2>1. turn' = [t \in TurnIds |-> IF Live(t) THEN [resolved[t] EXCEPT !.aborted = TRUE] ELSE turn[t]]
    BY <1>6 DEF Dispose
  <2>2. \A u \in TurnIds : resolved[u] \in TurnEntry /\ resolved[u].state = turn[u].state
    BY <1>0, SettleTypes
  <2> HIDE DEF resolved
  <2> QED
    BY <2>1, <2>2 DEF NoSuccessBut, TurnEntry
<1> QED
  BY <1>1, <1>2, <1>3, <1>4, <1>5, <1>6

\* In a session with one actor a host's turn is reported as succeeded only when
\* readScope found its fibers at rest and they still are, with no question open.
THEOREM SuccessIsSettled ==
    ASSUME SingleActor
    PROVE  Spec => SucceededMeansSettled
<1>1. ASSUME IInv, SoloInv, [Next]_vars
      PROVE  [\A t \in TurnIds \ Compatibility :
                  turn[t].state # "succeeded" /\ turn'[t].state = "succeeded" =>
                      fiber[ActorOf[t]].work = "none" /\ fiber[ActorOf[t]].human = "none"]_vars
  <2>0. TypeOK /\ Places
    BY <1>1 DEF IInv
  <2>1. ASSUME NEW t \in TurnIds, TurnStep(t), NEW u \in TurnIds \ Compatibility,
               turn[u].state # "succeeded", turn'[u].state = "succeeded"
        PROVE  fiber[ActorOf[u]].work = "none" /\ fiber[ActorOf[u]].human = "none"
    <3>1. CASE u = t
      BY <1>1, <2>0, <2>1, <3>1, SoloSuccess DEF NoSuccessBut
    <3>2. CASE u # t
      BY <1>1, <2>0, <2>1, <3>2, SoloSuccess DEF NoSuccessBut
    <3> QED
      BY <3>1, <3>2
  <2>2. (\E t \in TurnIds : TurnStep(t)) \/ NoSuccessBut({})
    BY <1>1, <2>0, NextSteps, OtherIsNoSuccess
  <2> QED
    BY <2>1, <2>2 DEF NoSuccessBut
<1> QED
  BY <1>1, Invariance, SoloInitInv, SoloInductive, PTL DEF Spec, SucceededMeansSettled
------------------------------------------------------------------------------
(***************************************************************************)
(* What an answer needs.  A turn in delivery is active and waits for no    *)
(* one, and no slice is ticking or sealing with it active.                 *)
(***************************************************************************)
PreparingOK(t) ==
    turn[t].preparing =>
        /\ turn[t].state # "waiting_input"
        /\ Disposed \/ active[ActorOf[t]] = t
        /\ active[ActorOf[t]] = t => pump \notin {"ticking", "sealing"}

\* A shutdown awaits every turn that is not finished.
LiveOK(t) == Live(t) => closing # "closed" /\ (closing = "open" \/ t \in awaited)

\* A turn that waits for input is a host's, and its question is open or answered.
WaitingOK(t) ==
    ~ Disposed /\ turn[t].state = "waiting_input" =>
        t \notin Compatibility /\ (t \in answering \/ fiber[ActorOf[t]].human # "none")

\* The fiber that asks is the root: it cannot end with its question open.
AskedOK(a) == fiber[a].human # "none" => fiber[a].root = "live" /\ fiber[a].human # "child"

AskInv ==
    /\ \A t \in TurnIds : PreparingOK(t) /\ LiveOK(t) /\ WaitingOK(t)
    /\ \A a \in Actors : AskedOK(a)

\* With a single actor at most one turn is active.
LEMMA OneActive ==
    ASSUME SingleActor, NEW t \in TurnIds, NEW u \in TurnIds, active[ActorOf[t]] = t, active[ActorOf[u]] = u
    PROVE  t = u
  BY TurnsAssumption DEF SingleActor

\* The seal starts at the human wait of a turn.
LEMMA SealingStep ==
    ASSUME NEW t \in TurnIds, TurnStep(t), pump' \in {"ticking", "sealing"}, pump \notin {"ticking", "sealing"}
    PROVE  AwaitHuman(t)
<1>1. CASE Decide(t)
  BY <1>1 DEF Decide, SkipUndelivered, InterruptOrphans, FinishFailed, FinishCancelled, FinishAtHuman,
         FinishSettled, TimeOut, StillRunning
<1>2. CASE ~ Decide(t)
  BY <1>2 DEF TurnStep, CancelTurn, ShutdownCancel, Cancel, ResumeTurn, DeliveryFinished, DeliveryRejected,
         Expire, SchedulePump
<1> QED
  BY <1>1, <1>2

LEMMA SoloPreparingTurn ==
    ASSUME SingleActor, TypeOK, Places, SoloInv, NEW t \in TurnIds, TurnStep(t), NEW u \in TurnIds, PreparingOK(u)
    PROVE  PreparingOK(u)'
<1>0. turn \in [TurnIds -> TurnEntry] /\ active \in [Actors -> TurnIds \cup {NoTurn}] /\ ActorOf[u] \in Actors
      /\ NoTurn \notin TurnIds /\ ActorOf[t] \in Actors
  BY TurnsAssumption DEF TypeOK
<1>1. Disposed' = Disposed
  BY TurnStepChanges DEF Disposed
<1>2. /\ turn'[u].preparing => turn[u].preparing
      /\ turn'[u].preparing => turn'[u].state = turn[u].state \/ turn'[u].state = "running"
      /\ turn'[u].preparing => (active[ActorOf[u]] = u <=> active'[ActorOf[u]] = u)
  <2>1. CASE PatchedTurn(t)
    <3>1. PICK e \in TurnEntry : /\ turn' = [turn EXCEPT ![t] = e]
                                 /\ e.preparing => turn[t].preparing
                                 /\ e.state # turn[t].state => (e.preparing => e.state = "running")
                                 /\ UNCHANGED active
      BY <2>1 DEF PatchedTurn
    <3>2. CASE u = t
      <4>1. turn'[u] = e
        BY <1>0, <3>1, <3>2
      <4> QED
        BY <3>1, <3>2, <4>1
    <3>3. CASE u # t
      <4>1. turn'[u] = turn[u]
        BY <1>0, <3>1, <3>3
      <4> QED
        BY <3>1, <4>1
    <3> QED
      BY <3>2, <3>3
  <2>2. CASE FinishedTurn(t)
    <3>1. PICK e \in TurnEntry, s \in Terminal,
             r \in {"settled", "cancelled", "failed", "timeout_unsettled", "blocked_on_human"} :
            FinishTurn(t, e, s, r) /\ e.state = turn[t].state /\ ~ e.preparing
      BY <2>2 DEF FinishedTurn
    <3>2. ~ turn'[t].preparing /\ (u # t => turn'[u] = turn[u])
      BY <3>1, FinishKeepsFinished
    <3>3. u # t => (active[ActorOf[u]] = u <=> active'[ActorOf[u]] = u)
      <4>1. UNCHANGED active \/ active' = [active EXCEPT ![ActorOf[t]] = IF @ = t THEN NoTurn ELSE @]
        BY <3>1 DEF FinishTurn
      <4> QED
        BY <1>0, <4>1
    <3> QED
      BY <3>2, <3>3
  <2> QED
    BY <2>1, <2>2, TurnStepChanges
<1>3. ASSUME turn'[u].preparing, active'[ActorOf[u]] = u, pump' \in {"ticking", "sealing"}
      PROVE  FALSE
  <2>1. turn[u].preparing /\ active[ActorOf[u]] = u /\ pump \notin {"ticking", "sealing"}
    BY <1>2, <1>3 DEF PreparingOK
  <2>2. AwaitHuman(t)
    BY <1>3, <2>1, SealingStep
  <2>3. Examine(t) /\ ~ turn[t].preparing
    BY <2>2 DEF AwaitHuman, Undecided, ExamineDelivered
  <2>4. active[ActorOf[t]] = t
    BY <2>3, SoloExamine
  <2> QED
    BY <2>1, <2>3, <2>4, OneActive
<1> QED
  BY <1>1, <1>2, <1>3 DEF PreparingOK

LEMMA SoloPreparingOther ==
    ASSUME SingleActor, TypeOK, TypeOK', Places, NEW u \in TurnIds, PreparingOK(u),
           \/ QuietStep
           \/ \E t \in TurnIds : Admit(t)
           \/ PumpBegin \/ PumpSettle \/ PumpSettled \/ PumpFails \/ Dispose
    PROVE  PreparingOK(u)'
<1>0. turn \in [TurnIds -> TurnEntry] /\ active \in [Actors -> TurnIds \cup {NoTurn}] /\ ActorOf[u] \in Actors
      /\ NoTurn \notin TurnIds
  BY TurnsAssumption DEF TypeOK
<1>1. CASE QuietStep
  <2>1. UNCHANGED <<turn, active>> /\ Disposed' = Disposed
    BY <1>1, QuietFrame DEF Disposed
  <2>2. pump' \in {"ticking", "sealing"} => pump' = pump
    BY <1>1, EndSliceTypes DEF QuietStep, SubmitAnswer, AnswerLocally, FiberStartsOp, FiberOpReturns,
         FiberSettles, FiberAsks, FiberEnds, FiberStep, PumpDisposed, PumpInspect, PumpSealed, Shutdown, ShutdownDone
  <2> QED
    BY <2>1, <2>2 DEF PreparingOK
<1>2. ASSUME NEW t \in TurnIds, Admit(t) PROVE PreparingOK(u)'
  <2>1. /\ turn'[u].preparing = turn[u].preparing
        /\ u # t => turn'[u] = turn[u]
        /\ turn'[t].state = "queued"
    BY <1>0, <1>2 DEF Admit, TurnEntry
  <2>2. UNCHANGED active /\ Disposed' = Disposed /\ (pump' \in {"ticking", "sealing"} => pump' = pump)
    BY <1>2 DEF Admit, Disposed, SchedulePump
  <2> QED
    BY <2>1, <2>2 DEF PreparingOK
<1>3. CASE PumpBegin
  <2>1. PICK how \in [Startable -> {"promised", "returned", "thrown"}] : StartQueued(how)
    BY <1>3 DEF PumpBegin
  <2> DEFINE b == ActorOf[u]
  <2>2. ~ Disposed
    BY <1>3 DEF PumpBegin
  <2>3. \A a \in Actors : active'[a] = IF a \in Startable \ {c \in Startable : how[c] = "thrown"}
                                       THEN Head(queue[a]) ELSE active[a]
    BY <2>1 DEF StartQueued
  <2>4. turn'[u].preparing => turn'[u].state # "waiting_input" /\ active'[b] = u
    <3>1. CASE b \in Startable /\ u = Head(queue[b])
      <4>1. turn'[u] = [turn[u] EXCEPT !.state = IF how[b] = "thrown" THEN "failed" ELSE "running",
                                       !.preparing = how[b] = "promised", !.delivered = how[b] = "returned"]
        BY <2>1, <3>1 DEF StartQueued
      <4>2. turn'[u].state # "waiting_input" /\ turn'[u].preparing = (how[b] = "promised")
        BY <1>0, <4>1 DEF TurnEntry
      <4> QED
        BY <1>0, <2>3, <3>1, <4>2
    <3>2. CASE ~ (b \in Startable /\ u = Head(queue[b]))
      <4>1. turn'[u] = turn[u]
        BY <2>1, <3>2 DEF StartQueued
      <4>2. active[b] = u => active'[b] = u
        BY <1>0, <2>3 DEF Startable
      <4> QED
        BY <2>2, <4>1, <4>2 DEF PreparingOK
    <3> QED
      BY <3>1, <3>2
  <2>5. ASSUME turn'[u].preparing, pump' \in {"ticking", "sealing"} PROVE FALSE
    <3>1. \E a \in Actors : active'[a] # NoTurn /\ turn'[active'[a]].delivered
      BY <1>3, <2>5 DEF PumpBegin
    <3>2. turn'[u].delivered
      BY <1>0, <2>4, <2>5, <3>1 DEF SingleActor
    <3> QED
      BY <2>5, <3>2 DEF TypeOK
  <2> QED
    BY <2>4, <2>5 DEF PreparingOK
<1>4. CASE PumpSettle \/ PumpSettled
  <2>1. turn'[u].preparing = turn[u].preparing /\ turn'[u].state = turn[u].state
    BY <1>0, <1>4, SettleTypes DEF PumpSettle, PumpSettled
  <2>2. UNCHANGED active /\ Disposed' = Disposed /\ pump' \notin {"ticking", "sealing"}
    BY <1>4, EndSliceTypes DEF PumpSettle, PumpSettled, Disposed
  <2> QED
    BY <2>1, <2>2 DEF PreparingOK
<1>5. CASE PumpFails
  <2> DEFINE failed == {t \in ActiveTurns : Live(t)}
             ended == Settle(completed \cup failed, "rejected")
  <2>1. turn' = [t \in TurnIds |-> IF t \in failed THEN [ended[t] EXCEPT !.state = "failed"] ELSE ended[t]]
    BY <1>5 DEF PumpFails
  <2>2. ended[u] \in TurnEntry /\ ended[u].state = turn[u].state /\ ended[u].preparing = turn[u].preparing
    BY <1>0, SettleTypes
  <2>3. Disposed' = Disposed /\ pump' \notin {"ticking", "sealing"} /\ pump \in {"ticking", "sealing"}
    BY <1>5, EndSliceTypes DEF PumpFails, Disposed
  <2> HIDE DEF failed, ended
  <2>4. /\ turn'[u].preparing = turn[u].preparing
        /\ turn'[u].state = turn[u].state \/ turn'[u].state = "failed"
    BY <2>1, <2>2 DEF TurnEntry
  <2> QED
    BY <2>3, <2>4 DEF PreparingOK
<1>6. CASE Dispose
  <2> DEFINE resolved == Settle({t \in TurnIds : Live(t)}, "resolved")
  <2>1. turn' = [t \in TurnIds |-> IF Live(t) THEN [resolved[t] EXCEPT !.aborted = TRUE] ELSE turn[t]]
    BY <1>6 DEF Dispose
  <2>2. /\ resolved[u] \in TurnEntry /\ resolved[u].state = turn[u].state
        /\ resolved[u].preparing = turn[u].preparing
    BY <1>0, SettleTypes
  <2>3. Disposed' /\ active'[ActorOf[u]] # u
    BY <1>0, <1>6 DEF Dispose, Disposed
  <2> HIDE DEF resolved
  <2>4. turn'[u].preparing = turn[u].preparing /\ turn'[u].state = turn[u].state
    BY <2>1, <2>2 DEF TurnEntry
  <2> QED
    BY <2>3, <2>4 DEF PreparingOK
<1> QED
  BY <1>1, <1>2, <1>3, <1>4, <1>5, <1>6

LEMMA SoloLiveTurn ==
    ASSUME SingleActor, TypeOK, Places, SoloInv, NEW t \in TurnIds, TurnStep(t), NEW u \in TurnIds, LiveOK(u)
    PROVE  LiveOK(u)'
<1>0. turn \in [TurnIds -> TurnEntry]
  BY DEF TypeOK
<1>1. KeepsFinished /\ (u # t => turn'[u] = turn[u])
  BY SoloTurnStepKeepsFinished
<1>2. turn[t].state = "absent" => turn'[t].state = "absent"
  <2>1. CASE PatchedTurn(t)
    <3>1. PICK e \in TurnEntry : /\ turn' = [turn EXCEPT ![t] = e]
                                 /\ e.state # turn[t].state => turn[t].state # "absent"
      BY <2>1 DEF PatchedTurn
    <3> QED
      BY <1>0, <3>1
  <2>2. CASE FinishedTurn(t)
    BY <2>2 DEF FinishedTurn
  <2> QED
    BY <2>1, <2>2, TurnStepChanges
<1>3. Live(u)' => Live(u)
  BY <1>1, <1>2 DEF Live, KeepsFinished
<1>4. UNCHANGED <<closing, awaited>>
  BY TurnStepChanges
<1> QED
  BY <1>3, <1>4 DEF LiveOK

LEMMA SoloLiveOther ==
    ASSUME TypeOK, Places, SoloInv, NEW u \in TurnIds, LiveOK(u),
           \/ QuietStep
           \/ \E t \in TurnIds : Admit(t)
           \/ PumpBegin \/ PumpSettle \/ PumpSettled \/ PumpFails \/ Dispose
    PROVE  LiveOK(u)'
<1>0. turn \in [TurnIds -> TurnEntry] /\ KeepsFinished
  BY OtherKeepsFinished DEF TypeOK
<1>1. CASE QuietStep
  <2>1. UNCHANGED turn /\ Live(u)' = Live(u)
    BY <1>1, QuietFrame DEF Live
  <2>2. CASE Shutdown
    BY <2>1, <2>2 DEF Shutdown, LiveOK
  <2>3. CASE ShutdownDone
    <3>1. closing = "closing" /\ ~ Disposed /\ \A t \in awaited : turn[t].promise # "pending"
      BY <2>3 DEF ShutdownDone, Disposed
    <3>2. ~ Live(u)
      BY <3>1 DEF LiveOK, SoloInv, Live
    <3> QED
      BY <2>1, <3>2 DEF LiveOK
  <2>4. CASE ~ Shutdown /\ ~ ShutdownDone
    <3>1. UNCHANGED <<closing, awaited>>
      BY <1>1, <2>4 DEF QuietStep, SubmitAnswer, AnswerLocally, FiberStartsOp, FiberOpReturns,
         FiberSettles, FiberAsks, FiberEnds, FiberStep, PumpDisposed, PumpInspect, PumpSealed
    <3> QED
      BY <2>1, <3>1 DEF LiveOK
  <2> QED
    BY <2>2, <2>3, <2>4
<1>2. CASE \E t \in TurnIds : Admit(t)
  BY <1>2 DEF Admit, LiveOK
<1>3. CASE PumpBegin
  <2>1. ActorOf[u] \in Startable /\ u = Head(queue[ActorOf[u]]) => turn[u].state = "queued"
    BY TailOfQueue DEF Startable, Places, QueueOK, TypeOK
  <2>2. ~ (ActorOf[u] \in Startable /\ u = Head(queue[ActorOf[u]])) => turn'[u] = turn[u]
    BY <1>3, ZenonT(60) DEF PumpBegin, StartQueued
  <2>3. Live(u)' => Live(u)
    BY <2>1, <2>2 DEF Live, Terminal
  <2>4. UNCHANGED <<closing, awaited>>
    BY <1>3 DEF PumpBegin
  <2> QED
    BY <2>3, <2>4 DEF LiveOK
<1>4. CASE PumpSettle \/ PumpSettled
  <2>1. turn'[u].state = turn[u].state
    BY <1>0, <1>4, SettleTypes DEF PumpSettle, PumpSettled
  <2>2. UNCHANGED <<closing, awaited>>
    BY <1>4 DEF PumpSettle, PumpSettled
  <2> QED
    BY <2>1, <2>2 DEF LiveOK, Live
<1>5. CASE PumpFails
  <2> DEFINE failed == {t \in ActiveTurns : Live(t)}
             ended == Settle(completed \cup failed, "rejected")
  <2>1. turn' = [t \in TurnIds |-> IF t \in failed THEN [ended[t] EXCEPT !.state = "failed"] ELSE ended[t]]
    BY <1>5 DEF PumpFails
  <2>2. ended[u] \in TurnEntry /\ ended[u].state = turn[u].state
    BY <1>0, SettleTypes
  <2>3. UNCHANGED <<closing, awaited>>
    BY <1>5 DEF PumpFails
  <2> HIDE DEF failed, ended
  <2>4. turn'[u].state = turn[u].state \/ turn'[u].state = "failed"
    BY <2>1, <2>2 DEF TurnEntry
  <2> QED
    BY <2>3, <2>4 DEF LiveOK, Live, Terminal
<1>6. CASE Dispose
  <2>1. ~ Live(u)
    BY <1>6 DEF Dispose, LiveOK
  <2>2. turn'[u] = turn[u]
    BY <1>6, <2>1 DEF Dispose
  <2> QED
    BY <2>1, <2>2 DEF LiveOK, Live
<1> QED
  BY <1>1, <1>2, <1>3, <1>4, <1>5, <1>6

LEMMA AskedFibers ==
    ASSUME NEW f \in Fiber, f.human # "none" => f.root = "live" /\ f.human # "child"
    PROVE  /\ Resumed(f).human = "none" /\ Revived(f).human = "none" /\ Answered(f).human = "none"
           /\ Interrupted(f) = f \/ Interrupted(f).human = "none"
           /\ f.root # "live" => Interrupted(f).human = "none"
  BY DEF Fiber, Resumed, Revived, Answered, Interrupted

\* A root that ends has no question open.
LEMMA AskedStep ==
    ASSUME TypeOK, "child" \notin HumanWaits, \A a \in Actors : AskedOK(a), Next, NEW b \in Actors
    PROVE  AskedOK(b)'
<1>0. /\ fiber \in [Actors -> Fiber] /\ AskedOK(b) /\ fiber[b] \in Fiber
      /\ \A t \in TurnIds : ActorOf[t] \in Actors
  BY TurnsAssumption DEF TypeOK
<1>1. fiber'[b] = fiber[b] \/ fiber'[b].human = "none" => AskedOK(b)'
  BY <1>0 DEF AskedOK
<1>2. /\ Resumed(fiber[b]).human = "none" /\ Revived(fiber[b]).human = "none" /\ Answered(fiber[b]).human = "none"
      /\ Interrupted(fiber[b]) = fiber[b] \/ Interrupted(fiber[b]).human = "none"
  BY <1>0, AskedFibers DEF AskedOK
<1>3. ASSUME NEW t \in TurnIds, NEW e, InterruptTurn(t, e) PROVE AskedOK(b)'
  BY <1>0, <1>1, <1>2, <1>3 DEF InterruptTurn
<1>4. ASSUME NEW t \in TurnIds, CancelTurn(t) \/ ShutdownCancel(t) PROVE AskedOK(b)'
  <2>1. UNCHANGED fiber \/ \E e \in {[turn[t] EXCEPT !.cancelRequested = TRUE, !.state = "running"]} : InterruptTurn(t, e)
    BY <1>4 DEF CancelTurn, ShutdownCancel, Cancel, CancelSettled, CancelQueued, CancelRunning
  <2> QED
    BY <1>1, <1>3, <2>1
<1>5. ASSUME NEW t \in TurnIds,
             SubmitAnswer(t) \/ ResumeTurn(t) \/ DeliveryFinished(t) \/ DeliveryRejected(t) \/ Expire(t) \/ Admit(t)
      PROVE  AskedOK(b)'
  <2>1. \/ UNCHANGED fiber
        \/ fiber' = [fiber EXCEPT ![ActorOf[t]] = Answered(fiber[ActorOf[t]])]
        \/ fiber' = [fiber EXCEPT ![ActorOf[t]] = Resumed(fiber[ActorOf[t]])]
        \/ fiber' = [fiber EXCEPT ![ActorOf[t]] = Revived(fiber[ActorOf[t]])]
    BY <1>0, <1>5 DEF SubmitAnswer, ResumeTurn, DeliveryFinished, DeliveryRejected, Expire, Admit
  <2>2. \/ fiber'[b] = fiber[b] \/ fiber'[b] = Answered(fiber[b])
        \/ fiber'[b] = Resumed(fiber[b]) \/ fiber'[b] = Revived(fiber[b])
    BY <1>0, <2>1
  <2> QED
    BY <1>1, <1>2, <2>2
<1>6. ASSUME NEW t \in TurnIds, Decide(t) PROVE AskedOK(b)'
  <2>1. \/ UNCHANGED fiber
        \/ InterruptTurn(t, turn[t])
        \/ InterruptTurn(t, [turn[t] EXCEPT !.timedOut = TRUE, !.cancelRequested = TRUE, !.state = "running"])
    BY <1>6 DEF Decide, SkipUndelivered, InterruptOrphans, FinishFailed, FinishCancelled, FinishAtHuman,
         AwaitHuman, FinishSettled, TimeOut, StillRunning
  <2> QED
    BY <1>1, <1>3, <2>1
<1>7. ASSUME NEW a \in Actors, AnswerLocally(a) PROVE AskedOK(b)'
  BY <1>0, <1>1, <1>2, <1>7 DEF AnswerLocally
<1>8. ASSUME NEW a \in Actors, FiberStartsOp(a) \/ FiberOpReturns(a) \/ FiberSettles(a) PROVE AskedOK(b)'
  BY <1>0, <1>8 DEF FiberStartsOp, FiberOpReturns, FiberSettles, AskedOK, Fiber
<1>9. ASSUME NEW a \in Actors, FiberAsks(a) PROVE AskedOK(b)'
  <2>1. PICK k \in HumanWaits, w \in {"none", "ready"} :
            (k # "child" => fiber[a].root = "live") /\ fiber' = [fiber EXCEPT ![a].human = k, ![a].work = w]
    BY <1>9 DEF FiberAsks
  <2>2. k # "child"
    OBVIOUS
  <2>3. CASE a = b
    <3>1. fiber'[b] = [fiber[b] EXCEPT !.human = k, !.work = w]
      BY <1>0, <2>1, <2>3
    <3>2. fiber'[b].human = k /\ fiber'[b].root = fiber[b].root
      BY <1>0, <3>1 DEF Fiber
    <3> QED
      BY <2>1, <2>2, <2>3, <3>2 DEF AskedOK
  <2>4. CASE a # b
    BY <1>0, <1>1, <2>1, <2>4
  <2> QED
    BY <2>3, <2>4
<1>10. ASSUME NEW a \in Actors, FiberEnds(a) PROVE AskedOK(b)'
  <2>1. PICK r \in {"failed", "cancelled"}, w \in {"none", "ready"} :
            fiber' = [fiber EXCEPT ![a].root = r, ![a].work = w] /\ fiber[a].human \in {"none", "child"}
    BY <1>10 DEF FiberEnds
  <2>2. CASE a = b
    <3>1. fiber'[b] = [fiber[b] EXCEPT !.root = r, !.work = w]
      BY <1>0, <2>1, <2>2
    <3>2. fiber'[b].human = fiber[b].human
      BY <1>0, <3>1 DEF Fiber
    <3>3. fiber[b].human = "none"
      BY <1>0, <2>1, <2>2 DEF AskedOK
    <3> QED
      BY <1>1, <3>2, <3>3
  <2>3. CASE a # b
    BY <1>0, <1>1, <2>1, <2>3
  <2> QED
    BY <2>2, <2>3
<1>11. CASE PumpBegin
  <2>1. fiber'[b] = fiber[b] \/ fiber'[b] = Revived(fiber[b])
    BY <1>11 DEF PumpBegin, StartQueued
  <2> QED
    BY <1>1, <1>2, <2>1
<1>12. CASE ShutdownDone
  BY <1>1, <1>12 DEF ShutdownDone, Calm
<1>13. CASE PumpDisposed \/ PumpInspect \/ PumpSealed \/ PumpSettle \/ PumpSettled \/ PumpFails \/ Shutdown \/ Dispose
  BY <1>1, <1>13 DEF PumpDisposed, PumpInspect, PumpSealed, PumpSettle, PumpSettled, PumpFails, Shutdown, Dispose
<1> QED
  BY <1>4, <1>5, <1>6, <1>7, <1>8, <1>9, <1>10, <1>11, <1>12, <1>13 DEF Next

\* The one step in which a turn starts to wait.
LEMMA StartsToWait ==
    ASSUME TypeOK, NEW t \in TurnIds, TurnStep(t), turn[t].state # "waiting_input", turn'[t].state = "waiting_input"
    PROVE  AwaitHuman(t)
<1>0. turn \in [TurnIds -> TurnEntry] /\ turn[t] \in TurnEntry
  BY DEF TypeOK
<1>1. ASSUME NEW e \in TurnEntry, NEW s \in Terminal, NEW r, e.state = turn[t].state, FinishTurn(t, e, s, r)
      PROVE  FALSE
  BY <1>1, FinishKeepsFinished DEF KeepsFinished, Terminal
<1>2. ASSUME NEW e \in TurnEntry, e.state = turn[t].state \/ e.state = "running", InterruptTurn(t, e) PROVE FALSE
  <2> DEFINE d == [e EXCEPT !.aborted = TRUE, !.signalled = @ \/ e.delivered]
  <2>1. turn' = [turn EXCEPT ![t] = d]
    BY <1>2 DEF InterruptTurn
  <2>2. d.state = e.state
    BY DEF TurnEntry
  <2> HIDE DEF d
  <2> QED
    BY <1>0, <1>2, <2>1, <2>2
<1>3. CASE CancelTurn(t) \/ ShutdownCancel(t)
  <2>1. CASE CancelSettled(t)
    BY <1>0, <1>1, <2>1 DEF CancelSettled, Terminal
  <2>2. CASE CancelQueued(t)
    BY <1>0, <1>1, <2>2 DEF CancelQueued, Terminal
  <2>3. CASE CancelRunning(t)
    <3> DEFINE e == [turn[t] EXCEPT !.cancelRequested = TRUE, !.state = "running"]
    <3>1. e \in TurnEntry /\ e.state = "running"
      BY <1>0 DEF TurnEntry, TurnStates
    <3>2. UNCHANGED turn \/ InterruptTurn(t, e)
      BY <2>3 DEF CancelRunning
    <3> HIDE DEF e
    <3> QED
      BY <1>2, <3>1, <3>2
  <2> QED
    BY <1>3, <2>1, <2>2, <2>3 DEF CancelTurn, ShutdownCancel, Cancel
<1>4. CASE ResumeTurn(t)
  <2>1. UNCHANGED turn \/ turn' = [turn EXCEPT ![t].state = "running"]
    BY <1>4 DEF ResumeTurn
  <2>2. turn'[t] = turn[t] \/ turn'[t] = [turn[t] EXCEPT !.state = "running"]
    BY <1>0, <2>1
  <2> QED
    BY <1>0, <2>2 DEF TurnEntry
<1>5. CASE DeliveryFinished(t) \/ DeliveryRejected(t)
  <2> DEFINE d == Prepared(turn[t])
  <2>1. d \in TurnEntry /\ d.state = turn[t].state
    BY <1>0 DEF Prepared, TurnEntry
  <2>2. \/ \E s \in Terminal, r \in {"cancelled", "failed", "timeout_unsettled"} : FinishTurn(t, d, s, r)
        \/ turn' = [turn EXCEPT ![t] = [d EXCEPT !.delivered = TRUE]]
    BY <1>5 DEF DeliveryFinished, DeliveryRejected, Terminal
  <2>3. [d EXCEPT !.delivered = TRUE].state = d.state
    BY <2>1 DEF TurnEntry
  <2> HIDE DEF d
  <2> QED
    BY <1>0, <1>1, <2>1, <2>2, <2>3
<1>6. CASE Expire(t)
  BY <1>0, <1>6 DEF Expire, TurnEntry
<1>7. CASE Decide(t)
  <2>1. CASE SkipUndelivered(t)
    BY <1>0, <2>1 DEF SkipUndelivered, TurnEntry
  <2>2. CASE InterruptOrphans(t)
    BY <1>0, <1>2, <2>2 DEF InterruptOrphans
  <2>3. CASE FinishFailed(t) \/ FinishCancelled(t) \/ FinishAtHuman(t) \/ FinishSettled(t)
    <3>1. \E s \in Terminal, r \in {"settled", "cancelled", "failed", "timeout_unsettled", "blocked_on_human"} :
              FinishTurn(t, turn[t], s, r)
      BY <2>3 DEF FinishFailed, FinishCancelled, FinishAtHuman, FinishSettled, Terminal
    <3> QED
      BY <1>0, <1>1, <3>1
  <2>4. CASE TimeOut(t)
    <3> DEFINE e == [turn[t] EXCEPT !.timedOut = TRUE, !.cancelRequested = TRUE, !.state = "running"]
    <3>1. e \in TurnEntry /\ e.state = "running"
      BY <1>0 DEF TurnEntry, TurnStates
    <3>2. FinishTurn(t, turn[t], "interrupted", "timeout_unsettled") \/ InterruptTurn(t, e)
      BY <2>4 DEF TimeOut
    <3>3. "interrupted" \in Terminal
      BY DEF Terminal
    <3> HIDE DEF e
    <3> QED
      BY <1>0, <1>1, <1>2, <3>1, <3>2, <3>3
  <2>5. CASE StillRunning(t)
    BY <2>5 DEF StillRunning
  <2> QED
    BY <1>7, <2>1, <2>2, <2>3, <2>4, <2>5 DEF Decide
<1> QED
  BY <1>3, <1>4, <1>5, <1>6, <1>7 DEF TurnStep

\* No step of a turn closes the question of a waiting turn without making it
\* run: a cancel and a deadline set the state they interrupt to running.
LEMMA SoloWaitingTurn ==
    ASSUME SingleActor, TypeOK, Places, SoloInv, AskInv, NEW t \in TurnIds, TurnStep(t), NEW u \in TurnIds
    PROVE  WaitingOK(u)'
<1> DEFINE b == ActorOf[u]
<1>0. /\ turn \in [TurnIds -> TurnEntry] /\ turn[t] \in TurnEntry /\ b \in Actors /\ ActorOf[t] \in Actors
      /\ Disposed' = Disposed /\ (u # t => turn'[u] = turn[u])
      /\ WaitingOK(u) /\ AskedOK(b) /\ PreparingOK(t) /\ PreparingOK(u)
  BY TurnsAssumption, TurnStepChanges, SoloTurnStepKeepsFinished DEF TypeOK, Disposed, AskInv
<1> SUFFICES ASSUME ~ Disposed, turn'[u].state = "waiting_input"
             PROVE  u \notin Compatibility /\ (u \in answering' \/ fiber'[b].human # "none")
  BY <1>0 DEF WaitingOK
<1>1. CASE turn[u].state # "waiting_input"
  <2>1. u = t
    BY <1>0, <1>1
  <2>2. AwaitHuman(u)
    BY <1>1, <2>1, StartsToWait
  <2>3. seen = fiber
    BY <2>2, SoloExamine DEF AwaitHuman, Undecided, ExamineDelivered
  <2> QED
    BY <2>2, <2>3 DEF AwaitHuman, WaitsForHuman, ScopeHuman
<1>2. CASE turn[u].state = "waiting_input"
  <2>1. active[b] = u /\ u \notin Compatibility /\ (u \in answering \/ fiber[b].human # "none")
    BY <1>0, <1>2 DEF SoloInv, WaitingOK
  <2>2. active[ActorOf[t]] = t => t = u
    BY <2>1, OneActive
  <2>3. (fiber'[b] = fiber[b] \/ u \in answering) /\ (u \in answering => u \in answering')
    <3>1. ASSUME NEW e \in TurnEntry, t = u, e.state = "running", InterruptTurn(t, e) PROVE FALSE
      <4> DEFINE d == [e EXCEPT !.aborted = TRUE, !.signalled = @ \/ e.delivered]
      <4>1. turn' = [turn EXCEPT ![t] = d]
        BY <3>1 DEF InterruptTurn
      <4>2. d.state = "running"
        BY <3>1 DEF TurnEntry
      <4> HIDE DEF d
      <4> QED
        BY <1>0, <3>1, <4>1, <4>2
    <3>2. CASE CancelTurn(t) \/ ShutdownCancel(t)
      <4>0. UNCHANGED answering
        BY <3>2 DEF CancelTurn, ShutdownCancel, Cancel
      <4>1. CASE CancelSettled(t) \/ CancelQueued(t)
        BY <4>0, <4>1 DEF CancelSettled, CancelQueued
      <4>2. CASE CancelRunning(t)
        <5> DEFINE e == [turn[t] EXCEPT !.cancelRequested = TRUE, !.state = "running"]
        <5>1. UNCHANGED fiber \/ InterruptTurn(t, e)
          BY <4>2 DEF CancelRunning
        <5>2. e \in TurnEntry /\ e.state = "running"
          BY <1>0 DEF TurnEntry, TurnStates
        <5>3. turn[t].state \in {"running", "waiting_input"}
          BY <1>0, <4>2 DEF CancelRunning, Stoppable, TurnEntry, TurnStates
        <5>4. t = u
          BY <2>2, <5>3 DEF SoloInv
        <5> HIDE DEF e
        <5> QED
          BY <3>1, <4>0, <5>1, <5>2, <5>4
      <4> QED
        BY <3>2, <4>1, <4>2 DEF CancelTurn, ShutdownCancel, Cancel
    <3>3. CASE ResumeTurn(t)
      <4>1. CASE Resumable(t)
        <5>1. t = u
          BY <2>2, <4>1 DEF Resumable, SoloInv
        <5>2. turn'[u] = [turn[u] EXCEPT !.state = "running"]
          BY <1>0, <3>3, <4>1, <5>1 DEF ResumeTurn
        <5> QED
          BY <1>0, <5>1, <5>2 DEF TurnEntry
      <4>2. CASE ~ Resumable(t)
        BY <1>2, <3>3, <4>2 DEF ResumeTurn, Resumable
      <4> QED
        BY <4>1, <4>2
    <3>4. CASE DeliveryFinished(t) \/ DeliveryRejected(t)
      <4>1. turn[t].preparing
        BY <3>4 DEF DeliveryFinished, DeliveryRejected
      <4>2. t = u
        BY <1>0, <2>2, <4>1 DEF PreparingOK
      <4> QED
        BY <1>0, <1>2, <4>1, <4>2 DEF PreparingOK
    <3>5. CASE Expire(t)
      BY <3>5 DEF Expire
    <3>6. CASE Decide(t)
      <4>0. t = u /\ seen = fiber /\ UNCHANGED answering
        BY <2>2, <3>6, DecideExamines, SoloExamine DEF Examine
      <4>1. CASE InterruptOrphans(t)
        <5>1. fiber[b].root # "live"
          BY <4>0, <4>1 DEF InterruptOrphans, Root
        <5> QED
          BY <1>0, <2>1, <4>0, <5>1 DEF AskedOK
      <4>2. CASE TimeOut(t)
        <5> DEFINE e == [turn[t] EXCEPT !.timedOut = TRUE, !.cancelRequested = TRUE, !.state = "running"]
        <5>1. InterruptTurn(t, e)
          BY <2>1, <4>0, <4>2 DEF TimeOut
        <5>2. e \in TurnEntry /\ e.state = "running"
          BY <1>0 DEF TurnEntry, TurnStates
        <5> HIDE DEF e
        <5> QED
          BY <3>1, <4>0, <5>1, <5>2
      <4>3. CASE ~ InterruptOrphans(t) /\ ~ TimeOut(t)
        BY <3>6, <4>0, <4>3 DEF Decide, SkipUndelivered, FinishFailed, FinishCancelled, FinishAtHuman,
               AwaitHuman, FinishSettled, StillRunning
      <4> QED
        BY <4>1, <4>2, <4>3
    <3> QED
      BY <3>2, <3>3, <3>4, <3>5, <3>6 DEF TurnStep
  <2> QED
    BY <2>1, <2>3
<1> QED
  BY <1>1, <1>2

\* Nor does any other: an answer that wakes the fiber is still to be announced.
LEMMA SoloWaitingOther ==
    ASSUME SingleActor, TypeOK, Places, SoloInv, AskInv, NEW u \in TurnIds,
           \/ QuietStep
           \/ \E t \in TurnIds : Admit(t)
           \/ PumpBegin \/ PumpSettle \/ PumpSettled \/ PumpFails \/ Dispose
    PROVE  WaitingOK(u)'
<1> DEFINE b == ActorOf[u]
<1>0. /\ turn \in [TurnIds -> TurnEntry] /\ fiber \in [Actors -> Fiber] /\ b \in Actors
      /\ NoTurn \notin TurnIds /\ WaitingOK(u)
  BY TurnsAssumption DEF TypeOK, AskInv
<1>1. ASSUME ~ Disposed, turn[u].state = "waiting_input" PROVE active[b] = u
  BY <1>1 DEF SoloInv
<1>2. CASE QuietStep
  <2>0. UNCHANGED <<turn, active>> /\ (~ Disposed' => ~ Disposed)
    BY <1>2, QuietFrame DEF Disposed
  <2> SUFFICES ASSUME ~ Disposed, turn[u].state = "waiting_input"
               PROVE  u \in answering' \/ fiber'[b].human # "none"
    BY <1>0, <2>0 DEF WaitingOK
  <2>1. active[b] = u /\ u \notin Compatibility /\ (u \in answering \/ fiber[b].human # "none")
    BY <1>0, <1>1 DEF WaitingOK
  <2>2. ASSUME NEW t \in TurnIds, SubmitAnswer(t) PROVE u \in answering'
    <3>1. active[ActorOf[t]] = t /\ answering' = answering \cup {t}
      BY <2>2 DEF SubmitAnswer
    <3> QED
      BY <2>1, <3>1, OneActive
  <2>3. ASSUME NEW a \in Actors, AnswerLocally(a) PROVE FALSE
    <3>1. a = b
      BY <1>0 DEF SingleActor
    <3> QED
      BY <1>0, <2>1, <2>3, <3>1 DEF AnswerLocally
  <2>4. ASSUME NEW a \in Actors, FiberStartsOp(a) \/ FiberOpReturns(a) \/ FiberSettles(a)
        PROVE  u \in answering' \/ fiber'[b].human # "none"
    <3>1. UNCHANGED answering /\ fiber'[b].human = fiber[b].human
      BY <1>0, <2>4 DEF FiberStartsOp, FiberOpReturns, FiberSettles, FiberStep, Fiber
    <3> QED
      BY <2>1, <3>1
  <2>5. ASSUME NEW a \in Actors, FiberAsks(a) PROVE u \in answering'
    <3>1. a = b /\ fiber[a].human = "none" /\ UNCHANGED answering
      BY <1>0, <2>5 DEF SingleActor, FiberAsks, FiberStep
    <3> QED
      BY <2>1, <3>1
  <2>6. ASSUME NEW a \in Actors, FiberEnds(a) PROVE u \in answering' \/ fiber'[b].human # "none"
    <3>1. PICK r \in {"failed", "cancelled"}, w \in {"none", "ready"} :
              fiber' = [fiber EXCEPT ![a].root = r, ![a].work = w]
      BY <2>6 DEF FiberEnds
    <3>2. UNCHANGED answering
      BY <2>6 DEF FiberEnds, FiberStep
    <3>3. fiber'[b].human = fiber[b].human
      BY <1>0, <3>1 DEF Fiber
    <3> QED
      BY <2>1, <3>2, <3>3
  <2>7. CASE PumpDisposed \/ PumpInspect \/ PumpSealed \/ Shutdown
    BY <2>1, <2>7 DEF PumpDisposed, PumpInspect, PumpSealed, Shutdown
  <2>8. CASE ShutdownDone
    <3>1. closing = "closing" /\ \A t \in awaited : turn[t].promise # "pending"
      BY <2>8 DEF ShutdownDone
    <3>2. LiveOK(u) /\ Live(u)
      BY DEF AskInv, Live, Terminal
    <3> QED
      BY <3>1, <3>2 DEF LiveOK, SoloInv, Terminal
  <2> QED
    BY <1>2, <2>2, <2>3, <2>4, <2>5, <2>6, <2>7, <2>8 DEF QuietStep
<1>3. ASSUME NEW t \in TurnIds, Admit(t) PROVE WaitingOK(u)'
  <2>1. UNCHANGED <<fiber, answering, closing>> /\ turn' = [turn EXCEPT ![t].state = "queued"]
    BY <1>3 DEF Admit
  <2>2. turn'[u] = turn[u] \/ turn'[u].state = "queued"
    BY <1>0, <2>1 DEF TurnEntry
  <2> QED
    BY <1>0, <2>1, <2>2 DEF WaitingOK, Disposed
<1>4. CASE PumpBegin
  <2>1. PICK how \in [Startable -> {"promised", "returned", "thrown"}] : StartQueued(how)
    BY <1>4 DEF PumpBegin
  <2>2. ~ Disposed /\ UNCHANGED <<answering, closing>>
    BY <1>4 DEF PumpBegin
  <2>3. CASE b \in Startable /\ u = Head(queue[b])
    <3>1. turn'[u] = [turn[u] EXCEPT !.state = IF how[b] = "thrown" THEN "failed" ELSE "running",
                                     !.preparing = how[b] = "promised", !.delivered = how[b] = "returned"]
      BY <2>1, <2>3 DEF StartQueued
    <3>2. turn'[u].state # "waiting_input"
      BY <1>0, <3>1 DEF TurnEntry
    <3> QED
      BY <3>2 DEF WaitingOK
  <2>4. CASE ~ (b \in Startable /\ u = Head(queue[b]))
    <3>1. turn'[u] = turn[u]
      BY <2>1, <2>4 DEF StartQueued
    <3>2. b \notin Startable => fiber'[b] = fiber[b]
      BY <1>0, <2>1 DEF StartQueued
    <3>3. turn[u].state = "waiting_input" => b \notin Startable
      BY <1>0, <1>1, <2>2 DEF Startable
    <3> QED
      BY <1>0, <2>2, <3>1, <3>2, <3>3 DEF WaitingOK, Disposed
  <2> QED
    BY <2>3, <2>4
<1>5. CASE PumpSettle \/ PumpSettled
  <2>1. turn'[u].state = turn[u].state
    BY <1>0, <1>5, SettleTypes DEF PumpSettle, PumpSettled
  <2>2. UNCHANGED <<fiber, answering, closing>>
    BY <1>5 DEF PumpSettle, PumpSettled
  <2> QED
    BY <1>0, <2>1, <2>2 DEF WaitingOK, Disposed
<1>6. CASE PumpFails
  <2> DEFINE failed == {t \in ActiveTurns : Live(t)}
             ended == Settle(completed \cup failed, "rejected")
  <2>1. turn' = [t \in TurnIds |-> IF t \in failed THEN [ended[t] EXCEPT !.state = "failed"] ELSE ended[t]]
    BY <1>6 DEF PumpFails
  <2>2. ended[u] \in TurnEntry /\ ended[u].state = turn[u].state
    BY <1>0, SettleTypes
  <2>3. UNCHANGED <<fiber, answering, closing>>
    BY <1>6 DEF PumpFails
  <2> HIDE DEF failed, ended
  <2>4. turn'[u].state = turn[u].state \/ turn'[u].state = "failed"
    BY <2>1, <2>2 DEF TurnEntry
  <2> QED
    BY <1>0, <2>3, <2>4 DEF WaitingOK, Disposed
<1>7. CASE Dispose
  BY <1>7 DEF Dispose, WaitingOK, Disposed
<1> QED
  BY <1>2, <1>3, <1>4, <1>5, <1>6, <1>7

LEMMA AskInit == Init => AskInv
  BY TurnsAssumption DEF Init, AskInv, PreparingOK, LiveOK, WaitingOK, AskedOK, NewEntry, AllCalm, Calm, Live

LEMMA AskInductive ==
    ASSUME SingleActor, "child" \notin HumanWaits
    PROVE  IInv /\ IInv' /\ SoloInv /\ AskInv /\ [Next]_vars => AskInv'
<1> SUFFICES ASSUME IInv, IInv', SoloInv, AskInv, [Next]_vars PROVE AskInv'
  OBVIOUS
<1>0. TypeOK /\ TypeOK' /\ Places
  BY DEF IInv
<1>1. CASE Next
  <2>1. ASSUME NEW a \in Actors PROVE AskedOK(a)'
    BY <1>0, <1>1, AskedStep DEF AskInv
  <2>2. ASSUME NEW u \in TurnIds PROVE PreparingOK(u)' /\ LiveOK(u)' /\ WaitingOK(u)'
    <3>1. PreparingOK(u) /\ LiveOK(u)
      BY DEF AskInv
    <3>2. CASE \E t \in TurnIds : TurnStep(t)
      BY <1>0, <3>1, <3>2, SoloPreparingTurn, SoloLiveTurn, SoloWaitingTurn
    <3>3. CASE ~ \E t \in TurnIds : TurnStep(t)
      BY <1>0, <1>1, <3>1, <3>3, NextSteps, SoloPreparingOther, SoloLiveOther, SoloWaitingOther
    <3> QED
      BY <3>2, <3>3
  <2> QED
    BY <2>1, <2>2 DEF AskInv
<1>2. CASE UNCHANGED vars
  BY <1>2 DEF vars, AskInv, PreparingOK, LiveOK, WaitingOK, AskedOK, Disposed, Live
<1> QED
  BY <1>1, <1>2

\* In a session with one actor whose children do not ask, a turn that waits for
\* input has a fiber that waits for it, or an answer on its way to
\* resumeInteractiveTurn.  A child that asks may be interrupted as an orphan
\* when its root ends, which closes its question and leaves the turn waiting.
THEOREM NoAnswerIsForgotten ==
    ASSUME SingleActor, "child" \notin HumanWaits
    PROVE  Spec => []NoForgottenAnswer
<1>1. AskInv => NoForgottenAnswer
  BY DEF AskInv, WaitingOK, NoForgottenAnswer
<1> QED
  BY <1>1, Invariance, SoloInitInv, SoloInductive, AskInit, AskInductive, PTL DEF Spec
==============================================================================
