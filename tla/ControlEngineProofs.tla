------------------------- MODULE ControlEngineProofs -------------------------
(***************************************************************************)
(* Proofs about ControlEngine, for every set of effects, heads and cohorts.*)
(* The operators come first: what Enqueue, Dequeue and each step do to a   *)
(* state; then one inductive invariant, and the properties that follow.    *)
(***************************************************************************)
EXTENDS ControlEngine, FiniteSetTheorems, TLAPS

USE DEF NotBuffered, NotCovered, Idle

\* What the operators on sequences do to the set of elements.
LEMMA AppendIn ==
    ASSUME NEW S, NEW w \in Seq(S), NEW x \in S
    PROVE  Append(w, x) \in Seq(S)
  OBVIOUS

LEMMA TailIn ==
    ASSUME NEW S, NEW w \in Seq(S), w # <<>>
    PROVE  Tail(w) \in Seq(S) /\ Head(w) \in S
  OBVIOUS

LEMMA ConcatIn ==
    ASSUME NEW S, NEW w \in Seq(S), NEW x \in Seq(S)
    PROVE  w \o x \in Seq(S)
  OBVIOUS

\* commandQueueFor sends each kind of command to the deque that holds its kind.
LEMMA QueueForType ==
    ASSUME NEW cmd \in Commands
    PROVE  CommandQueueFor(cmd) \in Deques /\ cmd \in CommandsOf[CommandQueueFor(cmd)]
  BY DEF Deques, Commands, CommandQueueFor, CommandsOf, EffectRequests, EffectResults, HeadBuffers,
         SafepointEvaluates, CohortCommits, EffectRequest, EffectResult, DurableHeadBuffer,
         SafepointEvaluate, CohortCommit

\* Every deque's commands are commands.
LEMMA CommandsOfType ==
    ASSUME NEW d \in Deques
    PROVE  CommandsOf[d] \subseteq Commands
  BY DEF Deques, Commands, CommandsOf

\* Enqueueing keeps a well-formed state well-formed, touches only the deques,
\* and leaves every queued command, and the new one, queued.
LEMMA EnqueueFacts ==
    ASSUME NEW s, StateOK(s), NEW cmd \in Commands
    PROVE  /\ StateOK(Enqueue(s, cmd))
           /\ Enqueue(s, cmd).effects = s.effects
           /\ Enqueue(s, cmd).heads = s.heads
           /\ Enqueue(s, cmd).cohorts = s.cohorts
           /\ Enqueue(s, cmd).class = s.class
           /\ Queued(Enqueue(s, cmd), cmd)
           /\ \A x : Queued(s, x) => Queued(Enqueue(s, cmd), x)
  <1> DEFINE d == CommandQueueFor(cmd)
             t == Enqueue(s, cmd)
  <1>1. d \in Deques /\ cmd \in CommandsOf[d]
    BY QueueForType
  <1>2. s \in EngineState
    BY DEF StateOK
  <1>3. /\ t.effects = s.effects /\ t.heads = s.heads /\ t.cohorts = s.cohorts
        /\ t.class = s.class /\ t.q = [s.q EXCEPT ![d] = Append(s.q[d], cmd)]
    BY <1>2 DEF Enqueue, EngineState
  <1>4. s.q \in [Deques -> Seq(Commands)]
    BY <1>2 DEF EngineState
  <1>5. t.q \in [Deques -> Seq(Commands)]
    BY <1>1, <1>3, <1>4
  <1>6. t \in EngineState
    BY <1>2, <1>3, <1>5 DEF Enqueue, EngineState
  <1>7. ASSUME NEW o \in Deques PROVE t.q[o] \in Seq(CommandsOf[o])
    <2>1. s.q[o] \in Seq(CommandsOf[o])
      BY DEF StateOK
    <2>2. CASE o = d
      <3>1. t.q[o] = Append(s.q[o], cmd)
        BY <1>1, <1>3, <1>4, <2>2
      <3>2. cmd \in CommandsOf[o]
        BY <1>1, <2>2
      <3> QED BY ONLY <2>1, <3>1, <3>2, AppendIn
    <2>3. CASE o # d
      BY <1>1, <1>3, <1>4, <2>1, <2>3
    <2> QED BY <2>2, <2>3
  <1>8. Queued(t, cmd)
    <2>1. t.q[d] = Append(s.q[d], cmd)
      BY <1>1, <1>3, <1>4
    <2>2. Len(t.q[d]) \in 1..Len(t.q[d]) /\ t.q[d][Len(t.q[d])] = cmd
      BY <1>1, <1>4, <2>1
    <2> QED BY <1>1, <2>2 DEF Queued
  <1>9. ASSUME NEW x, Queued(s, x) PROVE Queued(t, x)
    <2>1. PICK o \in Deques : \E j \in 1..Len(s.q[o]) : s.q[o][j] = x
      BY <1>9 DEF Queued
    <2>3. PICK i \in 1..Len(s.q[o]) : s.q[o][i] = x
      BY <2>1
    <2>2. i \in 1..Len(t.q[o]) /\ t.q[o][i] = x
      BY <1>1, <1>3, <1>4, <2>3
    <2> QED BY <2>2 DEF Queued
  <1> QED BY <1>3, <1>6, <1>7, <1>8, <1>9 DEF StateOK

\* Dequeueing from a non-empty deque takes its front command, touches only the
\* deques, and leaves every other queued command queued.
LEMMA DequeueFacts ==
    ASSUME NEW s, StateOK(s), NEW d \in Deques, s.q[d] # <<>>
    PROVE  /\ StateOK(Dequeue(s, d))
           /\ Dequeue(s, d).effects = s.effects
           /\ Dequeue(s, d).heads = s.heads
           /\ Dequeue(s, d).cohorts = s.cohorts
           /\ Dequeue(s, d).class = s.class
           /\ Head(s.q[d]) \in CommandsOf[d]
           /\ \A x : Queued(s, x) => Queued(Dequeue(s, d), x) \/ x = Head(s.q[d])
  <1> DEFINE t == Dequeue(s, d)
  <1>1. s \in EngineState /\ \A o \in Deques : s.q[o] \in Seq(CommandsOf[o])
    BY DEF StateOK
  <1>2. /\ t.effects = s.effects /\ t.heads = s.heads /\ t.cohorts = s.cohorts
        /\ t.class = s.class /\ t.q = [s.q EXCEPT ![d] = Tail(s.q[d])]
    BY <1>1 DEF Dequeue, EngineState
  <1>3. s.q \in [Deques -> Seq(Commands)]
    BY <1>1 DEF EngineState
  <1>4. /\ Tail(s.q[d]) \in Seq(CommandsOf[d]) /\ Tail(s.q[d]) \in Seq(Commands)
        /\ Head(s.q[d]) \in CommandsOf[d]
        /\ Len(Tail(s.q[d])) = Len(s.q[d]) - 1
        /\ \A i \in 1..(Len(s.q[d]) - 1) : Tail(s.q[d])[i] = s.q[d][i + 1]
        /\ Head(s.q[d]) = s.q[d][1]
    <2>1. s.q[d] \in Seq(CommandsOf[d]) /\ s.q[d] \in Seq(Commands)
      BY <1>1, <1>3
    <2>2. Tail(s.q[d]) \in Seq(CommandsOf[d]) /\ Head(s.q[d]) \in CommandsOf[d]
      BY <2>1, TailIn
    <2>3. Tail(s.q[d]) \in Seq(Commands)
      BY <2>1
    <2>4. /\ Len(Tail(s.q[d])) = Len(s.q[d]) - 1
          /\ \A i \in 1..(Len(s.q[d]) - 1) : Tail(s.q[d])[i] = s.q[d][i + 1]
          /\ Head(s.q[d]) = s.q[d][1]
      BY <2>1
    <2> QED BY <2>2, <2>3, <2>4
  <1>5. t \in EngineState
    BY <1>1, <1>2, <1>3, <1>4 DEF Dequeue, EngineState
  <1>6. \A o \in Deques : t.q[o] \in Seq(CommandsOf[o])
    BY <1>1, <1>2, <1>3, <1>4
  <1>7. ASSUME NEW x, Queued(s, x), x # Head(s.q[d]) PROVE Queued(t, x)
    <2>1. PICK o \in Deques : \E j \in 1..Len(s.q[o]) : s.q[o][j] = x
      BY <1>7 DEF Queued
    <2>4. PICK i \in 1..Len(s.q[o]) : s.q[o][i] = x
      BY <2>1
    <2>2. CASE o # d
      <3>1. t.q[o] = s.q[o]
        BY <1>2, <1>3, <2>2
      <3> QED BY <2>1, <3>1 DEF Queued
    <2>3. CASE o = d
      <3>1. t.q[d] = Tail(s.q[d])
        BY <1>2, <1>3
      <3>2. i # 1 /\ Len(s.q[d]) \in Nat
        BY <1>3, <1>4, <1>7, <2>4, <2>3
      <3>3. i - 1 \in 1..Len(t.q[d]) /\ t.q[d][i - 1] = x
        BY <1>4, <2>4, <2>3, <3>1, <3>2
      <3> QED BY <3>3 DEF Queued
    <2> QED BY <2>2, <2>3
  <1> QED BY <1>2, <1>4, <1>5, <1>6, <1>7 DEF StateOK

\* The selector, given a candidate, returns one.
LEMMA SelectedFacts ==
    ASSUME NEW s, Selectable(s) # {}
    PROVE  Selected(s) \in Selectable(s)
  <1>1. Selectable(s) \subseteq Deques
    BY DEF Selectable
  <1>2. \E d \in Selectable(s) : \A o \in Selectable(s) : Priority[d] <= Priority[o]
    <2>1. CASE "effectResult" \in Selectable(s)
      BY <1>1, <2>1 DEF Deques, Priority
    <2>2. CASE "effectResult" \notin Selectable(s) /\ "safepoint" \in Selectable(s)
      BY <1>1, <2>2 DEF Deques, Priority
    <2>3. CASE /\ "effectResult" \notin Selectable(s) /\ "safepoint" \notin Selectable(s)
               /\ "commit" \in Selectable(s)
      BY <1>1, <2>3 DEF Deques, Priority
    <2>4. CASE /\ "effectResult" \notin Selectable(s) /\ "safepoint" \notin Selectable(s)
               /\ "commit" \notin Selectable(s)
      BY <1>1, <2>4 DEF Deques, Priority
    <2> QED BY <2>1, <2>2, <2>3, <2>4
  <1> QED BY <1>2 DEF Selected
------------------------------------------------------------------------------
(* The invariant of one state, and what a step does to it.                 *)

\* A clean class vouches for every effect; one may still be waiting for the
\* result that is queued for it.
ClassHonest(s) ==
    s.class = "clean" =>
        \A e \in Effects :
            /\ s.effects[e].status \in {"none", "requested", "completed"}
            /\ s.effects[e].status # "none" => s.effects[e].requestSeen

StateInv(s) == StateOK(s) /\ CohortsServed(s) /\ RequestsServed(s) /\ ClassHonest(s)

\* What is left of StateInv between taking cmd off its deque and acting on it.
TakenInv(s, cmd) ==
    /\ StateOK(s)
    /\ ClassHonest(s)
    /\ \A c \in Cohorts : CanCommitCohort(s, c) =>
          \/ Queued(s, SafepointEvaluate(c)) \/ Queued(s, CohortCommit(c))
          \/ cmd = SafepointEvaluate(c) \/ cmd = CohortCommit(c)
    /\ \A e \in Effects : s.effects[e].status = "requested" =>
          Queued(s, EffectResult(e)) \/ cmd = EffectResult(e)

\* Commands of different kinds, or about different things, are different.
LEMMA CommandsDiffer ==
    /\ \A c, b : SafepointEvaluate(c) = SafepointEvaluate(b) => c = b
    /\ \A c, b : CohortCommit(c) = CohortCommit(b) => c = b
    /\ \A e, f : EffectResult(e) = EffectResult(f) => e = f
    /\ \A c, b : SafepointEvaluate(c) # CohortCommit(b)
    /\ \A c, e : SafepointEvaluate(c) # EffectResult(e) /\ CohortCommit(c) # EffectResult(e)
    /\ \A c, e, k : /\ SafepointEvaluate(c) # EffectRequest(e, k)
                    /\ CohortCommit(c) # EffectRequest(e, k)
    /\ \A e, f, k : EffectResult(e) # EffectRequest(f, k)
    /\ \A c, h, n : /\ SafepointEvaluate(c) # DurableHeadBuffer(h, n)
                    /\ CohortCommit(c) # DurableHeadBuffer(h, n)
    /\ \A e, h, n : EffectResult(e) # DurableHeadBuffer(h, n)
  BY DEF SafepointEvaluate, CohortCommit, EffectResult, EffectRequest, DurableHeadBuffer

\* Taking the front command off a selectable deque.
LEMMA TakeStep ==
    ASSUME NEW s, StateInv(s), NEW d \in Deques, s.q[d] # <<>>
    PROVE  TakenInv(Dequeue(s, d), Head(s.q[d]))
  <1> DEFINE t == Dequeue(s, d)
             cmd == Head(s.q[d])
  <1>1. /\ StateOK(t) /\ t.effects = s.effects /\ t.heads = s.heads
        /\ t.cohorts = s.cohorts /\ t.class = s.class
        /\ \A x : Queued(s, x) => Queued(t, x) \/ x = cmd
    BY DequeueFacts DEF StateInv
  <1>2. ClassHonest(t)
    BY <1>1 DEF StateInv, ClassHonest
  <1>3. ASSUME NEW c \in Cohorts, CanCommitCohort(t, c)
        PROVE  \/ Queued(t, SafepointEvaluate(c)) \/ Queued(t, CohortCommit(c))
               \/ cmd = SafepointEvaluate(c) \/ cmd = CohortCommit(c)
    <2>1. CanCommitCohort(s, c)
      BY <1>1, <1>3 DEF CanCommitCohort
    <2> QED BY <1>1, <2>1 DEF StateInv, CohortsServed
  <1>4. ASSUME NEW e \in Effects, t.effects[e].status = "requested"
        PROVE  Queued(t, EffectResult(e)) \/ cmd = EffectResult(e)
    BY <1>1, <1>4 DEF StateInv, RequestsServed
  <1> QED BY <1>1, <1>2, <1>3, <1>4 DEF TakenInv

\* Updating an effect's record, or the class, keeps the state well-formed and
\* leaves the rest of it alone.
LEMMA SetEffect ==
    ASSUME NEW s, StateOK(s), NEW e \in Effects, NEW r \in EffectRecord
    PROVE  LET t == WithEffect(s, e, r)
           IN  /\ StateOK(t) /\ t.q = s.q /\ t.heads = s.heads /\ t.cohorts = s.cohorts
               /\ t.class = s.class /\ t.effects[e] = r
               /\ \A f \in Effects \ {e} : t.effects[f] = s.effects[f]
  <1> DEFINE t == WithEffect(s, e, r)
  <1>1. s \in EngineState
    BY DEF StateOK
  <1>2. /\ t.q = s.q /\ t.heads = s.heads /\ t.cohorts = s.cohorts
        /\ t.class = s.class /\ t.effects = [s.effects EXCEPT ![e] = r]
    BY <1>1 DEF EngineState, WithEffect
  <1>3. t.effects \in [Effects -> EffectRecord]
    BY <1>1, <1>2 DEF EngineState
  <1>4. t \in EngineState
    BY <1>1, <1>3 DEF EngineState, WithEffect
  <1>5. t.effects[e] = r /\ \A f \in Effects \ {e} : t.effects[f] = s.effects[f]
    BY <1>1, <1>2 DEF EngineState
  <1> QED BY <1>2, <1>4, <1>5 DEF StateOK

LEMMA SetClass ==
    ASSUME NEW s, StateOK(s), NEW cl \in RecoveryClass
    PROVE  LET t == WithClass(s, cl)
           IN  /\ StateOK(t) /\ t.q = s.q /\ t.heads = s.heads /\ t.cohorts = s.cohorts
               /\ t.class = cl /\ t.effects = s.effects
  <1> DEFINE t == WithClass(s, cl)
  <1>1. s \in EngineState
    BY DEF StateOK
  <1>2. /\ t.q = s.q /\ t.heads = s.heads /\ t.cohorts = s.cohorts
        /\ t.class = cl /\ t.effects = s.effects
    BY <1>1 DEF EngineState, WithClass
  <1>3. t \in EngineState
    BY <1>1 DEF EngineState, WithClass
  <1> QED BY <1>2, <1>3 DEF StateOK

\* The two predicates on the deques see only the deques, heads and cohorts.
LEMMA SameQueues ==
    ASSUME NEW s, NEW t, t.q = s.q
    PROVE  \A x : Queued(t, x) <=> Queued(s, x)
  BY DEF Queued

LEMMA SameCommittable ==
    ASSUME NEW s, NEW t, t.heads = s.heads, t.cohorts = s.cohorts, NEW c
    PROVE  CanCommitCohort(t, c) <=> CanCommitCohort(s, c)
  BY DEF CanCommitCohort

\* The record a result leaves is a record, and is never "requested".
LEMMA ResultRecordFacts ==
    ASSUME NEW r \in EffectRecord
    PROVE  /\ ResultRecord(r) \in EffectRecord
           /\ ResultRecord(r).status # "requested"
           /\ ResultRecord(r).requestSeen = r.requestSeen
           /\ r.status \in {"requested", "completed"} => ResultRecord(r).status = "completed"
  BY DEF ResultRecord, EffectRecord, EffectStatus

\* An effect request keeps the invariant: its result is queued, or the class is dirty.
LEMMA StepEffectRequestInv ==
    ASSUME NEW s, NEW e \in Effects, NEW k \in HandlerKeys, TakenInv(s, EffectRequest(e, k)),
           NEW t \in StepEffectRequest(s, e, k)
    PROVE  StateInv(t) /\ t.heads = s.heads /\ t.cohorts = s.cohorts
  <1>a. PICK r : r = RequestRecord(k)
    OBVIOUS
  <1>b. PICK u : u = WithEffect(s, e, r)
    OBVIOUS
  <1>1. /\ r \in EffectRecord /\ r.requestSeen
        /\ r.status = IF k \in Handlers THEN "requested" ELSE "dirty"
    BY <1>a DEF RequestRecord, EffectRecord, EffectStatus
  <1>2. /\ StateOK(u) /\ u.q = s.q /\ u.heads = s.heads /\ u.cohorts = s.cohorts
        /\ u.class = s.class /\ u.effects[e] = r
        /\ \A f \in Effects \ {e} : u.effects[f] = s.effects[f]
    BY <1>b, <1>1, SetEffect DEF TakenInv
  <1>5. \A c \in Cohorts : CanCommitCohort(s, c) =>
            Queued(s, SafepointEvaluate(c)) \/ Queued(s, CohortCommit(c))
    BY CommandsDiffer DEF TakenInv
  <1>6. \A f \in Effects : s.effects[f].status = "requested" => Queued(s, EffectResult(f))
    BY CommandsDiffer DEF TakenInv
  <1>7. CASE k \in Handlers
    <2>1. t = Enqueue(u, EffectResult(e))
      BY <1>a, <1>b, <1>7 DEF StepEffectRequest
    <2>2. EffectResult(e) \in Commands
      BY DEF Commands, EffectResults
    <2>3. /\ StateOK(t) /\ t.effects = u.effects /\ t.heads = s.heads /\ t.cohorts = s.cohorts
          /\ t.class = s.class /\ Queued(t, EffectResult(e))
          /\ \A x : Queued(u, x) => Queued(t, x)
      BY <1>2, <2>1, <2>2, EnqueueFacts
    <2>4. \A x : Queued(s, x) => Queued(t, x)
      BY <1>2, <2>3, SameQueues
    <2>5. CohortsServed(t)
      BY <1>5, <2>3, <2>4, SameCommittable DEF CohortsServed
    <2>6. RequestsServed(t)
      BY <1>1, <1>2, <1>6, <2>3, <2>4 DEF RequestsServed
    <2>7. ClassHonest(t)
      BY <1>1, <1>2, <1>7, <2>3 DEF ClassHonest, TakenInv
    <2> QED BY <2>3, <2>5, <2>6, <2>7 DEF StateInv
  <1>8. CASE k \notin Handlers
    <2>1. t = WithClass(u, "dirty")
      BY <1>a, <1>b, <1>8 DEF StepEffectRequest
    <2>2. /\ StateOK(t) /\ t.q = s.q /\ t.heads = s.heads /\ t.cohorts = s.cohorts
          /\ t.class = "dirty" /\ t.effects = u.effects
      BY <1>2, <2>1, SetClass DEF RecoveryClass
    <2>3. \A x : Queued(s, x) <=> Queued(t, x)
      BY <2>2, SameQueues
    <2>4. CohortsServed(t)
      BY <1>5, <2>2, <2>3, SameCommittable DEF CohortsServed
    <2>5. RequestsServed(t)
      BY <1>1, <1>2, <1>6, <1>8, <2>2, <2>3 DEF RequestsServed
    <2>6. ClassHonest(t)
      BY <2>2 DEF ClassHonest
    <2> QED BY <2>2, <2>4, <2>5, <2>6 DEF StateInv
  <1> QED BY <1>7, <1>8

\* An effect result keeps the invariant: an orphan takes the clean class away.
LEMMA StepEffectResultInv ==
    ASSUME NEW s, NEW e \in Effects, TakenInv(s, EffectResult(e)),
           NEW t \in StepEffectResult(s, e)
    PROVE  StateInv(t) /\ t.heads = s.heads /\ t.cohorts = s.cohorts
  <1>a. PICK r : r = ResultRecord(s.effects[e])
    OBVIOUS
  <1>b. PICK u : u = WithEffect(s, e, r)
    OBVIOUS
  <1>1. s.effects \in [Effects -> EffectRecord]
    BY DEF TakenInv, StateOK, EngineState
  <1>2. /\ r \in EffectRecord /\ r.status # "requested" /\ r.requestSeen = s.effects[e].requestSeen
        /\ s.effects[e].status \in {"requested", "completed"} => r.status = "completed"
    BY <1>a, <1>1, ResultRecordFacts
  <1>3. /\ StateOK(u) /\ u.q = s.q /\ u.heads = s.heads /\ u.cohorts = s.cohorts
        /\ u.class = s.class /\ u.effects[e] = r
        /\ \A f \in Effects \ {e} : u.effects[f] = s.effects[f]
    BY <1>b, <1>2, SetEffect DEF TakenInv
  <1>5. t = IF s.effects[e].status = "none" THEN WithClass(u, "orphaned") ELSE u
    BY <1>a, <1>b DEF StepEffectResult
  <1>6. /\ StateOK(t) /\ t.q = s.q /\ t.heads = s.heads /\ t.cohorts = s.cohorts
        /\ t.effects = u.effects
        /\ t.class = IF s.effects[e].status = "none" THEN "orphaned" ELSE s.class
    BY <1>3, <1>5, SetClass DEF RecoveryClass
  <1>7. \A x : Queued(s, x) <=> Queued(t, x)
    BY <1>6, SameQueues
  <1>8. \A c \in Cohorts : CanCommitCohort(s, c) =>
            Queued(s, SafepointEvaluate(c)) \/ Queued(s, CohortCommit(c))
    BY CommandsDiffer DEF TakenInv
  <1>9. CohortsServed(t)
    BY <1>6, <1>7, <1>8, SameCommittable DEF CohortsServed
  <1>10. RequestsServed(t)
    <2> SUFFICES ASSUME NEW f \in Effects, t.effects[f].status = "requested"
                 PROVE  Queued(t, EffectResult(f))
      BY DEF RequestsServed
    <2>1. f # e /\ s.effects[f].status = "requested"
      BY <1>2, <1>3, <1>6
    <2>2. EffectResult(e) # EffectResult(f)
      BY <2>1, CommandsDiffer
    <2> QED BY <1>7, <2>1, <2>2 DEF TakenInv
  <1>11. ClassHonest(t)
    <2> SUFFICES ASSUME t.class = "clean", NEW f \in Effects
                 PROVE  /\ t.effects[f].status \in {"none", "requested", "completed"}
                        /\ t.effects[f].status # "none" => t.effects[f].requestSeen
      BY DEF ClassHonest
    <2>1. s.effects[e].status # "none" /\ s.class = "clean"
      BY <1>6
    <2>2. \A g \in Effects : /\ s.effects[g].status \in {"none", "requested", "completed"}
                             /\ s.effects[g].status # "none" => s.effects[g].requestSeen
      BY <2>1 DEF TakenInv, ClassHonest
    <2>3. CASE f = e
      BY <1>2, <1>3, <1>6, <2>1, <2>2, <2>3
    <2>4. CASE f # e
      BY <1>3, <1>6, <2>2, <2>4
    <2> QED BY <2>3, <2>4
  <1> QED BY <1>6, <1>9, <1>10, <1>11 DEF StateInv

\* Buffering a head, before its evaluations are queued.
LEMMA SetBuffered ==
    ASSUME NEW s, StateOK(s), NEW h \in Heads, NEW n \in Nat
    PROVE  LET t == WithBuffered(s, h, n)
           IN  /\ StateOK(t) /\ t.q = s.q /\ t.cohorts = s.cohorts
               /\ t.class = s.class /\ t.effects = s.effects
               /\ t.heads[h].buffered = n
               /\ \A g \in Heads \ {h} : t.heads[g] = s.heads[g]
  <1> DEFINE t == WithBuffered(s, h, n)
             r == [committed |-> s.heads[h].committed, buffered |-> n]
  <1>1. s \in EngineState
    BY DEF StateOK
  <1>2. /\ t.q = s.q /\ t.effects = s.effects /\ t.cohorts = s.cohorts
        /\ t.class = s.class /\ t.heads = [s.heads EXCEPT ![h] = r]
    BY <1>1 DEF EngineState, WithBuffered
  <1>3. s.heads \in [Heads -> HeadState]
    BY <1>1 DEF EngineState
  <1>4. r \in HeadState /\ r.buffered = n
    BY <1>3 DEF HeadState
  <1>5. t.heads \in [Heads -> HeadState]
    BY <1>2, <1>3, <1>4
  <1>6. t \in EngineState
    BY <1>1, <1>5 DEF EngineState, WithBuffered
  <1>7. t.heads[h].buffered = n /\ \A g \in Heads \ {h} : t.heads[g] = s.heads[g]
    BY <1>2, <1>3, <1>4
  <1> QED BY <1>2, <1>6, <1>7 DEF StateOK

\* Appending evaluations to the safepoint deque.
LEMMA AppendEvaluations ==
    ASSUME NEW s, StateOK(s), NEW evs \in Seq(SafepointEvaluates)
    PROVE  LET t == WithEvaluations(s, evs)
           IN  /\ StateOK(t) /\ t.effects = s.effects /\ t.heads = s.heads
               /\ t.cohorts = s.cohorts /\ t.class = s.class
               /\ \A x : Queued(s, x) => Queued(t, x)
               /\ \A i \in 1..Len(evs) : Queued(t, evs[i])
  <1> DEFINE t == WithEvaluations(s, evs)
             d == "safepoint"
  <1>1. s \in EngineState /\ \A o \in Deques : s.q[o] \in Seq(CommandsOf[o])
    BY DEF StateOK
  <1>2. /\ t.effects = s.effects /\ t.heads = s.heads /\ t.cohorts = s.cohorts
        /\ t.class = s.class /\ t.q = [s.q EXCEPT ![d] = s.q[d] \o evs]
    BY <1>1 DEF WithEvaluations, EngineState
  <1>3. s.q \in [Deques -> Seq(Commands)]
    BY <1>1 DEF EngineState
  <1>4. d \in Deques /\ CommandsOf[d] = SafepointEvaluates /\ SafepointEvaluates \subseteq Commands
    BY DEF Deques, CommandsOf, Commands
  <1>5. s.q[d] \o evs \in Seq(SafepointEvaluates)
    <2>1. s.q[d] \in Seq(SafepointEvaluates)
      BY <1>1, <1>4
    <2> QED BY ONLY <2>1, evs \in Seq(SafepointEvaluates), ConcatIn
  <1>6. s.q[d] \o evs \in Seq(Commands)
    BY <1>4, <1>5
  <1>7. t \in EngineState
    BY <1>1, <1>2, <1>3, <1>6 DEF WithEvaluations, EngineState
  <1>8. \A o \in Deques : t.q[o] \in Seq(CommandsOf[o])
    BY <1>1, <1>2, <1>3, <1>4, <1>5
  <1>9. ASSUME NEW x, Queued(s, x) PROVE Queued(t, x)
    <2>1. PICK o \in Deques : \E j \in 1..Len(s.q[o]) : s.q[o][j] = x
      BY <1>9 DEF Queued
    <2>2. PICK i \in 1..Len(s.q[o]) : s.q[o][i] = x
      BY <2>1
    <2>3. s.q[o] \in Seq(Commands) /\ evs \in Seq(SafepointEvaluates)
      BY <1>3
    <2>4. i \in 1..Len(t.q[o]) /\ t.q[o][i] = x
      BY <1>2, <1>3, <1>4, <2>2, <2>3
    <2> QED BY <2>4 DEF Queued
  <1>10. ASSUME NEW i \in 1..Len(evs) PROVE Queued(t, evs[i])
    <2>1. s.q[d] \in Seq(Commands) /\ evs \in Seq(SafepointEvaluates) /\ t.q[d] = s.q[d] \o evs
      BY <1>2, <1>3, <1>4
    <2>2. Len(s.q[d]) + i \in 1..Len(t.q[d]) /\ t.q[d][Len(s.q[d]) + i] = evs[i]
      BY <2>1
    <2> QED BY <1>4, <2>2 DEF Queued
  <1> QED BY <1>2, <1>7, <1>8, <1>9, <1>10 DEF StateOK

\* A buffered head keeps the invariant: a cohort it makes committable is queued
\* for evaluation, or already was, or has its commit queued.
LEMMA StepHeadBufferInv ==
    ASSUME NEW s, NEW h \in Heads, NEW n \in HeadSequences, TakenInv(s, DurableHeadBuffer(h, n)),
           NEW t \in StepHeadBuffer(s, h, n)
    PROVE  /\ StateInv(t)
           /\ t.cohorts = s.cohorts
           /\ t.heads[h].buffered = n
           /\ \A g \in Heads \ {h} : t.heads[g] = s.heads[g]
  <1>a. PICK u : u = WithBuffered(s, h, n)
    OBVIOUS
  <1>b. PICK D : D = CohortsToEvaluate(u, h)
    OBVIOUS
  <1>1. n \in Nat
    BY EngineAssumption
  <1>2. /\ StateOK(u) /\ u.q = s.q /\ u.cohorts = s.cohorts
        /\ u.class = s.class /\ u.effects = s.effects
        /\ u.heads[h].buffered = n
        /\ \A g \in Heads \ {h} : u.heads[g] = s.heads[g]
    BY <1>a, <1>1, SetBuffered DEF TakenInv
  <1>3. \A x : Queued(u, x) <=> Queued(s, x)
    BY <1>2, SameQueues
  <1>4. D \subseteq Cohorts
    BY <1>b DEF CohortsToEvaluate
  <1>5. Cardinality(D) \in Nat
    BY <1>4, EngineAssumption, FS_Subset, FS_CardinalityType
  <1>6. PICK w \in Listings(D) :
            t = WithEvaluations(u, [i \in 1..Cardinality(D) |-> SafepointEvaluate(w[i])])
    BY <1>a, <1>b DEF StepHeadBuffer, EnqueueSafepointEvaluations
  <1>c. PICK evs : evs = [i \in 1..Cardinality(D) |-> SafepointEvaluate(w[i])]
    OBVIOUS
  <1>7. w \in [1..Cardinality(D) -> D] /\ \A c \in D : \E i \in 1..Cardinality(D) : w[i] = c
    BY DEF Listings
  <1>8. evs \in Seq(SafepointEvaluates) /\ Len(evs) = Cardinality(D)
    <2>1. \A i \in 1..Cardinality(D) : SafepointEvaluate(w[i]) \in SafepointEvaluates
      BY <1>4, <1>7 DEF SafepointEvaluates
    <2> HIDE DEF SafepointEvaluate, SafepointEvaluates
    <2> QED BY <1>c, <1>5, <2>1
  <1>9. /\ StateOK(t) /\ t.effects = u.effects /\ t.heads = u.heads
        /\ t.cohorts = u.cohorts /\ t.class = u.class
        /\ \A x : Queued(u, x) => Queued(t, x)
        /\ \A i \in 1..Len(evs) : Queued(t, evs[i])
    BY <1>2, <1>6, <1>c, <1>8, AppendEvaluations
  <1>10. ASSUME NEW c \in D PROVE Queued(t, SafepointEvaluate(c))
    <2>1. PICK i \in 1..Cardinality(D) : w[i] = c
      BY <1>7
    <2>2. evs[i] = SafepointEvaluate(c)
      BY <1>c, <2>1
    <2> QED BY <1>8, <1>9, <2>1, <2>2
  <1>11. CohortsServed(t)
    <2> SUFFICES ASSUME NEW c \in Cohorts, CanCommitCohort(t, c)
                 PROVE  Queued(t, SafepointEvaluate(c)) \/ Queued(t, CohortCommit(c))
      BY DEF CohortsServed
    <2>1. CASE h \in HeadsOf[c]
      BY <1>b, <1>9, <1>10, <2>1 DEF CohortsToEvaluate
    <2>2. CASE h \notin HeadsOf[c]
      <3>1. HeadsOf[c] \subseteq Heads \ {h}
        BY <2>2, EngineAssumption
      <3>2. CanCommitCohort(s, c)
        BY <1>2, <1>9, <3>1 DEF CanCommitCohort
      <3>3. Queued(s, SafepointEvaluate(c)) \/ Queued(s, CohortCommit(c))
        BY <3>2, CommandsDiffer DEF TakenInv
      <3> QED BY <1>3, <1>9, <3>3
    <2> QED BY <2>1, <2>2
  <1>12. RequestsServed(t)
    <2>1. \A e \in Effects : s.effects[e].status = "requested" => Queued(s, EffectResult(e))
      BY CommandsDiffer DEF TakenInv
    <2> QED BY <1>2, <1>3, <1>9, <2>1 DEF RequestsServed
  <1>13. ClassHonest(t)
    BY <1>2, <1>9 DEF ClassHonest, TakenInv
  <1> QED BY <1>2, <1>9, <1>11, <1>12, <1>13 DEF StateInv

\* An evaluated safepoint keeps the invariant: a cohort that can commit leaves
\* the evaluation with its commit queued.
LEMMA StepSafepointEvaluateInv ==
    ASSUME NEW s, NEW c \in Cohorts, TakenInv(s, SafepointEvaluate(c)),
           NEW t \in StepSafepointEvaluate(s, c)
    PROVE  StateInv(t) /\ t.heads = s.heads /\ t.cohorts = s.cohorts
  <1>1. CohortCommit(c) \in Commands
    BY DEF Commands, CohortCommits
  <1>2. \/ t = Enqueue(s, CohortCommit(c))
        \/ t = s /\ (CanCommitCohort(s, c) => Queued(s, CohortCommit(c)))
    BY DEF StepSafepointEvaluate
  <1>3. /\ StateOK(t) /\ t.effects = s.effects /\ t.heads = s.heads
        /\ t.cohorts = s.cohorts /\ t.class = s.class
        /\ \A x : Queued(s, x) => Queued(t, x)
        /\ CanCommitCohort(s, c) => Queued(t, CohortCommit(c))
    <2>1. StateOK(s)
      BY DEF TakenInv
    <2> QED BY <1>1, <1>2, <2>1, EnqueueFacts
  <1>4. CohortsServed(t)
    <2> SUFFICES ASSUME NEW b \in Cohorts, CanCommitCohort(t, b)
                 PROVE  Queued(t, SafepointEvaluate(b)) \/ Queued(t, CohortCommit(b))
      BY DEF CohortsServed
    <2>1. CanCommitCohort(s, b)
      BY <1>3, SameCommittable
    <2>2. CASE b = c
      BY <1>3, <2>1, <2>2
    <2>3. CASE b # c
      <3>1. Queued(s, SafepointEvaluate(b)) \/ Queued(s, CohortCommit(b))
        BY <2>1, <2>3, CommandsDiffer DEF TakenInv
      <3> QED BY <1>3, <3>1
    <2> QED BY <2>2, <2>3
  <1>5. RequestsServed(t)
    <2>1. \A e \in Effects : s.effects[e].status = "requested" => Queued(s, EffectResult(e))
      BY CommandsDiffer DEF TakenInv
    <2> QED BY <1>3, <2>1 DEF RequestsServed
  <1>6. ClassHonest(t)
    BY <1>3 DEF ClassHonest, TakenInv
  <1> QED BY <1>3, <1>4, <1>5, <1>6 DEF StateInv

\* The marker of a cohort that can commit names the buffered sequence of each of its heads.
LEMMA MarkerFacts ==
    ASSUME NEW s, StateOK(s), NEW c \in Cohorts
    PROVE  /\ MarkerOf(s, c) \in Marker
           /\ CanCommitCohort(s, c) =>
                 \A h \in HeadsOf[c] : /\ MarkerOf(s, c)[h] = s.heads[h].buffered
                                       /\ s.heads[h].buffered \in Nat
           /\ CanCommitCohort(s, c) => MarkerOf(s, c) # NoMarker
  <1>1. s.heads \in [Heads -> HeadState] /\ HeadsOf[c] \subseteq Heads /\ HeadsOf[c] # {}
    BY EngineAssumption DEF StateOK, EngineState
  <1>2. MarkerOf(s, c) \in Marker
    BY <1>1 DEF MarkerOf, Marker, HeadState
  <1>3. ASSUME CanCommitCohort(s, c), NEW h \in HeadsOf[c]
        PROVE  MarkerOf(s, c)[h] = s.heads[h].buffered /\ s.heads[h].buffered \in Nat
    BY <1>1, <1>3 DEF MarkerOf, HeadState, CanCommitCohort
  <1>4. ASSUME CanCommitCohort(s, c) PROVE MarkerOf(s, c) # NoMarker
    <2>1. PICK h \in HeadsOf[c] : TRUE
      BY <1>1
    <2>2. MarkerOf(s, c)[h] # NotCovered
      BY <1>3, <1>4, <2>1
    <2> QED BY <1>1, <2>1, <2>2 DEF NoMarker
  <1> QED BY <1>2, <1>3, <1>4

\* Committing a cohort keeps the state well-formed and empties its heads' buffers.
LEMMA SetCommitted ==
    ASSUME NEW s, StateOK(s), NEW c \in Cohorts, CanCommitCohort(s, c)
    PROVE  LET t == WithCommitted(s, c)
           IN  /\ StateOK(t) /\ t.q = s.q /\ t.effects = s.effects /\ t.class = s.class
               /\ t.cohorts[c].status = "committed"
               /\ \A b \in Cohorts \ {c} : t.cohorts[b] = s.cohorts[b]
               /\ \A h \in HeadsOf[c] : t.heads[h].buffered = NotBuffered
               /\ \A h \in Heads \ HeadsOf[c] : t.heads[h] = s.heads[h]
  <1> DEFINE t == WithCommitted(s, c)
             m == MarkerOf(s, c)
             hs == [h \in Heads |-> IF h \in HeadsOf[c]
                       THEN [committed |-> m[h], buffered |-> NotBuffered] ELSE s.heads[h]]
             r == [status |-> "committed", marker |-> m]
  <1>1. s \in EngineState /\ HeadsOf[c] \subseteq Heads
    BY EngineAssumption DEF StateOK
  <1>2. m \in Marker /\ \A h \in HeadsOf[c] : m[h] \in Nat
    BY MarkerFacts
  <1> HIDE DEF m
  <1>3. /\ t.q = s.q /\ t.effects = s.effects /\ t.class = s.class
        /\ t.heads = hs /\ t.cohorts = [s.cohorts EXCEPT ![c] = r]
    BY <1>1 DEF EngineState, WithCommitted, m
  <1>4. s.heads \in [Heads -> HeadState] /\ s.cohorts \in [Cohorts -> CohortState]
    BY <1>1 DEF EngineState
  <1>5. hs \in [Heads -> HeadState]
    BY <1>2, <1>4 DEF HeadState
  <1>6. r \in CohortState
    BY <1>2 DEF CohortState
  <1>7. t \in EngineState
    BY <1>1, <1>4, <1>5, <1>6 DEF EngineState, WithCommitted, m
  <1>8. t.cohorts[c].status = "committed" /\ \A b \in Cohorts \ {c} : t.cohorts[b] = s.cohorts[b]
    BY <1>3, <1>4
  <1>9. /\ \A h \in HeadsOf[c] : t.heads[h].buffered = NotBuffered
        /\ \A h \in Heads \ HeadsOf[c] : t.heads[h] = s.heads[h]
    BY <1>1, <1>3
  <1> QED BY <1>3, <1>7, <1>8, <1>9 DEF StateOK

\* A commit keeps the invariant: it empties the buffers of its own heads, so no
\* cohort sharing one of them can commit, and the others are untouched.
LEMMA StepCohortCommitInv ==
    ASSUME NEW s, NEW c \in Cohorts, TakenInv(s, CohortCommit(c)),
           NEW t \in StepCohortCommit(s, c)
    PROVE  /\ StateInv(t)
           /\ \A h \in Heads : t.heads[h].buffered \in {s.heads[h].buffered, NotBuffered}
           /\ \A b \in Cohorts \ {c} : t.cohorts[b] = s.cohorts[b]
           /\ ~ CanCommitCohort(s, c) => t = s
  <1>0. StateOK(s) /\ HeadsOf[c] \subseteq Heads /\ HeadsOf[c] # {}
    BY EngineAssumption DEF TakenInv
  <1>1. CASE ~ CanCommitCohort(s, c)
    <2>1. t = s
      BY <1>1 DEF StepCohortCommit
    <2>2. CohortsServed(s)
      BY <1>1, CommandsDiffer DEF CohortsServed, TakenInv
    <2>3. RequestsServed(s)
      BY CommandsDiffer DEF RequestsServed, TakenInv
    <2> QED BY <2>1, <2>2, <2>3 DEF StateInv, TakenInv
  <1>2. CASE CanCommitCohort(s, c)
    <2>1. t = WithCommitted(s, c)
      BY <1>2 DEF StepCohortCommit
    <2>2. /\ StateOK(t) /\ t.q = s.q /\ t.effects = s.effects /\ t.class = s.class
          /\ t.cohorts[c].status = "committed"
          /\ \A b \in Cohorts \ {c} : t.cohorts[b] = s.cohorts[b]
          /\ \A h \in HeadsOf[c] : t.heads[h].buffered = NotBuffered
          /\ \A h \in Heads \ HeadsOf[c] : t.heads[h] = s.heads[h]
      BY <1>0, <1>2, <2>1, SetCommitted
    <2>3. \A x : Queued(t, x) <=> Queued(s, x)
      BY <2>2, SameQueues
    <2>4. CohortsServed(t)
      <3> SUFFICES ASSUME NEW b \in Cohorts, CanCommitCohort(t, b)
                   PROVE  Queued(t, SafepointEvaluate(b)) \/ Queued(t, CohortCommit(b))
        BY DEF CohortsServed
      <3>1. HeadsOf[b] \subseteq Heads \ HeadsOf[c]
        BY <2>2, EngineAssumption DEF CanCommitCohort
      <3>2. b # c
        BY <1>0, <3>1
      <3>3. CanCommitCohort(s, b)
        BY <2>2, <3>1, <3>2 DEF CanCommitCohort
      <3>4. Queued(s, SafepointEvaluate(b)) \/ Queued(s, CohortCommit(b))
        BY <3>2, <3>3, CommandsDiffer DEF TakenInv
      <3> QED BY <2>3, <3>4
    <2>5. RequestsServed(t)
      <3>1. \A e \in Effects : s.effects[e].status = "requested" => Queued(s, EffectResult(e))
        BY CommandsDiffer DEF TakenInv
      <3> QED BY <2>2, <2>3, <3>1 DEF RequestsServed
    <2>6. ClassHonest(t)
      BY <2>2 DEF ClassHonest, TakenInv
    <2>7. \A h \in Heads : t.heads[h].buffered \in {s.heads[h].buffered, NotBuffered}
      BY <2>2
    <2> QED BY <1>2, <2>2, <2>4, <2>5, <2>6, <2>7 DEF StateInv
  <1> QED BY <1>1, <1>2
------------------------------------------------------------------------------
(* The state and the disk.                                                 *)

\* What a state claims to have buffered and committed is in the files hf and cf.
OnDisk(s, hf, cf) ==
    /\ \A h \in Heads : s.heads[h].buffered # NotBuffered => s.heads[h].buffered \in hf[h]
    /\ \A c \in Cohorts : s.cohorts[c].status = "committed" => cf[c] # NoMarker

FilesOK(hf, cf) ==
    /\ hf \in [Heads -> SUBSET Nat]
    /\ cf \in [Cohorts -> Marker]
    /\ \A c \in Cohorts : cf[c] # NoMarker => \A h \in HeadsOf[c] : cf[c][h] \in hf[h]

\* Nothing written to the files hf and cf is lost in hg and cg.
FilesGrow(hf, cf, hg, cg) ==
    /\ \A h \in Heads : hf[h] \subseteq hg[h]
    /\ \A c \in Cohorts : cf[c] # NoMarker => cg[c] # NoMarker

\* The two forms a port's write takes.
HeadWrite(cmd, hf, hg) ==
    hg = IF cmd.kind = "durable_head_buffer"
         THEN [hf EXCEPT ![cmd.headId] = hf[cmd.headId] \cup {cmd.sequence}] ELSE hf
CommitWrite(s, cmd, cf, cg) ==
    cg = IF cmd.kind = "cohort_commit" /\ CanCommitCohort(s, cmd.cohortId)
         THEN [cf EXCEPT ![cmd.cohortId] = MarkerOf(s, cmd.cohortId)] ELSE cf

LEMMA WritesOfPortsForm ==
    ASSUME NEW s, NEW cmd, WritesOfPorts(s, cmd)
    PROVE  HeadWrite(cmd, headFile, headFile') /\ CommitWrite(s, cmd, commitFile, commitFile')
  BY DEF WritesOfPorts, HeadWrite, CommitWrite

\* Every command is of one of five kinds, with its parameters in their sets.
LEMMA CommandKinds ==
    ASSUME NEW cmd \in Commands
    PROVE  \/ \E e \in Effects, k \in HandlerKeys : cmd = EffectRequest(e, k)
           \/ \E e \in Effects : cmd = EffectResult(e)
           \/ \E h \in Heads, n \in HeadSequences : cmd = DurableHeadBuffer(h, n)
           \/ \E c \in Cohorts : cmd = SafepointEvaluate(c)
           \/ \E c \in Cohorts : cmd = CohortCommit(c)
  BY DEF Commands, EffectRequests, EffectResults, HeadBuffers, SafepointEvaluates, CohortCommits

\* The files are consistent after any write of a port, whether or not the run
\* that made it survives.
LEMMA WritesKeepFiles ==
    ASSUME NEW s, NEW cmd \in Commands, NEW hf, NEW cf, NEW hg, NEW cg, StateOK(s),
           FilesOK(hf, cf), OnDisk(s, hf, cf), HeadWrite(cmd, hf, hg), CommitWrite(s, cmd, cf, cg)
    PROVE  FilesOK(hg, cg) /\ FilesGrow(hf, cf, hg, cg)
  <1>1. hf \in [Heads -> SUBSET Nat] /\ cf \in [Cohorts -> Marker]
    BY DEF FilesOK
  <1>2. CASE \E h \in Heads, n \in HeadSequences : cmd = DurableHeadBuffer(h, n)
    <2>1. PICK h \in Heads, n \in HeadSequences : cmd = DurableHeadBuffer(h, n)
      BY <1>2
    <2>2. hg = [hf EXCEPT ![h] = hf[h] \cup {n}] /\ cg = cf
      BY <2>1 DEF HeadWrite, CommitWrite, DurableHeadBuffer
    <2>3. n \in Nat
      BY EngineAssumption
    <2>4. hg \in [Heads -> SUBSET Nat] /\ \A g \in Heads : hf[g] \subseteq hg[g]
      BY <1>1, <2>2, <2>3
    <2>5. \A c \in Cohorts : HeadsOf[c] \subseteq Heads
      BY EngineAssumption
    <2> QED BY <1>1, <2>2, <2>4, <2>5 DEF FilesOK, FilesGrow
  <1>3. CASE \E c \in Cohorts : cmd = CohortCommit(c)
    <2>1. PICK c \in Cohorts : cmd = CohortCommit(c)
      BY <1>3
    <2>2. hg = hf /\ cg = IF CanCommitCohort(s, c) THEN [cf EXCEPT ![c] = MarkerOf(s, c)] ELSE cf
      BY <2>1 DEF HeadWrite, CommitWrite, CohortCommit
    <2>3. CASE ~ CanCommitCohort(s, c)
      BY <2>2, <2>3 DEF FilesGrow
    <2>4. CASE CanCommitCohort(s, c)
      <3>1. /\ MarkerOf(s, c) \in Marker /\ MarkerOf(s, c) # NoMarker
            /\ \A h \in HeadsOf[c] : /\ MarkerOf(s, c)[h] = s.heads[h].buffered
                                     /\ s.heads[h].buffered \in Nat
        BY <2>4, MarkerFacts
      <3>2. \A h \in HeadsOf[c] : MarkerOf(s, c)[h] \in hf[h]
        BY <3>1, EngineAssumption DEF OnDisk
      <3> DEFINE m == MarkerOf(s, c)
      <3> HIDE DEF m
      <3>3. cg = [cf EXCEPT ![c] = m]
        BY <2>2, <2>4 DEF m
      <3>4. cg \in [Cohorts -> Marker] /\ cg[c] = m /\ \A b \in Cohorts \ {c} : cg[b] = cf[b]
        BY <1>1, <3>1, <3>3 DEF m
      <3>5. m # NoMarker /\ \A h \in HeadsOf[c] : m[h] \in hf[h]
        BY <3>1, <3>2 DEF m
      <3> QED BY <1>1, <2>2, <3>4, <3>5 DEF FilesOK, FilesGrow
    <2> QED BY <2>3, <2>4
  <1>4. CASE /\ ~ \E h \in Heads, n \in HeadSequences : cmd = DurableHeadBuffer(h, n)
             /\ ~ \E c \in Cohorts : cmd = CohortCommit(c)
    <2>1. cmd.kind # "durable_head_buffer" /\ cmd.kind # "cohort_commit"
      BY <1>4, CommandKinds DEF EffectRequest, EffectResult, SafepointEvaluate
    <2>2. hg = hf /\ cg = cf
      BY <2>1 DEF HeadWrite, CommitWrite
    <2> QED BY <2>2 DEF FilesGrow
  <1> QED BY <1>2, <1>3, <1>4

\* A step on the copy keeps the copy's invariant and its agreement with the disk.
LEMMA StepKeepsInv ==
    ASSUME NEW s, NEW cmd \in Commands, TakenInv(s, cmd), NEW t \in Step(s, cmd),
           NEW hf, NEW cf, NEW hg, NEW cg, FilesOK(hf, cf), OnDisk(s, hf, cf),
           HeadWrite(cmd, hf, hg), CommitWrite(s, cmd, cf, cg)
    PROVE  StateInv(t) /\ OnDisk(t, hg, cg)
  <1>0. StateOK(s)
    BY DEF TakenInv
  <1>a. FilesOK(hg, cg) /\ FilesGrow(hf, cf, hg, cg)
    BY <1>0, WritesKeepFiles
  <1>1. /\ \A h \in Heads : hf[h] \subseteq hg[h]
        /\ \A c \in Cohorts : cf[c] # NoMarker => cg[c] # NoMarker
    BY <1>a DEF FilesGrow
  <1>2. ASSUME t.heads = s.heads, t.cohorts = s.cohorts PROVE OnDisk(t, hg, cg)
    BY <1>1, <1>2 DEF OnDisk
  <1>3. CASE \E e \in Effects, k \in HandlerKeys : cmd = EffectRequest(e, k)
    <2>1. PICK e \in Effects, k \in HandlerKeys : cmd = EffectRequest(e, k)
      BY <1>3
    <2>2. t \in StepEffectRequest(s, e, k)
      BY <2>1 DEF Step, EffectRequest
    <2>3. StateInv(t) /\ t.heads = s.heads /\ t.cohorts = s.cohorts
      BY <2>1, <2>2, StepEffectRequestInv
    <2> QED BY <1>2, <2>3
  <1>4. CASE \E e \in Effects : cmd = EffectResult(e)
    <2>1. PICK e \in Effects : cmd = EffectResult(e)
      BY <1>4
    <2>2. t \in StepEffectResult(s, e)
      BY <2>1 DEF Step, EffectResult
    <2>3. StateInv(t) /\ t.heads = s.heads /\ t.cohorts = s.cohorts
      BY <2>1, <2>2, StepEffectResultInv
    <2> QED BY <1>2, <2>3
  <1>5. CASE \E h \in Heads, n \in HeadSequences : cmd = DurableHeadBuffer(h, n)
    <2>1. PICK h \in Heads, n \in HeadSequences : cmd = DurableHeadBuffer(h, n)
      BY <1>5
    <2>2. t \in StepHeadBuffer(s, h, n)
      BY <2>1 DEF Step, DurableHeadBuffer
    <2>3. /\ StateInv(t) /\ t.cohorts = s.cohorts /\ t.heads[h].buffered = n
          /\ \A g \in Heads \ {h} : t.heads[g] = s.heads[g]
      BY <2>1, <2>2, StepHeadBufferInv
    <2>4. hg = [hf EXCEPT ![h] = hf[h] \cup {n}]
      BY <2>1 DEF HeadWrite, DurableHeadBuffer
    <2>5. n \in hg[h]
      BY <2>4 DEF FilesOK
    <2> QED BY <1>1, <2>3, <2>5 DEF OnDisk
  <1>6. CASE \E c \in Cohorts : cmd = SafepointEvaluate(c)
    <2>1. PICK c \in Cohorts : cmd = SafepointEvaluate(c)
      BY <1>6
    <2>2. t \in StepSafepointEvaluate(s, c)
      BY <2>1 DEF Step, SafepointEvaluate
    <2>3. StateInv(t) /\ t.heads = s.heads /\ t.cohorts = s.cohorts
      BY <2>1, <2>2, StepSafepointEvaluateInv
    <2> QED BY <1>2, <2>3
  <1>7. CASE \E c \in Cohorts : cmd = CohortCommit(c)
    <2>1. PICK c \in Cohorts : cmd = CohortCommit(c)
      BY <1>7
    <2>2. t \in StepCohortCommit(s, c)
      BY <2>1 DEF Step, CohortCommit
    <2>3. /\ StateInv(t)
          /\ \A h \in Heads : t.heads[h].buffered \in {s.heads[h].buffered, NotBuffered}
          /\ \A b \in Cohorts \ {c} : t.cohorts[b] = s.cohorts[b]
          /\ ~ CanCommitCohort(s, c) => t = s
      BY <2>1, <2>2, StepCohortCommitInv
    <2>4. CASE ~ CanCommitCohort(s, c)
      BY <1>2, <2>3, <2>4
    <2>5. CASE CanCommitCohort(s, c)
      <3>1. cg = [cf EXCEPT ![c] = MarkerOf(s, c)]
        BY <2>1, <2>5 DEF CommitWrite, CohortCommit
      <3>2. cg[c] = MarkerOf(s, c) /\ MarkerOf(s, c) # NoMarker
        BY <1>0, <2>5, <3>1, MarkerFacts DEF FilesOK
      <3>3. \A h \in Heads : t.heads[h].buffered # NotBuffered => t.heads[h].buffered \in hg[h]
        BY <1>1, <2>3 DEF OnDisk
      <3>4. \A b \in Cohorts : t.cohorts[b].status = "committed" => cg[b] # NoMarker
        BY <1>1, <2>3, <3>2 DEF OnDisk
      <3> QED BY <2>3, <3>3, <3>4 DEF OnDisk
    <2> QED BY <2>4, <2>5
  <1> QED BY <1>3, <1>4, <1>5, <1>6, <1>7, CommandKinds

\* The class a run ends with is honest about its effects, and clean only when
\* none of them waits for a result.
LEMMA ClassifyFacts ==
    ASSUME NEW s, StateInv(s)
    PROVE  LET t == WithClass(s, Classify(s))
           IN  /\ StateInv(t) /\ t.heads = s.heads /\ t.cohorts = s.cohorts
               /\ t.effects = s.effects /\ t.q = s.q
               /\ t.class = "clean" => \A e \in Effects : t.effects[e].status # "requested"
  <1>a. PICK cl : cl = Classify(s)
    OBVIOUS
  <1>b. PICK t : t = WithClass(s, cl)
    OBVIOUS
  <1>1. s.class \in RecoveryClass
    BY DEF StateInv, StateOK, EngineState
  <1>2. /\ cl \in RecoveryClass
        /\ cl = "clean" => /\ s.class = "clean"
                           /\ \A e \in Effects : s.effects[e].status # "requested"
    BY <1>a, <1>1 DEF Classify, RecoveryClass
  <1>3. /\ StateOK(t) /\ t.q = s.q /\ t.heads = s.heads /\ t.cohorts = s.cohorts
        /\ t.class = cl /\ t.effects = s.effects
    BY <1>b, <1>2, SetClass DEF StateInv
  <1>4. \A x : Queued(t, x) <=> Queued(s, x)
    BY <1>3, SameQueues
  <1>5. CohortsServed(t)
    BY <1>3, <1>4, SameCommittable DEF CohortsServed, StateInv
  <1>6. RequestsServed(t)
    BY <1>3, <1>4 DEF RequestsServed, StateInv
  <1>7. ClassHonest(t)
    BY <1>2, <1>3 DEF ClassHonest, StateInv
  <1> QED BY <1>a, <1>b, <1>2, <1>3, <1>5, <1>6, <1>7 DEF StateInv

\* Enqueueing from outside keeps the invariant of a state.
LEMMA EnqueueInv ==
    ASSUME NEW s, StateInv(s), NEW cmd \in Commands
    PROVE  LET t == Enqueue(s, cmd)
           IN  /\ StateInv(t) /\ t.heads = s.heads /\ t.cohorts = s.cohorts
               /\ t.effects = s.effects /\ t.class = s.class
  <1>a. PICK t : t = Enqueue(s, cmd)
    OBVIOUS
  <1>1. /\ StateOK(t) /\ t.effects = s.effects /\ t.heads = s.heads /\ t.cohorts = s.cohorts
        /\ t.class = s.class /\ \A x : Queued(s, x) => Queued(t, x)
    BY <1>a, EnqueueFacts DEF StateInv
  <1>2. CohortsServed(t)
    BY <1>1, SameCommittable DEF CohortsServed, StateInv
  <1>3. RequestsServed(t)
    BY <1>1 DEF RequestsServed, StateInv
  <1>4. ClassHonest(t)
    BY <1>1 DEF ClassHonest, StateInv
  <1> QED BY <1>a, <1>1, <1>2, <1>3, <1>4 DEF StateInv

\* The state a holder starts with satisfies the invariant.
LEMMA CreateStateInv ==
    ASSUME NEW D \in SUBSET Cohorts
    PROVE  LET s == CreateState(D)
           IN  /\ StateInv(s)
               /\ \A h \in Heads : s.heads[h].buffered = NotBuffered
               /\ \A c \in Cohorts : s.cohorts[c].status # "committed"
               /\ \A e \in Effects : s.effects[e].status = "none"
  <1>a. PICK s : s = CreateState(D)
    OBVIOUS
  <1>0. NoMarker \in Marker
    BY DEF NoMarker, Marker
  <1>1. /\ s.q = [d \in Deques |-> <<>>]
        /\ s.class = "clean"
        /\ s.effects = [e \in Effects |->
              [status |-> "none", requestSeen |-> FALSE, resultSeen |-> FALSE]]
        /\ s.heads = [h \in Heads |-> [committed |-> 0, buffered |-> NotBuffered]]
        /\ s.cohorts = [c \in Cohorts |->
              [status |-> IF c \in D THEN "dirty" ELSE "open", marker |-> NoMarker]]
    BY <1>a DEF CreateState
  <1>2. s.q \in [Deques -> Seq(Commands)] /\ \A d \in Deques : s.q[d] \in Seq(CommandsOf[d])
    BY <1>1
  <1>3. s.effects \in [Effects -> EffectRecord]
    BY <1>1 DEF EffectRecord, EffectStatus
  <1>4. s.heads \in [Heads -> HeadState]
    BY <1>1 DEF HeadState
  <1>5. s.cohorts \in [Cohorts -> CohortState]
    BY <1>0, <1>1 DEF CohortState
  <1>6. s \in EngineState
    BY <1>a, <1>1, <1>2, <1>3, <1>4, <1>5 DEF CreateState, EngineState, RecoveryClass
  <1>7. /\ \A h \in Heads : s.heads[h].buffered = NotBuffered
        /\ \A c \in Cohorts : s.cohorts[c].status # "committed"
        /\ \A e \in Effects : s.effects[e].status = "none"
    BY <1>1
  <1>8. CohortsServed(s)
    BY <1>7, EngineAssumption DEF CohortsServed, CanCommitCohort
  <1>9. RequestsServed(s) /\ ClassHonest(s)
    BY <1>7 DEF RequestsServed, ClassHonest
  <1> QED BY <1>a, <1>2, <1>6, <1>7, <1>8, <1>9 DEF StateInv, StateOK
------------------------------------------------------------------------------
(* The inductive invariant.                                                *)

\* Both states satisfy the invariant of a state and agree with the files, and a
\* visible state is clean only when no effect waits for its result.
IInv ==
    /\ StateInv(engine)
    /\ StateInv(run)
    /\ budget \in Nat \cup {Idle}
    /\ FilesOK(headFile, commitFile)
    /\ OnDisk(engine, headFile, commitFile)
    /\ OnDisk(run, headFile, commitFile)
    /\ engine.class = "clean" => \A e \in Effects : engine.effects[e].status # "requested"

LEMMA InitIInv == Init => IInv
  <1> SUFFICES ASSUME Init PROVE IInv
    OBVIOUS
  <1>1. PICK D \in SUBSET Cohorts : engine = CreateState(D)
    BY DEF Init
  <1>2. /\ StateInv(engine)
        /\ \A h \in Heads : engine.heads[h].buffered = NotBuffered
        /\ \A c \in Cohorts : engine.cohorts[c].status # "committed"
        /\ \A e \in Effects : engine.effects[e].status = "none"
    BY <1>1, CreateStateInv
  <1>3. OnDisk(engine, headFile, commitFile)
    BY <1>2 DEF OnDisk
  <1>4. FilesOK(headFile, commitFile)
    BY DEF Init, FilesOK, Marker, NoMarker
  <1>5. run = engine /\ budget = Idle
    BY DEF Init
  <1> QED BY <1>2, <1>3, <1>4, <1>5 DEF IInv

\* What every step of a run begins with: the selected command taken off the copy.
LEMMA TakenFromRun ==
    ASSUME IInv, Selectable(run) # {},
           NEW d, d = Selected(run), NEW cmd, cmd = Head(run.q[d]), NEW s, s = Dequeue(run, d)
    PROVE  /\ d \in Deques /\ cmd \in Commands /\ StateOK(s)
           /\ TakenInv(s, cmd) /\ OnDisk(s, headFile, commitFile)
  <1>1. d \in Selectable(run)
    BY SelectedFacts
  <1>2. d \in Deques /\ run.q[d] # <<>>
    BY <1>1 DEF Selectable
  <1>3. StateInv(run) /\ StateOK(run)
    BY DEF IInv, StateInv
  <1>4. TakenInv(s, cmd)
    BY <1>2, <1>3, TakeStep
  <1>5. cmd \in CommandsOf[d] /\ s.heads = run.heads /\ s.cohorts = run.cohorts
    BY <1>2, <1>3, DequeueFacts
  <1>6. cmd \in Commands
    BY <1>2, <1>5, CommandsOfType
  <1>7. OnDisk(s, headFile, commitFile)
    BY <1>5 DEF OnDisk, IInv
  <1>8. StateOK(s)
    BY <1>4 DEF TakenInv
  <1> QED BY <1>2, <1>4, <1>6, <1>7, <1>8

\* A state that agreed with the files still does after a write.
LEMMA OnDiskGrows ==
    ASSUME NEW s, NEW hf, NEW cf, NEW hg, NEW cg, OnDisk(s, hf, cf),
           FilesGrow(hf, cf, hg, cg)
    PROVE  OnDisk(s, hg, cg)
  BY DEF OnDisk, FilesGrow

\* The writes of a step, made by a run that survives or not, leave the files
\* consistent and in agreement with the visible state.
LEMMA WritesFromRun ==
    ASSUME IInv, NEW cmd \in Commands, NEW s, StateOK(s), OnDisk(s, headFile, commitFile),
           WritesOfPorts(s, cmd)
    PROVE  FilesOK(headFile', commitFile') /\ OnDisk(engine, headFile', commitFile')
  <1>1. HeadWrite(cmd, headFile, headFile') /\ CommitWrite(s, cmd, commitFile, commitFile')
    BY WritesOfPortsForm
  <1>2. FilesOK(headFile, commitFile) /\ OnDisk(engine, headFile, commitFile)
    BY DEF IInv
  <1>3. FilesOK(headFile', commitFile') /\ FilesGrow(headFile, commitFile, headFile', commitFile')
    BY <1>1, <1>2, WritesKeepFiles
  <1> QED BY <1>2, <1>3, OnDiskGrows

LEMMA NextIInv == IInv /\ [Next]_vars => IInv'
  <1> SUFFICES ASSUME IInv, [Next]_vars PROVE IInv'
    OBVIOUS
  <1>1. ASSUME NEW cmd \in Commands, EnqueueCommand(cmd) PROVE IInv'
    <2>1. engine' = Enqueue(engine, cmd) /\ UNCHANGED <<run, budget, headFile, commitFile>>
      BY <1>1 DEF EnqueueCommand
    <2>2. /\ StateInv(engine') /\ engine'.heads = engine.heads
          /\ engine'.cohorts = engine.cohorts /\ engine'.effects = engine.effects
          /\ engine'.class = engine.class
      BY <2>1, EnqueueInv DEF IInv
    <2>3. OnDisk(engine', headFile, commitFile)
      BY <2>2 DEF OnDisk, IInv
    <2> QED BY <2>1, <2>2, <2>3 DEF IInv
  <1>2. ASSUME NEW n \in Budgets, StartRun(n) PROVE IInv'
    <2>1. n \in Nat
      BY EngineAssumption
    <2> QED BY <1>2, <2>1 DEF IInv, StartRun
  <1>3. CASE RunStep
    <2>1. PICK d, cmd, s :
              /\ d = Selected(run) /\ cmd = Head(run.q[d]) /\ s = Dequeue(run, d)
              /\ run' \in Step(s, cmd) /\ WritesOfPorts(s, cmd)
      BY <1>3 DEF RunStep
    <2>2. /\ Selectable(run) # {} /\ budget > 0 /\ budget' = budget - 1 /\ engine' = engine
      BY <1>3 DEF RunStep
    <2>3. /\ cmd \in Commands /\ StateOK(s) /\ TakenInv(s, cmd)
          /\ OnDisk(s, headFile, commitFile)
      BY <2>1, <2>2, TakenFromRun
    <2>4. HeadWrite(cmd, headFile, headFile') /\ CommitWrite(s, cmd, commitFile, commitFile')
      BY <2>1, WritesOfPortsForm
    <2>5. FilesOK(headFile', commitFile') /\ OnDisk(engine', headFile', commitFile')
      BY <2>1, <2>2, <2>3, WritesFromRun
    <2>6. StateInv(run') /\ OnDisk(run', headFile', commitFile')
      <3>1. FilesOK(headFile, commitFile) /\ run' \in Step(s, cmd)
        BY <2>1 DEF IInv
      <3> QED BY ONLY <2>3, <2>4, <3>1, StepKeepsInv, Zenon
    <2>7. budget' \in Nat
      BY <2>2 DEF IInv
    <2> QED BY <2>2, <2>5, <2>6, <2>7 DEF IInv
  <1>4. CASE RunThrow
    <2>1. PICK d, cmd, s :
              /\ d = Selected(run) /\ cmd = Head(run.q[d]) /\ s = Dequeue(run, d)
              /\ WritesOfPorts(s, cmd) \/ UNCHANGED <<headFile, commitFile>>
      BY <1>4 DEF RunThrow
    <2>2. Selectable(run) # {} /\ run' = engine /\ engine' = engine /\ budget' = Idle
      BY <1>4 DEF RunThrow
    <2>3. cmd \in Commands /\ StateOK(s) /\ OnDisk(s, headFile, commitFile)
      BY <2>1, <2>2, TakenFromRun
    <2>4. FilesOK(headFile', commitFile') /\ OnDisk(engine, headFile', commitFile')
      <3>1. CASE WritesOfPorts(s, cmd)
        BY <2>3, <3>1, WritesFromRun
      <3>2. CASE UNCHANGED <<headFile, commitFile>>
        BY <3>2 DEF IInv
      <3> QED BY <2>1, <3>1, <3>2
    <2> QED BY <2>2, <2>4 DEF IInv
  <1>5. CASE FinishRun
    <2>1. /\ engine' = WithClass(run, Classify(run)) /\ run' = engine' /\ budget' = Idle
          /\ UNCHANGED <<headFile, commitFile>>
      BY <1>5 DEF FinishRun
    <2>2. /\ StateInv(engine') /\ engine'.heads = run.heads /\ engine'.cohorts = run.cohorts
          /\ engine'.class = "clean" => \A e \in Effects : engine'.effects[e].status # "requested"
      BY <2>1, ClassifyFacts DEF IInv
    <2>3. OnDisk(engine', headFile, commitFile)
      BY <2>2 DEF OnDisk, IInv
    <2> QED BY <2>1, <2>2, <2>3 DEF IInv
  <1>6. CASE UNCHANGED vars
    BY <1>6 DEF vars, IInv
  <1> QED BY <1>1, <1>2, <1>3, <1>4, <1>5, <1>6 DEF Next, RunIdle, RunExhausted

LEMMA Inductive == Spec => []IInv
  BY InitIInv, NextIInv, PTL DEF Spec
------------------------------------------------------------------------------
(* The theorems.                                                           *)

\* Every state of the engine is well-formed, and every command stands in the
\* deque commandQueueFor names for it.
THEOREM TypeCorrect == Spec => []TypeOK
  <1>1. IInv => TypeOK
    BY DEF IInv, StateInv, FilesOK, TypeOK
  <1> QED BY <1>1, Inductive, PTL

\* The deduplication of safepoint evaluations and commits never strands a cohort.
THEOREM NoCohortIsStranded == Spec => []NoStrandedCohort
  <1>1. IInv => NoStrandedCohort
    BY DEF IInv, StateInv, NoStrandedCohort
  <1> QED BY <1>1, Inductive, PTL

\* No state waits for an effect result that is not queued.
THEOREM NoRequestDangles == Spec => []NoDanglingRequest
  <1>1. IInv => NoDanglingRequest
    BY DEF IInv, StateInv, NoDanglingRequest
  <1> QED BY <1>1, Inductive, PTL

\* A session shown as clean has no effect that is not accounted for.
THEOREM CleanIsClean == Spec => []CleanMeansClean
  <1>1. IInv => CleanMeansClean
    BY DEF IInv, StateInv, ClassHonest, CleanMeansClean
  <1> QED BY <1>1, Inductive, PTL

\* Commit files name only heads that are on disk, over dropped runs too.
THEOREM CommitsAreWrittenAhead == Spec => []WriteAhead
  <1>1. IInv => WriteAhead
    BY DEF IInv, FilesOK, OnDisk, WriteAhead
  <1> QED BY <1>1, Inductive, PTL

\* A queued command stands in the deque of its kind.
LEMMA QueuedWhere ==
    ASSUME NEW s, StateOK(s)
    PROVE  /\ \A e \in Effects : Queued(s, EffectResult(e)) => s.q["effectResult"] # <<>>
           /\ \A c \in Cohorts : Queued(s, SafepointEvaluate(c)) => s.q["safepoint"] # <<>>
           /\ \A c \in Cohorts : Queued(s, CohortCommit(c)) => s.q["commit"] # <<>>
  <1>1. ASSUME NEW x, Queued(s, x) PROVE \E o \in Deques : s.q[o] # <<>> /\ x \in CommandsOf[o]
    <2>1. PICK o \in Deques : \E j \in 1..Len(s.q[o]) : s.q[o][j] = x
      BY <1>1 DEF Queued
    <2>2. s.q[o] \in Seq(CommandsOf[o])
      BY DEF StateOK
    <2>3. s.q[o] # <<>> /\ x \in CommandsOf[o]
      BY ONLY <2>1, <2>2
    <2> QED BY <2>3
  <1>2. ASSUME NEW e \in Effects, NEW o \in Deques, EffectResult(e) \in CommandsOf[o]
        PROVE  o = "effectResult"
    BY <1>2 DEF Deques, CommandsOf, EffectRequests, EffectResults, HeadBuffers, SafepointEvaluates,
         CohortCommits, EffectRequest, EffectResult, DurableHeadBuffer, SafepointEvaluate, CohortCommit
  <1>3. ASSUME NEW c \in Cohorts, NEW o \in Deques, SafepointEvaluate(c) \in CommandsOf[o]
        PROVE  o = "safepoint"
    BY <1>3 DEF Deques, CommandsOf, EffectRequests, EffectResults, HeadBuffers, SafepointEvaluates,
         CohortCommits, EffectRequest, EffectResult, DurableHeadBuffer, SafepointEvaluate, CohortCommit
  <1>4. ASSUME NEW c \in Cohorts, NEW o \in Deques, CohortCommit(c) \in CommandsOf[o]
        PROVE  o = "commit"
    BY <1>4 DEF Deques, CommandsOf, EffectRequests, EffectResults, HeadBuffers, SafepointEvaluates,
         CohortCommits, EffectRequest, EffectResult, DurableHeadBuffer, SafepointEvaluate, CohortCommit
  <1> QED BY <1>1, <1>2, <1>3, <1>4

\* A run that ends because nothing can be selected leaves no effect waiting, and
\* a committable cohort only behind a commit that blocks the commit deque.
THEOREM IdleRunsAreSettled == Spec => IdleIsSettled
  <1> DEFINE Settled ==
        /\ \A e \in Effects : engine'.effects[e].status # "requested"
        /\ \A c \in Cohorts : CanCommitCohort(engine', c) =>
               /\ engine'.q["commit"] # <<>>
               /\ ~ CanCommitCohort(engine', Head(engine'.q["commit"]).cohortId)
  <1>1. ASSUME IInv, RunIdle PROVE Settled
    <2>1. Selectable(run) = {} /\ engine' = WithClass(run, Classify(run))
      BY <1>1 DEF RunIdle, FinishRun
    <2>2. StateInv(run) /\ StateOK(run)
      BY <1>1 DEF IInv, StateInv
    <2>3. /\ engine'.heads = run.heads /\ engine'.cohorts = run.cohorts
          /\ engine'.effects = run.effects /\ engine'.q = run.q
      BY <2>1, <2>2, ClassifyFacts
    <2>4. /\ run.q["effectResult"] = <<>> /\ run.q["safepoint"] = <<>>
          /\ run.q["commit"] = <<>> \/ ~ CanCommitCohort(run, Head(run.q["commit"]).cohortId)
      BY <2>1 DEF Selectable, Deques
    <2>5. ASSUME NEW e \in Effects PROVE engine'.effects[e].status # "requested"
      BY <2>2, <2>3, <2>4, QueuedWhere DEF StateInv, RequestsServed
    <2>6. ASSUME NEW c \in Cohorts, CanCommitCohort(engine', c)
          PROVE  /\ engine'.q["commit"] # <<>>
                 /\ ~ CanCommitCohort(engine', Head(engine'.q["commit"]).cohortId)
      <3>1. CanCommitCohort(run, c)
        BY <2>3, <2>6, SameCommittable
      <3>2. run.q["commit"] # <<>>
        BY <2>2, <2>4, <3>1, QueuedWhere DEF StateInv, CohortsServed
      <3>3. ~ CanCommitCohort(run, Head(run.q["commit"]).cohortId)
        BY <2>4, <3>2
      <3>4. ~ CanCommitCohort(engine', Head(run.q["commit"]).cohortId)
        BY <2>3, <3>3, SameCommittable
      <3> QED BY <2>3, <3>2, <3>4
    <2> QED BY <2>5, <2>6
  <1>2. IInv => [RunIdle => Settled]_vars
    BY <1>1
  <1> QED BY <1>2, Inductive, PTL DEF IdleIsSettled
==============================================================================
