-------------------------- MODULE FiberDriverProofs --------------------------
(***************************************************************************)
(* Proofs about FiberDriver, for every set of fibers, every assignment of  *)
(* parents, lanes and interactive roots, and all bounds.                   *)
(***************************************************************************)
EXTENDS FiberDriver, TLAPS

(***************************************************************************)
(* The inductive invariant.  The first part says where an operation is:    *)
(* under way, or answered in the mailbox, exactly in the phases that wait  *)
(* for one.                                                                *)
(***************************************************************************)
OperationOK(f) ==
    /\ phase[f] \in Waits => op[f] \/ "async" \in mail[f]
    /\ "async" \in mail[f] => phase[f] \in Waits /\ ~op[f]
    /\ spawned[f] # "none" => phase[f] = "run"

(***************************************************************************)
(* What a result on its way to the orchestrator says about its fiber.  A   *)
(* completion that came after the step is in pendingResumes; the end of a  *)
(* child was signalled before its result was sent.                         *)
(***************************************************************************)
ResultOK(f) ==
    /\ result[f] = "async" => phase[f] \in Waits /\ ("async" \in mail[f] => f \in pendingResumes)
    /\ result[f] \in {"human", "child", "idle"} => phase[f] \notin Waits
    /\ result[f] \in {"complete", "fail"} /\ Parent[f] # None => <<f, result[f]>> \in signals
    /\ status[f] = "none" => \A r \in {"complete", "fail"} : <<f, r>> \notin signals

\* A child that still owes its first report.
Unreported(c) ==
    /\ status[c] \notin {"none", "completed", "failed"}
    /\ \A r \in {"complete", "fail"} : <<c, r>> \notin signals

\* From the spawn of a synchronous child until its parent is resumed, the report is in the
\* mailbox or still to come.
ChildOK(p) ==
    spawned[p] = "sync" \/ result[p] = "child" \/ status[p] = "child" =>
        \/ "child" \in mail[p]
        \/ \E c \in Fiber \ Background : Parent[c] = p /\ Unreported(c)

IInv ==
    /\ TypeOK
    /\ CompletionKept
    /\ \A f \in Fiber : OperationOK(f) /\ ResultOK(f) /\ ChildOK(f)
------------------------------------------------------------------------------
\* The functions of the state are functions of the fibers.
LEMMA Domains ==
    ASSUME TypeOK
    PROVE  /\ DOMAIN status = Fiber /\ DOMAIN phase = Fiber /\ DOMAIN op = Fiber
           /\ DOMAIN spawned = Fiber /\ DOMAIN mail = Fiber /\ DOMAIN result = Fiber
  BY DEF TypeOK

\* A fiber whose result is on its way is still running.
LEMMA ResultWhileRunning ==
    ASSUME TypeOK, NEW g \in Fiber, result[g] # "none"
    PROVE  status[g] = "running"
  BY DEF TypeOK

\* applyResumeFiber makes suspended and failed fibers ready, and remembers running ones.
LEMMA ResumeFacts ==
    ASSUME TypeOK, NEW F \in SUBSET Fiber, ApplyResume(F)
    PROVE  /\ status' \in [Fiber -> Suspended \cup {"none", "ready", "running", "completed", "failed"}]
           /\ pendingResumes' \subseteq Fiber
           /\ \A g \in Fiber :
                 /\ \/ status'[g] = status[g]
                    \/ g \in F /\ status'[g] = "ready" /\ status[g] \notin {"none", "running", "completed", "ready"}
                 /\ g \in F => status'[g] \notin Suspended
                 /\ status[g] = "running" => (g \in pendingResumes' <=> g \in pendingResumes \/ g \in F)
  <1> DEFINE Was == Suspended \cup {"failed"}
  <1>1. \A g \in Fiber : status'[g] = IF g \in F /\ status[g] \in Was THEN "ready" ELSE status[g]
    BY DEF ApplyResume
  <1>2. status' \in [Fiber -> Suspended \cup {"none", "ready", "running", "completed", "failed"}]
    <2>1. status' = [g \in Fiber |-> IF g \in F /\ status[g] \in Was THEN "ready" ELSE status[g]]
      BY DEF ApplyResume
    <2> HIDE DEF Was
    <2> QED BY <2>1 DEF TypeOK
  <1>3. pendingResumes' \subseteq Fiber
    BY DEF TypeOK, ApplyResume
  <1>4. ASSUME NEW g \in Fiber
        PROVE  /\ \/ status'[g] = status[g]
                  \/ g \in F /\ status'[g] = "ready" /\ status[g] \notin {"none", "running", "completed", "ready"}
               /\ g \in F => status'[g] \notin Suspended
    <2>1. CASE g \in F /\ status[g] \in Was
      BY <1>1, <2>1 DEF Suspended
    <2>2. CASE ~(g \in F /\ status[g] \in Was)
      BY <1>1, <2>2
    <2> QED BY <2>1, <2>2
  <1>5. ASSUME NEW g \in Fiber, status[g] = "running"
        PROVE  g \in pendingResumes' <=> g \in pendingResumes \/ g \in F
    BY <1>5 DEF ApplyResume
  <1> QED BY <1>2, <1>3, <1>4, <1>5

\* The end of a step that finishes the turn, however the parent is told of it.
LEMMA Finishing ==
    ASSUME IInv, NEW f \in Fiber, NEW r \in {"idle", "complete", "fail"},
           Stepping(f), phase[f] \in Waits => "async" \in mail[f],
           r = "idle" => Parent[f] = None,
           Enter(f, "drain"), spawned' = [spawned EXCEPT ![f] = "none"],
           Finish(f, r), UNCHANGED <<op, resumes, counters>>
    PROVE  IInv'
  <1> DEFINE p == Parent[f]
  <1> USE Domains DEF Stepping
  <1>1. TypeOK /\ ~op[f] /\ result[f] = "none" /\ status[f] = "running"
    BY DEF IInv, OperationOK, TypeOK
  <1>2. /\ result' = [result EXCEPT ![f] = r] /\ phase' = [phase EXCEPT ![f] = "drain"]
        /\ op' = op /\ spawned' = [spawned EXCEPT ![f] = "none"]
    BY DEF Finish, Report, Enter
  <1>3. p # None => p \in Fiber
    BY FiberAssumption
  \* The mail that is there afterwards.
  <1>4. /\ mail' \in [Fiber -> SUBSET (Wake \cup {"marker"})]
        /\ "async" \notin mail'[f]
        /\ \A g \in Fiber : g # f => ("async" \in mail'[g] <=> "async" \in mail[g])
        /\ \A g \in Fiber : "child" \in mail[g] => "child" \in mail'[g]
        /\ p # None /\ <<f, r>> \notin signals => "child" \in mail'[p]
    BY <1>1, <1>3 DEF Finish, ChildDone, Wake, TypeOK
  <1>5. /\ signals \subseteq signals' /\ signals' \subseteq signals \cup {<<f, r>>}
        /\ p # None => <<f, r>> \in signals'
        /\ p = None => signals' = signals
    BY DEF Finish, ChildDone
  <1>6. /\ status' \in [Fiber -> Suspended \cup {"none", "ready", "running", "completed", "failed"}]
        /\ pendingResumes' \subseteq Fiber
        /\ \A g \in Fiber :
              /\ \/ status'[g] = status[g]
                 \/ status'[g] = "ready" /\ status[g] \notin {"none", "running", "completed", "ready"}
              /\ status[g] = "running" /\ g \in pendingResumes => g \in pendingResumes'
    <2>1. CASE UNCHANGED fibers
      <3>1. status' = status /\ pendingResumes' = pendingResumes
        BY <2>1 DEF fibers
      <3>2. status \in [Fiber -> Suspended \cup {"none", "ready", "running", "completed", "failed"}]
            /\ pendingResumes \subseteq Fiber
        BY <1>1 DEF TypeOK
      <3> QED BY ONLY <3>1, <3>2
    <2>2. CASE p # None /\ ApplyResume({p})
      <3>1. {p} \in SUBSET Fiber
        BY <1>3, <2>2
      <3> QED BY <1>1, <2>2, <3>1, ResumeFacts
    <2> QED BY <2>1, <2>2 DEF Finish, ChildDone, fibers
  <1>7. TypeOK'
    <2>1. signals' \subseteq Fiber \X {"complete", "fail"}
      BY <1>1, <1>5 DEF TypeOK
    <2>2. /\ phase' \in [Fiber -> Waits \cup {"seed", "drain", "compress", "start", "tool"}]
          /\ op' \in [Fiber -> BOOLEAN] /\ spawned' \in [Fiber -> {"none", "sync", "detached"}]
          /\ result' \in [Fiber -> Suspended \cup {"none", "yield", "complete", "fail"}]
          /\ \A g \in Fiber : op'[g] => phase'[g] \in Waits
      BY <1>1, <1>2 DEF TypeOK, Suspended, Waits
    <2>3. \A g \in Fiber : result'[g] # "none" => status'[g] = "running"
      BY <1>1, <1>2, <1>6, ResultWhileRunning
    <2> QED BY <1>1, <1>4, <1>6, <2>1, <2>2, <2>3 DEF TypeOK, counters
  <1>8. CompletionKept'
    BY <1>1, <1>2, <1>4, <1>6 DEF IInv, CompletionKept, Suspended
  <1>9. ASSUME NEW g \in Fiber PROVE OperationOK(g)'
    BY <1>1, <1>2, <1>4 DEF IInv, OperationOK, Waits
  <1>10. ASSUME NEW g \in Fiber PROVE ResultOK(g)'
    <2>1. CASE g = f
      BY <1>1, <1>2, <1>5, <1>6, <2>1 DEF ResultOK, Waits
    <2>2. CASE g # f
      <3>1. /\ result'[g] = result[g] /\ phase'[g] = phase[g] /\ ("async" \in mail'[g] <=> "async" \in mail[g])
            /\ \A x : <<g, x>> \in signals' <=> <<g, x>> \in signals
        BY <1>2, <1>4, <1>5, <2>2, <1>1
      <3>2. result[g] = "async" /\ g \in pendingResumes => g \in pendingResumes'
        BY <1>1, <1>6, ResultWhileRunning
      <3>3. status'[g] = "none" => status[g] = "none"
        BY <1>6
      <3> QED BY <3>1, <3>2, <3>3 DEF IInv, ResultOK
    <2> QED BY <2>1, <2>2
  <1>11. ASSUME NEW g \in Fiber PROVE ChildOK(g)'
    <2>1. SUFFICES ASSUME spawned'[g] = "sync" \/ result'[g] = "child" \/ status'[g] = "child",
                          "child" \notin mail'[g]
                   PROVE  \E c \in Fiber \ Background : Parent[c] = g /\ Unreported(c)'
      BY DEF ChildOK
    <2>2. PICK c \in Fiber \ Background : Parent[c] = g /\ Unreported(c)
      BY <1>1, <1>2, <1>4, <1>6, <2>1 DEF IInv, ChildOK
    <2>3. c # f
      BY <1>4, <2>1, <2>2, FiberAssumption DEF Unreported
    <2>4. Unreported(c)'
      BY <1>5, <1>6, <2>2, <2>3 DEF Unreported
    <2> QED BY <2>2, <2>4
  <1> QED BY <1>7, <1>8, <1>9, <1>10, <1>11 DEF IInv

\* The orchestrator applies a result: a completion that came meanwhile makes the fiber ready.
LEMMA KeepsOrchResult ==
    ASSUME IInv, NEW f \in Fiber, OrchResult(f)
    PROVE  IInv'
  <1> USE Domains DEF IInv, OrchResult, fibers, stepper, messages, counters
  <1>1. TypeOK'
    BY FiberAssumption DEF TypeOK, OperationOK, Suspended, Waits, Wake
  <1>2. CompletionKept'
    BY DEF CompletionKept, OperationOK, ResultOK, Suspended
  <1>3. ASSUME NEW g \in Fiber PROVE OperationOK(g)'
    BY DEF OperationOK, Waits
  <1>4. ASSUME NEW g \in Fiber PROVE ResultOK(g)'
    BY DEF ResultOK, OperationOK, Waits, Suspended
  <1>5. ASSUME NEW g \in Fiber PROVE ChildOK(g)'
    <2>1. SUFFICES ASSUME spawned'[g] = "sync" \/ result'[g] = "child" \/ status'[g] = "child",
                          "child" \notin mail'[g]
                   PROVE  \E c \in Fiber \ Background : Parent[c] = g /\ Unreported(c)'
      BY DEF ChildOK
    <2>2. PICK c \in Fiber \ Background : Parent[c] = g /\ Unreported(c)
      BY <2>1 DEF ChildOK
    <2>3. Unreported(c)'
      <3>1. c = f => result[f] \notin {"complete", "fail"}
        BY <2>2, FiberAssumption DEF Unreported, ResultOK
      <3>2. result[f] \in Suspended \cup {"yield", "complete", "fail"}
        BY DEF TypeOK
      <3> QED BY <2>2, <3>1, <3>2 DEF Unreported, Suspended
    <2> QED BY <2>2, <2>3
  <1> QED BY <1>1, <1>2, <1>3, <1>4, <1>5 DEF IInv

\* resume_fiber reaches the orchestrator.
LEMMA KeepsOrchResume ==
    ASSUME IInv, NEW f \in Fiber, OrchResume(f)
    PROVE  IInv'
  <1> USE Domains DEF IInv, OrchResume, ApplyResume, fibers, stepper, messages, counters
  <1>1. TypeOK'
    BY FiberAssumption DEF TypeOK, OperationOK, Suspended, Waits, Wake
  <1>2. CompletionKept'
    BY DEF CompletionKept, OperationOK, ResultOK, Suspended
  <1>3. ASSUME NEW g \in Fiber PROVE OperationOK(g)'
    BY DEF OperationOK, Waits
  <1>4. ASSUME NEW g \in Fiber PROVE ResultOK(g)'
    BY ResultWhileRunning DEF ResultOK, OperationOK, Waits, Suspended
  <1>5. ASSUME NEW g \in Fiber PROVE ChildOK(g)'
    BY DEF ChildOK, Unreported, OperationOK, Suspended
  <1> QED BY <1>1, <1>2, <1>3, <1>4, <1>5 DEF IInv

\* A tick dispatches a ready fiber.
LEMMA KeepsOrchTick ==
    ASSUME IInv, NEW lane \in Lanes, OrchTick(lane)
    PROVE  IInv'
  <1> USE Domains DEF IInv, OrchTick, Candidates, fibers, stepper, messages, counters
  <1>1. TypeOK'
    BY FiberAssumption DEF TypeOK, OperationOK, Suspended, Waits, Wake
  <1>2. CompletionKept'
    BY DEF CompletionKept, OperationOK, ResultOK, Suspended
  <1>3. ASSUME NEW g \in Fiber PROVE OperationOK(g)'
    BY DEF OperationOK, Waits
  <1>4. ASSUME NEW g \in Fiber PROVE ResultOK(g)'
    BY DEF ResultOK, OperationOK, Waits, Suspended
  <1>5. ASSUME NEW g \in Fiber PROVE ChildOK(g)'
    BY DEF ChildOK, Unreported, OperationOK, Suspended
  <1> QED BY <1>1, <1>2, <1>3, <1>4, <1>5 DEF IInv

\* A slice resumes the fibers with unread mail.
LEMMA KeepsMailboxScan ==
    ASSUME IInv, NEW lane \in Lanes, MailboxScan(lane)
    PROVE  IInv'
  <1> USE Domains DEF IInv, MailboxScan, Resumable, ApplyResume, fibers, stepper, messages, counters
  <1>1. TypeOK'
    BY FiberAssumption DEF TypeOK, OperationOK, Suspended, Waits, Wake
  <1>2. CompletionKept'
    BY DEF CompletionKept, OperationOK, ResultOK, Suspended
  <1>3. ASSUME NEW g \in Fiber PROVE OperationOK(g)'
    BY DEF OperationOK, Waits
  <1>4. ASSUME NEW g \in Fiber PROVE ResultOK(g)'
    BY ResultWhileRunning DEF ResultOK, OperationOK, Waits, Suspended
  <1>5. ASSUME NEW g \in Fiber PROVE ChildOK(g)'
    BY DEF ChildOK, Unreported, OperationOK, Suspended
  <1> QED BY <1>1, <1>2, <1>3, <1>4, <1>5 DEF IInv

\* A failed step is reported to the parent.
LEMMA KeepsStepFails ==
    ASSUME IInv, NEW f \in Fiber, StepFails(f)
    PROVE  IInv'
  BY Finishing DEF StepFails, counters

\* Draining the mailbox.
LEMMA KeepsStepDrain ==
    ASSUME IInv, NEW f \in Fiber, StepDrain(f)
    PROVE  IInv'
  <1> USE Domains DEF IInv, StepDrain, BeforeModel, Report, Enter, Read, Stepping, fibers, stepper, messages, counters
  <1>1. TypeOK'
    BY FiberAssumption DEF TypeOK, OperationOK, Suspended, Waits, Wake
  <1>2. CompletionKept'
    BY DEF CompletionKept, OperationOK, ResultOK, Suspended
  <1>3. ASSUME NEW g \in Fiber PROVE OperationOK(g)'
    BY DEF OperationOK, Waits
  <1>4. ASSUME NEW g \in Fiber PROVE ResultOK(g)'
    BY DEF ResultOK, OperationOK, Waits, Suspended
  <1>5. ASSUME NEW g \in Fiber PROVE ChildOK(g)'
    BY DEF ChildOK, Unreported, OperationOK, Suspended
  <1> QED BY <1>1, <1>2, <1>3, <1>4, <1>5 DEF IInv

\* The history is compressed, or need not be.
LEMMA KeepsStepCompress ==
    ASSUME IInv, NEW f \in Fiber, NEW full \in BOOLEAN, StepCompress(f, full)
    PROVE  IInv'
  <1> USE Domains DEF IInv, StepCompress, Report, Enter, Stepping, fibers, stepper, messages, counters
  <1>1. TypeOK'
    BY FiberAssumption DEF TypeOK, OperationOK, Suspended, Waits, Wake
  <1>2. CompletionKept'
    BY DEF CompletionKept, OperationOK, ResultOK, Suspended
  <1>3. ASSUME NEW g \in Fiber PROVE OperationOK(g)'
    BY DEF OperationOK, Waits
  <1>4. ASSUME NEW g \in Fiber PROVE ResultOK(g)'
    BY DEF ResultOK, OperationOK, Waits, Suspended
  <1>5. ASSUME NEW g \in Fiber PROVE ChildOK(g)'
    BY DEF ChildOK, Unreported, OperationOK, Suspended
  <1> QED BY <1>1, <1>2, <1>3, <1>4, <1>5 DEF IInv

\* The compression is over.
LEMMA KeepsStepCompressed ==
    ASSUME IInv, NEW f \in Fiber, StepCompressed(f)
    PROVE  IInv'
  <1> USE Domains DEF IInv, StepCompressed, Report, Enter, Read, Stepping, fibers, stepper, messages, counters
  <1>1. TypeOK'
    BY FiberAssumption DEF TypeOK, OperationOK, Suspended, Waits, Wake
  <1>2. CompletionKept'
    BY DEF CompletionKept, OperationOK, ResultOK, Suspended
  <1>3. ASSUME NEW g \in Fiber PROVE OperationOK(g)'
    BY DEF OperationOK, Waits
  <1>4. ASSUME NEW g \in Fiber PROVE ResultOK(g)'
    BY DEF ResultOK, OperationOK, Waits, Suspended
  <1>5. ASSUME NEW g \in Fiber PROVE ChildOK(g)'
    BY DEF ChildOK, Unreported, OperationOK, Suspended
  <1> QED BY <1>1, <1>2, <1>3, <1>4, <1>5 DEF IInv

\* The model is called, or late mail drained first.
LEMMA KeepsStepStart ==
    ASSUME IInv, NEW f \in Fiber, StepStart(f)
    PROVE  IInv'
  <1> USE Domains DEF IInv, StepStart, Report, Enter, Stepping, fibers, stepper, messages, counters
  <1>1. TypeOK'
    BY FiberAssumption DEF TypeOK, OperationOK, Suspended, Waits, Wake
  <1>2. CompletionKept'
    BY DEF CompletionKept, OperationOK, ResultOK, Suspended
  <1>3. ASSUME NEW g \in Fiber PROVE OperationOK(g)'
    BY DEF OperationOK, Waits
  <1>4. ASSUME NEW g \in Fiber PROVE ResultOK(g)'
    BY DEF ResultOK, OperationOK, Waits, Suspended
  <1>5. ASSUME NEW g \in Fiber PROVE ChildOK(g)'
    BY DEF ChildOK, Unreported, OperationOK, Suspended
  <1> QED BY <1>1, <1>2, <1>3, <1>4, <1>5 DEF IInv

\* A tool is started.
LEMMA KeepsStepTool ==
    ASSUME IInv, NEW f \in Fiber, StepTool(f)
    PROVE  IInv'
  <1> USE Domains DEF IInv, StepTool, Report, Enter, Stepping, fibers, stepper, messages, counters
  <1>1. TypeOK'
    BY FiberAssumption DEF TypeOK, OperationOK, Suspended, Waits, Wake
  <1>2. CompletionKept'
    BY DEF CompletionKept, OperationOK, ResultOK, Suspended
  <1>3. ASSUME NEW g \in Fiber PROVE OperationOK(g)'
    BY DEF OperationOK, Waits
  <1>4. ASSUME NEW g \in Fiber PROVE ResultOK(g)'
    BY DEF ResultOK, OperationOK, Waits, Suspended
  <1>5. ASSUME NEW g \in Fiber PROVE ChildOK(g)'
    BY DEF ChildOK, Unreported, OperationOK, Suspended
  <1> QED BY <1>1, <1>2, <1>3, <1>4, <1>5 DEF IInv

\* A fiber woken too early goes on waiting.
LEMMA KeepsStepStillWaits ==
    ASSUME IInv, NEW f \in Fiber, StepStillWaits(f)
    PROVE  IInv'
  <1> USE Domains DEF IInv, StepStillWaits, Report, Stepping, fibers, stepper, messages, counters
  <1>1. TypeOK'
    BY FiberAssumption DEF TypeOK, OperationOK, Suspended, Waits, Wake
  <1>2. CompletionKept'
    BY DEF CompletionKept, OperationOK, ResultOK, Suspended
  <1>3. ASSUME NEW g \in Fiber PROVE OperationOK(g)'
    BY DEF OperationOK, Waits
  <1>4. ASSUME NEW g \in Fiber PROVE ResultOK(g)'
    BY DEF ResultOK, OperationOK, Waits, Suspended
  <1>5. ASSUME NEW g \in Fiber PROVE ChildOK(g)'
    BY DEF ChildOK, Unreported, OperationOK, Suspended
  <1> QED BY <1>1, <1>2, <1>3, <1>4, <1>5 DEF IInv

\* The model asks for a tool.
LEMMA KeepsStepCallsTool ==
    ASSUME IInv, NEW f \in Fiber, StepCallsTool(f)
    PROVE  IInv'
  <1> USE Domains DEF IInv, StepCallsTool, Report, Enter, Read, Stepping, fibers, stepper, messages, counters
  <1>1. TypeOK'
    BY FiberAssumption DEF TypeOK, OperationOK, Suspended, Waits, Wake
  <1>2. CompletionKept'
    BY DEF CompletionKept, OperationOK, ResultOK, Suspended
  <1>3. ASSUME NEW g \in Fiber PROVE OperationOK(g)'
    BY DEF OperationOK, Waits
  <1>4. ASSUME NEW g \in Fiber PROVE ResultOK(g)'
    BY DEF ResultOK, OperationOK, Waits, Suspended
  <1>5. ASSUME NEW g \in Fiber PROVE ChildOK(g)'
    BY DEF ChildOK, Unreported, OperationOK, Suspended
  <1> QED BY <1>1, <1>2, <1>3, <1>4, <1>5 DEF IInv

\* A turn ends.
LEMMA KeepsStepEndsTurn ==
    ASSUME IInv, NEW f \in Fiber, NEW r \in {"idle", "complete"}, StepEndsTurn(f, r)
    PROVE  IInv'
  BY Finishing DEF StepEndsTurn, counters

\* A fiber idles without a report.
LEMMA KeepsStepIdles ==
    ASSUME IInv, NEW f \in Fiber, StepIdles(f)
    PROVE  IInv'
  <1> USE Domains DEF IInv, StepIdles, Report, Enter, Read, Stepping, fibers, stepper, messages, counters
  <1>1. TypeOK'
    BY FiberAssumption DEF TypeOK, OperationOK, Suspended, Waits, Wake
  <1>2. CompletionKept'
    BY DEF CompletionKept, OperationOK, ResultOK, Suspended
  <1>3. ASSUME NEW g \in Fiber PROVE OperationOK(g)'
    BY DEF OperationOK, Waits
  <1>4. ASSUME NEW g \in Fiber PROVE ResultOK(g)'
    BY DEF ResultOK, OperationOK, Waits, Suspended
  <1>5. ASSUME NEW g \in Fiber PROVE ChildOK(g)'
    BY DEF ChildOK, Unreported, OperationOK, Suspended
  <1> QED BY <1>1, <1>2, <1>3, <1>4, <1>5 DEF IInv

\* A tool's result: a question, a child to wait for, or the next call.
LEMMA KeepsStepToolDone ==
    ASSUME IInv, NEW f \in Fiber, NEW more \in BOOLEAN, StepToolDone(f, more)
    PROVE  IInv'
  <1> USE Domains DEF IInv, StepToolDone, Report, Enter, Read, Stepping, fibers, stepper, messages, counters
  <1>1. TypeOK'
    BY FiberAssumption DEF TypeOK, OperationOK, Suspended, Waits, Wake
  <1>2. CompletionKept'
    BY DEF CompletionKept, OperationOK, ResultOK, Suspended
  <1>3. ASSUME NEW g \in Fiber PROVE OperationOK(g)'
    BY DEF OperationOK, Waits
  <1>4. ASSUME NEW g \in Fiber PROVE ResultOK(g)'
    BY DEF ResultOK, OperationOK, Waits, Suspended
  <1>5. ASSUME NEW g \in Fiber PROVE ChildOK(g)'
    BY DEF ChildOK, Unreported, OperationOK, Suspended
  <1> QED BY <1>1, <1>2, <1>3, <1>4, <1>5 DEF IInv

\* An answer is parsed.
LEMMA KeepsStepParsed ==
    ASSUME IInv, NEW f \in Fiber, NEW valid \in BOOLEAN, StepParsed(f, valid)
    PROVE  IInv'
  <1> USE Domains DEF IInv, StepParsed, BeforeModel, Report, Enter, Stepping, fibers, stepper, messages, counters
  <1>1. TypeOK'
    BY FiberAssumption DEF TypeOK, OperationOK, Suspended, Waits, Wake
  <1>2. CompletionKept'
    BY DEF CompletionKept, OperationOK, ResultOK, Suspended
  <1>3. ASSUME NEW g \in Fiber PROVE OperationOK(g)'
    BY DEF OperationOK, Waits
  <1>4. ASSUME NEW g \in Fiber PROVE ResultOK(g)'
    BY DEF ResultOK, OperationOK, Waits, Suspended
  <1>5. ASSUME NEW g \in Fiber PROVE ChildOK(g)'
    BY DEF ChildOK, Unreported, OperationOK, Suspended
  <1> QED BY <1>1, <1>2, <1>3, <1>4, <1>5 DEF IInv

\* An operation completes, whatever its fiber is doing.
LEMMA KeepsOpCompletes ==
    ASSUME IInv, NEW f \in Fiber, OpCompletes(f)
    PROVE  IInv'
  <1> USE Domains DEF IInv, OpCompletes, Signal, ApplyResume, fibers, stepper, messages, counters
  <1>1. TypeOK'
    BY FiberAssumption DEF TypeOK, OperationOK, Suspended, Waits, Wake
  <1>2. CompletionKept'
    BY DEF CompletionKept, OperationOK, ResultOK, Suspended
  <1>3. ASSUME NEW g \in Fiber PROVE OperationOK(g)'
    BY DEF OperationOK, TypeOK, Waits
  <1>4. ASSUME NEW g \in Fiber PROVE ResultOK(g)'
    BY ResultWhileRunning DEF ResultOK, OperationOK, Waits, Suspended
  <1>5. ASSUME NEW g \in Fiber PROVE ChildOK(g)'
    BY DEF ChildOK, Unreported, OperationOK, Suspended
  <1> QED BY <1>1, <1>2, <1>3, <1>4, <1>5 DEF IInv

\* A running tool spawns a child, which owes a report from here on.
LEMMA KeepsSpawnFiber ==
    ASSUME IInv, NEW f \in Fiber, SpawnFiber(f)
    PROVE  IInv'
  <1> USE Domains DEF IInv, SpawnFiber, fibers, stepper, messages, counters
  <1>1. TypeOK'
    BY FiberAssumption DEF TypeOK, OperationOK, Suspended, Waits, Wake
  <1>2. CompletionKept'
    BY DEF CompletionKept, OperationOK, ResultOK, Suspended
  <1>3. ASSUME NEW g \in Fiber PROVE OperationOK(g)'
    BY DEF OperationOK, Waits
  <1>4. ASSUME NEW g \in Fiber PROVE ResultOK(g)'
    BY DEF ResultOK, OperationOK, Waits, Suspended
  <1>5. ASSUME NEW g \in Fiber PROVE ChildOK(g)'
    <2>1. SUFFICES ASSUME spawned'[g] = "sync" \/ result'[g] = "child" \/ status'[g] = "child",
                          "child" \notin mail'[g]
                   PROVE  \E c \in Fiber \ Background : Parent[c] = g /\ Unreported(c)'
      BY DEF ChildOK
    <2>2. CASE g = Parent[f] /\ f \notin Background
      BY <2>2 DEF ResultOK, Unreported
    <2>3. CASE ~(g = Parent[f] /\ f \notin Background)
      <3>1. PICK c \in Fiber \ Background : Parent[c] = g /\ Unreported(c)
        BY <2>1, <2>3 DEF ChildOK
      <3> QED BY <3>1 DEF Unreported
    <2> QED BY <2>2, <2>3
  <1> QED BY <1>1, <1>2, <1>3, <1>4, <1>5 DEF IInv

\* A questionnaire is published.
LEMMA KeepsAsk ==
    ASSUME IInv, NEW f \in Fiber, Ask(f)
    PROVE  IInv'
  <1> USE Domains DEF IInv, Ask, fibers, stepper, messages, counters
  <1>1. TypeOK'
    BY FiberAssumption DEF TypeOK, OperationOK, Suspended, Waits, Wake
  <1>2. CompletionKept'
    BY DEF CompletionKept, OperationOK, ResultOK, Suspended
  <1>3. ASSUME NEW g \in Fiber PROVE OperationOK(g)'
    BY DEF OperationOK, Waits
  <1>4. ASSUME NEW g \in Fiber PROVE ResultOK(g)'
    BY DEF ResultOK, OperationOK, Waits, Suspended
  <1>5. ASSUME NEW g \in Fiber PROVE ChildOK(g)'
    BY DEF ChildOK, Unreported, OperationOK, Suspended
  <1> QED BY <1>1, <1>2, <1>3, <1>4, <1>5 DEF IInv

\* A questionnaire is answered.
LEMMA KeepsAnswer ==
    ASSUME IInv, NEW f \in Fiber, Answer(f)
    PROVE  IInv'
  <1> USE Domains DEF IInv, Answer, ApplyResume, fibers, stepper, messages, counters
  <1>1. TypeOK'
    BY FiberAssumption DEF TypeOK, OperationOK, Suspended, Waits, Wake
  <1>2. CompletionKept'
    BY DEF CompletionKept, OperationOK, ResultOK, Suspended
  <1>3. ASSUME NEW g \in Fiber PROVE OperationOK(g)'
    BY DEF OperationOK, Waits
  <1>4. ASSUME NEW g \in Fiber PROVE ResultOK(g)'
    BY ResultWhileRunning DEF ResultOK, OperationOK, Waits, Suspended
  <1>5. ASSUME NEW g \in Fiber PROVE ChildOK(g)'
    BY DEF ChildOK, Unreported, OperationOK, Suspended
  <1> QED BY <1>1, <1>2, <1>3, <1>4, <1>5 DEF IInv

\* Mail from outside.
LEMMA KeepsNotify ==
    ASSUME IInv, NEW f \in Fiber, Notify(f)
    PROVE  IInv'
  <1> USE Domains DEF IInv, Notify, Signal, ApplyResume, fibers, stepper, messages, counters
  <1>1. TypeOK'
    BY FiberAssumption DEF TypeOK, OperationOK, Suspended, Waits, Wake
  <1>2. CompletionKept'
    BY DEF CompletionKept, OperationOK, ResultOK, Suspended
  <1>3. ASSUME NEW g \in Fiber PROVE OperationOK(g)'
    BY DEF OperationOK, Waits
  <1>4. ASSUME NEW g \in Fiber PROVE ResultOK(g)'
    BY ResultWhileRunning DEF ResultOK, OperationOK, Waits, Suspended
  <1>5. ASSUME NEW g \in Fiber PROVE ChildOK(g)'
    BY DEF ChildOK, Unreported, OperationOK, Suspended
  <1> QED BY <1>1, <1>2, <1>3, <1>4, <1>5 DEF IInv

\* An interactive turn is delivered.
LEMMA KeepsDeliver ==
    ASSUME IInv, NEW f \in Fiber, Deliver(f)
    PROVE  IInv'
  <1> USE Domains DEF IInv, Deliver, ApplyResume, fibers, stepper, messages, counters
  <1>1. TypeOK'
    BY FiberAssumption DEF TypeOK, OperationOK, Suspended, Waits, Wake
  <1>2. CompletionKept'
    BY DEF CompletionKept, OperationOK, ResultOK, Suspended
  <1>3. ASSUME NEW g \in Fiber PROVE OperationOK(g)'
    BY DEF OperationOK, Waits
  <1>4. ASSUME NEW g \in Fiber PROVE ResultOK(g)'
    BY ResultWhileRunning DEF ResultOK, OperationOK, Waits, Suspended
  <1>5. ASSUME NEW g \in Fiber PROVE ChildOK(g)'
    <2>1. SUFFICES ASSUME spawned'[g] = "sync" \/ result'[g] = "child" \/ status'[g] = "child",
                          "child" \notin mail'[g]
                   PROVE  \E c \in Fiber \ Background : Parent[c] = g /\ Unreported(c)'
      BY DEF ChildOK
    <2>2. PICK c \in Fiber \ Background : Parent[c] = g /\ Unreported(c)
      BY <2>1 DEF ChildOK
    <2>3. Unreported(c)'
      BY <2>2 DEF Unreported
    <2> QED BY <2>2, <2>3
  <1> QED BY <1>1, <1>2, <1>3, <1>4, <1>5 DEF IInv
------------------------------------------------------------------------------
\* The invariant holds initially.
LEMMA InitInv == ASSUME Init PROVE IInv
  <1> USE DEF Init
  <1>1. TypeOK
    BY FiberAssumption DEF TypeOK, Suspended, Waits, Wake
  <1>2. CompletionKept
    BY DEF CompletionKept, Suspended
  <1>3. ASSUME NEW f \in Fiber PROVE OperationOK(f) /\ ResultOK(f) /\ ChildOK(f)
    BY DEF OperationOK, ResultOK, ChildOK, Waits
  <1> QED BY <1>1, <1>2, <1>3 DEF IInv

\* Every step of the stepper keeps the invariant.
LEMMA StepKeeps == ASSUME IInv, NEW f \in Fiber, Step(f) PROVE IInv'
  BY KeepsStepFails, KeepsStepDrain, KeepsStepCompress, KeepsStepCompressed, KeepsStepStart,
     KeepsStepTool, KeepsStepStillWaits, KeepsStepCallsTool, KeepsStepEndsTurn, KeepsStepIdles,
     KeepsStepToolDone, KeepsStepParsed DEF Step

\* Every action, and stuttering, keeps the invariant.
LEMMA NextKeeps == ASSUME IInv, [Next]_vars PROVE IInv'
  <1>1. CASE UNCHANGED vars
    <2> USE <1>1 DEF vars, fibers, stepper, messages, counters
    <2>1. TypeOK' /\ CompletionKept'
      BY DEF IInv, TypeOK, CompletionKept
    <2>2. ASSUME NEW f \in Fiber PROVE OperationOK(f)' /\ ResultOK(f)' /\ ChildOK(f)'
      BY DEF IInv, OperationOK, ResultOK, ChildOK, Unreported
    <2> QED BY <2>1, <2>2 DEF IInv
  <1>2. ASSUME NEW f \in Fiber,
               \/ OrchResult(f) \/ OrchResume(f) \/ Step(f) \/ OpCompletes(f) \/ SpawnFiber(f)
               \/ Ask(f) \/ Answer(f) \/ Notify(f) \/ Deliver(f)
        PROVE  IInv'
    BY <1>2, KeepsOrchResult, KeepsOrchResume, StepKeeps, KeepsOpCompletes, KeepsSpawnFiber,
       KeepsAsk, KeepsAnswer, KeepsNotify, KeepsDeliver
  <1>3. ASSUME NEW lane \in Lanes, OrchTick(lane) \/ MailboxScan(lane) PROVE IInv'
    BY <1>3, KeepsOrchTick, KeepsMailboxScan
  <1> QED BY <1>1, <1>2, <1>3 DEF Next

\* The invariant is an invariant of the driver.
LEMMA Inductive == Spec => []IInv
  BY InitInv, NextKeeps, PTL DEF Spec

\* Every variable of driver and stepper keeps its type, a result is on its way only from a
\* running fiber, and an operation is under way only in a phase that waits for it.
THEOREM TypeCorrect == Spec => []TypeOK
  <1>1. IInv => TypeOK
    BY DEF IInv
  <1> QED BY <1>1, Inductive, PTL

\* No completion of an operation is lost, whenever it arrives: before, during or after the
\* step that suspends the fiber for it.
THEOREM NoCompletionIsLost == Spec => []CompletionKept
  <1>1. IInv => CompletionKept
    BY DEF IInv
  <1> QED BY <1>1, Inductive, PTL

\* No parent waits for a synchronous child that has nothing left to report, however the child
\* ended and whenever it did.
THEOREM NoParentIsAbandoned == Spec => []NoAbandonedParent
  <1>1. IInv => NoAbandonedParent
    <2> SUFFICES ASSUME IInv, NEW p \in Fiber, status[p] = "child", "child" \notin mail[p]
                 PROVE  \E c \in Fiber \ Background :
                           Parent[c] = p /\ status[c] \notin {"none", "completed", "failed"}
      BY DEF NoAbandonedParent
    <2> QED BY DEF IInv, ChildOK, Unreported
  <1> QED BY <1>1, Inductive, PTL
==============================================================================
