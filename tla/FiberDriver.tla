----------------------------- MODULE FiberDriver -----------------------------
(***************************************************************************)
(* The orchestrator that runs the fibers of a session and the cooperative  *)
(* stepper they run:                                                       *)
(*                                                                         *)
(*   ai-organ-logic/src/orchestratorCapsule/internals/decisions.ts         *)
(*   ai-organ-logic/src/orchestratorCapsule/internals/driverRuntime.ts     *)
(*   ai-organ-logic/src/exec/AiAgentExecutor.ts    aiAgentCooperativeStep  *)
(*   ai-core-logic/src/runtime/DurableControlSignals.ts                    *)
(*                                                                         *)
(* The orchestrator is an actor: fiber_result, resume_fiber and tick are   *)
(* messages to it, handed out in this order.  A signal, by contrast,       *)
(* changes the fiber's mailbox and its record at once, from wherever it is *)
(* sent.  Ticks come with signals and from slices, the calls of            *)
(* tickUntilForegroundSettled and tickUntilBackgroundSettled with a wall   *)
(* budget that the coordinator's queue makes again and again: a tick is    *)
(* possible whenever a fiber is ready.  A slice with no fiber to dispatch  *)
(* looks for unread mail that woke nobody.  A suspended fiber's status is  *)
(* the reason it waits for.                                                *)
(***************************************************************************)
EXTENDS Integers, FiniteSets

CONSTANTS
    Fiber,
    Parent,       \* the fiber each delegate reports to; None for a fiber of its own
    Interactive,  \* fibers of interactive actors
    Background,   \* detached delegates: background lane, their childDone wakes nobody
    Limited,      \* fibers of actors whose model has an input limit
    MaxInputs,    \* bound: mail sent from outside, and answers the parser does not accept
    MaxCalls,     \* bound: tool calls
    MaxAsks,      \* bound: questionnaires of tools
    None

ASSUME FiberAssumption ==
    /\ None \notin Fiber
    /\ Parent \in [Fiber -> Fiber \cup {None}]
    /\ Interactive \subseteq Fiber
    /\ Background \subseteq {f \in Fiber : Parent[f] # None}
    /\ \A f \in Interactive : Parent[f] = None
    /\ Limited \subseteq Fiber
    /\ {MaxInputs, MaxCalls, MaxAsks} \subseteq Nat

VARIABLES
    status,          \* of the fiber's record, "none" before it is spawned
    phase,           \* of the stepper
    op,              \* a compression, an LLM call, a tool or a parse is under way
    spawned,         \* what the running tool has spawned: "none", "sync", "detached"
    mail,            \* kinds of unread mail; "marker": questionnaire_pending
    result,          \* fiber_result on its way to the orchestrator, or "none"
    resumes,         \* resume_fiber messages
    pendingResumes,
    signals,         \* idempotency keys of the childDone signals
    inputs, calls, asks

fibers == <<status, pendingResumes>>
messages == <<result, resumes>>
stepper == <<phase, op, spawned>>
counters == <<inputs, calls, asks>>
vars == <<fibers, stepper, mail, messages, signals, counters>>

Suspended == {"async", "child", "human", "idle"}
Waits == {"squeeze", "llm", "run", "parse"}  \* phases with an operation in flight
Wake == {"async", "input", "child", "answer"}

Lanes == {"fg", "bg"}
Lane(f) == IF f \in Background THEN "bg" ELSE "fg"

RootOf[f \in Fiber] ==
    IF f \in Interactive THEN f
    ELSE IF Parent[f] = None THEN None ELSE RootOf[Parent[f]]
------------------------------------------------------------------------------
\* A human wait pauses its own interactive root, or everyone when it has none.
Human == {f \in Fiber : status[f] = "human"}
PausedRoots == {RootOf[f] : f \in Human} \ {None}
PauseAll == \E f \in Human : Lane(f) = "fg" /\ RootOf[f] = None

Candidates(lane) ==
    {f \in Fiber : /\ status[f] = "ready" /\ Lane(f) = lane
                   /\ lane = "fg" => ~PauseAll /\ RootOf[f] \notin PausedRoots}

\* Mutant of HasRunnableMail: the marker of the questionnaire a fiber waits for counts.
HasAnyMail(f) == mail[f] # {}

\* hasRunnableWakeMailbox
HasRunnableMail(f) ==
    IF status[f] = "human" THEN mail[f] \ {"marker"} # {} ELSE mail[f] # {}

\* Mutant of Resumable: a failed fiber is as terminal as a completed one.
ResumableLive(lane) ==
    {f \in Fiber : /\ Lane(f) = lane /\ HasRunnableMail(f)
                   /\ status[f] \notin {"none", "running", "completed", "failed"}}

\* Fibers resumePendingWakeMailboxFibersWhere resumes.
Resumable(lane) ==
    {f \in Fiber : /\ Lane(f) = lane /\ HasRunnableMail(f)
                   /\ status[f] \notin {"none", "running", "completed"}}
------------------------------------------------------------------------------
Init ==
    /\ status = [f \in Fiber |-> IF Parent[f] = None THEN "ready" ELSE "none"]
    /\ phase = [f \in Fiber |-> IF Parent[f] = None THEN "drain" ELSE "seed"]
    /\ op = [f \in Fiber |-> FALSE]
    /\ spawned = [f \in Fiber |-> "none"]
    /\ mail = [f \in Fiber |-> {}]
    /\ result = [f \in Fiber |-> "none"]
    /\ resumes = {} /\ pendingResumes = {} /\ signals = {}
    /\ inputs = 0 /\ calls = 0 /\ asks = 0

\* Mutant of ApplyResume: a running fiber is made ready at once.
ApplyResumeNow(F) ==
    /\ status' = [f \in Fiber |-> IF f \in F /\ status[f] \in Suspended \cup {"failed", "running"}
                                  THEN "ready" ELSE status[f]]
    /\ pendingResumes' =
          (pendingResumes \ {f \in F : status[f] \in {"failed", "ready"}})
          \cup {f \in F : status[f] = "completed"}

\* applyResumeFiber for each fiber of F
ApplyResume(F) ==
    /\ status' = [f \in Fiber |-> IF f \in F /\ status[f] \in Suspended \cup {"failed"}
                                  THEN "ready" ELSE status[f]]
    /\ pendingResumes' =
          (pendingResumes \ {f \in F : status[f] \in {"failed", "ready"}})
          \cup {f \in F : status[f] \in {"running", "completed"}}

\* emitFiberSignal of class wake: mail for f, then its resume.
Signal(f, kind) ==
    /\ mail' = [mail EXCEPT ![f] = @ \cup {kind}]
    /\ ApplyResume({f})
------------------------------------------------------------------------------
(* The orchestrator's messages. *)

\* Mutant of OrchResult: a resume that came during the step is not looked at.
OrchResultOnly(f) ==
    /\ result[f] # "none"
    /\ result' = [result EXCEPT ![f] = "none"]
    /\ status' = [status EXCEPT ![f] =
          CASE result[f] = "yield" -> "ready"
            [] result[f] = "complete" -> "completed"
            [] result[f] = "fail" -> "failed"
            [] OTHER -> result[f]]
    /\ pendingResumes' = IF result[f] = "yield" THEN pendingResumes ELSE pendingResumes \ {f}
    /\ UNCHANGED <<stepper, mail, resumes, signals, counters>>

OrchResult(f) ==
    /\ result[f] # "none"
    /\ result' = [result EXCEPT ![f] = "none"]
    /\ status' = [status EXCEPT ![f] =
          CASE result[f] = "yield" -> "ready"
            [] result[f] = "complete" -> "completed"
            [] result[f] = "fail" -> "failed"
            [] OTHER -> IF f \in pendingResumes THEN "ready" ELSE result[f]]
    /\ pendingResumes' = IF result[f] = "yield" THEN pendingResumes ELSE pendingResumes \ {f}
    /\ UNCHANGED <<stepper, mail, resumes, signals, counters>>

NoResults == \A f \in Fiber : result[f] = "none"

OrchResume(f) ==
    /\ NoResults /\ f \in resumes
    /\ resumes' = resumes \ {f}
    /\ ApplyResume({f})
    /\ UNCHANGED <<stepper, mail, result, signals, counters>>

\* A tick for a lane: one of its ready fibers is sent its step; which one, priority and
\* age decide.
OrchTick(lane) ==
    /\ NoResults /\ resumes = {}
    /\ \E f \in Candidates(lane) : status' = [status EXCEPT ![f] = "running"]
    /\ UNCHANGED <<pendingResumes, stepper, mail, messages, signals, counters>>

\* A slice finds no ready fiber, but unread mail: its fibers are resumed.
MailboxScan(lane) ==
    /\ Candidates(lane) = {} /\ Resumable(lane) # {}
    /\ lane = "fg" => ~PauseAll
    /\ ApplyResume(Resumable(lane))
    /\ UNCHANGED <<stepper, mail, messages, signals, counters>>
------------------------------------------------------------------------------
(* The stepper.  A step reads the mailbox, decides and sends its result. *)

Stepping(f) == status[f] = "running" /\ result[f] = "none"

Report(f, r) == result' = [result EXCEPT ![f] = r]
Enter(f, p) == phase' = [phase EXCEPT ![f] = p]
Read(f, kinds) == mail' = [mail EXCEPT ![f] = @ \ kinds]

\* emitChildDoneToParent: the parent's signal.  One with a known key is not sent again;
\* that of a detached child wakes nobody.
ChildDone(f, r) ==
    LET p == Parent[f]
        left == [mail EXCEPT ![f] = @ \ {"async"}]
    IN  IF p = None \/ <<f, r>> \in signals
        THEN mail' = left /\ UNCHANGED <<fibers, signals>>
        ELSE /\ mail' = [left EXCEPT ![p] = @ \cup {"child"}]
             /\ signals' = signals \cup {<<f, r>>}
             /\ IF f \in Background THEN UNCHANGED <<fibers>>
                ELSE ApplyResume({p})

\* The parent hears of the end of f before the orchestrator gets the result.
Finish(f, r) == ChildDone(f, r) /\ Report(f, r)

\* Mutant of StepFails: a child's failure is not reported to its parent.
StepFailsAlone(f) ==
    /\ Stepping(f) /\ phase[f] \in {"start", "llm", "run"}
    /\ phase[f] \in Waits => "async" \in mail[f]
    /\ phase[f] = "start" => mail[f] = {}
    /\ Enter(f, "drain")
    /\ spawned' = [spawned EXCEPT ![f] = "none"]
    /\ Report(f, "fail") /\ Read(f, {"async"})
    /\ UNCHANGED <<fibers, signals, op, resumes, counters>>

\* A hook throws, the provider's call failed, or the tool's hook throws.
StepFails(f) ==
    /\ Stepping(f) /\ phase[f] \in {"start", "llm", "run"}
    /\ phase[f] \in Waits => "async" \in mail[f]
    /\ phase[f] = "start" => mail[f] = {}
    /\ Enter(f, "drain")
    /\ spawned' = [spawned EXCEPT ![f] = "none"]
    /\ Finish(f, "fail")
    /\ UNCHANGED <<op, resumes, counters>>

\* The phase before the model is called.  Without an input limit the compress phase only
\* yields, and is left out.
BeforeModel(f) == IF f \in Limited THEN "compress" ELSE "start"

\* The drain phase takes in everything; an answer goes to the parser first.
StepDrain(f) ==
    LET got == mail[f] \cap {"input", "child", "answer"}
        next == IF got = {} /\ phase[f] = "drain" THEN "drain"
                ELSE IF "answer" \in got THEN "parse" ELSE BeforeModel(f)
    IN  /\ Stepping(f) /\ phase[f] \in {"seed", "drain"}
        /\ Read(f, got)
        /\ Enter(f, next)
        /\ op' = [op EXCEPT ![f] = next = "parse"]
        /\ Report(f, CASE next = "drain" -> IF "marker" \in mail[f] THEN "human" ELSE "idle"
                       [] next = "parse" -> "async"
                       [] OTHER -> "yield")
        /\ UNCHANGED <<fibers, spawned, resumes, signals, counters>>

\* The history is near the model's limit and is compressed first, or it is not.
StepCompress(f, full) ==
    /\ Stepping(f) /\ phase[f] = "compress"
    /\ Enter(f, IF full THEN "squeeze" ELSE "start")
    /\ op' = [op EXCEPT ![f] = full]
    /\ Report(f, IF full THEN "async" ELSE "yield")
    /\ UNCHANGED <<fibers, spawned, mail, resumes, signals, counters>>

\* The compression is over; its failure is only logged.
StepCompressed(f) ==
    /\ Stepping(f) /\ phase[f] = "squeeze" /\ "async" \in mail[f]
    /\ Read(f, {"async"}) /\ Enter(f, "start") /\ Report(f, "yield")
    /\ UNCHANGED <<fibers, op, spawned, resumes, signals, counters>>

\* start_llm: mail that came meanwhile is drained before the model is called.
StepStart(f) ==
    LET again == mail[f] # {}
    IN  /\ Stepping(f) /\ phase[f] = "start"
        /\ Enter(f, IF again THEN "drain" ELSE "llm")
        /\ op' = [op EXCEPT ![f] = ~again]
        /\ Report(f, IF again THEN "yield" ELSE "async")
        /\ UNCHANGED <<fibers, spawned, mail, resumes, signals, counters>>

StepTool(f) ==
    /\ Stepping(f) /\ phase[f] = "tool"
    /\ Enter(f, "run")
    /\ op' = [op EXCEPT ![f] = TRUE]
    /\ Report(f, "async")
    /\ UNCHANGED <<fibers, spawned, mail, resumes, signals, counters>>

\* Woken while the operation is still under way: only its completion is read.
StepStillWaits(f) ==
    /\ Stepping(f) /\ phase[f] \in Waits /\ "async" \notin mail[f]
    /\ Report(f, "async")
    /\ UNCHANGED <<fibers, stepper, mail, resumes, signals, counters>>

\* The model asks for a tool.
StepCallsTool(f) ==
    /\ Stepping(f) /\ phase[f] = "llm" /\ "async" \in mail[f]
    /\ calls < MaxCalls /\ calls' = calls + 1
    /\ Read(f, {"async"}) /\ Enter(f, "tool") /\ Report(f, "yield")
    /\ UNCHANGED <<fibers, op, spawned, resumes, signals, inputs, asks>>

\* The turn ends, after the model's answer or after a stopping tool: an interactive actor
\* idles, a delegate is complete.  A tool may also stop the agent: it is complete.
StepEndsTurn(f, r) ==
    /\ Stepping(f) /\ phase[f] \in {"llm", "run"} /\ "async" \in mail[f]
    /\ phase[f] = "run" => "marker" \notin mail[f] /\ spawned[f] # "sync"
    /\ r = "idle" => Parent[f] = None
    /\ r = "complete" => Parent[f] # None \/ phase[f] = "run"
    /\ Enter(f, "drain")
    /\ spawned' = [spawned EXCEPT ![f] = "none"]
    /\ Finish(f, r)
    /\ UNCHANGED <<op, resumes, counters>>

\* The fiber idles and its parent is not told: the prompt was rejected before it was sent
\* (local_projection_rejected), or the turn has used up its iterations (max_iterations).
StepIdles(f) ==
    /\ Stepping(f) /\ phase[f] \in {"llm", "run"} /\ "async" \in mail[f]
    /\ phase[f] = "run" => "marker" \notin mail[f] /\ spawned[f] # "sync"
    /\ Read(f, {"async"})
    /\ Enter(f, IF phase[f] = "llm" THEN "start" ELSE "drain")
    /\ Report(f, "idle")
    /\ spawned' = [spawned EXCEPT ![f] = "none"]
    /\ UNCHANGED <<fibers, op, resumes, signals, counters>>

\* A tool's result: a question still unanswered, a child to wait for, the next call of the
\* model's answer (more), or the model's next turn.
StepToolDone(f, more) ==
    LET r == IF "marker" \in mail[f] THEN "human" ELSE IF spawned[f] = "sync" THEN "child" ELSE "yield"
    IN  /\ Stepping(f) /\ phase[f] = "run" /\ "async" \in mail[f]
        /\ more => r = "yield" /\ calls < MaxCalls
        /\ calls' = IF more THEN calls + 1 ELSE calls
        /\ Read(f, {"async"})
        /\ Enter(f, IF r # "yield" THEN "drain" ELSE IF more THEN "tool" ELSE "start")
        /\ Report(f, r)
        /\ spawned' = [spawned EXCEPT ![f] = "none"]
        /\ UNCHANGED <<fibers, op, resumes, signals, inputs, asks>>

\* The parser accepts the answer, or asks again; an answer it does not accept is one more input.
StepParsed(f, valid) ==
    /\ Stepping(f) /\ phase[f] = "parse" /\ "async" \in mail[f]
    /\ ~valid => inputs < MaxInputs
    /\ inputs' = IF valid THEN inputs ELSE inputs + 1
    /\ mail' = [mail EXCEPT ![f] = (@ \ {"async"}) \cup IF valid THEN {} ELSE {"marker"}]
    /\ Enter(f, IF valid THEN BeforeModel(f) ELSE "drain")
    /\ Report(f, IF valid THEN "yield" ELSE "human")
    /\ UNCHANGED <<fibers, op, spawned, resumes, signals, calls, asks>>

Step(f) ==
    \/ StepFails(f)
    \/ StepDrain(f)
    \/ \E full \in BOOLEAN : StepCompress(f, full)
    \/ StepCompressed(f)
    \/ StepStart(f)
    \/ StepTool(f)
    \/ StepStillWaits(f)
    \/ StepCallsTool(f)
    \/ \E r \in {"idle", "complete"} : StepEndsTurn(f, r)
    \/ StepIdles(f)
    \/ \E more \in BOOLEAN : StepToolDone(f, more)
    \/ \E valid \in BOOLEAN : StepParsed(f, valid)
------------------------------------------------------------------------------
(* Operations under way, and the world outside. *)

OpCompletes(f) ==
    /\ op[f]
    /\ op' = [op EXCEPT ![f] = FALSE]
    /\ Signal(f, "async")
    /\ UNCHANGED <<phase, spawned, result, resumes, signals, counters>>

\* A tool of the parent spawns child c.
SpawnFiber(c) ==
    LET p == Parent[c]
    IN  /\ p # None /\ status[c] = "none"
        /\ op[p] /\ phase[p] = "run" /\ spawned[p] = "none" /\ "marker" \notin mail[p]
        /\ status' = [status EXCEPT ![c] = "ready"]
        /\ spawned' = [spawned EXCEPT ![p] = IF c \in Background THEN "detached" ELSE "sync"]
        /\ UNCHANGED <<pendingResumes, phase, op, mail, messages, signals, counters>>

\* A tool publishes a questionnaire.
Ask(f) ==
    /\ op[f] /\ phase[f] = "run" /\ spawned[f] = "none" /\ "marker" \notin mail[f]
    /\ asks < MaxAsks /\ asks' = asks + 1
    /\ mail' = [mail EXCEPT ![f] = @ \cup {"marker"}]
    /\ UNCHANGED <<fibers, stepper, messages, signals, inputs, calls>>

\* The answer is signalled, then the marker is taken away.
Answer(f) ==
    /\ "marker" \in mail[f]
    /\ mail' = [mail EXCEPT ![f] = (@ \ {"marker"}) \cup {"answer"}]
    /\ ApplyResume({f})
    /\ UNCHANGED <<stepper, result, resumes, signals, counters>>

\* A heartbeat or another actor's mail.
Notify(f) ==
    /\ status[f] # "none"
    /\ inputs < MaxInputs /\ inputs' = inputs + 1
    /\ Signal(f, "input")
    /\ UNCHANGED <<stepper, messages, signals, calls, asks>>

\* An interactive turn: its input is signalled, then its fiber revived or resumed.
Deliver(f) ==
    LET over == status[f] = "completed"
    IN  /\ f \in Interactive
        /\ inputs < MaxInputs /\ inputs' = inputs + 1
        /\ mail' = [mail EXCEPT ![f] = @ \cup {"input"}]
        /\ IF over THEN /\ status' = [status EXCEPT ![f] = "ready"]
                        /\ pendingResumes' = pendingResumes \cup {f}
           ELSE ApplyResume({f})
        /\ resumes' = IF over THEN resumes ELSE resumes \cup {f}
        /\ UNCHANGED <<stepper, result, signals, calls, asks>>
------------------------------------------------------------------------------
Next ==
    \/ \E f \in Fiber :
          \/ OrchResult(f)
          \/ OrchResume(f)
          \/ Step(f)
          \/ OpCompletes(f)
          \/ SpawnFiber(f)
          \/ Ask(f)
          \/ Answer(f)
          \/ Notify(f)
          \/ Deliver(f)
    \/ \E lane \in Lanes : OrchTick(lane) \/ MailboxScan(lane)

Spec == Init /\ [][Next]_vars

(***************************************************************************)
(* Messages are handled, steps end and operations answer or time out.      *)
(* Slices of both lanes follow one another; a slice with a fiber to        *)
(* dispatch does so before its budget ends it, and one without is not      *)
(* ended before its scan every time.                                       *)
(***************************************************************************)
Fairness ==
    /\ WF_vars(\E f \in Fiber : OrchResult(f) \/ OrchResume(f))
    /\ WF_vars(\E f \in Fiber : Step(f))
    /\ WF_vars(\E f \in Fiber : OpCompletes(f))
    /\ \A lane \in Lanes : WF_vars(OrchTick(lane)) /\ WF_vars(MailboxScan(lane))

LiveSpec == Spec /\ Fairness
------------------------------------------------------------------------------
(* Every variable of the driver and of the stepper has its type. *)
TypeOK ==
    /\ status \in [Fiber -> Suspended \cup {"none", "ready", "running", "completed", "failed"}]
    /\ phase \in [Fiber -> Waits \cup {"seed", "drain", "compress", "start", "tool"}]
    /\ op \in [Fiber -> BOOLEAN] /\ spawned \in [Fiber -> {"none", "sync", "detached"}]
    /\ mail \in [Fiber -> SUBSET (Wake \cup {"marker"})]
    /\ result \in [Fiber -> Suspended \cup {"none", "yield", "complete", "fail"}]
    /\ resumes \subseteq Fiber /\ pendingResumes \subseteq Fiber
    /\ signals \subseteq Fiber \X {"complete", "fail"}
    /\ inputs \in 0..MaxInputs /\ calls \in 0..MaxCalls /\ asks \in 0..MaxAsks
    /\ \A f \in Fiber : result[f] # "none" => status[f] = "running"
    /\ \A f \in Fiber : op[f] => phase[f] \in Waits

(***************************************************************************)
(* A completion that arrives while its fiber is still running the step     *)
(* that started the operation is kept by pendingResumes: no suspended      *)
(* fiber has an unread asyncCompletion, and one that waits for an          *)
(* operation has it under way.                                             *)
(***************************************************************************)
CompletionKept ==
    \A f \in Fiber :
        status[f] \in Suspended =>
            /\ "async" \notin mail[f]
            /\ status[f] = "async" => op[f]

(***************************************************************************)
(* A fiber suspended for child_done is never abandoned: a synchronous      *)
(* child is still to report, or its report is in the mailbox, however the  *)
(* child ended and also when it ended before its parent began to wait.     *)
(* A child that idles without a report is still to report: it goes on when *)
(* mail wakes it (StepIdles; no code tells the parent).                    *)
(***************************************************************************)
NoAbandonedParent ==
    \A p \in Fiber :
        status[p] = "child" =>
            \/ "child" \in mail[p]
            \/ \E c \in Fiber \ Background : Parent[c] = p /\ status[c] \notin {"none", "completed", "failed"}

(***************************************************************************)
(* Mail is read: whatever is in the wake mailboxes of a fiber that has not *)
(* completed is read in the end, whether or not the signal that brought it *)
(* found the fiber suspended, unless a human wait pauses the fiber's       *)
(* interactive root.                                                       *)
(***************************************************************************)
MailIsRead ==
    <>[](\A f \in Fiber :
            mail[f] \cap Wake # {} => status[f] = "completed" \/ RootOf[f] \in PausedRoots)

(***************************************************************************)
(* The driver comes to rest: when no more mail comes from outside, fibers  *)
(* are neither ready nor running for ever, except those a human wait       *)
(* holds.  A questionnaire's marker, mail that a step cannot read yet and  *)
(* completed fibers with unread mail keep no fiber spinning.               *)
(***************************************************************************)
ComesToRest ==
    <>[](\A f \in Fiber : status[f] \in {"ready", "running"} => RootOf[f] \in PausedRoots)
==============================================================================
