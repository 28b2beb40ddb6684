------------------------------ MODULE Workflow ------------------------------
(***************************************************************************)
(* installer/internal/workflow and installer/internal/ui: the goroutine    *)
(* that runs the stages, the event loop of the TUI, the command that       *)
(* drains the log channel, and the goroutine of the Harbor port-forward,   *)
(* which logs what happens to the tunnel.  A step, a recovery or a log     *)
(* line is opaque; what a step does to the tunnel and to its stage's Data  *)
(* is kept.                                                                *)
(*                                                                         *)
(* Program.Send hands a message to the event loop, which never waits for   *)
(* anything: sending a message and Update are one step.  When the program  *)
(* quits or panics, everything else stops with it.                         *)
(***************************************************************************)
EXTENDS Naturals, FiniteSets

CONSTANTS
    Stages,         \* number of stages
    Steps,          \* Steps[s]: the number of steps of stage s
    Optional,       \* steps <<s, i>> with a When
    Recoverable,    \* steps <<s, i>> with a Recover
    OpenSteps,      \* steps <<s, i>> that open the port-forward anew
    CleanupStage,   \* the stage whose Cleanup is ClosePortForward
    LogCap,         \* capacity of the log channel
    BatchSize,      \* lines WaitForLog takes at once
    MaxRetries,     \* bound: how often the operator retries or restarts
    MaxDrops        \* bound: how often the tunnel drops

ASSUME WorkflowAssumption ==
    /\ Stages \in Nat \ {0}
    /\ Steps \in [1 .. Stages -> Nat]
    /\ CleanupStage \in 1 .. Stages
    /\ \A x \in OpenSteps : x[1] <= CleanupStage
    /\ LogCap \in Nat \ {0}
    /\ BatchSize \in Nat \ {0}
    /\ MaxRetries \in Nat
    /\ MaxDrops \in Nat

VARIABLES
    wf,         \* where the workflow goroutine stands
    stage,      \* the stage it runs
    step,       \* Runner.stepIndex + 1
    passed,     \* per stage, the steps behind it since the stage last began
    data,       \* the steps that wrote to the stage's Data, NoData if it is nil
    err,        \* runStage's err
    asker,      \* what the prompt belongs to: "run" or "recover"
    reply,      \* the prompt's reply channel
    mode,       \* Model.Mode, or how the program ended
    shownErr,   \* Model.Err is set
    log,        \* lines in the log channel
    closed,     \* the log channel is closed
    reader,     \* the WaitForLog command
    forward,    \* Discovery.HarborForward and its goroutine
    retries,
    drops

runner == <<stage, step, passed, data, err>>
prompts == <<asker, reply>>
screen == <<mode, shownErr>>
logs == <<log, closed, reader>>
bounds == <<retries, drops>>
workflowVars == <<wf, runner, prompts, screen, logs, forward, bounds>>

NoData == {0}

WorkflowInit ==
    /\ wf = "begin"
    /\ stage = 1
    /\ step = 1
    /\ passed = [s \in 1 .. Stages |-> {}]
    /\ data = NoData
    /\ err = FALSE
    /\ asker = "run"
    /\ reply = "none"
    /\ mode = "idle"
    /\ shownErr = FALSE
    /\ log = 0
    /\ closed = FALSE
    /\ reader = "waiting"
    /\ forward = "none"
    /\ retries = 0
    /\ drops = 0

Alive == mode \notin {"quit", "crashed"}

\* ChanWriter.emit waits for room in the channel.
Log == log < LogCap /\ log' = log + 1 /\ UNCHANGED <<closed, reader>>

Here == <<stage, step>>

----------------------------------------------------------------------------
(* runStage and runCurrentStep                                             *)

\* Mutant: a stage keeps its Data when it is begun again.
MutNewState == IF data = NoData THEN {} ELSE data

\* Stage.NewState, given to Runtime.Begin
NewState == {}

begin ==
    /\ Alive
    /\ wf = "begin"
    /\ Log
    /\ data' = NewState
    /\ passed' = [passed EXCEPT ![stage] = {}]
    /\ step' = 1
    /\ wf' = "step"
    /\ UNCHANGED <<stage, err, prompts, screen, forward, bounds>>

hasNextStep == step <= Steps[stage]

StepStart ==
    /\ Alive
    /\ wf = "step"
    /\ hasNextStep
    /\ Log
    /\ wf' = "run"
    /\ reply' = "none"
    /\ UNCHANGED <<runner, asker, screen, forward, bounds>>

StageDone ==
    /\ Alive
    /\ wf = "step"
    /\ ~hasNextStep
    /\ Log
    /\ wf' = "cleanup"
    /\ UNCHANGED <<runner, prompts, screen, forward, bounds>>

\* The step counts as passed: it ran, was skipped, or the operator goes on.
Pass ==
    /\ passed' = [passed EXCEPT ![stage] = @ \cup {step}]
    /\ step' = step + 1
    /\ wf' = "step"
    /\ UNCHANGED <<stage, err>>

skip ==
    /\ Alive
    /\ wf = "run"
    /\ reply = "none"
    /\ Here \in Optional
    /\ Log
    /\ Pass
    /\ UNCHANGED <<data, prompts, screen, forward, bounds>>

\* A step that closes the port-forward waits for its goroutine.
ForwardFree == Here \in OpenSteps => forward # "logging"

runDone ==
    /\ Alive
    /\ wf = "run"
    /\ reply \in {"none", "value"}
    /\ ForwardFree
    /\ Log
    /\ Pass
    /\ data' = data \cup {step}
    /\ forward' = IF Here \in OpenSteps THEN "up" ELSE forward
    /\ UNCHANGED <<prompts, screen, bounds>>

\* A step fails before or after it has written to Data or opened the tunnel; a
\* cancelled prompt fails the step that asked.
runFails ==
    /\ Alive
    /\ wf = "run"
    /\ reply \in {"none", "value", "cancelled"}
    /\ ForwardFree
    /\ Log
    /\ wf' = "recover"
    /\ reply' = "none"
    /\ data' \in {data, data \cup {step}}
    /\ forward' \in IF Here \in OpenSteps THEN {forward, "none", "up"} ELSE {forward}
    /\ UNCHANGED <<stage, step, passed, err, asker, screen, bounds>>

----------------------------------------------------------------------------
(* Reporter: a prompt of a step or of its recovery                         *)

\* Update refuses a prompt while another one is active, and one without options.
Prompt ==
    /\ Alive
    /\ wf \in {"run", "recover"}
    /\ wf = "recover" => Here \in Recoverable
    /\ reply = "none"
    /\ asker' = wf
    /\ wf' = "await"
    /\ \/ mode = "idle" /\ mode' = "prompt" /\ reply' = "pending"
       \/ reply' = "cancelled" /\ UNCHANGED mode
    /\ UNCHANGED <<runner, shownErr, logs, forward, bounds>>

\* handleInputKey, handleSelectKey and their kin: enter answers, esc cancels.
Answer ==
    /\ mode = "prompt"
    /\ reply' \in {"value", "cancelled"}
    /\ mode' = "idle"
    /\ UNCHANGED <<wf, runner, asker, shownErr, logs, forward, bounds>>

Replied ==
    /\ Alive
    /\ wf = "await"
    /\ reply # "pending"
    /\ wf' = asker
    /\ UNCHANGED <<runner, prompts, screen, logs, forward, bounds>>

----------------------------------------------------------------------------
(* recoverStep                                                             *)

FailStage ==
    /\ wf' = "cleanup"
    /\ err' = TRUE
    /\ UNCHANGED <<stage, step, passed, data>>

\* No Recover, an error of Recover, RecoveryFail, or an unknown action.
recoverFail ==
    /\ Alive
    /\ wf = "recover"
    /\ FailStage
    /\ UNCHANGED <<prompts, screen, logs, forward, bounds>>

MayRecover == Alive /\ wf = "recover" /\ Here \in Recoverable /\ reply # "cancelled"

recoverContinue ==
    /\ MayRecover
    /\ Log
    /\ Pass
    /\ UNCHANGED <<data, prompts, screen, forward, bounds>>

MayRetry == retries < MaxRetries /\ retries' = retries + 1 /\ UNCHANGED drops

\* Mutant: a retried step counts as done.
MutRecoverRetryStep ==
    /\ MayRecover
    /\ MayRetry
    /\ Log
    /\ step' = step + 1
    /\ wf' = "step"
    /\ UNCHANGED <<stage, passed, data, err, prompts, screen, forward>>

recoverRetryStep ==
    /\ MayRecover
    /\ MayRetry
    /\ Log
    /\ wf' = "step"
    /\ UNCHANGED <<runner, prompts, screen, forward>>

\* Mutant: the tunnel is left open.
MutCleanup == UNCHANGED forward

\* Runner.cleanup: Forward.Close waits for the goroutine.
cleanup ==
    IF stage = CleanupStage
    THEN forward # "logging" /\ forward' = "none"
    ELSE UNCHANGED forward

recoverRestartStage ==
    /\ MayRecover
    /\ MayRetry
    /\ cleanup
    /\ Log
    /\ wf' = "begin"
    /\ UNCHANGED <<runner, prompts, screen>>

\* runStage's deferred function, and execution's loop.
endStage ==
    /\ Alive
    /\ wf = "cleanup"
    /\ cleanup
    /\ data' = NoData
    /\ IF err \/ stage = Stages
       THEN wf' = "ended" /\ UNCHANGED <<stage, step>>
       ELSE wf' = "begin" /\ stage' = stage + 1 /\ step' = 1
    /\ UNCHANGED <<passed, err, prompts, screen, logs, bounds>>

----------------------------------------------------------------------------
(* The end of the workflow, and the TUI                                    *)

\* WorkflowDoneMessage
SendDone ==
    /\ Alive
    /\ wf = "ended"
    /\ mode' = "done"
    /\ shownErr' = err
    /\ wf' = "sent"
    /\ UNCHANGED <<runner, prompts, logs, forward, bounds>>

CloseLogs ==
    /\ Alive
    /\ wf = "sent"
    /\ closed' = TRUE
    /\ wf' = "exited"
    /\ UNCHANGED <<runner, prompts, screen, log, reader, forward, bounds>>

WaitForLog ==
    /\ Alive
    /\ reader = "waiting"
    /\ \/ /\ log > 0
          /\ log' = IF log > BatchSize THEN log - BatchSize ELSE 0
          /\ reader' = "message"
       \/ /\ log = 0
          /\ closed
          /\ reader' = "stopped"
          /\ UNCHANGED log
    /\ UNCHANGED <<wf, runner, prompts, screen, closed, forward, bounds>>

\* Mutant: lines are not waited for while a prompt is shown.
MutNextRead == IF mode = "prompt" THEN "stopped" ELSE "waiting"

\* The command that Update returns for a LogMessage
NextRead == "waiting"

LogMessage ==
    /\ Alive
    /\ reader = "message"
    /\ reader' = NextRead
    /\ UNCHANGED <<wf, runner, prompts, screen, log, closed, forward, bounds>>

\* handleIdleKey and handleDoneKey
Quit ==
    /\ mode \in {"idle", "done"}
    /\ mode' = "quit"
    /\ UNCHANGED <<wf, runner, prompts, shownErr, logs, forward, bounds>>

----------------------------------------------------------------------------
(* The port-forward's goroutine (supervise)                                *)

TunnelDrops ==
    /\ Alive
    /\ forward = "up"
    /\ drops < MaxDrops
    /\ drops' = drops + 1
    /\ forward' = "logging"
    /\ UNCHANGED <<wf, runner, prompts, screen, logs, retries>>

\* The tunnel is replaced, or given up.
ForwardLogs ==
    /\ Alive
    /\ forward = "logging"
    /\ ~closed
    /\ Log
    /\ forward' \in {"up", "gone"}
    /\ UNCHANGED <<wf, runner, prompts, screen, bounds>>

\* A send on a closed channel panics.
ForwardPanics ==
    /\ Alive
    /\ forward = "logging"
    /\ closed
    /\ mode' = "crashed"
    /\ UNCHANGED <<wf, runner, prompts, shownErr, logs, forward, bounds>>

Terminated == ~Alive /\ UNCHANGED workflowVars

----------------------------------------------------------------------------
RunnerStep ==
    \/ begin \/ StepStart \/ StageDone \/ skip \/ runDone \/ runFails
    \/ Prompt \/ Replied \/ recoverFail \/ recoverContinue \/ recoverRetryStep
    \/ recoverRestartStage \/ endStage \/ SendDone \/ CloseLogs

Reading == WaitForLog \/ LogMessage

WorkflowNext ==
    \/ RunnerStep \/ Reading \/ Answer \/ Quit
    \/ TunnelDrops \/ ForwardLogs \/ ForwardPanics \/ Terminated

WorkflowSpec == WorkflowInit /\ [][WorkflowNext]_workflowVars

\* Goroutines run, steps end, and the operator answers a prompt.
WorkflowFairness ==
    /\ WF_workflowVars(RunnerStep)
    /\ WF_workflowVars(Reading)
    /\ WF_workflowVars(ForwardLogs)
    /\ WF_workflowVars(Answer)

FairWorkflow == WorkflowSpec /\ WorkflowFairness

----------------------------------------------------------------------------
(* Properties                                                              *)

\* Every variable has its type.
WorkflowTypeOK ==
    /\ wf \in {"begin", "step", "run", "await", "recover", "cleanup", "ended", "sent", "exited"}
    /\ stage \in 1 .. Stages
    /\ step \in 1 .. Steps[stage] + 1
    /\ passed \in [1 .. Stages -> SUBSET Nat]
    /\ data \in SUBSET Nat
    /\ err \in BOOLEAN
    /\ asker \in {"run", "recover"}
    /\ reply \in {"none", "pending", "value", "cancelled"}
    /\ mode \in {"idle", "prompt", "done", "quit", "crashed"}
    /\ shownErr \in BOOLEAN
    /\ log \in 0 .. LogCap
    /\ closed \in BOOLEAN
    /\ reader \in {"waiting", "message", "stopped"}
    /\ forward \in {"none", "up", "logging", "gone"}
    /\ retries \in 0 .. MaxRetries
    /\ drops \in 0 .. MaxDrops

\* "Workflow complete." is shown only when every step of every stage ran, was
\* skipped or was passed over by the operator, since its stage last began.
CompleteMeansAllPassed ==
    mode = "done" /\ ~shownErr => \A s \in 1 .. Stages : passed[s] = 1 .. Steps[s]

\* A stage that is begun again sees nothing of the steps it ran before: its Data
\* comes from NewState, and StageData never finds nil.
StageDataFresh ==
    wf \in {"step", "run", "await", "recover"} => data \subseteq 1 .. step

\* However the stage with ClosePortForward ends, no port-forward outlives it,
\* and so none writes to the log channel that is closed later.
TunnelClosedAfterCleanup ==
    stage > CleanupStage \/ (stage = CleanupStage /\ wf \in {"ended", "sent", "exited"}) =>
        forward = "none" /\ mode # "crashed"

\* The screen that ends the run, from which the logs can be saved, stays until
\* the operator leaves it.
DoneScreenStays == mode # "crashed"

\* The workflow comes to its end: it never waits for room in the log channel or
\* for the port-forward's goroutine forever.
WorkflowEnds == <>(mode \in {"done", "quit", "crashed"})

----------------------------------------------------------------------------
(* The parts of the inductive invariant                                    *)

InStage == wf \in {"step", "run", "await", "recover"}
Over == wf \in {"ended", "sent", "exited"}

\* The steps behind the runner are the ones before step, in order.
PassedSoFar ==
    /\ \A s \in 1 .. stage - 1 : passed[s] = 1 .. Steps[s]
    /\ InStage => passed[stage] = 1 .. step - 1
    /\ wf \in {"run", "await", "recover"} => step <= Steps[stage]
    /\ wf = "cleanup" /\ ~err => passed[stage] = 1 .. Steps[stage]
    /\ Over /\ ~err => stage = Stages /\ passed[stage] = 1 .. Steps[stage]

ErrorKept ==
    /\ err => wf = "cleanup" \/ Over
    /\ mode = "done" => wf \in {"sent", "exited"} /\ shownErr = err

TunnelClosed ==
    /\ stage > CleanupStage \/ (stage = CleanupStage /\ Over) => forward = "none"
    /\ mode = "crashed" => forward = "logging"

WorkflowInv == WorkflowTypeOK /\ PassedSoFar /\ ErrorKept /\ StageDataFresh /\ TunnelClosed
=============================================================================
