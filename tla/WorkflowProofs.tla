--------------------------- MODULE WorkflowProofs ---------------------------
(***************************************************************************)
(* The runner of the workflow and the port-forward its stages work         *)
(* through.  The invariants of Workflow hold for any number of stages and  *)
(* steps, whatever the steps do, however often the operator retries and    *)
(* the tunnel drops, and for any capacity of the log channel; the          *)
(* supervised port-forward keeps its promises for any number of ports,     *)
(* attempts, faults and goroutines that call Close.                        *)
(***************************************************************************)
EXTENDS Workflow, PortForward, Integers, TLAPS

-----------------------------------------------------------------------------
(* The runner, the event loop and the log channel                          *)

\* The invariant holds before the first stage begins.
LEMMA WorkflowInitInv == WorkflowInit => WorkflowInv
<1> SUFFICES ASSUME WorkflowInit PROVE WorkflowInv
  OBVIOUS
<1> USE WorkflowAssumption DEF WorkflowInit
<1>1. WorkflowTypeOK
  <2>1. stage \in 1 .. Stages /\ step \in 1 .. Steps[stage] + 1
    OBVIOUS
  <2>2. passed \in [1 .. Stages -> SUBSET Nat] /\ data \in SUBSET Nat
    BY DEF NoData
  <2>3. log \in 0 .. LogCap /\ retries \in 0 .. MaxRetries /\ drops \in 0 .. MaxDrops
    OBVIOUS
  <2> QED BY <2>1, <2>2, <2>3 DEF WorkflowTypeOK
<1>2. PassedSoFar
  BY DEF PassedSoFar, InStage, Over
<1>3. ErrorKept /\ StageDataFresh /\ TunnelClosed
  BY DEF ErrorKept, StageDataFresh, TunnelClosed, Over
<1> QED BY <1>1, <1>2, <1>3 DEF WorkflowInv

\* The step of a later stage than CleanupStage does not open the tunnel.
LEMMA OpensEarly ==
  ASSUME WorkflowTypeOK, Here \in OpenSteps
  PROVE  stage <= CleanupStage
  BY WorkflowAssumption DEF Here, WorkflowTypeOK

\* Every action of Next preserves the invariant.
LEMMA WorkflowStepInv == WorkflowInv /\ [WorkflowNext]_workflowVars => WorkflowInv'
<1> SUFFICES ASSUME WorkflowInv, [WorkflowNext]_workflowVars PROVE WorkflowInv'
  OBVIOUS
<1> USE WorkflowAssumption DEF WorkflowInv, runner, prompts, screen, logs, bounds
<1>1. CASE begin
  <2>1. WorkflowTypeOK'
    BY <1>1 DEF begin, Log, NewState, WorkflowTypeOK
  <2>2. PassedSoFar'
    BY <1>1 DEF begin, Log, NewState, WorkflowTypeOK, PassedSoFar, InStage, Over
  <2>3. ErrorKept'
    BY <1>1 DEF begin, Log, NewState, WorkflowTypeOK, ErrorKept, Over
  <2>4. StageDataFresh'
    BY <1>1 DEF begin, Log, NewState, WorkflowTypeOK, StageDataFresh
  <2>5. TunnelClosed'
    BY <1>1 DEF begin, Log, NewState, WorkflowTypeOK, TunnelClosed, Over
  <2> QED BY <2>1, <2>2, <2>3, <2>4, <2>5
<1>2. CASE StepStart
  <2>1. WorkflowTypeOK'
    BY <1>2 DEF StepStart, Log, hasNextStep, WorkflowTypeOK
  <2>2. PassedSoFar'
    BY <1>2 DEF StepStart, Log, hasNextStep, WorkflowTypeOK, PassedSoFar, InStage, Over
  <2>3. ErrorKept'
    BY <1>2 DEF StepStart, Log, hasNextStep, WorkflowTypeOK, ErrorKept, Over
  <2>4. StageDataFresh'
    BY <1>2 DEF StepStart, Log, hasNextStep, WorkflowTypeOK, StageDataFresh
  <2>5. TunnelClosed'
    BY <1>2 DEF StepStart, Log, hasNextStep, WorkflowTypeOK, TunnelClosed, Over
  <2> QED BY <2>1, <2>2, <2>3, <2>4, <2>5
<1>3. CASE StageDone
  <2>1. WorkflowTypeOK'
    BY <1>3 DEF StageDone, Log, hasNextStep, WorkflowTypeOK
  <2>2. PassedSoFar'
    BY <1>3 DEF StageDone, Log, hasNextStep, WorkflowTypeOK, PassedSoFar, InStage, Over
  <2>3. ErrorKept'
    BY <1>3 DEF StageDone, Log, hasNextStep, WorkflowTypeOK, ErrorKept, Over
  <2>4. StageDataFresh'
    BY <1>3 DEF StageDone, Log, hasNextStep, WorkflowTypeOK, StageDataFresh
  <2>5. TunnelClosed'
    BY <1>3 DEF StageDone, Log, hasNextStep, WorkflowTypeOK, TunnelClosed, Over
  <2> QED BY <2>1, <2>2, <2>3, <2>4, <2>5
<1>4. CASE skip
  <2>1. WorkflowTypeOK'
    BY <1>4 DEF skip, Log, Pass, WorkflowTypeOK, PassedSoFar
  <2>2. PassedSoFar'
    BY <1>4 DEF skip, Log, Pass, WorkflowTypeOK, PassedSoFar, InStage, Over
  <2>3. ErrorKept'
    BY <1>4 DEF skip, Log, Pass, WorkflowTypeOK, ErrorKept, Over
  <2>4. StageDataFresh'
    BY <1>4 DEF skip, Log, Pass, WorkflowTypeOK, StageDataFresh
  <2>5. TunnelClosed'
    BY <1>4 DEF skip, Log, Pass, WorkflowTypeOK, TunnelClosed, Over
  <2> QED BY <2>1, <2>2, <2>3, <2>4, <2>5
<1>5. CASE runDone
  <2>1. WorkflowTypeOK'
    BY <1>5 DEF runDone, Log, Pass, WorkflowTypeOK, PassedSoFar
  <2>2. PassedSoFar'
    BY <1>5 DEF runDone, Log, Pass, WorkflowTypeOK, PassedSoFar, InStage, Over
  <2>3. ErrorKept'
    BY <1>5 DEF runDone, Log, Pass, WorkflowTypeOK, ErrorKept, Over
  <2>4. StageDataFresh'
    BY <1>5 DEF runDone, Log, Pass, WorkflowTypeOK, StageDataFresh
  <2>5. TunnelClosed'
    BY <1>5, OpensEarly DEF runDone, Log, Pass, Alive, WorkflowTypeOK, TunnelClosed, Over
  <2> QED BY <2>1, <2>2, <2>3, <2>4, <2>5
<1>6. CASE runFails
  <2>1. WorkflowTypeOK'
    BY <1>6 DEF runFails, Log, WorkflowTypeOK
  <2>2. PassedSoFar'
    BY <1>6 DEF runFails, Log, WorkflowTypeOK, PassedSoFar, InStage, Over
  <2>3. ErrorKept'
    BY <1>6 DEF runFails, Log, WorkflowTypeOK, ErrorKept, Over
  <2>4. StageDataFresh'
    BY <1>6 DEF runFails, Log, WorkflowTypeOK, StageDataFresh
  <2>5. TunnelClosed'
    BY <1>6, OpensEarly DEF runFails, Log, Alive, WorkflowTypeOK, TunnelClosed, Over
  <2> QED BY <2>1, <2>2, <2>3, <2>4, <2>5
<1>7. CASE Prompt
  <2>1. WorkflowTypeOK'
    BY <1>7 DEF Prompt, WorkflowTypeOK
  <2>2. PassedSoFar'
    BY <1>7 DEF Prompt, WorkflowTypeOK, PassedSoFar, InStage, Over
  <2>3. ErrorKept'
    BY <1>7 DEF Prompt, WorkflowTypeOK, ErrorKept, Over
  <2>4. StageDataFresh'
    BY <1>7 DEF Prompt, WorkflowTypeOK, StageDataFresh
  <2>5. TunnelClosed'
    BY <1>7 DEF Prompt, WorkflowTypeOK, TunnelClosed, Over
  <2> QED BY <2>1, <2>2, <2>3, <2>4, <2>5
<1>8. CASE Replied
  <2>1. WorkflowTypeOK'
    BY <1>8 DEF Replied, WorkflowTypeOK
  <2>2. PassedSoFar'
    BY <1>8 DEF Replied, WorkflowTypeOK, PassedSoFar, InStage, Over
  <2>3. ErrorKept'
    BY <1>8 DEF Replied, WorkflowTypeOK, ErrorKept, Over
  <2>4. StageDataFresh'
    BY <1>8 DEF Replied, WorkflowTypeOK, StageDataFresh
  <2>5. TunnelClosed'
    BY <1>8 DEF Replied, WorkflowTypeOK, TunnelClosed, Over
  <2> QED BY <2>1, <2>2, <2>3, <2>4, <2>5
<1>9. CASE recoverFail
  <2>1. WorkflowTypeOK'
    BY <1>9 DEF recoverFail, FailStage, WorkflowTypeOK
  <2>2. PassedSoFar'
    BY <1>9 DEF recoverFail, FailStage, WorkflowTypeOK, PassedSoFar, InStage, Over
  <2>3. ErrorKept'
    BY <1>9 DEF recoverFail, FailStage, WorkflowTypeOK, ErrorKept, Over
  <2>4. StageDataFresh'
    BY <1>9 DEF recoverFail, FailStage, WorkflowTypeOK, StageDataFresh
  <2>5. TunnelClosed'
    BY <1>9 DEF recoverFail, FailStage, WorkflowTypeOK, TunnelClosed, Over
  <2> QED BY <2>1, <2>2, <2>3, <2>4, <2>5
<1>10. CASE recoverContinue
  <2>1. WorkflowTypeOK'
    BY <1>10 DEF recoverContinue, Log, Pass, MayRecover, WorkflowTypeOK, PassedSoFar
  <2>2. PassedSoFar'
    BY <1>10 DEF recoverContinue, Log, Pass, MayRecover, WorkflowTypeOK, PassedSoFar, InStage, Over
  <2>3. ErrorKept'
    BY <1>10 DEF recoverContinue, Log, Pass, MayRecover, WorkflowTypeOK, ErrorKept, Over
  <2>4. StageDataFresh'
    BY <1>10 DEF recoverContinue, Log, Pass, MayRecover, WorkflowTypeOK, StageDataFresh
  <2>5. TunnelClosed'
    BY <1>10 DEF recoverContinue, Log, Pass, MayRecover, WorkflowTypeOK, TunnelClosed, Over
  <2> QED BY <2>1, <2>2, <2>3, <2>4, <2>5
<1>11. CASE recoverRetryStep
  <2>1. WorkflowTypeOK'
    BY <1>11 DEF recoverRetryStep, Log, MayRecover, MayRetry, WorkflowTypeOK
  <2>2. PassedSoFar'
    BY <1>11 DEF recoverRetryStep, Log, MayRecover, MayRetry, WorkflowTypeOK, PassedSoFar, InStage, Over
  <2>3. ErrorKept'
    BY <1>11 DEF recoverRetryStep, Log, MayRecover, MayRetry, WorkflowTypeOK, ErrorKept, Over
  <2>4. StageDataFresh'
    BY <1>11 DEF recoverRetryStep, Log, MayRecover, MayRetry, WorkflowTypeOK, StageDataFresh
  <2>5. TunnelClosed'
    BY <1>11 DEF recoverRetryStep, Log, MayRecover, MayRetry, WorkflowTypeOK, TunnelClosed, Over
  <2> QED BY <2>1, <2>2, <2>3, <2>4, <2>5
<1>12. CASE recoverRestartStage
  <2>1. WorkflowTypeOK'
    BY <1>12 DEF recoverRestartStage, Log, cleanup, MayRecover, MayRetry, WorkflowTypeOK
  <2>2. PassedSoFar'
    BY <1>12 DEF recoverRestartStage, Log, cleanup, MayRecover, MayRetry, WorkflowTypeOK, PassedSoFar, InStage, Over
  <2>3. ErrorKept'
    BY <1>12 DEF recoverRestartStage, Log, cleanup, MayRecover, MayRetry, WorkflowTypeOK, ErrorKept, Over
  <2>4. StageDataFresh'
    BY <1>12 DEF recoverRestartStage, Log, cleanup, MayRecover, MayRetry, WorkflowTypeOK, StageDataFresh
  <2>5. TunnelClosed'
    BY <1>12 DEF recoverRestartStage, Log, cleanup, MayRecover, MayRetry, WorkflowTypeOK, TunnelClosed, Over
  <2> QED BY <2>1, <2>2, <2>3, <2>4, <2>5
<1>13. CASE endStage
  <2>1. WorkflowTypeOK'
    BY <1>13 DEF endStage, cleanup, NoData, WorkflowTypeOK
  <2>2. PassedSoFar'
    BY <1>13 DEF endStage, cleanup, WorkflowTypeOK, PassedSoFar, InStage, Over
  <2>3. ErrorKept'
    BY <1>13 DEF endStage, cleanup, WorkflowTypeOK, ErrorKept, Over
  <2>4. StageDataFresh'
    BY <1>13 DEF endStage, cleanup, WorkflowTypeOK, StageDataFresh
  <2>5. TunnelClosed'
    BY <1>13 DEF endStage, cleanup, WorkflowTypeOK, TunnelClosed, Over
  <2> QED BY <2>1, <2>2, <2>3, <2>4, <2>5
<1>14. CASE SendDone
  <2>1. WorkflowTypeOK'
    BY <1>14 DEF SendDone, WorkflowTypeOK
  <2>2. PassedSoFar'
    BY <1>14 DEF SendDone, WorkflowTypeOK, PassedSoFar, InStage, Over
  <2>3. ErrorKept'
    BY <1>14 DEF SendDone, WorkflowTypeOK, ErrorKept, Over
  <2>4. StageDataFresh'
    BY <1>14 DEF SendDone, WorkflowTypeOK, StageDataFresh
  <2>5. TunnelClosed'
    BY <1>14 DEF SendDone, WorkflowTypeOK, TunnelClosed, Over
  <2> QED BY <2>1, <2>2, <2>3, <2>4, <2>5
<1>15. CASE CloseLogs
  <2>1. WorkflowTypeOK'
    BY <1>15 DEF CloseLogs, WorkflowTypeOK
  <2>2. PassedSoFar'
    BY <1>15 DEF CloseLogs, WorkflowTypeOK, PassedSoFar, InStage, Over
  <2>3. ErrorKept'
    BY <1>15 DEF CloseLogs, WorkflowTypeOK, ErrorKept, Over
  <2>4. StageDataFresh'
    BY <1>15 DEF CloseLogs, WorkflowTypeOK, StageDataFresh
  <2>5. TunnelClosed'
    BY <1>15 DEF CloseLogs, WorkflowTypeOK, TunnelClosed, Over
  <2> QED BY <2>1, <2>2, <2>3, <2>4, <2>5
<1>16. CASE WaitForLog
  <2>1. WorkflowTypeOK'
    BY <1>16 DEF WaitForLog, WorkflowTypeOK
  <2>2. PassedSoFar'
    BY <1>16 DEF WaitForLog, WorkflowTypeOK, PassedSoFar, InStage, Over
  <2>3. ErrorKept'
    BY <1>16 DEF WaitForLog, WorkflowTypeOK, ErrorKept, Over
  <2>4. StageDataFresh'
    BY <1>16 DEF WaitForLog, WorkflowTypeOK, StageDataFresh
  <2>5. TunnelClosed'
    BY <1>16 DEF WaitForLog, WorkflowTypeOK, TunnelClosed, Over
  <2> QED BY <2>1, <2>2, <2>3, <2>4, <2>5
<1>17. CASE LogMessage
  <2>1. WorkflowTypeOK'
    BY <1>17 DEF LogMessage, NextRead, WorkflowTypeOK
  <2>2. PassedSoFar'
    BY <1>17 DEF LogMessage, NextRead, WorkflowTypeOK, PassedSoFar, InStage, Over
  <2>3. ErrorKept'
    BY <1>17 DEF LogMessage, NextRead, WorkflowTypeOK, ErrorKept, Over
  <2>4. StageDataFresh'
    BY <1>17 DEF LogMessage, NextRead, WorkflowTypeOK, StageDataFresh
  <2>5. TunnelClosed'
    BY <1>17 DEF LogMessage, NextRead, WorkflowTypeOK, TunnelClosed, Over
  <2> QED BY <2>1, <2>2, <2>3, <2>4, <2>5
<1>18. CASE Answer
  <2>1. WorkflowTypeOK'
    BY <1>18 DEF Answer, WorkflowTypeOK
  <2>2. PassedSoFar'
    BY <1>18 DEF Answer, WorkflowTypeOK, PassedSoFar, InStage, Over
  <2>3. ErrorKept'
    BY <1>18 DEF Answer, WorkflowTypeOK, ErrorKept, Over
  <2>4. StageDataFresh'
    BY <1>18 DEF Answer, WorkflowTypeOK, StageDataFresh
  <2>5. TunnelClosed'
    BY <1>18 DEF Answer, WorkflowTypeOK, TunnelClosed, Over
  <2> QED BY <2>1, <2>2, <2>3, <2>4, <2>5
<1>19. CASE Quit
  <2>1. WorkflowTypeOK'
    BY <1>19 DEF Quit, WorkflowTypeOK
  <2>2. PassedSoFar'
    BY <1>19 DEF Quit, WorkflowTypeOK, PassedSoFar, InStage, Over
  <2>3. ErrorKept'
    BY <1>19 DEF Quit, WorkflowTypeOK, ErrorKept, Over
  <2>4. StageDataFresh'
    BY <1>19 DEF Quit, WorkflowTypeOK, StageDataFresh
  <2>5. TunnelClosed'
    BY <1>19 DEF Quit, WorkflowTypeOK, TunnelClosed, Over
  <2> QED BY <2>1, <2>2, <2>3, <2>4, <2>5
<1>20. CASE TunnelDrops
  <2>1. WorkflowTypeOK'
    BY <1>20 DEF TunnelDrops, WorkflowTypeOK
  <2>2. PassedSoFar'
    BY <1>20 DEF TunnelDrops, WorkflowTypeOK, PassedSoFar, InStage, Over
  <2>3. ErrorKept'
    BY <1>20 DEF TunnelDrops, WorkflowTypeOK, ErrorKept, Over
  <2>4. StageDataFresh'
    BY <1>20 DEF TunnelDrops, WorkflowTypeOK, StageDataFresh
  <2>5. TunnelClosed'
    BY <1>20 DEF TunnelDrops, WorkflowTypeOK, TunnelClosed, Over
  <2> QED BY <2>1, <2>2, <2>3, <2>4, <2>5
<1>21. CASE ForwardLogs
  <2>1. WorkflowTypeOK'
    BY <1>21 DEF ForwardLogs, Log, WorkflowTypeOK
  <2>2. PassedSoFar'
    BY <1>21 DEF ForwardLogs, Log, WorkflowTypeOK, PassedSoFar, InStage, Over
  <2>3. ErrorKept'
    BY <1>21 DEF ForwardLogs, Log, WorkflowTypeOK, ErrorKept, Over
  <2>4. StageDataFresh'
    BY <1>21 DEF ForwardLogs, Log, WorkflowTypeOK, StageDataFresh
  <2>5. TunnelClosed'
    BY <1>21 DEF ForwardLogs, Log, Alive, WorkflowTypeOK, TunnelClosed, Over
  <2> QED BY <2>1, <2>2, <2>3, <2>4, <2>5
<1>22. CASE ForwardPanics
  <2>1. WorkflowTypeOK'
    BY <1>22 DEF ForwardPanics, WorkflowTypeOK
  <2>2. PassedSoFar'
    BY <1>22 DEF ForwardPanics, WorkflowTypeOK, PassedSoFar, InStage, Over
  <2>3. ErrorKept'
    BY <1>22 DEF ForwardPanics, WorkflowTypeOK, ErrorKept, Over
  <2>4. StageDataFresh'
    BY <1>22 DEF ForwardPanics, WorkflowTypeOK, StageDataFresh
  <2>5. TunnelClosed'
    BY <1>22 DEF ForwardPanics, WorkflowTypeOK, TunnelClosed, Over
  <2> QED BY <2>1, <2>2, <2>3, <2>4, <2>5
<1>23. CASE UNCHANGED workflowVars
  BY <1>23 DEF workflowVars, WorkflowTypeOK, PassedSoFar, ErrorKept, StageDataFresh, TunnelClosed, InStage, Over
<1> QED BY <1>1, <1>2, <1>3, <1>4, <1>5, <1>6, <1>7, <1>8, <1>9, <1>10, <1>11, <1>12, <1>13, <1>14, <1>15, <1>16, <1>17, <1>18, <1>19, <1>20, <1>21, <1>22, <1>23 DEF WorkflowNext, RunnerStep, Reading, Terminated

\* The inductive invariant holds in every reachable state of the installer.
THEOREM WorkflowInvariance == WorkflowSpec => []WorkflowInv
BY WorkflowInitInv, WorkflowStepInv, PTL DEF WorkflowSpec

\* Every variable of the runner and of the TUI keeps its type.
THEOREM WorkflowTypeCorrect == WorkflowSpec => []WorkflowTypeOK
<1>1. WorkflowInv => WorkflowTypeOK
  BY DEF WorkflowInv
<1> QED BY <1>1, WorkflowInvariance, PTL

\* "Workflow complete." is never shown for a run that left a step out.
THEOREM CompleteIsComplete == WorkflowSpec => []CompleteMeansAllPassed
<1>1. WorkflowInv => CompleteMeansAllPassed
  <2> SUFFICES ASSUME WorkflowInv, mode = "done", ~shownErr, NEW s \in 1 .. Stages
               PROVE  passed[s] = 1 .. Steps[s]
    BY DEF CompleteMeansAllPassed
  <2>1. Over /\ ~err
    BY DEF WorkflowInv, ErrorKept, Over
  <2>2. stage = Stages /\ passed[stage] = 1 .. Steps[stage]
    BY <2>1 DEF WorkflowInv, PassedSoFar
  <2>3. s = Stages \/ s \in 1 .. stage - 1
    BY <2>2, WorkflowAssumption
  <2> QED BY <2>2, <2>3 DEF WorkflowInv, PassedSoFar
<1> QED BY <1>1, WorkflowInvariance, PTL

\* A stage that is begun again starts from Data of its own.
THEOREM DataIsFresh == WorkflowSpec => []StageDataFresh
<1>1. WorkflowInv => StageDataFresh
  BY DEF WorkflowInv
<1> QED BY <1>1, WorkflowInvariance, PTL

\* No port-forward outlives the stage that has to close it.
THEOREM TunnelDoesNotOutlive == WorkflowSpec => []TunnelClosedAfterCleanup
<1>1. WorkflowInv => TunnelClosedAfterCleanup
  BY DEF WorkflowInv, TunnelClosed, TunnelClosedAfterCleanup, Over
<1> QED BY <1>1, WorkflowInvariance, PTL

-----------------------------------------------------------------------------
(* The port-forward                                                         *)

\* Closing a session's stopCh, its end and its start keep the records typed.
LEMMA StopTyped ==
  ASSUME NEW f \in [Ids -> SessionRecords], NEW s \in Ids
  PROVE  [f EXCEPT ![s].stop = TRUE] \in [Ids -> SessionRecords]
  BY DEF SessionRecords

LEMMA EndTyped ==
  ASSUME NEW f \in [Ids -> SessionRecords], NEW s \in Ids
  PROVE  [f EXCEPT ![s].run = "ended"] \in [Ids -> SessionRecords]
  BY DEF SessionRecords

LEMMA DropTyped ==
  ASSUME NEW f \in [Ids -> SessionRecords], NEW s \in Ids
  PROVE  [f EXCEPT ![s].run = "ended", ![s].err = TRUE] \in [Ids -> SessionRecords]
  BY DEF SessionRecords

LEMMA ListenTyped ==
  ASSUME NEW f \in [Ids -> SessionRecords], NEW s \in Ids, NEW p \in Ports
  PROVE  [f EXCEPT ![s].run = "listening", ![s].port = p, ![s].ready = TRUE]
            \in [Ids -> SessionRecords]
  BY DEF SessionRecords

\* A session whose goroutine runs is the one in hand.
LEMMA LiveIsCurrent ==
  ASSUME OthersIdle, cur \in Ids, NEW s \in Ids, Live(s)
  PROVE  s = cur
<1>1. s \in Int /\ cur \in Int
  BY ForwardAssumption DEF Ids, MaxSessions
<1>2. ~(s < cur)
  BY <1>1 DEF OthersIdle, Live
<1>3. ~(s > cur)
  BY <1>1 DEF OthersIdle, Live
<1> QED
  BY <1>1, <1>2, <1>3

\* Init establishes the inductive invariant: one session is dialing.
LEMMA IndInvInit == Init => IndInv
<1> SUFFICES ASSUME Init PROVE IndInv
  OBVIOUS
<1>1. Ids = 1 .. (MaxFaults + 1) /\ 1 \in Ids
  BY ForwardAssumption DEF Ids, MaxSessions
<1>2. TypeOK
  <2>1. Session(LocalPort) \in SessionRecords /\ NotStarted \in SessionRecords
    BY ForwardAssumption DEF Session, NotStarted, SessionRecords, NoPort
  <2>2. sessions \in [Ids -> SessionRecords]
    BY <2>1 DEF Init
  <2>3. localPort \in Ports \cup {NoPort} /\ target \in Ports \cup {NoPort}
    BY ForwardAssumption DEF Init
  <2> QED
    <3>1. cur \in Ids /\ faults \in 0 .. MaxFaults /\ attempt \in 1 .. defaultReconnectAttempts
      BY <1>1, ForwardAssumption DEF Init
    <3>2. closer \in [Closers -> {"idle", "waiting", "blocked", "returned"}]
      BY DEF Init
    <3> QED
      BY <2>2, <2>3, <3>1, <3>2 DEF Init, TypeOK
<1>3. OthersIdle /\ Settled /\ ReadyHasPort
  BY <1>1 DEF Init, OthersIdle, Settled, ReadyHasPort, Session, NotStarted
<1>4. PortKept /\ CloseOrder
  BY <1>1 DEF Init, PortKept, CloseOrder, Session, Listening
<1> QED
  BY <1>2, <1>3, <1>4 DEF IndInv

\* Every step of the supervisor, of a session and of Close preserves it.
LEMMA IndInvStep == IndInv /\ [Next]_vars => IndInv'
<1> SUFFICES ASSUME IndInv, [Next]_vars PROVE IndInv'
  OBVIOUS
<1> USE ForwardAssumption DEF NoPort, IndInv, forwardVars, closeVars
<1>ids. Ids = 1 .. (MaxFaults + 1) /\ MaxSessions = MaxFaults + 1
  BY DEF Ids, MaxSessions
<1>typed. sessions \in [Ids -> SessionRecords] /\ cur \in Ids
  BY DEF TypeOK
<1>1. CASE Ready
  <2>1. TypeOK'
    BY <1>1, <1>ids DEF TypeOK, SessionRecords, Ready, KeepPort
  <2>2. OthersIdle' /\ Settled'
    BY <1>1, <1>ids DEF TypeOK, SessionRecords, OthersIdle, Settled, PortKept, Ready
  <2>3. ReadyHasPort'
    BY <1>1, <1>ids DEF TypeOK, SessionRecords, ReadyHasPort, Settled, OthersIdle, Ready
  <2>4. PortKept'
    BY <1>1, <1>ids DEF TypeOK, SessionRecords, ReadyHasPort, Settled, OthersIdle, PortKept, Listening, Ready, KeepPort
  <2>5. CloseOrder'
    BY <1>1, <1>ids DEF TypeOK, CloseOrder, PortKept, Settled, Ready
  <2> QED
    BY <2>1, <2>2, <2>3, <2>4, <2>5
<1>2. CASE SessionFails
  <2>1. TypeOK'
    <3>1. sessions' \in [Ids -> SessionRecords]
      BY <1>2, <1>typed, StopTyped DEF SessionFails, Abandon
    <3> QED
      BY <1>2, <3>1, <1>ids DEF TypeOK, SessionFails, Abandon
  <2>2. OthersIdle' /\ Settled'
    BY <1>2, <1>ids DEF TypeOK, SessionRecords, OthersIdle, Settled, PortKept, SessionFails, Abandon
  <2>3. ReadyHasPort'
    BY <1>2, <1>ids DEF TypeOK, SessionRecords, ReadyHasPort, Settled, OthersIdle, SessionFails, Abandon
  <2>4. PortKept'
    BY <1>2, <1>ids DEF TypeOK, SessionRecords, ReadyHasPort, Settled, OthersIdle, PortKept, Listening, SessionFails, Abandon
  <2>5. CloseOrder'
    BY <1>2, <1>ids DEF TypeOK, CloseOrder, PortKept, Settled, SessionFails, Abandon
  <2> QED
    BY <2>1, <2>2, <2>3, <2>4, <2>5
<1>3. CASE ConnectFailed
  <2>1. TypeOK'
    BY <1>3, <1>ids DEF TypeOK, SessionRecords, ConnectFailed, AttemptsLeft, SessionDone
  <2>2. OthersIdle' /\ Settled'
    BY <1>3, <1>ids DEF TypeOK, SessionRecords, OthersIdle, Settled, PortKept, ConnectFailed, AttemptsLeft, SessionDone
  <2>3. ReadyHasPort'
    BY <1>3, <1>ids DEF TypeOK, SessionRecords, ReadyHasPort, Settled, OthersIdle, ConnectFailed, AttemptsLeft, SessionDone
  <2>4. PortKept'
    BY <1>3, <1>ids DEF TypeOK, SessionRecords, ReadyHasPort, Settled, OthersIdle, PortKept, Listening, ConnectFailed, AttemptsLeft, SessionDone
  <2>5. CloseOrder'
    BY <1>3, <1>ids DEF TypeOK, CloseOrder, PortKept, Settled, ConnectFailed, AttemptsLeft, SessionDone
  <2> QED
    BY <2>1, <2>2, <2>3, <2>4, <2>5
<1>4. CASE StopRequested
  <2>1. TypeOK'
    <3>1. sessions' \in [Ids -> SessionRecords]
      BY <1>4, <1>typed, StopTyped DEF StopRequested
    <3> QED
      BY <1>4, <3>1, <1>ids DEF TypeOK, StopRequested
  <2>2. OthersIdle' /\ Settled'
    BY <1>4, <1>ids DEF TypeOK, SessionRecords, OthersIdle, Settled, PortKept, StopRequested
  <2>3. ReadyHasPort'
    BY <1>4, <1>ids DEF TypeOK, SessionRecords, ReadyHasPort, Settled, OthersIdle, StopRequested
  <2>4. PortKept'
    BY <1>4, <1>ids DEF TypeOK, SessionRecords, ReadyHasPort, Settled, OthersIdle, PortKept, Listening, StopRequested
  <2>5. CloseOrder'
    BY <1>4, <1>ids DEF TypeOK, CloseOrder, PortKept, Settled, StopRequested
  <2> QED
    BY <2>1, <2>2, <2>3, <2>4, <2>5
<1>5. CASE SessionClosed
  <2>1. TypeOK'
    BY <1>5, <1>ids DEF TypeOK, SessionRecords, SessionClosed, SessionDone
  <2>2. OthersIdle' /\ Settled'
    BY <1>5, <1>ids DEF TypeOK, SessionRecords, OthersIdle, Settled, PortKept, SessionClosed, SessionDone
  <2>3. ReadyHasPort'
    BY <1>5, <1>ids DEF TypeOK, SessionRecords, ReadyHasPort, Settled, OthersIdle, SessionClosed, SessionDone
  <2>4. PortKept'
    BY <1>5, <1>ids DEF TypeOK, SessionRecords, ReadyHasPort, Settled, OthersIdle, PortKept, Listening, SessionClosed, SessionDone
  <2>5. CloseOrder'
    BY <1>5, <1>ids DEF TypeOK, CloseOrder, PortKept, Settled, SessionClosed, SessionDone
  <2> QED
    BY <2>1, <2>2, <2>3, <2>4, <2>5
<1>6. CASE SessionDropped
  <2>1. TypeOK'
    BY <1>6, <1>ids DEF TypeOK, SessionRecords, SessionDropped, SessionDone
  <2>2. OthersIdle' /\ Settled'
    BY <1>6, <1>ids DEF TypeOK, SessionRecords, OthersIdle, Settled, PortKept, SessionDropped, SessionDone
  <2>3. ReadyHasPort'
    BY <1>6, <1>ids DEF TypeOK, SessionRecords, ReadyHasPort, Settled, OthersIdle, SessionDropped, SessionDone
  <2>4. PortKept'
    BY <1>6, <1>ids DEF TypeOK, SessionRecords, ReadyHasPort, Settled, OthersIdle, PortKept, Listening, SessionDropped, SessionDone
  <2>5. CloseOrder'
    BY <1>6, <1>ids DEF TypeOK, CloseOrder, PortKept, Settled, SessionDropped, SessionDone
  <2> QED
    BY <2>1, <2>2, <2>3, <2>4, <2>5
<1>7. CASE Reconnect
  <2>1. TypeOK'
    BY <1>7, <1>ids DEF TypeOK, SessionRecords, Reconnect, Session
  <2>2. OthersIdle' /\ Settled'
    BY <1>7, <1>ids DEF TypeOK, SessionRecords, OthersIdle, Settled, PortKept, Reconnect, Session
  <2>3. ReadyHasPort'
    BY <1>7, <1>ids DEF TypeOK, SessionRecords, ReadyHasPort, Settled, OthersIdle, Reconnect, Session
  <2>4. PortKept'
    BY <1>7, <1>ids DEF TypeOK, SessionRecords, ReadyHasPort, Settled, OthersIdle, PortKept, Listening, Reconnect, Session
  <2>5. CloseOrder'
    BY <1>7, <1>ids DEF TypeOK, CloseOrder, PortKept, Settled, Reconnect, Session
  <2> QED
    BY <2>1, <2>2, <2>3, <2>4, <2>5
<1>8. CASE WaitStopped
  <2>1. TypeOK'
    BY <1>8, <1>ids DEF TypeOK, SessionRecords, WaitStopped
  <2>2. OthersIdle' /\ Settled'
    BY <1>8, <1>ids DEF TypeOK, SessionRecords, OthersIdle, Settled, PortKept, WaitStopped
  <2>3. ReadyHasPort'
    BY <1>8, <1>ids DEF TypeOK, SessionRecords, ReadyHasPort, Settled, OthersIdle, WaitStopped
  <2>4. PortKept'
    BY <1>8, <1>ids DEF TypeOK, SessionRecords, ReadyHasPort, Settled, OthersIdle, PortKept, Listening, WaitStopped
  <2>5. CloseOrder'
    BY <1>8, <1>ids DEF TypeOK, CloseOrder, PortKept, Settled, WaitStopped
  <2> QED
    BY <2>1, <2>2, <2>3, <2>4, <2>5
<1>9. CASE Timeout
  <2>1. TypeOK'
    <3>1. sessions' \in [Ids -> SessionRecords]
      BY <1>9, <1>typed, StopTyped DEF Timeout, Abandon
    <3> QED
      BY <1>9, <3>1, <1>ids DEF TypeOK, Timeout, Abandon, Fault
  <2>2. OthersIdle' /\ Settled'
    BY <1>9, <1>ids DEF TypeOK, SessionRecords, OthersIdle, Settled, PortKept, Timeout, Abandon, Fault
  <2>3. ReadyHasPort'
    BY <1>9, <1>ids DEF TypeOK, SessionRecords, ReadyHasPort, Settled, OthersIdle, Timeout, Abandon, Fault
  <2>4. PortKept'
    BY <1>9, <1>ids DEF TypeOK, SessionRecords, ReadyHasPort, Settled, OthersIdle, PortKept, Listening, Timeout, Abandon, Fault
  <2>5. CloseOrder'
    BY <1>9, <1>ids DEF TypeOK, CloseOrder, PortKept, Settled, Timeout, Abandon, Fault
  <2> QED
    BY <2>1, <2>2, <2>3, <2>4, <2>5
<1>10. ASSUME NEW s \in Ids, Listen(s) PROVE IndInv'
  <2>1. PICK p \in Ports :
          /\ p \in Free(sessions[s].want)
          /\ sessions' = [sessions EXCEPT ![s].run = "listening", ![s].port = p, ![s].ready = TRUE]
    <3>1. sessions[s].want \in Ports \cup {NoPort}
      BY DEF TypeOK, SessionRecords
    <3> QED
      BY <1>10, <3>1 DEF Listen, Free
  <2>2. s = cur /\ sessions[s].run = "dialing"
    <3>1. sessions[s].run = "dialing"
      BY <1>10 DEF Listen
    <3> QED
      BY <3>1, <1>typed, LiveIsCurrent DEF Live
  <2>3. created => p = localPort /\ s # 1
    <3>1. created => sessions[s].want = localPort /\ localPort \in Ports /\ sessions[1].ready
      BY <2>2, <1>ids DEF PortKept, ReadyHasPort
    <3>2. sessions[s].want \in Ports => p = sessions[s].want
      BY <2>1 DEF Free
    <3>3. sessions[1].ready => s # 1
      BY <2>2, <1>ids DEF ReadyHasPort
    <3> QED
      BY <3>1, <3>2, <3>3
  <2>4. TypeOK'
    <3>1. sessions' \in [Ids -> SessionRecords]
      BY <2>1, <1>typed, ListenTyped
    <3> QED
      BY <1>10, <3>1 DEF TypeOK, Listen
  <2>5. OthersIdle' /\ Settled' /\ ReadyHasPort'
    BY <1>10, <2>1, <2>2, <1>ids DEF Listen, TypeOK, SessionRecords, OthersIdle, Settled, ReadyHasPort
  <2>6. PortKept'
    <3>1. sessions'[s].run = "listening" /\ sessions'[s].port = p /\ sessions'[s].ready
      BY <2>1, <1>typed DEF SessionRecords
    <3>2. sessions'[s].want = sessions[s].want
      BY <2>1, <1>typed DEF SessionRecords
    <3>3. \A t \in Ids : t # s => sessions'[t] = sessions[t]
      BY <2>1, <1>typed
    <3>4. \A t \in Ids : Listening(t)' /\ created => sessions'[t].port = localPort
      BY <2>3, <3>1, <3>3 DEF PortKept, Listening
    <3>5. UNCHANGED <<pc, created, cur, localPort, target>>
      BY <1>10 DEF Listen
    <3>6. 1 \in Ids
      BY <1>ids
    <3>7. created => sessions'[1] = sessions[1]
      BY <2>3, <3>3, <3>6
    <3>8. ~created => sessions'[1].want = sessions[1].want
      BY <2>2, <3>2 DEF PortKept
    <3> QED
      BY <2>2, <3>1, <3>4, <3>5, <3>7, <3>8 DEF PortKept
  <2>7. CloseOrder'
    BY <1>10 DEF Listen, CloseOrder
  <2> QED
    BY <2>4, <2>5, <2>6, <2>7
<1>11. ASSUME NEW s \in Ids, DialFails(s) PROVE IndInv'
  <2>1. TypeOK'
    <3>1. sessions' \in [Ids -> SessionRecords]
      BY <1>11, <1>typed, DropTyped DEF DialFails
    <3> QED
      BY <1>11, <3>1, <1>ids DEF TypeOK, DialFails, Fault
  <2>2. OthersIdle' /\ Settled'
    BY <1>11, <1>ids DEF TypeOK, SessionRecords, OthersIdle, Settled, PortKept, DialFails, Fault
  <2>3. ReadyHasPort'
    BY <1>11, <1>ids DEF TypeOK, SessionRecords, ReadyHasPort, Settled, OthersIdle, DialFails, Fault
  <2>4. PortKept'
    <3>1. s = cur
      BY <1>11, <1>typed, LiveIsCurrent DEF DialFails, Live
    <3>2. sessions'[s].run = "ended" /\ sessions'[s].want = sessions[s].want
      BY <1>11, <1>typed DEF DialFails, SessionRecords
    <3>3. \A t \in Ids : t # s => sessions'[t] = sessions[t]
      BY <1>11, <1>typed DEF DialFails
    <3>4. created => s # 1
      BY <1>11, <1>ids DEF DialFails, PortKept, ReadyHasPort
    <3> QED
      BY <1>11, <1>ids, <1>typed, <3>1, <3>2, <3>3, <3>4 DEF DialFails, PortKept, Listening
  <2>5. CloseOrder'
    BY <1>11, <1>ids DEF TypeOK, CloseOrder, PortKept, Settled, DialFails, Fault
  <2> QED
    BY <2>1, <2>2, <2>3, <2>4, <2>5
<1>12. ASSUME NEW s \in Ids, Stopped(s) PROVE IndInv'
  <2>1. TypeOK'
    <3>1. sessions' \in [Ids -> SessionRecords]
      BY <1>12, <1>typed, EndTyped DEF Stopped
    <3> QED
      BY <1>12, <3>1, <1>ids DEF TypeOK, Stopped, Listening
  <2>2. OthersIdle' /\ Settled'
    BY <1>12, <1>ids DEF TypeOK, SessionRecords, OthersIdle, Settled, PortKept, Stopped, Listening
  <2>3. ReadyHasPort'
    BY <1>12, <1>ids DEF TypeOK, SessionRecords, ReadyHasPort, Settled, OthersIdle, Stopped, Listening
  <2>4. PortKept'
    BY <1>12, <1>ids DEF TypeOK, SessionRecords, ReadyHasPort, Settled, OthersIdle, PortKept, Stopped, Listening
  <2>5. CloseOrder'
    BY <1>12, <1>ids DEF TypeOK, CloseOrder, PortKept, Settled, Stopped, Listening
  <2> QED
    BY <2>1, <2>2, <2>3, <2>4, <2>5
<1>13. ASSUME NEW s \in Ids, Drop(s) PROVE IndInv'
  <2>1. TypeOK'
    <3>1. sessions' \in [Ids -> SessionRecords]
      BY <1>13, <1>typed, DropTyped DEF Drop
    <3> QED
      BY <1>13, <3>1, <1>ids DEF TypeOK, Drop, Listening, Fault
  <2>2. OthersIdle' /\ Settled'
    BY <1>13, <1>ids DEF TypeOK, SessionRecords, OthersIdle, Settled, PortKept, Drop, Listening, Fault
  <2>3. ReadyHasPort'
    BY <1>13, <1>ids DEF TypeOK, SessionRecords, ReadyHasPort, Settled, OthersIdle, Drop, Listening, Fault
  <2>4. PortKept'
    BY <1>13, <1>ids DEF TypeOK, SessionRecords, ReadyHasPort, Settled, OthersIdle, PortKept, Drop, Listening, Fault
  <2>5. CloseOrder'
    BY <1>13, <1>ids DEF TypeOK, CloseOrder, PortKept, Settled, Drop, Listening, Fault
  <2> QED
    BY <2>1, <2>2, <2>3, <2>4, <2>5
<1>14. ASSUME NEW c \in Closers, Close(c) PROVE IndInv'
  <2>1. TypeOK'
    BY <1>14, <1>ids DEF TypeOK, SessionRecords, Close, OnceBusy
  <2>2. OthersIdle' /\ Settled'
    BY <1>14, <1>ids DEF TypeOK, SessionRecords, OthersIdle, Settled, PortKept, Close, OnceBusy
  <2>3. ReadyHasPort'
    BY <1>14, <1>ids DEF TypeOK, SessionRecords, ReadyHasPort, Settled, OthersIdle, Close, OnceBusy
  <2>4. PortKept'
    BY <1>14, <1>ids DEF TypeOK, SessionRecords, ReadyHasPort, Settled, OthersIdle, PortKept, Listening, Close, OnceBusy
  <2>5. CloseOrder'
    BY <1>14, <1>ids DEF TypeOK, CloseOrder, PortKept, Settled, Close, OnceBusy
  <2> QED
    BY <2>1, <2>2, <2>3, <2>4, <2>5
<1>15. ASSUME NEW c \in Closers, CloseReturns(c) PROVE IndInv'
  <2>1. TypeOK'
    BY <1>15, <1>ids DEF TypeOK, SessionRecords, CloseReturns, ForwardDone
  <2>2. OthersIdle' /\ Settled'
    BY <1>15, <1>ids DEF TypeOK, SessionRecords, OthersIdle, Settled, PortKept, CloseReturns, ForwardDone
  <2>3. ReadyHasPort'
    BY <1>15, <1>ids DEF TypeOK, SessionRecords, ReadyHasPort, Settled, OthersIdle, CloseReturns, ForwardDone
  <2>4. PortKept'
    BY <1>15, <1>ids DEF TypeOK, SessionRecords, ReadyHasPort, Settled, OthersIdle, PortKept, Listening, CloseReturns, ForwardDone
  <2>5. CloseOrder'
    BY <1>15, <1>ids DEF TypeOK, CloseOrder, PortKept, Settled, CloseReturns, ForwardDone
  <2> QED
    BY <2>1, <2>2, <2>3, <2>4, <2>5
<1>16. CASE UNCHANGED vars
  BY <1>16 DEF vars, TypeOK, OthersIdle, Settled, ReadyHasPort, PortKept, CloseOrder, Listening
<1> QED
  BY <1>1, <1>2, <1>3, <1>4, <1>5, <1>6, <1>7, <1>8, <1>9, <1>10, <1>11, <1>12, <1>13, <1>14, <1>15, <1>16 DEF Next, Supervisor, Goroutine

\* The inductive invariant holds in every reachable state.
THEOREM Invariance == Spec => []IndInv
  BY IndInvInit, IndInvStep, PTL DEF Spec

\* Every variable keeps its type.
THEOREM TypeCorrect == Spec => []TypeOK
  BY Invariance, PTL DEF IndInv

\* supervise and startForwardSession wait for the end of a session before they
\* start another: two sessions never compete for the local port.
THEOREM NeverTwoSessions == Spec => []OneSession
<1>1. IndInv => OneSession
  <2> SUFFICES ASSUME IndInv, NEW s \in Ids, NEW t \in Ids, Live(s), Live(t) PROVE s = t
    BY DEF OneSession
  <2>1. s = cur /\ t = cur
    BY LiveIsCurrent DEF IndInv, TypeOK
  <2> QED
    BY <2>1
<1> QED
  BY <1>1, Invariance, PTL

\* A finished session in hand means that nothing runs any more.
LEMMA EndedIsQuiet ==
  ASSUME IndInv, sessions[cur].run = "ended"
  PROVE  \A s \in Ids : ~Live(s)
<1> SUFFICES ASSUME NEW s \in Ids, Live(s) PROVE FALSE
  OBVIOUS
<1>1. s = cur
  BY LiveIsCurrent DEF IndInv, TypeOK
<1> QED
  BY <1>1 DEF Live

\* After Close, or a StartPortForward that failed, has returned, no goroutine
\* of the forward is left, whichever of several callers of Close returned.
THEOREM QuietWhenClosed == Spec => []QuietAfterReturn
<1>1. IndInv => QuietAfterReturn
  <2> SUFFICES ASSUME IndInv, pc = "refused" \/ (\E c \in Closers : closer[c] = "returned")
               PROVE  \A s \in Ids : ~Live(s)
    BY DEF QuietAfterReturn
  <2>1. sessions[cur].run = "ended"
    BY DEF IndInv, CloseOrder, Settled
  <2> QED
    BY <2>1, EndedIsQuiet
<1> QED
  BY <1>1, Invariance, PTL

\* Reconnecting never moves the local port.
THEOREM AddressNeverMoves == Spec => []AddressKept
<1>1. IndInv => AddressKept
  BY DEF IndInv, PortKept, AddressKept
<1> QED
  BY <1>1, Invariance, PTL

----------------------------------------------------------------------------
(* Refinement                                                              *)

\* A step after which the listener's state and the phase are as before.
LEMMA Stutters ==
  ASSUME UNCHANGED <<Phase, FirstPort, Serving>>
  PROVE  [T!Next]_(T!vars)
  BY DEF T!vars

\* Steps that leave the goroutines of the sessions and the phase alone.
LEMMA SameSessions ==
  ASSUME UNCHANGED <<sessions, Phase>>
  PROVE  [T!Next]_(T!vars)
<1>1. UNCHANGED <<FirstPort, Serving>>
  BY DEF FirstPort, Serving, Listening
<1> QED
  BY <1>1, Stutters

\* Closing stopCh of the session in hand is invisible.
LEMMA StopInvisible ==
  ASSUME IndInv, sessions' = [sessions EXCEPT ![cur].stop = TRUE], UNCHANGED Phase
  PROVE  [T!Next]_(T!vars)
<1>1. sessions \in [Ids -> SessionRecords] /\ cur \in Ids
  BY DEF IndInv, TypeOK
<1>2. \A s \in Ids : sessions'[s].run = sessions[s].run /\ sessions'[s].port = sessions[s].port
  BY <1>1 DEF SessionRecords
<1>3. 1 \in Ids
  BY ForwardAssumption DEF Ids, MaxSessions
<1> QED
  BY <1>2, <1>3, Stutters DEF FirstPort, Serving, Listening

\* The supervised forward is a Tunnel: its address is fixed by the first
\* listener, and nothing listens once Close has returned.
THEOREM Refinement == Spec => ImplementsTunnel
<1>1. Init => T!Init
  <2> SUFFICES ASSUME Init PROVE T!Init
    OBVIOUS
  <2>1. 1 \in Ids
    BY ForwardAssumption DEF Ids, MaxSessions
  <2>2. \A s \in Ids : sessions[s].run # "listening" /\ sessions[s].port = NoPort
    BY DEF Init, Session, NotStarted
  <2> QED
    BY <2>1, <2>2 DEF Init, T!Init, T!NoPort, NoPort, Phase, FirstPort, Serving, Listening
<1>2. IndInv /\ IndInv' /\ [Next]_vars => [T!Next]_(T!vars)
  <2> SUFFICES ASSUME IndInv, IndInv', [Next]_vars PROVE [T!Next]_(T!vars)
    OBVIOUS
  <2> USE DEF forwardVars, closeVars
  <2>one. 1 \in Ids
    BY ForwardAssumption DEF Ids, MaxSessions
  <2>typed. sessions \in [Ids -> SessionRecords] /\ cur \in Ids
    BY DEF IndInv, TypeOK
  <2>1. CASE Ready
    <3>1. CASE created
      <4>1. UNCHANGED <<sessions, Phase>>
        BY <2>1, <3>1 DEF Ready, Phase, ClosePhase
      <4> QED
        BY <4>1, SameSessions
    <3>2. CASE ~created
      <4>1. once = "new" /\ cur = 1 /\ FirstPort # NoPort
        BY <2>1, <2>one, <3>2, ForwardAssumption
           DEF Ready, IndInv, CloseOrder, PortKept, ReadyHasPort, TypeOK, FirstPort
      <4>2. UNCHANGED <<FirstPort, Serving>>
        BY <2>1 DEF Ready, FirstPort, Serving, Listening
      <4>3. Phase = "opening" /\ Phase' = "open"
        BY <2>1, <3>2, <4>1 DEF Ready, Phase, ClosePhase
      <4> QED
        BY <4>1, <4>2, <4>3 DEF T!Next, T!Open, T!NoPort, NoPort
    <3> QED
      BY <3>1, <3>2
  <2>2. CASE SessionFails \/ Timeout
    <3>1. UNCHANGED Phase
      BY <2>2 DEF SessionFails, Timeout, Abandon, Phase, ClosePhase
    <3> QED
      BY <2>2, <3>1, StopInvisible DEF SessionFails, Timeout, Abandon
  <2>3. CASE ConnectFailed
    <3>1. UNCHANGED sessions
      BY <2>3 DEF ConnectFailed
    <3>2. CASE created
      <4>1. UNCHANGED Phase
        BY <2>3, <3>2 DEF ConnectFailed, Phase, ClosePhase
      <4> QED
        BY <3>1, <4>1, SameSessions
    <3>3. CASE ~created
      <4>1. Phase = "opening" /\ Phase' = "refused"
        BY <2>3, <3>3 DEF ConnectFailed, Phase
      <4>2. ~Serving
        BY <2>3, EndedIsQuiet DEF ConnectFailed, SessionDone, Serving, Listening, Live
      <4>3. UNCHANGED <<FirstPort, Serving>>
        BY <3>1 DEF FirstPort, Serving, Listening
      <4> QED
        BY <4>1, <4>2, <4>3 DEF T!Next, T!Refuse
    <3> QED
      BY <3>2, <3>3
  <2>4. CASE StopRequested
    <3>1. UNCHANGED Phase
      BY <2>4 DEF StopRequested, Phase, ClosePhase
    <3> QED
      BY <2>4, <3>1, StopInvisible DEF StopRequested
  <2>5. CASE SessionClosed \/ SessionDropped \/ WaitStopped
    <3>1. UNCHANGED <<sessions, Phase>>
      BY <2>5 DEF SessionClosed, SessionDropped, WaitStopped, Phase, ClosePhase
    <3> QED
      BY <3>1, SameSessions
  <2>6. CASE Reconnect
    <3>1. cur + 1 \in Ids /\ cur + 1 # 1
      BY <2>6, <2>typed, ForwardAssumption DEF Reconnect, Ids, MaxSessions
    <3>2. \A s \in Ids : ~Listening(s)
      BY <2>6, EndedIsQuiet DEF Reconnect, IndInv, Settled, Listening, Live
    <3>3. \A s \in Ids : ~Listening(s)'
      BY <2>6, <2>typed, <3>1, <3>2 DEF Reconnect, Session, Listening
    <3>4. UNCHANGED <<Phase, FirstPort>>
      BY <2>6, <2>typed, <2>one, <3>1 DEF Reconnect, Phase, ClosePhase, FirstPort
    <3> QED
      BY <3>2, <3>3, <3>4, Stutters DEF Serving
  <2>7. ASSUME NEW s \in Ids, Listen(s) PROVE T!Next
    <3>1. s = cur /\ sessions[s].run = "dialing"
      BY <2>7, <2>typed, LiveIsCurrent DEF Listen, IndInv, Live
    <3>2. ~Serving
      <4> SUFFICES ASSUME NEW t \in Ids, Listening(t) PROVE FALSE
        BY DEF Serving
      <4>1. t = cur
        BY <2>typed, LiveIsCurrent DEF IndInv, Live, Listening
      <4> QED
        BY <3>1, <4>1 DEF Listening
    <3>3. Listening(s)' /\ Serving'
      BY <2>7, <2>typed DEF Listen, Serving, Listening, SessionRecords
    <3>4. UNCHANGED Phase /\ UNCHANGED created
      BY <2>7 DEF Listen, Phase, ClosePhase
    <3>5. Phase \in {"opening", "open", "closing"} /\ (Phase = "opening" <=> ~created)
      BY <3>1 DEF IndInv, Settled, CloseOrder, PortKept, TypeOK, Phase, ClosePhase
    <3>6. CASE created
      <4>1. FirstPort' = FirstPort
        BY <2>7, <2>typed, <2>one, <3>1, <3>6 DEF Listen, FirstPort, IndInv, PortKept, ReadyHasPort
      <4> QED
        BY <3>2, <3>3, <3>4, <3>5, <3>6, <4>1 DEF T!Next, T!Listen
    <3>7. CASE ~created
      <4>1. s = 1
        BY <3>1, <3>7 DEF IndInv, PortKept
      <4>2. FirstPort' \in Ports
        BY <3>3, <4>1, <2>one DEF FirstPort, Listening, IndInv, ReadyHasPort
      <4> QED
        BY <3>2, <3>3, <3>4, <3>5, <3>7, <4>2 DEF T!Next, T!Listen
    <3> QED
      BY <3>6, <3>7
  <2>8. ASSUME NEW s \in Ids, DialFails(s) PROVE [T!Next]_(T!vars)
    <3>1. \A t \in Ids : Listening(t)' = Listening(t) /\ sessions'[t].port = sessions[t].port
      BY <2>8, <2>typed DEF DialFails, Listening, SessionRecords
    <3>2. UNCHANGED <<Phase, FirstPort, Serving>>
      BY <2>8, <2>one, <3>1 DEF DialFails, Phase, ClosePhase, FirstPort, Serving
    <3> QED
      BY <3>2, Stutters
  <2>9. ASSUME NEW s \in Ids, Drop(s) \/ Stopped(s) PROVE T!Next
    <3>1. Serving
      BY <2>9 DEF Drop, Stopped, Serving
    <3>2. \A t \in Ids : sessions'[t].port = sessions[t].port
      BY <2>9, <2>typed DEF Drop, Stopped, SessionRecords
    <3>3. ~Serving'
      <4> SUFFICES ASSUME NEW t \in Ids, Listening(t)' PROVE FALSE
        BY DEF Serving
      <4>1. s = cur
        BY <2>9, <2>typed, LiveIsCurrent DEF Drop, Stopped, Listening, Live, IndInv
      <4>2. t # s
        BY <2>9, <2>typed DEF Drop, Stopped, Listening, SessionRecords
      <4>3. Listening(t)
        BY <2>9, <2>typed, <4>2 DEF Drop, Stopped, Listening
      <4> QED
        BY <2>typed, <4>1, <4>2, <4>3, LiveIsCurrent DEF Listening, Live, IndInv
    <3>4. UNCHANGED <<Phase, FirstPort>>
      BY <2>9, <2>one, <3>2 DEF Drop, Stopped, Phase, ClosePhase, FirstPort
    <3> QED
      BY <3>1, <3>3, <3>4 DEF T!Next, T!Drop
  <2>10. ASSUME NEW c \in Closers, Close(c) PROVE [T!Next]_(T!vars)
    <3>1. UNCHANGED <<FirstPort, Serving>>
      BY <2>10 DEF Close, FirstPort, Serving, Listening
    <3>2. CASE once = "new"
      <4>1. Phase = "open" /\ Phase' = "closing"
        BY <2>10, <3>2 DEF Close, Phase, ClosePhase, IndInv, PortKept
      <4> QED
        BY <3>1, <4>1 DEF T!Next, T!RequestClose
    <3>3. CASE once # "new"
      <4>1. UNCHANGED <<sessions, Phase>>
        BY <2>10, <3>3 DEF Close, Phase, ClosePhase
      <4> QED
        BY <4>1, SameSessions
    <3> QED
      BY <3>2, <3>3
  <2>11. ASSUME NEW c \in Closers, CloseReturns(c) PROVE [T!Next]_(T!vars)
    <3>1. UNCHANGED <<FirstPort, Serving>>
      BY <2>11 DEF CloseReturns, FirstPort, Serving, Listening
    <3>2. CASE closer[c] = "waiting"
      <4>1. once = "running" /\ once' = "done" /\ pc = "done" /\ pc' = pc /\ created /\ created' = created
        BY <2>11, <3>2 DEF CloseReturns, ForwardDone, IndInv, CloseOrder
      <4>2. Phase = "closing" /\ Phase' = "closed"
        BY <4>1 DEF Phase, ClosePhase
      <4>3. ~Serving
        BY <4>1, EndedIsQuiet DEF IndInv, Settled, Serving, Listening, Live
      <4> QED
        BY <3>1, <4>2, <4>3 DEF T!Next, T!Closed
    <3>3. CASE closer[c] = "blocked"
      <4>1. UNCHANGED <<sessions, Phase>>
        BY <2>11, <3>3 DEF CloseReturns, Phase, ClosePhase
      <4> QED
        BY <4>1, SameSessions
    <3> QED
      BY <2>11, <3>2, <3>3 DEF CloseReturns
  <2>12. CASE UNCHANGED vars
    <3>1. UNCHANGED <<sessions, Phase>>
      BY <2>12 DEF vars, Phase, ClosePhase
    <3> QED
      BY <3>1, SameSessions
  <2> QED
    BY <2>1, <2>2, <2>3, <2>4, <2>5, <2>6, <2>7, <2>8, <2>9, <2>10, <2>11, <2>12
       DEF Next, Supervisor, Goroutine
<1> QED
  BY <1>1, <1>2, Invariance, PTL DEF Spec, ImplementsTunnel, T!Spec
=============================================================================
