----------------------------- MODULE PortForward -----------------------------
(***************************************************************************)
(* pkg/kube/forward.go: the port-forward to a pod that the installer       *)
(* reaches Harbor through.  A session is one run of client-go's            *)
(* ForwardPorts in a goroutine of its own.  StartPortForward starts the    *)
(* first one and hands over to the goroutine of supervise, which replaces  *)
(* a session that ends by itself, until Close.  Close may be called by     *)
(* several goroutines.                                                     *)
(*                                                                         *)
(* The context supervise gets is never cancelled (WithoutCancel), so its   *)
(* ctx.Done cases are left out; those of startForwardSession are           *)
(* Timeout.                                                                *)
(***************************************************************************)
EXTENDS Naturals, FiniteSets

CONSTANTS
    Ports,                      \* local ports a listener can get
    LocalPort,                  \* ForwardRequest.LocalPort, NoPort for any
    defaultReconnectAttempts,
    Closers,                    \* goroutines that call Close
    MaxFaults                   \* bound: faults of the network

NoPort == 0

ASSUME ForwardAssumption ==
    /\ Ports \subseteq Nat \ {NoPort}
    /\ LocalPort \in Ports \cup {NoPort}
    /\ defaultReconnectAttempts \in Nat \ {0}
    /\ MaxFaults \in Nat

VARIABLES
    pc,         \* where StartPortForward, then supervise, stands
    created,    \* StartPortForward has built the Forward
    cur,        \* the session in hand
    sessions,   \* every session started: its goroutine and channels
    attempt,    \* reconnect's attempt
    localPort,  \* Forward.localPort
    target,     \* target.LocalPort
    stopCh,     \* Forward.stopCh is closed
    once,       \* Forward.closeOnce: "new", "running" or "done"
    closer,     \* each goroutine's call of Close
    faults      \* faults so far

forwardVars == <<pc, created, cur, attempt, localPort, target>>
closeVars == <<stopCh, once, closer>>
vars == <<forwardVars, sessions, closeVars, faults>>

\* Each session after the first replaces one that a fault has ended.
MaxSessions == MaxFaults + 1
Ids == 1 .. MaxSessions

\* run: the goroutine of ForwardPorts; port: its listener's; want: the port
\* asked for; stop, ready, err: stopCh and readyCh are closed, errCh has a value.
Session(want) == [run |-> "dialing", want |-> want, port |-> NoPort,
                  stop |-> FALSE, ready |-> FALSE, err |-> FALSE]
NotStarted == [run |-> "none", want |-> NoPort, port |-> NoPort,
               stop |-> FALSE, ready |-> FALSE, err |-> FALSE]

Live(s) == sessions[s].run \in {"dialing", "listening"}
Listening(s) == sessions[s].run = "listening"

Fault == faults < MaxFaults /\ faults' = faults + 1

Init ==
    /\ pc = "connect"
    /\ created = FALSE
    /\ cur = 1
    /\ sessions = [s \in Ids |-> IF s = 1 THEN Session(LocalPort) ELSE NotStarted]
    /\ attempt = 1
    /\ localPort = NoPort
    /\ target = LocalPort
    /\ stopCh = FALSE
    /\ once = "new"
    /\ closer = [c \in Closers |-> "idle"]
    /\ faults = 0

----------------------------------------------------------------------------
(* client-go: ForwardPorts of session s                                    *)

Bound == {sessions[s].port : s \in {t \in Ids : Listening(t)}}
Free(want) == (IF want = NoPort THEN Ports ELSE {want}) \ Bound

\* The SPDY stream is up and the listener bound; readyCh is closed.
Listen(s) ==
    /\ sessions[s].run = "dialing"
    /\ \E p \in Free(sessions[s].want) :
         sessions' = [sessions EXCEPT ![s].run = "listening", ![s].port = p, ![s].ready = TRUE]
    /\ UNCHANGED <<forwardVars, closeVars, faults>>

\* Dialing fails, or the port is taken.  A dial cannot be cancelled.
DialFails(s) ==
    /\ sessions[s].run = "dialing"
    /\ IF Free(sessions[s].want) = {} THEN UNCHANGED faults ELSE Fault
    /\ sessions' = [sessions EXCEPT ![s].run = "ended", ![s].err = TRUE]
    /\ UNCHANGED <<forwardVars, closeVars>>

\* The stream is lost; the listener goes with it.
Drop(s) ==
    /\ Listening(s)
    /\ Fault
    /\ sessions' = [sessions EXCEPT ![s].run = "ended", ![s].err = TRUE]
    /\ UNCHANGED <<forwardVars, closeVars>>

Stopped(s) ==
    /\ Listening(s)
    /\ sessions[s].stop
    /\ sessions' = [sessions EXCEPT ![s].run = "ended"]
    /\ UNCHANGED <<forwardVars, closeVars, faults>>

----------------------------------------------------------------------------
(* startForwardSession, from StartPortForward and from connect             *)

\* StartPortForward builds the Forward; later sessions get its port.
KeepPort == localPort' = sessions[cur].port /\ target' = sessions[cur].port

\* <-readyCh
Ready ==
    /\ pc = "connect"
    /\ sessions[cur].ready
    /\ pc' = "serve"
    /\ created' = TRUE
    /\ IF created THEN UNCHANGED <<localPort, target>> ELSE KeepPort
    /\ UNCHANGED <<cur, sessions, attempt, closeVars, faults>>

\* Mutant: stopCh is left open.
MutAbandon == pc' = "fail" /\ UNCHANGED sessions

\* fail: close(stopCh), then wait for the goroutine.
Abandon ==
    /\ pc' = "fail"
    /\ sessions' = [sessions EXCEPT ![cur].stop = TRUE]

\* <-errCh
SessionFails ==
    /\ pc = "connect"
    /\ sessions[cur].err
    /\ Abandon
    /\ UNCHANGED <<created, cur, attempt, localPort, target, closeVars, faults>>

\* <-ctx.Done(): the caller's deadline, or reconnectTimeout.
Timeout ==
    /\ pc = "connect"
    /\ Fault
    /\ Abandon
    /\ UNCHANGED <<created, cur, attempt, localPort, target, closeVars>>

\* Mutant: the goroutine is not waited for.
MutSessionDone == TRUE

\* <-doneCh
SessionDone == sessions[cur].run = "ended"

\* Mutant: one attempt less.
MutAttemptsLeft == attempt + 1 < defaultReconnectAttempts

AttemptsLeft == attempt < defaultReconnectAttempts

\* The error reaches the caller of StartPortForward, or reconnect's loop, at
\* whose end supervise returns and closes doneCh.
ConnectFailed ==
    /\ pc = "fail"
    /\ SessionDone
    /\ IF ~created
       THEN pc' = "refused" /\ UNCHANGED attempt
       ELSE IF AttemptsLeft
            THEN pc' = "wait" /\ attempt' = attempt + 1
            ELSE pc' = "done" /\ UNCHANGED attempt
    /\ UNCHANGED <<created, cur, localPort, target, sessions, closeVars, faults>>

----------------------------------------------------------------------------
(* supervise, reconnect and wait                                           *)

\* The select picks either case when both the session ended and Close was
\* called.
StopRequested ==
    /\ pc = "serve"
    /\ stopCh
    /\ pc' = "close"
    /\ sessions' = [sessions EXCEPT ![cur].stop = TRUE]
    /\ UNCHANGED <<created, cur, attempt, localPort, target, closeVars, faults>>

SessionClosed ==
    /\ pc = "close"
    /\ SessionDone
    /\ pc' = "done"
    /\ UNCHANGED <<created, cur, attempt, localPort, target, sessions, closeVars, faults>>

SessionDropped ==
    /\ pc = "serve"
    /\ SessionDone
    /\ pc' = IF stopCh THEN "done" ELSE "wait"
    /\ attempt' = 1
    /\ UNCHANGED <<created, cur, localPort, target, sessions, closeVars, faults>>

\* The timer of wait fires and connect starts a session.
Reconnect ==
    /\ pc = "wait"
    /\ cur < MaxSessions
    /\ pc' = "connect"
    /\ cur' = cur + 1
    /\ sessions' = [sessions EXCEPT ![cur + 1] = Session(target)]
    /\ UNCHANGED <<created, attempt, localPort, target, closeVars, faults>>

WaitStopped ==
    /\ pc = "wait"
    /\ stopCh
    /\ pc' = "done"
    /\ UNCHANGED <<created, cur, attempt, localPort, target, sessions, closeVars, faults>>

----------------------------------------------------------------------------
(* Close                                                                   *)

\* A call that finds closeOnce running waits until the first one is through.
OnceBusy == IF once = "running" THEN "blocked" ELSE "returned"

Close(c) ==
    /\ created
    /\ closer[c] = "idle"
    /\ \/ /\ once = "new"
          /\ once' = "running"
          /\ stopCh' = TRUE
          /\ closer' = [closer EXCEPT ![c] = "waiting"]
       \/ /\ once # "new"
          /\ closer' = [closer EXCEPT ![c] = OnceBusy]
          /\ UNCHANGED <<once, stopCh>>
    /\ UNCHANGED <<forwardVars, sessions, faults>>

\* Mutant: Close only asks for the end of the forward.
MutForwardDone == TRUE

\* <-doneCh of the Forward
ForwardDone == pc = "done"

CloseReturns(c) ==
    /\ \/ /\ closer[c] = "waiting"
          /\ ForwardDone
          /\ once' = "done"
       \/ /\ closer[c] = "blocked"
          /\ once = "done"
          /\ UNCHANGED once
    /\ closer' = [closer EXCEPT ![c] = "returned"]
    /\ UNCHANGED <<forwardVars, sessions, stopCh, faults>>

----------------------------------------------------------------------------
Supervisor ==
    \/ Ready \/ SessionFails \/ ConnectFailed
    \/ StopRequested \/ SessionClosed \/ SessionDropped \/ Reconnect \/ WaitStopped

Goroutine(s) == Listen(s) \/ DialFails(s) \/ Stopped(s)

Next ==
    \/ Supervisor \/ Timeout
    \/ \E s \in Ids : Goroutine(s) \/ Drop(s)
    \/ \E c \in Closers : Close(c) \/ CloseReturns(c)

Spec == Init /\ [][Next]_vars

\* Goroutines run; a dial ends, if only because the connection times out.
Fairness ==
    /\ WF_vars(Supervisor)
    /\ \A s \in Ids : WF_vars(Goroutine(s))
    /\ \A c \in Closers : WF_vars(CloseReturns(c))

FairSpec == Spec /\ Fairness

----------------------------------------------------------------------------
(* Properties                                                              *)

SessionRecords ==
    [run : {"none", "dialing", "listening", "ended"}, want : Ports \cup {NoPort},
     port : Ports \cup {NoPort}, stop : BOOLEAN, ready : BOOLEAN, err : BOOLEAN]

\* Every variable has its type.
TypeOK ==
    /\ pc \in {"connect", "fail", "refused", "serve", "wait", "close", "done"}
    /\ created \in BOOLEAN
    /\ cur \in Ids
    /\ sessions \in [Ids -> SessionRecords]
    /\ attempt \in 1 .. defaultReconnectAttempts
    /\ localPort \in Ports \cup {NoPort}
    /\ target \in Ports \cup {NoPort}
    /\ stopCh \in BOOLEAN
    /\ once \in {"new", "running", "done"}
    /\ closer \in [Closers -> {"idle", "waiting", "blocked", "returned"}]
    /\ faults \in 0 .. MaxFaults

\* A session's goroutine has ended before the next session dials, so that two
\* never compete for the local port.
OneSession == \A s, t \in Ids : Live(s) /\ Live(t) => s = t

\* Once any call of Close, or a failing StartPortForward, has returned, no
\* goroutine is left and the port is free: the next forward can have it.
QuietAfterReturn ==
    pc = "refused" \/ (\E c \in Closers : closer[c] = "returned") =>
        \A s \in Ids : ~Live(s)

\* "Later sessions must land on the same local port": the address handed to
\* the HTTP client is the one every session listens on.
AddressKept ==
    created => \A s \in Ids : Listening(s) => sessions[s].port = localPort

\* The tunnel as its callers see it.
ClosePhase == IF once = "new" THEN "open" ELSE IF once = "running" THEN "closing" ELSE "closed"
Phase == IF pc = "refused" THEN "refused" ELSE IF created THEN ClosePhase ELSE "opening"
FirstPort == sessions[1].port
Serving == \E s \in Ids : Listening(s)

T == INSTANCE Tunnel WITH phase <- Phase, address <- FirstPort, up <- Serving

\* The supervised forward implements the promise of Tunnel.
ImplementsTunnel == T!Spec

\* Every call of Close returns.
CloseAlwaysReturns ==
    \A c \in Closers : closer[c] \in {"waiting", "blocked"} ~> closer[c] = "returned"

\* The tunnel comes back after a drop, unless Close is called or all of
\* defaultReconnectAttempts in a row have failed.
ComesBack ==
    pc = "wait" ~> Serving \/ stopCh \/ (pc = "done" /\ attempt = defaultReconnectAttempts)

----------------------------------------------------------------------------
(* The parts of the inductive invariant                                    *)

\* Sessions before the one in hand have ended, those after it not begun.
OthersIdle ==
    \A s \in Ids :
       /\ s < cur => sessions[s].run = "ended"
       /\ s > cur => sessions[s].run = "none"

\* Between sessions, and at the end, the session in hand has ended.
Settled ==
    /\ pc \in {"wait", "done", "refused"} => sessions[cur].run = "ended"
    /\ sessions[cur].run # "none"

\* readyCh is closed once the listener has a port, and stays closed.
ReadyHasPort == \A s \in Ids :
    /\ sessions[s].ready => sessions[s].run \notin {"none", "dialing"} /\ sessions[s].port \in Ports
    /\ sessions[s].run = "listening" => sessions[s].ready

\* The Forward exists from the first ready session on and keeps its port.
PortKept ==
    /\ ~created => cur = 1 /\ sessions[1].want = LocalPort
    /\ created =>
          /\ sessions[1].ready
          /\ localPort = sessions[1].port
          /\ target = localPort
          /\ sessions[cur].run = "dialing" => sessions[cur].want = localPort
          /\ \A s \in Ids : Listening(s) => sessions[s].port = localPort
    /\ pc \in {"serve", "wait", "close", "done"} => created
    /\ pc = "refused" => ~created

\* closeOnce: only the first call waits for the supervisor.
CloseOrder ==
    /\ once # "new" => created
    /\ once = "done" => pc = "done"
    /\ \A c \in Closers :
          /\ closer[c] = "waiting" => once = "running"
          /\ closer[c] = "returned" => once = "done"
    /\ \A c, d \in Closers : closer[c] = "waiting" /\ closer[d] = "waiting" => c = d

IndInv == TypeOK /\ OthersIdle /\ Settled /\ ReadyHasPort /\ PortKept /\ CloseOrder
=============================================================================
