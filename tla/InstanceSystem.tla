--------------------------- MODULE InstanceSystem ---------------------------
(***************************************************************************)
(* One instance seen from both processes: the controller's InstanceProcess *)
(* (controller/src/process/process.go), whose state is guarded by sp.Mu    *)
(* and worked on by many goroutines, and the daemon's DaemonInstance,      *)
(* reached by synchronous requests and heard of by exit events.  A start,  *)
(* a stop and a restart release sp.Mu before they call the daemon, so the  *)
(* two states drift apart and have to find each other again; a controller  *)
(* that is restarted finds the daemon's state by list_runtime.             *)
(*                                                                         *)
(* Instances here have no cleanup command and the daemon is not stopped:   *)
(* both are the subject of DaemonInstance.                                 *)
(***************************************************************************)
EXTENDS DaemonInstance, FiniteSets

CONSTANTS
    Threads,      \* goroutines that serve requests and restarts
    Commands,     \* TRUE: a request may carry an override start command
    StopCommands, \* TRUE: the instance has a stop command and a terminal
    AutoRestarts, \* the AUTO RESTART settings
    MaxRequests,  \* bound on user and task requests
    MaxCrashes,   \* bound on controller restarts
    MaxTimeouts   \* bound on start requests whose answer is late

ASSUME ThreadsAssumption == "nobody" \notin Threads
ASSUME SettingsAssumption ==
    Commands \cup StopCommands \cup AutoRestarts \subseteq BOOLEAN
ASSUME BoundsAssumption ==
    MaxRequests \in Nat /\ MaxCrashes \in Nat /\ MaxTimeouts \in Nat

\* The runtime codes the controller sends, which the daemon has to accept; it
\* sends no cleanup command.
SentCodes == {"manual_stop", "manual_kill", "restarting"}
ASSUME SentCodesAssumption == SentCodes \subseteq StopCodes
ASSUME NoCleanupAssumption == FALSE \in CleanupChoices

VARIABLES
    ctl,           \* how far a controller has come since it was started
    cst,           \* sp.State
    starter,       \* the goroutine whose reservation is current (Starting)
    restartCancel, \* sp.RestartCancel # nil
    override,      \* sp.overrideCommand # ""
    pc,            \* per goroutine: where it is
    alt,           \* per goroutine: its reservation took the override command
    todo,          \* per goroutine: the daemon requests it has still to send
    spawned,       \* scheduleAutoRestart goroutines that have not run yet
    listed,        \* the answer of list_runtime at startup
    requests, crashes, timeouts,
    astray,        \* history: the controller may have lost sight of a program
    deaf,          \* history: the controller has made no use of an exit's report
    halted,        \* history: a STOP has cancelled the waiting restart
    promised       \* history: a RESTART with an override has been accepted

controllerVars == <<cst, starter, restartCancel, override, pc, alt, todo, spawned>>
linkHistory == <<astray, deaf>>
historyVars == <<linkHistory, halted, promised>>
boundVars == <<requests, crashes, timeouts>>
systemVars == <<daemonVars, controllerVars, historyVars, boundVars, ctl, listed>>

Nobody == "nobody"
ControllerStates ==
    {"stopped", "running", "stopping", "stopping_restart", "restart_waiting"}
\* reserved .. refused is prepareStart; calling has daemon requests to send;
\* waiting is scheduleAutoRestart with the token that is in sp.RestartCancel.
ThreadStates == {"idle", "reserved", "updating", "ready", "started", "refused",
                 "calling", "waiting"}
\* The states in which the goroutine holds the lock of the instance's path.
PathHolders == {"updating", "ready", "started", "refused"}
Call == [op : {"mark", "mark_stopping", "stop", "kill"}, code : SentCodes]
NotListed == [state |-> "none", code |-> "unknown"]

\* The controller's own state; DaemonInstance has the daemon's.
ControllerTypeOK ==
    /\ ctl \in {"bound", "listed", "restored", "up"}
    /\ cst \in ControllerStates
    /\ starter \in Threads \cup {Nobody}
    /\ restartCancel \in BOOLEAN
    /\ override \in BOOLEAN
    /\ pc \in [Threads -> ThreadStates]
    /\ alt \in [Threads -> BOOLEAN]
    /\ todo \in [Threads -> Seq(Call)]
    /\ spawned \in Nat

SystemInit ==
    /\ DaemonInit
    /\ ctl = "up"
    /\ cst = "stopped"
    /\ starter = Nobody
    /\ restartCancel = FALSE
    /\ override = FALSE
    /\ pc = [t \in Threads |-> "idle"]
    /\ alt = [t \in Threads |-> FALSE]
    /\ todo = [t \in Threads |-> <<>>]
    /\ spawned = 0
    /\ listed = NotListed
    /\ requests = 0 /\ crashes = 0 /\ timeouts = 0
    /\ astray = FALSE
    /\ deaf = FALSE
    /\ halted = FALSE
    /\ promised = FALSE

\* sp.Running
Running == cst \in {"running", "stopping", "stopping_restart"}

-----------------------------------------------------------------------------
(* Pieces of the critical sections.                                        *)

\* The goroutines whose token is closed or replaced find out when they wake
\* and return: they are dropped at once.
Dropped(threads) == [t \in Threads |->
    IF pc[t] = "waiting" /\ t \in threads THEN "idle" ELSE pc[t]]

\* cancelRestartLocked, with what the goroutine t does next.
CancelRestart(t, next) ==
    /\ restartCancel' = FALSE
    /\ override' = FALSE
    /\ pc' = [Dropped(Threads) EXCEPT ![t] = next]

\* A request counts from the moment it takes sp.Mu.
Serve(t) ==
    /\ ctl \in {"restored", "up"}
    /\ pc[t] = "idle"
    /\ requests < MaxRequests
    /\ requests' = requests + 1
    /\ UNCHANGED <<daemonVars, ctl, listed, crashes, timeouts, linkHistory>>

\* The requests that goroutine t sends after it has released sp.Mu.
ThenCall(t, calls) == todo' = [todo EXCEPT ![t] = calls]
AfterLock(calls) == IF calls = <<>> THEN "idle" ELSE "calling"

\* sendDaemonStopRequest
StopCalls(hasCommand, rc) ==
    IF hasCommand THEN <<[op |-> "mark_stopping", code |-> rc]>>
    ELSE <<[op |-> "stop", code |-> rc]>>

ForceCall(rc) == <<[op |-> "kill", code |-> rc]>>

\* A stop marks its intent first, and is then the force or the plain request.
IntentCalls(force, hasCommand) ==
    IF force THEN <<[op |-> "mark", code |-> "manual_kill"]>> \o ForceCall("manual_kill")
    ELSE <<[op |-> "mark", code |-> "manual_stop"]>> \o StopCalls(hasCommand, "manual_stop")

-----------------------------------------------------------------------------
(* START                                                                   *)

\* reserveStartLocked on an instance that can be started: the override command
\* is taken, and a waiting restart is cancelled in favour of this start.
Reserve(t, command) ==
    /\ starter' = t
    /\ alt' = [alt EXCEPT ![t] = command]
    /\ IF cst = "restart_waiting"
       THEN CancelRestart(t, "reserved")
       ELSE /\ override' = FALSE
            /\ pc' = [pc EXCEPT ![t] = "reserved"]
            /\ UNCHANGED restartCancel
    /\ cst' = "stopped"

\* StartWithCommand, up to the release of sp.Mu.  A refused start has still
\* thrown the override command away.
StartRequest(t, command) ==
    /\ Serve(t)
    /\ IF Running \/ starter # Nobody
       THEN /\ override' = FALSE
            /\ UNCHANGED <<cst, starter, restartCancel, pc, alt, halted, promised>>
       ELSE /\ Reserve(t, command)
            /\ halted' = FALSE
            /\ promised' = FALSE
    /\ UNCHANGED <<todo, spawned>>

\* prepareStart: the path lock, then markUpdatingLocked.
BeginUpdate(t) ==
    /\ pc[t] = "reserved"
    /\ \A u \in Threads : pc[u] \notin PathHolders
    /\ pc' = [pc EXCEPT ![t] = IF starter = t THEN "updating" ELSE "idle"]
    /\ UNCHANGED <<daemonVars, ctl, listed, boundVars, historyVars, cst, starter,
                   restartCancel, override, alt, todo, spawned>>

\* Mutant: the failure leaves the reservation in place.
StarterKept(t) == starter

StarterAfterFailure(t) == IF starter = t THEN Nobody ELSE starter

\* What a start that has failed undoes, if it is still the current one.
GiveUp(t) ==
    /\ pc' = [pc EXCEPT ![t] = "idle"]
    /\ starter' = StarterAfterFailure(t)
    /\ IF starter = t
       THEN /\ override' = FALSE
            /\ cst' = "stopped"
            /\ promised' = FALSE
       ELSE UNCHANGED <<override, cst, promised>>
    /\ UNCHANGED <<restartCancel, alt, todo, spawned, halted>>

\* The staged update has been applied, or it or the command line has failed.
EndUpdate(t, ok) ==
    /\ pc[t] = "updating"
    /\ IF ok /\ starter = t
       THEN /\ pc' = [pc EXCEPT ![t] = "ready"]
            /\ UNCHANGED <<cst, starter, restartCancel, override, alt, todo, spawned,
                           halted, promised>>
       ELSE GiveUp(t)
    /\ UNCHANGED <<daemonVars, ctl, listed, boundVars, linkHistory>>

\* start_instance, served by the daemon: a running instance is adopted.
CallStart(t, ok) ==
    /\ pc[t] = "ready"
    /\ dispatch = Idle
    /\ \/ /\ state = "running"
          /\ ok
          /\ UNCHANGED daemonVars
       \/ /\ state \notin {"running", "stopped"}
          /\ ~ok
          /\ UNCHANGED daemonVars
       \/ StartInstance(FALSE, ok)
    /\ pc' = [pc EXCEPT ![t] = IF ok THEN "started" ELSE "refused"]
    /\ promised' = (promised /\ ~ok)
    /\ UNCHANGED <<ctl, listed, boundVars, linkHistory, halted, cst, starter,
                   restartCancel, override, alt, todo, spawned>>

\* Mutant: a start is committed although it has been cancelled.
MayCommitAlways(t) == cst \notin {"stopping", "stopping_restart"}

MayCommit(t) == starter = t /\ cst \notin {"stopping", "stopping_restart"}

\* Mutant: the program of a start that was cancelled is not killed.
AfterCancelledStartNothing == <<>>

AfterCancelledStart == ForceCall("manual_kill")

\* The answer arrives: the path lock is released and the start is committed,
\* or undone by a kill.
EndStart(t) ==
    /\ pc[t] \in {"started", "refused"}
    /\ IF pc[t] = "refused"
       THEN GiveUp(t)
       ELSE /\ IF MayCommit(t)
               THEN /\ starter' = Nobody
                    /\ cst' = "running"
                    /\ pc' = [pc EXCEPT ![t] = "idle"]
                    /\ UNCHANGED todo
               ELSE /\ ThenCall(t, AfterCancelledStart)
                    /\ pc' = [pc EXCEPT ![t] = AfterLock(AfterCancelledStart)]
                    /\ UNCHANGED <<starter, cst>>
            /\ UNCHANGED <<restartCancel, override, alt, spawned, halted, promised>>
    /\ UNCHANGED <<daemonVars, ctl, listed, boundVars, linkHistory>>

\* daemonRequest gives up after 30 seconds; the daemon has started the program.
StartTimesOut(t) ==
    /\ pc[t] = "started"
    /\ timeouts < MaxTimeouts
    /\ timeouts' = timeouts + 1
    /\ GiveUp(t)
    /\ astray' = TRUE
    /\ UNCHANGED <<daemonVars, ctl, listed, requests, crashes, deaf>>

-----------------------------------------------------------------------------
(* STOP and KILL                                                           *)

\* The instance is waiting for its restart.
StopWaiting(t, force) ==
    /\ cst = "restart_waiting"
    /\ cst' = "stopped"
    /\ LET calls == IF force THEN ForceCall("manual_kill") ELSE <<>> IN
       /\ CancelRestart(t, AfterLock(calls))
       /\ ThenCall(t, calls)
    /\ halted' = (ctl = "up")
    /\ UNCHANGED starter

\* The instance is stopping in order to be restarted: it is just stopped.
StopRestarting(t, force, hasCommand) ==
    /\ cst = "stopping_restart"
    /\ cst' = "stopping"
    /\ CancelRestart(t, "calling")
    /\ ThenCall(t, IntentCalls(force, hasCommand))
    /\ UNCHANGED <<starter, halted>>

\* The instance is stopping: the stop is sent again, or made a kill.
StopStopping(t, force, hasCommand) ==
    /\ cst = "stopping"
    /\ starter' = IF force THEN Nobody ELSE starter
    /\ pc' = [pc EXCEPT ![t] = "calling"]
    /\ ThenCall(t, IF force THEN ForceCall("manual_kill")
                   ELSE StopCalls(hasCommand, "manual_stop"))
    /\ UNCHANGED <<cst, restartCancel, override, halted>>

StopRunning(t, force, hasCommand) ==
    /\ cst = "running"
    /\ cst' = "stopping"
    /\ pc' = [pc EXCEPT ![t] = "calling"]
    /\ ThenCall(t, IntentCalls(force, hasCommand))
    /\ UNCHANGED <<starter, restartCancel, override, halted>>

\* A start in progress is cancelled; the daemon is not told.
StopStarting(t) ==
    /\ cst = "stopped"
    /\ starter' = Nobody
    /\ CancelRestart(t, "idle")
    /\ UNCHANGED <<cst, todo, halted>>

StopRequest(t, force, hasCommand) ==
    /\ Serve(t)
    /\ \/ StopWaiting(t, force)
       \/ StopRestarting(t, force, hasCommand)
       \/ StopStopping(t, force, hasCommand)
       \/ StopRunning(t, force, hasCommand)
       \/ StopStarting(t)
    /\ promised' = FALSE
    /\ UNCHANGED <<alt, spawned>>

-----------------------------------------------------------------------------
(* RESTART                                                                 *)

\* An instance that is stopping already is only marked, or killed as well.
RestartMark(kill) ==
    <<[op |-> "mark", code |-> "restarting"]>>
        \o (IF kill THEN ForceCall("manual_kill") ELSE <<>>)

RestartStopping(t, kill) ==
    /\ cst = "stopping"
    /\ cst' = "stopping_restart"
    /\ pc' = [pc EXCEPT ![t] = "calling"]
    /\ ThenCall(t, RestartMark(kill))
    /\ UNCHANGED spawned

RestartRunning(t, kill, hasCommand) ==
    /\ cst = "running"
    /\ cst' = "stopping_restart"
    /\ pc' = [pc EXCEPT ![t] = "calling"]
    /\ ThenCall(t, IF kill THEN ForceCall("restarting")
                   ELSE StopCalls(hasCommand, "restarting"))
    /\ UNCHANGED spawned

\* Only the default mode starts an instance that is stopped.
RestartStopped ==
    /\ cst = "stopped"
    /\ cst' = "restart_waiting"
    /\ spawned' = spawned + 1
    /\ UNCHANGED <<pc, todo>>

\* The requests that change something; one that finds the instance starting
\* or restarting, or in strict mode stopped, is answered and changes nothing.
RestartRequest(t, strict, kill, command, hasCommand) ==
    /\ Serve(t)
    /\ starter = Nobody
    /\ \/ RestartStopping(t, kill)
       \/ RestartRunning(t, kill, hasCommand)
       \/ ~strict /\ RestartStopped
    /\ override' = command
    /\ promised' = command
    /\ halted' = FALSE
    /\ UNCHANGED <<starter, restartCancel, alt>>

\* Mutant: a restart goroutine that finds a token leaves the restart to others.
TokenFreeOnly == IF restartCancel THEN "idle" ELSE "waiting"

\* Restart goroutines share the token that is there.
TokenShared == "waiting"

\* scheduleAutoRestart, the first critical section.
Schedule(t) ==
    /\ spawned > 0
    /\ pc[t] = "idle"
    /\ spawned' = spawned - 1
    /\ pc' = [pc EXCEPT ![t] = TokenShared]
    /\ restartCancel' = TRUE
    /\ UNCHANGED <<daemonVars, ctl, listed, boundVars, historyVars, cst, starter,
                   override, alt, todo>>

\* Mutant: the token alone decides.
StillWaitingByToken == restartCancel

StillWaiting == cst = "restart_waiting" /\ restartCancel

\* ... and the second, when the interval has passed.  A start in progress
\* makes reserveStartLocked return without a reservation.
TimerFires(t) ==
    /\ pc[t] = "waiting"
    /\ IF ~StillWaiting
       THEN /\ pc' = [pc EXCEPT ![t] = "idle"]
            /\ UNCHANGED <<cst, starter, restartCancel, override, alt>>
       ELSE IF starter # Nobody
       THEN /\ CancelRestart(t, "idle")
            /\ UNCHANGED <<cst, starter, alt>>
       ELSE /\ starter' = t
            /\ alt' = [alt EXCEPT ![t] = override]
            /\ cst' = "stopped"
            /\ CancelRestart(t, "reserved")
    /\ UNCHANGED <<daemonVars, ctl, listed, boundVars, historyVars, todo, spawned>>

-----------------------------------------------------------------------------
(* The link.                                                               *)

\* The daemon serves the next request of goroutine t.  An instance it does
\* not know is an error, which is logged at most.
CallDaemon(t) ==
    /\ pc[t] = "calling"
    /\ dispatch = Idle
    /\ LET call == Head(todo[t]) IN
       \/ ~known /\ UNCHANGED daemonVars
       \/ call.op = "mark" /\ MarkRuntimeCode(call.code)
       \/ call.op = "mark_stopping" /\ MarkStopping(call.code)
       \/ call.op = "stop" /\ StopInstance(call.code)
       \/ call.op = "kill" /\ KillInstance(call.code)
    /\ ThenCall(t, Tail(todo[t]))
    /\ pc' = [pc EXCEPT ![t] = AfterLock(Tail(todo[t]))]
    /\ UNCHANGED <<ctl, listed, boundVars, historyVars, cst, starter, restartCancel,
                   override, alt, spawned>>

\* Mutant: the report is dropped while a stop is in progress.
ExitIgnoredInStop == (cst = "stopped" /\ starter = Nobody) \/ cst = "stopping"

ExitIgnored == cst = "stopped" /\ starter = Nobody

\* The report of an earlier run that is taken for the current one.
Misleads(event) == ~ExitIgnored /\ event.run < proxySeq

\* A report that comes between the daemon's answer to list_runtime and the use
\* of that answer: it is ignored, and the instance then restored as running.
ComesTooEarly == ctl = "listed" /\ listed.state \notin {"none", "stopped"}

\* readLoop: HandleDaemonInstanceExited and handleDaemonProcessExit.  The
\* report names the instance and not the run.
DeliverExit(autoRestart) ==
    /\ ForwardEvent
    /\ LET event == Head(eventCh)
           restart == \/ cst = "stopping_restart"
                      \/ event.code = "restarting"
                      \/ autoRestart /\ event.code = "unexpected_exit" IN
       /\ astray' = (astray \/ Misleads(event))
       /\ deaf' = (deaf \/ ComesTooEarly)
       /\ IF ExitIgnored
          THEN UNCHANGED <<cst, starter, override, spawned>>
          ELSE /\ starter' = Nobody
               /\ override' = FALSE
               /\ cst' = IF restart THEN "restart_waiting" ELSE "stopped"
               /\ spawned' = IF restart THEN spawned + 1 ELSE spawned
    /\ UNCHANGED <<ctl, listed, boundVars, halted, promised, restartCancel, pc, alt, todo>>

-----------------------------------------------------------------------------
(* The controller ends and is started again (run.go).                      *)

\* The daemon empties its event channel when the connection closes and when
\* the next controller is bound; what it does in between the model has happen
\* before the controller ends.
ControllerRestarts ==
    /\ crashes < MaxCrashes
    /\ crashes' = crashes + 1
    /\ ctl' = "bound"
    /\ IF eventCh = <<>> THEN UNCHANGED daemonVars ELSE DrainEvents
    /\ cst' = "stopped"
    /\ starter' = Nobody
    /\ restartCancel' = FALSE
    /\ override' = FALSE
    /\ pc' = [t \in Threads |-> "idle"]
    /\ alt' = [t \in Threads |-> FALSE]
    /\ todo' = [t \in Threads |-> <<>>]
    /\ spawned' = 0
    /\ listed' = NotListed
    /\ astray' = FALSE
    /\ deaf' = FALSE
    /\ promised' = FALSE
    /\ UNCHANGED <<requests, timeouts, halted>>

ListRuntime ==
    /\ ctl = "bound"
    /\ dispatch = Idle
    /\ ctl' = "listed"
    /\ listed' = IF known THEN [state |-> state, code |-> code] ELSE NotListed
    /\ UNCHANGED <<daemonVars, controllerVars, boundVars, historyVars>>

RestoredState ==
    CASE listed.state = "running" -> "running"
      [] listed.state \in {"stopping", "cleaning"} -> "stopping"
      [] OTHER -> "stopped"

\* RestoreDaemonRuntimeStates; the web server is up soon after.
RestoreRuntimeStates ==
    /\ ctl = "listed"
    /\ ctl' = "restored"
    /\ cst' = RestoredState
    /\ UNCHANGED <<daemonVars, listed, boundVars, historyVars, starter, restartCancel,
                   override, pc, alt, todo, spawned>>

\* RestoreDaemonAutoRestarts and ScheduleRecoveredAutoRestart: decided by the
\* answer of list_runtime, whatever has happened to the instance since.
RestoreAutoRestarts(t, autoRestart) ==
    /\ ctl = "restored"
    /\ pc[t] = "idle"
    /\ ctl' = "up"
    /\ listed' = NotListed
    /\ IF autoRestart /\ listed.code = "unexpected_exit"
       THEN /\ override' = FALSE
            /\ restartCancel' = TRUE
            /\ pc' = [Dropped(Threads) EXCEPT ![t] = "waiting"]
            /\ cst' = "restart_waiting"
            /\ astray' = (astray \/ cst # "stopped" \/ starter # Nobody)
       ELSE UNCHANGED <<override, restartCancel, pc, cst, astray>>
    /\ UNCHANGED <<daemonVars, boundVars, deaf, halted, promised, starter, alt, todo, spawned>>

-----------------------------------------------------------------------------
UserRequest(t) ==
    \/ \E command \in Commands : StartRequest(t, command)
    \/ \E force \in BOOLEAN, stop \in StopCommands : StopRequest(t, force, stop)
    \/ \E strict, kill \in BOOLEAN, command \in Commands, stop \in StopCommands :
           RestartRequest(t, strict, kill, command, stop)

\* What a goroutine does by itself once it has been set going.
ThreadStep(t) ==
    \/ BeginUpdate(t)
    \/ \E ok \in BOOLEAN : EndUpdate(t, ok) \/ CallStart(t, ok)
    \/ EndStart(t)
    \/ Schedule(t)
    \/ TimerFires(t)
    \/ CallDaemon(t)

DaemonStep ==
    /\ \/ SendSignal
       \/ \E r \in Runs : FinishProcessExit(r) \/ SendExited(r) \/ ProgramExits(r)
    /\ deaf' = (deaf \/ \E r \in Runs : report'[r] = "lost" /\ report[r] = "none")
    /\ UNCHANGED <<controllerVars, boundVars, ctl, listed, astray, halted, promised>>

Deliver == \E autoRestart \in AutoRestarts : DeliverExit(autoRestart)

SystemNext ==
    \/ \E t \in Threads :
        \/ UserRequest(t)
        \/ ThreadStep(t)
        \/ StartTimesOut(t)
        \/ \E autoRestart \in AutoRestarts : RestoreAutoRestarts(t, autoRestart)
    \/ DaemonStep
    \/ Deliver
    \/ ControllerRestarts
    \/ ListRuntime
    \/ RestoreRuntimeStates

\* Goroutines that can run do run, a killed program dies, reports arrive.
SystemFairness ==
    /\ \A t \in Threads : WF_systemVars(ThreadStep(t))
    /\ WF_systemVars(SendSignal /\ DaemonStep)
    /\ \A r \in Runs :
        WF_systemVars((FinishProcessExit(r) \/ SendExited(r)
                       \/ (proc[r] = "killed" /\ ProgramExits(r))) /\ DaemonStep)
    /\ WF_systemVars(Deliver)

SystemSpec == SystemInit /\ [][SystemNext]_systemVars /\ SystemFairness

-----------------------------------------------------------------------------
(* Properties                                                              *)

\* A reservation belongs to a goroutine that is starting the program, of an
\* instance that is not running.
StarterInPath ==
    starter # Nobody =>
        /\ pc[starter] \in {"reserved"} \cup PathHolders
        /\ cst \in {"stopped", "restart_waiting"}

\* A goroutine that waits for its interval holds the current token.
TokenHeld == \A t \in Threads : pc[t] = "waiting" => restartCancel

\* A goroutine that calls the daemon has something to call.
CallsPending == \A t \in Threads : pc[t] = "calling" => todo[t] # <<>>

\* Until the daemon's state is restored a new controller does nothing else.
ColdStart ==
    ctl \in {"bound", "listed"} =>
        /\ \A t \in Threads : pc[t] = "idle"
        /\ spawned = 0 /\ starter = Nobody /\ cst = "stopped"

\* An instance that waits for its restart is never forgotten: whatever starts,
\* stops and restarts have raced, a goroutine is there that will restart it or
\* a start of it is in progress.
RestartHasOwner ==
    cst = "restart_waiting" =>
        \/ spawned > 0
        \/ \E t \in Threads : pc[t] = "waiting"
        \/ starter # Nobody

\* The inductive invariant of the controller's side.
ControllerIInv ==
    /\ ControllerTypeOK
    /\ StarterInPath
    /\ TokenHeld
    /\ CallsPending
    /\ ColdStart
    /\ RestartHasOwner

\* The program that the daemon runs is one the controller shows as running or
\* is about to hear of, or it is about to be killed by the start that was
\* cancelled.  Three events can make the controller lose it (astray): an answer
\* of a start that comes too late, the report of an earlier run taken for the
\* current one, and an automatic restart decided by a list that is out of date.
Serving == ctl \in {"restored", "up"}
NoLostProgram ==
    (Serving /\ ~astray /\ state = "running") =>
        \/ Running
        \/ \E t \in Threads : pc[t] = "started"
        \/ \E t \in Threads : pc[t] = "calling" /\ Head(todo[t]).op = "kill"

\* An instance that the controller shows as running has a program, or the
\* report of its exit is still on its way.  Two events make the controller keep
\* it running (deaf): a report dropped at a full channel, and one delivered
\* between list_runtime and the use of its answer.
NoPhantomProgram ==
    (Serving /\ ~deaf /\ Running) =>
        \/ proxy # NoRun
        \/ \E r \in Runs : waiter[r] = "reporting"
        \/ eventCh # <<>>

\* A STOP of an instance that waits for its restart is final: no goroutine
\* starts the instance again before somebody asks for it.
StopCancelsRestart == halted => starter = Nobody /\ cst = "stopped"

\* A restart that waits does take place, or is overtaken by a request.
RestartHappens == cst = "restart_waiting" ~> cst # "restart_waiting"

\* RESTART with a start command of its own starts the program with it.
OverrideIsUsed ==
    promised => \A t \in Threads : starter = t => alt[t]

\* Once asked to stop, or to stop and restart, the instance leaves that state,
\* unless its program ignores the stop or the controller has made no use of the
\* report of its exit: it was dropped, or came before the restored state.
StopSettles ==
    cst \in {"stopping", "stopping_restart"} ~>
        \/ cst \notin {"stopping", "stopping_restart"}
        \/ \E r \in Runs : proc[r] = "alive"
        \/ deaf

=============================================================================
