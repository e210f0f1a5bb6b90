--------------------------- MODULE DaemonInstance ---------------------------
(***************************************************************************)
(* One managed program inside the daemon (daemon/instance.go) together     *)
(* with the request handlers that act on it (daemon/server.go).  A run is  *)
(* one successful start; runs are numbered by proxySeq.  Five kinds of     *)
(* goroutine meet here: the dispatcher that serves one request at a time,  *)
(* the waiter of every run, the cleanup command a waiter may start, the    *)
(* forwarder that empties the event channel, and the shutdown goroutine.   *)
(* Only the critical sections under ins.Mu are atomic.                     *)
(***************************************************************************)
EXTENDS Naturals, Sequences

CONSTANTS
    MaxRuns,        \* bound on successful starts
    EventCap,       \* capacity of the event channel
    CleanupChoices, \* the cleanup settings a request may carry
    StopCodes       \* the runtime codes a stop or kill request may carry

ASSUME MaxRunsAssumption == MaxRuns \in Nat
ASSUME EventCapAssumption == EventCap \in Nat
ASSUME CleanupAssumption == CleanupChoices \subseteq BOOLEAN
ASSUME StopCodesAssumption ==
    StopCodes \subseteq {"unknown", "manual_stop", "manual_kill", "restarting"}

VARIABLES
    known,        \* the manager has an entry for the instance
    state,        \* ins.State
    code,         \* ins.Runtime.RuntimeCode
    proxy,        \* the run ins.Proxy / ins.Cmd belongs to, or NoRun for nil
    proxySeq,     \* ins.proxySeq, the number of successful starts
    skipCleanup,  \* ins.skipCleanup
    cleanupArgv,  \* len(ins.CleanupCommandArgv) > 0
    cleanupCmd,   \* the run whose cleanup is published in ins.CleanupCmd
    proc,         \* per run: the program's operating-system process
    waiter,       \* per run: where waitProxyExit / waitCommandExit is
    cleanup,      \* per run: the cleanup command's process
    snap,         \* per run: runtime code in the snapshot that is reported
    dispatch,     \* what the dispatcher still owes after releasing ins.Mu
    eventCh,      \* s.eventCh, as seen by this instance
    report,       \* history: what became of the exit report of each run
    shut,         \* Shutdown has been called on the instance
    asked,        \* history: runs a stop, kill or mark request was accepted for
    forced,       \* history: runs killed before their program had exited
    killedLate    \* history: runs killed while they were cleaning up

daemonVars == <<known, state, code, proxy, proxySeq, skipCleanup, cleanupArgv,
                cleanupCmd, proc, waiter, cleanup, snap, dispatch, eventCh,
                report, shut, asked, forced, killedLate>>

Runs == 1 .. MaxRuns
NoRun == 0
RunOrNone == Runs \cup {NoRun}

States == {"stopped", "running", "stopping", "cleaning"}
RuntimeCodes == {"unknown", "running", "manual_stop", "manual_kill",
                 "restarting", "unexpected_exit"}
\* The marks always carry a code; stop_instance and kill_instance need not.
MarkCodes == StopCodes \ {"unknown"}

ProcStates == {"none", "alive", "killed", "dead"}
WaiterStates == {"idle", "waiting", "cleaning", "spawned", "running",
                 "cleaned", "reporting", "done"}
\* The waiter is somewhere between entering and leaving the cleanup phase.
CleanupPhases == {"cleaning", "spawned", "running", "cleaned"}
Reports == {"none", "queued", "delivered", "lost"}
Idle == [op |-> "idle", run |-> NoRun]
Debts == [op : {"soft", "hard", "cleanup"}, run : Runs] \cup {Idle}
\* instance_exited, with the runtime state it carries.
Event == [run : Runs, code : RuntimeCodes]

DaemonTypeOK ==
    /\ known \in BOOLEAN
    /\ state \in States
    /\ code \in RuntimeCodes
    /\ proxy \in RunOrNone
    /\ proxySeq \in RunOrNone
    /\ skipCleanup \in BOOLEAN
    /\ cleanupArgv \in BOOLEAN
    /\ cleanupCmd \in RunOrNone
    /\ proc \in [Runs -> ProcStates]
    /\ waiter \in [Runs -> WaiterStates]
    /\ cleanup \in [Runs -> ProcStates]
    /\ snap \in [Runs -> RuntimeCodes]
    /\ dispatch \in Debts
    /\ eventCh \in Seq(Event)
    /\ report \in [Runs -> Reports]
    /\ shut \in BOOLEAN
    /\ asked \subseteq Runs
    /\ forced \subseteq Runs
    /\ killedLate \subseteq Runs

\* StartCount starts at -1 and grows by one per successful start, so it is a
\* function of proxySeq: the two are only ever incremented together.
RestartCount == proxySeq - 1

DaemonInit ==
    /\ known = FALSE
    /\ state = "stopped"
    /\ code = "unknown"
    /\ proxy = NoRun
    /\ proxySeq = NoRun
    /\ skipCleanup = FALSE
    /\ cleanupArgv = FALSE
    /\ cleanupCmd = NoRun
    /\ proc = [r \in Runs |-> "none"]
    /\ waiter = [r \in Runs |-> "idle"]
    /\ cleanup = [r \in Runs |-> "none"]
    /\ snap = [r \in Runs |-> "unknown"]
    /\ dispatch = Idle
    /\ eventCh = <<>>
    /\ report = [r \in Runs |-> "none"]
    /\ shut = FALSE
    /\ asked = {}
    /\ forced = {}
    /\ killedLate = {}

-----------------------------------------------------------------------------
(* The dispatcher: one request at a time, each a critical section, with the *)
(* signal of a stop or a kill sent after ins.Mu is released.                *)

histories == <<asked, forced, killedLate>>
waiterVars == <<waiter, cleanup, snap, cleanupCmd, eventCh, report>>

\* Mutant: a start is let in while the cleanup command runs.
CanStartWhileCleaning == state \in {"stopped", "cleaning"}

\* The states in which a start gets past the handler's and Start's answers.
CanStart == state = "stopped"

\* A start that reaches prepareInstanceForStartLocked (the other answers change
\* nothing).  MaxRuns bounds the successful starts.  A failed start of an
\* instance the handler had just created removes it again.
StartInstance(hasCleanup, succeeds) ==
    /\ dispatch = Idle
    /\ CanStart
    /\ succeeds => proxySeq < MaxRuns
    /\ known' = (known \/ succeeds)
    /\ cleanupArgv' = (known' /\ hasCleanup)
    /\ IF succeeds
       THEN /\ proxySeq' = proxySeq + 1
            /\ proxy' = proxySeq'
            /\ proc' = [proc EXCEPT ![proxySeq'] = "alive"]
            /\ waiter' = [waiter EXCEPT ![proxySeq'] = "waiting"]
            /\ state' = "running"
            /\ code' = "running"
            /\ skipCleanup' = FALSE
       ELSE UNCHANGED <<proxySeq, proxy, proc, waiter, state, code, skipCleanup>>
    /\ UNCHANGED <<cleanup, snap, cleanupCmd, eventCh, report, dispatch, shut, histories>>

\* markRuntimeCodeLocked
Marked(rc) == IF rc = "unknown" THEN code ELSE rc

\* Stop on an instance that is cleaning up reaches only a published cleanup.
StopWhileCleaning(force, rc) ==
    /\ state = "cleaning"
    /\ code' = Marked(rc)
    /\ asked' = IF rc = "unknown" THEN asked ELSE asked \cup {proxySeq}
    /\ killedLate' = IF force THEN killedLate \cup {proxySeq} ELSE killedLate
    /\ dispatch' = IF force /\ cleanupCmd # NoRun
                   THEN [op |-> "cleanup", run |-> cleanupCmd] ELSE Idle
    /\ UNCHANGED <<state, skipCleanup, forced>>

\* Mutant: a stop of an instance that is already stopping is served again.
StopsProgramAgain(force) == state \in {"running", "stopping"} /\ proxy # NoRun

StopsProgram(force) ==
    /\ state = "running" \/ (force /\ state = "stopping")
    /\ proxy # NoRun

StopIgnored(force, rc) ==
    /\ state # "cleaning"
    /\ ~StopsProgram(force)
    /\ code' = Marked(rc)
    /\ UNCHANGED <<state, skipCleanup, dispatch, histories>>

\* Mutant: a kill of an instance that is already stopping sends no kill.
SignalOnce(force) == IF force /\ state = "running" THEN "hard" ELSE "soft"

SignalOf(force) == IF force THEN "hard" ELSE "soft"

StopProgram(force, rc) ==
    /\ StopsProgram(force)
    /\ state' = "stopping"
    /\ skipCleanup' = force
    /\ code' = IF rc # "unknown" THEN rc
               ELSE IF force THEN "manual_kill" ELSE "manual_stop"
    /\ dispatch' = [op |-> SignalOf(force), run |-> proxy]
    /\ asked' = asked \cup {proxy}
    /\ forced' = IF force THEN forced \cup {proxy} ELSE forced
    /\ UNCHANGED killedLate

Stop(force, rc) ==
    /\ known
    /\ dispatch = Idle
    /\ \/ StopWhileCleaning(force, rc)
       \/ StopIgnored(force, rc)
       \/ StopProgram(force, rc)
    /\ UNCHANGED <<known, proxy, proxySeq, cleanupArgv, proc, waiterVars, shut>>

StopInstance(rc) == Stop(FALSE, rc)

KillInstance(rc) == Stop(TRUE, IF rc = "unknown" THEN "manual_kill" ELSE rc)

\* The signal itself.  A soft stop closes the terminal or interrupts the
\* program, which may ignore it; where a soft signal is not available it is
\* a hard kill.  A handle whose process is gone only logs an error.
SendSignal ==
    /\ dispatch # Idle
    /\ dispatch' = Idle
    /\ \/ /\ dispatch.op \in {"soft", "hard"}
          /\ proc[dispatch.run] = "alive"
          /\ proc' = [proc EXCEPT ![dispatch.run] = "killed"]
          /\ UNCHANGED cleanup
       \/ /\ dispatch.op = "cleanup"
          /\ cleanup[dispatch.run] = "alive"
          /\ cleanup' = [cleanup EXCEPT ![dispatch.run] = "killed"]
          /\ UNCHANGED proc
       \/ /\ \/ dispatch.op = "soft"
             \/ dispatch.op = "hard" /\ proc[dispatch.run] # "alive"
             \/ dispatch.op = "cleanup" /\ cleanup[dispatch.run] # "alive"
          /\ UNCHANGED <<proc, cleanup>>
    /\ UNCHANGED <<known, state, code, proxy, proxySeq, skipCleanup, cleanupArgv,
                   waiter, snap, cleanupCmd, eventCh, report, shut, histories>>

RunAsked(rc) ==
    IF state \in {"running", "stopping", "cleaning"} /\ rc # "unknown"
    THEN asked \cup {proxySeq} ELSE asked

\* Mutant: the mark forgets to look at the state.
MarkedStoppingAlways == "stopping"

MarkedStopping == IF state = "running" THEN "stopping" ELSE state

\* mark_stopping announces a stop command that is written to stdin next.
MarkStopping(rc) ==
    /\ known
    /\ dispatch = Idle
    /\ code' = Marked(rc)
    /\ state' = MarkedStopping
    /\ asked' = RunAsked(rc)
    /\ UNCHANGED <<known, proxy, proxySeq, skipCleanup, cleanupArgv, proc, waiterVars,
                   dispatch, shut, forced, killedLate>>

MarkRuntimeCode(rc) ==
    /\ known
    /\ dispatch = Idle
    /\ code' = Marked(rc)
    /\ asked' = RunAsked(rc)
    /\ UNCHANGED <<known, state, proxy, proxySeq, skipCleanup, cleanupArgv, proc,
                   waiterVars, dispatch, shut, forced, killedLate>>

UpdateRuntimeConfig(hasCleanup) ==
    /\ known
    /\ dispatch = Idle
    /\ cleanupArgv' = hasCleanup
    /\ UNCHANGED <<known, state, code, proxy, proxySeq, skipCleanup, proc, waiterVars,
                   dispatch, shut, histories>>

-----------------------------------------------------------------------------
(* The operating system, and the waiter of a run.                          *)

controlVars == <<known, skipCleanup, cleanupArgv, dispatch, shut, histories>>

\* A program, or a cleanup command, ends by itself or because it was killed.
ProgramExits(r) ==
    /\ proc[r] \in {"alive", "killed"}
    /\ proc' = [proc EXCEPT ![r] = "dead"]
    /\ UNCHANGED <<state, code, proxy, proxySeq, waiterVars, controlVars>>

CleanupExits(r) ==
    /\ cleanup[r] \in {"alive", "killed"}
    /\ cleanup' = [cleanup EXCEPT ![r] = "dead"]
    /\ UNCHANGED <<state, code, proxy, proxySeq, proc, waiter, snap, cleanupCmd,
                   eventCh, report, controlVars>>

\* finishProcessExit, the critical section.  A run that is no longer attached
\* is left alone; otherwise the run ends here, with or without a cleanup.
\* Mutant: the force flag of the stop is forgotten.
ShouldCleanupByCode(c) == cleanupArgv /\ c # "manual_kill"

ShouldCleanup(c) == cleanupArgv /\ ~skipCleanup /\ c # "manual_kill"

FinishProcessExit(r) ==
    /\ waiter[r] = "waiting"
    /\ proc[r] = "dead"
    /\ IF proxy # r
       THEN /\ waiter' = [waiter EXCEPT ![r] = "done"]
            /\ UNCHANGED <<state, code, proxy, snap>>
       ELSE LET exitCode == IF code = "running" THEN "unexpected_exit" ELSE code IN
            /\ proxy' = NoRun
            /\ code' = exitCode
            /\ snap' = [snap EXCEPT ![r] = exitCode]
            /\ IF ShouldCleanup(exitCode)
               THEN /\ state' = "cleaning"
                    /\ waiter' = [waiter EXCEPT ![r] = "cleaning"]
               ELSE /\ state' = "stopped"
                    /\ waiter' = [waiter EXCEPT ![r] = "reporting"]
    /\ UNCHANGED <<proxySeq, proc, cleanup, cleanupCmd, eventCh, report, controlVars>>

\* runCleanupCommand, up to cmd.Start: the output of the run is awaited and
\* its residual processes are killed first.  Nothing is read under ins.Mu.
SpawnCleanup(r, succeeds) ==
    /\ waiter[r] = "cleaning"
    /\ waiter' = [waiter EXCEPT ![r] = IF succeeds THEN "spawned" ELSE "cleaned"]
    /\ cleanup' = [cleanup EXCEPT ![r] = IF succeeds THEN "alive" ELSE "none"]
    /\ UNCHANGED <<state, code, proxy, proxySeq, proc, snap, cleanupCmd, eventCh,
                   report, controlVars>>

\* ... the critical section that makes the command visible to Stop ...
PublishCleanup(r) ==
    /\ waiter[r] = "spawned"
    /\ waiter' = [waiter EXCEPT ![r] = "running"]
    /\ cleanupCmd' = IF state = "cleaning" THEN r ELSE cleanupCmd
    /\ UNCHANGED <<state, code, proxy, proxySeq, proc, cleanup, snap, eventCh,
                   report, controlVars>>

\* ... and cmd.Wait.
CleanupWaited(r) ==
    /\ waiter[r] = "running"
    /\ cleanup[r] = "dead"
    /\ waiter' = [waiter EXCEPT ![r] = "cleaned"]
    /\ UNCHANGED <<state, code, proxy, proxySeq, proc, cleanup, snap, cleanupCmd,
                   eventCh, report, controlVars>>

\* Mutant: the cleanup has to be the published one (it may have failed to start).
StillPublished(r) == cleanupCmd = r /\ state = "cleaning"

StillCleaning(r) == proxySeq = r /\ state = "cleaning"

\* Mutant: the state captured when the program exited is reported.
CodeAtProgramExit(r) == snap[r]

\* The runtime state is read again after the cleanup.
CodeAfterCleanup(r) == code

FinishCleanupExit(r) ==
    /\ waiter[r] = "cleaned"
    /\ IF ~StillCleaning(r)
       THEN /\ waiter' = [waiter EXCEPT ![r] = "done"]
            /\ UNCHANGED <<state, cleanupCmd, snap>>
       ELSE /\ waiter' = [waiter EXCEPT ![r] = "reporting"]
            /\ state' = "stopped"
            /\ cleanupCmd' = NoRun
            /\ snap' = [snap EXCEPT ![r] = CodeAfterCleanup(r)]
    /\ UNCHANGED <<code, proxy, proxySeq, proc, cleanup, eventCh, report, controlVars>>

\* sendRuntimeEvent never blocks: a full channel loses the report.
SendExited(r) ==
    /\ waiter[r] = "reporting"
    /\ waiter' = [waiter EXCEPT ![r] = "done"]
    /\ IF Len(eventCh) < EventCap
       THEN /\ eventCh' = Append(eventCh, [run |-> r, code |-> snap[r]])
            /\ report' = [report EXCEPT ![r] = "queued"]
       ELSE /\ report' = [report EXCEPT ![r] = "lost"]
            /\ UNCHANGED eventCh
    /\ UNCHANGED <<state, code, proxy, proxySeq, proc, cleanup, snap, cleanupCmd,
                   controlVars>>

-----------------------------------------------------------------------------
(* The forwarder, and the end of the daemon.                               *)

\* What happens to the runtime state when the channel alone moves.
channelOnly == <<state, code, proxy, proxySeq, proc, cleanup, snap, cleanupCmd,
                 waiter, controlVars>>

ForwardEvent ==
    /\ eventCh # <<>>
    /\ report' = [report EXCEPT ![Head(eventCh).run] = "delivered"]
    /\ eventCh' = Tail(eventCh)
    /\ UNCHANGED channelOnly

\* A connection that closes, and the Bind of the next one, empty the channel.
DrainEvents ==
    /\ eventCh # <<>>
    /\ eventCh' = <<>>
    /\ report' = [r \in Runs |-> IF report[r] = "queued" THEN "lost" ELSE report[r]]
    /\ UNCHANGED channelOnly

\* Shutdown detaches what the instance holds and kills it.  It runs beside
\* the dispatcher, which may still serve a start until os.Exit.
Shutdown ==
    /\ ~shut
    /\ shut' = TRUE
    /\ state' = "stopped"
    /\ proxy' = NoRun
    /\ cleanupCmd' = NoRun
    /\ proc' = [r \in Runs |-> IF r = proxy /\ proc[r] = "alive"
                               THEN "killed" ELSE proc[r]]
    /\ cleanup' = [r \in Runs |-> IF r = cleanupCmd /\ cleanup[r] = "alive"
                                  THEN "killed" ELSE cleanup[r]]
    /\ UNCHANGED <<known, code, proxySeq, skipCleanup, cleanupArgv, waiter, snap,
                   dispatch, eventCh, report, histories>>

-----------------------------------------------------------------------------
Request ==
    \/ \E c \in CleanupChoices, ok \in BOOLEAN : StartInstance(c, ok)
    \/ \E rc \in StopCodes : StopInstance(rc) \/ KillInstance(rc)
    \/ \E rc \in MarkCodes : MarkStopping(rc) \/ MarkRuntimeCode(rc)
    \/ \E c \in CleanupChoices : UpdateRuntimeConfig(c)

WaiterStep(r) ==
    \/ FinishProcessExit(r)
    \/ \E ok \in BOOLEAN : SpawnCleanup(r, ok)
    \/ PublishCleanup(r)
    \/ CleanupWaited(r)
    \/ FinishCleanupExit(r)
    \/ SendExited(r)

DaemonNext ==
    \/ Request
    \/ SendSignal
    \/ \E r \in Runs : WaiterStep(r) \/ ProgramExits(r) \/ CleanupExits(r)
    \/ ForwardEvent
    \/ DrainEvents
    \/ Shutdown

\* Goroutines that can run do run; a killed process does die.  Nothing makes a
\* live program or cleanup command end by itself.
DaemonFairness ==
    /\ WF_daemonVars(SendSignal)
    /\ \A r \in Runs :
        /\ WF_daemonVars(WaiterStep(r))
        /\ WF_daemonVars(proc[r] = "killed" /\ ProgramExits(r))
        /\ WF_daemonVars(cleanup[r] = "killed" /\ CleanupExits(r))

DaemonSpec == DaemonInit /\ [][DaemonNext]_daemonVars /\ DaemonFairness

-----------------------------------------------------------------------------
(* Properties                                                              *)

Up == {"alive", "killed"}

\* Whatever order starts, stops and waiters run in, the program of an earlier
\* run never lives beside a later one: until the daemon shuts down a live
\* program is the attached one (Start refuses while a run is ending), and a
\* live cleanup command has the instance to itself.
OneProgramAtATime ==
    ~shut => /\ \A r \in Runs : proc[r] \in Up => proxy = r
             /\ \A r \in Runs : cleanup[r] \in Up =>
                    state = "cleaning" /\ proxySeq = r /\ proxy = NoRun

\* A run that was killed while its program was attached never gets a cleanup
\* command, whatever stop or mark requests follow the kill.
KillSuppressesCleanup ==
    \A r \in forced : cleanup[r] = "none" /\ waiter[r] \notin CleanupPhases

\* The report that makes the controller restart a program by itself (an
\* unexpected exit) is never made of a run that somebody had asked to end,
\* even when the request came while its cleanup command was running.
UnexpectedMeansUnasked ==
    \A r \in Runs :
        (snap[r] = "unexpected_exit" /\ (waiter[r] = "reporting" \/ report[r] # "none"))
            => r \notin asked

\* The end of a program is always reported, or lost to a full channel or a
\* closed connection, unless its cleanup command hangs or the daemon stops.
ExitAccounted ==
    \A r \in Runs : proc[r] = "dead" ~>
        (report[r] # "none" \/ cleanup[r] = "alive" \/ shut)

\* A kill accepted while the program is attached ends the run: the instance
\* can be started again.
KillEndsRun ==
    \A r \in Runs : r \in forced ~> (state = "stopped" \/ proxySeq # r)

\* The user guide says of KILL that it does not run the cleanup command and
\* stops one that is running: once a kill has been served, no cleanup command
\* of the run it was for is left alone.
KillStopsCleanup ==
    dispatch = Idle => \A r \in forced \cup killedLate : cleanup[r] # "alive"

-----------------------------------------------------------------------------
(* The instance keeps the promises of InstanceRuns.                        *)

PhaseOf(r) ==
    IF r > proxySeq THEN "unborn"
    ELSE IF proxy = r THEN "live"
    ELSE IF proxySeq = r /\ state = "cleaning" THEN "cleanup"
    ELSE "over"

ToldOf(r) ==
    IF report[r] = "none" THEN "none"
    ELSE IF snap[r] = "unexpected_exit" THEN "unexpected" ELSE "expected"

Promise == INSTANCE InstanceRuns WITH
    phase <- [r \in Runs |-> PhaseOf(r)],
    wanted <- asked,
    killed <- forced,
    told <- [r \in Runs |-> ToldOf(r)]

KeepsPromise == Promise!RunsSpec

=============================================================================
