------------------------ MODULE ControllerSupervisor ------------------------
(***************************************************************************)
(* The daemon around its controllers: the loop that starts a controller,    *)
(* waits for it and starts the next one, the connections it binds them to,  *)
(* the goroutines that serve a connection, and the ways the daemon stops    *)
(* (daemon/controller.go, daemon/server.go, daemon/main.go).                *)
(*                                                                         *)
(* Controllers are numbered; connection, Serve goroutine and forwarder of   *)
(* controller g are g's, which ServesItsOwn justifies.  Programs are kept   *)
(* as far as the daemon can be held up by them: a write to a program's      *)
(* input waits, with the instance locked, until the program reads.          *)
(* A wait with a timeout ends early only if what it waits for hangs on such *)
(* a lock: whatever else can run does so within the seconds it waits.       *)
(***************************************************************************)
EXTENDS Naturals, Sequences

CONSTANTS Instances,   \* the instances of the panel, all with AUTO START
          NoInstance,  \* in requests that name no instance
          MaxStarts,   \* bound: controllers started in the life of the daemon
          MaxRequests, \* bound: requests of users
          PipeCap      \* bound: requests that wait in one pipe

ASSUME SupervisorAssumption ==
    /\ MaxStarts \in Nat /\ MaxRequests \in Nat /\ PipeCap \in Nat
    /\ NoInstance \notin Instances

Gens == 1..MaxStarts
Stoppers == {"signal", "request"}

VARIABLES
    daemon,    \* "up", or who ended it: "main", "stopper", "error"
    stopping,  \* daemonStopping
    loop,      \* where controllerLoop is
    gen,       \* the controller started last; 0 before the first
    active,    \* activeControllerProc; 0 is nil
    pending,   \* controllerUpdateRestartPending
    conn,      \* s.Conn; 0 is nil
    serveDone, \* s.serveDone; 0 is nil
    ctrl,      \* the controller processes
    open,      \* the daemon's end of a controller's pipes is open
    pipe,      \* requests on their way to the daemon
    serve,     \* the Serve goroutine of a connection
    job,       \* the request it has read
    forward,   \* its forwarder
    events,    \* s.eventCh
    closers,   \* goroutines of restart requests, in their 100 ms
    stop,      \* the goroutines that stop the daemon
    toKill,    \* the instances they still have to shut down
    known,     \* the instances in the manager
    mu,        \* ins.Mu, as far as it is held for long: a controller's number, or 0
    prog,      \* the program of an instance
    busy,      \* it waits until its output is taken
    unstarted, \* what the first controller still has to start
    sent,      \* requests of users so far
    late,      \* history: Bind or WaitServeDone has given up on a Serve goroutine
    missed     \* history: what was started when a stopper was past it, or is in no list

connVars == <<conn, serveDone, open, pipe>>
serveVars == <<serve, job, forward, events>>
loopVars == <<loop, gen, active, pending, late>>
stopVars == <<stopping, stop, toKill, closers>>
progVars == <<known, mu, prog, busy, missed>>
userVars == <<unstarted, sent>>
vars == <<daemon, ctrl, connVars, serveVars, loopVars, stopVars, progVars, userVars>>

Request(op, i) == [op |-> op, ins |-> i]
InstanceOps == {"start", "input", "kill"}
DaemonOps == {"list", "restart", "update", "stop"}
Requests == [op : InstanceOps, ins : Instances] \cup [op : DaemonOps, ins : {NoInstance}]
UserRequests == Requests \ {Request("list", NoInstance)}
NoRequest == Request("none", NoInstance)

Init ==
    /\ daemon = "up" /\ stopping = FALSE
    /\ loop = "check" /\ gen = 0 /\ active = 0 /\ pending = FALSE
    /\ conn = 0 /\ serveDone = 0
    /\ ctrl = [g \in Gens |-> "none"]
    /\ open = [g \in Gens |-> FALSE]
    /\ pipe = [g \in Gens |-> <<>>]
    /\ serve = [g \in Gens |-> "none"]
    /\ job = [g \in Gens |-> NoRequest]
    /\ forward = [g \in Gens |-> "none"]
    /\ events = <<>> /\ closers = {}
    /\ stop = [s \in Stoppers |-> "idle"]
    /\ toKill = [s \in Stoppers |-> {}]
    /\ known = {}
    /\ mu = [i \in Instances |-> 0]
    /\ prog = [i \in Instances |-> "down"]
    /\ busy = [i \in Instances |-> FALSE]
    /\ unstarted = Instances /\ sent = 0
    /\ late = FALSE /\ missed = {}

Alive(g) == ctrl[g] \in {"booting", "ready", "leaving"}
Starting == {"starting", "creating"}

(***************************************************************************)
(* Locks.  A request that names an instance looks it up under the           *)
(* manager's lock for a moment; a start keeps that lock while it waits for  *)
(* the instance's, and a list keeps it for reading.                         *)
(***************************************************************************)
WaitsForInstance(g) ==
    /\ serve[g] = "dispatch"
    /\ \/ job[g].op \in InstanceOps /\ job[g].ins \in known /\ mu[job[g].ins] # 0
       \/ job[g].op = "list" /\ \E i \in known : mu[i] # 0

ManagerRead(g) == WaitsForInstance(g) /\ job[g].op = "list"

\* A start that waits for a reader keeps later readers out as well.
ManagerLocked(g) ==
    /\ serve[g] = "dispatch" /\ job[g].op = "start"
    /\ WaitsForInstance(g) \/ \E h \in Gens : ManagerRead(h)

CanLookUp == \A g \in Gens : ~ManagerLocked(g)
CanStart(g) == \A h \in Gens : ~ManagerRead(h) /\ (h # g => ~ManagerLocked(h))

\* A Serve goroutine that gets nowhere until a program reads its input.
Stuck(g) ==
    \/ serve[g] = "writing"
    \/ WaitsForInstance(g)
    \/ serve[g] = "dispatch" /\ ~CanLookUp
    \/ serve[g] \in Starting /\ (mu[job[g].ins] # 0 \/ ~CanStart(g))
    \/ serve[g] = "dispatch" /\ job[g].op = "start" /\ ~CanStart(g)

(***************************************************************************)
(* Connections.  Whoever closes one cuts off what was not read yet, except  *)
(* for what is in the reader's buffer.                                      *)
(***************************************************************************)
Close(g) ==
    /\ open' = [open EXCEPT ![g] = FALSE]
    /\ \E k \in 0..Len(pipe[g]) :
          pipe' = [pipe EXCEPT ![g] = IF open[g] THEN SubSeq(@, 1, k) ELSE @]

\* The end of the daemon closes all of them.
ProcessEnds(by) ==
    /\ daemon' = by
    /\ open' = [g \in Gens |-> FALSE]

CloseIfAny(g) == IF g = 0 THEN UNCHANGED <<open, pipe>> ELSE Close(g)

(***************************************************************************)
(* controllerLoop.                                                          *)
(***************************************************************************)
\* isDaemonStopping at the head of the loop and after a controller's exit:
\* the loop returns nil, main returns, and the process is over.
MainEnds ==
    /\ stopping
    /\ ProcessEnds("main")
    /\ UNCHANGED <<ctrl, conn, serveDone, pipe, serveVars, loopVars, stopVars,
                   progVars, userVars>>

LoopChecks ==
    /\ daemon = "up" /\ loop = "check"
    /\ \/ MainEnds
       \/ /\ ~stopping
          /\ loop' = "start"
          /\ UNCHANGED <<daemon, ctrl, connVars, serveVars, gen, active, pending, late,
                         stopVars, progVars, userVars>>

\* The first controller must be valid and must start; a later one is retried.
FirstStartFails ==
    /\ daemon = "up" /\ loop = "start" /\ gen = 0
    /\ daemon' = "error"
    /\ stopping' = TRUE
    /\ UNCHANGED <<ctrl, connVars, serveVars, loopVars, stop, toKill, closers, progVars, userVars>>

\* The controller's first question is what runs: list_runtime.
LoopStarts ==
    /\ daemon = "up" /\ loop = "start" /\ gen < MaxStarts
    /\ loop' = "activate"
    /\ gen' = gen + 1
    /\ ctrl' = [ctrl EXCEPT ![gen + 1] = "booting"]
    /\ open' = [open EXCEPT ![gen + 1] = TRUE]
    /\ pipe' = [pipe EXCEPT ![gen + 1] = <<Request("list", NoInstance)>>]
    /\ UNCHANGED <<daemon, conn, serveDone, serveVars, active, pending, late,
                   stopVars, progVars, userVars>>

LoopActivates ==
    /\ daemon = "up" /\ loop = "activate"
    /\ loop' = "bind"
    /\ active' = gen
    /\ UNCHANGED <<daemon, ctrl, connVars, serveVars, gen, pending, late, stopVars,
                   progVars, userVars>>

\* Bind, first half: the new connection replaces the old one, which is closed.
BindConn ==
    /\ daemon = "up" /\ loop = "bind"
    /\ loop' = "bindWait"
    /\ conn' = gen
    /\ CloseIfAny(conn)
    /\ UNCHANGED <<daemon, ctrl, serveDone, serveVars, gen, active, pending, late,
                   stopVars, progVars, userVars>>

\* Mutant: Bind does not wait for the old Serve.
BindAtOnce == TRUE
\* The old Serve is done, or the 5 seconds pass because it hangs.
MayServe == serveDone # 0 => Stuck(serveDone)

\* Bind, second half: once the old Serve is done, or after 5 seconds, what is
\* left in the channels is thrown away and the new Serve goroutine launched.
BindServe ==
    /\ daemon = "up" /\ loop = "bindWait"
    /\ MayServe
    /\ late' = (late \/ (serveDone # 0 /\ Stuck(serveDone)))
    /\ loop' = "watch"
    /\ events' = <<>>
    /\ serveDone' = gen
    /\ serve' = [serve EXCEPT ![gen] = "launched"]
    /\ UNCHANGED <<daemon, ctrl, conn, open, pipe, job, forward, gen, active, pending,
                   stopVars, progVars, userVars>>

\* cmd.Wait returns; it has closed the daemon's ends of the pipes.
LoopSeesExit ==
    /\ daemon = "up" /\ loop = "watch" /\ ctrl[gen] = "gone"
    /\ loop' = "exited"
    /\ active' = 0
    /\ Close(gen)
    /\ UNCHANGED <<daemon, ctrl, conn, serveDone, serveVars, gen, pending, late,
                   stopVars, progVars, userVars>>

LoopAfterExit ==
    /\ daemon = "up" /\ loop = "exited"
    /\ \/ MainEnds
       \/ /\ ~stopping
          /\ loop' = "settle"
          /\ UNCHANGED <<daemon, ctrl, connVars, serveVars, gen, active, pending, late,
                         stopVars, progVars, userVars>>

\* Mutant: WaitServeDone has no timeout.
MaySettleWhenDone == serveDone = 0
\* WaitServeDone, for 2 seconds at most.
MaySettle == serveDone # 0 => Stuck(serveDone)

LoopSettles ==
    /\ daemon = "up" /\ loop = "settle"
    /\ MaySettle
    /\ loop' = "pause"
    /\ UNCHANGED <<daemon, ctrl, connVars, serveVars, gen, active, pending, late,
                   stopVars, progVars, userVars>>

\* An update restart is consumed and goes on at once, any other waits 2 seconds.
LoopPauses ==
    /\ daemon = "up" /\ loop = "pause"
    /\ loop' = "check"
    /\ pending' = FALSE
    /\ UNCHANGED <<daemon, ctrl, connVars, serveVars, gen, active, late, stopVars, progVars,
                   userVars>>

LoopStep ==
    \/ LoopChecks \/ FirstStartFails \/ LoopStarts \/ LoopActivates \/ BindConn
    \/ BindServe \/ LoopSeesExit \/ LoopAfterExit \/ LoopSettles \/ LoopPauses

(***************************************************************************)
(* Serve: reads a request, dispatches it, hands the answer to the forwarder. *)
(***************************************************************************)
ServeBegins(g) ==
    /\ daemon = "up" /\ serve[g] = "launched"
    /\ serve' = [serve EXCEPT ![g] = "reading"]
    /\ forward' = [forward EXCEPT ![g] = "running"]
    /\ UNCHANGED <<daemon, ctrl, connVars, job, events, loopVars, stopVars, progVars, userVars>>

ServeReads(g) ==
    /\ daemon = "up" /\ serve[g] = "reading" /\ pipe[g] # <<>>
    /\ serve' = [serve EXCEPT ![g] = "dispatch"]
    /\ job' = [job EXCEPT ![g] = Head(pipe[g])]
    /\ pipe' = [pipe EXCEPT ![g] = Tail(@)]
    /\ UNCHANGED <<daemon, ctrl, conn, serveDone, open, forward, events, loopVars,
                   stopVars, progVars, userVars>>

ServeReadFails(g) ==
    /\ daemon = "up" /\ serve[g] = "reading" /\ pipe[g] = <<>>
    /\ ~open[g] \/ ctrl[g] = "gone"
    /\ serve' = [serve EXCEPT ![g] = "leaving"]
    /\ UNCHANGED <<daemon, ctrl, connVars, job, forward, events, loopVars, stopVars, progVars,
                   userVars>>

\* A request is dispatched once the locks it takes are free.
Dispatches(g, ops) ==
    /\ daemon = "up" /\ serve[g] = "dispatch" /\ job[g].op \in ops
    /\ ~WaitsForInstance(g)
    /\ IF job[g].op = "start" THEN CanStart(g) ELSE CanLookUp

AnswerNext(g) == serve' = [serve EXCEPT ![g] = "reply"]

DispatchList(g) ==
    /\ Dispatches(g, {"list"})
    /\ AnswerNext(g)
    /\ UNCHANGED <<daemon, ctrl, connVars, job, forward, events, loopVars, stopVars, progVars,
                   userVars>>

\* start_instance, first half: an instance that is not stopped is answered for,
\* any other is put into the manager if it is not there yet.
DispatchStart(g) ==
    /\ Dispatches(g, {"start"})
    /\ LET i == job[g].ins IN
       /\ known' = known \cup {i}
       /\ serve' = [serve EXCEPT ![g] =
              IF prog[i] # "down" THEN "reply" ELSE IF i \in known THEN "starting" ELSE "creating"]
    /\ UNCHANGED <<daemon, ctrl, connVars, job, forward, events, loopVars, stopVars, mu, prog, busy,
                   missed, userVars>>

\* A stopper has made its list without i, or has shut i down already.
Past(s, i) == stop[s] \in {"killing", "waiting"} /\ i \notin toKill[s]

\* Second half, without the manager's lock: ins.Start.
StartProgram(g) ==
    /\ daemon = "up" /\ serve[g] \in Starting /\ mu[job[g].ins] = 0
    /\ AnswerNext(g)
    /\ LET i == job[g].ins IN
       /\ prog' = [prog EXCEPT ![i] = IF @ = "down" THEN "up" ELSE @]
       /\ missed' = IF i \notin known \/ \E s \in Stoppers : Past(s, i)
                    THEN missed \cup {i} ELSE missed
    /\ UNCHANGED <<daemon, ctrl, connVars, job, forward, events, loopVars, stopVars, known, mu,
                   busy, userVars>>

\* An instance that was created for a start that fails is deleted again; one of
\* that name that comes later is not the one a stopper has in its list.
StartFails(g) ==
    /\ daemon = "up" /\ serve[g] \in Starting /\ mu[job[g].ins] = 0
    /\ prog[job[g].ins] = "down"
    /\ LET gone == IF serve[g] = "creating" THEN {job[g].ins} ELSE {} IN
       /\ gone # {} => CanStart(g)
       /\ known' = known \ gone
       /\ toKill' = [s \in Stoppers |-> toKill[s] \ gone]
    /\ AnswerNext(g)
    /\ UNCHANGED <<daemon, ctrl, connVars, job, forward, events, loopVars, stopping, stop, closers,
                   mu, prog, busy, missed, userVars>>

\* WriteStdin: the write returns at once, or keeps ins.Mu until the program
\* has read enough to make room for it.
DispatchInput(g) ==
    /\ Dispatches(g, {"input"})
    /\ \/ /\ serve' = [serve EXCEPT ![g] = "reading"]
          /\ job' = [job EXCEPT ![g] = NoRequest]
          /\ UNCHANGED mu
       \/ /\ job[g].ins \in known /\ prog[job[g].ins] \in {"up", "dying"}
          /\ serve' = [serve EXCEPT ![g] = "writing"]
          /\ mu' = [mu EXCEPT ![job[g].ins] = g]
          /\ UNCHANGED job
    /\ UNCHANGED <<daemon, ctrl, connVars, forward, events, loopVars, stopVars, known, prog, busy,
                   missed, userVars>>

WriteReturns(g) ==
    /\ serve' = [serve EXCEPT ![g] = "reading"]
    /\ job' = [job EXCEPT ![g] = NoRequest]
    /\ mu' = [mu EXCEPT ![job[g].ins] = 0]
    /\ UNCHANGED <<daemon, ctrl, connVars, forward, events, loopVars, stopVars, known, prog, busy,
                   missed, userVars>>

\* The program is gone: the write returns with an error.
WriteFails(g) ==
    /\ daemon = "up" /\ serve[g] = "writing" /\ prog[job[g].ins] \notin {"up", "dying"}
    /\ WriteReturns(g)

DispatchKill(g) ==
    /\ Dispatches(g, {"kill"})
    /\ AnswerNext(g)
    /\ prog' = [prog EXCEPT ![job[g].ins] =
                   IF @ = "up" /\ job[g].ins \in known THEN "dying" ELSE @]
    /\ UNCHANGED <<daemon, ctrl, connVars, job, forward, events, loopVars, stopVars, known, mu,
                   busy, missed, userVars>>

\* restart_controller leaves a goroutine that closes the connection in 100 ms.
DispatchRestart(g) ==
    /\ Dispatches(g, {"restart", "update"})
    /\ AnswerNext(g)
    /\ pending' = (pending \/ job[g].op = "update")
    /\ closers' = closers \cup {job[g].op}
    /\ UNCHANGED <<daemon, ctrl, connVars, job, forward, events, loop, gen, active, late,
                   stopping, stop, toKill, progVars, userVars>>

DispatchStop(g) ==
    /\ Dispatches(g, {"stop"})
    /\ AnswerNext(g)
    /\ stop' = [stop EXCEPT !["request"] = IF @ = "idle" THEN "asked" ELSE @]
    /\ UNCHANGED <<daemon, ctrl, connVars, job, forward, events, loopVars, stopping, toKill,
                   closers, progVars, userVars>>

\* What an answer makes of its controller: the list lets it go on to listen, and
\* after the answer to an update request it shuts itself down.
AfterAnswer(g) ==
    CASE job[g].op = "list" /\ ctrl[g] = "booting" -> "ready"
      [] job[g].op = "update" /\ ctrl[g] = "ready" -> "leaving"
      [] OTHER -> ctrl[g]

\* The forwarder cannot write: it closes its connection, drains the channels, ends.
ForwardFails(g) ==
    /\ Close(g)
    /\ forward' = [forward EXCEPT ![g] = "done"]
    /\ events' = <<>>

\* queueControlResponse, and the forwarder's write of what was queued.
Reply(g) ==
    /\ daemon = "up" /\ serve[g] = "reply"
    /\ \/ /\ forward[g] = "running" /\ open[g] /\ Alive(g)
          /\ serve' = [serve EXCEPT ![g] = "reading"]
          /\ ctrl' = [ctrl EXCEPT ![g] = AfterAnswer(g)]
          /\ UNCHANGED <<open, pipe, forward, events>>
       \/ /\ forward[g] = "running" /\ ~(open[g] /\ Alive(g))
          /\ serve' = [serve EXCEPT ![g] = "reading"]
          /\ ForwardFails(g)
          /\ UNCHANGED ctrl
       \/ /\ forward[g] = "done"
          /\ serve' = [serve EXCEPT ![g] = "leaving"]
          /\ UNCHANGED <<ctrl, open, pipe, forward, events>>
    /\ job' = [job EXCEPT ![g] = NoRequest]
    /\ UNCHANGED <<daemon, conn, serveDone, loopVars, stopVars, progVars, userVars>>

\* Mutant: Serve sets s.Conn to nil without comparing.
ConnForgotten(g) == 0
\* What Serve's end leaves of s.Conn and s.serveDone: what is no longer its own
\* stays.
ConnAfter(g) == IF conn = g THEN 0 ELSE conn
\* Mutant: the same of s.serveDone.
TokenForgotten(g) == 0
TokenAfter(g) == IF serveDone = g THEN 0 ELSE serveDone

\* Serve's deferred function.  What is left in the pipe is never read.
ServeEnds(g) ==
    /\ daemon = "up" /\ serve[g] = "leaving" /\ forward[g] = "done"
    /\ serve' = [serve EXCEPT ![g] = "done"]
    /\ conn' = ConnAfter(g)
    /\ open' = IF conn = g THEN [open EXCEPT ![g] = FALSE] ELSE open
    /\ pipe' = [pipe EXCEPT ![g] = <<>>]
    /\ serveDone' = TokenAfter(g)
    /\ UNCHANGED <<daemon, ctrl, job, forward, events, loopVars, stopVars, progVars,
                   userVars>>

(***************************************************************************)
(* The forwarder of a connection takes events from the channel they share.  *)
(***************************************************************************)
ForwardEvent(g) ==
    /\ daemon = "up" /\ forward[g] = "running" /\ events # <<>>
    /\ IF open[g] /\ Alive(g)
         THEN events' = Tail(events) /\ UNCHANGED <<open, pipe, forward>>
         ELSE ForwardFails(g)
    /\ UNCHANGED <<daemon, ctrl, conn, serveDone, serve, job, loopVars, stopVars, progVars,
                   userVars>>

ForwardStops(g) ==
    /\ daemon = "up" /\ forward[g] = "running" /\ serve[g] = "leaving"
    /\ forward' = [forward EXCEPT ![g] = "done"]
    /\ events' = <<>>
    /\ UNCHANGED <<daemon, ctrl, connVars, serve, job, loopVars, stopVars, progVars, userVars>>

ServeStep(g) ==
    \/ ServeBegins(g) \/ ServeReads(g) \/ ServeReadFails(g)
    \/ DispatchList(g) \/ DispatchStart(g) \/ StartProgram(g) \/ StartFails(g)
    \/ DispatchInput(g) \/ WriteFails(g) \/ DispatchKill(g)
    \/ DispatchRestart(g) \/ DispatchStop(g) \/ Reply(g) \/ ServeEnds(g)

ForwardStep(g) == ForwardEvent(g) \/ ForwardStops(g)

\* The goroutine of a restart request closes the connection of that moment.
CloserFires(c) ==
    /\ daemon = "up" /\ c \in closers
    /\ closers' = closers \ {c}
    /\ CloseIfAny(conn)
    /\ UNCHANGED <<daemon, ctrl, conn, serveDone, serveVars, loopVars, stopping, stop, toKill,
                   progVars, userVars>>

(***************************************************************************)
(* The daemon stops: a signal or the goroutine of stop_daemon marks it,     *)
(* shuts down the instances the manager lists, then the controller, and     *)
(* ends the process.                                                        *)
(***************************************************************************)
SignalArrives ==
    /\ daemon = "up" /\ stop["signal"] = "idle"
    /\ stop' = [stop EXCEPT !["signal"] = "asked"]
    /\ UNCHANGED <<daemon, ctrl, connVars, serveVars, loopVars, stopping, toKill, closers,
                   progVars, userVars>>

StopMarks(s) ==
    /\ daemon = "up" /\ stop[s] = "asked"
    /\ stop' = [stop EXCEPT ![s] = "listing"]
    /\ stopping' = TRUE
    /\ UNCHANGED <<daemon, ctrl, connVars, serveVars, loopVars, toKill, closers, progVars,
                   userVars>>

\* Mutant: an instance that is being stopped is left out.
ListedRunning == {i \in known : prog[i] = "up"}
\* instanceMgr.List.
Listed == known

StopLists(s) ==
    /\ daemon = "up" /\ stop[s] = "listing" /\ CanLookUp
    /\ stop' = [stop EXCEPT ![s] = "killing"]
    /\ toKill' = [toKill EXCEPT ![s] = Listed]
    /\ UNCHANGED <<daemon, ctrl, connVars, serveVars, loopVars, stopping, closers, progVars,
                   userVars>>

\* ins.Shutdown: what runs is killed, and nothing is reported of it.
StopKills(s, i) ==
    /\ daemon = "up" /\ stop[s] = "killing" /\ i \in toKill[s] /\ mu[i] = 0
    /\ toKill' = [toKill EXCEPT ![s] = @ \ {i}]
    /\ prog' = [prog EXCEPT ![i] = "down"]
    /\ busy' = [busy EXCEPT ![i] = FALSE]
    /\ UNCHANGED <<daemon, ctrl, connVars, serveVars, loopVars, stopping, stop, closers, known,
                   mu, missed, userVars>>

\* shutdownController: nothing to do without one, else its connection is closed
\* and it is told to terminate.
StopController(s) ==
    /\ daemon = "up" /\ stop[s] = "killing" /\ toKill[s] = {}
    /\ IF active = 0 \/ ctrl[gen] = "gone"
         THEN ProcessEnds("stopper") /\ UNCHANGED <<ctrl, pipe, stop>>
         ELSE /\ Close(active)
              /\ ctrl' = [ctrl EXCEPT ![active] = "leaving"]
              /\ stop' = [stop EXCEPT ![s] = "waiting"]
              /\ UNCHANGED daemon
    /\ UNCHANGED <<conn, serveDone, serveVars, loopVars, stopping, toKill, closers,
                   progVars, userVars>>

\* Mutant: shutdownController waits without a timeout.
WaitsForever == ctrl[gen] = "gone"
\* The controller has exited, or the 3 seconds pass first.
WaitOver == TRUE

\* After the timeout the controller is killed.
StopWaits(s) ==
    /\ daemon = "up" /\ stop[s] = "waiting" /\ WaitOver
    /\ ctrl' = [ctrl EXCEPT ![gen] = "gone"]
    /\ ProcessEnds("stopper")
    /\ UNCHANGED <<conn, serveDone, pipe, serveVars, loopVars, stopVars, progVars,
                   userVars>>

StopStep(s) ==
    \/ StopMarks(s) \/ StopLists(s) \/ StopController(s) \/ StopWaits(s)
    \/ \E i \in Instances : StopKills(s, i)

(***************************************************************************)
(* Controllers.                                                             *)
(***************************************************************************)
\* A controller that shuts down serves the requests of users it has until then.
Sends(g, r) ==
    /\ daemon = "up" /\ ctrl[g] \in {"ready", "leaving"} /\ open[g] /\ Len(pipe[g]) < PipeCap
    /\ pipe' = [pipe EXCEPT ![g] = Append(@, r)]
    /\ UNCHANGED <<daemon, ctrl, conn, serveDone, open, serveVars, loopVars, stopVars,
                   progVars>>

\* Only the first controller of a daemon starts the AUTO START instances.
AutoStarts(g, i) ==
    /\ g = 1 /\ i \in unstarted
    /\ Sends(g, Request("start", i))
    /\ unstarted' = unstarted \ {i}
    /\ UNCHANGED sent

UserAsks(g, r) ==
    /\ sent < MaxRequests
    /\ Sends(g, r)
    /\ sent' = sent + 1
    /\ UNCHANGED unstarted

\* The pipe is closed: the controller shuts down.
Leaves(g) ==
    /\ daemon = "up" /\ ctrl[g] \in {"booting", "ready"} /\ ~open[g]
    /\ ctrl' = [ctrl EXCEPT ![g] = "leaving"]
    /\ UNCHANGED <<daemon, connVars, serveVars, loopVars, stopVars, progVars, userVars>>

\* A shutdown is over, or a controller ends at any other moment.
Ends(g) ==
    /\ daemon = "up" /\ Alive(g)
    /\ ctrl' = [ctrl EXCEPT ![g] = "gone"]
    /\ UNCHANGED <<daemon, connVars, serveVars, loopVars, stopVars, progVars, userVars>>

ControllerStep(g) ==
    \/ \E i \in Instances : AutoStarts(g, i)
    \/ \E r \in UserRequests : UserAsks(g, r)
    \/ Leaves(g) \/ Ends(g)

(***************************************************************************)
(* Programs.  One that has output to write waits until it is taken; the     *)
(* reader of the output looks at ins under ins.Mu before it takes more.     *)
(***************************************************************************)
ProgramReads(i) ==
    /\ daemon = "up" /\ prog[i] = "up" /\ mu[i] # 0
    /\ WriteReturns(mu[i])

\* What it writes while ins.Mu is free is taken at once.
ProgramWrites(i) ==
    /\ daemon = "up" /\ prog[i] = "up" /\ ~busy[i] /\ mu[i] # 0
    /\ busy' = [busy EXCEPT ![i] = TRUE]
    /\ UNCHANGED <<daemon, ctrl, connVars, serveVars, loopVars, stopVars, known, mu, prog, missed,
                   userVars>>

ReaderTakes(i) ==
    /\ daemon = "up" /\ busy[i] /\ mu[i] = 0
    /\ busy' = [busy EXCEPT ![i] = FALSE]
    /\ UNCHANGED <<daemon, ctrl, connVars, serveVars, loopVars, stopVars, known, mu, prog,
                   missed, userVars>>

ProgramExits(i) ==
    /\ daemon = "up" /\ prog[i] \in {"up", "dying"}
    /\ prog' = [prog EXCEPT ![i] = "exited"]
    /\ busy' = [busy EXCEPT ![i] = FALSE]
    /\ UNCHANGED <<daemon, ctrl, connVars, serveVars, loopVars, stopVars, known, mu, missed,
                   userVars>>

\* The waiter sees the exit, records it under ins.Mu and sends the event.
FinishExit(i) ==
    /\ daemon = "up" /\ prog[i] = "exited" /\ mu[i] = 0
    /\ prog' = [prog EXCEPT ![i] = "down"]
    /\ events' = Append(events, i)
    /\ UNCHANGED <<daemon, ctrl, connVars, serve, job, forward, loopVars, stopVars, known, mu,
                   busy, missed, userVars>>

DaemonStep ==
    \/ LoopStep
    \/ \E g \in Gens : ServeStep(g) \/ ForwardStep(g)
    \/ \E c \in closers : CloserFires(c)
    \/ SignalArrives
    \/ \E s \in Stoppers : StopStep(s)
    \/ \E i \in Instances : ReaderTakes(i) \/ FinishExit(i)

Next ==
    \/ DaemonStep
    \/ \E g \in Gens : ControllerStep(g)
    \/ \E i \in Instances : ProgramReads(i) \/ ProgramWrites(i) \/ ProgramExits(i)

Spec == Init /\ [][Next]_vars

(***************************************************************************)
(* Fairness: every goroutine of the daemon runs, a controller whose pipe is *)
(* closed notices, a killed program dies.  Nothing is assumed of how long a *)
(* controller takes to end, and nothing of when a program reads.            *)
(***************************************************************************)
Fairness ==
    /\ WF_vars(LoopStep)
    /\ \A g \in Gens :
          /\ WF_vars(ServeStep(g))
          /\ WF_vars(ForwardStep(g))
          /\ WF_vars(Leaves(g))
    /\ \A c \in {"restart", "update"} : WF_vars(CloserFires(c))
    /\ \A s \in Stoppers : WF_vars(StopStep(s))
    /\ \A i \in Instances :
          /\ WF_vars(ReaderTakes(i))
          /\ WF_vars(FinishExit(i))
          /\ WF_vars(prog[i] = "dying" /\ ProgramExits(i))

FairSpec == Spec /\ Fairness

\* Programs that read their input whenever they are not held up by their output.
ReadingSpec == FairSpec /\ \A i \in Instances : WF_vars(~busy[i] /\ ProgramReads(i))

-----------------------------------------------------------------------------
TypeOK ==
    /\ daemon \in {"up", "main", "stopper", "error"}
    /\ stopping \in BOOLEAN /\ pending \in BOOLEAN /\ late \in BOOLEAN
    /\ loop \in {"check", "start", "activate", "bind", "bindWait", "watch", "exited", "settle",
                 "pause"}
    /\ gen \in 0..MaxStarts /\ active \in {0, gen}
    /\ conn \in 0..MaxStarts /\ serveDone \in 0..MaxStarts
    /\ ctrl \in [Gens -> {"none", "booting", "ready", "leaving", "gone"}]
    /\ open \in [Gens -> BOOLEAN]
    /\ pipe \in [Gens -> Seq(Requests)]
    /\ serve \in [Gens -> {"none", "launched", "reading", "dispatch", "starting",
                           "creating", "writing", "reply", "leaving", "done"}]
    /\ job \in [Gens -> Requests \cup {NoRequest}]
    /\ forward \in [Gens -> {"none", "running", "done"}]
    /\ events \in Seq(Instances)
    /\ closers \subseteq {"restart", "update"}
    /\ stop \in [Stoppers -> {"idle", "asked", "listing", "killing", "waiting"}]
    /\ toKill \in [Stoppers -> SUBSET Instances]
    /\ known \subseteq Instances /\ missed \subseteq Instances /\ unstarted \subseteq Instances
    /\ mu \in [Instances -> 0..MaxStarts]
    /\ prog \in [Instances -> {"down", "up", "dying", "exited"}]
    /\ busy \in [Instances -> BOOLEAN]
    /\ sent \in 0..MaxRequests

Serving == {"launched", "reading", "dispatch", "starting", "creating", "writing", "reply",
            "leaving"}

\* Where the loop is and what it has set up by then.
LoopInv ==
    /\ conn <= gen /\ serveDone <= gen
    /\ loop \in {"activate", "bind", "bindWait", "watch", "exited", "settle", "pause"} => gen > 0
    /\ loop \in {"activate", "bind", "bindWait"} => serve[gen] = "none" /\ serveDone # gen
    /\ loop \in {"activate", "bind"} => conn # gen
    /\ loop = "bindWait" => conn = gen
    /\ active # 0 => loop \in {"bind", "bindWait", "watch"}
    /\ \A g \in Gens : g > gen =>
          serve[g] = "none" /\ forward[g] = "none" /\ ctrl[g] = "none" /\ ~open[g]

\* A connection that is not the one being served belongs to a Bind that waits.
ConnInv == conn \notin {0, serveDone} /\ ~late => loop = "bindWait"

\* Serve works for the controller it was launched for: it finds its connection
\* and its token in place, whenever the goroutine gets to run.
ServesItsOwn ==
    \A g \in Gens : serve[g] = "launched" =>
        conn = g /\ serveDone = g /\ loop \in {"watch", "exited", "settle"}

\* One Serve goroutine is the current one; others exist only after a timeout.
ServeInv ==
    \A g \in Gens :
        /\ serve[g] \in Serving => serveDone = g \/ late
        /\ serveDone = g => serve[g] \in Serving
        /\ forward[g] = "running" => serve[g] \in Serving \ {"launched"}
        /\ serve[g] = "leaving" => ~open[g] \/ ctrl[g] = "gone"
        /\ forward[g] = "done" => ~open[g] \/ ctrl[g] = "gone"

\* A start is under way for a start request, and ins.Mu is held by the Serve
\* goroutine that writes to the instance.
LockInv ==
    /\ \A g \in Gens : serve[g] \in Starting => job[g].op = "start"
    /\ \A g \in Gens : serve[g] = "writing" =>
          job[g].op = "input" /\ job[g].ins \in known /\ mu[job[g].ins] = g
    /\ \A i \in Instances : mu[i] # 0 =>
          mu[i] \in Gens /\ serve[mu[i]] = "writing" /\ job[mu[i]].ins = i

\* What runs is in the manager, and a stopper still has it on its list.
StopInv ==
    /\ \A i \in Instances : prog[i] # "down" => i \in known \cup missed
    /\ \A s \in Stoppers : \A i \in Instances :
          stop[s] \in {"killing", "waiting"} /\ prog[i] # "down" => i \in toKill[s] \cup missed
    /\ \A s \in Stoppers : stop[s] = "waiting" => toKill[s] = {}

SupervisorIInv ==
    TypeOK /\ LoopInv /\ ConnInv /\ ServesItsOwn /\ ServeInv /\ LockInv /\ StopInv

(***************************************************************************)
(* Properties.                                                              *)
(***************************************************************************)
\* s.Conn is set to nil only for a connection that is closed or whose
\* controller is gone: the goroutines of an earlier controller, however late
\* they end, do not take the connection of the present one away.
ConnectionKept ==
    [][conn # 0 /\ conn' = 0 => ~open[conn] \/ ctrl[conn] = "gone"]_vars

\* A forwarder that ends throws away the events of the channel all connections
\* share.  It does so before the next controller is served (which then asks for
\* the list anyway), except after Bind has given up waiting for it.
EventsNotStolen ==
    [][\A g \in Gens : forward[g] = "running" /\ forward'[g] = "done" /\ events # <<>> =>
          conn \in {0, g} \/ serve[conn] = "none" \/ late]_vars

\* When a stopper ends the daemon no program is left, except one whose start
\* was served after the stopper had made its list.
ShutdownMissesNothing ==
    daemon = "stopper" =>
        \A i \in Instances : prog[i] \in {"up", "dying"} => i \in missed

\* A controller that is gone is followed by another one unless the daemon stops.
ControllerReturns ==
    (gen \in 1..(MaxStarts - 1) /\ ctrl[gen] = "gone") ~>
        (loop = "activate" \/ stopping \/ daemon # "up")

\* A daemon that is asked to stop ends, unless an input is never taken.
StopEnds ==
    (\E s \in Stoppers : stop[s] # "idle") ~>
        (daemon # "up" \/ [](\E i \in Instances : mu[i] # 0))

\* doc/不停机更新.md, on the connection: messages are not blocked by instances or
\* by their output.  Here: a request in a pipe is read.
MessagesNotBlocked ==
    \A g \in Gens : pipe[g] # <<>> ~> (pipe[g] = <<>> \/ daemon # "up")
=============================================================================
