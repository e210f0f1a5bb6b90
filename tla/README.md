# IpacPanel: a TLA+ model of the daemon, the controller and the web panel

IpacPanel runs programs ("instances") for its users. Two processes share the work. The **daemon**
(`daemon/`) owns the programs: it spawns them, waits for them, runs their cleanup commands and reports
their ends. The **controller** (`controller/`) owns everything a user sees: the web API, the configuration,
the automatic restarts, the scheduled tasks and the terminals. It is a child of the daemon, can be replaced
while the programs keep running (an update without downtime, `doc/不停机更新.md`), and talks to the daemon
over a pipe: synchronous requests one way, output and exit events the other. The **panel**
(`controller/public/src`) is the controller's page in the browser: it shows the instances, their terminals and
files, and every click in it is a request whose answer comes some time later.

This directory holds specifications of the parts where a mistake costs a user a program, its output, a file or
unsaved text, TLC configurations that check them on small instances, and theorems that TLAPS proves for every
instance.

## 1. Inventory

| Component (source) | State | Operations | What makes it correct |
|---|---|---|---|
| daemon instance (`daemon/instance.go`) | state, attached program, `proxySeq`, runtime code, cleanup settings, the published cleanup command | start, stop, kill, marks, program exit, cleanup, exit report, shutdown | one program at a time; a killed run is not cleaned up; an exit is reported once, as unexpected only if nobody asked for it |
| daemon server (`daemon/server.go`, `daemon/ipc`) | the connection, four channels | dispatch of requests, forwarding and draining of events | no event is sent twice; what is lost is lost for a stated reason |
| controller supervisor (`daemon/controller.go`, `server.go`, `main.go`) | the controller process, the connection and its token, the update flag | spawn, bind, serve, wait, restart, update restart, shutdown | a controller is there unless the daemon stops; an old connection's goroutines do not disturb the new one; a shutdown leaves no program |
| instance process (`controller/src/process/process.go`) | state, `Starting`, restart token, override command, `Updating` | START, STOP, KILL, RESTART, automatic restart, exit event | it agrees with the daemon, or is about to |
| registry and recovery (`manager.go`, `run.go`) | the instances, the list the daemon answers with | restore states and restarts after a controller start | the restored state is the daemon's |
| daemon client (`daemon_ipc.go`) | pending requests, instance aliases | request with a 30 s timeout, events, output | an answer that comes too late does not corrupt the state |
| terminal stream (`process_client.go`, `terminal_history.go`, `terminal_alternate_screen.go`, `web/api/instance_ws.go`) | bounded history, alternate-screen filter, per client a cursor, a wake-up and a queue | output, panel messages, greeting, flush, live frames, close | in order, once, gaps announced, no writer asleep over unread output |
| instance events (`web/api/instance_runtime.go`, `instance_events.go`; `store/sseClient.js`, `instanceStatusStore.js`) | versions, names with unsent changes, a channel per subscriber, an owed full list; the page's list and its version | change, tick, broadcast, snapshot, patch, connect, break | the page ends up with the controller's list |
| upload (`module/fileCreateModal.js`, `api/file.js`; `web/api/file_upload.go`) | the items and their contexts, the run, sessions with a count of users | choose, drop, scan, submit, chunk, retry, complete, remove, abort, expire | DONE is true; a cancelled upload does not appear; the page does not stay locked |
| terminal page (`module/terminal.js`) | the socket, timers and checks, waiting input, the write queue, the drawn input line | open, lose, reconnect, type, print, fit | input reaches only the instance it was typed for; the line drawn is the line typed |
| text editor (`module/fileEditorModal.js`) | baseline, model, diff, operations under way | open, read, edit, save, close | what is called unchanged is saved |
| navigation (`ui.js`, `page/instanceWorkspacePage.js`, `page/instanceList.js`) | page, URL, history, the instance that is open, the form | clicks, back and forward, questions, answers, the list's changes | URL, page and terminal agree; unsaved text is kept |
| file selection and batch (`module/fileList.js`, `fileBatchActionModal.js`; `web/api/file_batch.go`) | include and exclude rules | click, select all, run a batch | a batch treats what is shown as selected |
| file list and entry dialogue (`module/fileList.js`, `fileActionModal.js`) | directory, page, search, loads under way, an extraction | open, page, search, rename, delete, extract, cancel | the list shown is the one asked for last |
| task scheduler (`scheduler.go`) | jobs per instance, generations | rebuild, stop, execute | tasks of a deleted or updating instance do nothing |
| instance update (`instance_update.go`), atomic files (`atomic/file`) | staged, backup and target directories | stage, swap, roll back | a crash leaves the old or the new content |
| configuration (`config/`) | three files and their snapshot in memory | transactions, mutation plans, save | memory and files agree; a failed save changes neither |
| deletion (`web/api/instance_mutation.go`) | registry, configuration, files | delete with tombstone and roll back | all or nothing |
| metrics, log buffer, users, sessions, HTTP plumbing, command parsing, the panel's dashboard, settings, logs and login, build | - | - | not modelled, see section 7 |

`PROJECT.json` lists every component with its state of modelling and, under `hazards`, the places in the
code that are hard to test, each at its line.

**How they interact.** A request of a user or a task takes `sp.Mu` in the controller, changes the
controller's state, *releases the lock* and then calls the daemon; the daemon serves one request at a time
under `ins.Mu`, but signals programs after releasing it. Ends of programs travel from a waiter goroutine
through a bounded channel and a forwarder to the controller's reader. Output takes the same pipe, is put
into the history under `outputMu`, and every websocket has a goroutine that reads it from there. So the two
states of an instance drift apart all the time; most of what is checked here is that they meet again.
The panel hears of the instances through one stream of events (server-sent events over a POST), reaches a
terminal through a websocket and everything else through requests. Its parts share the name of the instance
that is open, a sequence number that outdates the answers of earlier openings, and the questions to the user,
but no other state.

**What is hard.** Interleavings between lock releases and calls (start against stop against delete), an
exit event that names no run, a late answer after a timeout, a full or drained event channel, a controller
that is replaced, tokens of waiting restarts that are shared, a bounded history read by slow clients, and, in the page, answers that arrive after the user has gone
on, timers that outlive what they were set for, and two codes, one here and one at the controller, that must
decide alike.

## 2. Structure

| Module | Models | Proved |
|---|---|---|
| `InstanceRuns` | what the daemon promises about the runs of one instance (abstract) | - |
| `DaemonInstance` | one instance in the daemon; implements `InstanceRuns` | types, safety, refinement |
| `InstanceSystem` | `DaemonInstance` and the controller's side of it, with controller restarts | the controller's invariant, the link to the daemon, refinement |
| `TerminalStream` | output on its way to the terminals | types, safety, what the filter yields |
| `ControllerSupervisor` | the daemon's loop around the controller, connections, update restart, shutdown | safety |
| `StatusFeed` | the instance list on its way to the page, both ends | types, safety |
| `UploadQueue` | the upload page and the server's upload sessions | types, safety |
| `TerminalView` | the terminal page's connection, input and drawing | types, safety |
| `FileEditor` | the text editor | types, safety |
| `Workspace` | navigation and the instance form | types, safety |
| `FileSelection` | selection rules and batch operations, both ends | safety |
| `FileBrowser` | the file list and the dialogue of one entry | types, safety |
| `MCPanel` | the parts of the panel side by side | implements every part; types, safety of all |

The daemon's and the controller's modules build on one another: `InstanceSystem` extends `DaemonInstance`,
which instantiates `InstanceRuns`. The parts of the panel share no variable; `MCPanel` puts them side by side and
a behaviour explores the one its variable `part` names, so that one run checks them all. Proofs are in
modules of their own, `<module>_proofs`; `InstancePanel_proofs` is about what the panel shows of instances
(`StatusFeed`, `TerminalView`, `Workspace`), `FilePanel_proofs` about the file page: the list, its selection and the
editor (`FileBrowser`, `FileSelection`, `FileEditor`), and `Panel_proofs` about `MCPanel`.

The order in which this was built is the order of importance: programs first, their output, the process that
keeps both sides connected, then the page. What would come next are the components of the daemon and the
controller that section 7 lists as not modelled.

## 3. Modules and how they correspond to the code

### `InstanceRuns`, `DaemonInstance`

`DaemonInstance` has the fields of the Go struct as variables and numbers the runs by `proxySeq`. Each
critical section under `ins.Mu` is one action; what happens after the lock is released is another:
`Stop` chooses the signal and `SendSignal` sends it; `FinishProcessExit`, `SpawnCleanup`, `PublishCleanup`,
`CleanupWaited`, `FinishCleanupExit` and `SendExited` are the stretches of a waiter goroutine. The
dispatcher serves one request at a time, so `dispatch` is what it still owes. A program may ignore a
stop, may exit at any time, and dies of a kill. `ForwardEvent` and `DrainEvents` are the two ends of the
event channel. `InstanceRuns` is the promise without locks and channels: runs begin one after the other, a
cleanup belongs to a run that ended without a kill, and its end is told once and as unexpected only if
nobody wanted it. `Promise` is the refinement mapping.

Histories (`report`, `asked`, `forced`, `killedLate`) record what properties speak of and no action reads.

### `InstanceSystem`

Extends `DaemonInstance` with the controller: `cst` is `sp.State`, `starter` the goroutine whose start
reservation is current, `restartCancel` whether a token exists, `override` the command of a RESTART. Any
number of goroutines (`Threads`) serve requests. A start is the chain `StartRequest` (reserve), `BeginUpdate`
and `EndUpdate` (the path lock and a staged update), `CallStart` (the daemon's critical section) and
`EndStart` (commit, or kill what was started if the reservation is gone). `StopWaiting` .. `StopStarting` and
`RestartStopping` .. `RestartStopped` are the branches of `Stop` and
`requestRestartWithKillStopAndCommand`; requests to the daemon that they send without the lock are queued in
`todo` and sent by `CallDaemon`. `Schedule` and `TimerFires` are `scheduleAutoRestart`; `DeliverExit` is
`handleDaemonProcessExit`. `ControllerRestarts`, `ListRuntime`, `RestoreRuntimeStates` and
`RestoreAutoRestarts` are a controller's life; in between, events and the daemon go on.

Two histories mark the situations in which the code itself loses track; each property excepts only those that
break it, and says that nothing else does.

- `astray`, excepted from `NoLostProgram`: an answer of `start_instance` that comes after the controller has given up
  (`StartTimesOut`); the report of an earlier run that is taken for the present one's (`Misleads`); an automatic
  restart decided by a list that is out of date by then (`RestoreAutoRestarts`).
- `deaf`, excepted from `NoPhantomProgram` and `StopSettles`: a report the daemon has dropped at a full channel; and
  one that is delivered after `list_runtime` was answered and before the answer is used (`ComesTooEarly`). The second
  is a defect of the recovery (section 6): the report is ignored and the instance then shown as running.

### `TerminalStream`

Output is counted in units, numbered in the order in which the program puts them out: a text, a switch to or
from the alternate screen, or one half of an escape sequence that two chunks share, which may turn out to be such
a switch. `log` is everything that was ever put into the history and `base` is where the kept part starts, so a
position of the log is a sequence number of `TerminalHistory`. `Filter` is `filterPTYAlternateScreenHistory` on units. `OutputPlain`
and `OutputPTY` are the two halves of `HandleDaemonInstanceOutput`, which holds `outputMu` throughout.
A client passes through `Greet` (copy and cursor are taken together), `SendInitial`, `Attach` and `Enable`;
its writer then parks, sends what is queued, or flushes what the history has for it. A flush moves the
cursor, writes and re-arms the wake-up: these are one action, as no other goroutine looks at the cursor and
the writer is awake all the while. A write that fails is a `Disconnect`. `opened`, `got` and `slipped` are histories.

Abstractions: bytes are units, so the history is never cut inside an escape sequence, which is what
`safeTerminalHistoryStart` is for; a held-back part is one unit, so the limit of 32 pending bytes is not
reached; the terminal mode is read together with the filter's state, where the code reads it one lock
earlier. A unit has no length. The code decides by `len(historyData) == len(data)` whether a chunk was kept
whole; `Compared` is what that can come to: the same if all of it was kept and nothing else, less if something
was dropped; and with a half of an earlier chunk joined, whose bytes count on the history's side only, more if all was
kept and any outcome if something was dropped.
`slipped` records the units that this comparison lets go neither into the history nor to the clients.

### `ControllerSupervisor`

Controllers are numbered from 1 (`gen` is the last), and everything that belongs to one connection, the two
pipe ends, the `Serve` goroutine, the request it has read and its forwarder, is a function of the number.
`Serve` reads `s.Conn` and `s.serveDone` only when its goroutine gets to run; that it then finds the
connection and the token of its own controller is the invariant `ServesItsOwn`, for which the numbering is
justified. `loop` is the place of `controllerLoop` between two points at which another goroutine can act:
`BindConn` and `BindServe` are the two halves of `Bind`, `LoopSeesExit`, `LoopAfterExit`, `LoopSettles`
and `LoopPauses` what follows a controller's exit. `ServeReads`, the `Dispatch..` actions and `Reply` are
one round of `Serve`; `start_instance` is two steps, as `ins.Start` runs without the manager's lock.
`ServeEnds` is the deferred function. `CloserFires` is the goroutine of a `restart_controller`; the two
stoppers, a signal's and a `stop_daemon`'s, go through `StopMarks`, `StopLists`, `StopKills`,
`StopController` and `StopWaits`.

Three locks are kept as far as they can be held for long: `mu` is the `ins.Mu` of an instance to which an
input is being written, and `WaitsForInstance`, `ManagerLocked` and `CanLookUp` say who waits for it while
holding the manager's lock. A timeout (`MayServe`, `MaySettle`) fires only if what it waits for hangs on such
a lock (`Stuck`): everything else that can go on is assumed to do so within the seconds the code waits.

Abstractions: an answer is written at once by the forwarder that is there when it is queued; a stopper
takes the instances of its list in any order, and passes one that hangs; a program's output is taken at once
while `ins.Mu` is free; a later controller that fails to start is a stutter, as the loop tries it again;
an instance counts as one program, whose runs `DaemonInstance` has in detail; its cleanup phase is left out.
Nothing is modelled of the time after the daemon's process has ended. `Serve`'s early return without a
connection does not occur (`ServesItsOwn`).

`late` and `missed` are histories. `missed` collects the programs that were started when a stopper
had already made its list or was past them, or that a failed start has taken out of the manager: the daemon
has no means to stop those, and `ShutdownMissesNothing` says that no other program survives.

### The parts of the panel

In all of them a stretch of JavaScript between two points at which it can be interrupted is one action, requests
and timers under way are sets, and an answer is an action that finds the page as it is by then. Questions to the
user are answered later. Texts, names and files are abstract; what is drawn is left out unless a property is
about it. Fields of several objects that always change together are one record.

**`StatusFeed`** has both ends. `FeedStatusChange`, `FeedFlush` and `BroadcastInstanceListUpdates` are the hub's
critical sections: status changes are remembered per name and sent by the tick, structural changes at once
unless one was less than a second ago. `Offer` is `broadcastInstanceSignalLocked`. The handler of the page's
stream is cut at its unlocks: it takes a signal, decides under the lock, then builds a patch or a full list from
what the instances are by then. The page applies events in order; a patch out of order or of an unknown
name makes it give the stream up (`GiveUpStream`), after which it may still apply events it had read in the
same piece. `fdMissed` collects the changes that no signal will ever carry: throttled structural changes, and
entries the tick drops before a slow handler has read them. There is one subscriber.

**`UploadQueue`** has the page and `file_upload.go`. An item's context goes through init, its chunks, complete;
`RunOn` is what the loop of `uploadFileGroupChunks` does with an answer it holds: a file whose last chunk has settled
begins to be merged, and `fillSlots` (`TakeOrFill`) takes the next item, whose init is then under way while the merge
is, or fills the slots. A request at the server
is cut where it holds the session (`ActiveRequests`) without the lock: `write`, `commit`, `wait`. `UpLose`
breaks a connection at any point; the server goes on with a request it has begun. A retry is a new request for
the same chunk, which the server may already have.

**`TerminalView`** numbers the openings of a terminal (`Session`); the numbers in waiting input, sockets and
checks are histories. The socket of `connectWebSocket`, its `onclose`, the reconnect timer and the existence check
are actions of their own. The write queue is what `queueTerminalWrite` serialises, with one entry at xterm at a
time; the drawn line is `plainInputBuffer` (empty or not), `plainPromptVisible` and the pending fit.

**`FileEditor`** has texts out of a set: any file may hold any of them, and an edit (typing, undoing, pasting) leads
to any other, an earlier one included. Reading and the start of Monaco run side by side under `fileEditorOpSeq`; a
save is a request that is stored and answered separately, or, for a large file, an upload that closing aborts and the
host may still complete (`edStray`). A save ends as failed (`EdSaveFails`) because the host has refused it, or because
its answer was lost, before or after the host has written the file: the baseline stays in either case. `edFailed` and
`edBehind` are histories for what `EdCleanIsSaved` excepts: texts whose save failed from this opening although the
host got them or may still get them, and an opening that overlaps an earlier write of its file or whose baseline is
what another file's save has answered. A save that is answered as stored ends both (`SaveSettles`), unless given up
ones may still be completed.

**`Workspace`** writes each stretch of the code as an operator from tab to tab (`Route`, `StartOpen`, `Left`,
`Stayed`, `Ask`), and the handlers apply them: a click on home runs two handlers and so applies `Ask` twice.
`wsOverlap` is a history that says two moves have met (a second question, a move of the history while
something was under way); what the URL says after that is right or wrong by chance, and `WsTabAgrees` is stated
for the time before. `HandleApiInstance` is the controller's side of the form as one step.

**`FileSelection`** has `cleanSelectionRules`, `isSelectedByRules` and the clicks of the panel, and, by its own
code, the walk of `file_batch.go`; a path is a model value and `Inside` says what it lies in. An included path
is treated at a time; single files may fail. That an excluded directory is entered when it was itself included
differs between delete and copy, as in the code.

**`FileBrowser`** has the loads of `fileList.js` with their sequence and session, the fallback from a remembered
directory to the root, the jump of a search that holds a path, and the dialogue that renames, deletes and
extracts. `brStrayed` is a history that says an answer of the dialogue came from another instance or overtook a
load, which the code applies without a check.

## 4. Runs

All runs use two workers and end within two to three minutes each.

| Run | Expect | What it shows |
|---|---|---|
| `daemon_instance` | pass | two runs, an event channel of one slot, stop and kill requests with three codes, cleanup on or off, drains and shutdown at any point. Exclusivity, the rules for kills and for unexpected exits, the inductive invariant; under fairness every exit is accounted for and a kill ends its run; and the refinement of `InstanceRuns`. |
| `daemon_kill_cleanup` | violation | `KillStopsCleanup`: the user guide says a KILL does not run the cleanup command and stops one that is running; a KILL between the program's exit and the publication of the cleanup command does neither. |
| `instance_system` | pass | three goroutines, four requests, one late answer, three runs: the controller and the daemon do not lose each other, and a STOP of a waiting restart is final. |
| `controller_restart` | pass | two goroutines, three requests, one controller restart at any point: the same, except for a report that comes between `list_runtime` and its use, and under fairness a stop settles and a waiting restart happens. |
| `override_lost` | violation | `OverrideIsUsed`: the start command a RESTART of a running instance carries is cleared when the program exits. |
| `stop_forgotten` | violation | `StopCancelsRestart` with a controller restart: the STOP of a waiting restart left no trace in the daemon, so the recovered restart starts the program. |
| `terminal_stream` | pass | six units of output in chunks that stay on the screen, switch it or cut a sequence, a history of three, flushes of two, a queue of one: order, announced gaps, no sleeping writer, delivery of what is not kept, and catching up. |
| `terminal_order` | violation | `OutputInOrderOnce`: a chunk the history keeps only in part is also queued whole, so its kept part is written twice. |
| `controller_supervisor` | pass | three controllers, an instance with AUTO START, one request of a user at any moment, pipes of one request: connections and events stay with their controller, a shutdown misses nothing it can know of, and under fairness a controller that ends is followed by another and a stop ends. |
| `input_blocks` | violation | `MessagesNotBlocked`, with programs that read whenever their output does not hold them up: input to such a program blocks every later request. |
| `panel_safety` | pass | the seven parts of the panel: whether what the page shows, offers or sends agrees with the controller, the instance that is open and what the user did, and unsaved text is not dropped without a question. |
| `panel_live` | pass | status feed and upload under fairness: the page ends up with the controller's list, and a submitted upload always gives the page free again. |

**Why the bounds are enough.** Two runs are the least in which something of an earlier run (its waiter,
report, signal, token) can meet a later one; `instance_system` has three so that a report can be late by two.
A channel of one slot is full and drained in few steps. Three goroutines allow a start, a request against it
and a waiting restart at once. A history of three units overflows with the fourth; flushes of two leave a
rest; a queue of one overflows with the second live frame. Clients of a stream do not interact except
through the lock, so one is enough. Three controllers are needed for a goroutine of the first (a `Serve`, a
forwarder, a closer) to meet a bound and served successor and for the loop to come around once more; one
instance suffices because the daemon treats them alike except for the locks, which one instance can hold (two
instances were checked without liveness). `input_blocks` has two requests, so that one can wait behind
the other. Deadlock is not checked in the daemon's runs: the bounds on runs and
requests make the system stop there, a daemon that was stopped is over, and an instance that is never asked for anything may rest.

The panel's parts: two changes and one fault let a change fall into every stretch of the handler and of a
reconnection, a channel of one is full at the second signal. In `panel_safety` two kinds of item (a file, and a
folder's empty directory), files of two chunks, two chunks in flight, two submits, one fault, one removal and
three of these together; in `panel_live` two files, two faults and two attempts, so that a file is retried and given
up. Two instances, two openings and six bounded events in the terminal let input, a check or a timer of one
opening meet the other; two waiting chunks are too many. Two files, one saved by an upload, two texts (any of which a
file may hold, so that an undo to the baseline is an edit), two openings and two saves in the editor; three texts were
checked separately. Three events of the navigation, among three moves, a form, a change by another user and a
reload. Five paths, with a directory in a directory and a file in each, and four clicks before and during a batch.
Two switches of instance, a load the user asks for and two uses of the dialogue. Deadlock is not checked, as
the bounds end every behaviour.

**Fairness.** `DaemonFairness`: a goroutine that can go on does, a process that was killed does die; nothing
makes a live program exit, a cleanup command end or a user ask. `SystemFairness` adds the controller's
goroutines, its reader of events, its timers and its startup sequence. `WritersRun`: the writer goroutine of
an open websocket goes on. `CatchesUp` holds with a bounded amount of output; the writer prefers its queue to
the history, and an endless flow of live frames that it can never outrun is outside the model.
`ControllerSupervisor` assumes that each goroutine of the daemon runs when it can, that a controller notices
that its pipe is closed and that a killed program dies; not that a controller ends, nor that a program reads
its input. `ReadingSpec`, for `input_blocks` only, adds that a program reads unless its output holds it up:
without this assumption a program that never reads would be to blame.

`FeedProgress` is the tick of the hub, the handler, the reconnect timer, the boot of a loaded page and the
delivery of what was sent; nothing makes instances change, a stream break or a throttled second pass.
`UpProgress` is that requests are answered, retries come due and scans end. The XHRs of an upload have no
timeout, so a connection that neither breaks nor answers would keep the page locked: that every request is
answered or lost is an assumption about the network, and `UpUnlocks` is about everything else.

Every property of a passing run has a mutant in `PROJECT.json`: a change of one definition, like a dropped
guard or a token that is not shared, that TLC then finds to violate it. The mutated forms stand beside the
definitions they replace, marked `Mutant` or `Variant`.

## 5. Proofs

TLAPS checks the modules `DaemonInstance_proofs`, `InstanceSystem_proofs`, `TerminalStream_proofs`,
`ControllerSupervisor_proofs`, `InstancePanel_proofs`, `FilePanel_proofs`, `UploadQueue_proofs` and
`Panel_proofs`. Every invariant and every action property of a passing run is a theorem, and so are the refinements
of `InstanceRuns`. The assumptions are the named `ASSUME`s on the constants (numbers are numbers, sets of
settings are sets of Booleans, paths form a forest, names differ from the fixed routes); TLC evaluates them in
every run. Two are more than a typing. `SentCodesAssumption` and `NoCleanupAssumption` say that the daemon accepts what the controller of
`InstanceSystem` sends it: the three stop codes of the code, and no cleanup command. What the filter of
`TerminalStream` yields is an induction over a chunk. The library's induction theorems cannot be used, as they take
an operator; it is done by the least place at which the claim fails (`LeastNumber`, from the library's `WFMin`).

**DaemonInstance.** `DaemonIInv` is inductive: besides the types it says which run is attached in which state
(attachment), that runs later than `proxySeq` are unborn, where a waiter can be when its process is or is not
up, that only the current run can be ending, that a kill of an attached program leaves `skipCleanup` set, that
an unasked run is the only one with the unexpected code, and that the channel and `report` agree. The property
`KillSuppressesCleanup` needs the last two of these: that the flag outlives later requests is not visible in
the state after the kill alone. From it follow `KillsAreFinal`, `CausesAreTrue`, `ProgramsAreExclusive` and
`DaemonTypes`. `DaemonKeepsPromise` shows the refinement: each action is mapped to a step of `InstanceRuns` or
to a stutter; the invariant supplies that a run begins only when the earlier ones are over.

Two theorems are about what the liveness properties rest on: a state from which nothing more would happen is never
reached. `WaiterCanStep` lists the guards of the waiter's steps. `ExitsMoveOn`: while the daemon is not shut down a
program that has ended is reported, waits for a live cleanup command, or has a waiter that can take its next step or
sees a killed cleanup command die. `KillsMoveOn`: a kill of the attached program keeps its signal under way until
the program is killed, no cleanup command comes between, and until the run is over a step towards its end can happen.
This is what remains of the promise that `KillStopsCleanup` finds broken. Both need `Accounts` besides `DaemonIInv`:
a waiter that is done has left a report, a killed run has only its program's end to wait for, and a waiter waits
for something that was there.

**InstanceSystem.** `ControllerIInv` joins types, `StarterInPath` (the current reservation belongs to a
goroutine that is on its way through a start), `TokenHeld` (who waits for a restart has the token),
`CallsPending`, `ColdStart` and `RestartHasOwner` (an instance that waits for a restart has a goroutine that
will make it). `RestartsAreOwned` and, without controller restarts, `StopIsFinal` follow.
`SystemServesDaemon` shows that every step of the composition is a step of `DaemonInstance` or leaves the daemon
alone; `DaemonIInv` therefore holds here, and `SystemKeepsPromise` refines `InstanceRuns` from the whole system.
With both invariants at hand, `LinkIInv` joins the two sides. `NothingLost` is `NoLostProgram` and what a
starting controller reads: its list, once it has it, does not miss a running program, as nobody
can start one before the states are restored. `NothingImagined` extends `NoPhantomProgram` from what the controller
shows to what it is going to show: a goroutine whose start was answered and still holds the reservation, and a list
that has been read but not applied. An exit that falls between the daemon's answer and the controller's commit is
the case these are for: the report is then on its way and will not be taken for one of an earlier run. `NeverCleans`
says that the daemon's state of these instances is never `cleaning`. `ProgramsAreNotLost` and `NoPhantoms` follow
for any number of goroutines, requests, runs, controller restarts and late answers.

**TerminalStream.** `FilterSorts` says what the filter makes of any chunk from any of its states: what it keeps are
places of the chunk, each once and in order, after the half held before, if that is kept, and what it holds back comes
after all of them. `FilterKeepsPlainOutput`: a chunk without a switch, outside the alternate screen, is kept whole,
except for a half at its end, which is held back. `StreamIInv` is `ReadersIInv` and `UnitsOnce`. `ReadersIInv` joins types, that cursors
stay within the history, that the greeting is the first frame and ends at the cursor (`GreetedFirst`), that nothing
written lies beyond the cursor (`ReadBehindCursor`), and the properties about the order. `HistoryInOrder` alone is
not inductive: that the next flush does not repeat anything needs `ReadBehindCursor`, and that holds of the first
flush because of `GreetedFirst`. `UnitsOnce`, no unit is in the history twice, needs `FilterSorts` and is
`HistoryHasItOnce`. `WritersNeverSleep`, `HistoryIsInOrder`, `GapsAreTold` and `AlternateIsDelivered` follow for any
number of clients, any chunks and any capacities. The last goes by what became of a unit that is not
in the history: either the comparison found the chunk shorter, or the alternate screen was active, and the chunk went
live; or a half was held and the comparison let the unit slip; and a client whose queue is full is closed. The
attempt corrected the model: `AlternateDelivered` was first stated without `slipped`, with a comparison
that counted units, and the chunks of the run did not contain the case in which it fails (section 6).

`OutputInOrderOnce` is false (section 6), and the proofs say how much of it is true. `HistoryIsShownOnce`: what comes
from the history, greeting and flushes, shows no unit twice, in every mode; this combines `HistoryInOrder` with
`UnitsOnce`. `PlainOutputInOrder`: without a PTY `OutputInOrderOnce` itself holds. `PlainHistory` is its invariant:
the history is in the order of output, no frame waits in a client's queue and none that was written is live.

**ControllerSupervisor.** `SupervisorIInv` joins types, what the loop has set up at each of its places
(`LoopInv`), `ConnInv` (a connection that is not served belongs to a `Bind` that waits, unless a timeout has
passed), `ServesItsOwn`, `ServeInv` (one current `Serve`; the others exist only after a timeout), `LockInv`
(who holds `ins.Mu`) and `StopInv` (what runs is in the manager and on the lists of the stoppers, except
`missed`). `ConnectionIsKept` needs `ServeInv`: a `Serve` ends only when its connection is closed or its
controller gone. `EventsAreNotStolen` needs `LoopInv` and `ServeInv` together, as the old forwarder ends
before its `Serve` does and the loop waits for the latter. `StopperMissesNothing` is `StopInv` at the step
that ends the daemon. All hold for any number of controllers, instances and requests.

`InputHangs` is a write to a program that does not return at once (`WriteStdin`). `OnlyInputHolds`: a `Serve` that is
stuck, in whatever lock, is so because of such a write, so that what `MessagesNotBlocked` refutes has one cause.
`LoopIsServed`: `Bind` and the wait after a controller's end wait for a `Serve` whose controller is gone, which is
stuck in that way or has a step it can take (`ServeCanStep`). `StoppersMoveOn` says the same of a stopper at each of
its places. `BindWaitsItOut`: where no write hangs, the timeout of `Bind`, an exception in several properties, never
passes. `Staffing` is the invariant that these need besides `SupervisorIInv`: outside `watch` the `Serve` waited for
belongs to a controller that is gone, and one that has begun has a forwarder.

**StatusFeed.** `FeedIInv` joins the types and `FeedNeverSilent`, and this is inductive because the latter names all
places a full signal can be in: the channel, or the handler's hands before it has taken the debt off. Every action
of the handler moves it between them, and while a list is owed `Offer` changes nothing. For any capacity.

**FileSelection.** `SelIInv` joins the types, that the rules are clean (no included path lies in another or is excluded)
and that what exists lies in directories that exist. `CleaningKeepsSelection` is about the operators alone, for every
forest and all rules. `BatchMatchesList` needs all parts: without clean rules a copy would enter an included directory
that is excluded as well. `TogglesAreLocal` combines the type invariant with `CleaningKeepsSelection`.

**FileBrowser.** `BrIInv` joins the types and two parts. `ListIInv`: requests for lists are numbered apart, and the one
whose answer would still be applied is the one that is wanted, so that what is shown when nothing is under way is the
answer of the last one (`PanelShowsLatest`). `EntryIInv`: the dialogue's flags agree with one another, extractions
are numbered apart, and the current one is of the entry that the dialogue shows; `DialogueShowsOwnExtraction` is its
last conjunct. Both need the numbering: without it a new request could share its number with an old one, whose
answer would then pass the check as well.

**TerminalView.** There are two invariants that do not need each other. `ConnIInv` joins types, `RouteInv` and
`BackInv`. `RouteInv`: an open socket, all waiting input and the last existence check belong to the present
opening, which makes whatever is sent next go to the right one. `BackInv`: until a
setting changes, socket and timer bear the name the page shows, so that the comparison of names in `onclose`
succeeds; and no more input waits than was typed, so that the limit is not reached before the number of keys has
passed it. `ConnectionHolds` is `TermConnection`, for any number of instances and any limit. `DrawIInv` is about the
write queue of a plain terminal: a queue that waits has a write before it (`QueueMoves`), the page draws nothing of
its own in a PTY terminal (`PlainOnly`, `ModeAgrees`), a fit that is awaited is in the queue or with xterm
(`TermResizeEnds`), and `LineFollows`: the page believes an input line to be drawn exactly when the last write of the
queue leaves one. `TermLineHonest` speaks only of a queue that has run dry; `LineFollows` is what it becomes in
every other state. `DrawingHolds` is `TermDrawn`, the two together.

**FileEditor.** `EdIInv` joins the types with five parts. `EdPathInv`, `EdReadInv` and `EdStartInv` say that a read or a start of
Monaco acts on the page only while its opening is shown, once, and that a start that finds content finds no model.
`EdDiskInv`: of an opening that overlaps no earlier write of its file, what was read and what waits is what the file
holds, and so is the baseline, until its own save is stored or fails with the host able to store it; saves of this
file that were given up are among those that failed; and before the content is in the model there is neither a save
nor a failed one. `EdDiffInv`: a left side of the diff is of this opening and is the baseline. `ChangesAreHonest`
follows from the last two and the types, for any files, texts, openings, edits and saves. The attempt corrected the
model: with a fresh text for every edit and saves that fail only before they are stored the property held without
`edFailed`, which is not what the code does.

**Workspace.** `WsIInv` joins the types with: unsaved text belongs to an instance that is shown (`TextOf`), no request to
open is of a later session than the tab's (`Requests`), the form and its submit name what they edit (`FormNamed`),
nothing is under way on the login or loading pages (`OutsideEmpty`), and `TabFits`. The property `WsTabAgrees` speaks
of a tab at rest; `TabFits` says what must hold while something is under way for it to come to rest in agreement: an
opening that is still awaited has the URL and the page already and excludes a question, a question stands on the
page it was asked on, and there is at most one, or the two of a click on home. `UrlNamesTab` is `WsTabAgrees` and
`TextIsKept` the action property `WsTextKept`, for any number of names, moves, forms, changes and reloads.
`WsTabAgrees` was not true as first stated, although the runs passed: with more events an edit that
renames the shown instance can be answered while another is being opened, and the URL is then set to the new name of
an instance the tab is leaving. `wsOverlap` now counts that as two moves that have met (section 6).

**UploadQueue.** `UpInv` joins the types with six parts; most lemmas state the effect of a step on one of them, over
the values it takes rather than over the variables, as `RunOn` passes through states no other action sees.
`UpCountInv` and `UpNetInv`: every submit makes contexts under its own number, so whatever is on its way (an init, a
chunk, an abort) or is kept at the server names a session of a submit there was, and an init is the first that
the server hears of its session. `UpServeInv`: what was canceled is never stored, what is committed is, and of the
requests of one session at most one puts the file in its place. `UpPageInv` accounts for every item that was
taken, of this run and of earlier ones: it is settled (stored, `FAILED` or removed), still to be taken, or has a live
context or a pending `mkdir`; the context of the last session is what a `DONE` in the list stands for.
`LoopOK` is the same within a step, when the loop of `uploadFileGroupChunks` holds an answer and has not waited yet;
`LoopMerges` keeps it when a merge begins, and the taking of an item or the filling of the slots ends the step.
`UpFreshInv`: what is still being read of a drop is not in the list. `UpOfferInv`: CONFIRM is offered only
when no run is under way and all that was taken is stored or removed. `UploadShowsTruth` is `UpShownIsTrue`, for any
items, chunks, tries, submits and faults. The attempt corrected the model: `UpConfirmHonest` as first stated passed
the runs and is false with more submits, since the list reload of a run can end during the next run and offer CONFIRM
too early; `upEarly` names that case (section 6).
`UploadsMoveOn` is the state part of `UpUnlocks`: a page that is locked always waits for something that is under way,
whatever was lost, retried, removed or refused. It names the guards of the steps that carry it on
(`UpPartMoves`, `UpServerCanStep`), and needs `UpWaits` besides `UpInv`: the init the run waits for exists, a
run that races has a chunk on the way, chunks are on the way only for files that are uploading or given up, and a
session that is being completed has the request that completes it, so that no second one waits for nobody.
That `fillSlots` always finds a way to fill its slots (`FillSlots` is never empty) is left to the run, which
would find a page that stays locked.

**The panel as a whole.** The parts share no variable, and a step of `MCPanel` leaves all but one at rest;
`PanelServesItsParts` shows that its behaviours are therefore behaviours of each part's own specification. What is
proved of the parts holds of the page that the run explores: `PanelTypesHold` is `PanelTypeOK`, `PanelIsHonest` the
others.

**What a violated property leaves.** Four of the five violated claims (section 6) have a theorem on what of them
is true: `KillStopsCleanup` has `KillsMoveOn` and `KillsAreFinal`, `StopCancelsRestart` has `StopIsFinal` (without
controller restarts), `OutputInOrderOnce` has `PlainOutputInOrder` (without a PTY) and `HistoryIsShownOnce`,
`MessagesNotBlocked` has `OnlyInputHolds`.

**Only model-checked.** All liveness (`ExitAccounted`, `KillEndsRun`, `StopSettles`, `RestartHappens`,
`CatchesUp`, `ControllerReturns`, `StopEnds`, `PageConverges`, `UpUnlocks`), which needs fairness and `ENABLED`. Of
some the state part is proved, the absence of a state in which what they wait for cannot move: `ExitsMoveOn`,
`KillsMoveOn`, `RestartsAreOwned` (for `RestartHappens`), `WritersNeverSleep` (for `CatchesUp`), `LoopIsServed`,
`StoppersMoveOn`, `SubscribersHear` (for `PageConverges`), `UploadsMoveOn` (for `UpUnlocks`). That a step is enabled exactly when its listed guards hold
is seen from the definitions, not proved.

## 6. Findings

1. `KillStopsCleanup` (`daemon/instance.go`): a KILL can be too late for the program and too early for the
   cleanup command. The user guide promises otherwise.
2. `OverrideIsUsed` (`controller/src/process/process.go`): a RESTART with its own start command, of a running
   instance, uses the configured one.
3. `StopCancelsRestart` after a controller restart (`controller/src/process/manager.go`): a cancelled restart
   comes back.
4. `OutputInOrderOnce` (`controller/src/process/daemon_ipc.go`): part of a PTY chunk is shown twice.
5. `MessagesNotBlocked` (`daemon/instance.go`): `WriteStdin` writes to the program under `ins.Mu`, which the
   reader of the program's output needs, on the goroutine that reads all requests.

**Also met**, and contained in the models unless said otherwise; no property forbids them.

- Daemon: the goroutine of an update's `restart_controller` reads `s.Conn` when its 100 ms are over, and can close
  the connection of the next controller, which is then restarted with the usual delay.
- Instance list: a structural broadcast within a second of the last is dropped, not postponed, so a created or
  deleted instance shows with the next change; the tick can drop an entry before a slow handler has read it.
- Upload: an item removed during its init leaves its session at the server until it expires; a drop that is still
  being read when the page is locked or closed adds items that are not uploaded, or to a later dialogue; a retry
  begun while the list of the run before is being read offers CONFIRM too early, and a file that then fails by a
  chunk leaves it offered, as that failure does not count as finished (`upEarly` marks the case).
- Terminal stream: a chunk that completes a held-back sequence can lose as many bytes (to the alternate screen, or to
  another half at its end) as the held half had. The history's part is then as long as the chunk, which counts as
  kept whole, and what was dropped goes to no client (`slipped` marks it).
- Terminal: after a rename a lost socket is not reconnected, as `onclose` compares the present name with the old
  one; too much waiting input ends the connection without a reconnection; the answer to the question about ^C
  goes to the terminal that is shown by then.
- Navigation: an opening that fails late leaves whatever workspace is open by then; a click on home with unsaved
  text asks twice; an answered deletion closes whatever instance is open; Back or Forward while a question or an
  opening is pending leaves a URL that names another instance, and so does a rename that is answered while another
  instance is being opened.
- Instance: an exit that is delivered after `list_runtime` was answered and before the states are restored is ignored
  (`process.go:583`, the instance counts as stopped until then) and the instance then shown as running or stopping
  (`manager.go:109`) without a program: a START is refused, and a STOP leaves it `stopping` until the next controller.
- Instance: the code of the exit decides what follows it. A STOP that comes after a RESTART but before the exit, with
  the RESTART's mark served last or the exit already reported as `restarting`, or a STOP of an instance whose program
  has just crashed with AUTO RESTART on, is followed by a restart.
- Editor: a save whose answer was lost after the host wrote the file ends as failed and leaves the baseline behind the
  file (`fileEditorModal.js:732-749`). Undone to the baseline, the text counts as unchanged although the file holds
  the other one (`edFailed`). The answer of a save that arrives when another file is open sets that file's baseline,
  so that text which is not in it can count as unchanged (`edBehind`).
- Editor: a save that closes on success closes whatever file is open by then (`fileEditorModal.js:767`), and drops what
  was typed since the save began, its own or another file's, without a question.
- Files: the answers of rename and delete are applied without a check for staleness and close whichever dialogue
  is open; a batch that ends clears the selection of whatever instance is open; entries below an excluded directory
  cannot be selected by the button for all.
- Dialogs (not modelled): a second click on OK during the closing animation hides the next queued dialog and never
  resolves it (`module/dialog.js:171`).
- `EnqueueTerminalControl`, `resetTerminalClientsLocked`, `resetHistoryLocked` and `AddClientWithHistoryLocked` are
  not called by anything; they are not modelled.

## 7. Not modelled

The operating system's side of processes and terminals, and of files (instance updates, atomic replacement, deletion
with its roll back): their order is fixed and what matters is which states a file system shows after a crash, which
the code does not describe. The configuration and its transactions, parsing and compilation of commands, metrics,
logs, users, groups, sessions and HTTP plumbing: requests that are handled under one lock or change nothing but
their answer. The task scheduler: a source of START and STOP requests, which `InstanceSystem` has in any order. Of the
panel, the dashboard, settings, user, log and login pages, which draw single requests, the queue of dialogs, and
rendering throughout. Vendored code, build and tools.

Within the modelled components: a program's terminal size (it changes no state that matters here), the framing
and batching of the pipe, editing of an instance's settings and renaming at the controller, what a user may see of
other users' instances, and the contents of files.
