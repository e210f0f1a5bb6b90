--------------------------- MODULE TerminalStream ---------------------------
(***************************************************************************)
(* The output of one instance on its way to the terminals that watch it    *)
(* (controller/src/process: daemon_ipc.go, process_client.go,              *)
(* terminal_history.go, terminal_alternate_screen.go, web/api              *)
(* instance_ws.go).  Output is kept in a bounded history that every client *)
(* reads with a cursor of its own; what a full-screen program draws is not *)
(* kept and goes to a client's queue instead.  One goroutine per client    *)
(* writes to its websocket.  Output is counted in units: a text, a switch  *)
(* of the screen, or a part of an escape sequence that two chunks share.   *)
(***************************************************************************)
EXTENDS Naturals, Sequences, FiniteSets

CONSTANTS
    Clients,   \* the websockets that may be opened
    Chunks,    \* the output frames of the daemon, as sequences of Kinds
    Limit,     \* capacity of the history, in units
    FrameMax,  \* units one flush can carry
    QueueCap,  \* wsSendQueueSize
    MaxUnits   \* bound on the output, in units

NoUnit == 0
\* The rests of a sequence cut in two: it may turn out to switch the screen.
Rests == {"rest", "enterRest", "exitRest"}
Kinds == {"text", "enter", "exit", "half"} \cup Rests

ASSUME ChunksAssumption == Chunks \subseteq Seq(Kinds)
ASSUME LimitAssumption == Limit \in Nat
ASSUME FrameMaxAssumption == FrameMax \in Nat \ {0}
ASSUME QueueCapAssumption == QueueCap \in Nat
ASSUME MaxUnitsAssumption == MaxUnits \in Nat

VARIABLES
    pty,      \* the active terminal mode is PTY_TERMINAL
    active,   \* sp.PTYAlternateScreenActive
    pending,  \* sp.PTYAlternateScreenPending: the unit held back, or NoUnit
    split,    \* the program owes the rest of an escape sequence
    emitted,  \* units put out so far; unit n is the n-th of them
    slipped,  \* history: units that a held half made up for, see Slips
    log,      \* every unit ever appended to sp.History
    base,     \* History.baseSeq; History.endSeq is Len(log)
    stage,    \* per client: how far HandleApiInstanceWs has got
    initial,  \* per client: the history copy still to be sent
    cursor,   \* per client: TerminalCursor
    wake,     \* per client: TerminalWake holds a token
    queue,    \* per client: Send
    writer,   \* per client: which of its two selects the writer is at
    opened,   \* history: units put out before the client became ready
    got       \* history: the frames written to the client's websocket

outputVars == <<pty, active, pending, split, emitted, slipped>>
historyVars == <<log, base>>
clientVars == <<stage, initial, cursor, wake, queue, writer, opened, got>>
streamVars == <<pty, active, pending, split, emitted, slipped, log, base, stage,
                initial, cursor, wake, queue, writer, opened, got>>

Stages == {"absent", "greeting", "greeted", "attached", "open", "closed"}
\* A frame is an interval lo < n <= hi: of positions of the history, or, for a
\* live frame, of units.  notice tells that the dropped-output notice went
\* before it.
Frame == [via : {"snapshot", "history", "live"}, lo : Nat, hi : Nat,
          notice : BOOLEAN]
Snapshot(from, to) ==
    [via |-> "snapshot", lo |-> from, hi |-> to, notice |-> FALSE]
Live(from, to) == [via |-> "live", lo |-> from, hi |-> to, notice |-> FALSE]
NoFrame == Snapshot(0, 0)

\* client.TerminalReady, of a client in sp.Clients whose connection is up.
Ready(c) == stage[c] = "open"
EndSeq == Len(log)

StreamTypeOK ==
    /\ pty \in BOOLEAN
    /\ active \in BOOLEAN
    /\ pending \in Nat
    /\ split \in BOOLEAN
    /\ emitted \in Nat
    /\ slipped \in SUBSET Nat
    /\ log \in Seq(Nat)
    /\ base \in Nat
    /\ stage \in [Clients -> Stages]
    /\ initial \in [Clients -> Frame]
    /\ cursor \in [Clients -> Nat]
    /\ wake \in [Clients -> BOOLEAN]
    /\ queue \in [Clients -> Seq(Frame)]
    /\ writer \in [Clients -> {"top", "wait"}]
    /\ opened \in [Clients -> Nat]
    /\ got \in [Clients -> Seq(Frame)]

StreamInit ==
    /\ pty \in BOOLEAN
    /\ active = FALSE
    /\ pending = NoUnit
    /\ split = FALSE
    /\ emitted = 0
    /\ slipped = {}
    /\ log = <<>>
    /\ base = 0
    /\ stage = [c \in Clients |-> "absent"]
    /\ initial = [c \in Clients |-> NoFrame]
    /\ cursor = [c \in Clients |-> 0]
    /\ wake = [c \in Clients |-> FALSE]
    /\ queue = [c \in Clients |-> <<>>]
    /\ writer = [c \in Clients |-> "top"]
    /\ opened = [c \in Clients |-> 0]
    /\ got = [c \in Clients |-> <<>>]

-----------------------------------------------------------------------------
(* The history and the filter that keeps the alternate screen out of it.    *)

\* The unit at place i of a chunk; place 0 is the half held back before it.
UnitAt(i) == IF i = 0 THEN pending ELSE emitted + i
UnitsAt(places) == [k \in DOMAIN places |-> UnitAt(places[k])]

\* One unit through the filter: out is what the history gets, held the half of
\* a sequence that waits for its rest.
FilterUnit(f, i, kind) ==
    CASE kind \in {"enter", "enterRest"} ->
            [f EXCEPT !.active = TRUE, !.held = <<>>]
      [] kind \in {"exit", "exitRest"} ->
            [f EXCEPT !.active = FALSE, !.held = <<>>]
      [] kind = "half" -> [f EXCEPT !.held = <<i>>]
      [] OTHER -> [f EXCEPT !.held = <<>>,
                            !.out = IF f.active THEN @ ELSE @ \o f.held \o <<i>>]

\* filterPTYAlternateScreenHistory, in places of the chunk.
Filter(isActive, isHeld, chunk) ==
    LET f[i \in 0 .. Len(chunk)] ==
            IF i = 0 THEN [active |-> isActive, out |-> <<>>,
                           held |-> IF isHeld THEN <<0>> ELSE <<>>]
            ELSE FilterUnit(f[i - 1], i, chunk[i])
    IN  f[Len(chunk)]

\* Append with appendHistoryLocked's limit: the oldest units beyond the limit
\* go, but an append never cuts into itself.
BaseAfter(added) ==
    LET limit == IF added > Limit THEN added ELSE Limit
    IN  IF EndSeq + added - base > limit THEN EndSeq + added - limit ELSE base

AppendHistory(units) ==
    /\ log' = log \o units
    /\ base' = BaseAfter(Len(units))

\* Mutant: only a client whose writer is parked is woken.
WakeParked(keep) ==
    wake' = [c \in Clients |->
                wake[c] \/ (Ready(c) /\ writer[c] = "wait" /\ ~keep)]

\* wakeTerminalClientsLocked, when the handler gets that far.
WakeUnless(keep) ==
    wake' = [c \in Clients |-> wake[c] \/ (Ready(c) /\ ~keep)]

\* A client whose queue is full loses its connection; the others get the frame.
EnqueueLive(frame) ==
    /\ queue' = [c \in Clients |->
                    IF Ready(c) /\ Len(queue[c]) < QueueCap
                    THEN Append(queue[c], frame) ELSE queue[c]]
    /\ stage' = [c \in Clients |->
                    IF Ready(c) /\ Len(queue[c]) >= QueueCap
                    THEN "closed" ELSE stage[c]]

Kept(f, i) == \E k \in DOMAIN f.out : f.out[k] = i
Partly(f, size) == \E i \in 1 .. size : ~Kept(f, i)

\* How the bytes for the history compare with the bytes of the chunk.  Those of
\* a half held back before count for the history only, and so can make up for
\* any part of the chunk that the filter dropped.
Compared(f, size) ==
    {cmp \in {"less", "same", "more"} :
        /\ cmp = "less" => Partly(f, size)
        /\ cmp = "same" => (Kept(f, 0) <=> Partly(f, size))
        /\ cmp = "more" => Kept(f, 0)}

\* Mutant: a chunk that ends outside the alternate screen is never live.
LiveWhileActive(f, cmp) == f.active

\* The chunk goes to the queues as a whole when the history did not get it all.
GoesLive(f, cmp) == f.active \/ cmp = "less"

\* The history alone carries the chunk.
KeptWhole(f, cmp) == ~f.active /\ cmp = "same"

\* The comparison misses what was dropped: units that go nowhere.
Slips(f, size, cmp) ==
    IF Kept(f, 0) /\ ~f.active /\ cmp # "less"
    THEN {emitted + i : i \in {k \in 1 .. size : ~Kept(f, k)}} ELSE {}

MayEmit(chunk) ==
    /\ chunk # <<>>
    /\ emitted + Len(chunk) <= MaxUnits
    /\ split <=> chunk[1] \in Rests

\* HandleDaemonInstanceOutput in the mode TERMINAL.
OutputPlain(chunk) ==
    /\ ~pty
    /\ MayEmit(chunk)
    /\ AppendHistory(UnitsAt([i \in DOMAIN chunk |-> i]))
    /\ WakeUnless(FALSE)
    /\ emitted' = emitted + Len(chunk)
    /\ split' = (chunk[Len(chunk)] = "half")
    /\ UNCHANGED <<pty, active, pending, slipped, stage, initial, cursor, queue,
                   writer, opened, got>>

\* HandleDaemonInstanceOutput in the mode PTY_TERMINAL.
OutputPTY(chunk) ==
    /\ pty
    /\ MayEmit(chunk)
    /\ LET size == Len(chunk)
           f == Filter(active, pending # NoUnit, chunk)
       IN  \E cmp \in Compared(f, size) :
             /\ active' = f.active
             /\ pending' = IF f.held = <<>> THEN NoUnit ELSE UnitAt(f.held[1])
             /\ AppendHistory(UnitsAt(f.out))
             /\ WakeUnless(f.out = <<>> /\ ~KeptWhole(f, cmp))
             /\ IF ~KeptWhole(f, cmp) /\ GoesLive(f, cmp)
                THEN EnqueueLive(Live(emitted, emitted + size))
                ELSE UNCHANGED <<queue, stage>>
             /\ slipped' = slipped \cup Slips(f, size, cmp)
    /\ emitted' = emitted + Len(chunk)
    /\ split' = (chunk[Len(chunk)] = "half")
    /\ UNCHANGED <<pty, initial, cursor, writer, opened, got>>

\* A message of the panel itself: appended whatever the screen shows.
SystemMessage ==
    /\ emitted < MaxUnits
    /\ emitted' = emitted + 1
    /\ AppendHistory(<<emitted + 1>>)
    /\ WakeUnless(FALSE)
    /\ UNCHANGED <<pty, active, pending, split, slipped, stage, initial, cursor,
                   queue, writer, opened, got>>

\* The answer to a start, the exit of the program and a changed configuration
\* forget the screen.  The answer may come after the program's first output.
ResetScreen ==
    /\ active' = FALSE
    /\ pending' = NoUnit
    /\ pty' \in BOOLEAN
    /\ split' \in {split, FALSE}
    /\ UNCHANGED <<emitted, slipped, log, base, stage, initial, cursor, wake,
                   queue, writer, opened, got>>

-----------------------------------------------------------------------------
(* A websocket: HandleApiInstanceWs until the client is ready, then its     *)
(* writer goroutine, which prefers the queue and is woken for the history.  *)

\* Mutant: the client starts to read where the history starts.
CursorAtStart == base

\* The position the history copy ends at.
CursorAtGreeting == EndSeq

\* AddClientTerminalInitialLocked: the copy and the cursor are taken together.
Greet(c) ==
    /\ stage[c] = "absent"
    /\ stage' = [stage EXCEPT ![c] = "greeting"]
    /\ cursor' = [cursor EXCEPT ![c] = CursorAtGreeting]
    /\ initial' = [initial EXCEPT ![c] =
                      Snapshot(IF pty /\ active THEN EndSeq ELSE base, EndSeq)]
    /\ UNCHANGED <<outputVars, historyVars, wake, queue, writer, opened, got>>

SendInitial(c) ==
    /\ stage[c] = "greeting"
    /\ stage' = [stage EXCEPT ![c] = "greeted"]
    /\ got' = [got EXCEPT ![c] = Append(@, initial[c])]
    /\ UNCHANGED <<outputVars, historyVars, initial, cursor, wake, queue,
                   writer, opened>>

Attach(c) ==
    /\ stage[c] = "greeted"
    /\ stage' = [stage EXCEPT ![c] = "attached"]
    /\ UNCHANGED <<outputVars, historyVars, initial, cursor, wake, queue,
                   writer, opened, got>>

\* EnableTerminalHistory: ready, and woken for what came since the greeting.
Enable(c) ==
    /\ stage[c] = "attached"
    /\ stage' = [stage EXCEPT ![c] = "open"]
    /\ wake' = [wake EXCEPT ![c] = TRUE]
    /\ opened' = [opened EXCEPT ![c] = emitted]
    /\ UNCHANGED <<outputVars, historyVars, initial, cursor, queue, writer, got>>

\* The peer goes away, a write fails, or the panel closes the client.
Disconnect(c) ==
    /\ stage[c] \notin {"absent", "closed"}
    /\ stage' = [stage EXCEPT ![c] = "closed"]
    /\ UNCHANGED <<outputVars, historyVars, initial, cursor, wake, queue,
                   writer, opened, got>>

\* The first select finds the queue empty and falls through to the second.
WriterParks(c) ==
    /\ Ready(c)
    /\ writer[c] = "top"
    /\ queue[c] = <<>>
    /\ writer' = [writer EXCEPT ![c] = "wait"]
    /\ UNCHANGED <<outputVars, historyVars, stage, initial, cursor, wake, queue,
                   opened, got>>

\* Either select takes a live frame; it is written without a flush before it.
WriterSends(c) ==
    /\ Ready(c)
    /\ queue[c] # <<>>
    /\ got' = [got EXCEPT ![c] = Append(@, Head(queue[c]))]
    /\ queue' = [queue EXCEPT ![c] = Tail(@)]
    /\ writer' = [writer EXCEPT ![c] = "top"]
    /\ UNCHANGED <<outputVars, historyVars, stage, initial, cursor, wake, opened>>

\* ReadInto skips what the history has dropped since the cursor.
ReadFrom(c) == IF cursor[c] < base THEN base ELSE cursor[c]

\* Mutant: a flush always moves the cursor by a whole frame.
ReadUpToFrame(c) == ReadFrom(c) + FrameMax

\* A flush carries one frame.
ReadUpTo(c) ==
    IF EndSeq - ReadFrom(c) > FrameMax THEN ReadFrom(c) + FrameMax ELSE EndSeq

\* Mutant: nobody is told that output was dropped.
DroppedNever(c) == FALSE

\* The client is told before it gets what comes after the gap.
Dropped(c) == cursor[c] < base

\* Mutant: one flush is taken to be enough.
FlushedAll(c) == FALSE

\* Output beyond the frame is left to another flush.
More(c) == ReadUpTo(c) < EndSeq

\* The second select takes the wake-up: flushTerminalHistory.
WriterFlushes(c) ==
    /\ Ready(c)
    /\ writer[c] = "wait"
    /\ wake[c]
    /\ writer' = [writer EXCEPT ![c] = "top"]
    /\ IF cursor[c] < EndSeq
       THEN /\ got' = [got EXCEPT ![c] = Append(@,
                          [via |-> "history", lo |-> ReadFrom(c),
                           hi |-> ReadUpTo(c), notice |-> Dropped(c)])]
            /\ cursor' = [cursor EXCEPT ![c] = ReadUpTo(c)]
            /\ wake' = [wake EXCEPT ![c] = More(c)]
       ELSE /\ wake' = [wake EXCEPT ![c] = FALSE]
            /\ UNCHANGED <<got, cursor>>
    /\ UNCHANGED <<outputVars, historyVars, stage, initial, queue, opened>>

-----------------------------------------------------------------------------

Output == \E chunk \in Chunks : OutputPlain(chunk) \/ OutputPTY(chunk)
WriterStep(c) == WriterParks(c) \/ WriterSends(c) \/ WriterFlushes(c)
ClientStep(c) ==
    Greet(c) \/ SendInitial(c) \/ Attach(c) \/ Enable(c) \/ Disconnect(c)

StreamNext ==
    \/ Output
    \/ SystemMessage
    \/ ResetScreen
    \/ \E c \in Clients : ClientStep(c) \/ WriterStep(c)

StreamSpec == StreamInit /\ [][StreamNext]_streamVars

\* A goroutine that can go on does: the Go runtime schedules every writer.
WritersRun == \A c \in Clients : WF_streamVars(WriterStep(c))
FairStreamSpec == StreamSpec /\ WritersRun

-----------------------------------------------------------------------------
(* Properties.                                                              *)

\* A ready client that has not read to the end of the history holds a wake-up:
\* no append, greeting or cut-off flush leaves its writer asleep.
NoLostWakeup ==
    \A c \in Clients : Ready(c) /\ cursor[c] < EndSeq => wake[c]

OfHistory(f) == f.via \in {"snapshot", "history"}

\* The intervals a terminal gets from the history neither overlap nor step
\* back: the copy at the greeting and the flushes after it meet exactly at the
\* cursor.
HistoryInOrder ==
    \A c \in Clients :
        \A i, j \in DOMAIN got[c] :
            (i < j /\ OfHistory(got[c][i]) /\ OfHistory(got[c][j])) =>
                got[c][i].hi <= got[c][j].lo

\* Position p of the history has been written to the terminal, or lies before
\* the copy it was greeted with, or the terminal was told of a gap there.
ToldOf(c, p) ==
    \E i \in DOMAIN got[c] :
        LET f == got[c][i]
        IN  \/ f.via = "snapshot" /\ p <= f.hi
            \/ f.via = "history" /\ p <= f.hi /\ (f.lo < p \/ f.notice)

\* Output the history has dropped before a slow client could read it is
\* announced: a client never passes a position without having been told.
NothingSilentlyLost ==
    \A c \in Clients :
        got[c] # <<>> => \A p \in 1 .. cursor[c] : ToldOf(c, p)

\* Both ends of the history are where they should be.
CursorsWithin ==
    /\ base <= EndSeq
    /\ \A c \in Clients : cursor[c] <= EndSeq

\* A client gets its copy of the history before anything else.
GreetedFirst ==
    \A c \in Clients :
        /\ stage[c] \in {"absent", "greeting"} => got[c] = <<>>
        /\ stage[c] = "greeting" => /\ initial[c].via = "snapshot"
                                    /\ initial[c].hi = cursor[c]
        /\ stage[c] \in {"greeted", "attached", "open"} => got[c] # <<>>

\* Nothing of the history is written beyond the cursor.
ReadBehindCursor ==
    \A c \in Clients : \A i \in DOMAIN got[c] :
        OfHistory(got[c][i]) => got[c][i].hi <= cursor[c]

QueuesAreLive ==
    \A c \in Clients : \A i \in DOMAIN queue[c] : queue[c][i].via = "live"

\* The types, and how cursors, copies, wake-ups and written frames agree: what
\* the three properties above need to be inductive.
ReadersIInv ==
    /\ StreamTypeOK
    /\ CursorsWithin
    /\ GreetedFirst
    /\ ReadBehindCursor
    /\ QueuesAreLive
    /\ NoLostWakeup
    /\ HistoryInOrder
    /\ NothingSilentlyLost

\* A unit gets into the history once, the half held back included.
UnitsOnce ==
    /\ \A i \in DOMAIN log : log[i] \in 1 .. emitted
    /\ \A i, j \in DOMAIN log : log[i] = log[j] => i = j
    /\ pending # NoUnit => pending <= emitted /\ \A i \in DOMAIN log : log[i] # pending

\* What agrees in every state.
StreamIInv == ReadersIInv /\ UnitsOnce

InLive(f, n) == f.via = "live" /\ f.lo < n /\ n <= f.hi

Delivered(c, n) ==
    \/ \E i \in DOMAIN log : log[i] = n
    \/ \E i \in DOMAIN queue[c] : InLive(queue[c][i], n)
    \/ \E i \in DOMAIN got[c] : InLive(got[c][i], n)

\* What the filter keeps out of the history reaches every ready client another
\* way: a unit put out since it became ready is in the history, in the client's
\* queue, or written already, unless the comparison of lengths missed it.
AlternateDelivered ==
    \A c \in Clients : Ready(c) =>
        \A n \in opened[c] + 1 .. emitted : Delivered(c, n) \/ n \in slipped

\* The units of a frame, in the order the terminal gets them.
UnitsOf(f) ==
    [i \in 1 .. f.hi - f.lo |->
        IF f.via = "live" THEN f.lo + i ELSE log[f.lo + i]]

\* The terminal page shows the program's output: every unit at most once and
\* in the order in which it was put out.
OutputInOrderOnce ==
    \A c \in Clients :
        \A i, j \in DOMAIN got[c] :
            i < j => \A m \in DOMAIN UnitsOf(got[c][i]),
                        n \in DOMAIN UnitsOf(got[c][j]) :
                        UnitsOf(got[c][i])[m] < UnitsOf(got[c][j])[n]

\* A ready client reads to the end of the history unless its connection ends
\* first, however often its writer is interrupted by live frames.
CatchesUp ==
    \A c \in Clients :
        Ready(c) ~> (cursor[c] = EndSeq \/ ~Ready(c))

=============================================================================
