---------------------------- MODULE TerminalView ----------------------------
(***************************************************************************)
(* The terminal of an instance page (module/terminal.js): its socket and   *)
(* the reconnection of it, the queue of typed input, the serialised writes *)
(* to xterm, and the input line the page draws itself when the instance    *)
(* has a plain pipe.                                                       *)
(*                                                                         *)
(* One opening of the terminal (open) is a session: the numbers in the     *)
(* input and in the socket are history and say for which session a key was *)
(* pressed and a socket made.  Text is abstract: only whether the input    *)
(* line is empty, and of the writes to xterm only whether they print       *)
(* program output, draw the input line or erase it.                        *)
(***************************************************************************)
EXTENDS Naturals, Sequences, SequencesExt

CONSTANTS TermNames,    \* instance names
          TermOpens,    \* bound: openings of the terminal
          TermDrops,    \* bound: sockets lost, and instances gone
          TermKeys,     \* bound: keys pressed
          TermPrints,   \* bound: outputs of the program
          TermFits,     \* bound: changes of the window's size
          TermChanges,  \* bound: changes of the terminal mode or the name
          TermEvents,   \* bound: all of these together
          TermPending   \* chunks of input that may wait (4 MiB in the code)

ASSUME TermAssumption ==
  /\ \A n \in {TermOpens, TermDrops, TermKeys, TermPrints, TermFits,
               TermChanges, TermEvents} : n \in Nat
  /\ TermPending \in Nat \ {0}

VARIABLES
  tvPage,    \* state.currentInstanceName, or "" (no instance page)
  tvSvc,     \* currentSvc: [name, mode], or NoSvc
  tvTerm,    \* terminalModeAtInit of the xterm, or "off"
  tvSock,    \* [to, session, st]: st "none", "connecting" or "open"
  tvTimer,   \* reconnectTimer: the name it will look for, or ""
  tvChecks,  \* existence checks under way: [seq, name, session]
  tvSeq,     \* instanceMissingCheckSeq
  tvInput,   \* inputChunks: the session each was typed in
  tvDraining,\* inputDraining, with inputDrainTimer pending
  tvSent,    \* history: the last chunk sent, [typed, to] sessions
  tvAsked,   \* ctrlCConfirming: the question whether to send ^C is open
  tvLine,    \* plainInputBuffer is not empty
  tvPrompt,  \* plainPromptVisible
  tvResizing,\* plainPromptResizePending
  tvQueue,   \* terminalWriteQueue: "print", "draw", "erase" or "fit"
  tvWriting, \* the entry xterm works on for the queue, or "none"
  tvOutput,  \* program output collected for the next flush
  tvScreen,  \* the last thing xterm was given: "text" or "line"
  tvDropped, \* history: a reset of the queue dropped a write
  tvCount    \* history: how often each bounded input happened

tvConn == <<tvSock, tvTimer, tvChecks, tvSeq>>
tvKeys == <<tvInput, tvDraining, tvSent, tvAsked>>
tvDraw == <<tvLine, tvPrompt, tvResizing, tvQueue, tvWriting, tvOutput,
            tvScreen, tvDropped>>
termVars == <<tvPage, tvSvc, tvTerm, tvConn, tvKeys, tvDraw, tvCount>>

TermModes == {"none", "plain", "pty"}
NoSvc == [name |-> "", mode |-> "none"]
NoSocket == [to |-> "", session |-> 0, st |-> "none"]
TermWrites == {"print", "draw", "erase", "fit"}
TermInputs == {"open", "drop", "key", "print", "fit", "change"}
TermLimit(k) == CASE k = "open" -> TermOpens [] k = "drop" -> TermDrops
                  [] k = "key" -> TermKeys [] k = "print" -> TermPrints
                  [] k = "fit" -> TermFits [] k = "change" -> TermChanges

TermTypeOK ==
  /\ tvPage \in TermNames \cup {""}
  /\ tvSvc \in [name : TermNames \cup {""}, mode : TermModes]
  /\ tvTerm \in {"off", "plain", "pty"}
  /\ tvSock \in [to : TermNames \cup {""}, session : Nat,
                 st : {"none", "connecting", "open"}]
  /\ tvTimer \in TermNames \cup {""}
  /\ tvChecks \subseteq [seq : Nat, name : TermNames, session : Nat]
  /\ tvSeq \in Nat
  /\ tvInput \in Seq(Nat)
  /\ tvDraining \in BOOLEAN
  /\ tvSent \in [typed : Nat, to : Nat]
  /\ tvAsked \in BOOLEAN
  /\ tvLine \in BOOLEAN /\ tvPrompt \in BOOLEAN /\ tvResizing \in BOOLEAN
  /\ tvQueue \in Seq(TermWrites)
  /\ tvWriting \in TermWrites \cup {"none"}
  /\ tvOutput \in Nat
  /\ tvScreen \in {"text", "line"}
  /\ tvDropped \in BOOLEAN
  /\ tvCount \in [TermInputs -> Nat]

TermInit ==
  /\ tvPage = "" /\ tvSvc = NoSvc /\ tvTerm = "off"
  /\ tvSock = NoSocket /\ tvTimer = "" /\ tvChecks = {} /\ tvSeq = 0
  /\ tvInput = <<>> /\ tvDraining = FALSE /\ tvSent = [typed |-> 0, to |-> 0]
  /\ tvAsked = FALSE
  /\ tvLine = FALSE /\ tvPrompt = FALSE /\ tvResizing = FALSE
  /\ tvQueue = <<>> /\ tvWriting = "none" /\ tvOutput = 0
  /\ tvScreen = "text" /\ tvDropped = FALSE
  /\ tvCount = [k \in TermInputs |-> 0]

TermCounted(k) ==
  /\ tvCount[k] < TermLimit(k)
  /\ SumFunction(tvCount) < TermEvents
  /\ tvCount' = [tvCount EXCEPT ![k] = @ + 1]

Session == tvCount["open"]
IsPlain == tvSvc.mode = "plain"
HasActiveTerminal == tvSvc.mode # "none"
SocketOpen == tvSock.st = "open"

-----------------------------------------------------------------------------
(* Writing to xterm.  One entry of the queue is with xterm at a time; its   *)
(* callback starts the next one, or runs the fit that waited for it.        *)

ScreenAfter(write) == CASE write = "draw" -> "line"
                        [] write \in {"erase", "fit"} -> "text"
                        [] write = "print" -> "text"

(* queueTerminalWrite for a sequence of entries, then the state of the      *)
(* input line those entries leave.                                          *)
QueueWrites(writes) ==
  LET all == tvQueue \o writes
  IN IF tvWriting = "none" /\ all # <<>>
       THEN /\ tvWriting' = Head(all)
            /\ tvQueue' = Tail(all)
            /\ tvScreen' = ScreenAfter(Head(all))
       ELSE /\ tvQueue' = all
            /\ UNCHANGED <<tvWriting, tvScreen>>

(* renderPlainTerminalPromptLine: the writes that bring the input line on   *)
(* the screen up to date, "line" being the new buffer.  Nothing is drawn    *)
(* while a fit waits.                                                       *)
RenderWrites(line, visible, resizing) ==
  IF tvTerm = "off" \/ ~IsPlain \/ resizing THEN <<>>
  ELSE IF line THEN IF visible THEN <<"erase", "draw">> ELSE <<"draw">>
  ELSE IF visible THEN <<"erase">> ELSE <<>>

RenderedVisible(line, visible, resizing) ==
  IF tvTerm = "off" \/ ~IsPlain \/ resizing THEN visible ELSE line

\* Variant: a fit that waits is not forgotten with the queue.
ResetPlainLine ==
  /\ tvQueue' = <<>> /\ tvWriting' = "none"
  /\ tvScreen' = IF tvTerm # "off" /\ tvPrompt THEN "text" ELSE tvScreen
  /\ tvDropped' = (tvDropped \/ tvQueue # <<>>)
  /\ tvLine' = FALSE /\ tvPrompt' = FALSE /\ UNCHANGED tvResizing
  /\ tvOutput' = 0

(* resetTerminalWriteQueue, clearRenderedPlainTerminalPromptLine and        *)
(* resetPlainTerminalInputState, always called together: the queue is       *)
(* dropped, a visible line is erased directly, the rest is forgotten.       *)
ResetPlain ==
  /\ tvQueue' = <<>> /\ tvWriting' = "none"
  /\ tvScreen' = IF tvTerm # "off" /\ tvPrompt THEN "text" ELSE tvScreen
  /\ tvDropped' = (tvDropped \/ tvQueue # <<>>)
  /\ tvLine' = FALSE /\ tvPrompt' = FALSE /\ tvResizing' = FALSE
  /\ tvOutput' = 0

(* A new xterm starts with an empty screen. *)
FreshScreen ==
  /\ tvQueue' = <<>> /\ tvWriting' = "none" /\ tvScreen' = "text"
  /\ tvDropped' = FALSE
  /\ tvLine' = FALSE /\ tvPrompt' = FALSE /\ tvResizing' = FALSE
  /\ tvOutput' = 0

-----------------------------------------------------------------------------
(* The socket. *)

\* Variant: the input that waits and its timer outlive their socket.
KeepInput == UNCHANGED <<tvInput, tvDraining>>

ForgetInput == tvInput' = <<>> /\ tvDraining' = FALSE

(* open: the old socket and the old xterm go, a new socket is made for the  *)
(* instance if it has a terminal.                                           *)
TermOpen(n, mode) ==
  /\ TermCounted("open")
  /\ tvPage' = n
  /\ tvSvc' = [name |-> n, mode |-> mode]
  /\ tvSeq' = tvSeq + 1
  /\ tvTimer' = ""
  /\ tvTerm' = IF mode = "none" THEN "off" ELSE mode
  /\ tvSock' = IF mode = "none" THEN NoSocket
               ELSE [to |-> n, session |-> Session + 1, st |-> "connecting"]
  /\ ForgetInput
  /\ FreshScreen
  /\ UNCHANGED <<tvChecks, tvSent, tvAsked>>

(* close, of the page that is left, or of an instance that is gone. *)
CloseTerminal ==
  /\ tvPage' = "" /\ tvSvc' = NoSvc /\ tvTerm' = "off"
  /\ tvSeq' = tvSeq + 1 /\ tvTimer' = "" /\ tvSock' = NoSocket
  /\ ForgetInput
  /\ FreshScreen
  /\ UNCHANGED <<tvSent, tvAsked>>

TermClose ==
  /\ tvPage # ""
  /\ CloseTerminal
  /\ UNCHANGED <<tvChecks, tvCount>>

(* setCurrentSvc, from a status event or a changed configuration.  Without  *)
(* a terminal everything is closed; a new mode makes a new xterm; the       *)
(* socket stays, and a missing one is made.                                 *)
SetCurrentSvc(name, mode) ==
  /\ tvSvc' = [name |-> name, mode |-> mode]
  /\ IF mode = "none"
       THEN /\ tvTerm' = "off" /\ tvSock' = NoSocket
            /\ tvSeq' = tvSeq + 1 /\ tvTimer' = ""
            /\ ForgetInput /\ FreshScreen
       ELSE /\ tvTerm' = mode
            /\ IF tvTerm = mode
                 THEN UNCHANGED tvDraw
                 ELSE FreshScreen
            /\ IF tvSock.st = "none"
                 THEN /\ tvSock' = [to |-> name, session |-> Session,
                                    st |-> "connecting"]
                      /\ tvTimer' = ""
                 ELSE UNCHANGED <<tvSock, tvTimer>>
            /\ UNCHANGED <<tvSeq, tvInput, tvDraining>>
  /\ UNCHANGED <<tvChecks, tvSent, tvAsked>>

TermStatus(mode) ==
  /\ tvPage # ""
  /\ IF mode = tvSvc.mode /\ mode # "none" THEN UNCHANGED tvCount
     ELSE TermCounted("change")
  /\ SetCurrentSvc(tvSvc.name, mode)
  /\ UNCHANGED tvPage

TermRename(n) ==
  /\ tvPage # "" /\ n # tvPage
  /\ TermCounted("change")
  /\ tvPage' = n
  /\ SetCurrentSvc(n, tvSvc.mode)

TermSockOpen ==
  /\ tvSock.st = "connecting"
  /\ tvSock' = [tvSock EXCEPT !.st = "open"]
  /\ UNCHANGED <<tvPage, tvSvc, tvTerm, tvTimer, tvChecks, tvSeq, tvKeys,
                 tvDraw, tvCount>>

(* onclose: the screen state is reset and a reconnection is scheduled, if   *)
(* the page still shows the instance by the name the socket was made for.   *)
(* The input that waits is not touched.                                     *)
TermSockLost ==
  /\ tvSock.st # "none"
  /\ TermCounted("drop")
  /\ tvSock' = NoSocket
  /\ tvTimer' = IF tvPage = tvSock.to /\ HasActiveTerminal
                  THEN tvSock.to ELSE tvTimer
  /\ ResetPlain
  /\ UNCHANGED <<tvPage, tvSvc, tvTerm, tvChecks, tvSeq, tvKeys>>

TermReconnectTimer ==
  /\ tvTimer # ""
  /\ tvTimer' = ""
  /\ tvSeq' = tvSeq + 1
  /\ tvChecks' = tvChecks \cup {[seq |-> tvSeq + 1, name |-> tvTimer,
                               session |-> Session]}
  /\ UNCHANGED <<tvPage, tvSvc, tvTerm, tvSock, tvKeys, tvDraw, tvCount>>

(* The answer of an existence check, ignored when it is not the last one or *)
(* the page has gone on.  connectWebSocket replaces a socket that was made  *)
(* in the meantime, and resets neither the input nor the screen.            *)
CheckCounts(check) ==
  check.seq = tvSeq /\ tvPage = check.name /\ HasActiveTerminal

TermInstanceExists ==
  \E check \in tvChecks :
    /\ tvChecks' = tvChecks \ {check}
    /\ IF CheckCounts(check)
         THEN /\ tvSock' = [to |-> check.name, session |-> check.session,
                            st |-> "connecting"]
              /\ tvTimer' = ""
         ELSE UNCHANGED <<tvSock, tvTimer>>
    /\ UNCHANGED <<tvPage, tvSvc, tvTerm, tvSeq, tvKeys, tvDraw, tvCount>>

TermInstanceMissing ==
  \E check \in tvChecks :
    /\ TermCounted("drop")
    /\ tvChecks' = tvChecks \ {check}
    /\ IF CheckCounts(check)
         THEN CloseTerminal
         ELSE UNCHANGED <<tvPage, tvSvc, tvTerm, tvSock, tvTimer, tvSeq,
                          tvKeys, tvDraw>>

-----------------------------------------------------------------------------
(* Typed input. *)

(* sendSocketInput of one chunk and the first drain.  The chunk is sent at  *)
(* once unless the socket's own buffer is full (any time, for the page).    *)
(* Too much waiting input closes the socket, and nothing opens a new one.   *)
SendInput ==
  IF Len(tvInput) >= TermPending
    THEN /\ tvSock' = NoSocket /\ tvTimer' = "" /\ tvSeq' = tvSeq + 1
         /\ ForgetInput
         /\ UNCHANGED tvSent
    ELSE /\ UNCHANGED <<tvSock, tvTimer, tvSeq>>
         /\ IF tvDraining
              THEN /\ tvInput' = Append(tvInput, Session)
                   /\ UNCHANGED <<tvDraining, tvSent>>
              ELSE \/ /\ tvSent' = [typed |-> Session, to |-> tvSock.session]
                      /\ UNCHANGED <<tvInput, tvDraining>>
                   \/ /\ tvInput' = Append(tvInput, Session)
                      /\ tvDraining' = TRUE
                      /\ UNCHANGED tvSent

TermTypeRaw ==
  /\ SocketOpen /\ tvTerm # "off" /\ ~IsPlain
  /\ TermCounted("key")
  /\ SendInput
  /\ IF Len(tvInput) >= TermPending THEN ResetPlain ELSE UNCHANGED tvDraw
  /\ UNCHANGED <<tvPage, tvSvc, tvTerm, tvChecks, tvAsked>>

(* A character or a backspace in a plain terminal only changes the line the *)
(* page draws.                                                              *)
TermTypeChar(line) ==
  /\ SocketOpen /\ tvTerm # "off" /\ IsPlain
  /\ TermCounted("key")
  /\ tvLine' = line
  /\ tvPrompt' = RenderedVisible(line, tvPrompt, tvResizing)
  /\ QueueWrites(RenderWrites(line, tvPrompt, tvResizing))
  /\ UNCHANGED <<tvPage, tvSvc, tvTerm, tvConn, tvKeys, tvResizing, tvOutput,
                 tvDropped>>

TermEnter ==
  /\ SocketOpen /\ tvTerm # "off" /\ IsPlain
  /\ TermCounted("key")
  /\ SendInput
  /\ IF Len(tvInput) >= TermPending
       THEN ResetPlain
       ELSE /\ tvLine' = FALSE
            /\ tvPrompt' = RenderedVisible(FALSE, tvPrompt, tvResizing)
            /\ QueueWrites(RenderWrites(FALSE, tvPrompt, tvResizing))
            /\ UNCHANGED <<tvResizing, tvOutput, tvDropped>>
  /\ UNCHANGED <<tvPage, tvSvc, tvTerm, tvChecks, tvAsked>>

(* Ctrl+C without a selection asks first.  The answer is for the terminal   *)
(* that is shown when it comes, whichever was shown when it was asked.      *)
TermAskInterrupt ==
  /\ tvTerm # "off" /\ ~tvAsked
  /\ TermCounted("key")
  /\ tvAsked' = TRUE
  /\ UNCHANGED <<tvPage, tvSvc, tvTerm, tvConn, tvInput, tvDraining, tvSent,
                 tvDraw>>

TermInterrupt(ok) ==
  /\ tvAsked
  /\ tvAsked' = FALSE
  /\ IF ok /\ SocketOpen
       THEN /\ SendInput
            /\ IF Len(tvInput) >= TermPending THEN ResetPlain ELSE UNCHANGED tvDraw
       ELSE UNCHANGED <<tvSock, tvTimer, tvSeq, tvInput, tvDraining, tvSent, tvDraw>>
  /\ UNCHANGED <<tvPage, tvSvc, tvTerm, tvChecks, tvCount>>

(* inputDrainTimer: send what waits, or forget it when no socket is open.   *)
TermDrain ==
  /\ tvDraining
  /\ IF ~SocketOpen
       THEN ForgetInput /\ UNCHANGED tvSent
       ELSE /\ tvInput' = Tail(tvInput)
            /\ tvDraining' = (Len(tvInput) > 1)
            /\ tvSent' = [typed |-> Head(tvInput), to |-> tvSock.session]
  /\ UNCHANGED <<tvPage, tvSvc, tvTerm, tvConn, tvAsked, tvDraw, tvCount>>

-----------------------------------------------------------------------------
(* Output and size. *)

(* Output of a plain pipe is collected; that of a pseudo terminal goes      *)
(* straight to xterm.                                                       *)
TermOutput ==
  /\ SocketOpen /\ tvTerm # "off" /\ tvPage = tvSock.to
  /\ TermCounted("print")
  /\ IF IsPlain THEN tvOutput' = tvOutput + 1 /\ UNCHANGED tvScreen
     ELSE tvScreen' = "text" /\ UNCHANGED tvOutput
  /\ UNCHANGED <<tvPage, tvSvc, tvTerm, tvConn, tvKeys, tvLine, tvPrompt,
                 tvResizing, tvQueue, tvWriting, tvDropped>>

(* flushPlainTerminalRemoteOutput: the visible line is erased, the output   *)
(* printed, the line drawn again.                                           *)
TermFlush ==
  /\ tvOutput > 0 /\ tvTerm # "off"
  /\ tvOutput' = 0
  /\ LET keep == IsPlain /\ tvPrompt
     IN /\ QueueWrites((IF keep THEN <<"erase">> ELSE <<>>)
                       \o <<"print">>
                       \o (IF keep THEN RenderWrites(tvLine, FALSE, tvResizing)
                           ELSE <<>>))
        /\ tvPrompt' = IF keep THEN RenderedVisible(tvLine, FALSE, tvResizing)
                       ELSE tvPrompt
  /\ UNCHANGED <<tvPage, tvSvc, tvTerm, tvConn, tvKeys, tvLine, tvResizing,
                 tvDropped, tvCount>>

(* The callback of a write: the fit that waited for the line to be erased   *)
(* happens and the line is drawn again; then the next entry of the queue.   *)
TermWritten ==
  /\ tvWriting # "none"
  /\ LET fits == tvWriting = "fit"
         all == tvQueue \o (IF fits THEN RenderWrites(tvLine, tvPrompt, FALSE)
                            ELSE <<>>)
     IN /\ tvResizing' = (tvResizing /\ ~fits)
        /\ tvPrompt' = IF fits THEN RenderedVisible(tvLine, tvPrompt, FALSE)
                       ELSE tvPrompt
        /\ tvWriting' = IF all = <<>> THEN "none" ELSE Head(all)
        /\ tvQueue' = IF all = <<>> THEN <<>> ELSE Tail(all)
        /\ tvScreen' = IF all = <<>> THEN tvScreen ELSE ScreenAfter(Head(all))
  /\ UNCHANGED <<tvPage, tvSvc, tvTerm, tvConn, tvKeys, tvLine, tvOutput,
                 tvDropped, tvCount>>

(* fitActiveTerminal: with a drawn input line the fit waits until the line  *)
(* is erased, and no other fit starts before that.                          *)
TermFit ==
  /\ tvTerm # "off" /\ HasActiveTerminal
  /\ ~tvResizing
  /\ TermCounted("fit")
  /\ IF IsPlain /\ tvPrompt /\ tvLine
       THEN /\ tvResizing' = TRUE
            /\ tvPrompt' = FALSE
            /\ QueueWrites(<<"fit">>)
       ELSE UNCHANGED <<tvResizing, tvPrompt, tvQueue, tvWriting, tvScreen>>
  /\ UNCHANGED <<tvPage, tvSvc, tvTerm, tvConn, tvKeys, tvLine, tvOutput,
                 tvDropped>>

TermNext ==
  \/ \E n \in TermNames, mode \in TermModes : TermOpen(n, mode)
  \/ TermClose
  \/ \E mode \in TermModes : TermStatus(mode)
  \/ \E n \in TermNames : TermRename(n)
  \/ TermSockOpen \/ TermSockLost \/ TermReconnectTimer
  \/ TermInstanceExists \/ TermInstanceMissing
  \/ TermTypeRaw \/ TermEnter \/ TermDrain
  \/ TermAskInterrupt
  \/ \E b \in BOOLEAN : TermTypeChar(b) \/ TermInterrupt(b)
  \/ TermOutput \/ TermFlush \/ TermWritten \/ TermFit

TermSpec == TermInit /\ [][TermNext]_termVars

-----------------------------------------------------------------------------
(* What was typed for one opening of a terminal is only ever sent on a      *)
(* socket of that opening: queued input, its drain timer and a late         *)
(* existence check survive the loss of a socket, but not a new instance.    *)
(* A confirmed ^C counts as typed when it is confirmed.                     *)
TermInputRouted == tvSent.typed = tvSent.to

(* A fit that waits for the input line to be erased will happen: its erase  *)
(* is queued or with xterm.  Without it the terminal would never be fitted  *)
(* and its input line never drawn again.                                    *)
TermResizeEnds ==
  tvResizing => tvWriting = "fit" \/ \E i \in DOMAIN tvQueue : tvQueue[i] = "fit"

(* When nothing is left to write, the screen shows an input line exactly    *)
(* when the page believes it does, unless a reset dropped a queued write.   *)
TermLineHonest ==
  tvWriting = "none" /\ ~tvDropped => (tvPrompt <=> tvScreen = "line")

(* The input line the page draws into the terminal is never out of step     *)
(* with it for good, however fits, output and typing cross                  *)
(* (renderPlainTerminalPromptLine, scheduleResize).                         *)
TermDrawn == TermResizeEnds /\ TermLineHonest

(* A lost connection comes back by itself (user_docs/README.md:122): while  *)
(* an opened instance with a terminal has no socket, a reconnection is      *)
(* scheduled or its existence check is under way.  Two cases are excepted,  *)
(* in which the code ends the connection for good: a rename, as onclose     *)
(* compares the present name with the one the socket was made for, and      *)
(* input beyond the limit of enqueueSocketInput.                            *)
TermReconnects ==
  (/\ tvPage # "" /\ HasActiveTerminal /\ tvSock.st = "none"
   /\ tvCount["change"] = 0 /\ tvCount["key"] <= TermPending)
  => \/ tvTimer = tvPage
     \/ \E check \in tvChecks : CheckCounts(check)

(* Both promises of the connection: it carries only what belongs to it, and *)
(* it comes back.                                                           *)
TermConnection == TermInputRouted /\ TermReconnects
=============================================================================
