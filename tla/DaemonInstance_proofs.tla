------------------------ MODULE DaemonInstance_proofs ------------------------
(***************************************************************************)
(* Proofs about DaemonInstance for every number of runs, every capacity of *)
(* the event channel and every set of codes and cleanup settings.          *)
(***************************************************************************)
EXTENDS DaemonInstance, TLAPS

-----------------------------------------------------------------------------
(* The inductive invariant, in named parts.                                *)

\* proxy and state say the same thing about the current run.
Attachment ==
    /\ proxy # NoRun => proxy = proxySeq /\ state \in {"running", "stopping"}
                        /\ waiter[proxy] = "waiting"
    /\ state \in {"running", "stopping"} => proxy # NoRun
    /\ state = "cleaning" => proxySeq # NoRun /\ waiter[proxySeq] \in CleanupPhases

\* Nothing exists yet of a run that has not begun, and a begun one has a waiter.
Births ==
    /\ \A r \in Runs : r > proxySeq =>
        /\ proc[r] = "none" /\ waiter[r] = "idle" /\ r \notin asked /\ r \notin forced
    /\ \A r \in Runs : r <= proxySeq => waiter[r] # "idle"

\* Where the waiter of a run is tells which of its processes may be up.
Waiters ==
    \A r \in Runs :
        /\ proc[r] \in Up => waiter[r] = "waiting"
        /\ waiter[r] \in {"idle", "waiting", "cleaning"} => cleanup[r] = "none"
        /\ cleanup[r] \in Up => waiter[r] \in {"spawned", "running"}
        /\ report[r] # "none" => waiter[r] = "done"

\* Until the daemon shuts down, only the current run has a waiter at work.
CurrentRun ==
    ~shut => \A r \in Runs :
        /\ waiter[r] = "waiting" => proxy = r
        /\ waiter[r] \in CleanupPhases => proxySeq = r /\ state = "cleaning"

\* What is in the channel has been accounted for.
QueueReported == \A i \in 1 .. Len(eventCh) : report[eventCh[i].run] # "none"

Kills ==
    /\ KillSuppressesCleanup
    /\ \A r \in forced : proxy = r => skipCleanup /\ state = "stopping"

Causes ==
    /\ UnexpectedMeansUnasked
    /\ proxy # NoRun => code # "unexpected_exit"
    /\ proxy # NoRun /\ proxy \in asked => code # "running"
    /\ state = "cleaning" /\ code = "unexpected_exit" => proxySeq \notin asked
    /\ state = "cleaning" => code # "running"

Bookkeeping == Attachment /\ Births /\ Waiters /\ CurrentRun /\ QueueReported

DaemonIInv == DaemonTypeOK /\ Bookkeeping /\ Kills /\ Causes

-----------------------------------------------------------------------------
(* Type correctness.  A kill request without a code is given one before     *)
(* Stop is called, so Stop sees the codes of StopCodes and "manual_kill".   *)

KillCodes == StopCodes \cup {"manual_kill"}

LEMMA RunFacts ==
  /\ Runs \subseteq Nat \ {0} /\ NoRun = 0
  /\ \A r \in RunOrNone : r < MaxRuns => r + 1 \in Runs
  BY MaxRunsAssumption DEF Runs, NoRun, RunOrNone

LEMMA DebtFacts ==
  /\ Idle \in Debts
  /\ \A r \in Runs, o \in {"soft", "hard", "cleanup"} : [op |-> o, run |-> r] \in Debts
  /\ \A d \in Debts : d # Idle => d.run \in Runs /\ d.op \in {"soft", "hard", "cleanup"}
  BY DEF Debts

LEMMA EventFacts ==
  /\ \A r \in Runs, c \in RuntimeCodes : [run |-> r, code |-> c] \in Event
  /\ \A e \in Event : e.run \in Runs
  BY DEF Event

LEMMA QueueFacts ==
  ASSUME NEW S, NEW q \in Seq(S)
  PROVE  /\ q # <<>> => Head(q) \in S /\ Head(q) = q[1] /\ Tail(q) \in Seq(S)
         /\ \A e \in S : Append(q, e) \in Seq(S)
  OBVIOUS

LEMMA TailFacts ==
  ASSUME NEW S, NEW q \in Seq(S), q # <<>>
  PROVE  \A i \in 1 .. Len(Tail(q)) : i + 1 \in 1 .. Len(q) /\ Tail(q)[i] = q[i + 1]
  OBVIOUS

LEMMA AppendFacts ==
  ASSUME NEW S, NEW q \in Seq(S), NEW e \in S
  PROVE  \A i \in 1 .. Len(Append(q, e)) :
            \/ i \in 1 .. Len(q) /\ Append(q, e)[i] = q[i]
            \/ Append(q, e)[i] = e
  OBVIOUS

LEMMA TypeInit == DaemonInit => DaemonTypeOK
  <1> SUFFICES ASSUME DaemonInit PROVE DaemonTypeOK
    OBVIOUS
  <1>1. eventCh \in Seq(Event) /\ dispatch \in Debts
    BY DebtFacts DEF DaemonInit
  <1>2. QED
    BY <1>1
    DEF DaemonInit, DaemonTypeOK, RunOrNone, States, RuntimeCodes, ProcStates,
        WaiterStates, Reports

LEMMA TypeStep ==
  ASSUME DaemonTypeOK, Attachment, [DaemonNext]_daemonVars
  PROVE  DaemonTypeOK'
  <1> USE StopCodesAssumption, CleanupAssumption
      DEF RunOrNone, States, RuntimeCodes, ProcStates, WaiterStates,
          Reports, DaemonTypeOK, waiterVars, controlVars, channelOnly, histories
  <1>1. ASSUME NEW c \in CleanupChoices, NEW ok \in BOOLEAN, StartInstance(c, ok)
        PROVE  DaemonTypeOK'
    <2>1. known' \in BOOLEAN /\ cleanupArgv' \in BOOLEAN /\ skipCleanup' \in BOOLEAN
      BY <1>1 DEF StartInstance, CanStart
    <2>2. CASE ok
      <3>1. proxySeq' \in Runs
        BY <1>1, <2>2, RunFacts DEF StartInstance, CanStart
      <3>2. QED
        BY <1>1, <2>1, <2>2, <3>1 DEF StartInstance, CanStart
    <2>3. CASE ~ok
      BY <1>1, <2>1, <2>3 DEF StartInstance, CanStart
    <2>4. QED
      BY <2>2, <2>3
  <1>2. ASSUME NEW f \in BOOLEAN, NEW rc \in KillCodes, Stop(f, rc), StopWhileCleaning(f, rc)
        PROVE  DaemonTypeOK'
    BY <1>2, DebtFacts, RunFacts DEF Attachment, Stop, StopWhileCleaning, Marked, KillCodes
  <1>3. ASSUME NEW f \in BOOLEAN, NEW rc \in KillCodes, Stop(f, rc), StopIgnored(f, rc)
        PROVE  DaemonTypeOK'
    BY <1>3 DEF Stop, StopIgnored, StopsProgram, Marked, KillCodes
  <1>4. ASSUME NEW f \in BOOLEAN, NEW rc \in KillCodes, Stop(f, rc), StopProgram(f, rc)
        PROVE  DaemonTypeOK'
    BY <1>4, DebtFacts, RunFacts DEF Stop, StopProgram, StopsProgram, SignalOf, KillCodes
  <1>5. ASSUME SendSignal
        PROVE  DaemonTypeOK'
    BY SMTT(30), <1>5, DebtFacts, RunFacts DEF SendSignal
  <1>6. ASSUME NEW rc \in MarkCodes, MarkStopping(rc)
        PROVE  DaemonTypeOK'
    BY <1>6, RunFacts DEF Attachment, MarkStopping, MarkedStopping, Marked, RunAsked, MarkCodes
  <1>7. ASSUME NEW rc \in MarkCodes, MarkRuntimeCode(rc)
        PROVE  DaemonTypeOK'
    BY <1>7, RunFacts DEF Attachment, MarkRuntimeCode, Marked, RunAsked, MarkCodes
  <1>8. ASSUME NEW c \in CleanupChoices, UpdateRuntimeConfig(c)
        PROVE  DaemonTypeOK'
    BY <1>8 DEF UpdateRuntimeConfig
  <1>9. ASSUME NEW r \in Runs, FinishProcessExit(r)
        PROVE  DaemonTypeOK'
    BY <1>9 DEF FinishProcessExit, ShouldCleanup
  <1>10. ASSUME NEW r \in Runs, NEW ok \in BOOLEAN, SpawnCleanup(r, ok)
        PROVE  DaemonTypeOK'
    BY <1>10 DEF SpawnCleanup
  <1>11. ASSUME NEW r \in Runs, PublishCleanup(r)
        PROVE  DaemonTypeOK'
    BY <1>11 DEF PublishCleanup
  <1>12. ASSUME NEW r \in Runs, CleanupWaited(r)
        PROVE  DaemonTypeOK'
    BY <1>12 DEF CleanupWaited
  <1>13. ASSUME NEW r \in Runs, FinishCleanupExit(r)
        PROVE  DaemonTypeOK'
    BY SMTT(30), <1>13 DEF FinishCleanupExit, StillCleaning, CodeAfterCleanup
  <1>14. ASSUME NEW r \in Runs, SendExited(r)
        PROVE  DaemonTypeOK'
    <2>1. eventCh' \in Seq(Event)
      <3>1. [run |-> r, code |-> snap[r]] \in Event
        BY EventFacts
      <3>2. Append(eventCh, [run |-> r, code |-> snap[r]]) \in Seq(Event)
        BY <3>1, QueueFacts
      <3>3. QED
        BY <1>14, <3>2 DEF SendExited
    <2>2. QED
      BY <1>14, <2>1 DEF SendExited
  <1>15. ASSUME NEW r \in Runs, ProgramExits(r)
        PROVE  DaemonTypeOK'
    BY <1>15 DEF ProgramExits
  <1>16. ASSUME NEW r \in Runs, CleanupExits(r)
        PROVE  DaemonTypeOK'
    BY <1>16 DEF CleanupExits
  <1>17. ASSUME ForwardEvent
        PROVE  DaemonTypeOK'
    <2>1. eventCh' \in Seq(Event) /\ Head(eventCh).run \in Runs
      BY <1>17, EventFacts, QueueFacts DEF ForwardEvent
    <2>2. QED
      BY <1>17, <2>1 DEF ForwardEvent
  <1>18. ASSUME DrainEvents
        PROVE  DaemonTypeOK'
    BY <1>18 DEF DrainEvents
  <1>19. ASSUME Shutdown
        PROVE  DaemonTypeOK'
    BY <1>19 DEF Shutdown
  <1>20. CASE UNCHANGED daemonVars
    BY <1>20 DEF daemonVars
  <1> QED
    BY <1>1, <1>2, <1>3, <1>4, <1>5, <1>6, <1>7, <1>8, <1>9, <1>10, <1>11, <1>12,
       <1>13, <1>14, <1>15, <1>16, <1>17, <1>18, <1>19, <1>20
    DEF DaemonNext, Request, WaiterStep, StopInstance, KillInstance, Stop, KillCodes

-----------------------------------------------------------------------------
(* Every part of the invariant is preserved: one lemma per part, one step   *)
(* per action.                                                              *)

LEMMA AttachmentStep ==
  ASSUME DaemonIInv, [DaemonNext]_daemonVars, DaemonTypeOK'
  PROVE  Attachment'
  <1> USE RunFacts, StopCodesAssumption
      DEF DaemonIInv, DaemonTypeOK, RunOrNone, CleanupPhases, Up, waiterVars,
          controlVars, channelOnly, histories, Attachment, CurrentRun,
          Bookkeeping, Waiters
  <1>1. ASSUME NEW c \in CleanupChoices, NEW ok \in BOOLEAN, StartInstance(c, ok)
        PROVE  Attachment'
    BY <1>1 DEF StartInstance, CanStart
  <1>2. ASSUME NEW f \in BOOLEAN, NEW rc \in KillCodes, Stop(f, rc), StopWhileCleaning(f, rc)
        PROVE  Attachment'
    BY <1>2 DEF Stop, StopWhileCleaning, Marked, KillCodes
  <1>3. ASSUME NEW f \in BOOLEAN, NEW rc \in KillCodes, Stop(f, rc), StopIgnored(f, rc)
        PROVE  Attachment'
    BY <1>3 DEF Stop, StopIgnored, StopsProgram, Marked, KillCodes
  <1>4. ASSUME NEW f \in BOOLEAN, NEW rc \in KillCodes, Stop(f, rc), StopProgram(f, rc)
        PROVE  Attachment'
    BY <1>4 DEF Stop, StopProgram, StopsProgram, SignalOf, KillCodes
  <1>5. ASSUME SendSignal
        PROVE  Attachment'
    BY <1>5 DEF SendSignal
  <1>6. ASSUME NEW rc \in MarkCodes, MarkStopping(rc)
        PROVE  Attachment'
    BY <1>6 DEF MarkStopping, MarkedStopping, Marked, RunAsked, MarkCodes
  <1>7. ASSUME NEW rc \in MarkCodes, MarkRuntimeCode(rc)
        PROVE  Attachment'
    BY <1>7 DEF MarkRuntimeCode, Marked, RunAsked, MarkCodes
  <1>8. ASSUME NEW c \in CleanupChoices, UpdateRuntimeConfig(c)
        PROVE  Attachment'
    BY <1>8 DEF UpdateRuntimeConfig
  <1>9. ASSUME NEW r \in Runs, FinishProcessExit(r)
        PROVE  Attachment'
    BY <1>9 DEF FinishProcessExit, ShouldCleanup
  <1>10. ASSUME NEW r \in Runs, NEW ok \in BOOLEAN, SpawnCleanup(r, ok)
        PROVE  Attachment'
    BY <1>10 DEF SpawnCleanup
  <1>11. ASSUME NEW r \in Runs, PublishCleanup(r)
        PROVE  Attachment'
    BY <1>11 DEF PublishCleanup
  <1>12. ASSUME NEW r \in Runs, CleanupWaited(r)
        PROVE  Attachment'
    BY <1>12 DEF CleanupWaited
  <1>13. ASSUME NEW r \in Runs, FinishCleanupExit(r)
        PROVE  Attachment'
    BY <1>13 DEF FinishCleanupExit, StillCleaning, CodeAfterCleanup
  <1>14. ASSUME NEW r \in Runs, SendExited(r)
        PROVE  Attachment'
    BY <1>14 DEF SendExited
  <1>15. ASSUME NEW r \in Runs, ProgramExits(r)
        PROVE  Attachment'
    BY <1>15 DEF ProgramExits
  <1>16. ASSUME NEW r \in Runs, CleanupExits(r)
        PROVE  Attachment'
    BY <1>16 DEF CleanupExits
  <1>17. ASSUME ForwardEvent
        PROVE  Attachment'
    BY <1>17 DEF ForwardEvent
  <1>18. ASSUME DrainEvents
        PROVE  Attachment'
    BY <1>18 DEF DrainEvents
  <1>19. ASSUME Shutdown
        PROVE  Attachment'
    BY <1>19 DEF Shutdown
  <1>20. CASE UNCHANGED daemonVars
    BY <1>20 DEF daemonVars
  <1> HIDE DEF DaemonIInv, DaemonTypeOK, Bookkeeping, Attachment
  <1> QED
    BY <1>1, <1>2, <1>3, <1>4, <1>5, <1>6, <1>7, <1>8, <1>9, <1>10, <1>11, <1>12,
       <1>13, <1>14, <1>15, <1>16, <1>17, <1>18, <1>19, <1>20
    DEF DaemonNext, Request, WaiterStep, StopInstance, KillInstance, Stop, KillCodes

LEMMA BirthsStep ==
  ASSUME DaemonIInv, [DaemonNext]_daemonVars, DaemonTypeOK'
  PROVE  Births'
  <1> USE RunFacts, StopCodesAssumption
      DEF DaemonIInv, DaemonTypeOK, RunOrNone, CleanupPhases, Up, waiterVars,
          controlVars, channelOnly, histories, Attachment, Births, Bookkeeping,
          Waiters
  <1>1. ASSUME NEW c \in CleanupChoices, NEW ok \in BOOLEAN, StartInstance(c, ok)
        PROVE  Births'
    <2>1. CASE ~ok
      BY <1>1, <2>1 DEF StartInstance, CanStart
    <2>2. CASE ok
      <3>1. proxySeq' = proxySeq + 1 /\ proxySeq' \in Runs
        BY <1>1, <2>2 DEF StartInstance, CanStart
      <3>2. proxy = NoRun
        BY <1>1 DEF StartInstance, CanStart, Attachment
      <3>3. QED
        BY <1>1, <2>2, <3>1, <3>2 DEF StartInstance, CanStart
    <2>3. QED
      BY <2>1, <2>2
  <1>2. ASSUME NEW f \in BOOLEAN, NEW rc \in KillCodes, Stop(f, rc), StopWhileCleaning(f, rc)
        PROVE  Births'
    BY <1>2 DEF Stop, StopWhileCleaning, Marked, KillCodes
  <1>3. ASSUME NEW f \in BOOLEAN, NEW rc \in KillCodes, Stop(f, rc), StopIgnored(f, rc)
        PROVE  Births'
    BY <1>3 DEF Stop, StopIgnored, StopsProgram, Marked, KillCodes
  <1>4. ASSUME NEW f \in BOOLEAN, NEW rc \in KillCodes, Stop(f, rc), StopProgram(f, rc)
        PROVE  Births'
    BY <1>4 DEF Stop, StopProgram, StopsProgram, SignalOf, KillCodes
  <1>5. ASSUME SendSignal
        PROVE  Births'
    BY <1>5 DEF SendSignal
  <1>6. ASSUME NEW rc \in MarkCodes, MarkStopping(rc)
        PROVE  Births'
    BY <1>6 DEF MarkStopping, MarkedStopping, Marked, RunAsked, MarkCodes
  <1>7. ASSUME NEW rc \in MarkCodes, MarkRuntimeCode(rc)
        PROVE  Births'
    BY <1>7 DEF MarkRuntimeCode, Marked, RunAsked, MarkCodes
  <1>8. ASSUME NEW c \in CleanupChoices, UpdateRuntimeConfig(c)
        PROVE  Births'
    BY <1>8 DEF UpdateRuntimeConfig
  <1>9. ASSUME NEW r \in Runs, FinishProcessExit(r)
        PROVE  Births'
    BY <1>9 DEF FinishProcessExit, ShouldCleanup
  <1>10. ASSUME NEW r \in Runs, NEW ok \in BOOLEAN, SpawnCleanup(r, ok)
        PROVE  Births'
    BY <1>10 DEF SpawnCleanup
  <1>11. ASSUME NEW r \in Runs, PublishCleanup(r)
        PROVE  Births'
    BY <1>11 DEF PublishCleanup
  <1>12. ASSUME NEW r \in Runs, CleanupWaited(r)
        PROVE  Births'
    BY <1>12 DEF CleanupWaited
  <1>13. ASSUME NEW r \in Runs, FinishCleanupExit(r)
        PROVE  Births'
    BY <1>13 DEF FinishCleanupExit, StillCleaning, CodeAfterCleanup
  <1>14. ASSUME NEW r \in Runs, SendExited(r)
        PROVE  Births'
    BY <1>14 DEF SendExited
  <1>15. ASSUME NEW r \in Runs, ProgramExits(r)
        PROVE  Births'
    BY <1>15 DEF ProgramExits
  <1>16. ASSUME NEW r \in Runs, CleanupExits(r)
        PROVE  Births'
    BY <1>16 DEF CleanupExits
  <1>17. ASSUME ForwardEvent
        PROVE  Births'
    BY <1>17 DEF ForwardEvent
  <1>18. ASSUME DrainEvents
        PROVE  Births'
    BY <1>18 DEF DrainEvents
  <1>19. ASSUME Shutdown
        PROVE  Births'
    BY <1>19 DEF Shutdown
  <1>20. CASE UNCHANGED daemonVars
    BY <1>20 DEF daemonVars
  <1> HIDE DEF DaemonIInv, DaemonTypeOK, Bookkeeping, Births
  <1> QED
    BY <1>1, <1>2, <1>3, <1>4, <1>5, <1>6, <1>7, <1>8, <1>9, <1>10, <1>11, <1>12,
       <1>13, <1>14, <1>15, <1>16, <1>17, <1>18, <1>19, <1>20
    DEF DaemonNext, Request, WaiterStep, StopInstance, KillInstance, Stop, KillCodes

LEMMA WaitersStep ==
  ASSUME DaemonIInv, [DaemonNext]_daemonVars, DaemonTypeOK'
  PROVE  Waiters'
  <1> USE RunFacts, StopCodesAssumption
      DEF DaemonIInv, DaemonTypeOK, RunOrNone, CleanupPhases, Up, waiterVars,
          controlVars, channelOnly, histories, Births, Waiters, QueueReported,
          Bookkeeping, ProcStates, Reports
  <1>1. ASSUME NEW c \in CleanupChoices, NEW ok \in BOOLEAN, StartInstance(c, ok)
        PROVE  Waiters'
    <2>1. CASE ~ok
      BY <1>1, <2>1 DEF StartInstance, CanStart
    <2>2. CASE ok
      <3>1. proxySeq' = proxySeq + 1 /\ proxySeq' \in Runs
        BY <1>1, <2>2 DEF StartInstance, CanStart
      <3>2. proxy = NoRun
        BY <1>1 DEF StartInstance, CanStart, Attachment
      <3>3. QED
        BY <1>1, <2>2, <3>1, <3>2 DEF StartInstance, CanStart
    <2>3. QED
      BY <2>1, <2>2
  <1>2. ASSUME NEW f \in BOOLEAN, NEW rc \in KillCodes, Stop(f, rc), StopWhileCleaning(f, rc)
        PROVE  Waiters'
    BY <1>2 DEF Stop, StopWhileCleaning, Marked, KillCodes
  <1>3. ASSUME NEW f \in BOOLEAN, NEW rc \in KillCodes, Stop(f, rc), StopIgnored(f, rc)
        PROVE  Waiters'
    BY <1>3 DEF Stop, StopIgnored, StopsProgram, Marked, KillCodes
  <1>4. ASSUME NEW f \in BOOLEAN, NEW rc \in KillCodes, Stop(f, rc), StopProgram(f, rc)
        PROVE  Waiters'
    BY <1>4 DEF Stop, StopProgram, StopsProgram, SignalOf, KillCodes
  <1>5. ASSUME SendSignal
        PROVE  Waiters'
    BY <1>5 DEF SendSignal
  <1>6. ASSUME NEW rc \in MarkCodes, MarkStopping(rc)
        PROVE  Waiters'
    BY <1>6 DEF MarkStopping, MarkedStopping, Marked, RunAsked, MarkCodes
  <1>7. ASSUME NEW rc \in MarkCodes, MarkRuntimeCode(rc)
        PROVE  Waiters'
    BY <1>7 DEF MarkRuntimeCode, Marked, RunAsked, MarkCodes
  <1>8. ASSUME NEW c \in CleanupChoices, UpdateRuntimeConfig(c)
        PROVE  Waiters'
    BY <1>8 DEF UpdateRuntimeConfig
  <1>9. ASSUME NEW r \in Runs, FinishProcessExit(r)
        PROVE  Waiters'
    BY <1>9 DEF FinishProcessExit, ShouldCleanup
  <1>10. ASSUME NEW r \in Runs, NEW ok \in BOOLEAN, SpawnCleanup(r, ok)
        PROVE  Waiters'
    BY <1>10 DEF SpawnCleanup
  <1>11. ASSUME NEW r \in Runs, PublishCleanup(r)
        PROVE  Waiters'
    BY <1>11 DEF PublishCleanup
  <1>12. ASSUME NEW r \in Runs, CleanupWaited(r)
        PROVE  Waiters'
    BY <1>12 DEF CleanupWaited
  <1>13. ASSUME NEW r \in Runs, FinishCleanupExit(r)
        PROVE  Waiters'
    BY <1>13 DEF FinishCleanupExit, StillCleaning, CodeAfterCleanup
  <1>14. ASSUME NEW r \in Runs, SendExited(r)
        PROVE  Waiters'
    BY <1>14 DEF SendExited
  <1>15. ASSUME NEW r \in Runs, ProgramExits(r)
        PROVE  Waiters'
    <2>1. proc' = [proc EXCEPT ![r] = "dead"] /\ UNCHANGED <<waiter, cleanup, report>>
      BY <1>15 DEF ProgramExits
    <2>2. QED
      BY <2>1
  <1>16. ASSUME NEW r \in Runs, CleanupExits(r)
        PROVE  Waiters'
    BY <1>16 DEF CleanupExits
  <1>17. ASSUME ForwardEvent
        PROVE  Waiters'
    BY <1>17 DEF ForwardEvent
  <1>18. ASSUME DrainEvents
        PROVE  Waiters'
    BY <1>18 DEF DrainEvents
  <1>19. ASSUME Shutdown
        PROVE  Waiters'
    BY <1>19 DEF Shutdown
  <1>20. CASE UNCHANGED daemonVars
    BY <1>20 DEF daemonVars
  <1> HIDE DEF DaemonIInv, DaemonTypeOK, Bookkeeping, Waiters
  <1> QED
    BY <1>1, <1>2, <1>3, <1>4, <1>5, <1>6, <1>7, <1>8, <1>9, <1>10, <1>11, <1>12,
       <1>13, <1>14, <1>15, <1>16, <1>17, <1>18, <1>19, <1>20
    DEF DaemonNext, Request, WaiterStep, StopInstance, KillInstance, Stop, KillCodes

LEMMA CurrentStep ==
  ASSUME DaemonIInv, [DaemonNext]_daemonVars, DaemonTypeOK'
  PROVE  CurrentRun'
  <1> USE RunFacts, StopCodesAssumption
      DEF DaemonIInv, DaemonTypeOK, RunOrNone, CleanupPhases, Up, waiterVars,
          controlVars, channelOnly, histories, Attachment, Births, Waiters,
          CurrentRun, Bookkeeping
  <1>1. ASSUME NEW c \in CleanupChoices, NEW ok \in BOOLEAN, StartInstance(c, ok)
        PROVE  CurrentRun'
    BY <1>1 DEF StartInstance, CanStart
  <1>2. ASSUME NEW f \in BOOLEAN, NEW rc \in KillCodes, Stop(f, rc), StopWhileCleaning(f, rc)
        PROVE  CurrentRun'
    BY <1>2 DEF Stop, StopWhileCleaning, Marked, KillCodes
  <1>3. ASSUME NEW f \in BOOLEAN, NEW rc \in KillCodes, Stop(f, rc), StopIgnored(f, rc)
        PROVE  CurrentRun'
    BY <1>3 DEF Stop, StopIgnored, StopsProgram, Marked, KillCodes
  <1>4. ASSUME NEW f \in BOOLEAN, NEW rc \in KillCodes, Stop(f, rc), StopProgram(f, rc)
        PROVE  CurrentRun'
    BY <1>4 DEF Stop, StopProgram, StopsProgram, SignalOf, KillCodes
  <1>5. ASSUME SendSignal
        PROVE  CurrentRun'
    BY <1>5 DEF SendSignal
  <1>6. ASSUME NEW rc \in MarkCodes, MarkStopping(rc)
        PROVE  CurrentRun'
    BY <1>6 DEF MarkStopping, MarkedStopping, Marked, RunAsked, MarkCodes
  <1>7. ASSUME NEW rc \in MarkCodes, MarkRuntimeCode(rc)
        PROVE  CurrentRun'
    BY <1>7 DEF MarkRuntimeCode, Marked, RunAsked, MarkCodes
  <1>8. ASSUME NEW c \in CleanupChoices, UpdateRuntimeConfig(c)
        PROVE  CurrentRun'
    BY <1>8 DEF UpdateRuntimeConfig
  <1>9. ASSUME NEW r \in Runs, FinishProcessExit(r)
        PROVE  CurrentRun'
    BY <1>9 DEF FinishProcessExit, ShouldCleanup
  <1>10. ASSUME NEW r \in Runs, NEW ok \in BOOLEAN, SpawnCleanup(r, ok)
        PROVE  CurrentRun'
    BY <1>10 DEF SpawnCleanup
  <1>11. ASSUME NEW r \in Runs, PublishCleanup(r)
        PROVE  CurrentRun'
    BY <1>11 DEF PublishCleanup
  <1>12. ASSUME NEW r \in Runs, CleanupWaited(r)
        PROVE  CurrentRun'
    BY <1>12 DEF CleanupWaited
  <1>13. ASSUME NEW r \in Runs, FinishCleanupExit(r)
        PROVE  CurrentRun'
    BY <1>13 DEF FinishCleanupExit, StillCleaning, CodeAfterCleanup
  <1>14. ASSUME NEW r \in Runs, SendExited(r)
        PROVE  CurrentRun'
    BY <1>14 DEF SendExited
  <1>15. ASSUME NEW r \in Runs, ProgramExits(r)
        PROVE  CurrentRun'
    BY <1>15 DEF ProgramExits
  <1>16. ASSUME NEW r \in Runs, CleanupExits(r)
        PROVE  CurrentRun'
    BY <1>16 DEF CleanupExits
  <1>17. ASSUME ForwardEvent
        PROVE  CurrentRun'
    BY <1>17 DEF ForwardEvent
  <1>18. ASSUME DrainEvents
        PROVE  CurrentRun'
    BY <1>18 DEF DrainEvents
  <1>19. ASSUME Shutdown
        PROVE  CurrentRun'
    BY <1>19 DEF Shutdown
  <1>20. CASE UNCHANGED daemonVars
    BY <1>20 DEF daemonVars
  <1> HIDE DEF DaemonIInv, DaemonTypeOK, Bookkeeping, CurrentRun
  <1> QED
    BY <1>1, <1>2, <1>3, <1>4, <1>5, <1>6, <1>7, <1>8, <1>9, <1>10, <1>11, <1>12,
       <1>13, <1>14, <1>15, <1>16, <1>17, <1>18, <1>19, <1>20
    DEF DaemonNext, Request, WaiterStep, StopInstance, KillInstance, Stop, KillCodes

LEMMA KillsStep ==
  ASSUME DaemonIInv, [DaemonNext]_daemonVars, DaemonTypeOK'
  PROVE  Kills'
  <1> USE RunFacts, StopCodesAssumption
      DEF DaemonIInv, DaemonTypeOK, RunOrNone, CleanupPhases, Up, waiterVars,
          controlVars, channelOnly, histories, Attachment, Births, Waiters,
          Bookkeeping, Kills, KillSuppressesCleanup, ProcStates, WaiterStates
  <1>1. ASSUME NEW c \in CleanupChoices, NEW ok \in BOOLEAN, StartInstance(c, ok)
        PROVE  Kills'
    BY <1>1 DEF StartInstance, CanStart
  <1>2. ASSUME NEW f \in BOOLEAN, NEW rc \in KillCodes, Stop(f, rc), StopWhileCleaning(f, rc)
        PROVE  Kills'
    BY <1>2 DEF Stop, StopWhileCleaning, Marked, KillCodes
  <1>3. ASSUME NEW f \in BOOLEAN, NEW rc \in KillCodes, Stop(f, rc), StopIgnored(f, rc)
        PROVE  Kills'
    BY <1>3 DEF Stop, StopIgnored, StopsProgram, Marked, KillCodes
  <1>4. ASSUME NEW f \in BOOLEAN, NEW rc \in KillCodes, Stop(f, rc), StopProgram(f, rc)
        PROVE  Kills'
    BY <1>4 DEF Stop, StopProgram, StopsProgram, SignalOf, KillCodes
  <1>5. ASSUME SendSignal
        PROVE  Kills'
    BY <1>5 DEF SendSignal
  <1>6. ASSUME NEW rc \in MarkCodes, MarkStopping(rc)
        PROVE  Kills'
    BY <1>6 DEF MarkStopping, MarkedStopping, Marked, RunAsked, MarkCodes
  <1>7. ASSUME NEW rc \in MarkCodes, MarkRuntimeCode(rc)
        PROVE  Kills'
    BY <1>7 DEF MarkRuntimeCode, Marked, RunAsked, MarkCodes
  <1>8. ASSUME NEW c \in CleanupChoices, UpdateRuntimeConfig(c)
        PROVE  Kills'
    BY <1>8 DEF UpdateRuntimeConfig
  <1>9. ASSUME NEW r \in Runs, FinishProcessExit(r)
        PROVE  Kills'
    BY <1>9 DEF FinishProcessExit, ShouldCleanup
  <1>10. ASSUME NEW r \in Runs, NEW ok \in BOOLEAN, SpawnCleanup(r, ok)
        PROVE  Kills'
    BY <1>10 DEF SpawnCleanup
  <1>11. ASSUME NEW r \in Runs, PublishCleanup(r)
        PROVE  Kills'
    BY <1>11 DEF PublishCleanup
  <1>12. ASSUME NEW r \in Runs, CleanupWaited(r)
        PROVE  Kills'
    BY <1>12 DEF CleanupWaited
  <1>13. ASSUME NEW r \in Runs, FinishCleanupExit(r)
        PROVE  Kills'
    BY <1>13 DEF FinishCleanupExit, StillCleaning, CodeAfterCleanup
  <1>14. ASSUME NEW r \in Runs, SendExited(r)
        PROVE  Kills'
    BY <1>14 DEF SendExited
  <1>15. ASSUME NEW r \in Runs, ProgramExits(r)
        PROVE  Kills'
    BY <1>15 DEF ProgramExits
  <1>16. ASSUME NEW r \in Runs, CleanupExits(r)
        PROVE  Kills'
    BY <1>16 DEF CleanupExits
  <1>17. ASSUME ForwardEvent
        PROVE  Kills'
    BY <1>17 DEF ForwardEvent
  <1>18. ASSUME DrainEvents
        PROVE  Kills'
    BY <1>18 DEF DrainEvents
  <1>19. ASSUME Shutdown
        PROVE  Kills'
    BY <1>19 DEF Shutdown
  <1>20. CASE UNCHANGED daemonVars
    BY <1>20 DEF daemonVars
  <1> HIDE DEF DaemonIInv, DaemonTypeOK, Bookkeeping, Kills
  <1> QED
    BY <1>1, <1>2, <1>3, <1>4, <1>5, <1>6, <1>7, <1>8, <1>9, <1>10, <1>11, <1>12,
       <1>13, <1>14, <1>15, <1>16, <1>17, <1>18, <1>19, <1>20
    DEF DaemonNext, Request, WaiterStep, StopInstance, KillInstance, Stop, KillCodes

LEMMA CausesStep ==
  ASSUME DaemonIInv, [DaemonNext]_daemonVars, DaemonTypeOK'
  PROVE  Causes'
  <1> USE RunFacts, StopCodesAssumption
      DEF DaemonIInv, DaemonTypeOK, RunOrNone, CleanupPhases, Up, waiterVars,
          controlVars, channelOnly, histories, Attachment, Births, Waiters,
          QueueReported, Bookkeeping, Causes, UnexpectedMeansUnasked,
          RuntimeCodes, WaiterStates
  <1>1. ASSUME NEW c \in CleanupChoices, NEW ok \in BOOLEAN, StartInstance(c, ok)
        PROVE  Causes'
    BY <1>1 DEF StartInstance, CanStart
  <1>2. ASSUME NEW f \in BOOLEAN, NEW rc \in KillCodes, Stop(f, rc), StopWhileCleaning(f, rc)
        PROVE  Causes'
    BY <1>2 DEF Stop, StopWhileCleaning, Marked, KillCodes
  <1>3. ASSUME NEW f \in BOOLEAN, NEW rc \in KillCodes, Stop(f, rc), StopIgnored(f, rc)
        PROVE  Causes'
    BY <1>3 DEF Stop, StopIgnored, StopsProgram, Marked, KillCodes
  <1>4. ASSUME NEW f \in BOOLEAN, NEW rc \in KillCodes, Stop(f, rc), StopProgram(f, rc)
        PROVE  Causes'
    BY <1>4 DEF Stop, StopProgram, StopsProgram, SignalOf, KillCodes
  <1>5. ASSUME SendSignal
        PROVE  Causes'
    BY <1>5 DEF SendSignal
  <1>6. ASSUME NEW rc \in MarkCodes, MarkStopping(rc)
        PROVE  Causes'
    BY <1>6 DEF MarkStopping, MarkedStopping, Marked, RunAsked, MarkCodes
  <1>7. ASSUME NEW rc \in MarkCodes, MarkRuntimeCode(rc)
        PROVE  Causes'
    BY <1>7 DEF MarkRuntimeCode, Marked, RunAsked, MarkCodes
  <1>8. ASSUME NEW c \in CleanupChoices, UpdateRuntimeConfig(c)
        PROVE  Causes'
    BY <1>8 DEF UpdateRuntimeConfig
  <1>9. ASSUME NEW r \in Runs, FinishProcessExit(r)
        PROVE  Causes'
    BY <1>9 DEF FinishProcessExit, ShouldCleanup
  <1>10. ASSUME NEW r \in Runs, NEW ok \in BOOLEAN, SpawnCleanup(r, ok)
        PROVE  Causes'
    BY <1>10 DEF SpawnCleanup
  <1>11. ASSUME NEW r \in Runs, PublishCleanup(r)
        PROVE  Causes'
    BY <1>11 DEF PublishCleanup
  <1>12. ASSUME NEW r \in Runs, CleanupWaited(r)
        PROVE  Causes'
    BY <1>12 DEF CleanupWaited
  <1>13. ASSUME NEW r \in Runs, FinishCleanupExit(r)
        PROVE  Causes'
    BY <1>13 DEF FinishCleanupExit, StillCleaning, CodeAfterCleanup
  <1>14. ASSUME NEW r \in Runs, SendExited(r)
        PROVE  Causes'
    BY <1>14 DEF SendExited
  <1>15. ASSUME NEW r \in Runs, ProgramExits(r)
        PROVE  Causes'
    BY <1>15 DEF ProgramExits
  <1>16. ASSUME NEW r \in Runs, CleanupExits(r)
        PROVE  Causes'
    BY <1>16 DEF CleanupExits
  <1>17. ASSUME ForwardEvent
        PROVE  Causes'
    BY <1>17 DEF ForwardEvent
  <1>18. ASSUME DrainEvents
        PROVE  Causes'
    BY <1>18 DEF DrainEvents
  <1>19. ASSUME Shutdown
        PROVE  Causes'
    BY <1>19 DEF Shutdown
  <1>20. CASE UNCHANGED daemonVars
    BY <1>20 DEF daemonVars
  <1> HIDE DEF DaemonIInv, DaemonTypeOK, Bookkeeping, Causes
  <1> QED
    BY <1>1, <1>2, <1>3, <1>4, <1>5, <1>6, <1>7, <1>8, <1>9, <1>10, <1>11, <1>12,
       <1>13, <1>14, <1>15, <1>16, <1>17, <1>18, <1>19, <1>20
    DEF DaemonNext, Request, WaiterStep, StopInstance, KillInstance, Stop, KillCodes

\* Only three actions move the event channel or the reports.
LEMMA QueueSplit ==
  ASSUME [DaemonNext]_daemonVars
  PROVE  \/ UNCHANGED <<eventCh, report>>
         \/ \E r \in Runs : SendExited(r)
         \/ ForwardEvent \/ DrainEvents
  <1>1. CASE Request
    BY <1>1 DEF Request, StartInstance, StopInstance, KillInstance, Stop, MarkStopping,
                MarkRuntimeCode, UpdateRuntimeConfig, waiterVars
  <1>2. ASSUME NEW r \in Runs, WaiterStep(r) \/ ProgramExits(r) \/ CleanupExits(r)
        PROVE  UNCHANGED <<eventCh, report>> \/ SendExited(r)
    BY <1>2 DEF WaiterStep, FinishProcessExit, SpawnCleanup, PublishCleanup,
                CleanupWaited, FinishCleanupExit, ProgramExits, CleanupExits, waiterVars
  <1>3. CASE SendSignal \/ Shutdown \/ UNCHANGED daemonVars
    BY <1>3 DEF SendSignal, Shutdown, daemonVars
  <1> QED
    BY <1>1, <1>2, <1>3 DEF DaemonNext

LEMMA QueueStep ==
  ASSUME DaemonIInv, [DaemonNext]_daemonVars, DaemonTypeOK'
  PROVE  QueueReported'
  <1> USE DEF DaemonIInv, DaemonTypeOK, Bookkeeping, QueueReported, waiterVars,
          controlVars, channelOnly, histories, Reports
  <1>1. CASE UNCHANGED <<eventCh, report>>
    BY <1>1
  <1>2. ASSUME NEW r \in Runs, SendExited(r)
        PROVE  QueueReported'
    <2> DEFINE e == [run |-> r, code |-> snap[r]]
    <2>1. e \in Event /\ e.run = r
      BY EventFacts
    <2>2. \A s \in Runs : report[s] # "none" \/ s = r => report'[s] # "none"
      BY <1>2 DEF SendExited
    <2>3. eventCh' = eventCh \/ eventCh' = Append(eventCh, e)
      BY <1>2 DEF SendExited
    <2>4. \A i \in 1 .. Len(eventCh) : eventCh[i].run \in Runs
      BY EventFacts
    <2> HIDE DEF e
    <2>5. QED
      <3>1. CASE eventCh' = eventCh
        BY <2>2, <2>4, <3>1
      <3>2. CASE eventCh' = Append(eventCh, e)
        <4>1. \A i \in 1 .. Len(eventCh') :
                (i \in 1 .. Len(eventCh) /\ eventCh'[i] = eventCh[i]) \/ eventCh'[i] = e
          BY <2>1, <3>2, AppendFacts
        <4>2. QED
          BY <2>1, <2>2, <2>4, <4>1
      <3>3. QED
        BY <2>3, <3>1, <3>2
  <1>3. CASE ForwardEvent
    <2>1. eventCh # <<>> /\ eventCh' = Tail(eventCh)
      BY <1>3 DEF ForwardEvent
    <2>2. \A r \in Runs : report[r] # "none" => report'[r] # "none"
      BY <1>3 DEF ForwardEvent
    <2>3. \A i \in 1 .. Len(eventCh) : eventCh[i].run \in Runs
      BY EventFacts
    <2>4. QED
      BY <2>1, <2>2, <2>3, TailFacts
  <1>4. CASE DrainEvents
    <2>1. eventCh' = <<>>
      BY <1>4 DEF DrainEvents
    <2>2. QED
      BY <2>1
  <1> QED
    BY <1>1, <1>2, <1>3, <1>4, QueueSplit

-----------------------------------------------------------------------------
(* Theorems                                                                 *)

LEMMA InvInit == DaemonInit => DaemonIInv
  <1> SUFFICES ASSUME DaemonInit PROVE DaemonIInv
    OBVIOUS
  <1>1. Bookkeeping
    BY RunFacts
    DEF DaemonInit, Bookkeeping, Attachment, Births, Waiters, CurrentRun, QueueReported,
        CleanupPhases, Up
  <1>2. Kills /\ Causes
    BY RunFacts DEF DaemonInit, Kills, KillSuppressesCleanup, Causes, UnexpectedMeansUnasked
  <1>3. QED
    BY <1>1, <1>2, TypeInit DEF DaemonIInv

LEMMA InvStep == DaemonIInv /\ [DaemonNext]_daemonVars => DaemonIInv'
  <1> SUFFICES ASSUME DaemonIInv, [DaemonNext]_daemonVars PROVE DaemonIInv'
    OBVIOUS
  <1>1. DaemonTypeOK'
    BY TypeStep DEF DaemonIInv, Bookkeeping
  <1>2. Bookkeeping'
    BY <1>1, AttachmentStep, BirthsStep, WaitersStep, CurrentStep, QueueStep
    DEF Bookkeeping
  <1>3. QED
    BY <1>1, <1>2, KillsStep, CausesStep DEF DaemonIInv

\* The inductive invariant of the daemon's instance holds in every state.
THEOREM DaemonInvariant == DaemonSpec => []DaemonIInv
  BY InvInit, InvStep, PTL DEF DaemonSpec

\* The variables of the daemon's instance keep their types.
THEOREM DaemonTypes == DaemonSpec => []DaemonTypeOK
  <1>1. DaemonIInv => DaemonTypeOK
    BY DEF DaemonIInv
  <1>2. QED
    BY <1>1, DaemonInvariant, PTL

\* A killed run never gets a cleanup command.
THEOREM KillsAreFinal == DaemonSpec => []KillSuppressesCleanup
  <1>1. DaemonIInv => KillSuppressesCleanup
    BY DEF DaemonIInv, Kills
  <1>2. QED
    BY <1>1, DaemonInvariant, PTL

\* An exit that is reported as unexpected was asked for by nobody.
THEOREM CausesAreTrue == DaemonSpec => []UnexpectedMeansUnasked
  <1>1. DaemonIInv => UnexpectedMeansUnasked
    BY DEF DaemonIInv, Causes
  <1>2. QED
    BY <1>1, DaemonInvariant, PTL

\* Until the daemon shuts down there is one program at a time, and a cleanup
\* command runs alone.
THEOREM ProgramsAreExclusive == DaemonSpec => []OneProgramAtATime
  <1>1. DaemonIInv => OneProgramAtATime
    BY DEF DaemonIInv, Bookkeeping, Waiters, CurrentRun, Attachment, OneProgramAtATime,
           CleanupPhases, Up
  <1>2. QED
    BY <1>1, DaemonInvariant, PTL

-----------------------------------------------------------------------------
(* Why ended programs are reported and kills end runs: while either is      *)
(* owed, an action that the scheduler must take is possible.                *)

\* A waiter that has finished has handed in the report of its run.
NoExitDropped == ~shut => \A r \in Runs : waiter[r] = "done" => report[r] # "none"

\* A kill of the attached program is on its way for as long as the program is
\* alive, and all that the waiter has left to do is to see the program end.
KillsServed ==
    \A r \in forced :
        /\ proc[r] = "alive" => dispatch = [op |-> "hard", run |-> r]
        /\ proxySeq = r /\ state # "stopped" => waiter[r] = "waiting"

\* A waiter waits for something that was there.
WaitersHaveCause ==
    \A r \in Runs : /\ waiter[r] = "waiting" => proc[r] # "none"
                    /\ waiter[r] \in {"spawned", "running"} => cleanup[r] # "none"

Accounts == NoExitDropped /\ KillsServed /\ WaitersHaveCause

LEMMA AccountsStep ==
  ASSUME DaemonIInv, Accounts, [DaemonNext]_daemonVars, DaemonTypeOK'
  PROVE  Accounts'
  <1> USE RunFacts, StopCodesAssumption
      DEF DaemonIInv, DaemonTypeOK, RunOrNone, CleanupPhases, Up, waiterVars,
          controlVars, channelOnly, histories, Attachment, Births, Waiters,
          Bookkeeping, CurrentRun, Kills, KillSuppressesCleanup, ProcStates,
          WaiterStates, Accounts, NoExitDropped, KillsServed,
          WaitersHaveCause, Idle
  <1>1. ASSUME NEW c \in CleanupChoices, NEW ok \in BOOLEAN, StartInstance(c, ok)
        PROVE  Accounts'
    BY <1>1 DEF StartInstance, CanStart
  <1>2. ASSUME NEW f \in BOOLEAN, NEW rc \in KillCodes, Stop(f, rc), StopWhileCleaning(f, rc)
        PROVE  Accounts'
    BY <1>2 DEF Stop, StopWhileCleaning, Marked, KillCodes
  <1>3. ASSUME NEW f \in BOOLEAN, NEW rc \in KillCodes, Stop(f, rc), StopIgnored(f, rc)
        PROVE  Accounts'
    BY <1>3 DEF Stop, StopIgnored, StopsProgram, Marked, KillCodes
  <1>4. ASSUME NEW f \in BOOLEAN, NEW rc \in KillCodes, Stop(f, rc), StopProgram(f, rc)
        PROVE  Accounts'
    BY <1>4 DEF Stop, StopProgram, StopsProgram, SignalOf, KillCodes
  <1>5. ASSUME SendSignal
        PROVE  Accounts'
    BY <1>5 DEF SendSignal
  <1>6. ASSUME NEW rc \in MarkCodes, MarkStopping(rc)
        PROVE  Accounts'
    BY <1>6 DEF MarkStopping, MarkedStopping, Marked, RunAsked, MarkCodes
  <1>7. ASSUME NEW rc \in MarkCodes, MarkRuntimeCode(rc)
        PROVE  Accounts'
    BY <1>7 DEF MarkRuntimeCode, Marked, RunAsked, MarkCodes
  <1>8. ASSUME NEW c \in CleanupChoices, UpdateRuntimeConfig(c)
        PROVE  Accounts'
    BY <1>8 DEF UpdateRuntimeConfig
  <1>9. ASSUME NEW r \in Runs, FinishProcessExit(r)
        PROVE  Accounts'
    <2>1. NoExitDropped'
      BY <1>9 DEF FinishProcessExit
    <2>2. KillsServed'
      <3>1. forced' = forced /\ dispatch' = dispatch /\ proc' = proc /\ proxySeq' = proxySeq
        BY <1>9 DEF FinishProcessExit
      <3>2. CASE proxy # r
        <4>1. ~(proxySeq = r /\ state # "stopped")
          BY <1>9, <3>2 DEF FinishProcessExit, States
        <4>2. state' = state /\ \A s \in Runs \ {r} : waiter'[s] = waiter[s]
          BY <1>9, <3>2 DEF FinishProcessExit
        <4>3. QED
          BY <3>1, <4>1, <4>2
      <3>3. CASE proxy = r
        <4>1. r \in forced => state' = "stopped"
          BY <1>9, <3>3 DEF FinishProcessExit, ShouldCleanup
        <4>2. proxySeq = r /\ \A s \in Runs \ {r} : waiter'[s] = waiter[s]
          BY <1>9, <3>3 DEF FinishProcessExit
        <4>3. QED
          BY <3>1, <4>1, <4>2
      <3>4. QED
        BY <3>2, <3>3
    <2>3. WaitersHaveCause'
      BY <1>9 DEF FinishProcessExit
    <2>4. QED
      BY <2>1, <2>2, <2>3
  <1>10. ASSUME NEW r \in Runs, NEW ok \in BOOLEAN, SpawnCleanup(r, ok)
        PROVE  Accounts'
    BY <1>10 DEF SpawnCleanup
  <1>11. ASSUME NEW r \in Runs, PublishCleanup(r)
        PROVE  Accounts'
    BY <1>11 DEF PublishCleanup
  <1>12. ASSUME NEW r \in Runs, CleanupWaited(r)
        PROVE  Accounts'
    BY <1>12 DEF CleanupWaited
  <1>13. ASSUME NEW r \in Runs, FinishCleanupExit(r)
        PROVE  Accounts'
    BY <1>13 DEF FinishCleanupExit, StillCleaning, CodeAfterCleanup
  <1>14. ASSUME NEW r \in Runs, SendExited(r)
        PROVE  Accounts'
    <2>1. /\ waiter[r] = "reporting" /\ waiter'[r] = "done" /\ report'[r] # "none"
          /\ \A s \in Runs \ {r} : waiter'[s] = waiter[s] /\ report'[s] = report[s]
          /\ UNCHANGED <<shut, forced, proc, dispatch, proxySeq, state, cleanup>>
      BY <1>14 DEF SendExited
    <2>2. NoExitDropped'
      BY <2>1
    <2>3. KillsServed' /\ WaitersHaveCause'
      BY <2>1
    <2>4. QED
      BY <2>2, <2>3
  <1>15. ASSUME NEW r \in Runs, ProgramExits(r)
        PROVE  Accounts'
    BY <1>15 DEF ProgramExits
  <1>16. ASSUME NEW r \in Runs, CleanupExits(r)
        PROVE  Accounts'
    BY <1>16 DEF CleanupExits
  <1>17. ASSUME ForwardEvent
        PROVE  Accounts'
    BY <1>17 DEF ForwardEvent
  <1>18. ASSUME DrainEvents
        PROVE  Accounts'
    BY <1>18 DEF DrainEvents
  <1>19. ASSUME Shutdown
        PROVE  Accounts'
    BY <1>19 DEF Shutdown
  <1>20. CASE UNCHANGED daemonVars
    BY <1>20 DEF daemonVars
  <1> HIDE DEF DaemonIInv, DaemonTypeOK, Bookkeeping, Accounts
  <1> QED
    BY <1>1, <1>2, <1>3, <1>4, <1>5, <1>6, <1>7, <1>8, <1>9, <1>10, <1>11, <1>12,
       <1>13, <1>14, <1>15, <1>16, <1>17, <1>18, <1>19, <1>20
    DEF DaemonNext, Request, WaiterStep, StopInstance, KillInstance, Stop, KillCodes

LEMMA AccountsInvariant == DaemonSpec => []Accounts
  <1>1. DaemonInit => Accounts
    BY RunFacts
    DEF DaemonInit, Accounts, NoExitDropped, KillsServed, WaitersHaveCause
  <1>2. DaemonIInv /\ DaemonTypeOK' /\ Accounts /\ [DaemonNext]_daemonVars => Accounts'
    BY AccountsStep
  <1>3. QED
    BY <1>1, <1>2, DaemonInvariant, DaemonTypes, PTL DEF DaemonSpec

\* The guards of the waiter's steps (WaiterStep), case by case.
WaiterCanStep(r) ==
    \/ waiter[r] = "waiting" /\ proc[r] = "dead"
    \/ waiter[r] \in {"cleaning", "spawned", "cleaned", "reporting"}
    \/ waiter[r] = "running" /\ cleanup[r] = "dead"

\* The end of a program that is neither reported nor held up by a live cleanup
\* command is never forgotten: its waiter can go on, or is about to see a
\* killed cleanup command die.
ExitMovesOn ==
    ~shut => \A r \in Runs : proc[r] = "dead" =>
        \/ report[r] # "none" \/ cleanup[r] = "alive"
        \/ WaiterCanStep(r) \/ cleanup[r] = "killed"

\* A run that was killed and is not over has its kill signal pending, a killed
\* program about to die, or a waiter that can go on: it waits for nothing that
\* need not happen, least of all a live program or a cleanup command.
KillMovesOn ==
    \A r \in forced :
        \/ state = "stopped" \/ proxySeq # r
        \/ dispatch # Idle \/ proc[r] = "killed" \/ WaiterCanStep(r)

\* Until the daemon shuts down, no end of a program is dropped on its way to
\* the controller (finishProcessExit, runCleanupCommand, sendRuntimeEvent).
THEOREM ExitsMoveOn == DaemonSpec => []ExitMovesOn
  <1>1. DaemonIInv /\ Accounts => ExitMovesOn
    BY RunFacts
    DEF DaemonIInv, DaemonTypeOK, Bookkeeping, Births, Waiters, RunOrNone, Accounts,
        NoExitDropped, WaitersHaveCause, ExitMovesOn, WaiterCanStep, ProcStates, WaiterStates, Up
  <1>2. QED
    BY <1>1, DaemonInvariant, AccountsInvariant, PTL

\* A kill of the attached program is served: the signal is sent to the program
\* itself, and the run ends with it.
THEOREM KillsMoveOn == DaemonSpec => [](KillsServed /\ KillMovesOn)
  <1>1. DaemonIInv /\ Accounts => KillsServed /\ KillMovesOn
    BY RunFacts
    DEF DaemonIInv, DaemonTypeOK, Accounts, KillsServed, WaitersHaveCause, KillMovesOn,
        WaiterCanStep, ProcStates, Idle
  <1>2. QED
    BY <1>1, DaemonInvariant, AccountsInvariant, PTL

-----------------------------------------------------------------------------
(* Refinement: every step of the instance is a step of InstanceRuns.        *)

LEMMA RefineInit == DaemonInit => Promise!RunsInit
  BY RunFacts DEF DaemonInit, Promise!RunsInit, PhaseOf, ToldOf

LEMMA RefineStep ==
  ASSUME DaemonIInv, [DaemonNext]_daemonVars, DaemonTypeOK'
  PROVE  [Promise!RunsNext]_(Promise!runVars)
  <1> USE RunFacts
      DEF DaemonIInv, DaemonTypeOK, Bookkeeping, Attachment, Births, Waiters,
          CleanupPhases,
          Up, waiterVars, controlVars, channelOnly, histories, PhaseOf, ToldOf, RunOrNone,
          Promise!runVars, Promise!RunsNext
  <1>1. ASSUME NEW c \in CleanupChoices, NEW ok \in BOOLEAN, StartInstance(c, ok)
        PROVE  [Promise!RunsNext]_(Promise!runVars)
    <2>1. CASE ~ok
      BY <1>1, <2>1 DEF StartInstance, CanStart
    <2>2. CASE ok
      <3>1. proxySeq' = proxySeq + 1 /\ proxySeq' \in Runs /\ proxy = NoRun /\ state = "stopped"
        BY <1>1, <2>2 DEF StartInstance, CanStart
      <3>n. PICK n \in Runs : n = proxySeq'
        BY <3>1
      <3>2. proxy' = n /\ state' = "running" /\ UNCHANGED <<asked, forced, report, snap>>
        BY <1>1, <2>2, <3>n DEF StartInstance, CanStart
      <3>3. \A s \in Runs : PhaseOf(s) = IF s < n THEN "over" ELSE "unborn"
        BY <3>n, <3>1
      <3>4. \A s \in Runs : PhaseOf(s)' = IF s = n THEN "live" ELSE PhaseOf(s)
        BY <3>n, <3>1, <3>2
      <3>5. Promise!Begin(n)
        BY <3>n, <3>1, <3>2, <3>3, <3>4 DEF Promise!Begin
      <3>6. QED
        BY <3>5
    <2>3. QED
      BY <2>1, <2>2
  <1>2. ASSUME NEW f \in BOOLEAN, NEW rc \in KillCodes, Stop(f, rc), StopWhileCleaning(f, rc)
        PROVE  [Promise!RunsNext]_(Promise!runVars)
    BY <1>2 DEF Stop, StopWhileCleaning, Marked, KillCodes, Promise!Want
  <1>3. ASSUME NEW f \in BOOLEAN, NEW rc \in KillCodes, Stop(f, rc), StopIgnored(f, rc)
        PROVE  [Promise!RunsNext]_(Promise!runVars)
    BY <1>3 DEF Stop, StopIgnored, StopsProgram, Marked, KillCodes
  <1>4. ASSUME NEW f \in BOOLEAN, NEW rc \in KillCodes, Stop(f, rc), StopProgram(f, rc)
        PROVE  [Promise!RunsNext]_(Promise!runVars)
    BY <1>4 DEF Stop, StopProgram, StopsProgram, SignalOf, KillCodes, Promise!Want
  <1>5. ASSUME SendSignal
        PROVE  [Promise!RunsNext]_(Promise!runVars)
    BY <1>5 DEF SendSignal
  <1>6. ASSUME NEW rc \in MarkCodes, MarkStopping(rc)
        PROVE  [Promise!RunsNext]_(Promise!runVars)
    BY <1>6 DEF MarkStopping, MarkedStopping, Marked, RunAsked, MarkCodes, Promise!Want
  <1>7. ASSUME NEW rc \in MarkCodes, MarkRuntimeCode(rc)
        PROVE  [Promise!RunsNext]_(Promise!runVars)
    BY <1>7 DEF MarkRuntimeCode, Marked, RunAsked, MarkCodes, Promise!Want
  <1>8. ASSUME NEW c \in CleanupChoices, UpdateRuntimeConfig(c)
        PROVE  [Promise!RunsNext]_(Promise!runVars)
    BY <1>8 DEF UpdateRuntimeConfig
  <1>9. ASSUME NEW r \in Runs, FinishProcessExit(r)
        PROVE  [Promise!RunsNext]_(Promise!runVars)
    <2>1. CASE proxy # r
      BY <1>9, <2>1 DEF FinishProcessExit
    <2>2. CASE proxy = r
      <3>1. /\ proxySeq = r /\ proxy' = NoRun /\ report[r] = "none"
            /\ UNCHANGED <<proxySeq, asked, forced, report>>
            /\ state' \in {"cleaning", "stopped"}
            /\ \A s \in Runs \ {r} : snap'[s] = snap[s]
        BY <1>9, <2>2 DEF FinishProcessExit
      <3>2. state' = "cleaning" => r \notin forced
        BY <1>9, <2>2 DEF FinishProcessExit, ShouldCleanup, Kills
      <3>3. PhaseOf(r) = "live"
        BY <2>2, <3>1
      <3>4. \A s \in Runs : PhaseOf(s)' = IF s # r THEN PhaseOf(s)
                                        ELSE IF state' = "cleaning" THEN "cleanup" ELSE "over"
        BY <2>2, <3>1
      <3>5. Promise!End(r)
        <4>1. PICK p \in {"cleanup", "over"} :
                p = IF state' = "cleaning" THEN "cleanup" ELSE "over"
          OBVIOUS
        <4>2. p = "cleanup" => r \notin forced
          BY <3>2, <4>1
        <4>3. \A s \in Runs : PhaseOf(s)' = IF s = r THEN p ELSE PhaseOf(s)
          BY <3>4, <4>1
        <4>4. \A s \in Runs : ToldOf(s)' = ToldOf(s)
          BY <3>1
        <4> HIDE DEF PhaseOf, ToldOf
        <4>5. [s \in Runs |-> PhaseOf(s)'] = [[s \in Runs |-> PhaseOf(s)] EXCEPT ![r] = p]
          BY <4>3
        <4>6. [s \in Runs |-> ToldOf(s)'] = [s \in Runs |-> ToldOf(s)]
          BY <4>4
        <4>7. QED
          BY <3>1, <3>3, <4>2, <4>5, <4>6 DEF Promise!End
      <3>6. QED
        BY <3>5
    <2>3. QED
      BY <2>1, <2>2
  <1>10. ASSUME NEW r \in Runs, NEW ok \in BOOLEAN, SpawnCleanup(r, ok)
        PROVE  [Promise!RunsNext]_(Promise!runVars)
    BY <1>10 DEF SpawnCleanup
  <1>11. ASSUME NEW r \in Runs, PublishCleanup(r)
        PROVE  [Promise!RunsNext]_(Promise!runVars)
    BY <1>11 DEF PublishCleanup
  <1>12. ASSUME NEW r \in Runs, CleanupWaited(r)
        PROVE  [Promise!RunsNext]_(Promise!runVars)
    BY <1>12 DEF CleanupWaited
  <1>13. ASSUME NEW r \in Runs, FinishCleanupExit(r)
        PROVE  [Promise!RunsNext]_(Promise!runVars)
    <2>1. CASE proxySeq # r \/ state # "cleaning"
      BY <1>13, <2>1 DEF FinishCleanupExit, StillCleaning, CodeAfterCleanup
    <2>2. CASE proxySeq = r /\ state = "cleaning"
      <3>1. /\ proxy = NoRun /\ state' = "stopped" /\ report[r] = "none"
            /\ UNCHANGED <<proxy, proxySeq, asked, forced, report>>
            /\ \A s \in Runs \ {r} : snap'[s] = snap[s]
        BY <1>13, <2>2 DEF FinishCleanupExit, StillCleaning, CodeAfterCleanup
      <3>2. \A s \in Runs : PhaseOf(s)' = IF s = r THEN "over" ELSE PhaseOf(s)
        BY <2>2, <3>1
      <3>3. PhaseOf(r) = "cleanup"
        BY <2>2, <3>1
      <3>4. Promise!EndCleanup(r)
        BY <3>1, <3>2, <3>3 DEF Promise!EndCleanup
      <3>5. QED
        BY <3>4
    <2>3. QED
      BY <2>1, <2>2
  <1>14. ASSUME NEW r \in Runs, SendExited(r)
        PROVE  [Promise!RunsNext]_(Promise!runVars)
    <2>1. /\ waiter[r] = "reporting" /\ report[r] = "none" /\ report'[r] # "none"
          /\ \A s \in Runs \ {r} : report'[s] = report[s]
          /\ UNCHANGED <<proxy, proxySeq, state, snap, asked, forced>>
      BY ZenonT(40), <1>14 DEF SendExited
    <2>2. r <= proxySeq /\ proxy # r /\ ~(proxySeq = r /\ state = "cleaning")
      BY <2>1
    <2>3. PhaseOf(r) = "over" /\ \A s \in Runs : PhaseOf(s)' = PhaseOf(s)
      BY <2>1, <2>2
    <2>4. snap[r] = "unexpected_exit" => r \notin asked
      BY <2>1 DEF Causes, UnexpectedMeansUnasked
    <2>5. \A s \in Runs : ToldOf(s)' = IF s # r THEN ToldOf(s)
                                     ELSE IF snap[r] = "unexpected_exit" THEN "unexpected" ELSE "expected"
      BY <2>1
    <2>6. Promise!Tell(r)
      <3>1. PICK t \in {"expected", "unexpected"} :
              t = IF snap[r] = "unexpected_exit" THEN "unexpected" ELSE "expected"
        OBVIOUS
      <3>2. /\ t = "unexpected" => r \notin asked
            /\ [s \in Runs |-> ToldOf(s)'] = [[s \in Runs |-> ToldOf(s)] EXCEPT ![r] = t]
        <4>1. \A s \in Runs : ToldOf(s)' = IF s = r THEN t ELSE ToldOf(s)
          BY <2>5, <3>1
        <4> HIDE DEF ToldOf
        <4>2. QED
          BY <2>4, <3>1, <4>1
      <3>3. /\ [s \in Runs |-> PhaseOf(s)][r] = "over" /\ [s \in Runs |-> ToldOf(s)][r] = "none"
            /\ [s \in Runs |-> PhaseOf(s)'] = [s \in Runs |-> PhaseOf(s)]
        BY <2>1, <2>3
      <3>4. QED
        BY <2>1, <3>2, <3>3 DEF Promise!Tell
    <2>7. QED
      BY <2>6
  <1>15. ASSUME NEW r \in Runs, ProgramExits(r)
        PROVE  [Promise!RunsNext]_(Promise!runVars)
    BY <1>15 DEF ProgramExits
  <1>16. ASSUME NEW r \in Runs, CleanupExits(r)
        PROVE  [Promise!RunsNext]_(Promise!runVars)
    BY <1>16 DEF CleanupExits
  <1>17. ASSUME ForwardEvent
        PROVE  [Promise!RunsNext]_(Promise!runVars)
    <2>1. Head(eventCh) \in Event /\ Head(eventCh) = eventCh[1] /\ 1 \in 1 .. Len(eventCh)
      BY <1>17, QueueFacts DEF ForwardEvent
    <2>2. Head(eventCh).run \in Runs /\ report[Head(eventCh).run] # "none"
      BY <2>1, EventFacts DEF QueueReported
    <2>3. \A s \in Runs : (report'[s] = "none") <=> (report[s] = "none")
      BY <1>17, <2>2 DEF ForwardEvent
    <2>4. UNCHANGED <<proxy, proxySeq, state, snap, asked, forced>>
      BY <1>17 DEF ForwardEvent
    <2>5. QED
      BY <2>3, <2>4
  <1>18. ASSUME DrainEvents
        PROVE  [Promise!RunsNext]_(Promise!runVars)
    BY <1>18 DEF DrainEvents
  <1>19. ASSUME Shutdown
        PROVE  [Promise!RunsNext]_(Promise!runVars)
    BY ZenonT(40), <1>19 DEF Shutdown, Promise!End, Promise!EndCleanup
  <1>20. CASE UNCHANGED daemonVars
    BY <1>20 DEF daemonVars
  <1> HIDE DEF DaemonIInv, DaemonTypeOK, Bookkeeping, Promise!runVars, Promise!RunsNext
  <1> QED
    BY <1>1, <1>2, <1>3, <1>4, <1>5, <1>6, <1>7, <1>8, <1>9, <1>10, <1>11, <1>12,
       <1>13, <1>14, <1>15, <1>16, <1>17, <1>18, <1>19, <1>20
    DEF DaemonNext, Request, WaiterStep, StopInstance, KillInstance, Stop, KillCodes

\* The daemon's instance implements InstanceRuns: its runs follow one another, a
\* killed run is not cleaned up after, and each end is told at most once and
\* truthfully.
THEOREM DaemonKeepsPromise == DaemonSpec => KeepsPromise
  <1>1. DaemonIInv /\ DaemonTypeOK' /\ [DaemonNext]_daemonVars
            => [Promise!RunsNext]_(Promise!runVars)
    BY RefineStep
  <1>2. QED
    BY <1>1, RefineInit, DaemonInvariant, DaemonTypes, PTL
    DEF DaemonSpec, KeepsPromise, Promise!RunsSpec

=============================================================================
