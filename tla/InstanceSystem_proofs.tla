----------------------- MODULE InstanceSystem_proofs -----------------------
(***************************************************************************)
(* Proofs about InstanceSystem.  Of the controller's side: its inductive   *)
(* invariant, for any number of goroutines, requests, controller restarts  *)
(* and late answers, and the finality of a STOP while the controller       *)
(* lives.  Of the whole: every step of the system is a step of the daemon, *)
(* which therefore keeps its promise, and an invariant of the link between *)
(* the two that no program is lost or imagined.                            *)
(***************************************************************************)
EXTENDS InstanceSystem, DaemonInstance_proofs

\* The lists of requests that goroutines are given are lists of requests.
LEMMA CallFacts ==
    /\ <<>> \in Seq(Call)
    /\ AfterCancelledStart \in Seq(Call) /\ AfterCancelledStart # <<>>
    /\ \A rc \in SentCodes : ForceCall(rc) \in Seq(Call) /\ ForceCall(rc) # <<>>
    /\ \A rc \in SentCodes, stop \in BOOLEAN :
           StopCalls(stop, rc) \in Seq(Call) /\ StopCalls(stop, rc) # <<>>
    /\ \A force, stop \in BOOLEAN :
           IntentCalls(force, stop) \in Seq(Call) /\ IntentCalls(force, stop) # <<>>
    /\ \A kill \in BOOLEAN :
           RestartMark(kill) \in Seq(Call) /\ RestartMark(kill) # <<>>
    /\ \A s \in Seq(Call) : s # <<>> => Tail(s) \in Seq(Call)
<1>1. \A c \in Call : <<c>> \in Seq(Call) /\ <<c>> # <<>>
  OBVIOUS
<1>2. \A rc \in SentCodes : /\ [op |-> "kill", code |-> rc] \in Call
                               /\ [op |-> "mark", code |-> rc] \in Call
                               /\ [op |-> "stop", code |-> rc] \in Call
                               /\ [op |-> "mark_stopping", code |-> rc] \in Call
  BY DEF Call
<1>3. {"manual_kill", "manual_stop", "restarting"} \subseteq SentCodes
  BY DEF SentCodes
<1>4. \A rc \in SentCodes : ForceCall(rc) \in Seq(Call) /\ ForceCall(rc) # <<>>
  BY <1>1, <1>2 DEF ForceCall
<1>5. \A rc \in SentCodes, stop \in BOOLEAN :
          StopCalls(stop, rc) \in Seq(Call) /\ StopCalls(stop, rc) # <<>>
  BY <1>1, <1>2 DEF StopCalls
<1>0. <<>> \in Seq(Call)
  OBVIOUS
<1>6. \A s, u \in Seq(Call) : s \o u \in Seq(Call) /\ (s # <<>> => s \o u # <<>>)
  OBVIOUS
<1>7. \A force, stop \in BOOLEAN :
          IntentCalls(force, stop) \in Seq(Call) /\ IntentCalls(force, stop) # <<>>
  <2> HIDE DEF Call, ForceCall, StopCalls
  <2> QED
    BY <1>1, <1>2, <1>3, <1>4, <1>5, <1>6 DEF IntentCalls
<1>8. \A s \in Seq(Call) : s # <<>> => Tail(s) \in Seq(Call)
  OBVIOUS
<1>9. \A kill \in BOOLEAN : RestartMark(kill) \in Seq(Call) /\ RestartMark(kill) # <<>>
  <2> HIDE DEF Call, ForceCall
  <2> QED
    BY <1>0, <1>1, <1>2, <1>3, <1>4, <1>6 DEF RestartMark
<1> QED
  BY <1>3, <1>4, <1>5, <1>7, <1>8, <1>9, <1>0 DEF AfterCancelledStart

-----------------------------------------------------------------------------
(* Every action preserves the invariant.                                   *)

LEMMA InitialState == ASSUME SystemInit PROVE ControllerIInv
<1>1. ControllerTypeOK
  BY CallFacts DEF SystemInit, ControllerTypeOK, ControllerStates, ThreadStates
<1> QED
  BY <1>1 DEF SystemInit, ControllerIInv, StarterInPath, TokenHeld, CallsPending,
     ColdStart, RestartHasOwner, Nobody

\* What a step that leaves the controller alone keeps.
LEMMA ControllerUnchanged ==
    ASSUME ControllerIInv, UNCHANGED <<controllerVars, ctl>>
    PROVE  ControllerIInv'
  BY DEF ControllerIInv, ControllerTypeOK, StarterInPath, TokenHeld, CallsPending,
     ColdStart, RestartHasOwner, controllerVars

LEMMA StartPreserves ==
    ASSUME ControllerIInv, NEW t \in Threads, NEW command \in Commands, StartRequest(t, command)
    PROVE  ControllerIInv'
<1> USE DEF StartRequest, Serve, Reserve, Running, CancelRestart, Dropped
<1>1. ControllerTypeOK'
  BY CallFacts, SettingsAssumption
     DEF ControllerIInv, ControllerTypeOK, ControllerStates, ThreadStates, SentCodes
<1>2. StarterInPath'
  BY ThreadsAssumption DEF ControllerIInv, ControllerTypeOK, StarterInPath, PathHolders, Nobody
<1>3. TokenHeld'
  BY ThreadsAssumption DEF ControllerIInv, ControllerTypeOK, TokenHeld
<1>4. RestartHasOwner'
  BY ThreadsAssumption DEF ControllerIInv, ControllerTypeOK, TokenHeld, RestartHasOwner, Nobody
<1>5. CallsPending'
  BY CallFacts, SettingsAssumption
     DEF ControllerIInv, ControllerTypeOK, CallsPending, SentCodes
<1>6. ColdStart'
  BY ThreadsAssumption DEF ControllerIInv, ControllerTypeOK, ColdStart, Nobody
<1> QED
  BY <1>1, <1>2, <1>3, <1>4, <1>5, <1>6 DEF ControllerIInv

LEMMA BeginUpdatePreserves ==
    ASSUME ControllerIInv, NEW t \in Threads, BeginUpdate(t)
    PROVE  ControllerIInv'
<1> USE DEF BeginUpdate
<1>1. ControllerTypeOK'
  BY CallFacts, SettingsAssumption
     DEF ControllerIInv, ControllerTypeOK, ControllerStates, ThreadStates, SentCodes
<1>2. StarterInPath'
  BY ThreadsAssumption DEF ControllerIInv, ControllerTypeOK, StarterInPath, PathHolders, Nobody
<1>3. TokenHeld'
  BY ThreadsAssumption DEF ControllerIInv, ControllerTypeOK, TokenHeld
<1>4. RestartHasOwner'
  BY ThreadsAssumption DEF ControllerIInv, ControllerTypeOK, TokenHeld, RestartHasOwner, Nobody
<1>5. CallsPending'
  BY CallFacts, SettingsAssumption
     DEF ControllerIInv, ControllerTypeOK, CallsPending, SentCodes
<1>6. ColdStart'
  BY ThreadsAssumption DEF ControllerIInv, ControllerTypeOK, ColdStart, Nobody
<1> QED
  BY <1>1, <1>2, <1>3, <1>4, <1>5, <1>6 DEF ControllerIInv

LEMMA EndUpdatePreserves ==
    ASSUME ControllerIInv, NEW t \in Threads, NEW ok \in BOOLEAN, EndUpdate(t, ok)
    PROVE  ControllerIInv'
<1> USE DEF EndUpdate, GiveUp, StarterAfterFailure
<1>1. ControllerTypeOK'
  BY CallFacts, SettingsAssumption
     DEF ControllerIInv, ControllerTypeOK, ControllerStates, ThreadStates, SentCodes
<1>2. StarterInPath'
  BY ThreadsAssumption DEF ControllerIInv, ControllerTypeOK, StarterInPath, PathHolders, Nobody
<1>3. TokenHeld'
  BY ThreadsAssumption DEF ControllerIInv, ControllerTypeOK, TokenHeld
<1>4. RestartHasOwner'
  BY ThreadsAssumption DEF ControllerIInv, ControllerTypeOK, TokenHeld, RestartHasOwner, Nobody
<1>5. CallsPending'
  BY CallFacts, SettingsAssumption
     DEF ControllerIInv, ControllerTypeOK, CallsPending, SentCodes
<1>6. ColdStart'
  BY ThreadsAssumption DEF ControllerIInv, ControllerTypeOK, ColdStart, Nobody
<1> QED
  BY <1>1, <1>2, <1>3, <1>4, <1>5, <1>6 DEF ControllerIInv

LEMMA CallStartPreserves ==
    ASSUME ControllerIInv, NEW t \in Threads, NEW ok \in BOOLEAN, CallStart(t, ok)
    PROVE  ControllerIInv'
<1> USE DEF CallStart
<1>1. ControllerTypeOK'
  BY CallFacts, SettingsAssumption
     DEF ControllerIInv, ControllerTypeOK, ControllerStates, ThreadStates, SentCodes
<1>2. StarterInPath'
  BY ThreadsAssumption DEF ControllerIInv, ControllerTypeOK, StarterInPath, PathHolders, Nobody
<1>3. TokenHeld'
  BY ThreadsAssumption DEF ControllerIInv, ControllerTypeOK, TokenHeld
<1>4. RestartHasOwner'
  BY ThreadsAssumption DEF ControllerIInv, ControllerTypeOK, TokenHeld, RestartHasOwner, Nobody
<1>5. CallsPending'
  BY CallFacts, SettingsAssumption
     DEF ControllerIInv, ControllerTypeOK, CallsPending, SentCodes
<1>6. ColdStart'
  BY ThreadsAssumption DEF ControllerIInv, ControllerTypeOK, ColdStart, Nobody
<1> QED
  BY <1>1, <1>2, <1>3, <1>4, <1>5, <1>6 DEF ControllerIInv

LEMMA EndStartPreserves ==
    ASSUME ControllerIInv, NEW t \in Threads, EndStart(t)
    PROVE  ControllerIInv'
<1> USE DEF EndStart, GiveUp, StarterAfterFailure, MayCommit, ThenCall, AfterLock
<1>1. ControllerTypeOK'
  BY CallFacts, SettingsAssumption
     DEF ControllerIInv, ControllerTypeOK, ControllerStates, ThreadStates, SentCodes
<1>2. StarterInPath'
  BY ThreadsAssumption DEF ControllerIInv, ControllerTypeOK, StarterInPath, PathHolders, Nobody
<1>3. TokenHeld'
  BY ThreadsAssumption DEF ControllerIInv, ControllerTypeOK, TokenHeld
<1>4. RestartHasOwner'
  BY ThreadsAssumption DEF ControllerIInv, ControllerTypeOK, TokenHeld, RestartHasOwner, Nobody
<1>5. CallsPending'
  BY CallFacts, SettingsAssumption
     DEF ControllerIInv, ControllerTypeOK, CallsPending, SentCodes
<1>6. ColdStart'
  BY ThreadsAssumption DEF ControllerIInv, ControllerTypeOK, ColdStart, Nobody
<1> QED
  BY <1>1, <1>2, <1>3, <1>4, <1>5, <1>6 DEF ControllerIInv

LEMMA TimeOutPreserves ==
    ASSUME ControllerIInv, NEW t \in Threads, StartTimesOut(t)
    PROVE  ControllerIInv'
<1> USE DEF StartTimesOut, GiveUp, StarterAfterFailure
<1>1. ControllerTypeOK'
  BY CallFacts, SettingsAssumption
     DEF ControllerIInv, ControllerTypeOK, ControllerStates, ThreadStates, SentCodes
<1>2. StarterInPath'
  BY ThreadsAssumption DEF ControllerIInv, ControllerTypeOK, StarterInPath, PathHolders, Nobody
<1>3. TokenHeld'
  BY ThreadsAssumption DEF ControllerIInv, ControllerTypeOK, TokenHeld
<1>4. RestartHasOwner'
  BY ThreadsAssumption DEF ControllerIInv, ControllerTypeOK, TokenHeld, RestartHasOwner, Nobody
<1>5. CallsPending'
  BY CallFacts, SettingsAssumption
     DEF ControllerIInv, ControllerTypeOK, CallsPending, SentCodes
<1>6. ColdStart'
  BY ThreadsAssumption DEF ControllerIInv, ControllerTypeOK, ColdStart, Nobody
<1> QED
  BY <1>1, <1>2, <1>3, <1>4, <1>5, <1>6 DEF ControllerIInv

LEMMA SchedulePreserves ==
    ASSUME ControllerIInv, NEW t \in Threads, Schedule(t)
    PROVE  ControllerIInv'
<1> USE DEF Schedule, TokenShared
<1>1. ControllerTypeOK'
  <2>1. spawned' \in Nat
    BY DEF ControllerIInv, ControllerTypeOK, Schedule
  <2> QED
    BY <2>1 DEF ControllerIInv, ControllerTypeOK, ThreadStates
<1>2. StarterInPath'
  BY ThreadsAssumption DEF ControllerIInv, ControllerTypeOK, StarterInPath, PathHolders, Nobody
<1>3. TokenHeld'
  BY ThreadsAssumption DEF ControllerIInv, ControllerTypeOK, TokenHeld
<1>4. RestartHasOwner'
  BY ThreadsAssumption DEF ControllerIInv, ControllerTypeOK, TokenHeld, RestartHasOwner, Nobody
<1>5. CallsPending'
  BY CallFacts, SettingsAssumption
     DEF ControllerIInv, ControllerTypeOK, CallsPending, SentCodes
<1>6. ColdStart'
  BY ThreadsAssumption DEF ControllerIInv, ControllerTypeOK, ColdStart, Nobody
<1> QED
  BY <1>1, <1>2, <1>3, <1>4, <1>5, <1>6 DEF ControllerIInv

LEMMA TimerPreserves ==
    ASSUME ControllerIInv, NEW t \in Threads, TimerFires(t)
    PROVE  ControllerIInv'
<1> USE DEF TimerFires, StillWaiting, CancelRestart, Dropped
<1>1. ControllerTypeOK'
  BY CallFacts, SettingsAssumption
     DEF ControllerIInv, ControllerTypeOK, ControllerStates, ThreadStates, SentCodes
<1>2. StarterInPath'
  BY ThreadsAssumption DEF ControllerIInv, ControllerTypeOK, StarterInPath, PathHolders, Nobody
<1>3. TokenHeld'
  BY ThreadsAssumption DEF ControllerIInv, ControllerTypeOK, TokenHeld
<1>4. RestartHasOwner'
  BY ThreadsAssumption DEF ControllerIInv, ControllerTypeOK, TokenHeld, RestartHasOwner, Nobody
<1>5. CallsPending'
  BY CallFacts, SettingsAssumption
     DEF ControllerIInv, ControllerTypeOK, CallsPending, SentCodes
<1>6. ColdStart'
  BY ThreadsAssumption DEF ControllerIInv, ControllerTypeOK, ColdStart, Nobody
<1> QED
  BY <1>1, <1>2, <1>3, <1>4, <1>5, <1>6 DEF ControllerIInv

LEMMA StopWaitingPreserves ==
    ASSUME ControllerIInv, NEW t \in Threads, NEW force \in BOOLEAN, NEW stop \in BOOLEAN,
           Serve(t), StopWaiting(t, force),
           alt' = alt, spawned' = spawned
    PROVE  ControllerIInv'
<1> USE DEF Serve, StopWaiting, CancelRestart, Dropped, ThenCall, AfterLock
<1>1. ControllerTypeOK'
  BY CallFacts, SettingsAssumption
     DEF ControllerIInv, ControllerTypeOK, ControllerStates, ThreadStates, SentCodes
<1>2. StarterInPath'
  BY ThreadsAssumption DEF ControllerIInv, ControllerTypeOK, StarterInPath, PathHolders, Nobody
<1>3. TokenHeld'
  BY ThreadsAssumption DEF ControllerIInv, ControllerTypeOK, TokenHeld
<1>4. RestartHasOwner'
  BY ThreadsAssumption DEF ControllerIInv, ControllerTypeOK, TokenHeld, RestartHasOwner, Nobody
<1>5. CallsPending'
  BY CallFacts, SettingsAssumption
     DEF ControllerIInv, ControllerTypeOK, CallsPending, SentCodes
<1>6. ColdStart'
  BY ThreadsAssumption DEF ControllerIInv, ControllerTypeOK, ColdStart, Nobody
<1> QED
  BY <1>1, <1>2, <1>3, <1>4, <1>5, <1>6 DEF ControllerIInv

LEMMA StopRestartingPreserves ==
    ASSUME ControllerIInv, NEW t \in Threads, NEW force \in BOOLEAN, NEW stop \in BOOLEAN,
           Serve(t), StopRestarting(t, force, stop),
           alt' = alt, spawned' = spawned
    PROVE  ControllerIInv'
<1> USE DEF Serve, StopRestarting, CancelRestart, Dropped, ThenCall, AfterLock
<1>1. ControllerTypeOK'
  BY CallFacts, SettingsAssumption
     DEF ControllerIInv, ControllerTypeOK, ControllerStates, ThreadStates, SentCodes
<1>2. StarterInPath'
  BY ThreadsAssumption DEF ControllerIInv, ControllerTypeOK, StarterInPath, PathHolders, Nobody
<1>3. TokenHeld'
  BY ThreadsAssumption DEF ControllerIInv, ControllerTypeOK, TokenHeld
<1>4. RestartHasOwner'
  BY ThreadsAssumption DEF ControllerIInv, ControllerTypeOK, TokenHeld, RestartHasOwner, Nobody
<1>5. CallsPending'
  BY CallFacts, SettingsAssumption
     DEF ControllerIInv, ControllerTypeOK, CallsPending, SentCodes
<1>6. ColdStart'
  BY ThreadsAssumption DEF ControllerIInv, ControllerTypeOK, ColdStart, Nobody
<1> QED
  BY <1>1, <1>2, <1>3, <1>4, <1>5, <1>6 DEF ControllerIInv

LEMMA StopStoppingPreserves ==
    ASSUME ControllerIInv, NEW t \in Threads, NEW force \in BOOLEAN, NEW stop \in BOOLEAN,
           Serve(t), StopStopping(t, force, stop),
           alt' = alt, spawned' = spawned
    PROVE  ControllerIInv'
<1> USE DEF Serve, StopStopping, CancelRestart, Dropped, ThenCall, AfterLock
<1>1. ControllerTypeOK'
  BY CallFacts, SettingsAssumption
     DEF ControllerIInv, ControllerTypeOK, ControllerStates, ThreadStates, SentCodes
<1>2. StarterInPath'
  BY ThreadsAssumption DEF ControllerIInv, ControllerTypeOK, StarterInPath, PathHolders, Nobody
<1>3. TokenHeld'
  BY ThreadsAssumption DEF ControllerIInv, ControllerTypeOK, TokenHeld
<1>4. RestartHasOwner'
  BY ThreadsAssumption DEF ControllerIInv, ControllerTypeOK, TokenHeld, RestartHasOwner, Nobody
<1>5. CallsPending'
  BY CallFacts, SettingsAssumption
     DEF ControllerIInv, ControllerTypeOK, CallsPending, SentCodes
<1>6. ColdStart'
  BY ThreadsAssumption DEF ControllerIInv, ControllerTypeOK, ColdStart, Nobody
<1> QED
  BY <1>1, <1>2, <1>3, <1>4, <1>5, <1>6 DEF ControllerIInv

LEMMA StopRunningPreserves ==
    ASSUME ControllerIInv, NEW t \in Threads, NEW force \in BOOLEAN, NEW stop \in BOOLEAN,
           Serve(t), StopRunning(t, force, stop),
           alt' = alt, spawned' = spawned
    PROVE  ControllerIInv'
<1> USE DEF Serve, StopRunning, CancelRestart, Dropped, ThenCall, AfterLock
<1>1. ControllerTypeOK'
  BY CallFacts, SettingsAssumption
     DEF ControllerIInv, ControllerTypeOK, ControllerStates, ThreadStates, SentCodes
<1>2. StarterInPath'
  BY ThreadsAssumption DEF ControllerIInv, ControllerTypeOK, StarterInPath, PathHolders, Nobody
<1>3. TokenHeld'
  BY ThreadsAssumption DEF ControllerIInv, ControllerTypeOK, TokenHeld
<1>4. RestartHasOwner'
  BY ThreadsAssumption DEF ControllerIInv, ControllerTypeOK, TokenHeld, RestartHasOwner, Nobody
<1>5. CallsPending'
  BY CallFacts, SettingsAssumption
     DEF ControllerIInv, ControllerTypeOK, CallsPending, SentCodes
<1>6. ColdStart'
  BY ThreadsAssumption DEF ControllerIInv, ControllerTypeOK, ColdStart, Nobody
<1> QED
  BY <1>1, <1>2, <1>3, <1>4, <1>5, <1>6 DEF ControllerIInv

LEMMA StopStartingPreserves ==
    ASSUME ControllerIInv, NEW t \in Threads, NEW force \in BOOLEAN, NEW stop \in BOOLEAN,
           Serve(t), StopStarting(t),
           alt' = alt, spawned' = spawned
    PROVE  ControllerIInv'
<1> USE DEF Serve, StopStarting, CancelRestart, Dropped, ThenCall, AfterLock
<1>1. ControllerTypeOK'
  BY CallFacts, SettingsAssumption
     DEF ControllerIInv, ControllerTypeOK, ControllerStates, ThreadStates, SentCodes
<1>2. StarterInPath'
  BY ThreadsAssumption DEF ControllerIInv, ControllerTypeOK, StarterInPath, PathHolders, Nobody
<1>3. TokenHeld'
  BY ThreadsAssumption DEF ControllerIInv, ControllerTypeOK, TokenHeld
<1>4. RestartHasOwner'
  BY ThreadsAssumption DEF ControllerIInv, ControllerTypeOK, TokenHeld, RestartHasOwner, Nobody
<1>5. CallsPending'
  BY CallFacts, SettingsAssumption
     DEF ControllerIInv, ControllerTypeOK, CallsPending, SentCodes
<1>6. ColdStart'
  BY ThreadsAssumption DEF ControllerIInv, ControllerTypeOK, ColdStart, Nobody
<1> QED
  BY <1>1, <1>2, <1>3, <1>4, <1>5, <1>6 DEF ControllerIInv

LEMMA RestartStoppingPreserves ==
    ASSUME ControllerIInv, NEW t \in Threads, NEW kill \in BOOLEAN, NEW stop \in BOOLEAN,
           NEW command \in BOOLEAN, Serve(t), RestartStopping(t, kill),
           starter = Nobody, override' = command, UNCHANGED <<starter, restartCancel, alt>>
    PROVE  ControllerIInv'
<1> USE DEF Serve, RestartStopping, ThenCall
<1>1. ControllerTypeOK'
  BY CallFacts, SettingsAssumption
     DEF ControllerIInv, ControllerTypeOK, ControllerStates, ThreadStates, SentCodes
<1>2. StarterInPath'
  BY ThreadsAssumption DEF ControllerIInv, ControllerTypeOK, StarterInPath, PathHolders, Nobody
<1>3. TokenHeld'
  BY ThreadsAssumption DEF ControllerIInv, ControllerTypeOK, TokenHeld
<1>4. RestartHasOwner'
  BY ThreadsAssumption DEF ControllerIInv, ControllerTypeOK, TokenHeld, RestartHasOwner, Nobody
<1>5. CallsPending'
  BY CallFacts, SettingsAssumption
     DEF ControllerIInv, ControllerTypeOK, CallsPending, SentCodes
<1>6. ColdStart'
  BY ThreadsAssumption DEF ControllerIInv, ControllerTypeOK, ColdStart, Nobody
<1> QED
  BY <1>1, <1>2, <1>3, <1>4, <1>5, <1>6 DEF ControllerIInv

LEMMA RestartRunningPreserves ==
    ASSUME ControllerIInv, NEW t \in Threads, NEW kill \in BOOLEAN, NEW stop \in BOOLEAN,
           NEW command \in BOOLEAN, Serve(t), RestartRunning(t, kill, stop),
           starter = Nobody, override' = command, UNCHANGED <<starter, restartCancel, alt>>
    PROVE  ControllerIInv'
<1> USE DEF Serve, RestartRunning, ThenCall
<1>1. ControllerTypeOK'
  BY CallFacts, SettingsAssumption
     DEF ControllerIInv, ControllerTypeOK, ControllerStates, ThreadStates, SentCodes
<1>2. StarterInPath'
  BY ThreadsAssumption DEF ControllerIInv, ControllerTypeOK, StarterInPath, PathHolders, Nobody
<1>3. TokenHeld'
  BY ThreadsAssumption DEF ControllerIInv, ControllerTypeOK, TokenHeld
<1>4. RestartHasOwner'
  BY ThreadsAssumption DEF ControllerIInv, ControllerTypeOK, TokenHeld, RestartHasOwner, Nobody
<1>5. CallsPending'
  BY CallFacts, SettingsAssumption
     DEF ControllerIInv, ControllerTypeOK, CallsPending, SentCodes
<1>6. ColdStart'
  BY ThreadsAssumption DEF ControllerIInv, ControllerTypeOK, ColdStart, Nobody
<1> QED
  BY <1>1, <1>2, <1>3, <1>4, <1>5, <1>6 DEF ControllerIInv

LEMMA RestartStoppedPreserves ==
    ASSUME ControllerIInv, NEW t \in Threads, NEW kill \in BOOLEAN, NEW stop \in BOOLEAN,
           NEW command \in BOOLEAN, Serve(t), RestartStopped,
           starter = Nobody, override' = command, UNCHANGED <<starter, restartCancel, alt>>
    PROVE  ControllerIInv'
<1> USE DEF Serve, RestartStopped, ThenCall
<1>1. ControllerTypeOK'
  <2>1. spawned' \in Nat
    BY DEF ControllerIInv, ControllerTypeOK
  <2> QED
    BY <2>1, ThreadsAssumption DEF ControllerIInv, ControllerTypeOK, ControllerStates
<1>2. StarterInPath'
  BY ThreadsAssumption DEF ControllerIInv, ControllerTypeOK, StarterInPath, PathHolders, Nobody
<1>3. TokenHeld'
  BY ThreadsAssumption DEF ControllerIInv, ControllerTypeOK, TokenHeld
<1>4. RestartHasOwner'
  BY ThreadsAssumption DEF ControllerIInv, ControllerTypeOK, TokenHeld, RestartHasOwner, Nobody
<1>5. CallsPending'
  BY CallFacts, SettingsAssumption
     DEF ControllerIInv, ControllerTypeOK, CallsPending, SentCodes
<1>6. ColdStart'
  BY ThreadsAssumption DEF ControllerIInv, ControllerTypeOK, ColdStart, Nobody
<1> QED
  BY <1>1, <1>2, <1>3, <1>4, <1>5, <1>6 DEF ControllerIInv

LEMMA CallDaemonPreserves ==
    ASSUME ControllerIInv, NEW t \in Threads, CallDaemon(t)
    PROVE  ControllerIInv'
<1> USE DEF CallDaemon, ThenCall, AfterLock
<1>1. ControllerTypeOK'
  <2>1. todo[t] \in Seq(Call) /\ todo[t] # <<>>
    BY DEF ControllerIInv, ControllerTypeOK, CallsPending
  <2>2. Tail(todo[t]) \in Seq(Call)
    BY <2>1, CallFacts
  <2> QED
    BY <2>2 DEF ControllerIInv, ControllerTypeOK, ThreadStates
<1>2. StarterInPath'
  BY ThreadsAssumption DEF ControllerIInv, ControllerTypeOK, StarterInPath, PathHolders, Nobody
<1>3. TokenHeld'
  BY ThreadsAssumption DEF ControllerIInv, ControllerTypeOK, TokenHeld
<1>4. RestartHasOwner'
  BY ThreadsAssumption DEF ControllerIInv, ControllerTypeOK, TokenHeld, RestartHasOwner, Nobody
<1>5. CallsPending'
  BY CallFacts, SettingsAssumption
     DEF ControllerIInv, ControllerTypeOK, CallsPending, SentCodes
<1>6. ColdStart'
  BY ThreadsAssumption DEF ControllerIInv, ControllerTypeOK, ColdStart, Nobody
<1> QED
  BY <1>1, <1>2, <1>3, <1>4, <1>5, <1>6 DEF ControllerIInv

LEMMA DeliverPreserves ==
    ASSUME ControllerIInv, NEW autoRestart \in BOOLEAN, DeliverExit(autoRestart)
    PROVE  ControllerIInv'
<1> USE DEF DeliverExit, ExitIgnored
<1>1. ControllerTypeOK'
  <2>1. spawned' \in Nat
    BY DEF ControllerIInv, ControllerTypeOK
  <2> QED
    BY <2>1, ThreadsAssumption DEF ControllerIInv, ControllerTypeOK, ControllerStates
<1>2. StarterInPath'
  BY ThreadsAssumption DEF ControllerIInv, ControllerTypeOK, StarterInPath, PathHolders, Nobody
<1>3. TokenHeld'
  BY ThreadsAssumption DEF ControllerIInv, ControllerTypeOK, TokenHeld
<1>4. RestartHasOwner'
  BY ThreadsAssumption DEF ControllerIInv, ControllerTypeOK, TokenHeld, RestartHasOwner, Nobody
<1>5. CallsPending'
  BY CallFacts, SettingsAssumption
     DEF ControllerIInv, ControllerTypeOK, CallsPending, SentCodes
<1>6. ColdStart'
  BY ThreadsAssumption DEF ControllerIInv, ControllerTypeOK, ColdStart, Nobody
<1> QED
  BY <1>1, <1>2, <1>3, <1>4, <1>5, <1>6 DEF ControllerIInv

LEMMA ControllerRestartsPreserves ==
    ASSUME ControllerIInv, ControllerRestarts
    PROVE  ControllerIInv'
<1> USE DEF ControllerRestarts
<1>1. ControllerTypeOK'
  BY CallFacts, SettingsAssumption
     DEF ControllerIInv, ControllerTypeOK, ControllerStates, ThreadStates, SentCodes
<1>2. StarterInPath'
  BY ThreadsAssumption DEF ControllerIInv, ControllerTypeOK, StarterInPath, PathHolders, Nobody
<1>3. TokenHeld'
  BY ThreadsAssumption DEF ControllerIInv, ControllerTypeOK, TokenHeld
<1>4. RestartHasOwner'
  BY ThreadsAssumption DEF ControllerIInv, ControllerTypeOK, TokenHeld, RestartHasOwner, Nobody
<1>5. CallsPending'
  BY CallFacts, SettingsAssumption
     DEF ControllerIInv, ControllerTypeOK, CallsPending, SentCodes
<1>6. ColdStart'
  BY ThreadsAssumption DEF ControllerIInv, ControllerTypeOK, ColdStart, Nobody
<1> QED
  BY <1>1, <1>2, <1>3, <1>4, <1>5, <1>6 DEF ControllerIInv

LEMMA RestoreStatesPreserves ==
    ASSUME ControllerIInv, RestoreRuntimeStates
    PROVE  ControllerIInv'
<1> USE DEF RestoreRuntimeStates, RestoredState
<1>1. ControllerTypeOK'
  BY CallFacts, SettingsAssumption
     DEF ControllerIInv, ControllerTypeOK, ControllerStates, ThreadStates, SentCodes
<1>2. StarterInPath'
  BY DEF ControllerIInv, ColdStart, StarterInPath
<1>3. TokenHeld'
  BY ThreadsAssumption DEF ControllerIInv, ControllerTypeOK, TokenHeld
<1>4. RestartHasOwner'
  BY ThreadsAssumption DEF ControllerIInv, ControllerTypeOK, TokenHeld, RestartHasOwner, Nobody
<1>5. CallsPending'
  BY CallFacts, SettingsAssumption
     DEF ControllerIInv, ControllerTypeOK, CallsPending, SentCodes
<1>6. ColdStart'
  BY ThreadsAssumption DEF ControllerIInv, ControllerTypeOK, ColdStart, Nobody
<1> QED
  BY <1>1, <1>2, <1>3, <1>4, <1>5, <1>6 DEF ControllerIInv

LEMMA RestoreAutoPreserves ==
    ASSUME ControllerIInv, NEW t \in Threads, NEW autoRestart \in BOOLEAN, RestoreAutoRestarts(t, autoRestart)
    PROVE  ControllerIInv'
<1> USE DEF RestoreAutoRestarts, Dropped
<1>1. ControllerTypeOK'
  BY CallFacts, SettingsAssumption
     DEF ControllerIInv, ControllerTypeOK, ControllerStates, ThreadStates, SentCodes
<1>2. StarterInPath'
  BY ThreadsAssumption DEF ControllerIInv, ControllerTypeOK, StarterInPath, PathHolders, Nobody
<1>3. TokenHeld'
  BY ThreadsAssumption DEF ControllerIInv, ControllerTypeOK, TokenHeld
<1>4. RestartHasOwner'
  BY ThreadsAssumption DEF ControllerIInv, ControllerTypeOK, TokenHeld, RestartHasOwner, Nobody
<1>5. CallsPending'
  BY CallFacts, SettingsAssumption
     DEF ControllerIInv, ControllerTypeOK, CallsPending, SentCodes
<1>6. ColdStart'
  BY ThreadsAssumption DEF ControllerIInv, ControllerTypeOK, ColdStart, Nobody
<1> QED
  BY <1>1, <1>2, <1>3, <1>4, <1>5, <1>6 DEF ControllerIInv

LEMMA StopPreserves ==
    ASSUME ControllerIInv, NEW t \in Threads, NEW force \in BOOLEAN,
           NEW stop \in StopCommands, StopRequest(t, force, stop)
    PROVE  ControllerIInv'
<1>1. Serve(t) /\ alt' = alt /\ spawned' = spawned /\ stop \in BOOLEAN
  BY SettingsAssumption DEF StopRequest
<1>2. CASE StopWaiting(t, force)
  BY <1>1, <1>2, StopWaitingPreserves
<1>3. CASE StopRestarting(t, force, stop)
  BY <1>1, <1>3, StopRestartingPreserves
<1>4. CASE StopStopping(t, force, stop)
  BY <1>1, <1>4, StopStoppingPreserves
<1>5. CASE StopRunning(t, force, stop)
  BY <1>1, <1>5, StopRunningPreserves
<1>6. CASE StopStarting(t)
  BY <1>1, <1>6, StopStartingPreserves
<1> QED
  BY <1>2, <1>3, <1>4, <1>5, <1>6 DEF StopRequest

LEMMA RestartPreserves ==
    ASSUME ControllerIInv, NEW t \in Threads, NEW strict \in BOOLEAN,
           NEW kill \in BOOLEAN, NEW command \in Commands, NEW stop \in StopCommands,
           RestartRequest(t, strict, kill, command, stop)
    PROVE  ControllerIInv'
<1>1. /\ Serve(t) /\ starter = Nobody /\ override' = command
      /\ UNCHANGED <<starter, restartCancel, alt>>
      /\ stop \in BOOLEAN /\ command \in BOOLEAN
  BY SettingsAssumption DEF RestartRequest
<1>2. CASE RestartStopping(t, kill)
  BY <1>1, <1>2, RestartStoppingPreserves
<1>3. CASE RestartRunning(t, kill, stop)
  BY <1>1, <1>3, RestartRunningPreserves
<1>4. CASE RestartStopped
  BY <1>1, <1>4, RestartStoppedPreserves
<1> QED
  BY <1>2, <1>3, <1>4 DEF RestartRequest

LEMMA ListPreserves ==
    ASSUME ControllerIInv, ListRuntime
    PROVE  ControllerIInv'
  BY DEF ControllerIInv, ControllerTypeOK, StarterInPath, TokenHeld, CallsPending,
     ColdStart, RestartHasOwner, ListRuntime, controllerVars

LEMMA SystemStep == ASSUME ControllerIInv, [SystemNext]_systemVars PROVE ControllerIInv'
<1>1. CASE UNCHANGED systemVars
  BY <1>1, ControllerUnchanged DEF systemVars
<1>2. ASSUME NEW t \in Threads, UserRequest(t) PROVE ControllerIInv'
  BY <1>2, StartPreserves, StopPreserves, RestartPreserves DEF UserRequest
<1>3. ASSUME NEW t \in Threads, ThreadStep(t) PROVE ControllerIInv'
  BY <1>3, BeginUpdatePreserves, EndUpdatePreserves, CallStartPreserves,
     EndStartPreserves, SchedulePreserves, TimerPreserves, CallDaemonPreserves
     DEF ThreadStep
<1>4. ASSUME NEW t \in Threads, StartTimesOut(t) PROVE ControllerIInv'
  BY <1>4, TimeOutPreserves
<1>5. ASSUME NEW t \in Threads, NEW autoRestart \in AutoRestarts,
             RestoreAutoRestarts(t, autoRestart)
      PROVE  ControllerIInv'
  BY <1>5, RestoreAutoPreserves, SettingsAssumption
<1>6. CASE DaemonStep
  BY <1>6, ControllerUnchanged DEF DaemonStep
<1>7. CASE Deliver
  BY <1>7, DeliverPreserves, SettingsAssumption DEF Deliver
<1>8. CASE ControllerRestarts
  BY <1>8, ControllerRestartsPreserves
<1>9. CASE ListRuntime
  BY <1>9, ListPreserves
<1>10. CASE RestoreRuntimeStates
  BY <1>10, RestoreStatesPreserves
<1> QED
  BY <1>1, <1>2, <1>3, <1>4, <1>5, <1>6, <1>7, <1>8, <1>9, <1>10 DEF SystemNext

\* In every reachable state, for any number of goroutines, requests, restarts
\* of the controller and late answers: a reservation has its goroutine, a
\* waiting restart is owned by somebody, and tokens and call lists are in order.
THEOREM ControllerInvariant == SystemSpec => []ControllerIInv
<1>1. SystemInit => ControllerIInv
  BY InitialState
<1>2. ControllerIInv /\ [SystemNext]_systemVars => ControllerIInv'
  BY SystemStep
<1> QED
  BY <1>1, <1>2, PTL DEF SystemSpec

\* The part of the invariant a user sees: an instance that is shown as waiting
\* for its restart (process.go, scheduleAutoRestart) has not been forgotten.
THEOREM RestartsAreOwned == SystemSpec => []RestartHasOwner
<1>1. ControllerIInv => RestartHasOwner
  BY DEF ControllerIInv
<1> QED
  BY <1>1, ControllerInvariant, PTL

-----------------------------------------------------------------------------
(* The finality of a STOP, as long as the controller is not restarted.     *)

HaltInv ==
    /\ ctl = "up" /\ crashes = 0
    /\ cst = "restart_waiting" => starter = Nobody
    /\ StopCancelsRestart

LEMMA HaltStep ==
    ASSUME MaxCrashes = 0, ControllerIInv, HaltInv, [SystemNext]_systemVars
    PROVE  HaltInv'
<1> USE DEF HaltInv, StopCancelsRestart, ControllerIInv, ControllerTypeOK
<1>1. CASE UNCHANGED systemVars
  BY <1>1 DEF systemVars, controllerVars, historyVars, boundVars
<1>2. ASSUME NEW t \in Threads, NEW command \in Commands, StartRequest(t, command)
      PROVE  HaltInv'
  BY <1>2 DEF StartRequest, Serve, Reserve, CancelRestart
<1>3. ASSUME NEW t \in Threads, NEW force \in BOOLEAN, NEW stop \in StopCommands,
             StopRequest(t, force, stop)
      PROVE  HaltInv'
  BY <1>3 DEF StopRequest, Serve, StopWaiting, StopRestarting, StopStopping,
     StopRunning, StopStarting, CancelRestart
<1>4. ASSUME NEW t \in Threads, NEW strict \in BOOLEAN, NEW kill \in BOOLEAN,
             NEW command \in Commands, NEW stop \in StopCommands,
             RestartRequest(t, strict, kill, command, stop)
      PROVE  HaltInv'
  BY <1>4 DEF RestartRequest, Serve, RestartStopping, RestartRunning, RestartStopped
<1>5. ASSUME NEW t \in Threads, BeginUpdate(t) PROVE HaltInv'
  BY <1>5 DEF BeginUpdate, historyVars, boundVars
<1>6. ASSUME NEW t \in Threads, NEW ok \in BOOLEAN, EndUpdate(t, ok) PROVE HaltInv'
  BY <1>6 DEF EndUpdate, GiveUp, StarterAfterFailure, boundVars
<1>7. ASSUME NEW t \in Threads, NEW ok \in BOOLEAN, CallStart(t, ok) PROVE HaltInv'
  BY <1>7 DEF CallStart, boundVars
<1>8. ASSUME NEW t \in Threads, EndStart(t) PROVE HaltInv'
  BY <1>8, ThreadsAssumption DEF EndStart, GiveUp, StarterAfterFailure, MayCommit,
     Nobody, boundVars
<1>9. ASSUME NEW t \in Threads, StartTimesOut(t) PROVE HaltInv'
  BY <1>9 DEF StartTimesOut, GiveUp, StarterAfterFailure
<1>10. ASSUME NEW t \in Threads, Schedule(t) PROVE HaltInv'
  BY <1>10 DEF Schedule, historyVars, boundVars
<1>11. ASSUME NEW t \in Threads, TimerFires(t) PROVE HaltInv'
  BY <1>11 DEF TimerFires, StillWaiting, CancelRestart, historyVars, boundVars
<1>12. ASSUME NEW t \in Threads, CallDaemon(t) PROVE HaltInv'
  BY <1>12 DEF CallDaemon, historyVars, boundVars
<1>13. ASSUME NEW t \in Threads, NEW autoRestart \in AutoRestarts,
              RestoreAutoRestarts(t, autoRestart)
       PROVE  HaltInv'
  BY <1>13 DEF RestoreAutoRestarts
<1>14. CASE DaemonStep
  BY <1>14 DEF DaemonStep, controllerVars, boundVars
<1>15. CASE Deliver
  BY <1>15 DEF Deliver, DeliverExit, ExitIgnored, boundVars
<1>16. CASE ControllerRestarts \/ ListRuntime \/ RestoreRuntimeStates
  BY <1>16 DEF ControllerRestarts, ListRuntime, RestoreRuntimeStates
<1>17. ASSUME NEW t \in Threads, UserRequest(t) PROVE HaltInv'
  BY <1>17, <1>2, <1>3, <1>4 DEF UserRequest
<1>18. ASSUME NEW t \in Threads, ThreadStep(t) PROVE HaltInv'
  BY <1>18, <1>5, <1>6, <1>7, <1>8, <1>10, <1>11, <1>12 DEF ThreadStep
<1> QED
  BY <1>1, <1>9, <1>13, <1>14, <1>15, <1>16, <1>17, <1>18 DEF SystemNext

\* A STOP that has cancelled a waiting restart (process.go, Stop in the state
\* processStateRestartWaiting) is final until a START or a RESTART is accepted,
\* in every interleaving of goroutines, reports and late answers.  It needs the
\* controller to stay up: RestoreDaemonAutoRestarts does not know of the STOP.
THEOREM StopIsFinal ==
    ASSUME MaxCrashes = 0
    PROVE  SystemSpec => []StopCancelsRestart
<1>1. SystemInit => HaltInv
  BY DEF SystemInit, HaltInv, StopCancelsRestart
<1>2. ControllerIInv /\ HaltInv /\ [SystemNext]_systemVars => HaltInv'
  BY HaltStep
<1>3. HaltInv => StopCancelsRestart
  BY DEF HaltInv
<1> QED
  BY <1>1, <1>2, <1>3, ControllerInvariant, PTL DEF SystemSpec

-----------------------------------------------------------------------------
(* The composition serves the daemon: whatever the goroutines of the       *)
(* controller do, to the daemon it is requests that DaemonInstance allows.  *)

\* A call that waits in a goroutine carries a code the daemon accepts.
LEMMA CallsAccepted ==
    ASSUME ControllerIInv, NEW t \in Threads, pc[t] = "calling"
    PROVE  Head(todo[t]).code \in MarkCodes /\ Head(todo[t]).code \in StopCodes
<1>1. todo[t] \in Seq(Call) /\ todo[t] # <<>>
  BY DEF ControllerIInv, ControllerTypeOK, CallsPending
<1>2. Head(todo[t]) \in Call
  BY <1>1, QueueFacts
<1>3. Head(todo[t]).code \in SentCodes
  BY <1>2 DEF Call
<1> QED
  BY <1>3, SentCodesAssumption DEF SentCodes, MarkCodes

LEMMA ServesCalls ==
    ASSUME ControllerIInv, NEW t \in Threads, CallDaemon(t)
    PROVE  [DaemonNext]_daemonVars
<1> DEFINE call == Head(todo[t])
<1>1. call.code \in MarkCodes /\ call.code \in StopCodes
  BY CallsAccepted DEF CallDaemon
<1>2. \/ UNCHANGED daemonVars
      \/ MarkRuntimeCode(call.code) \/ MarkStopping(call.code)
      \/ StopInstance(call.code) \/ KillInstance(call.code)
  BY DEF CallDaemon
<1> HIDE DEF call
<1> QED
  BY <1>1, <1>2 DEF DaemonNext, Request

LEMMA ServesStarts ==
    ASSUME NEW t \in Threads, NEW ok \in BOOLEAN, CallStart(t, ok)
    PROVE  [DaemonNext]_daemonVars
<1>1. UNCHANGED daemonVars \/ StartInstance(FALSE, ok)
  BY DEF CallStart
<1> QED
  BY <1>1, NoCleanupAssumption DEF DaemonNext, Request

\* The steps of the controller that do not reach the daemon.
OwnStep ==
    \/ \E t \in Threads :
        \/ UserRequest(t) \/ BeginUpdate(t) \/ EndStart(t) \/ Schedule(t)
        \/ TimerFires(t) \/ StartTimesOut(t)
        \/ \E ok \in BOOLEAN : EndUpdate(t, ok)
        \/ \E autoRestart \in AutoRestarts : RestoreAutoRestarts(t, autoRestart)
    \/ ListRuntime
    \/ RestoreRuntimeStates

LEMMA OwnStepsAreOwn == ASSUME OwnStep PROVE UNCHANGED daemonVars
<1>1. ASSUME NEW t \in Threads, UserRequest(t) PROVE UNCHANGED daemonVars
  BY <1>1 DEF UserRequest, StartRequest, StopRequest, RestartRequest, Serve
<1>2. ASSUME NEW t \in Threads,
             BeginUpdate(t) \/ EndStart(t) \/ Schedule(t) \/ TimerFires(t) \/ StartTimesOut(t)
      PROVE  UNCHANGED daemonVars
  BY <1>2 DEF BeginUpdate, EndStart, Schedule, TimerFires, StartTimesOut
<1>3. ASSUME NEW t \in Threads, NEW ok \in BOOLEAN, EndUpdate(t, ok)
      PROVE  UNCHANGED daemonVars
  BY <1>3 DEF EndUpdate
<1>4. ASSUME NEW t \in Threads, NEW autoRestart \in AutoRestarts,
             RestoreAutoRestarts(t, autoRestart)
      PROVE  UNCHANGED daemonVars
  BY <1>4 DEF RestoreAutoRestarts
<1>5. ASSUME ListRuntime \/ RestoreRuntimeStates PROVE UNCHANGED daemonVars
  BY <1>5 DEF ListRuntime, RestoreRuntimeStates
<1> QED
  BY <1>1, <1>2, <1>3, <1>4, <1>5 DEF OwnStep

LEMMA StepSplit ==
    ASSUME SystemNext
    PROVE  \/ OwnStep
           \/ \E t \in Threads, ok \in BOOLEAN : CallStart(t, ok)
           \/ \E t \in Threads : CallDaemon(t)
           \/ DaemonStep \/ Deliver \/ ControllerRestarts
  BY DEF SystemNext, ThreadStep, OwnStep

LEMMA ServesStep ==
    ASSUME ControllerIInv, [SystemNext]_systemVars
    PROVE  [DaemonNext]_daemonVars
<1>1. CASE UNCHANGED systemVars
  BY <1>1 DEF systemVars
<1>2. CASE OwnStep
  BY <1>2, OwnStepsAreOwn
<1>3. CASE DaemonStep
  BY <1>3 DEF DaemonStep, DaemonNext, WaiterStep
<1>4. CASE Deliver
  BY <1>4 DEF Deliver, DeliverExit, DaemonNext
<1>5. CASE ControllerRestarts
  BY <1>5 DEF ControllerRestarts, DaemonNext
<1> QED
  BY <1>1, <1>2, <1>3, <1>4, <1>5, StepSplit, ServesStarts, ServesCalls

\* The daemon inside the composition is a daemon: every step of the system is
\* a step of DaemonInstance or leaves it alone, so what is proved of the daemon
\* under any requests holds under those of the controller.
THEOREM SystemServesDaemon == SystemSpec => DaemonInit /\ [][DaemonNext]_daemonVars
<1>1. SystemInit => DaemonInit
  BY DEF SystemInit
<1>2. ControllerIInv /\ [SystemNext]_systemVars => [DaemonNext]_daemonVars
  BY ServesStep
<1> QED
  BY <1>1, <1>2, ControllerInvariant, PTL DEF SystemSpec

LEMMA DaemonInvariantHere == SystemSpec => []DaemonIInv
  BY SystemServesDaemon, InvInit, InvStep, PTL

\* Whatever the controller's goroutines, its restarts and late answers do, the
\* runs of the instance follow one another and each end is told at most once
\* and truthfully.
THEOREM SystemKeepsPromise == SystemSpec => KeepsPromise
<1>1. DaemonIInv /\ DaemonIInv' /\ [DaemonNext]_daemonVars
          => [Promise!RunsNext]_(Promise!runVars)
  BY RefineStep DEF DaemonIInv
<1> QED
  BY <1>1, RefineInit, SystemServesDaemon, DaemonInvariantHere, PTL
     DEF KeepsPromise, Promise!RunsSpec

-----------------------------------------------------------------------------
(* The link: the two sides know of the same program.                       *)

\* The daemon of these instances, which have no cleanup command.
NeverCleans ==
    /\ ~cleanupArgv /\ state # "cleaning"
    /\ state = "running" => known

\* A program is attached, or the report of its exit is on its way.
Accounted ==
    \/ proxy # NoRun
    \/ \E r \in Runs : waiter[r] = "reporting"
    \/ eventCh # <<>>

\* A goroutine has just started the program, or is about to kill it.
InHand ==
    \/ \E t \in Threads : pc[t] = "started"
    \/ \E t \in Threads : pc[t] = "calling" /\ Head(todo[t]).op = "kill"

\* What the controller has read of the daemon, at its start and in the answer of
\* a start, is as true as what it shows.
NothingImagined ==
    ~deaf =>
        /\ Running => Accounted
        /\ \A t \in Threads : pc[t] = "started" /\ starter = t => Accounted
        /\ (ctl = "listed" /\ listed.state \in {"running", "stopping", "cleaning"})
               => Accounted

NothingLost ==
    /\ ~astray /\ state = "running" /\ Serving => Running \/ InHand
    /\ ctl = "listed" /\ state = "running" => listed.state = "running"

LinkIInv == NeverCleans /\ NothingImagined /\ NothingLost

LEMMA LinkInit == SystemInit => LinkIInv
  BY ThreadsAssumption
     DEF SystemInit, DaemonInit, LinkIInv, NeverCleans, NothingImagined, NothingLost,
         Running, Serving, NotListed, Nobody

\* What the steps of the controller alone can change.
LEMMA OwnFrame ==
    ASSUME LinkIInv, UNCHANGED daemonVars
    PROVE  NeverCleans' /\ (Accounted' <=> Accounted) /\ state' = state
  BY DEF LinkIInv, NeverCleans, Accounted, daemonVars

LEMMA OwnKeeps ==
    ASSUME LinkIInv, UNCHANGED daemonVars,
           astray => astray', deaf => deaf',
           Running' => Running \/ \E t \in Threads : pc[t] = "started" /\ starter = t,
           \A t \in Threads : pc'[t] = "started" /\ starter' = t
                               => pc[t] = "started" /\ starter = t,
           Running \/ InHand => astray' \/ Running' \/ InHand',
           Serving' => Serving,
           ctl' = "listed" => ctl = "listed" /\ listed' = listed
    PROVE  LinkIInv'
  BY OwnFrame DEF LinkIInv, NothingImagined, NothingLost

LEMMA StartKeepsLink ==
    ASSUME ControllerIInv, LinkIInv, NEW t \in Threads, NEW command \in Commands,
           StartRequest(t, command)
    PROVE  LinkIInv'
<1> USE DEF StartRequest, Serve, Reserve, CancelRestart, Dropped, ControllerIInv,
            ControllerTypeOK
<1>1. UNCHANGED <<daemonVars, ctl, listed, astray, deaf, todo>>
  BY DEF linkHistory
<1>2. Running' <=> Running
  BY DEF Running
<1>3. \A u \in Threads : pc'[u] = "started" => pc[u] = "started" /\ starter' \in {starter, t} /\ u # t
  OBVIOUS
<1>4. \A u \in Threads : pc[u] \in {"started", "calling"} => pc'[u] = pc[u]
  OBVIOUS
<1> QED
  BY <1>1, <1>2, <1>3, <1>4, OwnKeeps DEF InHand, Serving

LEMMA StopKeepsLink ==
    ASSUME ControllerIInv, LinkIInv, NEW t \in Threads, NEW force \in BOOLEAN,
           NEW stop \in StopCommands, StopRequest(t, force, stop)
    PROVE  LinkIInv'
<1> USE DEF StopRequest, Serve, CancelRestart, Dropped, ControllerIInv, ControllerTypeOK,
            ThenCall, StopWaiting, StopRestarting, StopStopping, StopRunning, StopStarting
<1>0. pc[t] = "idle" /\ \A u \in Threads \ {t} : todo'[u] = todo[u]
  OBVIOUS
<1>1. UNCHANGED <<daemonVars, ctl, listed, astray, deaf>>
  BY DEF linkHistory
<1>2. Running' <=> Running
  BY DEF Running
<1>3. /\ pc'[t] \in {"idle", "calling"}
      /\ \A u \in Threads \ {t} : pc'[u] \in {pc[u], "idle"}
      /\ starter' \in {starter, Nobody}
  BY DEF AfterLock
<1>4. \A u \in Threads : pc[u] \in {"started", "calling"} => pc'[u] = pc[u]
  OBVIOUS
<1> QED
  <2> HIDE DEF StopRequest, Serve, ControllerIInv
  <2>1. InHand => InHand'
    BY <1>0, <1>4 DEF InHand
  <2> QED
    BY <1>0, <1>1, <1>2, <1>3, <2>1, OwnKeeps, ThreadsAssumption DEF Serving, Nobody

LEMMA RestartKeepsLink ==
    ASSUME ControllerIInv, LinkIInv, NEW t \in Threads, NEW strict \in BOOLEAN,
           NEW kill \in BOOLEAN, NEW command \in Commands, NEW stop \in StopCommands,
           RestartRequest(t, strict, kill, command, stop)
    PROVE  LinkIInv'
<1> USE DEF RestartRequest, Serve, ControllerIInv, ControllerTypeOK,
            ThenCall, RestartStopping, RestartRunning, RestartStopped
<1>0. pc[t] = "idle" /\ \A u \in Threads \ {t} : todo'[u] = todo[u] /\ pc'[u] = pc[u]
  OBVIOUS
<1>1. UNCHANGED <<daemonVars, ctl, listed, astray, deaf, starter>>
  BY DEF linkHistory
<1>2. Running' <=> Running
  BY DEF Running
<1>3. pc'[t] \in {"idle", "calling"}
  OBVIOUS
<1> QED
  <2> HIDE DEF RestartRequest, Serve, ControllerIInv
  <2>1. InHand => InHand'
    BY <1>0 DEF InHand
  <2> QED
    BY <1>0, <1>1, <1>2, <1>3, <2>1, OwnKeeps DEF Serving

\* A failed start is given up: it was not running.
LEMMA GiveUpKeepsLink ==
    ASSUME ControllerIInv, LinkIInv, NEW t \in Threads, GiveUp(t),
           pc[t] \in PathHolders, UNCHANGED <<daemonVars, ctl, listed>>,
           astray => astray', deaf => deaf', pc[t] = "started" => astray'
    PROVE  LinkIInv'
<1> USE DEF GiveUp, StarterAfterFailure, ControllerIInv, ControllerTypeOK
<1>0. \A u \in Threads \ {t} : todo'[u] = todo[u] /\ pc'[u] = pc[u]
  OBVIOUS
<1>1. pc'[t] = "idle" /\ starter' \in {starter, Nobody} /\ pc[t] # "calling"
  BY DEF PathHolders
<1>2. Running' <=> Running
  BY ThreadsAssumption DEF Running, StarterInPath, Nobody
<1>3. InHand => astray' \/ InHand'
  BY <1>0, <1>1 DEF InHand
<1> QED
  <2> HIDE DEF GiveUp, ControllerIInv
  <2> QED
    BY <1>0, <1>1, <1>2, <1>3, OwnKeeps, ThreadsAssumption DEF Serving, Nobody

\* A goroutine that goes on without having started, or stopped, anything.
LEMMA PassKeepsLink ==
    ASSUME ControllerIInv, LinkIInv, NEW t \in Threads,
           pc[t] \notin {"started", "calling"}, pc'[t] # "started",
           \A u \in Threads \ {t} : pc'[u] \in {pc[u], IF pc[u] = "waiting" THEN "idle" ELSE pc[u]},
           \A u \in Threads \ {t} : todo'[u] = todo[u],
           starter' \in {starter, Nobody, t}, Running' => Running, Running => astray' \/ Running',
           UNCHANGED daemonVars, astray => astray', deaf => deaf',
           Serving' => Serving, ctl' = "listed" => ctl = "listed" /\ listed' = listed
    PROVE  LinkIInv'
<1>1. InHand => InHand'
  BY DEF InHand
<1>2. \A u \in Threads : pc'[u] = "started" => pc[u] = "started" /\ u # t
  OBVIOUS
<1> QED
  BY <1>1, <1>2, OwnKeeps, ThreadsAssumption DEF Nobody

LEMMA UpdateKeepsLink ==
    ASSUME ControllerIInv, LinkIInv, NEW t \in Threads, NEW ok \in BOOLEAN, EndUpdate(t, ok)
    PROVE  LinkIInv'
<1>1. pc[t] = "updating" /\ UNCHANGED <<daemonVars, ctl, listed, astray, deaf>>
  BY DEF EndUpdate, linkHistory
<1>2. CASE GiveUp(t)
  BY <1>1, <1>2, GiveUpKeepsLink DEF PathHolders
<1>3. CASE ~GiveUp(t)
  <2>1. pc' = [pc EXCEPT ![t] = "ready"] /\ UNCHANGED <<cst, starter, todo>>
    BY <1>3 DEF EndUpdate
  <2>2. pc'[t] # "started" /\ \A u \in Threads \ {t} : pc'[u] = pc[u]
    BY <2>1 DEF ControllerIInv, ControllerTypeOK
  <2> QED
    BY <1>1, <2>1, <2>2, PassKeepsLink DEF Running, Serving
<1> QED
  BY <1>2, <1>3

LEMMA PassesKeepLink ==
    ASSUME ControllerIInv, LinkIInv, NEW t \in Threads,
           BeginUpdate(t) \/ Schedule(t) \/ TimerFires(t)
    PROVE  LinkIInv'
<1> USE DEF ControllerIInv, ControllerTypeOK, Running, Serving, historyVars, linkHistory
<1>1. CASE BeginUpdate(t)
  BY <1>1, PassKeepsLink DEF BeginUpdate
<1>2. CASE Schedule(t)
  BY <1>2, PassKeepsLink DEF Schedule, TokenShared
<1>3. CASE TimerFires(t)
  BY <1>3, PassKeepsLink DEF TimerFires, StillWaiting, CancelRestart, Dropped
<1> QED
  BY <1>1, <1>2, <1>3

LEMMA EndStartKeepsLink ==
    ASSUME ControllerIInv, LinkIInv, NEW t \in Threads, EndStart(t)
    PROVE  LinkIInv'
<1>1. UNCHANGED <<daemonVars, ctl, listed, astray, deaf>>
  BY DEF EndStart, linkHistory
<1>2. CASE pc[t] = "refused"
  BY <1>1, <1>2, GiveUpKeepsLink DEF EndStart, PathHolders
<1>3. CASE pc[t] = "started" /\ MayCommit(t)
  <2>1. /\ starter = t /\ starter' = Nobody /\ cst' = "running"
        /\ \A u \in Threads \ {t} : pc'[u] = pc[u]
    BY <1>3 DEF EndStart, MayCommit, ControllerIInv, ControllerTypeOK
  <2> QED
    BY <1>1, <1>3, <2>1, OwnKeeps, ThreadsAssumption DEF Running, Serving, Nobody
<1>4. CASE pc[t] = "started" /\ ~MayCommit(t)
  <2>1. /\ pc'[t] = "calling" /\ Head(todo'[t]).op = "kill"
        /\ UNCHANGED <<cst, starter>> /\ \A u \in Threads \ {t} : pc'[u] = pc[u]
    BY <1>4 DEF EndStart, ControllerIInv, ControllerTypeOK, ThenCall, AfterLock,
       AfterCancelledStart, ForceCall
  <2>2. InHand'
    BY <2>1 DEF InHand
  <2> QED
    BY <1>1, <2>1, <2>2, OwnKeeps DEF Running, Serving
<1> QED
  BY <1>2, <1>3, <1>4 DEF EndStart

LEMMA TimeOutKeepsLink ==
    ASSUME ControllerIInv, LinkIInv, NEW t \in Threads, StartTimesOut(t)
    PROVE  LinkIInv'
  BY GiveUpKeepsLink DEF StartTimesOut, PathHolders

LEMMA RestoreAutoKeepsLink ==
    ASSUME ControllerIInv, LinkIInv, NEW t \in Threads, NEW autoRestart \in BOOLEAN,
           RestoreAutoRestarts(t, autoRestart)
    PROVE  LinkIInv'
<1>1. pc[t] = "idle" /\ Serving /\ UNCHANGED <<daemonVars, todo, starter>>
  BY DEF RestoreAutoRestarts, Serving
<1>2. /\ pc'[t] # "started"
      /\ \A u \in Threads \ {t} :
             pc'[u] \in {pc[u], IF pc[u] = "waiting" THEN "idle" ELSE pc[u]}
  BY DEF RestoreAutoRestarts, Dropped, ControllerIInv, ControllerTypeOK
<1>3. /\ Running' => Running
      /\ Running => astray' \/ Running'
      /\ astray => astray'
      /\ deaf => deaf'
      /\ ctl' = "up"
  BY DEF RestoreAutoRestarts, Running
<1> QED
  BY <1>1, <1>2, <1>3, PassKeepsLink

LEMMA ListKeepsLink ==
    ASSUME DaemonIInv, ControllerIInv, LinkIInv, ListRuntime
    PROVE  LinkIInv'
<1>1. state \in {"running", "stopping"} => proxy # NoRun
  BY DEF DaemonIInv, Bookkeeping, Attachment
<1>2. NeverCleans' /\ (Accounted' <=> Accounted) /\ state' = state
  BY OwnFrame DEF ListRuntime
<1>3. \A t \in Threads : pc[t] = "idle"
  BY DEF ControllerIInv, ColdStart, ListRuntime
<1>4. UNCHANGED <<cst, pc, astray, deaf>> /\ ctl' = "listed" /\ ~Running
  BY DEF ControllerIInv, ColdStart, Running, ListRuntime, controllerVars, historyVars,
         linkHistory
<1>5. listed'.state \in {"running", "stopping", "cleaning"} => proxy # NoRun
  BY <1>1 DEF ListRuntime, NotListed, LinkIInv, NeverCleans
<1>6. NothingImagined'
  BY <1>2, <1>3, <1>4, <1>5 DEF NothingImagined, Running, Accounted
<1>7. NothingLost'
  BY <1>2, <1>4 DEF NothingLost, Serving, LinkIInv, NeverCleans, ListRuntime
<1> QED
  BY <1>2, <1>6, <1>7 DEF LinkIInv

LEMMA RestoreKeepsLink ==
    ASSUME ControllerIInv, LinkIInv, RestoreRuntimeStates
    PROVE  LinkIInv'
<1>2. NeverCleans' /\ (Accounted' <=> Accounted) /\ state' = state
  BY OwnFrame DEF RestoreRuntimeStates
<1>3. \A t \in Threads : pc[t] = "idle"
  BY DEF ControllerIInv, ColdStart, RestoreRuntimeStates
<1>4. /\ UNCHANGED <<pc, astray, deaf, listed>> /\ ctl = "listed" /\ ctl' = "restored"
      /\ Running' => listed.state \in {"running", "stopping", "cleaning"}
      /\ listed.state = "running" => Running'
  BY DEF RestoreRuntimeStates, RestoredState, Running, historyVars, linkHistory
<1> QED
  BY <1>2, <1>3, <1>4 DEF LinkIInv, NothingImagined, NothingLost

LEMMA OwnStepKeepsLink ==
    ASSUME DaemonIInv, ControllerIInv, LinkIInv, OwnStep
    PROVE  LinkIInv'
<1>1. ASSUME NEW t \in Threads, UserRequest(t) PROVE LinkIInv'
  BY <1>1, StartKeepsLink, StopKeepsLink, RestartKeepsLink DEF UserRequest
<1>2. ASSUME NEW t \in Threads, NEW autoRestart \in AutoRestarts,
             RestoreAutoRestarts(t, autoRestart)
      PROVE  LinkIInv'
  BY <1>2, RestoreAutoKeepsLink, SettingsAssumption
<1> QED
  BY <1>1, <1>2, UpdateKeepsLink, PassesKeepLink, EndStartKeepsLink, TimeOutKeepsLink,
     ListKeepsLink, RestoreKeepsLink DEF OwnStep

\* What is attached while the state says so (the daemon's own invariant).
LEMMA AttachedFacts ==
    ASSUME DaemonIInv
    PROVE  /\ state \in {"running", "stopping"} => proxy # NoRun
           /\ proxy # NoRun => /\ state \in {"running", "stopping"}
                               /\ proxy = proxySeq /\ waiter[proxy] = "waiting"
           /\ known \in BOOLEAN
  BY DEF DaemonIInv, DaemonTypeOK, Bookkeeping, Attachment

\* A start that the daemon has served has a program, whoever hears of it.
LEMMA CallStartKeepsLink ==
    ASSUME DaemonIInv, ControllerIInv, LinkIInv, NEW t \in Threads, NEW ok \in BOOLEAN,
           CallStart(t, ok)
    PROVE  LinkIInv'
<1>1. /\ UNCHANGED <<ctl, listed, astray, deaf, cst, starter, todo>>
      /\ pc[t] = "ready" /\ pc'[t] = IF ok THEN "started" ELSE "refused"
      /\ \A u \in Threads \ {t} : pc'[u] = pc[u]
  BY DEF CallStart, linkHistory, ControllerIInv, ControllerTypeOK
<1>2. CASE UNCHANGED daemonVars
  <2>1. NeverCleans' /\ (Accounted' <=> Accounted) /\ state' = state
    BY <1>2, OwnFrame
  <2>2. pc'[t] = "started" => Accounted
    BY <1>1, <1>2, AttachedFacts DEF CallStart, Accounted, CanStart, StartInstance, daemonVars
  <2>3. InHand => InHand'
    BY <1>1 DEF InHand
  <2> QED
    BY <1>1, <2>1, <2>2, <2>3
       DEF LinkIInv, NothingImagined, NothingLost, Running, Serving
<1>3. CASE StartInstance(FALSE, ok)
  <2>1. /\ ~cleanupArgv' /\ eventCh' = eventCh /\ proxy = NoRun
        /\ state' \in {state, "running"} /\ state = "stopped"
    BY <1>3, AttachedFacts DEF StartInstance, CanStart
  <2>2. CASE ok
    <3>1. state' = "running" /\ known' /\ proxy' # NoRun
      BY <1>3, <2>2, RunFacts
         DEF StartInstance, DaemonIInv, DaemonTypeOK, RunOrNone
    <3>2. ctl # "listed"
      BY <1>1 DEF ControllerIInv, ColdStart
    <3>3. Accounted' /\ InHand' /\ NeverCleans'
      BY <1>1, <2>1, <2>2, <3>1 DEF Accounted, InHand, NeverCleans
    <3> QED
      BY <1>1, <3>2, <3>3 DEF LinkIInv, NothingImagined, NothingLost
  <2>3. CASE ~ok
    <3>1. UNCHANGED <<state, proxy, waiter, eventCh>> /\ pc'[t] = "refused"
      BY <1>1, <1>3, <2>3 DEF StartInstance
    <3>2. Accounted' <=> Accounted
      BY <3>1 DEF Accounted
    <3> QED
      BY <1>1, <2>1, <3>1, <3>2
         DEF LinkIInv, NeverCleans, NothingImagined, NothingLost, Running
  <2> QED
    BY <2>2, <2>3
<1> QED
  BY <1>2, <1>3 DEF CallStart

LEMMA CallDaemonKeepsLink ==
    ASSUME DaemonIInv, ControllerIInv, LinkIInv, NEW t \in Threads, CallDaemon(t)
    PROVE  LinkIInv'
<1> DEFINE call == Head(todo[t])
<1>1. /\ UNCHANGED <<ctl, listed, astray, deaf, cst, starter>>
      /\ pc[t] = "calling" /\ pc'[t] \in {"idle", "calling"}
      /\ \A u \in Threads \ {t} : pc'[u] = pc[u] /\ todo'[u] = todo[u]
  <2>1. /\ pc = [u \in Threads |-> pc[u]] /\ todo = [u \in Threads |-> todo[u]]
    BY DEF ControllerIInv, ControllerTypeOK
  <2>2. /\ pc' = [pc EXCEPT ![t] = AfterLock(Tail(todo[t]))]
        /\ todo' = [todo EXCEPT ![t] = Tail(todo[t])]
    BY DEF CallDaemon, ThenCall
  <2>3. AfterLock(Tail(todo[t])) \in {"idle", "calling"}
    BY DEF AfterLock
  <2>4. pc[t] = "calling" /\ UNCHANGED <<ctl, listed, astray, deaf, cst, starter>>
    BY DEF CallDaemon, historyVars, linkHistory
  <2> HIDE DEF AfterLock
  <2> QED
    BY <2>1, <2>2, <2>3, <2>4
<1>2. UNCHANGED <<known, proxy, waiter, eventCh, cleanupArgv, shut>>
  BY DEF CallDaemon, MarkRuntimeCode, MarkStopping, StopInstance, KillInstance, Stop,
     waiterVars, daemonVars
<1>3. state' = state \/ state' = "stopping"
  BY DEF CallDaemon, MarkRuntimeCode, MarkStopping, MarkedStopping, StopInstance,
     KillInstance, Stop, StopWhileCleaning, StopIgnored, StopProgram, daemonVars
<1>4. call.op = "kill" => state' # "running"
  <2>1. SUFFICES ASSUME call.op = "kill", state = "running" PROVE state' # "running"
    BY <1>3
  <2>2. known /\ StopsProgram(TRUE)
    BY <2>1, AttachedFacts DEF StopsProgram, LinkIInv, NeverCleans
  <2>3. KillInstance(call.code)
    BY <2>1, <2>2 DEF CallDaemon
  <2> QED
    BY <2>1, <2>2, <2>3 DEF KillInstance, Stop, StopWhileCleaning, StopIgnored, StopProgram
<1>5. Accounted' <=> Accounted
  BY <1>2 DEF Accounted
<1>6. NeverCleans'
  BY <1>2, <1>3 DEF LinkIInv, NeverCleans
<1>7. NothingImagined'
  BY <1>1, <1>5 DEF LinkIInv, NothingImagined, Running
<1> HIDE DEF call
<1>8. ASSUME state' = "running", InHand PROVE InHand'
  <2>1. state = "running" /\ call.op # "kill"
    BY <1>3, <1>4, <1>8
  <2> QED
    BY <1>1, <1>8, <2>1 DEF InHand, call
<1>9. NothingLost'
  BY <1>1, <1>3, <1>8 DEF LinkIInv, NothingLost, Running, Serving
<1> QED
  BY <1>6, <1>7, <1>9 DEF LinkIInv

\* A program that ends is reported, or the report is lost and the controller deaf.
LEMMA DaemonStepKeepsLink ==
    ASSUME DaemonIInv, LinkIInv, DaemonStep
    PROVE  LinkIInv'
<1>1. /\ UNCHANGED <<ctl, listed, cst, starter, pc, todo, known, cleanupArgv>>
      /\ astray' = astray /\ (deaf => deaf')
  BY DEF DaemonStep, controllerVars, SendSignal, FinishProcessExit, SendExited,
     ProgramExits, controlVars
<1>2. \/ UNCHANGED <<state, proxy, waiter, eventCh>>
      \/ \E r \in Runs : FinishProcessExit(r)
      \/ \E r \in Runs : SendExited(r)
  BY DEF DaemonStep, SendSignal, ProgramExits, waiterVars
<1>3. state' \in {state, "stopped"} /\ (Accounted => deaf' \/ Accounted')
  <2>1. CASE UNCHANGED <<state, proxy, waiter, eventCh>>
    BY <2>1 DEF Accounted
  <2>2. ASSUME NEW r \in Runs, FinishProcessExit(r)
        PROVE  state' \in {state, "stopped"} /\ (Accounted => Accounted')
    <3>1. eventCh' = eventCh /\ waiter[r] = "waiting" /\ \A s \in Runs \ {r} : waiter'[s] = waiter[s]
      BY <2>2 DEF FinishProcessExit, DaemonIInv, DaemonTypeOK
    <3>2. CASE proxy # r
      <4>1. UNCHANGED <<state, proxy>>
        BY <2>2, <3>2 DEF FinishProcessExit
      <4> QED
        BY <3>1, <4>1 DEF Accounted
    <3>3. CASE proxy = r
      <4>1. state' = "stopped" /\ waiter'[r] = "reporting"
        BY <2>2, <3>3
           DEF FinishProcessExit, ShouldCleanup, LinkIInv, NeverCleans, DaemonIInv, DaemonTypeOK
      <4> QED
        BY <4>1 DEF Accounted
    <3> QED
      BY <3>2, <3>3
  <2>3. ASSUME NEW r \in Runs, SendExited(r)
        PROVE  state' \in {state, "stopped"} /\ (deaf' \/ Accounted')
    <3>1. state' = state /\ report[r] = "none"
      BY <2>3 DEF SendExited, DaemonIInv, Bookkeeping, Waiters
    <3>2. CASE Len(eventCh) < EventCap
      <4>1. eventCh' = Append(eventCh, [run |-> r, code |-> snap[r]])
        BY <2>3, <3>2 DEF SendExited
      <4>2. eventCh \in Seq(Event) /\ [run |-> r, code |-> snap[r]] \in Event
        BY EventFacts DEF DaemonIInv, DaemonTypeOK
      <4>3. eventCh' # <<>>
        BY <4>1, <4>2
      <4> QED
        BY <3>1, <4>3 DEF Accounted
    <3>3. CASE ~(Len(eventCh) < EventCap)
      <4>1. report'[r] = "lost"
        BY <2>3, <3>3 DEF SendExited, DaemonIInv, DaemonTypeOK
      <4> QED
        BY <3>1, <4>1 DEF DaemonStep
    <3> QED
      BY <3>2, <3>3
  <2> QED
    BY <1>2, <2>1, <2>2, <2>3
<1>4. NeverCleans'
  BY <1>1, <1>3 DEF LinkIInv, NeverCleans
<1>5. NothingImagined'
  BY <1>1, <1>3 DEF LinkIInv, NothingImagined, Running
<1>6. NothingLost'
  BY <1>1, <1>3 DEF LinkIInv, NothingLost, Running, Serving, InHand
<1> QED
  BY <1>4, <1>5, <1>6 DEF LinkIInv

\* While a program runs, a run whose waiter is done is an earlier one.
LEMMA EndedRuns ==
    ASSUME DaemonIInv, NEW r \in Runs, waiter[r] = "done", state = "running"
    PROVE  r < proxySeq
<1>1. r # proxySeq
  BY AttachedFacts
<1>2. r \in Nat /\ proxySeq \in Nat
  BY RunFacts DEF DaemonIInv, DaemonTypeOK, RunOrNone
<1>3. ~(r > proxySeq)
  BY DEF DaemonIInv, Bookkeeping, Births
<1> HIDE DEF DaemonIInv
<1> QED
  BY <1>1, <1>2, <1>3

\* A report that is not taken for another run's is that of a program that is gone.
LEMMA DeliverKeepsLink ==
    ASSUME DaemonIInv, ControllerIInv, LinkIInv, NEW autoRestart \in BOOLEAN,
           DeliverExit(autoRestart)
    PROVE  LinkIInv'
<1> DEFINE event == Head(eventCh)
<1>1. /\ UNCHANGED <<ctl, listed, pc, todo, state, proxy, waiter, known, cleanupArgv>>
      /\ eventCh # <<>> /\ astray' = (astray \/ Misleads(event))
      /\ deaf' = (deaf \/ ComesTooEarly)
  BY DEF DeliverExit, ForwardEvent, channelOnly, controlVars
<1>2. event.run \in Runs /\ waiter[event.run] = "done"
  <2>1. eventCh \in Seq(Event)
    BY DEF DaemonIInv, DaemonTypeOK
  <2>2. event \in Event /\ event = eventCh[1] /\ 1 \in 1 .. Len(eventCh)
    BY <1>1, <2>1, QueueFacts
  <2>3. event.run \in Runs
    BY <2>2, EventFacts
  <2> HIDE DEF event
  <2>4. report[event.run] # "none"
    BY <2>2 DEF DaemonIInv, Bookkeeping, QueueReported
  <2> QED
    BY <2>3, <2>4 DEF DaemonIInv, Bookkeeping, Waiters
<1> HIDE DEF event
<1>3. NeverCleans'
  BY <1>1 DEF LinkIInv, NeverCleans
<1>4. CASE ExitIgnored
  <2>1. UNCHANGED <<cst, starter>> /\ starter = Nobody /\ ~Running
    BY <1>4 DEF DeliverExit, ExitIgnored, Running
  <2>2. NothingImagined'
    BY <1>1, <2>1, ThreadsAssumption
       DEF NothingImagined, Running, ComesTooEarly, Nobody
  <2> QED
    BY <1>1, <1>3, <2>1, <2>2 DEF LinkIInv, NothingLost, Running, Serving, InHand
<1>5. CASE ~ExitIgnored
  <2>1. starter' = Nobody /\ cst' \in {"restart_waiting", "stopped"}
    BY <1>5 DEF DeliverExit
  <2>2. NothingImagined'
    BY <1>1, <2>1, ThreadsAssumption
       DEF NothingImagined, Running, ComesTooEarly, Nobody
  <2>3. state = "running" => event.run < proxySeq
    BY <1>2, EndedRuns
  <2>4. state = "running" => astray'
    BY <1>1, <1>5, <2>3 DEF Misleads
  <2> QED
    BY <1>1, <1>3, <2>2, <2>4 DEF LinkIInv, NothingLost
<1> QED
  BY <1>4, <1>5

LEMMA CrashKeepsLink ==
    ASSUME ControllerIInv, LinkIInv, ControllerRestarts
    PROVE  LinkIInv'
<1>1. UNCHANGED <<state, known, cleanupArgv>>
  BY DEF ControllerRestarts, DrainEvents, channelOnly, controlVars, daemonVars
<1>2. ctl' = "bound" /\ cst' = "stopped" /\ \A t \in Threads : pc'[t] = "idle"
  BY DEF ControllerRestarts
<1> QED
  BY <1>1, <1>2
     DEF LinkIInv, NeverCleans, NothingImagined, NothingLost, Running, Serving

LEMMA LinkStep ==
    ASSUME DaemonIInv, ControllerIInv, LinkIInv, [SystemNext]_systemVars
    PROVE  LinkIInv'
<1>1. CASE UNCHANGED systemVars
  BY <1>1, OwnFrame
     DEF systemVars, controllerVars, historyVars, linkHistory, LinkIInv,
         NothingImagined, NothingLost, Running, Serving, InHand
<1>2. CASE OwnStep
  BY <1>2, OwnStepKeepsLink
<1>3. CASE DaemonStep
  BY <1>3, DaemonStepKeepsLink
<1>4. CASE Deliver
  BY <1>4, DeliverKeepsLink, SettingsAssumption DEF Deliver
<1>5. CASE ControllerRestarts
  BY <1>5, CrashKeepsLink
<1> QED
  BY <1>1, <1>2, <1>3, <1>4, <1>5, StepSplit, CallStartKeepsLink, CallDaemonKeepsLink

LEMMA LinkInvariant == SystemSpec => []LinkIInv
<1>1. DaemonIInv /\ ControllerIInv /\ LinkIInv /\ [SystemNext]_systemVars => LinkIInv'
  BY LinkStep
<1> QED
  BY <1>1, LinkInit, DaemonInvariantHere, ControllerInvariant, PTL DEF SystemSpec

\* The program the daemon runs is shown as running by the controller
\* (process.go, sp.State), or in the hands of a goroutine that has just started
\* it or is about to kill it: for any number of goroutines, requests, controller
\* restarts and late answers, only the three events that set astray lose a program.
THEOREM ProgramsAreNotLost == SystemSpec => []NoLostProgram
<1>1. LinkIInv => NoLostProgram
  BY DEF LinkIInv, NothingLost, InHand, NoLostProgram
<1> QED
  BY <1>1, LinkInvariant, PTL

\* An instance that the controller shows as running has a program, or the report
\* of its exit is on its way (process.go, handleDaemonProcessExit), unless a
\* report was dropped or came before the restored state (deaf): late answers,
\* reports of earlier runs and stale lists imagine nothing.
THEOREM NoPhantoms == SystemSpec => []NoPhantomProgram
<1>1. LinkIInv => NoPhantomProgram
  BY DEF LinkIInv, NothingImagined, Accounted, NoPhantomProgram
<1> QED
  BY <1>1, LinkInvariant, PTL

=============================================================================
