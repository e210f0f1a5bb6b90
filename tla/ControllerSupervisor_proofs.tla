-------------------- MODULE ControllerSupervisor_proofs ---------------------
(***************************************************************************)
(* Proofs about ControllerSupervisor: for any instances, any number of      *)
(* controllers and any requests, a connection is served for the controller  *)
(* it belongs to, no goroutine of an earlier controller takes it away, and  *)
(* a stopper leaves no program that was up when it made its list.           *)
(***************************************************************************)
EXTENDS ControllerSupervisor, SequenceTheorems, TLAPS

-----------------------------------------------------------------------------
(* Requests, generations, and what closing a connection leaves alone.       *)

LEMMA RequestFacts ==
    /\ \A r \in Requests \cup {NoRequest} : r.op \in InstanceOps => r.ins \in Instances
    /\ \A i \in Instances : Request("start", i) \in Requests
    /\ UserRequests \subseteq Requests
    /\ Request("list", NoInstance) \in Requests
<1>1. Request("list", NoInstance) \in Requests
  BY DEF Request, Requests, DaemonOps
<1>2. \A i \in Instances : Request("start", i) \in Requests
  BY DEF Request, Requests, InstanceOps
<1>3. \A r \in Requests : r.op \in InstanceOps => r.ins \in Instances
  BY DEF Requests, InstanceOps, DaemonOps
<1>4. NoRequest.op \notin InstanceOps
  BY DEF NoRequest, Request, InstanceOps
<1> QED
  BY <1>1, <1>2, <1>3, <1>4 DEF UserRequests

LEMMA GenFacts ==
    /\ MaxStarts \in Nat /\ Gens = 1..MaxStarts
    /\ \A g \in Gens : g \in Nat /\ g # 0
    /\ \A g \in 0..MaxStarts : g # 0 => g \in Gens
BY SupervisorAssumption DEF Gens

LEMMA CloseFacts ==
    ASSUME open \in [Gens -> BOOLEAN], pipe \in [Gens -> Seq(Requests)],
           NEW g \in Gens, Close(g)
    PROVE  /\ open' = [open EXCEPT ![g] = FALSE]
           /\ open' \in [Gens -> BOOLEAN]
           /\ pipe' \in [Gens -> Seq(Requests)]
           /\ ~open'[g]
           /\ \A h \in Gens : open'[h] => open[h]
<1>1. PICK k \in 0..Len(pipe[g]) :
          pipe' = [pipe EXCEPT ![g] = IF open[g] THEN SubSeq(pipe[g], 1, k) ELSE pipe[g]]
  BY DEF Close
<1>2. pipe[g] \in Seq(Requests) /\ Len(pipe[g]) \in Nat
  OBVIOUS
<1>3. SubSeq(pipe[g], 1, k) \in Seq(Requests)
  <2>1. \A n \in 1..k : pipe[g][n] \in Requests
    BY <1>2
  <2> QED
    BY <1>2, <2>1, SubSeqProperties
<1>4. pipe' \in [Gens -> Seq(Requests)]
  BY <1>1, <1>2, <1>3
<1> QED
  BY <1>4 DEF Close

LEMMA CloseIfAnyFacts ==
    ASSUME open \in [Gens -> BOOLEAN], pipe \in [Gens -> Seq(Requests)],
           NEW g \in 0..MaxStarts, CloseIfAny(g)
    PROVE  /\ open' \in [Gens -> BOOLEAN]
           /\ pipe' \in [Gens -> Seq(Requests)]
           /\ \A h \in Gens : open'[h] => open[h]
<1>1. CASE g = 0
  BY <1>1 DEF CloseIfAny
<1>2. CASE g # 0
  BY <1>2, GenFacts, CloseFacts DEF CloseIfAny
<1> QED
  BY <1>1, <1>2

-----------------------------------------------------------------------------
(* A Serve goroutine on its way from one request to the next.               *)

Working == Serving \ {"launched", "leaving"}

LEMMA ServeMoves ==
    ASSUME SupervisorIInv, NEW g \in Gens, NEW x \in Working, serve[g] \in Working,
           serve' = [serve EXCEPT ![g] = x],
           UNCHANGED <<conn, serveDone, loop, gen, ctrl, open, forward, active, late>>
    PROVE  LoopInv' /\ ServesItsOwn' /\ ServeInv'
<1> USE DEF SupervisorIInv
<1>1. /\ serve' \in [Gens -> Serving \cup {"none", "done"}]
      /\ serve'[g] = x /\ \A h \in Gens : h # g => serve'[h] = serve[h]
  BY DEF TypeOK, Serving, Working
<1>2. x \notin {"none", "done", "launched", "leaving"} /\ x \in Serving
  BY DEF Serving, Working
<1>3. serve[g] # "none" /\ serve[g] # "launched" /\ serve[g] \in Serving
  BY DEF Serving, Working
<1>4. LoopInv'
  BY <1>1, <1>2, <1>3, GenFacts DEF LoopInv, TypeOK
<1>5. ServesItsOwn'
  BY <1>1, <1>2 DEF ServesItsOwn
<1>6. ServeInv'
  BY <1>1, <1>2, <1>3 DEF ServeInv
<1> QED
  BY <1>4, <1>5, <1>6

LEMMA LocksKept ==
    ASSUME SupervisorIInv, NEW g \in Gens, serve[g] # "writing",
           serve'[g] \notin Starting \cup {"writing"},
           \A h \in Gens : h # g => serve'[h] = serve[h] /\ job'[h] = job[h],
           UNCHANGED <<mu, known>>
    PROVE  LockInv'
<1>1. /\ \A h \in Gens : serve[h] \in Starting => job[h].op = "start"
      /\ \A h \in Gens : serve[h] = "writing" =>
            job[h].op = "input" /\ job[h].ins \in known /\ mu[job[h].ins] = h
      /\ \A i \in Instances : mu[i] # 0 =>
            mu[i] \in Gens /\ serve[mu[i]] = "writing" /\ job[mu[i]].ins = i
  BY DEF SupervisorIInv, LockInv
<1>2. ASSUME NEW h \in Gens
      PROVE  /\ serve'[h] \in Starting => job'[h].op = "start"
             /\ serve'[h] = "writing" =>
                  /\ job'[h].op = "input" /\ job'[h].ins \in known
                  /\ mu[job'[h].ins] = h
  <2>1. CASE h = g
    BY <2>1
  <2>2. CASE h # g
    BY <1>1, <2>2
  <2> QED BY <2>1, <2>2
<1>3. ASSUME NEW i \in Instances, mu[i] # 0
      PROVE  mu[i] \in Gens /\ serve'[mu[i]] = "writing" /\ job'[mu[i]].ins = i
  <2>1. mu[i] \in Gens /\ serve[mu[i]] = "writing" /\ job[mu[i]].ins = i
    BY <1>1, <1>3
  <2>2. mu[i] # g
    BY <2>1
  <2> QED BY <2>1, <2>2
<1> QED BY <1>2, <1>3 DEF LockInv

-----------------------------------------------------------------------------
(* The invariant, action by action.                                         *)

LEMMA MainEndsKeeps ==
    ASSUME SupervisorIInv, MainEnds
    PROVE  SupervisorIInv'
<1> USE DEF SupervisorIInv, connVars, serveVars, loopVars, stopVars, progVars, userVars,
            MainEnds, ProcessEnds
<1>1. TypeOK'
  BY DEF TypeOK
<1>2. LoopInv'
  BY DEF LoopInv, TypeOK
<1>3. ServeInv'
  BY DEF ServeInv, TypeOK
<1>4. ConnInv' /\ ServesItsOwn' /\ LockInv' /\ StopInv'
  BY DEF ConnInv, ServesItsOwn, LockInv, StopInv
<1> HIDE DEF MainEnds, ProcessEnds
<1> QED
  BY <1>1, <1>2, <1>3, <1>4 DEF SupervisorIInv

LEMMA LoopChecksKeeps ==
    ASSUME SupervisorIInv, LoopChecks
    PROVE  SupervisorIInv'
<1>1. CASE MainEnds
  BY <1>1, MainEndsKeeps
<1>2. CASE ~stopping /\ loop' = "start" /\ UNCHANGED <<daemon, ctrl, connVars,
               serveVars, gen, active, pending, late, stopVars, progVars, userVars>>
  <2> USE <1>2 DEF SupervisorIInv, connVars, serveVars, loopVars, stopVars, progVars, userVars
  <2>1. TypeOK'
    BY DEF TypeOK
  <2>2. LoopInv' /\ ConnInv' /\ ServesItsOwn'
    BY DEF LoopInv, ConnInv, ServesItsOwn, LoopChecks
  <2>3. ServeInv' /\ LockInv' /\ StopInv'
    BY DEF ServeInv, LockInv, StopInv
  <2> QED
    BY <2>1, <2>2, <2>3
<1> QED
  BY <1>1, <1>2 DEF LoopChecks

LEMMA FirstStartFailsKeeps ==
    ASSUME SupervisorIInv, FirstStartFails
    PROVE  SupervisorIInv'
<1> USE DEF SupervisorIInv, connVars, serveVars, loopVars, stopVars, progVars, userVars,
            FirstStartFails
<1>1. TypeOK'
  BY DEF TypeOK
<1>2. LoopInv' /\ ConnInv' /\ ServesItsOwn' /\ ServeInv' /\ LockInv' /\ StopInv'
  BY DEF LoopInv, ConnInv, ServesItsOwn, ServeInv, LockInv, StopInv
<1> HIDE DEF FirstStartFails
<1> QED
  BY <1>1, <1>2 DEF SupervisorIInv

LEMMA LoopStartsKeeps ==
    ASSUME SupervisorIInv, LoopStarts
    PROVE  SupervisorIInv'
<1> USE DEF SupervisorIInv, connVars, serveVars, loopVars, stopVars, progVars, userVars,
            LoopStarts
<1>0. gen + 1 \in Gens /\ active = 0 /\ <<Request("list", NoInstance)>> \in Seq(Requests)
  BY GenFacts, RequestFacts DEF TypeOK, LoopInv
<1>01. /\ ctrl' \in [Gens -> {"none", "booting", "ready", "leaving", "gone"}]
       /\ open' \in [Gens -> BOOLEAN]
       /\ pipe' \in [Gens -> Seq(Requests)]
  BY <1>0 DEF TypeOK
<1>02. gen' \in 0..MaxStarts
  BY <1>0, GenFacts
<1>1. TypeOK'
  BY <1>0, <1>01, <1>02 DEF TypeOK
<1>2. LoopInv'
  BY <1>0, GenFacts DEF LoopInv, TypeOK
<1>3. ConnInv'
  BY DEF ConnInv, TypeOK
<1>4. ServesItsOwn'
  BY <1>0 DEF ServesItsOwn, LoopInv, TypeOK
<1>5. ServeInv'
  BY <1>0, GenFacts DEF ServeInv, LoopInv, TypeOK, Serving
<1>6. LockInv' /\ StopInv'
  BY DEF LockInv, StopInv
<1> HIDE DEF LoopStarts
<1> QED
  BY <1>1, <1>2, <1>3, <1>4, <1>5, <1>6 DEF SupervisorIInv

LEMMA LoopActivatesKeeps ==
    ASSUME SupervisorIInv, LoopActivates
    PROVE  SupervisorIInv'
<1> USE DEF SupervisorIInv, connVars, serveVars, loopVars, stopVars, progVars, userVars,
            LoopActivates
<1>1. TypeOK'
  BY DEF TypeOK
<1>2. LoopInv'
  BY DEF LoopInv, TypeOK
<1>3. ConnInv'
  BY DEF ConnInv, TypeOK
<1>4. ServesItsOwn'
  BY DEF ServesItsOwn, TypeOK
<1>5. ServeInv' /\ LockInv' /\ StopInv'
  BY DEF ServeInv, LockInv, StopInv
<1> HIDE DEF LoopActivates
<1> QED
  BY <1>1, <1>2, <1>3, <1>4, <1>5 DEF SupervisorIInv

LEMMA BindConnKeeps ==
    ASSUME SupervisorIInv, BindConn
    PROVE  SupervisorIInv'
<1> USE DEF SupervisorIInv, connVars, serveVars, loopVars, stopVars, progVars, userVars,
            BindConn, CloseIfAny
<1>0. /\ open' \in [Gens -> BOOLEAN] /\ pipe' \in [Gens -> Seq(Requests)]
      /\ \A h \in Gens : open'[h] => open[h]
  BY CloseIfAnyFacts DEF TypeOK, BindConn
<1>1. TypeOK'
  BY <1>0, GenFacts DEF TypeOK
<1>2. LoopInv'
  BY <1>0, GenFacts DEF LoopInv, TypeOK
<1>3. ConnInv'
  BY DEF ConnInv, TypeOK
<1>4. ServesItsOwn'
  BY DEF ServesItsOwn, TypeOK
<1>5. ServeInv'
  BY <1>0, GenFacts DEF ServeInv, TypeOK, Serving
<1>6. LockInv' /\ StopInv'
  BY DEF LockInv, StopInv
<1> HIDE DEF BindConn, CloseIfAny
<1> QED
  BY <1>1, <1>2, <1>3, <1>4, <1>5, <1>6 DEF SupervisorIInv

LEMMA BindServeKeeps ==
    ASSUME SupervisorIInv, BindServe
    PROVE  SupervisorIInv'
<1> USE DEF SupervisorIInv, connVars, serveVars, loopVars, stopVars, progVars, userVars,
            BindServe, MayServe
<1>0. gen \in Gens /\ conn = gen /\ serve[gen] = "none"
  BY GenFacts DEF TypeOK, LoopInv
<1>01. \A g \in Gens : serve[g] # "launched"
  BY DEF ServesItsOwn
<1>02. forward[gen] # "running"
  BY <1>0 DEF ServeInv, Serving
<1>03. \A g \in Gens : serve[g] \in Serving => late'
  BY GenFacts DEF ServeInv
<1>1. TypeOK'
  BY <1>0 DEF TypeOK
<1>2. LoopInv'
  BY DEF LoopInv, TypeOK
<1>3. ConnInv'
  BY <1>0 DEF ConnInv
<1>4. ServesItsOwn'
  BY <1>0, <1>01 DEF ServesItsOwn, TypeOK
<1>5. ServeInv'
  BY <1>0, <1>02, <1>03, GenFacts DEF ServeInv, TypeOK, Serving
<1>6. LockInv'
  BY <1>0, GenFacts DEF LockInv, TypeOK, Starting
<1>7. StopInv'
  BY DEF StopInv
<1> HIDE DEF BindServe, MayServe
<1> QED
  BY <1>1, <1>2, <1>3, <1>4, <1>5, <1>6, <1>7 DEF SupervisorIInv

LEMMA LoopSeesExitKeeps ==
    ASSUME SupervisorIInv, LoopSeesExit
    PROVE  SupervisorIInv'
<1> USE DEF SupervisorIInv, connVars, serveVars, loopVars, stopVars, progVars, userVars,
            LoopSeesExit
<1>0. /\ open' \in [Gens -> BOOLEAN] /\ pipe' \in [Gens -> Seq(Requests)]
      /\ \A h \in Gens : open'[h] => open[h]
  BY CloseFacts, GenFacts DEF TypeOK, LoopInv
<1>1. TypeOK'
  BY <1>0, GenFacts DEF TypeOK
<1>2. LoopInv'
  BY <1>0, GenFacts DEF LoopInv, TypeOK
<1>3. ConnInv'
  BY DEF ConnInv, TypeOK
<1>4. ServesItsOwn'
  BY DEF ServesItsOwn, TypeOK
<1>5. ServeInv'
  BY <1>0, GenFacts DEF ServeInv, TypeOK, Serving
<1>6. LockInv' /\ StopInv'
  BY DEF LockInv, StopInv
<1> HIDE DEF LoopSeesExit
<1> QED
  BY <1>1, <1>2, <1>3, <1>4, <1>5, <1>6 DEF SupervisorIInv

LEMMA LoopAfterExitKeeps ==
    ASSUME SupervisorIInv, LoopAfterExit
    PROVE  SupervisorIInv'
<1>1. CASE MainEnds
  BY <1>1, MainEndsKeeps
<1>2. CASE ~stopping /\ loop' = "settle" /\ UNCHANGED <<daemon, ctrl, connVars,
               serveVars, gen, active, pending, late, stopVars, progVars, userVars>>
  <2> USE <1>2 DEF SupervisorIInv, connVars, serveVars, loopVars, stopVars, progVars, userVars
  <2>1. TypeOK'
    BY DEF TypeOK
  <2>2. LoopInv' /\ ConnInv' /\ ServesItsOwn'
    BY DEF LoopInv, ConnInv, ServesItsOwn, LoopAfterExit
  <2>3. ServeInv' /\ LockInv' /\ StopInv'
    BY DEF ServeInv, LockInv, StopInv
  <2> QED
    BY <2>1, <2>2, <2>3
<1> QED
  BY <1>1, <1>2 DEF LoopAfterExit

LEMMA LoopSettlesKeeps ==
    ASSUME SupervisorIInv, LoopSettles
    PROVE  SupervisorIInv'
<1> USE DEF SupervisorIInv, connVars, serveVars, loopVars, stopVars, progVars, userVars,
            LoopSettles, MaySettle
<1>1. TypeOK'
  BY DEF TypeOK
<1>2. LoopInv'
  BY DEF LoopInv, TypeOK
<1>3. ConnInv'
  BY DEF ConnInv, TypeOK
<1>4. ServesItsOwn'
  BY GenFacts DEF ServesItsOwn, Stuck, WaitsForInstance, Starting
<1>5. ServeInv' /\ LockInv' /\ StopInv'
  BY DEF ServeInv, LockInv, StopInv
<1> HIDE DEF LoopSettles, MaySettle
<1> QED
  BY <1>1, <1>2, <1>3, <1>4, <1>5 DEF SupervisorIInv

LEMMA LoopPausesKeeps ==
    ASSUME SupervisorIInv, LoopPauses
    PROVE  SupervisorIInv'
<1> USE DEF SupervisorIInv, connVars, serveVars, loopVars, stopVars, progVars, userVars,
            LoopPauses
<1>1. TypeOK'
  BY DEF TypeOK
<1>2. LoopInv'
  BY DEF LoopInv, TypeOK
<1>3. ConnInv'
  BY DEF ConnInv, TypeOK
<1>4. ServesItsOwn'
  BY DEF ServesItsOwn, TypeOK
<1>5. ServeInv' /\ LockInv' /\ StopInv'
  BY DEF ServeInv, LockInv, StopInv
<1> HIDE DEF LoopPauses
<1> QED
  BY <1>1, <1>2, <1>3, <1>4, <1>5 DEF SupervisorIInv

LEMMA ServeBeginsKeeps ==
    ASSUME SupervisorIInv, NEW g \in Gens, ServeBegins(g)
    PROVE  SupervisorIInv'
<1> USE DEF SupervisorIInv, connVars, serveVars, loopVars, stopVars, progVars, userVars,
            ServeBegins
<1>1. LockInv'
  BY LocksKept DEF TypeOK, Starting
<1>2. TypeOK'
  BY DEF TypeOK
<1>3. LoopInv'
  BY DEF LoopInv, TypeOK
<1>4. ServesItsOwn'
  BY DEF ServesItsOwn, TypeOK
<1>5. ServeInv'
  BY GenFacts DEF ServeInv, TypeOK, Serving
<1>6. ConnInv' /\ StopInv'
  BY DEF ConnInv, StopInv
<1> HIDE DEF ServeBegins
<1> QED
  BY <1>1, <1>2, <1>3, <1>4, <1>5, <1>6 DEF SupervisorIInv

LEMMA ServeReadsKeeps ==
    ASSUME SupervisorIInv, NEW g \in Gens, ServeReads(g)
    PROVE  SupervisorIInv'
<1> USE DEF SupervisorIInv, connVars, serveVars, loopVars, stopVars, progVars, userVars,
            ServeReads
<1>0. /\ pipe' \in [Gens -> Seq(Requests)]
      /\ job' \in [Gens -> Requests \cup {NoRequest}]
  BY DEF TypeOK
<1>1. LoopInv' /\ ServesItsOwn' /\ ServeInv'
  BY ServeMoves DEF TypeOK, Serving, Working, Starting
<1>2. LockInv'
  BY LocksKept DEF TypeOK, Starting
<1>3. TypeOK'
  BY <1>0 DEF TypeOK
<1>4. ConnInv' /\ StopInv'
  BY DEF ConnInv, StopInv
<1> HIDE DEF ServeReads
<1> QED
  BY <1>1, <1>2, <1>3, <1>4 DEF SupervisorIInv

LEMMA ServeReadFailsKeeps ==
    ASSUME SupervisorIInv, NEW g \in Gens, ServeReadFails(g)
    PROVE  SupervisorIInv'
<1> USE DEF SupervisorIInv, connVars, serveVars, loopVars, stopVars, progVars, userVars,
            ServeReadFails
<1>0. /\ serve[g] = "reading" /\ serve'[g] = "leaving"
      /\ \A h \in Gens : h # g => serve'[h] = serve[h]
      /\ ~open[g] \/ ctrl[g] = "gone"
  BY DEF TypeOK
<1>01. "leaving" \in Serving /\ "leaving" # "launched" /\ "reading" \in Serving
  BY DEF Serving
<1>1. LockInv'
  BY LocksKept DEF TypeOK, Starting
<1>2. TypeOK'
  BY DEF TypeOK
<1>3. LoopInv'
  BY DEF LoopInv, TypeOK
<1>4. ServesItsOwn'
  BY DEF ServesItsOwn, TypeOK
<1>5. ServeInv'
  BY <1>0, <1>01 DEF ServeInv
<1>6. ConnInv' /\ StopInv'
  BY DEF ConnInv, StopInv
<1> HIDE DEF ServeReadFails
<1> QED
  BY <1>1, <1>2, <1>3, <1>4, <1>5, <1>6 DEF SupervisorIInv

LEMMA DispatchListKeeps ==
    ASSUME SupervisorIInv, NEW g \in Gens, DispatchList(g)
    PROVE  SupervisorIInv'
<1> USE DEF SupervisorIInv, connVars, serveVars, loopVars, stopVars, progVars, userVars,
            DispatchList, Dispatches, AnswerNext
<1>1. LoopInv' /\ ServesItsOwn' /\ ServeInv'
  BY ServeMoves DEF TypeOK, Serving, Working, Starting
<1>2. LockInv'
  BY LocksKept DEF TypeOK, Starting
<1>3. TypeOK'
  BY DEF TypeOK
<1>4. ConnInv' /\ StopInv'
  BY DEF ConnInv, StopInv
<1> HIDE DEF DispatchList, Dispatches, AnswerNext
<1> QED
  BY <1>1, <1>2, <1>3, <1>4 DEF SupervisorIInv

LEMMA DispatchStartKeeps ==
    ASSUME SupervisorIInv, NEW g \in Gens, DispatchStart(g)
    PROVE  SupervisorIInv'
<1> USE DEF SupervisorIInv, connVars, serveVars, loopVars, stopVars, progVars, userVars,
            DispatchStart, Dispatches
<1>0. job[g].ins \in Instances
  BY RequestFacts DEF TypeOK, LockInv, InstanceOps, Dispatches, Starting
<1>1. LoopInv' /\ ServesItsOwn' /\ ServeInv'
  BY ServeMoves DEF TypeOK, Serving, Working, Starting
<1>2. TypeOK'
  BY <1>0 DEF TypeOK
<1>3. LockInv'
  BY DEF LockInv, TypeOK
<1>4. StopInv'
  BY DEF StopInv, TypeOK
<1>5. ConnInv'
  BY DEF ConnInv
<1> HIDE DEF DispatchStart, Dispatches
<1> QED
  BY <1>1, <1>2, <1>3, <1>4, <1>5 DEF SupervisorIInv

LEMMA StartProgramKeeps ==
    ASSUME SupervisorIInv, NEW g \in Gens, StartProgram(g)
    PROVE  SupervisorIInv'
<1> USE DEF SupervisorIInv, connVars, serveVars, loopVars, stopVars, progVars, userVars,
            StartProgram, AnswerNext, Past
<1>0. job[g].ins \in Instances
  BY ZenonT(40), RequestFacts DEF TypeOK, LockInv, InstanceOps, Dispatches, Starting
<1>1. LoopInv' /\ ServesItsOwn' /\ ServeInv'
  BY ServeMoves DEF TypeOK, Serving, Working, Starting
<1>2. LockInv'
  BY LocksKept DEF TypeOK, Starting
<1>3. TypeOK'
  BY <1>0 DEF TypeOK
<1>4. StopInv'
  BY <1>0 DEF StopInv, TypeOK
<1>5. ConnInv'
  BY DEF ConnInv
<1> HIDE DEF StartProgram, AnswerNext, Past
<1> QED
  BY <1>1, <1>2, <1>3, <1>4, <1>5 DEF SupervisorIInv

LEMMA StartFailsKeeps ==
    ASSUME SupervisorIInv, NEW g \in Gens, StartFails(g)
    PROVE  SupervisorIInv'
<1> USE DEF SupervisorIInv, connVars, serveVars, loopVars, stopVars, progVars, userVars,
            StartFails, AnswerNext
<1>0. job[g].ins \in Instances
  BY SMTT(30), RequestFacts DEF TypeOK, LockInv, InstanceOps, Dispatches, Starting
<1>01. \A h \in Gens : serve[h] = "writing" => h # 0 /\ job[h].ins # job[g].ins
  BY GenFacts DEF LockInv
<1>1. LoopInv' /\ ServesItsOwn' /\ ServeInv'
  BY ServeMoves DEF TypeOK, Serving, Working, Starting
<1>2. TypeOK'
  BY <1>0 DEF TypeOK
<1>3. LockInv'
  BY <1>0, <1>01 DEF LockInv, TypeOK, Starting
<1>4. StopInv'
  BY <1>0 DEF StopInv, TypeOK
<1>5. ConnInv'
  BY DEF ConnInv
<1> HIDE DEF StartFails, AnswerNext
<1> QED
  BY <1>1, <1>2, <1>3, <1>4, <1>5 DEF SupervisorIInv

LEMMA DispatchInputKeeps ==
    ASSUME SupervisorIInv, NEW g \in Gens, DispatchInput(g)
    PROVE  SupervisorIInv'
<1> USE DEF SupervisorIInv, connVars, serveVars, loopVars, stopVars, progVars, userVars
<1>1. /\ serve[g] = "dispatch" /\ job[g].op = "input" /\ ~WaitsForInstance(g)
      /\ UNCHANGED <<daemon, ctrl, connVars, forward, events, loopVars, stopVars, known, prog,
                     busy, missed, userVars>>
  BY DEF DispatchInput, Dispatches
<1>2. job[g].ins \in Instances
  BY <1>1, RequestFacts DEF TypeOK, InstanceOps
<1>3. CASE serve' = [serve EXCEPT ![g] = "reading"] /\ job' = [job EXCEPT ![g] = NoRequest]
           /\ UNCHANGED mu
  <2> USE <1>1, <1>3
  <2>1. TypeOK'
    BY DEF TypeOK
  <2>2. LoopInv' /\ ServesItsOwn' /\ ServeInv'
    BY ServeMoves DEF TypeOK, Serving, Working
  <2>3. LockInv'
    BY LocksKept DEF TypeOK, Starting
  <2>4. ConnInv' /\ StopInv'
    BY DEF ConnInv, StopInv
  <2> QED
    BY <2>1, <2>2, <2>3, <2>4
<1>4. CASE /\ job[g].ins \in known /\ serve' = [serve EXCEPT ![g] = "writing"]
           /\ mu' = [mu EXCEPT ![job[g].ins] = g] /\ UNCHANGED job
  <2> USE <1>1, <1>4
  <2>1. TypeOK'
    BY <1>2, GenFacts DEF TypeOK
  <2>2. LoopInv' /\ ServesItsOwn' /\ ServeInv'
    BY ServeMoves DEF TypeOK, Serving, Working
  <2>3. mu[job[g].ins] = 0
    BY DEF WaitsForInstance, InstanceOps
  <2>4. LockInv'
    BY <1>2, <2>3, GenFacts DEF LockInv, TypeOK, Starting
  <2>5. ConnInv' /\ StopInv'
    BY DEF ConnInv, StopInv
  <2> QED
    BY <2>1, <2>2, <2>4, <2>5
<1> QED
  BY <1>3, <1>4 DEF DispatchInput


LEMMA WriteFailsKeeps ==
    ASSUME SupervisorIInv, NEW g \in Gens, WriteFails(g)
    PROVE  SupervisorIInv'
<1> USE DEF SupervisorIInv, connVars, serveVars, loopVars, stopVars, progVars, userVars,
            WriteFails, WriteReturns
<1>0. job[g].ins \in Instances
  BY RequestFacts DEF TypeOK, LockInv, InstanceOps, Dispatches, Starting
<1>1. LoopInv' /\ ServesItsOwn' /\ ServeInv'
  BY ServeMoves DEF TypeOK, Serving, Working, Starting
<1>2. TypeOK'
  BY <1>0, GenFacts DEF TypeOK
<1>3. LockInv'
  BY GenFacts DEF LockInv, TypeOK, Starting
<1>4. ConnInv' /\ StopInv'
  BY DEF ConnInv, StopInv
<1> HIDE DEF WriteFails, WriteReturns
<1> QED
  BY <1>1, <1>2, <1>3, <1>4 DEF SupervisorIInv

LEMMA DispatchKillKeeps ==
    ASSUME SupervisorIInv, NEW g \in Gens, DispatchKill(g)
    PROVE  SupervisorIInv'
<1> USE DEF SupervisorIInv, connVars, serveVars, loopVars, stopVars, progVars, userVars,
            DispatchKill, Dispatches, AnswerNext
<1>1. LoopInv' /\ ServesItsOwn' /\ ServeInv'
  BY ServeMoves DEF TypeOK, Serving, Working, Starting
<1>2. LockInv'
  BY LocksKept DEF TypeOK, Starting
<1>3. TypeOK'
  BY DEF TypeOK
<1>4. StopInv'
  BY DEF StopInv, TypeOK
<1>5. ConnInv'
  BY DEF ConnInv
<1> HIDE DEF DispatchKill, Dispatches, AnswerNext
<1> QED
  BY <1>1, <1>2, <1>3, <1>4, <1>5 DEF SupervisorIInv

LEMMA DispatchRestartKeeps ==
    ASSUME SupervisorIInv, NEW g \in Gens, DispatchRestart(g)
    PROVE  SupervisorIInv'
<1> USE DEF SupervisorIInv, connVars, serveVars, loopVars, stopVars, progVars, userVars,
            DispatchRestart, Dispatches, AnswerNext
<1>1. LoopInv' /\ ServesItsOwn' /\ ServeInv'
  BY ServeMoves DEF TypeOK, Serving, Working, Starting
<1>2. LockInv'
  BY LocksKept DEF TypeOK, Starting
<1>3. TypeOK'
  BY DEF TypeOK
<1>4. ConnInv' /\ StopInv'
  BY DEF ConnInv, StopInv
<1> HIDE DEF DispatchRestart, Dispatches, AnswerNext
<1> QED
  BY <1>1, <1>2, <1>3, <1>4 DEF SupervisorIInv

LEMMA DispatchStopKeeps ==
    ASSUME SupervisorIInv, NEW g \in Gens, DispatchStop(g)
    PROVE  SupervisorIInv'
<1> USE DEF SupervisorIInv, connVars, serveVars, loopVars, stopVars, progVars, userVars,
            DispatchStop, Dispatches, AnswerNext
<1>1. LoopInv' /\ ServesItsOwn' /\ ServeInv'
  BY ServeMoves DEF TypeOK, Serving, Working, Starting
<1>2. LockInv'
  BY LocksKept DEF TypeOK, Starting
<1>3. TypeOK'
  BY DEF TypeOK
<1>4. StopInv'
  BY DEF StopInv, TypeOK
<1>5. ConnInv'
  BY DEF ConnInv
<1> HIDE DEF DispatchStop, Dispatches, AnswerNext
<1> QED
  BY <1>1, <1>2, <1>3, <1>4, <1>5 DEF SupervisorIInv

LEMMA ReplyKeeps ==
    ASSUME SupervisorIInv, NEW g \in Gens, Reply(g)
    PROVE  SupervisorIInv'
<1> USE DEF SupervisorIInv, connVars, serveVars, loopVars, stopVars, progVars, userVars
<1>1. /\ serve[g] = "reply" /\ job' = [job EXCEPT ![g] = NoRequest]
      /\ job' \in [Gens -> Requests \cup {NoRequest}]
      /\ UNCHANGED <<daemon, conn, serveDone, loopVars, stopVars, progVars, userVars>>
  BY DEF Reply, TypeOK
<1>2. CASE /\ forward[g] = "running" /\ open[g] /\ Alive(g)
           /\ serve' = [serve EXCEPT ![g] = "reading"]
           /\ ctrl' = [ctrl EXCEPT ![g] = AfterAnswer(g)]
           /\ UNCHANGED <<open, pipe, forward, events>>
  <2> USE <1>1, <1>2
  <2>1. AfterAnswer(g) \in {"booting", "ready", "leaving"}
    BY DEF AfterAnswer, Alive
  <2>2. TypeOK'
    BY <2>1 DEF TypeOK
  <2>3. LoopInv' /\ ServesItsOwn'
    BY <2>1, GenFacts DEF LoopInv, ServesItsOwn, TypeOK
  <2>4. ServeInv'
    BY <2>1, GenFacts DEF ServeInv, TypeOK, Serving, Alive
  <2>5. LockInv'
    BY LocksKept DEF TypeOK, Starting
  <2>6. ConnInv' /\ StopInv'
    BY DEF ConnInv, StopInv
  <2> QED
    BY <2>2, <2>3, <2>4, <2>5, <2>6
<1>3. CASE /\ forward[g] = "running" /\ ~(open[g] /\ Alive(g))
           /\ serve' = [serve EXCEPT ![g] = "reading"]
           /\ ForwardFails(g)
           /\ UNCHANGED ctrl
  <2> USE <1>1, <1>3
  <2>1. /\ open' \in [Gens -> BOOLEAN] /\ pipe' \in [Gens -> Seq(Requests)]
        /\ ~open'[g] /\ \A h \in Gens : open'[h] => open[h]
        /\ forward' = [forward EXCEPT ![g] = "done"] /\ events' = <<>>
    BY CloseFacts DEF ForwardFails, TypeOK
  <2>2. TypeOK'
    BY <2>1 DEF TypeOK
  <2>3. LoopInv' /\ ServesItsOwn'
    BY <2>1, GenFacts DEF LoopInv, ServesItsOwn, TypeOK
  <2>4. ServeInv'
    BY <2>1, GenFacts DEF ServeInv, TypeOK, Serving
  <2>5. LockInv'
    BY LocksKept DEF TypeOK, Starting
  <2>6. ConnInv' /\ StopInv'
    BY DEF ConnInv, StopInv
  <2> QED
    BY <2>2, <2>3, <2>4, <2>5, <2>6
<1>4. CASE /\ forward[g] = "done"
           /\ serve' = [serve EXCEPT ![g] = "leaving"]
           /\ UNCHANGED <<ctrl, open, pipe, forward, events>>
  <2> USE <1>1, <1>4
  <2>1. TypeOK'
    BY DEF TypeOK
  <2>2. LoopInv' /\ ServesItsOwn'
    BY GenFacts DEF LoopInv, ServesItsOwn, TypeOK
  <2>3. ServeInv'
    BY GenFacts DEF ServeInv, TypeOK, Serving
  <2>4. LockInv'
    BY LocksKept DEF TypeOK, Starting
  <2>5. ConnInv' /\ StopInv'
    BY DEF ConnInv, StopInv
  <2> QED
    BY <2>1, <2>2, <2>3, <2>4, <2>5
<1> QED
  BY <1>2, <1>3, <1>4 DEF Reply

LEMMA ServeEndsKeeps ==
    ASSUME SupervisorIInv, NEW g \in Gens, ServeEnds(g)
    PROVE  SupervisorIInv'
<1> USE DEF SupervisorIInv, connVars, serveVars, loopVars, stopVars, progVars, userVars,
            ServeEnds, ConnAfter, TokenAfter
<1>0. open' \in [Gens -> BOOLEAN] /\ pipe' \in [Gens -> Seq(Requests)]
  BY DEF TypeOK
<1>1. TypeOK'
  BY <1>0, GenFacts DEF TypeOK
<1>2. LoopInv'
  BY DEF LoopInv, TypeOK
<1>3. ConnInv'
  BY DEF ConnInv, TypeOK
<1>4. ServesItsOwn'
  BY DEF ServesItsOwn, TypeOK
<1>5. ServeInv'
  BY GenFacts DEF ServeInv, TypeOK, Serving
<1>6. LockInv'
  BY LocksKept DEF TypeOK, Starting
<1>7. StopInv'
  BY DEF StopInv
<1> HIDE DEF ServeEnds, ConnAfter, TokenAfter
<1> QED
  BY <1>1, <1>2, <1>3, <1>4, <1>5, <1>6, <1>7 DEF SupervisorIInv

LEMMA ForwardEventKeeps ==
    ASSUME SupervisorIInv, NEW g \in Gens, ForwardEvent(g)
    PROVE  SupervisorIInv'
<1> USE DEF SupervisorIInv, connVars, serveVars, loopVars, stopVars, progVars, userVars
<1>1. /\ forward[g] = "running" /\ events # <<>>
      /\ UNCHANGED <<daemon, ctrl, conn, serveDone, serve, job, loopVars, stopVars, progVars,
                     userVars>>
  BY DEF ForwardEvent
<1>2. /\ events \in Seq(Instances) /\ forward \in [Gens -> {"none", "running", "done"}]
      /\ open \in [Gens -> BOOLEAN] /\ pipe \in [Gens -> Seq(Requests)]
  BY DEF TypeOK
<1>3. /\ open' \in [Gens -> BOOLEAN] /\ pipe' \in [Gens -> Seq(Requests)]
      /\ \A h \in Gens : open'[h] => open[h]
      /\ events' \in Seq(Instances)
      /\ forward' \in [Gens -> {"none", "running", "done"}]
      /\ \/ forward' = forward
         \/ forward' = [forward EXCEPT ![g] = "done"] /\ ~open'[g]
  <2>1. CASE open[g] /\ ctrl[g] \in {"booting", "ready", "leaving"}
    <3>1. events' = Tail(events) /\ UNCHANGED <<open, pipe, forward>>
      BY <2>1 DEF ForwardEvent, Alive
    <3>2. events' \in Seq(Instances)
      BY <1>1, <1>2, <3>1
    <3> QED
      BY <1>2, <3>1, <3>2
  <2>2. CASE ~(open[g] /\ ctrl[g] \in {"booting", "ready", "leaving"})
    <3>1. Close(g) /\ forward' = [forward EXCEPT ![g] = "done"] /\ events' = <<>>
      BY <2>2 DEF ForwardEvent, ForwardFails, Alive
    <3> QED
      BY <1>2, <3>1, CloseFacts
  <2> QED
    BY <2>1, <2>2
<1>4. TypeOK'
  BY <1>1, <1>3 DEF TypeOK
<1>5. /\ ~(g > gen)
      /\ \A h \in Gens : h # g => forward'[h] = forward[h]
      /\ UNCHANGED <<conn, serveDone, serve, ctrl, loop, gen, active>>
  BY <1>1, <1>2, <1>3 DEF LoopInv
<1>6. LoopInv'
  <2>1. \A h \in Gens : h > gen =>
           serve'[h] = "none" /\ forward'[h] = "none" /\ ctrl'[h] = "none" /\ ~open'[h]
    <3> SUFFICES ASSUME NEW h \in Gens, h > gen
                 PROVE  serve'[h] = "none" /\ forward'[h] = "none" /\ ctrl'[h] = "none"
                        /\ ~open'[h]
      OBVIOUS
    <3> QED
      BY <1>3, <1>5 DEF LoopInv
  <2> QED
    BY <1>5, <2>1 DEF LoopInv
<1>7. ServeInv'
  BY <1>1, <1>3, GenFacts DEF ServeInv, TypeOK
<1>8. ConnInv' /\ ServesItsOwn' /\ LockInv' /\ StopInv'
  BY <1>1 DEF ConnInv, ServesItsOwn, LockInv, StopInv
<1> QED
  BY <1>4, <1>6, <1>7, <1>8

LEMMA ForwardStopsKeeps ==
    ASSUME SupervisorIInv, NEW g \in Gens, ForwardStops(g)
    PROVE  SupervisorIInv'
<1> USE DEF SupervisorIInv, connVars, serveVars, loopVars, stopVars, progVars, userVars,
            ForwardStops
<1>1. TypeOK'
  BY DEF TypeOK
<1>2. LoopInv'
  BY DEF LoopInv, TypeOK
<1>3. ServeInv'
  BY DEF ServeInv, TypeOK
<1>4. ConnInv' /\ ServesItsOwn' /\ LockInv' /\ StopInv'
  BY DEF ConnInv, ServesItsOwn, LockInv, StopInv
<1> HIDE DEF ForwardStops
<1> QED
  BY <1>1, <1>2, <1>3, <1>4 DEF SupervisorIInv

LEMMA CloserFiresKeeps ==
    ASSUME SupervisorIInv, NEW c, CloserFires(c)
    PROVE  SupervisorIInv'
<1> USE DEF SupervisorIInv, connVars, serveVars, loopVars, stopVars, progVars, userVars,
            CloserFires, CloseIfAny
<1>0. /\ open' \in [Gens -> BOOLEAN] /\ pipe' \in [Gens -> Seq(Requests)]
      /\ \A h \in Gens : open'[h] => open[h]
  BY CloseIfAnyFacts DEF TypeOK
<1>1. TypeOK'
  BY <1>0, GenFacts DEF TypeOK
<1>2. LoopInv'
  BY <1>0, GenFacts DEF LoopInv, TypeOK
<1>3. ServeInv'
  BY <1>0, GenFacts DEF ServeInv, TypeOK, Serving
<1>4. ConnInv' /\ ServesItsOwn' /\ LockInv' /\ StopInv'
  BY DEF ConnInv, ServesItsOwn, LockInv, StopInv
<1> HIDE DEF CloserFires, CloseIfAny
<1> QED
  BY <1>1, <1>2, <1>3, <1>4 DEF SupervisorIInv

LEMMA SignalArrivesKeeps ==
    ASSUME SupervisorIInv, SignalArrives
    PROVE  SupervisorIInv'
<1> USE DEF SupervisorIInv, connVars, serveVars, loopVars, stopVars, progVars, userVars,
            SignalArrives
<1>1. TypeOK'
  BY DEF TypeOK
<1>2. StopInv'
  BY DEF StopInv, TypeOK
<1>3. LoopInv' /\ ConnInv' /\ ServesItsOwn' /\ ServeInv' /\ LockInv'
  BY DEF LoopInv, ConnInv, ServesItsOwn, ServeInv, LockInv
<1> HIDE DEF SignalArrives
<1> QED
  BY <1>1, <1>2, <1>3 DEF SupervisorIInv

LEMMA StopMarksKeeps ==
    ASSUME SupervisorIInv, NEW s \in Stoppers, StopMarks(s)
    PROVE  SupervisorIInv'
<1> USE DEF SupervisorIInv, connVars, serveVars, loopVars, stopVars, progVars, userVars,
            StopMarks
<1>1. TypeOK'
  BY DEF TypeOK
<1>2. StopInv'
  BY DEF StopInv, TypeOK
<1>3. LoopInv' /\ ConnInv' /\ ServesItsOwn' /\ ServeInv' /\ LockInv'
  BY DEF LoopInv, ConnInv, ServesItsOwn, ServeInv, LockInv
<1> HIDE DEF StopMarks
<1> QED
  BY <1>1, <1>2, <1>3 DEF SupervisorIInv

LEMMA StopListsKeeps ==
    ASSUME SupervisorIInv, NEW s \in Stoppers, StopLists(s)
    PROVE  SupervisorIInv'
<1> USE DEF SupervisorIInv, connVars, serveVars, loopVars, stopVars, progVars, userVars,
            StopLists, Listed
<1>1. TypeOK'
  BY DEF TypeOK
<1>2. StopInv'
  BY DEF StopInv, TypeOK
<1>3. LoopInv' /\ ConnInv' /\ ServesItsOwn' /\ ServeInv' /\ LockInv'
  BY DEF LoopInv, ConnInv, ServesItsOwn, ServeInv, LockInv
<1> HIDE DEF StopLists, Listed
<1> QED
  BY <1>1, <1>2, <1>3 DEF SupervisorIInv

LEMMA StopKillsKeeps ==
    ASSUME SupervisorIInv, NEW s \in Stoppers, NEW i \in Instances, StopKills(s, i)
    PROVE  SupervisorIInv'
<1> USE DEF SupervisorIInv, connVars, serveVars, loopVars, stopVars, progVars, userVars,
            StopKills
<1>1. TypeOK'
  BY DEF TypeOK
<1>2. StopInv'
  BY DEF StopInv, TypeOK
<1>3. LoopInv' /\ ConnInv' /\ ServesItsOwn' /\ ServeInv' /\ LockInv'
  BY DEF LoopInv, ConnInv, ServesItsOwn, ServeInv, LockInv
<1> HIDE DEF StopKills
<1> QED
  BY <1>1, <1>2, <1>3 DEF SupervisorIInv

LEMMA StopControllerKeeps ==
    ASSUME SupervisorIInv, NEW s \in Stoppers, StopController(s)
    PROVE  SupervisorIInv'
<1> USE DEF SupervisorIInv, connVars, serveVars, loopVars, stopVars, progVars, userVars,
            StopController, ProcessEnds
<1>0. active \in 0..MaxStarts
  BY GenFacts DEF TypeOK
<1>01. /\ open' \in [Gens -> BOOLEAN] /\ pipe' \in [Gens -> Seq(Requests)]
       /\ \A h \in Gens : open'[h] => open[h]
  <2>1. CASE active = 0 \/ ctrl[gen] = "gone"
    BY ZenonT(40), <2>1 DEF TypeOK
  <2>2. CASE ~(active = 0 \/ ctrl[gen] = "gone")
    BY <1>0, <2>2, CloseFacts, GenFacts DEF TypeOK
  <2> QED
    BY <2>1, <2>2
<1>1. TypeOK'
  BY ZenonT(40), <1>01, GenFacts DEF TypeOK
<1>2. LoopInv'
  <2>1. UNCHANGED <<conn, serveDone, serve, forward, loop, gen, active>>
    OBVIOUS
  <2>2. \A h \in Gens : h > gen => ctrl'[h] = ctrl[h]
    BY GenFacts DEF TypeOK
  <2> HIDE DEF StopController, ProcessEnds, connVars, serveVars, loopVars, stopVars
  <2>3. \A h \in Gens : h > gen =>
           serve'[h] = "none" /\ forward'[h] = "none" /\ ctrl'[h] = "none" /\ ~open'[h]
    BY <1>01, <2>1, <2>2 DEF LoopInv, TypeOK
  <2> QED
    BY <2>1, <2>3 DEF LoopInv
<1>3. ServeInv'
  BY <1>01, GenFacts DEF ServeInv, TypeOK, Serving
<1>4. StopInv'
  BY DEF StopInv, TypeOK
<1>5. ConnInv' /\ ServesItsOwn' /\ LockInv'
  BY DEF ConnInv, ServesItsOwn, LockInv
<1> HIDE DEF StopController, ProcessEnds
<1> QED
  BY <1>1, <1>2, <1>3, <1>4, <1>5 DEF SupervisorIInv

LEMMA StopWaitsKeeps ==
    ASSUME SupervisorIInv, NEW s \in Stoppers, StopWaits(s)
    PROVE  SupervisorIInv'
<1> USE DEF SupervisorIInv, connVars, serveVars, loopVars, stopVars, progVars, userVars,
            StopWaits, ProcessEnds
<1>1. TypeOK'
  BY DEF TypeOK
<1>2. LoopInv'
  BY DEF LoopInv, TypeOK
<1>3. ServeInv'
  BY DEF ServeInv, TypeOK
<1>4. ConnInv' /\ ServesItsOwn' /\ LockInv' /\ StopInv'
  BY DEF ConnInv, ServesItsOwn, LockInv, StopInv
<1> HIDE DEF StopWaits, ProcessEnds
<1> QED
  BY <1>1, <1>2, <1>3, <1>4 DEF SupervisorIInv

LEMMA AutoStartsKeeps ==
    ASSUME SupervisorIInv, NEW g \in Gens, NEW i \in Instances, AutoStarts(g, i)
    PROVE  SupervisorIInv'
<1> USE DEF SupervisorIInv, connVars, serveVars, loopVars, stopVars, progVars, userVars,
            AutoStarts, Sends
<1>1. TypeOK'
  BY RequestFacts DEF TypeOK
<1>2. LoopInv' /\ ConnInv' /\ ServesItsOwn' /\ ServeInv' /\ LockInv' /\ StopInv'
  BY DEF LoopInv, ConnInv, ServesItsOwn, ServeInv, LockInv, StopInv
<1> HIDE DEF AutoStarts, Sends
<1> QED
  BY <1>1, <1>2 DEF SupervisorIInv

LEMMA UserAsksKeeps ==
    ASSUME SupervisorIInv, NEW g \in Gens, NEW r \in UserRequests, UserAsks(g, r)
    PROVE  SupervisorIInv'
<1> USE DEF SupervisorIInv, connVars, serveVars, loopVars, stopVars, progVars, userVars,
            UserAsks, Sends
<1>1. TypeOK'
  BY RequestFacts, SupervisorAssumption DEF TypeOK
<1>2. LoopInv' /\ ConnInv' /\ ServesItsOwn' /\ ServeInv' /\ LockInv' /\ StopInv'
  BY DEF LoopInv, ConnInv, ServesItsOwn, ServeInv, LockInv, StopInv
<1> HIDE DEF UserAsks, Sends
<1> QED
  BY <1>1, <1>2 DEF SupervisorIInv

LEMMA LeavesKeeps ==
    ASSUME SupervisorIInv, NEW g \in Gens, Leaves(g)
    PROVE  SupervisorIInv'
<1> USE DEF SupervisorIInv, connVars, serveVars, loopVars, stopVars, progVars, userVars,
            Leaves
<1>1. TypeOK'
  BY DEF TypeOK
<1>2. LoopInv'
  BY DEF LoopInv, TypeOK
<1>3. ServeInv'
  BY DEF ServeInv, TypeOK
<1>4. ConnInv' /\ ServesItsOwn' /\ LockInv' /\ StopInv'
  BY DEF ConnInv, ServesItsOwn, LockInv, StopInv
<1> HIDE DEF Leaves
<1> QED
  BY <1>1, <1>2, <1>3, <1>4 DEF SupervisorIInv

LEMMA EndsKeeps ==
    ASSUME SupervisorIInv, NEW g \in Gens, Ends(g)
    PROVE  SupervisorIInv'
<1> USE DEF SupervisorIInv, connVars, serveVars, loopVars, stopVars, progVars, userVars,
            Ends, Alive
<1>1. TypeOK'
  BY DEF TypeOK
<1>2. LoopInv'
  BY DEF LoopInv, TypeOK
<1>3. ServeInv'
  BY DEF ServeInv, TypeOK
<1>4. ConnInv' /\ ServesItsOwn' /\ LockInv' /\ StopInv'
  BY DEF ConnInv, ServesItsOwn, LockInv, StopInv
<1> HIDE DEF Ends, Alive
<1> QED
  BY <1>1, <1>2, <1>3, <1>4 DEF SupervisorIInv

LEMMA ProgramReadsKeeps ==
    ASSUME SupervisorIInv, NEW i \in Instances, ProgramReads(i)
    PROVE  SupervisorIInv'
<1> USE DEF SupervisorIInv, connVars, serveVars, loopVars, stopVars, progVars, userVars,
            ProgramReads, WriteReturns
<1>0. mu[i] \in Gens /\ serve[mu[i]] = "writing" /\ job[mu[i]].ins = i
  BY DEF LockInv, ProgramReads
<1>1. LoopInv' /\ ServesItsOwn' /\ ServeInv'
  BY <1>0, ServeMoves DEF TypeOK, Serving, Working
<1>2. TypeOK'
  BY <1>0, GenFacts DEF TypeOK
<1>3. LockInv'
  BY <1>0, GenFacts DEF LockInv, TypeOK, Starting
<1>4. ConnInv' /\ StopInv'
  BY DEF ConnInv, StopInv
<1> HIDE DEF ProgramReads, WriteReturns
<1> QED
  BY <1>1, <1>2, <1>3, <1>4 DEF SupervisorIInv

LEMMA ProgramWritesKeeps ==
    ASSUME SupervisorIInv, NEW i \in Instances, ProgramWrites(i)
    PROVE  SupervisorIInv'
<1> USE DEF SupervisorIInv, connVars, serveVars, loopVars, stopVars, progVars, userVars,
            ProgramWrites
<1>1. TypeOK'
  BY DEF TypeOK
<1>2. LoopInv' /\ ConnInv' /\ ServesItsOwn' /\ ServeInv' /\ LockInv' /\ StopInv'
  BY DEF LoopInv, ConnInv, ServesItsOwn, ServeInv, LockInv, StopInv
<1> HIDE DEF ProgramWrites
<1> QED
  BY <1>1, <1>2 DEF SupervisorIInv

LEMMA ReaderTakesKeeps ==
    ASSUME SupervisorIInv, NEW i \in Instances, ReaderTakes(i)
    PROVE  SupervisorIInv'
<1> USE DEF SupervisorIInv, connVars, serveVars, loopVars, stopVars, progVars, userVars,
            ReaderTakes
<1>1. TypeOK'
  BY DEF TypeOK
<1>2. LoopInv' /\ ConnInv' /\ ServesItsOwn' /\ ServeInv' /\ LockInv' /\ StopInv'
  BY DEF LoopInv, ConnInv, ServesItsOwn, ServeInv, LockInv, StopInv
<1> HIDE DEF ReaderTakes
<1> QED
  BY <1>1, <1>2 DEF SupervisorIInv

LEMMA ProgramExitsKeeps ==
    ASSUME SupervisorIInv, NEW i \in Instances, ProgramExits(i)
    PROVE  SupervisorIInv'
<1> USE DEF SupervisorIInv, connVars, serveVars, loopVars, stopVars, progVars, userVars,
            ProgramExits
<1>1. TypeOK'
  BY DEF TypeOK
<1>2. StopInv'
  BY DEF StopInv, TypeOK
<1>3. LoopInv' /\ ConnInv' /\ ServesItsOwn' /\ ServeInv' /\ LockInv'
  BY DEF LoopInv, ConnInv, ServesItsOwn, ServeInv, LockInv
<1> HIDE DEF ProgramExits
<1> QED
  BY <1>1, <1>2, <1>3 DEF SupervisorIInv

LEMMA FinishExitKeeps ==
    ASSUME SupervisorIInv, NEW i \in Instances, FinishExit(i)
    PROVE  SupervisorIInv'
<1> USE DEF SupervisorIInv, connVars, serveVars, loopVars, stopVars, progVars, userVars,
            FinishExit
<1>1. TypeOK'
  BY DEF TypeOK
<1>2. StopInv'
  BY DEF StopInv, TypeOK
<1>3. LoopInv' /\ ConnInv' /\ ServesItsOwn' /\ ServeInv' /\ LockInv'
  BY DEF LoopInv, ConnInv, ServesItsOwn, ServeInv, LockInv
<1> HIDE DEF FinishExit
<1> QED
  BY <1>1, <1>2, <1>3 DEF SupervisorIInv

LEMMA SupervisorStart == ASSUME Init PROVE SupervisorIInv
<1> USE DEF Init
<1>1. <<>> \in Seq(Requests) /\ <<>> \in Seq(Instances)
  OBVIOUS
<1>2. TypeOK
  <2>1. /\ 0 \in 0..MaxStarts /\ 0 \in 0..MaxRequests
    BY SupervisorAssumption
  <2>2. /\ pipe \in [Gens -> Seq(Requests)] /\ events \in Seq(Instances)
        /\ job \in [Gens -> Requests \cup {NoRequest}]
    BY <1>1
  <2>3. /\ ctrl \in [Gens -> {"none", "booting", "ready", "leaving", "gone"}]
        /\ open \in [Gens -> BOOLEAN]
        /\ serve \in [Gens -> {"none", "launched", "reading", "dispatch", "starting",
                               "creating", "writing", "reply", "leaving", "done"}]
        /\ forward \in [Gens -> {"none", "running", "done"}]
    OBVIOUS
  <2>4. /\ stop \in [Stoppers -> {"idle", "asked", "listing", "killing", "waiting"}]
        /\ toKill \in [Stoppers -> SUBSET Instances]
    OBVIOUS
  <2>5. /\ mu \in [Instances -> 0..MaxStarts]
        /\ prog \in [Instances -> {"down", "up", "dying", "exited"}]
        /\ busy \in [Instances -> BOOLEAN]
    BY <2>1
  <2>6. /\ daemon \in {"up", "main", "stopper", "error"}
        /\ stopping \in BOOLEAN /\ pending \in BOOLEAN /\ late \in BOOLEAN
        /\ loop = "check" /\ gen = 0 /\ active = 0 /\ conn = 0 /\ serveDone = 0 /\ sent = 0
        /\ closers = {} /\ known = {} /\ missed = {} /\ unstarted = Instances
    OBVIOUS
  <2> HIDE DEF Init
  <2> QED
    BY <2>1, <2>2, <2>3, <2>4, <2>5, <2>6 DEF TypeOK
<1>3. LoopInv /\ ConnInv /\ ServesItsOwn
  BY GenFacts DEF LoopInv, ConnInv, ServesItsOwn
<1>4. ServeInv /\ LockInv /\ StopInv
  BY GenFacts DEF ServeInv, LockInv, StopInv, Serving, Starting
<1> QED
  BY <1>2, <1>3, <1>4 DEF SupervisorIInv

LEMMA LoopKeeps == ASSUME SupervisorIInv, LoopStep PROVE SupervisorIInv'
BY LoopChecksKeeps, FirstStartFailsKeeps, LoopStartsKeeps, LoopActivatesKeeps, BindConnKeeps,
   BindServeKeeps, LoopSeesExitKeeps, LoopAfterExitKeeps, LoopSettlesKeeps, LoopPausesKeeps
   DEF LoopStep

LEMMA ServeKeeps == ASSUME SupervisorIInv, NEW g \in Gens, ServeStep(g) PROVE SupervisorIInv'
BY ServeBeginsKeeps, ServeReadsKeeps, ServeReadFailsKeeps, DispatchListKeeps, DispatchStartKeeps,
   StartProgramKeeps, StartFailsKeeps, DispatchInputKeeps, WriteFailsKeeps, DispatchKillKeeps,
   DispatchRestartKeeps, DispatchStopKeeps, ReplyKeeps, ServeEndsKeeps
   DEF ServeStep

LEMMA StopKeeps == ASSUME SupervisorIInv, NEW s \in Stoppers, StopStep(s) PROVE SupervisorIInv'
BY StopMarksKeeps, StopListsKeeps, StopControllerKeeps, StopWaitsKeeps, StopKillsKeeps
   DEF StopStep

LEMMA SupervisorStutters == ASSUME SupervisorIInv, UNCHANGED vars PROVE SupervisorIInv'
<1> USE DEF SupervisorIInv, vars, connVars, serveVars, loopVars, stopVars, progVars, userVars
<1>1. TypeOK'
  BY DEF TypeOK
<1>2. LoopInv' /\ ConnInv' /\ ServesItsOwn'
  BY DEF LoopInv, ConnInv, ServesItsOwn
<1>3. ServeInv' /\ LockInv' /\ StopInv'
  BY DEF ServeInv, LockInv, StopInv
<1> QED
  BY <1>1, <1>2, <1>3

LEMMA SupervisorNext == ASSUME SupervisorIInv, [Next]_vars PROVE SupervisorIInv'
<1>1. CASE LoopStep
  BY <1>1, LoopKeeps
<1>2. CASE \E g \in Gens : ServeStep(g)
  BY <1>2, ServeKeeps
<1>3. CASE \E g \in Gens : ForwardStep(g)
  BY <1>3, ForwardEventKeeps, ForwardStopsKeeps DEF ForwardStep
<1>4. CASE SignalArrives \/ \E c \in closers : CloserFires(c)
  BY <1>4, SignalArrivesKeeps, CloserFiresKeeps
<1>5. CASE \E s \in Stoppers : StopStep(s)
  BY <1>5, StopKeeps
<1>6. CASE \E i \in Instances : ReaderTakes(i) \/ FinishExit(i)
  BY <1>6, ReaderTakesKeeps, FinishExitKeeps
<1>7. CASE \E g \in Gens : ControllerStep(g)
  BY <1>7, AutoStartsKeeps, UserAsksKeeps, LeavesKeeps, EndsKeeps DEF ControllerStep
<1>8. CASE \E i \in Instances : ProgramReads(i) \/ ProgramWrites(i) \/ ProgramExits(i)
  BY <1>8, ProgramReadsKeeps, ProgramWritesKeeps, ProgramExitsKeeps
<1>9. CASE UNCHANGED vars
  BY <1>9, SupervisorStutters
<1> QED
  BY <1>1, <1>2, <1>3, <1>4, <1>5, <1>6, <1>7, <1>8, <1>9 DEF Next, DaemonStep

\* The inductive invariant: where controllerLoop is, which connection and which
\* token are in place then, who holds an instance's lock, and what a stopper
\* still has on its list (daemon/controller.go, daemon/server.go).
THEOREM SupervisorInvariant == Spec => []SupervisorIInv
BY SupervisorStart, SupervisorNext, PTL DEF Spec

\* A Serve goroutine, however late it gets to run, finds the connection and the
\* token of the controller it was launched for (Serve in daemon/server.go).
THEOREM ServeFindsItsOwn == Spec => []ServesItsOwn
BY SupervisorInvariant, PTL DEF SupervisorIInv

-----------------------------------------------------------------------------
(* The properties.                                                          *)

LEMMA ConnStays ==
    ASSUME SupervisorIInv, [Next]_vars, conn # 0, conn' = 0
    PROVE  ~open[conn] \/ ctrl[conn] = "gone"
<1> USE DEF connVars, serveVars, loopVars, stopVars, progVars, userVars
<1>1. conn \in Gens /\ gen \in 0..MaxStarts
  BY GenFacts DEF SupervisorIInv, TypeOK
<1>2. CASE \E g \in Gens : ServeEnds(g)
  <2>1. PICK g \in Gens : ServeEnds(g)
    BY <1>2
  <2>2. conn = g /\ serve[g] = "leaving"
    BY <2>1 DEF ServeEnds, ConnAfter
  <2> QED
    BY <2>2 DEF SupervisorIInv, ServeInv
<1>3. CASE LoopStep
  <2>1. CASE BindConn
    BY <1>1, <2>1, GenFacts DEF SupervisorIInv, LoopInv, BindConn
  <2> QED
    BY <1>3, <2>1 DEF LoopStep, LoopChecks, MainEnds, FirstStartFails, LoopStarts, LoopActivates,
       BindServe, LoopSeesExit, LoopAfterExit, LoopSettles, LoopPauses
<1>4. ASSUME NEW g \in Gens, ServeStep(g), ~ServeEnds(g) PROVE conn' = conn
  BY <1>4 DEF ServeStep, ServeBegins, ServeReads, ServeReadFails, DispatchList, DispatchStart,
     StartProgram, StartFails, DispatchInput, WriteFails, WriteReturns, DispatchKill,
     DispatchRestart, DispatchStop, Reply
<1>5. ASSUME NEW g \in Gens, ForwardStep(g) PROVE conn' = conn
  BY <1>5 DEF ForwardStep, ForwardEvent, ForwardStops
<1>6. ASSUME SignalArrives \/ \E c \in closers : CloserFires(c) PROVE conn' = conn
  BY <1>6 DEF SignalArrives, CloserFires
<1>7. ASSUME NEW s \in Stoppers, StopStep(s) PROVE conn' = conn
  BY <1>7 DEF StopStep, StopMarks, StopLists, StopKills, StopController, StopWaits
<1>8. ASSUME NEW i \in Instances, ReaderTakes(i) \/ FinishExit(i) \/ ProgramReads(i)
             \/ ProgramWrites(i) \/ ProgramExits(i)
      PROVE  conn' = conn
  BY <1>8 DEF ReaderTakes, FinishExit, ProgramReads, WriteReturns, ProgramWrites, ProgramExits
<1>9. ASSUME NEW g \in Gens, ControllerStep(g) PROVE conn' = conn
  BY <1>9 DEF ControllerStep, AutoStarts, UserAsks, Sends, Leaves, Ends
<1>10. ASSUME UNCHANGED vars PROVE conn' = conn
  BY <1>10 DEF vars
<1> HIDE DEF connVars, serveVars, loopVars, stopVars, progVars, userVars
<1> QED
  BY <1>2, <1>3, <1>4, <1>5, <1>6, <1>7, <1>8, <1>9, <1>10 DEF Next, DaemonStep

\* s.Conn goes back to nil only when its connection is closed or its controller
\* is gone: an old Serve goroutine never takes the new connection away.
THEOREM ConnectionIsKept == Spec => ConnectionKept
<1>1. SupervisorIInv /\ [Next]_vars =>
          [conn # 0 /\ conn' = 0 => ~open[conn] \/ ctrl[conn] = "gone"]_vars
  BY ConnStays
<1> QED
  BY <1>1, SupervisorInvariant, PTL DEF Spec, ConnectionKept

\* A forwarder that ends drains the shared event channel; whatever it does, it
\* never does so under the Serve goroutine of a later controller, unless Bind
\* gave up waiting for it.
THEOREM EventsAreNotStolen == Spec => EventsNotStolen
<1> DEFINE Drains(g) == forward[g] = "running" /\ forward'[g] = "done" /\ events # <<>>
           Allowed(g) == conn \in {0, g} \/ serve[conn] = "none" \/ late
<1>1. ASSUME SupervisorIInv, NEW g \in Gens, Drains(g) PROVE Allowed(g)
  <2>1. serve[g] \in Serving
    BY <1>1 DEF SupervisorIInv, ServeInv
  <2>2. CASE serveDone = g
    BY <1>1, <2>2 DEF SupervisorIInv, ConnInv, LoopInv
  <2>3. CASE late
    BY <2>3
  <2> QED
    BY <1>1, <2>1, <2>2, <2>3 DEF SupervisorIInv, ServeInv
<1>2. SupervisorIInv => [\A g \in Gens : Drains(g) => Allowed(g)]_vars
  BY <1>1
<1> QED
  BY <1>2, SupervisorInvariant, PTL DEF Spec, EventsNotStolen

LEMMA StopperMisses ==
    ASSUME SupervisorIInv, ShutdownMissesNothing, [Next]_vars
    PROVE  ShutdownMissesNothing'
<1> USE DEF connVars, serveVars, loopVars, stopVars, progVars, userVars, ShutdownMissesNothing
<1>1. ASSUME NEW s \in Stoppers, StopController(s), daemon' = "stopper"
      PROVE  ShutdownMissesNothing'
  BY <1>1 DEF StopController, SupervisorIInv, StopInv
<1>2. ASSUME NEW s \in Stoppers, StopWaits(s) PROVE ShutdownMissesNothing'
  BY <1>2 DEF StopWaits, SupervisorIInv, StopInv
<1>3. ASSUME NEW s \in Stoppers, StopMarks(s) \/ StopLists(s) \/ \E i \in Instances : StopKills(s, i)
      PROVE  daemon' = "up"
  BY <1>3 DEF StopMarks, StopLists, StopKills
<1>4. ASSUME LoopStep PROVE daemon' # "stopper"
  BY <1>4 DEF LoopStep, LoopChecks, MainEnds, ProcessEnds, FirstStartFails, LoopStarts,
     LoopActivates, BindConn, BindServe, LoopSeesExit, LoopAfterExit, LoopSettles, LoopPauses
<1>5. ASSUME NEW g \in Gens, ServeStep(g) PROVE daemon' = "up"
  BY <1>5 DEF ServeStep, ServeBegins, ServeReads, ServeReadFails, DispatchList, DispatchStart,
     StartProgram, StartFails, DispatchInput, WriteFails, WriteReturns, DispatchKill,
     DispatchRestart, DispatchStop, Reply, ServeEnds, Dispatches
<1>6. ASSUME NEW g \in Gens, ForwardStep(g) PROVE daemon' = "up"
  BY <1>6 DEF ForwardStep, ForwardEvent, ForwardStops
<1>7. ASSUME SignalArrives \/ \E c \in closers : CloserFires(c) PROVE daemon' = "up"
  BY <1>7 DEF SignalArrives, CloserFires
<1>8. ASSUME NEW i \in Instances, ReaderTakes(i) \/ FinishExit(i) \/ ProgramReads(i)
             \/ ProgramWrites(i) \/ ProgramExits(i)
      PROVE  daemon' = "up"
  BY <1>8 DEF ReaderTakes, FinishExit, ProgramReads, WriteReturns, ProgramWrites, ProgramExits
<1>9. ASSUME NEW g \in Gens, ControllerStep(g) PROVE daemon' = "up"
  BY <1>9 DEF ControllerStep, AutoStarts, UserAsks, Sends, Leaves, Ends
<1>10. ASSUME UNCHANGED vars PROVE ShutdownMissesNothing'
  BY <1>10 DEF vars
<1>11. ASSUME NEW s \in Stoppers, StopStep(s) PROVE ShutdownMissesNothing'
  <2>1. daemon' # "stopper" => ShutdownMissesNothing'
    OBVIOUS
  <2> HIDE DEF ShutdownMissesNothing
  <2> QED
    BY <1>1, <1>2, <1>3, <1>11, <2>1 DEF StopStep
<1>12. daemon' # "stopper" => ShutdownMissesNothing'
  OBVIOUS
<1> HIDE DEF connVars, serveVars, loopVars, stopVars, progVars, userVars, ShutdownMissesNothing
<1> QED
  BY <1>4, <1>5, <1>6, <1>7, <1>8, <1>9, <1>10, <1>11, <1>12 DEF Next, DaemonStep

\* A signal or a stop request that gets to end the daemon leaves no program
\* behind but those whose start was served while it was at work
\* (shutdownAllInstances in daemon/controller.go).
THEOREM StopperMissesNothing == Spec => []ShutdownMissesNothing
<1>1. Init => ShutdownMissesNothing
  BY DEF Init, ShutdownMissesNothing
<1> QED
  BY <1>1, SupervisorInvariant, StopperMisses, PTL DEF Spec

-----------------------------------------------------------------------------
(* Why the loop and a stopper go on: whatever they wait for either can move *)
(* or is held up by an input that its program does not take.                *)

\* An input to a program keeps that instance locked.
InputHangs == \E i \in Instances : mu[i] # 0

\* A Serve goroutine gets nowhere only while some input hangs.
OnlyInputHoldsUp == \A g \in Gens : Stuck(g) => InputHangs

\* The guards of ServeStep and of ForwardStops, case by case, for a connection
\* that is closed or whose controller is gone.
ServeCanStep(g) ==
    \/ serve[g] \in {"launched", "reading"}
    \/ serve[g] = "dispatch" /\ job[g] \in Requests /\ ~WaitsForInstance(g)
          /\ IF job[g].op = "start" THEN CanStart(g) ELSE CanLookUp
    \/ serve[g] \in Starting /\ mu[job[g].ins] = 0
    \/ serve[g] \in {"reply", "leaving"} /\ forward[g] \in {"running", "done"}

\* Bind and the end of a controller wait only for a Serve goroutine that reads
\* from a controller which is gone, and that can move or hangs in an input.
LoopServed ==
    loop \in {"bindWait", "settle"} /\ serveDone # 0 =>
        /\ ctrl[serveDone] = "gone"
        /\ Stuck(serveDone) \/ ServeCanStep(serveDone)

\* The guards of StopStep, case by case.
StopCanStep(s) ==
    \/ stop[s] \in {"asked", "waiting"}
    \/ stop[s] = "listing" /\ CanLookUp
    \/ stop[s] = "killing" /\ (toKill[s] = {} \/ \E i \in toKill[s] : mu[i] = 0)

\* A stopper that was asked for can go on or waits behind an input that hangs.
StopperMovesOn ==
    \A s \in Stoppers : stop[s] # "idle" => StopCanStep(s) \/ InputHangs

\* Outside "watch" what is left to wait for belongs to a controller that is gone;
\* a Serve goroutine that has begun has a forwarder; what it dispatches was read.
Staffing ==
    /\ loop = "watch" => serveDone \in {0, gen}
    /\ loop # "watch" /\ serveDone # 0 => ctrl[serveDone] = "gone"
    /\ \A g \in Gens : serve[g] \in Serving \ {"launched"} => forward[g] # "none"
    /\ \A g \in Gens : serve[g] = "dispatch" => job[g] \in Requests

LEMMA StuckFacts == SupervisorIInv => OnlyInputHoldsUp
<1> SUFFICES ASSUME SupervisorIInv, NEW g \in Gens, Stuck(g) PROVE InputHangs
  BY DEF OnlyInputHoldsUp
<1>1. ASSUME NEW h \in Gens, WaitsForInstance(h) PROVE InputHangs
  BY <1>1, RequestFacts DEF WaitsForInstance, InputHangs, SupervisorIInv, TypeOK
<1>2. ASSUME NEW h \in Gens, ManagerRead(h) PROVE InputHangs
  BY <1>1, <1>2 DEF ManagerRead
<1>3. ASSUME NEW h \in Gens, ManagerLocked(h) PROVE InputHangs
  BY <1>1, <1>2, <1>3 DEF ManagerLocked
<1>4. CASE serve[g] = "writing"
  <2>1. job[g].ins \in Instances /\ mu[job[g].ins] = g
    BY <1>4, RequestFacts DEF SupervisorIInv, LockInv, TypeOK, InstanceOps
  <2> QED
    BY <2>1, GenFacts DEF InputHangs
<1>5. ~CanLookUp => InputHangs
  BY <1>3 DEF CanLookUp
<1>6. ~CanStart(g) => InputHangs
  BY <1>2, <1>3 DEF CanStart
<1>7. CASE serve[g] \in Starting /\ mu[job[g].ins] # 0
  <2>1. job[g].ins \in Instances
    BY <1>7, RequestFacts DEF SupervisorIInv, LockInv, TypeOK, InstanceOps
  <2> QED
    BY <1>7, <2>1 DEF InputHangs
<1> QED
  BY <1>1, <1>4, <1>5, <1>6, <1>7 DEF Stuck

\* A Serve goroutine that hangs is held up by an input that its program does not
\* take, and by nothing else: without such an input every request is served
\* (the locks of manager.go and instance.go, and WriteStdin).
THEOREM OnlyInputHolds == Spec => []OnlyInputHoldsUp
BY StuckFacts, SupervisorInvariant, PTL

LEMMA LoopStaffs ==
    ASSUME SupervisorIInv, Staffing, LoopStep PROVE Staffing'
<1> USE DEF connVars, serveVars, loopVars, stopVars, progVars, userVars
<1>1. ASSUME LoopChecks \/ FirstStartFails \/ LoopActivates \/ BindConn \/ LoopAfterExit
             \/ LoopSettles \/ LoopPauses
      PROVE  Staffing'
  BY <1>1 DEF Staffing, LoopChecks, MainEnds, FirstStartFails, LoopActivates, BindConn,
     LoopAfterExit, LoopSettles, LoopPauses
<1>2. ASSUME LoopStarts PROVE Staffing'
  BY <1>2, GenFacts DEF Staffing, LoopStarts, SupervisorIInv, TypeOK, LoopInv
<1>3. ASSUME BindServe PROVE Staffing'
  BY <1>3, GenFacts DEF Staffing, BindServe, SupervisorIInv, TypeOK, Serving
<1>4. ASSUME LoopSeesExit PROVE Staffing'
  BY <1>4 DEF Staffing, LoopSeesExit
<1> HIDE DEF connVars, serveVars, loopVars, stopVars, progVars, userVars
<1> QED
  BY <1>1, <1>2, <1>3, <1>4 DEF LoopStep

LEMMA ServeStaffs ==
    ASSUME SupervisorIInv, Staffing, NEW g \in Gens, ServeStep(g) PROVE Staffing'
<1> USE DEF connVars, serveVars, loopVars, stopVars, progVars, userVars
<1>0. /\ ctrl \in [Gens -> {"none", "booting", "ready", "leaving", "gone"}]
      /\ forward \in [Gens -> {"none", "running", "done"}]
      /\ job \in [Gens -> Requests \cup {NoRequest}] /\ pipe \in [Gens -> Seq(Requests)]
      /\ serve \in [Gens -> Serving \cup {"none", "done"}]
      /\ serveDone \in 0..MaxStarts
  BY DEF SupervisorIInv, TypeOK, Serving
<1>1. UNCHANGED <<loop, gen>> /\ serveDone' \in {0, serveDone}
  BY DEF ServeStep, ServeBegins, ServeReads, ServeReadFails, DispatchList, DispatchStart,
     StartProgram, StartFails, DispatchInput, WriteFails, WriteReturns, DispatchKill,
     DispatchRestart, DispatchStop, Reply, ServeEnds, TokenAfter
<1>2. \/ UNCHANGED ctrl
      \/ Alive(g) /\ ctrl' = [ctrl EXCEPT ![g] = AfterAnswer(g)]
  BY DEF ServeStep, ServeBegins, ServeReads, ServeReadFails, DispatchList, DispatchStart,
     StartProgram, StartFails, DispatchInput, WriteFails, WriteReturns, DispatchKill,
     DispatchRestart, DispatchStop, Reply, ServeEnds
<1>3. \A h \in Gens : ctrl[h] = "gone" => ctrl'[h] = "gone"
  BY <1>0, <1>2 DEF Alive
<1>4. \A h \in Gens : h # g => serve'[h] = serve[h] /\ job'[h] = job[h] /\ forward'[h] = forward[h]
  BY <1>0 DEF ServeStep, ServeBegins, ServeReads, ServeReadFails, DispatchList, DispatchStart,
     StartProgram, StartFails, DispatchInput, WriteFails, WriteReturns, DispatchKill,
     DispatchRestart, DispatchStop, Reply, ServeEnds, ForwardFails, AnswerNext
<1>5. ServeBegins(g) \/ (serve[g] \in Serving \ {"launched"} /\ forward'[g] \in {forward[g], "done"})
  BY <1>0 DEF ServeStep, ServeBegins, ServeReads, ServeReadFails, DispatchList, DispatchStart,
     StartProgram, StartFails, DispatchInput, WriteFails, WriteReturns, DispatchKill, Dispatches,
     DispatchRestart, DispatchStop, Reply, ServeEnds, ForwardFails, Serving, Starting
<1>6. serve'[g] \in Serving \ {"launched"} => forward'[g] # "none"
  BY <1>0, <1>5 DEF Staffing, ServeBegins
<1>7. serve'[g] = "dispatch" => job'[g] \in Requests
  <2>1. ASSUME ServeReads(g) PROVE job'[g] \in Requests
    <3>1. pipe[g] \in Seq(Requests) /\ pipe[g] # <<>>
      BY <1>0, <2>1 DEF ServeReads
    <3>2. Head(pipe[g]) \in Requests
      BY <3>1
    <3> QED
      BY <1>0, <2>1, <3>2 DEF ServeReads
  <2>2. ASSUME ~ServeReads(g) PROVE serve'[g] # "dispatch"
    BY <1>0, <2>2 DEF ServeStep, ServeBegins, ServeReadFails, DispatchList, DispatchStart,
       StartProgram, StartFails, DispatchInput, WriteFails, WriteReturns, DispatchKill,
       DispatchRestart, DispatchStop, Reply, ServeEnds, AnswerNext
  <2> QED
    BY <2>1, <2>2
<1> HIDE DEF connVars, serveVars, loopVars, stopVars, progVars, userVars
<1>8. serveDone' # 0 => serveDone' \in Gens
  BY <1>0, <1>1, GenFacts
<1>9. /\ loop' = "watch" => serveDone' \in {0, gen'}
      /\ loop' # "watch" /\ serveDone' # 0 => ctrl'[serveDone'] = "gone"
  BY <1>1, <1>3, <1>8 DEF Staffing
<1> QED
  BY <1>4, <1>6, <1>7, <1>9 DEF Staffing

LEMMA OthersStaff ==
    ASSUME SupervisorIInv, Staffing, [Next]_vars, ~LoopStep, ~\E g \in Gens : ServeStep(g)
    PROVE  Staffing'
<1> USE DEF connVars, serveVars, loopVars, stopVars, progVars, userVars
<1>0. /\ forward \in [Gens -> {"none", "running", "done"}] /\ serveDone \in 0..MaxStarts
      /\ ctrl \in [Gens -> {"none", "booting", "ready", "leaving", "gone"}]
      /\ serve \in [Gens -> Serving \cup {"none", "done"}] /\ active \in {0, gen}
      /\ gen \in 0..MaxStarts /\ mu \in [Instances -> 0..MaxStarts]
      /\ job \in [Gens -> Requests \cup {NoRequest}]
  BY DEF SupervisorIInv, TypeOK, Serving
<1> DEFINE Kept == /\ UNCHANGED <<loop, gen, serveDone>>
                   /\ \A g \in Gens : ctrl[g] = "gone" => ctrl'[g] = "gone"
                   /\ \A g \in Gens : forward'[g] \in {forward[g], "done"}
                   /\ \A g \in Gens : \/ serve'[g] = serve[g] /\ job'[g] = job[g]
                                      \/ serve[g] = "writing" /\ serve'[g] = "reading"
<1>1. ASSUME NEW g \in Gens, ForwardStep(g) PROVE Kept
  BY <1>0, <1>1 DEF ForwardStep, ForwardEvent, ForwardFails, ForwardStops
<1>2. ASSUME SignalArrives \/ \E c \in closers : CloserFires(c) PROVE Kept
  BY <1>2 DEF SignalArrives, CloserFires
<1>3. ASSUME NEW s \in Stoppers, StopStep(s) PROVE Kept
  BY <1>0, <1>3 DEF StopStep, StopMarks, StopLists, StopKills, StopController, StopWaits
<1>4. ASSUME NEW i \in Instances, ReaderTakes(i) \/ FinishExit(i) \/ ProgramWrites(i) \/ ProgramExits(i)
      PROVE  Kept
  BY <1>4 DEF ReaderTakes, FinishExit, ProgramWrites, ProgramExits
<1>5. ASSUME NEW i \in Instances, ProgramReads(i) PROVE Kept
  <2>1. mu[i] \in Gens /\ serve[mu[i]] = "writing"
    BY <1>5 DEF ProgramReads, SupervisorIInv, LockInv
  <2> QED
    BY <1>0, <1>5, <2>1 DEF ProgramReads, WriteReturns
<1>6. ASSUME NEW g \in Gens, ControllerStep(g) PROVE Kept
  BY <1>0, <1>6 DEF ControllerStep, AutoStarts, UserAsks, Sends, Leaves, Ends
<1>7. ASSUME UNCHANGED vars PROVE Kept
  BY <1>7 DEF vars
<1> HIDE DEF connVars, serveVars, loopVars, stopVars, progVars, userVars, Kept
<1>8. Kept
  BY <1>1, <1>2, <1>3, <1>4, <1>5, <1>6, <1>7 DEF Next, DaemonStep
<1> QED
  BY <1>0, <1>8, GenFacts DEF Kept, Staffing, Serving

LEMMA StaffingInvariant == Spec => []Staffing
<1>1. Init => Staffing
  BY DEF Init, Staffing, Serving
<1>2. SupervisorIInv /\ Staffing /\ [Next]_vars => Staffing'
  BY LoopStaffs, ServeStaffs, OthersStaff
<1> QED
  BY <1>1, <1>2, SupervisorInvariant, PTL DEF Spec

\* controllerLoop never waits for a goroutine that has nothing to do: Bind and
\* WaitServeDone wait for a Serve whose controller is gone and which can take its
\* next step, unless an input hangs.
THEOREM LoopIsServed == Spec => []LoopServed
<1>1. SupervisorIInv /\ Staffing => LoopServed
  <2> SUFFICES ASSUME SupervisorIInv, Staffing, loop \in {"bindWait", "settle"}, serveDone # 0
               PROVE  ctrl[serveDone] = "gone" /\ (Stuck(serveDone) \/ ServeCanStep(serveDone))
    BY DEF LoopServed
  <2>1. serveDone \in Gens /\ ctrl[serveDone] = "gone"
    BY GenFacts DEF SupervisorIInv, TypeOK, Staffing
  <2>2. serve[serveDone] \in Serving
    BY <2>1 DEF SupervisorIInv, ServeInv
  <2>3. serve[serveDone] \in Serving \ {"launched"} => forward[serveDone] \in {"running", "done"}
    BY <2>1 DEF SupervisorIInv, TypeOK, Staffing
  <2>4. serve[serveDone] = "dispatch" => job[serveDone] \in Requests
    BY <2>1 DEF Staffing
  <2> QED
    BY <2>1, <2>2, <2>3, <2>4 DEF Serving, Stuck, ServeCanStep, Starting
<1> QED
  BY <1>1, SupervisorInvariant, StaffingInvariant, PTL

\* A stopper never waits but for an input that hangs (shutdownAllInstances and
\* shutdownController in daemon/controller.go).
THEOREM StoppersMoveOn == Spec => []StopperMovesOn
<1>1. SupervisorIInv => StopperMovesOn
  <2> SUFFICES ASSUME SupervisorIInv, NEW s \in Stoppers, stop[s] # "idle", ~InputHangs
               PROVE  StopCanStep(s)
    BY DEF StopperMovesOn
  <2>1. CanLookUp
    <3>1. ASSUME NEW h \in Gens PROVE ~WaitsForInstance(h)
      BY RequestFacts DEF WaitsForInstance, InputHangs, SupervisorIInv, TypeOK
    <3> QED
      BY <3>1 DEF CanLookUp, ManagerLocked, ManagerRead
  <2> QED
    BY <2>1 DEF StopCanStep, InputHangs, SupervisorIInv, TypeOK
<1> QED
  BY <1>1, SupervisorInvariant, PTL

LEMMA OnlyBindIsLate ==
    ASSUME SupervisorIInv, [Next]_vars, ~late, ~InputHangs PROVE ~late'
<1> USE DEF connVars, serveVars, loopVars, stopVars, progVars, userVars
<1>1. ASSUME BindServe PROVE ~late'
  <2>1. serveDone # 0 => serveDone \in Gens
    BY GenFacts DEF SupervisorIInv, TypeOK
  <2> QED
    BY <1>1, <2>1, StuckFacts DEF BindServe, MayServe, OnlyInputHoldsUp
<1>2. ASSUME LoopStep, ~BindServe PROVE UNCHANGED late
  BY <1>2 DEF LoopStep, LoopChecks, MainEnds, FirstStartFails, LoopStarts, LoopActivates,
     BindConn, LoopSeesExit, LoopAfterExit, LoopSettles, LoopPauses
<1>3. ASSUME NEW g \in Gens, ServeStep(g) PROVE UNCHANGED late
  BY <1>3 DEF ServeStep, ServeBegins, ServeReads, ServeReadFails, DispatchList, DispatchStart,
     StartProgram, StartFails, DispatchInput, WriteFails, WriteReturns, DispatchKill,
     DispatchRestart, DispatchStop, Reply, ServeEnds
<1>4. ASSUME NEW g \in Gens, ForwardStep(g) \/ ControllerStep(g) PROVE UNCHANGED late
  BY <1>4 DEF ForwardStep, ForwardEvent, ForwardStops, ControllerStep, AutoStarts, UserAsks,
     Sends, Leaves, Ends
<1>5. ASSUME SignalArrives \/ (\E c \in closers : CloserFires(c)) \/ UNCHANGED vars
      PROVE  UNCHANGED late
  BY <1>5 DEF SignalArrives, CloserFires, vars
<1>6. ASSUME NEW s \in Stoppers, StopStep(s) PROVE UNCHANGED late
  BY <1>6 DEF StopStep, StopMarks, StopLists, StopKills, StopController, StopWaits
<1>7. ASSUME NEW i \in Instances, ReaderTakes(i) \/ FinishExit(i) \/ ProgramReads(i)
             \/ ProgramWrites(i) \/ ProgramExits(i)
      PROVE  UNCHANGED late
  BY <1>7 DEF ReaderTakes, FinishExit, ProgramReads, WriteReturns, ProgramWrites, ProgramExits
<1> HIDE DEF connVars, serveVars, loopVars, stopVars, progVars, userVars
<1> QED
  BY <1>1, <1>2, <1>3, <1>4, <1>5, <1>6, <1>7 DEF Next, DaemonStep

\* Where no input hangs Bind always waits its predecessor out: two Serve
\* goroutines are never at work, and the exception that the properties above
\* make for a timeout is never used (Bind in daemon/server.go).
THEOREM BindWaitsItOut == Spec /\ []~InputHangs => [](~late)
<1>1. Init => ~late
  BY DEF Init
<1>2. SupervisorIInv /\ ~InputHangs /\ ~late /\ [Next]_vars => ~late'
  BY OnlyBindIsLate
<1> QED
  BY <1>1, <1>2, SupervisorInvariant, PTL DEF Spec

=============================================================================
