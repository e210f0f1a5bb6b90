---------------------------- MODULE UploadQueue ----------------------------
(***************************************************************************)
(* The upload page of the create dialogue (module/fileCreateModal.js and   *)
(* the upload calls of api/file.js) with the upload sessions of the server *)
(* (web/api/file_upload.go).                                               *)
(*                                                                         *)
(* An item is one choice of a file, or an empty directory a folder scan    *)
(* found; it is chosen once.  A session is named by its item and by the    *)
(* submit that made it.  A file is UpChunks chunks; what they hold is not  *)
(* modelled, only which of them the server has.                            *)
(***************************************************************************)
EXTENDS Naturals, FiniteSets

CONSTANTS UpFiles,    \* files that may be chosen
          UpDirs,     \* empty directories that may be found
          UpKids,     \* the files and directories inside the dropped folder
          UpName,     \* getUploadItemDedupKey of an item
          UpChunks,   \* chunks of a file (1 to 4096 in the code)
          UpLimit,    \* fileUploadConcurrency (4 in the code)
          UpTries,    \* fileUploadChunkRetryCount (7 in the code)
          UpSubmits,  \* bound: presses of UPLOAD
          UpFaults,   \* bound: answers lost and steps of the server failing
          UpRemoves,  \* bound: items removed and dialogues closed
          UpEvents    \* bound: all of these together

UpItems == UpFiles \cup UpDirs

ASSUME UpAssumption ==
  /\ UpKids \subseteq UpItems /\ UpDirs \subseteq UpKids
  /\ UpFiles \cap UpDirs = {}
  /\ DOMAIN UpName = UpItems
  /\ {UpChunks, UpLimit, UpTries, UpSubmits} \subseteq Nat \ {0}
  /\ {UpFaults, UpRemoves, UpEvents} \subseteq Nat

VARIABLES
  upList,    \* fileUploadItems: the status of each item, "new" before it is
             \* chosen and "gone" after it left the list
  upLocked,  \* fileUploadLocked
  upAwait,   \* fileUploadAwaitConfirm: the button says CONFIRM
  upEarly,   \* history: CONFIRM was offered while another run was under way
  upScan,    \* the dropped folder: "none", "scanning" or "over"
  upReading, \* dropped files that readDroppedUploadItems is reading
  upRun,     \* uploadSelectedFiles of the current token
  upEnding,  \* the items of runs whose list reload is awaited
  upTaken,   \* history: the items of the runs that ended
  upCtx,     \* the upload context of each item
  upAsk,     \* init requests: [sid, at]
  upReq,     \* chunk and complete requests: [sid, part, at, live]
  upAbort,   \* sessions with an abort request on its way
  upSess,    \* uploads.sessions of the server: [st, got]
  upCut,     \* history: sessions whose abort the server accepted
  upStored,  \* history: sessions whose file was put in its place
  upMade,    \* history: empty directories made
  upCount    \* history: how often each bounded input happened

upOffer == <<upAwait, upEarly>>
upEnded == <<upEnding, upTaken>>
upPage == <<upList, upLocked, upOffer, upScan, upReading, upEnded>>
upNet == <<upAsk, upReq, upAbort>>
upServer == <<upSess, upCut, upStored>>
upVars == <<upPage, upRun, upCtx, upNet, upServer, upMade, upCount>>

UpSids == UpFiles \X (1..UpSubmits)
UpParts == 0..UpChunks     \* 0 is the complete request
NoUpRun == [at |-> "idle", k |-> 0, item |-> "", left |-> {}, all |-> {},
            won |-> FALSE, fin |-> FALSE]
NoCtx == [at |-> "none", k |-> 0, dead |-> FALSE, next |-> 1, fly |-> {},
          tries |-> [c \in UpParts |-> 0], known |-> FALSE]
NoUpSess == [st |-> "none", got |-> {}]

UpListed(list, i) == list[i] \notin {"new", "gone"}
Leaves == {i \in UpItems : UpListed(upList, i)}
HasFailedUploads(list) == \E i \in UpItems : list[i] = "FAILED"
UpLive(i) == upCtx[i].at \in {"init", "up", "merge"} /\ ~upCtx[i].dead
UpSid(i) == <<i, upCtx[i].k>>
UpUsed(k) == CASE k = "submit" -> UpSubmits [] k = "fault" -> UpFaults
               [] k = "remove" -> UpRemoves
UpCounted(k) == /\ upCount[k] < UpUsed(k)
                /\ upCount["submit"] + upCount["fault"] + upCount["remove"]
                     < UpEvents
                /\ upCount' = [upCount EXCEPT ![k] = @ + 1]

UpStatus == {"new", "gone", "WAITING", "UPLOADING", "MERGING", "DONE", "FAILED"}
UpRuns == [at : {"idle", "scan", "init", "mkdir", "race", "tail"},
           k : 0..UpSubmits, item : UpItems \cup {""}, left : SUBSET UpItems,
           all : SUBSET UpItems, won : BOOLEAN, fin : BOOLEAN]
UpContexts == [at : {"none", "init", "up", "merge", "over"},
               k : 0..UpSubmits, dead : BOOLEAN, next : 1..(UpChunks + 1),
               fly : SUBSET (1..UpChunks), tries : [UpParts -> 0..UpTries],
               known : BOOLEAN]
UpAsks == [sid : UpSids, at : {"sent", "made", "bad"}]
UpRequests == [sid : UpSids, part : UpParts, live : BOOLEAN,
               at : {"sent", "write", "commit", "wait", "ok", "done", "err"}]
UpSessions == [st : {"none", "active", "completing", "committed", "canceled"},
               got : SUBSET (1..UpChunks)]

UpTypeOK ==
  /\ upList \in [UpItems -> UpStatus]
  /\ {upLocked, upAwait, upEarly} \subseteq BOOLEAN
  /\ upScan \in {"none", "scanning", "over"}
  /\ upReading \subseteq UpFiles
  /\ upRun \in UpRuns
  /\ upEnding \subseteq SUBSET UpItems /\ upTaken \subseteq UpItems
  /\ upCtx \in [UpFiles -> UpContexts]
  /\ upAsk \subseteq UpAsks /\ upReq \subseteq UpRequests
  /\ upAbort \subseteq UpSids
  /\ upSess \in [UpSids -> UpSessions]
  /\ upCut \subseteq UpSids /\ upStored \subseteq UpSids
  /\ upMade \subseteq UpDirs
  /\ upCount \in [{"submit", "fault", "remove"} -> Nat]

UpInit ==
  /\ upList = [i \in UpItems |-> "new"]
  /\ upLocked = FALSE /\ upAwait = FALSE /\ upEarly = FALSE
  /\ upScan = "none" /\ upReading = {}
  /\ upRun = NoUpRun /\ upEnding = {} /\ upTaken = {}
  /\ upCtx = [i \in UpFiles |-> NoCtx]
  /\ upAsk = {} /\ upReq = {} /\ upAbort = {}
  /\ upSess = [s \in UpSids |-> NoUpSess]
  /\ upCut = {} /\ upStored = {} /\ upMade = {}
  /\ upCount = [k \in {"submit", "fault", "remove"} |-> 0]

-----------------------------------------------------------------------------
(* Giving up contexts: the XHRs are aborted and the server is told, if the  *)
(* session is known.  While init is under way the session is not: the flag  *)
(* remoteAbortRequested is set, nothing is sent, and nothing is sent later. *)

CutSids(I) == {UpSid(i) : i \in {j \in I \cap UpFiles : UpLive(j)}}
CutCtx(cx, I) == [i \in UpFiles |->
  IF i \in I /\ UpLive(i) THEN [cx[i] EXCEPT !.dead = TRUE] ELSE cx[i]]
CutReq(reqs, I) == {[q EXCEPT !.live = @ /\ q.sid \notin CutSids(I)] : q \in reqs}
CutTold(I) == {s \in CutSids(I) : upCtx[s[1]].at # "init"}

-----------------------------------------------------------------------------
(* Choosing files.  appendFileUploadItemsWithItems replaces an item of the  *)
(* same name; a choice in the file dialogue is refused while an upload      *)
(* runs, a drop only when it begins.                                        *)

AppendItem(i) ==
  LET twins == {j \in Leaves \ UpKids : UpName[j] = UpName[i]}
  IN /\ upAwait' = FALSE
     /\ upList' = [j \in UpItems |-> IF j = i THEN "WAITING"
                                     ELSE IF j \in twins THEN "gone"
                                     ELSE upList[j]]
     /\ upCtx' = CutCtx(upCtx, twins)
     /\ upReq' = CutReq(upReq, twins)
     /\ upAbort' = upAbort \cup CutTold(twins)
     /\ UNCHANGED <<upLocked, upEarly, upScan, upEnded, upRun, upAsk, upServer, upMade,
                    upCount>>

UpPick(i) ==
  /\ i \notin UpKids /\ upList[i] = "new" /\ i \notin upReading
  /\ ~upLocked
  /\ AppendItem(i)
  /\ UNCHANGED upReading

UpDrop(i) ==
  /\ i \notin UpKids /\ upList[i] = "new" /\ i \notin upReading
  /\ ~upLocked
  /\ upReading' = upReading \cup {i}
  /\ UNCHANGED <<upList, upLocked, upOffer, upScan, upEnded, upRun, upCtx,
                 upNet, upServer, upMade, upCount>>

UpDropRead(i) ==
  /\ i \in upReading
  /\ upReading' = upReading \ {i}
  /\ AppendItem(i)

(* A folder: its group is in the list at once, its files come in batches    *)
(* and its empty directories when the scan is complete.                     *)
UpDropFolder ==
  /\ upScan = "none" /\ UpKids # {} /\ ~upLocked
  /\ upScan' = "scanning"
  /\ upAwait' = FALSE
  /\ UNCHANGED <<upList, upLocked, upEarly, upReading, upEnded, upRun, upCtx, upNet,
                 upServer, upMade, upCount>>

HandleFolderScanBatch(i) ==
  /\ upScan = "scanning" /\ i \in UpKids \ UpDirs /\ upList[i] = "new"
  /\ upList' = [upList EXCEPT ![i] = "WAITING"]
  /\ UNCHANGED <<upLocked, upOffer, upScan, upReading, upEnded, upRun, upCtx,
                 upNet, upServer, upMade, upCount>>

(* The scan is over, possibly by an error half-way.                         *)
HandleFolderScanComplete ==
  /\ upScan = "scanning"
  /\ upScan' = "over"
  /\ upList' \in {upList, [i \in UpItems |-> IF i \in UpDirs THEN "WAITING"
                                             ELSE upList[i]]}
  /\ UNCHANGED <<upLocked, upOffer, upReading, upEnded, upRun, upCtx, upNet,
                 upServer, upMade, upCount>>

-----------------------------------------------------------------------------
(* The run: take the next item while fewer than UpLimit files are active,   *)
(* then give the free slots to the files with the fewest chunks on the way. *)

Schedulable(c) == c.at = "up" /\ ~c.dead /\ c.next <= UpChunks
ActiveContexts(cx) == {i \in UpFiles : /\ cx[i].at = "up" /\ ~cx[i].dead
                                       /\ cx[i].fly # {} \/ Schedulable(cx[i])}
InFlight(cx) == UNION {{i} \X cx[i].fly : i \in UpFiles}

\* The next n[i] chunks of each file i are sent.
Sent(cx, n) == [i \in UpFiles |->
  LET now == cx[i].next .. cx[i].next + n[i] - 1
  IN [cx[i] EXCEPT !.fly = @ \cup now, !.next = @ + n[i],
                   !.tries = [p \in UpParts |-> IF p \in now THEN 1 ELSE @[p]]]]
\* A slot goes to a file that has fewest chunks on the way, as long as there is
\* one; which of several the code takes depends on their order in the list.
Fills(cx, n) ==
  LET after == Sent(cx, n)
      open == {i \in UpFiles : Schedulable(after[i])}
      full == Cardinality(InFlight(after)) >= UpLimit
  IN /\ \A i \in UpFiles :
          n[i] > 0 => /\ Schedulable(cx[i])
                      /\ n[i] <= UpChunks + 1 - cx[i].next
                      /\ Cardinality(InFlight(after)) <= UpLimit
                      /\ \A j \in open : Cardinality(after[i].fly)
                                         <= Cardinality(after[j].fly) + 1
     /\ full \/ open = {}
FillSlots(cx) == {Sent(cx, n) : n \in {m \in [UpFiles -> 0..UpLimit] : Fills(cx, m)}}

(* maybeCompleteContext: every chunk is settled, so the file is merged.     *)
MaybeComplete(cx) == [i \in UpFiles |->
  IF cx[i].at = "up" /\ ~cx[i].dead /\ cx[i].fly = {} /\ cx[i].next > UpChunks
    THEN [cx[i] EXCEPT !.at = "merge",
                       !.tries[0] = IF cx[i].known THEN 0 ELSE 1]
    ELSE cx[i]]

NewRequests(old, cx) ==
  LET merges(i) == cx[i].at = "merge" /\ old[i].at # "merge" /\ ~cx[i].known
      parts(i) == (cx[i].fly \ old[i].fly) \cup (IF merges(i) THEN {0} ELSE {})
  IN UNION {{[sid |-> <<i, cx[i].k>>, part |-> p, at |-> "sent", live |-> TRUE] :
               p \in parts(i)} : i \in UpFiles}

\* onContextComplete begins with the mark.
Merging(old, cx, list) == [i \in UpItems |->
  IF i \in UpFiles /\ old[i].at = "up" /\ cx[i].at = "merge" /\ UpListed(list, i)
    THEN "MERGING" ELSE list[i]]

(* fillSlots, from the run, the contexts, the list and the requests: the    *)
(* next item is taken, or the slots are filled.                             *)
TakeOrFill(run, cx, list, reqs, asks) ==
  LET next == {i \in run.left : UpListed(list, i)}
      room == Cardinality(ActiveContexts(cx)) < UpLimit
  IN \/ /\ room /\ upReq' = reqs /\ upList' = list
        /\ \E i \in next :
             /\ upRun' = [run EXCEPT !.at = IF i \in UpDirs THEN "mkdir" ELSE "init",
                                     !.item = i, !.left = @ \ {i}]
             /\ upCtx' = IF i \in UpDirs THEN cx
                         ELSE [cx EXCEPT ![i] = [NoCtx EXCEPT
                                 !.at = "init", !.k = run.k]]
             /\ upAsk' = IF i \in UpDirs THEN asks
                         ELSE asks \cup {[sid |-> <<i, run.k>>, at |-> "sent"]}
     \/ /\ ~room \/ next = {}
        /\ upCtx' \in {MaybeComplete(filled) : filled \in FillSlots(cx)}
        /\ upReq' = reqs \cup NewRequests(cx, upCtx')
        /\ upAsk' = asks
        /\ upRun' = [run EXCEPT !.at = IF InFlight(upCtx') = {} THEN "tail"
                                       ELSE "race", !.item = ""]
        /\ upList' = Merging(cx, upCtx', list)

(* What the loop of uploadFileGroupChunks does with what it holds: a file   *)
(* whose last chunk has settled begins to be merged, and then, while it is, *)
(* the run goes on.                                                         *)
RunOn(run, cx, list, reqs, asks) ==
  LET done == MaybeComplete(cx)
  IN TakeOrFill(run, done, Merging(cx, done, list),
                reqs \cup NewRequests(cx, done), asks)

UpPageStays == UNCHANGED <<upLocked, upOffer, upScan, upReading, upEnded>>

(* The items are taken when no scan is awaited (any more).                  *)
BeginRun(k, list) ==
  LET items == {i \in UpItems : UpListed(list, i)}
  IN IF items = {}
       THEN /\ upRun' = NoUpRun /\ upLocked' = FALSE /\ upList' = list
            /\ UNCHANGED <<upCtx, upReq, upAsk>>
       ELSE /\ RunOn([NoUpRun EXCEPT !.k = k, !.left = items, !.all = items], upCtx,
                     [i \in UpItems |-> IF i \in items THEN "WAITING"
                                        ELSE list[i]], upReq, upAsk)
            /\ upLocked' = TRUE

(* Submit: failed items are made ready again and the page is locked.        *)
UpSubmit ==
  /\ ~upLocked /\ ~upAwait /\ upRun.at = "idle"
  /\ UpCounted("submit")
  /\ LET k == upCount["submit"] + 1
         list == IF ~HasFailedUploads(upList) THEN upList
                 ELSE [i \in UpItems |-> CASE upList[i] = "FAILED" -> "WAITING"
                                           [] upList[i] = "DONE" -> "gone"
                                           [] OTHER -> upList[i]]
     IN IF upScan = "scanning"
          THEN /\ upRun' = [NoUpRun EXCEPT !.at = "scan", !.k = k]
               /\ upLocked' = TRUE /\ upList' = list
               /\ UNCHANGED <<upCtx, upReq, upAsk>>
          ELSE BeginRun(k, list)
  /\ UNCHANGED <<upOffer, upScan, upReading, upEnded, upAbort,
                 upServer, upMade>>

UpScanned ==
  /\ upRun.at = "scan" /\ upScan # "scanning"
  /\ BeginRun(upRun.k, upList)
  /\ UNCHANGED <<upOffer, upScan, upReading, upEnded, upAbort,
                 upServer, upMade, upCount>>

-----------------------------------------------------------------------------
(* Answers of init and of create/dir.  A context given up while init was    *)
(* under way is cleaned up again, which does nothing any more.              *)

Marked(i, status) == IF UpListed(upList, i) THEN [upList EXCEPT ![i] = status]
                     ELSE upList

UpInitAnswered(a) ==
  /\ a \in upAsk /\ a.at # "sent"
  /\ LET i == a.sid[1]
         mine == upRun.at = "init" /\ UpSid(i) = a.sid /\ upRun.item = i
         asks == upAsk \ {a}
         ended(at, dead) == [upCtx EXCEPT ![i].at = at, ![i].dead = dead]
     IN CASE ~mine ->
               /\ upAsk' = asks
               /\ UNCHANGED <<upRun, upCtx, upList, upReq>>
          [] mine /\ a.at = "made" /\ UpLive(i) ->
               RunOn(upRun, ended("up", FALSE), Marked(i, "UPLOADING"), upReq,
                     asks)
          [] mine /\ a.at = "made" /\ ~UpLive(i) ->
               RunOn(upRun, ended("over", TRUE), upList, upReq, asks)
          [] mine /\ a.at = "bad" ->
               RunOn([upRun EXCEPT !.fin = TRUE], ended("over", TRUE),
                     Marked(i, "FAILED"), upReq, asks)
  /\ UpPageStays
  /\ UNCHANGED <<upAbort, upServer, upMade, upCount>>

UpMkdirAnswered ==
  /\ upRun.at = "mkdir"
  /\ LET i == upRun.item
     IN \/ /\ upMade' = upMade \cup {i}
           /\ RunOn([upRun EXCEPT !.won = TRUE, !.fin = TRUE], upCtx,
                    Marked(i, "DONE"), upReq, upAsk)
           /\ UNCHANGED upCount
        \/ /\ UpCounted("fault")
           /\ RunOn([upRun EXCEPT !.fin = TRUE], upCtx, Marked(i, "FAILED"),
                    upReq, upAsk)
           /\ UNCHANGED upMade
  /\ UpPageStays
  /\ UNCHANGED <<upAbort, upServer>>

-----------------------------------------------------------------------------
(* Answers of chunks and of complete.                                       *)

UpAnswers(i, part) == {q \in upReq : /\ q.sid = UpSid(i) /\ q.part = part
                                     /\ q.live /\ q.at \in {"ok", "done", "err"}}
Pending(i, part) == \E q \in upReq : q.sid = UpSid(i) /\ q.part = part /\ q.live

(* The connection breaks: the XHR fails, the server goes on.                *)
UpLose(q) ==
  /\ q \in upReq /\ q.live /\ UpCounted("fault")
  /\ upReq' = (upReq \ {q}) \cup
              (IF q.at \in {"write", "commit", "wait"}
                 THEN {[q EXCEPT !.live = FALSE]} ELSE {})
  /\ UNCHANGED <<upPage, upRun, upCtx, upAsk, upAbort, upServer, upMade>>

(* An error answer is dropped and the wait before the next attempt begins.  *)
UpError(i, part) ==
  /\ UpLive(i)
  /\ \E q \in UpAnswers(i, part) :
       /\ q.at = "err" \/ (part = 0 /\ q.at = "ok")
       /\ upReq' = upReq \ {q}
  /\ UNCHANGED <<upPage, upRun, upCtx, upAsk, upAbort, upServer, upMade, upCount>>

Outstanding(i) == upCtx[i].fly \cup
                  (IF upCtx[i].at = "merge" /\ ~upCtx[i].known THEN {0} ELSE {})

UpRetry(i, part) ==
  /\ UpLive(i) /\ part \in Outstanding(i) /\ ~Pending(i, part)
  /\ upCtx[i].tries[part] < UpTries
  /\ upCtx' = [upCtx EXCEPT ![i].tries[part] = @ + 1]
  /\ upReq' = upReq \cup {[sid |-> UpSid(i), part |-> part, at |-> "sent",
                           live |-> TRUE]}
  /\ UNCHANGED <<upPage, upRun, upAsk, upAbort, upServer, upMade, upCount>>

(* All attempts failed: the item FAILED, its other chunks are aborted and   *)
(* the server is told.  A chunk's failure is noticed by the run's loop.     *)
UpGiveUp(i, part) ==
  /\ UpLive(i) /\ part \in Outstanding(i) /\ ~Pending(i, part)
  /\ upCtx[i].tries[part] = UpTries
  /\ upAbort' = upAbort \cup {UpSid(i)}
  /\ LET reqs == CutReq(upReq, {i})
     IN IF part = 0
          THEN /\ upCtx' = [upCtx EXCEPT ![i].dead = TRUE, ![i].at = "over"]
               /\ upReq' = reqs
               /\ upRun' = [upRun EXCEPT !.fin = TRUE]
               /\ upList' = Marked(i, "FAILED")
               /\ UNCHANGED upAsk
          ELSE /\ upRun.at = "race"
               /\ RunOn(upRun, [upCtx EXCEPT ![i].dead = TRUE, ![i].at = "over",
                                             ![i].fly = {}],
                        Marked(i, "FAILED"), reqs, upAsk)
  /\ UpPageStays
  /\ UNCHANGED <<upServer, upMade, upCount>>

(* The loop takes a settled chunk and fills the slots again.                *)
UpChunkSettled(i, c) ==
  /\ upRun.at = "race" /\ UpLive(i) /\ c \in upCtx[i].fly
  /\ \E q \in UpAnswers(i, c) :
       /\ q.at \in {"ok", "done"}
       /\ RunOn(upRun, [upCtx EXCEPT ![i].fly = @ \ {c},
                                     ![i].known = @ \/ q.at = "done"],
                upList, upReq \ {q}, upAsk)
  /\ UpPageStays
  /\ UNCHANGED <<upAbort, upServer, upMade, upCount>>

\* Variant: the end of an aborted chunk does not fill the slots again.
UpAbortedSettledIdle(i) ==
  /\ upRun.at = "race" /\ upCtx[i].dead /\ upCtx[i].fly # {}
  /\ upCtx' = [upCtx EXCEPT ![i].fly = {}, ![i].at = "over"]
  /\ UNCHANGED <<upRun, upList, upReq, upAsk>>
  /\ UpPageStays
  /\ UNCHANGED <<upAbort, upServer, upMade, upCount>>

(* The loop takes the aborted chunks of a file that was given up.           *)
UpAbortedSettled(i) ==
  /\ upRun.at = "race" /\ upCtx[i].dead /\ upCtx[i].fly # {}
  /\ RunOn(upRun, [upCtx EXCEPT ![i].fly = {}, ![i].at = "over"], upList, upReq,
           upAsk)
  /\ UpPageStays
  /\ UNCHANGED <<upAbort, upServer, upMade, upCount>>

(* onContextComplete has its completed answer, from a chunk or from         *)
(* /api/file/upload/complete.                                               *)
UpMerged(i) ==
  /\ UpLive(i) /\ upCtx[i].at = "merge"
  /\ \/ upCtx[i].known /\ UNCHANGED upReq
     \/ \E q \in UpAnswers(i, 0) : q.at = "done" /\ upReq' = upReq \ {q}
  /\ upCtx' = [upCtx EXCEPT ![i].at = "over"]
  /\ upRun' = [upRun EXCEPT !.won = TRUE, !.fin = TRUE]
  /\ upList' = Marked(i, "DONE")
  /\ UpPageStays
  /\ UNCHANGED <<upAsk, upAbort, upServer, upMade, upCount>>

(* Nothing is in flight and nothing merging: the page is unlocked, and if   *)
(* something succeeded the file list is reloaded before CONFIRM is offered. *)
UpFinish ==
  /\ upRun.at = "tail" /\ \A i \in UpFiles : ~(UpLive(i) /\ upCtx[i].at = "merge")
  /\ upRun' = NoUpRun /\ upLocked' = FALSE
  /\ upEnding' = upEnding \cup (IF upRun.won THEN {upRun.all} ELSE {})
  /\ IF ~upRun.won /\ upRun.fin
       THEN /\ upAwait' = ~HasFailedUploads(upList) /\ upEarly' = FALSE
            /\ upTaken' = upTaken \cup upRun.all
       ELSE UNCHANGED <<upOffer, upTaken>>
  /\ UNCHANGED <<upList, upScan, upReading, upCtx, upNet, upServer, upMade,
                 upCount>>

UpReloaded(all) ==
  /\ all \in upEnding
  /\ upEnding' = upEnding \ {all}
  /\ upAwait' = ~HasFailedUploads(upList)
  /\ upEarly' = (upRun.at # "idle")
  /\ upTaken' = upTaken \cup all
  /\ UNCHANGED <<upList, upLocked, upScan, upReading, upRun, upCtx, upNet,
                 upServer, upMade, upCount>>

-----------------------------------------------------------------------------
(* Items leaving the list: by the timer 500 ms after DONE (inside a folder  *)
(* only when all of it is DONE), by the user, with the whole page.          *)

FolderDone == /\ upScan = "over"
              /\ \A i \in UpKids : ~UpListed(upList, i) \/ upList[i] = "DONE"

UpDoneTimer(i) ==
  /\ upList[i] = "DONE"
  /\ i \in UpKids => FolderDone
  /\ upList' = [upList EXCEPT ![i] = "gone"]
  /\ UNCHANGED <<upLocked, upOffer, upScan, upReading, upEnded, upRun,
                 upCtx, upNet, upServer, upMade, upCount>>

CancelItems(I) ==
  /\ upList' = [i \in UpItems |-> IF i \in I THEN "gone" ELSE upList[i]]
  /\ upCtx' = CutCtx(upCtx, I)
  /\ upReq' = CutReq(upReq, I)
  /\ upAbort' = upAbort \cup CutTold(I)

RemoveFileUploadItem(I) ==
  /\ I \subseteq Leaves /\ UpCounted("remove")
  /\ \/ \E i \in I : I = {i} /\ UNCHANGED upScan
     \/ /\ I = Leaves \cap UpKids /\ upScan # "none" /\ upScan' = "over"
  /\ CancelItems(I)
  /\ UNCHANGED <<upLocked, upOffer, upReading, upEnded, upRun, upAsk,
                 upServer, upMade>>

(* resetFileUploadState: CONFIRM, closing the dialogue and opening it again *)
(* start over with a new run token; the old run finds all of its items      *)
(* gone.  A drop that is still being read goes to the dialogue of then.     *)
ResetFileUploadState ==
  /\ UpCounted("remove")
  /\ upAwait \/ Leaves # {} \/ upLocked
  /\ CancelItems({i \in UpItems : upList[i] # "new"})
  /\ upLocked' = FALSE /\ upAwait' = FALSE
  /\ upScan' = IF upScan = "scanning" THEN "over" ELSE upScan
  /\ upRun' = NoUpRun /\ upEnding' = {}
  /\ UNCHANGED <<upEarly, upReading, upTaken, upAsk, upServer, upMade>>

-----------------------------------------------------------------------------
(* The server.  A request that works on a session holds it (ActiveRequests) *)
(* while it is at "write", "commit" or "wait"; a canceled session goes when *)
(* the last one lets it go.                                                 *)

Held(reqs, s) == \E q \in reqs : q.sid = s /\ q.at \in {"write", "commit", "wait"}
Released(sess, reqs) == [s \in UpSids |->
  IF sess[s].st = "canceled" /\ ~Held(reqs, s) THEN NoUpSess ELSE sess[s]]
AllChunks == 1..UpChunks

(* An answer to a request nobody waits for is not written.                  *)
Moved(q, at) == (upReq \ {q}) \cup
  (IF q.live \/ at \in {"write", "commit", "wait"} THEN {[q EXCEPT !.at = at]}
   ELSE {})

ServerStep(q, at, sess) ==
  /\ upReq' = Moved(q, at)
  /\ upSess' = Released(sess, Moved(q, at))
  /\ UNCHANGED <<upPage, upRun, upCtx, upAsk, upAbort, upCut, upMade>>

HandleApiFileUploadInit(a) ==
  /\ a \in upAsk /\ a.at = "sent"
  /\ \/ /\ upSess' = [upSess EXCEPT ![a.sid] = [NoUpSess EXCEPT !.st = "active"]]
        /\ \/ /\ upAsk' = (upAsk \ {a}) \cup {[a EXCEPT !.at = "made"]}
              /\ UNCHANGED upCount
           \/ /\ UpCounted("fault")         \* the answer is lost
              /\ upAsk' = (upAsk \ {a}) \cup {[a EXCEPT !.at = "bad"]}
     \/ /\ UpCounted("fault") /\ UNCHANGED upSess
        /\ upAsk' = (upAsk \ {a}) \cup {[a EXCEPT !.at = "bad"]}
  /\ UNCHANGED <<upPage, upRun, upCtx, upReq, upAbort, upCut, upStored, upMade>>

(* beginUploadCompletion, for a request that found every chunk or asks to   *)
(* complete.                                                                *)
BeginCompletion(q, sess) ==
  LET st == sess[q.sid].st
  IN CASE st = "committed" -> ServerStep(q, "done", sess)
       [] st = "completing" -> ServerStep(q, "wait", sess)
       [] st \in {"canceled", "none"} -> ServerStep(q, "err", sess)
       [] st = "active" ->
            ServerStep(q, "commit", [sess EXCEPT ![q.sid].st = "completing"])

HandleApiFileUploadChunk(q) ==
  /\ q \in upReq /\ q.at = "sent" /\ q.part # 0
  /\ LET s == upSess[q.sid]
     IN CASE s.st \in {"none", "canceled"} -> ServerStep(q, "err", upSess)
          [] s.st \in {"committed", "completing"} -> BeginCompletion(q, upSess)
          [] s.st = "active" /\ q.part \notin s.got -> ServerStep(q, "write", upSess)
          [] s.st = "active" /\ q.part \in s.got ->
               IF s.got = AllChunks THEN BeginCompletion(q, upSess)
               ELSE ServerStep(q, "ok", upSess)
  /\ UNCHANGED <<upStored, upCount>>

(* The chunk is written and marked; the last one to be marked completes.    *)
WriteUploadChunk(q) ==
  /\ q \in upReq /\ q.at = "write"
  /\ LET got == [upSess EXCEPT ![q.sid].got = @ \cup {q.part}]
     IN \/ IF got[q.sid].got = AllChunks THEN BeginCompletion(q, got)
           ELSE ServerStep(q, "ok", got)
        \/ ~q.live /\ ServerStep(q, "err", upSess)    \* the body was cut off
  /\ UNCHANGED <<upStored, upCount>>

HandleApiFileUploadComplete(q) ==
  /\ q \in upReq /\ q.at = "sent" /\ q.part = 0
  /\ BeginCompletion(q, upSess)
  /\ UNCHANGED <<upStored, upCount>>

(* completeUploadSession after beginUploadCompletion.                       *)
CommitUpload(q) ==
  /\ q \in upReq /\ q.at = "commit"
  /\ \/ /\ upSess[q.sid].got = AllChunks
        /\ upStored' = upStored \cup {q.sid}
        /\ IF upSess[q.sid].st = "completing"
             THEN ServerStep(q, "done", [upSess EXCEPT ![q.sid].st = "committed"])
             ELSE ServerStep(q, "err", [upSess EXCEPT ![q.sid].st = "canceled"])
        /\ UNCHANGED upCount
     \/ /\ \/ UpCounted("fault")
           \/ upSess[q.sid].got # AllChunks /\ UNCHANGED upCount
        /\ ServerStep(q, "err", [upSess EXCEPT ![q.sid].st = "active"])
        /\ UNCHANGED upStored

(* A second request waited for CompleteDone.                                *)
CompletionAwaited(q) ==
  /\ q \in upReq /\ q.at = "wait"
  /\ upSess[q.sid].st # "completing"
  /\ ServerStep(q, IF upSess[q.sid].st \in {"committed", "none"} THEN "done"
                   ELSE "err", upSess)
  /\ UNCHANGED <<upStored, upCount>>

\* Variant: a session that is being committed is cancelled as well.
HandleApiFileUploadAbortAlways(s) ==
  /\ s \in upAbort
  /\ upAbort' = upAbort \ {s}
  /\ IF upSess[s].st \in {"active", "canceled", "completing"}
       THEN /\ upSess' = Released([upSess EXCEPT ![s].st = "canceled"], upReq)
            /\ upCut' = upCut \cup {s}
       ELSE UNCHANGED <<upSess, upCut>>
  /\ UNCHANGED <<upPage, upRun, upCtx, upAsk, upReq, upStored, upMade, upCount>>

(* A session that is being completed is not canceled any more.              *)
HandleApiFileUploadAbort(s) ==
  /\ s \in upAbort
  /\ upAbort' = upAbort \ {s}
  /\ IF upSess[s].st \in {"active", "canceled"}
       THEN /\ upSess' = Released([upSess EXCEPT ![s].st = "canceled"], upReq)
            /\ upCut' = upCut \cup {s}
       ELSE UNCHANGED <<upSess, upCut>>
  /\ UNCHANGED <<upPage, upRun, upCtx, upAsk, upReq, upStored, upMade, upCount>>

(* cleanupExpiredCommittedUploadSessions, of sessions without requests for  *)
(* ten minutes: the page has no use for them any more.                      *)
CleanupExpiredUploadSessions(s) ==
  /\ upSess[s].st \in {"active", "committed"} /\ ~Held(upReq, s)
  /\ ~(UpLive(s[1]) /\ UpSid(s[1]) = s)
  /\ \A a \in upAsk : a.sid # s
  /\ upSess' = [upSess EXCEPT ![s] = NoUpSess]
  /\ UNCHANGED <<upPage, upRun, upCtx, upNet, upCut, upStored, upMade, upCount>>

-----------------------------------------------------------------------------
UpAnswer ==
  \/ \E a \in upAsk : HandleApiFileUploadInit(a) \/ UpInitAnswered(a)
  \/ \E q \in upReq : \/ HandleApiFileUploadChunk(q) \/ WriteUploadChunk(q)
                      \/ HandleApiFileUploadComplete(q) \/ CommitUpload(q)
                      \/ CompletionAwaited(q)
  \/ UpMkdirAnswered
  \/ \E s \in UpSids : HandleApiFileUploadAbort(s)

UpLoop ==
  \/ UpScanned \/ UpFinish
  \/ \E i \in UpFiles :
       \/ UpMerged(i) \/ UpAbortedSettled(i)
       \/ \E c \in AllChunks : UpChunkSettled(i, c)
       \/ \E part \in UpParts : \/ UpError(i, part) \/ UpRetry(i, part)
                                \/ UpGiveUp(i, part)
  \/ \E all \in upEnding : UpReloaded(all)

(* What happens without the user: requests are answered, retries and timers *)
(* come due, scans end.                                                     *)
UpProgress == UpAnswer \/ UpLoop \/ HandleFolderScanComplete

UpNext ==
  \/ UpProgress
  \/ \E i \in UpFiles : UpPick(i) \/ UpDrop(i) \/ UpDropRead(i)
                        \/ HandleFolderScanBatch(i)
  \/ UpDropFolder \/ UpSubmit \/ ResetFileUploadState
  \/ \E i \in UpItems : UpDoneTimer(i)
  \/ \E I \in SUBSET UpItems : RemoveFileUploadItem(I)
  \/ \E q \in upReq : UpLose(q)
  \/ \E s \in UpSids : CleanupExpiredUploadSessions(s)

UpSpec == UpInit /\ [][UpNext]_upVars

-----------------------------------------------------------------------------
(* DONE is true: a file the list shows as DONE was put in its place by the  *)
(* server, with all of its chunks, and by the session of its last context   *)
(* (setFileUploadProgress of onContextComplete, completeUploadSession).     *)
UpDoneIsStored ==
  \A i \in UpItems : upList[i] = "DONE" =>
    IF i \in UpDirs THEN i \in upMade ELSE UpSid(i) \in upStored

(* A cancellation the server accepted is final: the file does not appear.   *)
(* A cancellation that comes while the file is put in its place is refused  *)
(* (HandleApiFileUploadAbort against completeUploadSession).                *)
UpAbortedNotStored == upCut \cap upStored = {}

(* When the page offers CONFIRM, every file of a run that ended is stored   *)
(* or was taken out by the user, so clearing the form forgets no failed     *)
(* file (handleFileCreateSubmit).  One case is excepted: the list reload of *)
(* a run that ends during the next run offers CONFIRM too early, and a file *)
(* that then fails takes it back only if the run counts as finished.        *)
UpConfirmHonest ==
  upAwait /\ ~upEarly => \A i \in upTaken :
    \/ upList[i] = "gone"
    \/ IF i \in UpDirs THEN i \in upMade
       ELSE \E s \in upStored : s[1] = i

(* What the page and the answers say of the uploads is so on the server.    *)
UpShownIsTrue == UpDoneIsStored /\ UpAbortedNotStored /\ UpConfirmHonest

(* The page does not stay locked: a submit ends, whatever is removed, lost  *)
(* or refused in the meantime (uploadFileGroupChunks).                      *)
UpUnlocks == upLocked ~> ~upLocked
=============================================================================
