---------------------------- MODULE FileBrowser ----------------------------
(***************************************************************************)
(* The file panel of an instance's workspace: loading, paging, searching   *)
(* and remembering directories (module/fileList.js) and the dialogue that  *)
(* renames, deletes and extracts one entry (module/fileActionModal.js).    *)
(*                                                                         *)
(* Every list is asked of the controller and arrives later; the user       *)
(* navigates, searches, switches instance and reopens the dialogue         *)
(* meanwhile.  Loads carry the sequence number and the session they were   *)
(* begun in; the answers of the dialogue carry nothing.                    *)
(***************************************************************************)
EXTENDS Naturals, FiniteSets

CONSTANTS BrNames,    \* names of instances
          BrDirs,     \* directories under the root
          BrLong,     \* those of BrDirs and "" whose list has two pages
          BrSwitches, \* bound: times an instance is opened or closed
          BrAsks,     \* bound: lists the user asks for
          BrActs      \* bound: uses of the dialogue

ASSUME BrAssumption == /\ "" \notin BrNames \cup BrDirs
                       /\ BrLong \subseteq BrDirs \cup {""}
                       /\ {BrSwitches, BrAsks, BrActs} \subseteq Nat

VARIABLES
  brInst,    \* [name, session, opening]: state.currentInstanceName, ""
             \* without, instanceSessionSeq, and the name being opened
  brView,    \* fmState: see BrViews
  brLoads,   \* requests for lists under way
  brBusy,    \* page controls that wait for a load: [seq, by]
  brMemory,  \* localStorage: the directory remembered of each instance
  brEntry,   \* the entry of the dialogue, or NoBrEntry
  brDialog,  \* the dialogue: see BrDialogs
  brCalls,   \* renames and deletes under way
  brRuns,    \* extractions begun: see BrExtractions
  brWanted,  \* history: the list last asked for or handed over, and by which
             \* request
  brStrayed, \* history: an answer of the dialogue of another instance, or one
             \* that overtook a load, has been shown since the last opening
  brCount    \* switches, asks and uses so far

brVars == <<brInst, brView, brLoads, brBusy, brMemory, brEntry, brDialog,
            brCalls, brRuns, brWanted, brStrayed, brCount>>

BrPlaces == BrDirs \cup {""}
PagesOf(d) == IF d \in BrLong THEN 1 .. 2 ELSE {1}
Listings == [inst : BrNames, dir : BrPlaces, page : 1 .. 2, search : BOOLEAN]
NoListing == [inst |-> "", dir |-> "", page |-> 1, search |-> FALSE]

\* dir is currentFilePath, list currentFileList, page currentPage, total
\* totalPages, seq loadSeq, search that searchQuery is set (which sets
\* searchActivated), error fileListError.
BrViews == [dir : BrPlaces, list : Listings \cup {NoListing}, page : 1 .. 2,
            total : 1 .. 2, seq : Nat, search : BOOLEAN, error : BOOLEAN]

\* A request: kind is "load", "restore" (the remembered directory, then the
\* root), "root" (what follows it) or "jump" (the search field held a path);
\* page, total and search are also what a jump that fails puts back.
BrRequests == [kind : {"load", "restore", "root", "jump"}, inst : BrNames,
               session : Nat, seq : Nat, dir : BrPlaces, page : 1 .. 2,
               total : 1 .. 2, search : BOOLEAN]

\* on: visible; closing: its timer will hide it and forget its entry; run
\* extractRunId, ctl that extractAbortController is set, extracting and
\* canceling as named, shown the entry whose extraction's progress it shows.
BrEntries == [inst : BrNames, dir : BrPlaces]
NoBrEntry == [inst |-> "", dir |-> ""]
BrDialogs == [on : BOOLEAN, closing : BOOLEAN, run : Nat, ctl : BOOLEAN,
              extracting : BOOLEAN, canceling : BOOLEAN,
              shown : BrEntries \cup {NoBrEntry}]

\* An extraction streams its progress until it ends or is cut off by its
\* abort; then the list is loaded again (seq), which it waits for.
BrExtractions == [run : Nat, entry : BrEntries,
                  phase : {"streams", "cut", "reloads"}, seq : Nat]

BrTypeOK ==
  /\ brInst \in [name : BrNames \cup {""}, session : Nat,
                 opening : BrNames \cup {""}]
  /\ brView \in BrViews
  /\ brLoads \in SUBSET BrRequests
  /\ brBusy \in SUBSET [seq : Nat, by : {"button", "box"}]
  /\ brMemory \in [BrNames -> BrPlaces]
  /\ brEntry \in BrEntries \cup {NoBrEntry}
  /\ brDialog \in BrDialogs
  /\ brCalls \in SUBSET [inst : BrNames, dir : BrPlaces,
                         kind : {"rename", "ask", "delete"}]
  /\ brRuns \in SUBSET BrExtractions
  /\ brWanted \in [ok : BOOLEAN, list : Listings \cup {NoListing}, seq : Nat]
  /\ brStrayed \in BOOLEAN
  /\ brCount \in [switches : 0 .. BrSwitches, asks : 0 .. BrAsks,
                  acts : 0 .. BrActs]

\* Variant: a list that is forgotten leaves page 0.
NoViewZero(seq) == [dir |-> "", list |-> NoListing, page |-> 0, total |-> 1,
                seq |-> seq, search |-> FALSE, error |-> FALSE]

NoView(seq) == [dir |-> "", list |-> NoListing, page |-> 1, total |-> 1,
                seq |-> seq, search |-> FALSE, error |-> FALSE]

\* No list is asked for.
NothingWanted == [ok |-> FALSE, list |-> NoListing, seq |-> 0]

BrInit ==
  /\ brInst = [name |-> "", session |-> 0, opening |-> ""]
  /\ brView = NoView(0)
  /\ brLoads = {} /\ brBusy = {}
  /\ brMemory = [n \in BrNames |-> ""]
  /\ brEntry = NoBrEntry
  /\ brDialog = [on |-> FALSE, closing |-> FALSE, run |-> 0, ctl |-> FALSE,
                 extracting |-> FALSE, canceling |-> FALSE,
                 shown |-> NoBrEntry]
  /\ brCalls = {} /\ brRuns = {}
  /\ brWanted = NothingWanted
  /\ brStrayed = FALSE
  /\ brCount = [switches |-> 0, asks |-> 0, acts |-> 0]

(* ------------------------------ the pieces ----------------------------- *)

Spent(what, bound) == /\ brCount[what] < bound
                      /\ brCount' = [brCount EXCEPT ![what] = @ + 1]

\* reset
ResetView == NoView(brView.seq + 1)

\* The dialogue's close: an extraction is cut off from it.
CloseFileAction(d) == [d EXCEPT !.on = FALSE, !.closing = TRUE, !.ctl = FALSE,
                                !.extracting = FALSE, !.canceling = FALSE]

\* isCurrentExtractTask
IsCurrentExtractTask(r) == brDialog.ctl /\ brDialog.run = r.run

\* Variant: the stream of a closed dialogue runs on.
AbortedNone(runs) == runs

\* What aborting the extraction the dialogue knows of leaves of them.
Aborted(runs) ==
  {[r EXCEPT !.phase = IF @ = "streams" /\ IsCurrentExtractTask(r)
                       THEN "cut" ELSE @] : r \in runs}

\* Variant: the answer of an older request of the same session counts.
IsSessionStale(q) == \/ q.session # brInst.session
                         \/ q.inst # brInst.name

\* isLoadContextStale
IsLoadContextStale(q) == \/ q.seq # brView.seq
                         \/ q.session # brInst.session
                         \/ q.inst # brInst.name

Request(kind, dir, page, search, view) ==
  [kind |-> kind, inst |-> brInst.name, session |-> brInst.session,
   seq |-> view.seq, dir |-> dir, page |-> page, total |-> view.total,
   search |-> search]

\* loadFiles: the load under way is outdated; without a path or a list the
\* remembered directory is tried first, which goes to page 1.
LoadList(dir, page, view, by) ==
  LET v == [view EXCEPT !.seq = @ + 1]
      memory == dir = "" /\ view.dir = "" /\ page = 1 /\ view.list = NoListing
      kind == IF ~memory THEN "load"
              ELSE IF brMemory[brInst.name] = "" THEN "root" ELSE "restore"
      goal == IF kind = "restore" THEN brMemory[brInst.name] ELSE dir
  IN /\ brView' = v
     /\ brLoads' = brLoads \cup {Request(kind, goal, page, v.search, v)}
     /\ brBusy' = brBusy \cup {[seq |-> v.seq, by |-> c] : c \in by}
     /\ brWanted' = [ok |-> TRUE,
                     list |-> [inst |-> brInst.name, dir |-> goal,
                               page |-> page, search |-> v.search],
                     seq |-> v.seq]

\* applyFileListResponse: the list is shown as that of the current directory
\* and its directory remembered for inst, the root or a missing one forgotten.
ApplyFileListResponse(view, inst, list, remember, missing) ==
  /\ brView' = [view EXCEPT !.list = list, !.dir = list.dir,
                            !.page = list.page, !.error = FALSE,
                            !.total = Cardinality(PagesOf(list.dir))]
  /\ brMemory' = IF remember
                 THEN [brMemory EXCEPT ![inst] =
                         IF missing THEN "" ELSE list.dir]
                 ELSE brMemory

(* ------------------------- the workspace around ------------------------ *)

\* openInstanceTerminal: the panel is emptied; the name changes when the
\* detail arrives.
PrepareOpenTerminalPage(n) ==
  /\ Spent("switches", BrSwitches)
  /\ n # brInst.name
  /\ brInst' = [brInst EXCEPT !.session = @ + 1, !.opening = n]
  /\ brView' = ResetView
  /\ brWanted' = NothingWanted
  /\ UNCHANGED <<brLoads, brBusy, brMemory, brEntry, brDialog, brCalls,
                 brRuns, brStrayed>>

\* openTerminalPage with its answer: the panel is emptied again and the files
\* of the new instance are asked for, in the directory it was left in.
OpenTerminalPage ==
  LET n == brInst.opening
      seq == brView.seq + 2
      kind == IF brMemory[n] = "" THEN "root" ELSE "restore"
      q == [kind |-> kind, inst |-> n, session |-> brInst.session, seq |-> seq,
            dir |-> brMemory[n], page |-> 1, total |-> 1, search |-> FALSE]
  IN /\ n # ""
     /\ brInst' = [brInst EXCEPT !.name = n, !.opening = ""]
     /\ brView' = NoView(seq)
     /\ brLoads' = brLoads \cup {q}
     /\ brWanted' = [ok |-> TRUE,
                     list |-> [inst |-> n, dir |-> brMemory[n], page |-> 1,
                               search |-> FALSE],
                     seq |-> seq]
     /\ brStrayed' = FALSE
     /\ UNCHANGED <<brBusy, brMemory, brEntry, brDialog, brCalls, brRuns,
                    brCount>>

\* closeTerminalPage, asked for or after an opening that failed: the
\* dialogues are closed, the panel is emptied.
CloseTerminalPanel ==
  /\ brInst.name # "" \/ brInst.opening # ""
  /\ Spent("switches", BrSwitches)
  /\ brInst' = [name |-> "", session |-> brInst.session + 1, opening |-> ""]
  /\ brView' = ResetView
  /\ brDialog' = CloseFileAction(brDialog)
  /\ brRuns' = Aborted(brRuns)
  /\ brWanted' = NothingWanted
  /\ UNCHANGED <<brLoads, brBusy, brMemory, brEntry, brCalls, brStrayed>>

\* renameFileLastDirsInstance(old, new), of the instance form: what old was
\* left in replaces what is remembered of new.
RenameFileLastDirsInstance(old, new) ==
  /\ Spent("acts", BrActs)
  /\ old # new
  /\ brMemory[old] # ""
  /\ brMemory' = [brMemory EXCEPT ![old] = "", ![new] = brMemory[old]]
  /\ UNCHANGED <<brInst, brView, brLoads, brBusy, brEntry, brDialog, brCalls,
                 brRuns, brWanted, brStrayed>>

\* cleanupFileLastDirs with the instances listed; with none nothing is done.
CleanupFileLastDirs(valid) ==
  /\ Spent("acts", BrActs)
  /\ valid # {}
  /\ brMemory' = [n \in BrNames |-> IF n \in valid THEN brMemory[n] ELSE ""]
  /\ brMemory' # brMemory
  /\ UNCHANGED <<brInst, brView, brLoads, brBusy, brEntry, brDialog, brCalls,
                 brRuns, brWanted, brStrayed>>

(* ----------------------- what the user asks to see --------------------- *)

FirstPage(view) == [view EXCEPT !.page = 1, !.total = 1, !.error = FALSE]

\* A click on a directory or on a part of the path: page and search start
\* again before the answer is known.
OpenDirectory(d) ==
  /\ brInst.name # "" /\ brView.list # NoListing
  /\ Spent("asks", BrAsks)
  /\ LoadList(d, 1, [FirstPage(brView) EXCEPT !.search = FALSE], {})
  /\ UNCHANGED <<brInst, brMemory, brEntry, brDialog, brCalls, brRuns,
                 brStrayed>>

\* The refresh button.
Refresh ==
  /\ brInst.name # ""
  /\ Spent("asks", BrAsks)
  /\ LoadList(brView.dir, brView.page, [brView EXCEPT !.error = FALSE], {})
  /\ UNCHANGED <<brInst, brMemory, brEntry, brDialog, brCalls, brRuns,
                 brStrayed>>

Reloaded == [brView EXCEPT !.page = 1, !.total = 1]

\* reloadFilesFromFirstPage, for the dialogues that created, moved, copied or
\* deleted something, in the directory that is current now.
ReloadFilesFromFirstPage ==
  /\ brInst.name # ""
  /\ Spent("asks", BrAsks)
  /\ LoadList(brView.dir, 1, Reloaded, {})
  /\ UNCHANGED <<brInst, brMemory, brEntry, brDialog, brCalls, brRuns,
                 brStrayed>>

\* The buttons drawn with the list, unless a page control waits already; page
\* is the current one, which a navigation under way has reset.
PageOfButton == LET up == brView.page + 1
                    down == IF brView.page = 1 THEN 1 ELSE brView.page - 1
                    last == Cardinality(PagesOf(brView.list.dir))
                IN (IF brView.list.page < last THEN {up} ELSE {})
                      \cup (IF brView.list.page > 1 THEN {down} ELSE {})

\* submitFilePaginationInput: a page up to the current total, unless the box
\* waits for one.
PageOfBox == {p \in 1 .. brView.total : p # brView.page}

TurnPage(by, p) ==
  /\ brInst.name # "" /\ brView.list # NoListing /\ ~brView.error
  /\ IF by = "button" THEN brBusy = {} /\ p \in PageOfButton
     ELSE /\ \A b \in brBusy : b.by # "box"
          /\ p \in PageOfBox
  /\ Spent("asks", BrAsks)
  /\ LoadList(brView.dir, p, [brView EXCEPT !.error = FALSE], {by})
  /\ UNCHANGED <<brInst, brMemory, brEntry, brDialog, brCalls, brRuns,
                 brStrayed>>

\* submitFileSearch with a text (on) or none that is not a path: nothing when
\* it is searched for already, otherwise the controller searches.
SubmitFileSearch(on) ==
  /\ brInst.name # ""
  /\ on # brView.search
  /\ Spent("asks", BrAsks)
  /\ LoadList(brView.dir, 1, [FirstPage(brView) EXCEPT !.search = on], {})
  /\ UNCHANGED <<brInst, brMemory, brEntry, brDialog, brCalls, brRuns,
                 brStrayed>>

\* tryJumpToSearchPath: outdates a load under way without aborting it.
TryJumpToSearchPath(d) ==
  LET v == [brView EXCEPT !.seq = @ + 1, !.error = FALSE]
  IN /\ brInst.name # ""
     /\ Spent("asks", BrAsks)
     /\ brView' = v
     /\ brLoads' = brLoads \cup {Request("jump", d, v.page, v.search, v)}
     /\ brWanted' = [ok |-> TRUE, seq |-> v.seq,
                     list |-> [inst |-> brInst.name, dir |-> d, page |-> 1,
                               search |-> FALSE]]
     /\ UNCHANGED <<brInst, brBusy, brMemory, brEntry, brDialog, brCalls,
                    brRuns, brStrayed>>

(* ------------------------------ the answers ---------------------------- *)

\* The end of a load releases the page controls that waited for it.
Done(q) == /\ brLoads' = brLoads \ {q}
           /\ brBusy' = {b \in brBusy : b.seq # q.seq}

\* An outdated answer changes nothing.
StaleAnswer(q) ==
  /\ IsLoadContextStale(q)
  /\ Done(q)
  /\ UNCHANGED <<brInst, brView, brMemory, brEntry, brDialog, brCalls, brRuns,
                 brWanted, brStrayed, brCount>>

\* The list q asked for arrives: of its directory, or of the root in place of
\* one that is gone (fallback), which a jump does not ask for and a list is
\* remembered of unless the root was loaded at first.
ListAnswered(q, missing) ==
  LET dir == IF missing THEN "" ELSE q.dir
      page == IF q.kind # "load" \/ q.page \notin PagesOf(dir) THEN 1 ELSE q.page
      search == q.kind # "jump" /\ q.search
      list == [inst |-> q.inst, dir |-> dir, page |-> page, search |-> search]
      view == IF q.kind = "jump"
              THEN [brView EXCEPT !.search = FALSE] ELSE brView
  IN /\ ~IsLoadContextStale(q)
     /\ missing => q.kind \in {"load", "restore"} /\ q.dir # ""
     /\ Done(q)
     /\ ApplyFileListResponse(view, q.inst, list, q.kind # "root", missing)
     /\ brWanted' = IF q.seq = brWanted.seq
                    THEN [brWanted EXCEPT !.list = list] ELSE brWanted
     /\ brStrayed' = FALSE
     /\ UNCHANGED <<brInst, brEntry, brDialog, brCalls, brRuns, brCount>>

\* The remembered directory cannot be read: the root is asked for instead.
RestoreFailed(q) ==
  /\ ~IsLoadContextStale(q) /\ q.kind = "restore"
  /\ brLoads' = (brLoads \ {q}) \cup {[q EXCEPT !.kind = "root", !.dir = ""]}
  /\ UNCHANGED <<brInst, brView, brBusy, brMemory, brEntry, brDialog, brCalls,
                 brRuns, brWanted, brStrayed, brCount>>

\* Any other failure leaves the list on screen; a jump puts back the page and
\* the search it found and shows the error in place of the list.
ListFailed(q) ==
  /\ ~IsLoadContextStale(q) /\ q.kind # "restore"
  /\ Done(q)
  /\ brView' = IF q.kind = "jump"
               THEN [brView EXCEPT !.page = q.page, !.total = q.total,
                                   !.search = q.search, !.error = TRUE]
               ELSE brView
  /\ brWanted' = [brWanted EXCEPT !.ok = FALSE]
  /\ UNCHANGED <<brInst, brMemory, brEntry, brDialog, brCalls, brRuns,
                 brStrayed, brCount>>

(* ----------------------- the dialogue of one entry --------------------- *)

\* open, with an entry of the list on screen: resetExtractState leaves no
\* extraction to it.
OpenFileAction ==
  /\ brInst.name # "" /\ brView.list # NoListing /\ ~brView.error
  /\ ~brDialog.on /\ ~brDialog.closing
  /\ Spent("acts", BrActs)
  /\ brEntry' = [inst |-> brInst.name, dir |-> brView.dir]
  /\ brDialog' = [on |-> TRUE, closing |-> FALSE, run |-> brDialog.run + 1,
                  ctl |-> FALSE, extracting |-> FALSE, canceling |-> FALSE,
                  shown |-> NoBrEntry]
  /\ UNCHANGED <<brInst, brView, brLoads, brBusy, brMemory, brCalls, brRuns,
                 brWanted, brStrayed>>

\* requestClose, with no extraction to ask about.
RequestClose ==
  /\ brDialog.on /\ ~brDialog.extracting
  /\ brDialog' = CloseFileAction(brDialog)
  /\ UNCHANGED <<brInst, brView, brLoads, brBusy, brMemory, brEntry, brCalls,
                 brRuns, brWanted, brStrayed, brCount>>

\* The timer of close.
FileActionHidden ==
  /\ brDialog.closing
  /\ brDialog' = [brDialog EXCEPT !.closing = FALSE]
  /\ brEntry' = NoBrEntry
  /\ UNCHANGED <<brInst, brView, brLoads, brBusy, brMemory, brCalls, brRuns,
                 brWanted, brStrayed, brCount>>

\* renameFileEntry, and deleteFileEntry up to its question ("ask"): sent for
\* the instance that is current, with the path of the entry.
CallFor(kind) == [inst |-> brInst.name, dir |-> brEntry.dir, kind |-> kind]

SubmitEntry(kind) ==
  /\ brDialog.on /\ ~brDialog.extracting /\ brInst.name # ""
  /\ ~\E c \in brCalls : (c.kind = "rename") <=> (kind = "rename")
  /\ Spent("acts", BrActs)
  /\ brCalls' = brCalls \cup {CallFor(kind)}
  /\ UNCHANGED <<brInst, brView, brLoads, brBusy, brMemory, brEntry, brDialog,
                 brRuns, brWanted, brStrayed>>

RenameFileEntry == SubmitEntry("rename")
DeleteFileEntry == SubmitEntry("ask")

DeleteConfirmed(c, yes) ==
  /\ c.kind = "ask"
  /\ brCalls' = (brCalls \ {c})
                \cup (IF yes THEN {[c EXCEPT !.kind = "delete"]} ELSE {})
  /\ UNCHANGED <<brInst, brView, brLoads, brBusy, brMemory, brEntry, brDialog,
                 brRuns, brWanted, brStrayed, brCount>>

\* The answer is the first page of the entry's directory: it is shown, as the
\* list of the instance that is current by now, and whichever entry has the
\* dialogue by now loses it.  A load under way will still replace it.
EntryAnswered(c) ==
  LET list == [inst |-> c.inst, dir |-> c.dir, page |-> 1, search |-> FALSE]
      waits == \E q \in brLoads : ~IsLoadContextStale(q)
  IN /\ c.kind # "ask"
     /\ brCalls' = brCalls \ {c}
     /\ brDialog' = CloseFileAction(brDialog)
     /\ brRuns' = Aborted(brRuns)
     /\ IF brInst.name = ""
        THEN UNCHANGED <<brView, brMemory, brWanted, brStrayed>>
        ELSE /\ ApplyFileListResponse(brView, brInst.name, list, TRUE, FALSE)
             /\ brWanted' = IF waits THEN brWanted
                            ELSE [ok |-> TRUE, list |-> list, seq |-> 0]
             /\ brStrayed' = (brStrayed \/ c.inst # brInst.name)
     /\ UNCHANGED <<brInst, brLoads, brBusy, brEntry, brCount>>

\* A failure is only told of.
EntryFailed(c) ==
  /\ c.kind # "ask"
  /\ brCalls' = brCalls \ {c}
  /\ UNCHANGED <<brInst, brView, brLoads, brBusy, brMemory, brEntry, brDialog,
                 brRuns, brWanted, brStrayed, brCount>>

(* ------------------------------ extraction ----------------------------- *)

\* extractArchive: only its own run may write to the dialogue from here on.
ExtractArchive ==
  /\ brDialog.on /\ ~brDialog.extracting /\ brInst.name # ""
  /\ Spent("acts", BrActs)
  /\ brDialog' = [brDialog EXCEPT !.run = @ + 1, !.ctl = TRUE,
                    !.extracting = TRUE, !.canceling = FALSE,
                    !.shown = brEntry]
  /\ brRuns' = brRuns \cup {[run |-> brDialog.run + 1, entry |-> brEntry,
                             phase |-> "streams", seq |-> 0]}
  /\ UNCHANGED <<brInst, brView, brLoads, brBusy, brMemory, brEntry, brCalls,
                 brWanted, brStrayed>>

\* requestCancelExtract with its question answered: the stream is aborted,
\* the dialogue waits for its end.
RequestCancelExtract ==
  /\ brDialog.extracting /\ ~brDialog.canceling /\ brDialog.ctl
  /\ brDialog' = [brDialog EXCEPT !.canceling = TRUE]
  /\ brRuns' = Aborted(brRuns)
  /\ UNCHANGED <<brInst, brView, brLoads, brBusy, brMemory, brEntry, brCalls,
                 brWanted, brStrayed, brCount>>

Finished(d, r) ==
  IF IsCurrentExtractTask(r)
  THEN [d EXCEPT !.ctl = FALSE, !.extracting = FALSE, !.canceling = FALSE]
  ELSE d

\* The stream has failed, or its abort is noticed: told in the dialogue that
\* is its own.
ExtractStopped(r) ==
  /\ r.phase \in {"streams", "cut"}
  /\ brRuns' = brRuns \ {r}
  /\ brDialog' = [Finished(brDialog, r) EXCEPT
                    !.shown = IF IsCurrentExtractTask(r) THEN r.entry ELSE @]
  /\ UNCHANGED <<brInst, brView, brLoads, brBusy, brMemory, brEntry, brCalls,
                 brWanted, brStrayed, brCount>>

\* The stream has ended well: the list is loaded again from the directory that
\* is current by now.
ExtractEnded(r) ==
  /\ r.phase = "streams" /\ IsCurrentExtractTask(r)
  /\ IF brInst.name = ""
     THEN UNCHANGED <<brView, brLoads, brBusy, brWanted>>
     ELSE LoadList(brView.dir, 1, Reloaded, {})
  /\ brRuns' = (brRuns \ {r})
               \cup {[r EXCEPT !.phase = "reloads", !.seq = brView.seq + 1]}
  /\ UNCHANGED <<brInst, brMemory, brEntry, brDialog, brCalls, brStrayed,
                 brCount>>

\* That load is over, with whatever result: the dialogue is closed unless
\* files were skipped.
ExtractReloaded(r, skipped) ==
  /\ r.phase = "reloads" /\ \A q \in brLoads : q.seq # r.seq
  /\ brRuns' = brRuns \ {r}
  /\ brDialog' = IF IsCurrentExtractTask(r) /\ ~skipped
                 THEN CloseFileAction(brDialog) ELSE Finished(brDialog, r)
  /\ UNCHANGED <<brInst, brView, brLoads, brBusy, brMemory, brEntry, brCalls,
                 brWanted, brStrayed, brCount>>

BrNext ==
  \/ \E n \in BrNames : PrepareOpenTerminalPage(n)
  \/ OpenTerminalPage
  \/ CloseTerminalPanel
  \/ \E m, n \in BrNames : RenameFileLastDirsInstance(m, n)
  \/ \E valid \in SUBSET BrNames : CleanupFileLastDirs(valid)
  \/ \E d \in BrPlaces : OpenDirectory(d) \/ TryJumpToSearchPath(d)
  \/ Refresh \/ ReloadFilesFromFirstPage
  \/ \E by \in {"button", "box"}, p \in 1 .. 2 : TurnPage(by, p)
  \/ \E on \in BOOLEAN : SubmitFileSearch(on)
  \/ \E q \in brLoads : \/ StaleAnswer(q) \/ RestoreFailed(q) \/ ListFailed(q)
                       \/ \E missing \in BOOLEAN : ListAnswered(q, missing)
  \/ OpenFileAction \/ RequestClose \/ FileActionHidden
  \/ RenameFileEntry \/ DeleteFileEntry
  \/ \E c \in brCalls : \/ EntryAnswered(c) \/ EntryFailed(c)
                       \/ \E yes \in BOOLEAN : DeleteConfirmed(c, yes)
  \/ ExtractArchive \/ RequestCancelExtract
  \/ \E r \in brRuns : \/ ExtractStopped(r) \/ ExtractEnded(r)
                      \/ \E skipped \in BOOLEAN : ExtractReloaded(r, skipped)

BrSpec == BrInit /\ [][BrNext]_brVars

(* ------------------------------ properties ----------------------------- *)

\* Once nothing is on its way and the last request has not failed, the panel
\* shows the list that was asked for last, or the one a rename or a delete in
\* this instance has handed over since: of the instance that is open, with
\* the page and the path shown with it, whatever older answers have arrived
\* and however the requests crossed (fileList.js isLoadContextStale).
BrShowsLatest ==
  (/\ \A q \in brLoads : IsLoadContextStale(q)
   /\ brWanted.ok /\ ~brStrayed)
  => /\ brView.list = brWanted.list
     /\ brView.list.inst = brInst.name
     /\ <<brView.dir, brView.page>> = <<brView.list.dir, brView.list.page>>
     /\ ~brView.error

\* What the dialogue shows of an extraction is of the entry it is open for,
\* and a stream that is neither ended nor aborted is the one the dialogue
\* controls, so that it can be cancelled (fileActionModal.js
\* isCurrentExtractTask, resetExtractState).
BrExtractOwn ==
  /\ brDialog.on /\ brDialog.shown # NoBrEntry => brDialog.shown = brEntry
  /\ \A r \in brRuns : r.phase = "streams" => IsCurrentExtractTask(r)

==============================================================================
