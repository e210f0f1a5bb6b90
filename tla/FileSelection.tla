--------------------------- MODULE FileSelection ---------------------------
(***************************************************************************)
(* Multiple selection in the file list of the web panel and the batch      *)
(* operations on it.  A selection is two sets of rules, included and       *)
(* excluded paths; a directory stands for all it contains and exclusion    *)
(* wins (module/fileList.js).  The controller applies the same rules to    *)
(* the file system by its own code (web/api/file_batch.go) and streams the *)
(* outcome to the dialogue (module/fileBatchActionModal.js).               *)
(*                                                                         *)
(* A path is a model value; Inside[p] holds p and what lies above it.  A   *)
(* rule is its path: whether a path is a directory does not change here.   *)
(***************************************************************************)
EXTENDS Naturals, FiniteSets

CONSTANTS SelPaths,  \* paths of files and directories below the root
          SelDirs,   \* those of directories
          Inside,    \* Inside[p]: p and the directories it lies in
          SelRuns,   \* bound: batch operations
          SelClicks  \* bound: clicks on the selection

\* Paths form a finite forest: of the directories a path lies in, one lies in
\* the other, and every set of paths has members that lie in no other member.
ASSUME SelAssumption ==
  /\ SelDirs \subseteq SelPaths
  /\ Inside \in [SelPaths -> SUBSET SelPaths]
  /\ \A p \in SelPaths :
       /\ p \in Inside[p]
       /\ Inside[p] \ {p} \subseteq SelDirs
       /\ \A q \in Inside[p] : Inside[q] \subseteq Inside[p]
       /\ \A q, r \in Inside[p] : q \in Inside[r] \/ r \in Inside[q]
  /\ \A p, q \in SelPaths : p \in Inside[q] /\ q \in Inside[p] => p = q
  /\ \A S \in SUBSET SelPaths : S # {} =>
       \E top \in S : Inside[top] \cap S = {top}
  /\ SelRuns \in Nat /\ SelClicks \in Nat

VARIABLES
  selInclude, \* rules of fileSelection, included
  selExclude, \* and excluded
  selDir,     \* the directory shown, "" for the root
  selShown,   \* the entries shown: a search may hide some
  selTree,    \* the files and directories that exist
  selRun,     \* the batch operation under way, or NoRun
  selFailed,  \* paths the last operation could not treat
  selMode,    \* submitMode of the dialogue: "run" or "select_failed"
  selCount    \* clicks and operations so far

selVars == <<selInclude, selExclude, selDir, selShown, selTree, selRun,
             selFailed, selMode, selCount>>

NoRun == [action |-> "none", include |-> {}, exclude |-> {}, failed |-> {}]
SelFiles == SelPaths \ SelDirs

SelTypeOK ==
  /\ selInclude \in SUBSET SelPaths /\ selExclude \in SUBSET SelPaths
  /\ selDir \in SelDirs \cup {""}
  /\ selShown \in SUBSET SelPaths
  /\ selTree \in SUBSET SelPaths
  /\ selRun \in [action : {"copy", "delete", "none"}, include : SUBSET SelPaths,
                 exclude : SUBSET SelPaths, failed : SUBSET SelPaths]
  /\ selFailed \in SUBSET SelPaths
  /\ selMode \in {"run", "select_failed"}
  /\ selCount \in [clicks : 0 .. SelClicks, runs : 0 .. SelRuns]

(* ------------------------------ the rules ------------------------------ *)

\* Paths covered by some of the rules.
Covered(p, rules) == Inside[p] \cap rules # {}

\* isSelectedByRules: exclusion has priority.
IsSelected(p, include, exclude) ==
  Covered(p, include) /\ ~Covered(p, exclude)

SelectedOf(include, exclude) ==
  {p \in SelPaths : IsSelected(p, include, exclude)}

\* cleanSelectionRules: an include that is excluded itself or by a directory
\* is dropped, then one that another included directory covers,
Unblocked(include, exclude) == {p \in include : ~Covered(p, exclude)}
Topmost(include) == {p \in include : Inside[p] \cap include = {p}}

CleanInclude(include, exclude) == Topmost(Unblocked(include, exclude))

\* and an exclude that neither lies in what is left nor contains any of it.
CleanExclude(include, exclude) ==
  LET kept == CleanInclude(include, exclude)
  IN {p \in exclude : Covered(p, kept) \/ \E q \in kept : p \in Inside[q]}

\* setSelection and its listeners, which clean the rules.
SetRules(include, exclude) ==
  /\ selInclude' = CleanInclude(include, exclude)
  /\ selExclude' = CleanExclude(include, exclude)

Selected == SelectedOf(selInclude, selExclude)

Clicked == /\ selCount.clicks < SelClicks
           /\ selCount' = [selCount EXCEPT !.clicks = @ + 1]

\* The entries of a directory.
Entries(dir, tree) ==
  {p \in tree : Inside[p] \ {p} =
                  IF dir = "" THEN {} ELSE Inside[dir]}

(* ----------------------------- the file list --------------------------- *)

\* The user opens a directory or searches in it: the rules stay.
LoadFiles ==
  /\ Clicked
  /\ selDir' \in (SelDirs \cap selTree) \cup {""}
  /\ selShown' \in SUBSET Entries(selDir', selTree)
  /\ UNCHANGED <<selInclude, selExclude, selTree, selRun, selFailed, selMode>>

\* A click on the icon of an entry: its own rule is taken back; without one it
\* is excluded when it is selected and included when it is not.
ToggleSelectionRule(p) ==
  /\ p \in selShown
  /\ Clicked
  /\ IF p \in selExclude THEN SetRules(selInclude, selExclude \ {p})
     ELSE IF p \in selInclude THEN SetRules(selInclude \ {p}, selExclude)
     ELSE IF p \in Selected THEN SetRules(selInclude, selExclude \cup {p})
     ELSE SetRules(selInclude \cup {p}, selExclude)
  /\ UNCHANGED <<selDir, selShown, selTree, selRun, selFailed, selMode>>

\* getCurrentDirAllSelected
AllSelected == selShown # {} /\ selShown \subseteq Selected

\* The button for all entries shown.
ToggleSelectAllCurrentDir ==
  /\ selShown # {}
  /\ Clicked
  /\ IF AllSelected
     THEN SetRules(selInclude \ selShown, selExclude \cup selShown)
     ELSE SetRules(selInclude \cup selShown, selExclude \ selShown)
  /\ UNCHANGED <<selDir, selShown, selTree, selRun, selFailed, selMode>>

(* --------------------------- batch operations -------------------------- *)

\* runBatch: the rules of the moment are sent.
RunBatch(action) ==
  /\ selRun = NoRun /\ selMode = "run"
  /\ selInclude \cup selExclude # {}
  /\ selCount.runs < SelRuns
  /\ selCount' = [selCount EXCEPT !.runs = @ + 1]
  /\ selRun' = [action |-> action, include |-> selInclude,
                exclude |-> selExclude, failed |-> {}]
  /\ selFailed' = {}
  /\ UNCHANGED <<selInclude, selExclude, selDir, selShown, selTree, selMode>>

\* Variant: an excluded directory is left out, what is in it is not.
WalkThrough(root, run) ==
  IF run.action = "delete" /\ Covered(root, run.exclude) THEN {}
  ELSE {p \in selTree : root \in Inside[p] /\ p \notin run.exclude}

\* What the controller treats for one included path: a walk that skips an
\* excluded file and does not enter an excluded directory.  (A copy or a move
\* enters an included directory without asking whether it is excluded.)
Walk(root, run) ==
  IF run.action = "delete" /\ Covered(root, run.exclude) THEN {}
  ELSE {p \in selTree : /\ root \in Inside[p]
                        /\ (Inside[p] \ Inside[root]) \cap run.exclude = {}
                        /\ p = root => p \in SelDirs \/ p \notin run.exclude}

\* The controller treats one included path: what is missing or fails is
\* reported; deleted directories go when nothing is left in them.
HandleApiFileBatch(root) ==
  /\ selRun # NoRun /\ root \in selRun.include
  /\ LET walked == Walk(root, selRun)
         rest == {p \in selTree \ walked : root \in Inside[p]}
     IN \E failed \in SUBSET (walked \cap SelFiles) :
          /\ selTree' = IF selRun.action = "copy" THEN selTree
                        ELSE selTree \ {p \in walked :
                               \A q \in failed \cup rest : p \notin Inside[q]}
          /\ selRun' = [selRun EXCEPT
                          !.include = @ \ {root},
                          !.failed = @ \cup failed
                                     \cup ({root} \ selTree)]
  /\ UNCHANGED <<selInclude, selExclude, selDir, selShown, selFailed, selMode,
                 selCount>>

\* The event "end": the selection of the moment is cleared; with failures the
\* dialogue offers to select them.
BatchEnded ==
  /\ selRun # NoRun /\ selRun.include = {}
  /\ SetRules({}, {})
  /\ selFailed' = selRun.failed
  /\ selMode' = IF selRun.failed = {} THEN "run" ELSE "select_failed"
  /\ selRun' = NoRun
  /\ UNCHANGED <<selDir, selShown, selTree, selCount>>

\* The stream breaks: the controller stops, the rules stay as they are.
BatchBroken ==
  /\ selRun # NoRun
  /\ selRun' = NoRun
  /\ selFailed' = selRun.failed
  /\ UNCHANGED <<selInclude, selExclude, selDir, selShown, selTree, selMode,
                 selCount>>

\* selectAllFailedFilesAndClose
SelectAllFailedFiles ==
  /\ selMode = "select_failed"
  /\ SetRules(selFailed, {})
  /\ selMode' = "run"
  /\ UNCHANGED <<selDir, selShown, selTree, selRun, selFailed, selCount>>

\* The dialogue is opened again: it forgets the failures.
OpenFileBatchAction ==
  /\ selMode = "select_failed"
  /\ selMode' = "run" /\ selFailed' = {}
  /\ UNCHANGED <<selInclude, selExclude, selDir, selShown, selTree, selRun,
                 selCount>>

\* Another instance is opened (reset).
ResetSelection ==
  /\ Clicked
  /\ SetRules({}, {})
  /\ selDir' = "" /\ selShown' = {}
  /\ UNCHANGED <<selTree, selRun, selFailed, selMode>>

SelInit ==
  /\ selInclude = {} /\ selExclude = {}
  /\ selDir = "" /\ selShown = Entries("", SelPaths)
  /\ selTree = SelPaths
  /\ selRun = NoRun /\ selFailed = {} /\ selMode = "run"
  /\ selCount = [clicks |-> 0, runs |-> 0]

SelNext ==
  \/ LoadFiles
  \/ \E p \in selShown : ToggleSelectionRule(p)
  \/ ToggleSelectAllCurrentDir
  \/ \E action \in {"copy", "delete"} : RunBatch(action)
  \/ \E root \in selRun.include : HandleApiFileBatch(root)
  \/ BatchEnded \/ BatchBroken \/ SelectAllFailedFiles
  \/ OpenFileBatchAction \/ ResetSelection

SelSpec == SelInit /\ [][SelNext]_selVars

(* ------------------------------- properties ---------------------------- *)

\* What a batch operation treats is what the list highlights: the walk of the
\* controller over the rules as they stand reaches exactly the existing files
\* the panel shows as selected, for every action.
SelBatchMatches ==
  \A action \in {"copy", "delete"} :
    LET run == [action |-> action, include |-> selInclude,
                exclude |-> selExclude, failed |-> {}]
    IN (UNION {Walk(root, run) : root \in selInclude \cap selTree}) \cap SelFiles
         = Selected \cap selTree \cap SelFiles

\* A click on an entry changes what is selected in that entry only, whatever
\* the cleaning of the rules drops.
SelToggleLocal ==
  [][\A p \in SelPaths : ToggleSelectionRule(p) =>
       \A q \in SelPaths : p \notin Inside[q] =>
         ((q \in Selected) <=> (q \in Selected'))]_selVars
=============================================================================
