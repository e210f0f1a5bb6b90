------------------------- MODULE FilePanel_proofs -------------------------
(***************************************************************************)
(* Proofs about the file panel, which is one page of three models.         *)
(*                                                                         *)
(* FileSelection: cleaning the rules never changes what they select, so a  *)
(* click on an entry changes that entry only; and since the rules are      *)
(* always clean and a path never outlives the directories it lies in, the  *)
(* controller's walk reaches what the panel shows as selected.             *)
(*                                                                         *)
(* FileBrowser: requests for lists carry numbers that only grow, so at     *)
(* most one of them, the one that is wanted, can still be shown; and       *)
(* extractions carry the number of the use of the dialogue they were begun *)
(* in, so the one that streams is the one the dialogue can cancel.         *)
(*                                                                         *)
(* FileEditor: reads and starts of Monaco carry the number of the opening  *)
(* they were begun in, and what is saved is remembered with its path, so   *)
(* content that is called unchanged is in the file and the diff counts     *)
(* from the text last read or saved.                                       *)
(***************************************************************************)
EXTENDS FileSelection, FileBrowser, FileEditor, FiniteSetTheorems, TLAPS

(* ----------------------------- FileSelection --------------------------- *)

\* The facts about paths that the proofs need.
LEMMA InsideFacts ==
  /\ \A p \in SelPaths : p \in Inside[p] /\ Inside[p] \subseteq SelPaths
  /\ \A p \in SelPaths : \A q \in Inside[p] : Inside[q] \subseteq Inside[p]
  /\ \A p \in SelPaths : \A q, r \in Inside[p] :
       q \in Inside[r] \/ r \in Inside[q]
  /\ \A S \in SUBSET SelPaths : S # {} =>
       \E top \in S : Inside[top] \cap S = {top}
BY SelAssumption DEF SelAssumption

LEMMA BoundFacts == SelRuns \in Nat /\ SelClicks \in Nat
BY SelAssumption DEF SelAssumption

LEMMA SelDirFact == SelDirs \subseteq SelPaths
BY SelAssumption DEF SelAssumption

-----------------------------------------------------------------------------
\* What the rules select is what the cleaned rules select (fileList.js
\* cleanSelectionRules): cleaning is invisible in the list.
THEOREM CleaningKeepsSelection ==
  ASSUME NEW i \in SUBSET SelPaths, NEW e \in SUBSET SelPaths
  PROVE  SelectedOf(CleanInclude(i, e), CleanExclude(i, e)) = SelectedOf(i, e)
<1> DEFINE kept == CleanInclude(i, e)
           left == CleanExclude(i, e)
<1>1. /\ kept \subseteq i /\ left \subseteq e
      /\ \A q \in kept : ~Covered(q, e)
  BY DEF CleanInclude, CleanExclude, Topmost, Unblocked
<1>2. ASSUME NEW p \in SelPaths, IsSelected(p, i, e)
      PROVE  IsSelected(p, kept, left)
  <2> DEFINE S == Inside[p] \cap Unblocked(i, e)
  <2>1. PICK r \in Inside[p] \cap i : TRUE
    BY <1>2 DEF IsSelected, Covered
  <2>2. ~Covered(r, e)
    BY <1>2, <2>1, InsideFacts DEF IsSelected, Covered
  <2>3. S # {}
    BY <2>1, <2>2 DEF Unblocked
  <2>4. PICK top \in S : Inside[top] \cap S = {top}
    <3>1. S \in SUBSET SelPaths
      BY DEF Unblocked
    <3> HIDE DEF S
    <3> QED BY <2>3, <3>1, InsideFacts
  <2>5. Inside[top] \subseteq Inside[p]
    BY <2>4, InsideFacts
  <2>6. Inside[top] \cap Unblocked(i, e) = {top}
    BY <2>4, <2>5
  <2>7. top \in kept
    BY <2>4, <2>6 DEF CleanInclude, Topmost
  <2>8. Covered(p, kept)
    BY <2>4, <2>7 DEF Covered
  <2>9. ~Covered(p, left)
    BY <1>1, <1>2 DEF IsSelected, Covered
  <2> QED BY <2>8, <2>9 DEF IsSelected
<1>3. ASSUME NEW p \in SelPaths, IsSelected(p, kept, left)
      PROVE  IsSelected(p, i, e)
  <2>1. PICK q \in Inside[p] \cap kept : TRUE
    BY <1>3 DEF IsSelected, Covered
  <2>2. Covered(p, i)
    BY <1>1, <2>1 DEF Covered
  <2>3. ASSUME NEW x \in Inside[p] \cap e
        PROVE  FALSE
    <3>1. CASE x \in Inside[q]
      BY <1>1, <2>1, <3>1 DEF Covered
    <3>2. CASE q \in Inside[x]
      <4>1. Covered(x, kept)
        BY <2>1, <3>2 DEF Covered
      <4>2. x \in left
        BY <2>3, <4>1 DEF CleanExclude
      <4> QED BY <1>3, <2>3, <4>2 DEF IsSelected, Covered
    <3> QED BY <2>1, <2>3, <3>1, <3>2, InsideFacts
  <2> QED BY <2>2, <2>3 DEF IsSelected, Covered
<1> QED BY <1>2, <1>3 DEF SelectedOf

-----------------------------------------------------------------------------
\* The rules are clean: no included path lies in another one or is excluded.
CleanRules ==
  \A p \in selInclude : /\ Inside[p] \cap selInclude = {p}
                        /\ ~Covered(p, selExclude)

\* What exists lies in directories that exist.
TreeClosed == \A p \in selTree : Inside[p] \subseteq selTree

\* The inductive invariant: batch operations depend on all three parts.
SelIInv == SelTypeOK /\ CleanRules /\ TreeClosed

\* Rules that are set are clean, whatever they were before.
LEMMA SetRulesClean ==
  ASSUME NEW i \in SUBSET SelPaths, NEW e \in SUBSET SelPaths, SetRules(i, e)
  PROVE  /\ selInclude' \in SUBSET SelPaths /\ selExclude' \in SUBSET SelPaths
         /\ CleanRules'
         /\ Selected' = SelectedOf(i, e)
<1>1. selInclude' = CleanInclude(i, e) /\ selExclude' = CleanExclude(i, e)
  BY DEF SetRules
<1>2. selInclude' \in SUBSET SelPaths /\ selExclude' \in SUBSET SelPaths
  BY <1>1 DEF CleanInclude, CleanExclude, Topmost, Unblocked
<1>3. ASSUME NEW p \in selInclude'
      PROVE  Inside[p] \cap selInclude' = {p} /\ ~Covered(p, selExclude')
  <2>1. p \in Unblocked(i, e) /\ Inside[p] \cap Unblocked(i, e) = {p}
    BY <1>1, <1>3 DEF CleanInclude, Topmost
  <2>2. selInclude' \subseteq Unblocked(i, e)
    BY <1>1 DEF CleanInclude, Topmost
  <2>3. ~Covered(p, e) /\ selExclude' \subseteq e
    BY <1>1, <2>1 DEF Unblocked, CleanExclude
  <2> QED BY <1>3, <2>1, <2>2, <2>3 DEF Covered
<1>4. Selected' = SelectedOf(i, e)
  BY <1>1, CleaningKeepsSelection DEF Selected
<1> QED BY <1>2, <1>3, <1>4 DEF CleanRules

-----------------------------------------------------------------------------
LEMMA SelInitInv ==
  SelInit => SelIInv
<1> SUFFICES ASSUME SelInit PROVE SelIInv
  OBVIOUS
<1>1. SelTypeOK
  <2>1. selCount \in [clicks : 0 .. SelClicks, runs : 0 .. SelRuns]
    <3>1. selCount = [clicks |-> 0, runs |-> 0]
      BY DEF SelInit
    <3>2. 0 \in 0 .. SelClicks /\ 0 \in 0 .. SelRuns
      BY BoundFacts
    <3> QED BY <3>1, <3>2
  <2>2. selRun \in [action : {"copy", "delete", "none"},
                    include : SUBSET SelPaths, exclude : SUBSET SelPaths,
                    failed : SUBSET SelPaths]
    BY DEF SelInit, NoRun
  <2>3. selShown \in SUBSET SelPaths /\ selTree \in SUBSET SelPaths
    BY DEF SelInit, Entries
  <2> QED BY <2>1, <2>2, <2>3 DEF SelInit, SelTypeOK
<1>2. CleanRules
  BY DEF SelInit, CleanRules
<1>3. TreeClosed
  BY InsideFacts DEF SelInit, TreeClosed
<1> QED BY <1>1, <1>2, <1>3 DEF SelIInv

\* A click counts, within its bound.
LEMMA ClickedType ==
  ASSUME SelTypeOK, Clicked
  PROVE  selCount' \in [clicks : 0 .. SelClicks, runs : 0 .. SelRuns]
<1>1. selCount.clicks \in 0 .. SelClicks /\ selCount.clicks < SelClicks
  BY DEF SelTypeOK, Clicked
<1>2. selCount.clicks + 1 \in 0 .. SelClicks
  BY <1>1, BoundFacts
<1> QED BY <1>2 DEF SelTypeOK, Clicked

\* Steps that set the rules and leave the files alone.
LEMMA RulesStep ==
  ASSUME SelIInv, NEW i \in SUBSET SelPaths, NEW e \in SUBSET SelPaths,
         SetRules(i, e), UNCHANGED selTree
  PROVE  /\ selInclude' \in SUBSET SelPaths /\ selExclude' \in SUBSET SelPaths
         /\ selTree' \in SUBSET SelPaths
         /\ CleanRules' /\ TreeClosed'
<1>1. /\ selInclude' \in SUBSET SelPaths /\ selExclude' \in SUBSET SelPaths
      /\ CleanRules'
  BY SetRulesClean
<1>2. selTree' \in SUBSET SelPaths /\ TreeClosed'
  BY DEF SelIInv, SelTypeOK, TreeClosed
<1> QED BY <1>1, <1>2

\* Steps that leave the rules and the files alone.
LEMMA QuietStep ==
  ASSUME SelIInv, UNCHANGED <<selInclude, selExclude, selTree>>
  PROVE  /\ selInclude' \in SUBSET SelPaths /\ selExclude' \in SUBSET SelPaths
         /\ selTree' \in SUBSET SelPaths
         /\ CleanRules' /\ TreeClosed'
<1>1. CleanRules'
  BY DEF SelIInv, CleanRules, Covered
<1>2. TreeClosed'
  BY DEF SelIInv, TreeClosed
<1> QED BY <1>1, <1>2 DEF SelIInv, SelTypeOK

\* The rules a click sets.
LEMMA ToggleRules ==
  ASSUME SelTypeOK, NEW p, ToggleSelectionRule(p)
  PROVE  /\ p \in SelPaths
         /\ \E i, e \in SUBSET SelPaths :
              /\ SetRules(i, e)
              /\ i \ {p} = selInclude \ {p} /\ e \ {p} = selExclude \ {p}
<1>1. p \in SelPaths /\ selInclude \in SUBSET SelPaths
      /\ selExclude \in SUBSET SelPaths
  BY DEF SelTypeOK, ToggleSelectionRule
<1>2. CASE p \in selExclude
  <2>1. SetRules(selInclude, selExclude \ {p})
    BY <1>2 DEF ToggleSelectionRule
  <2> QED BY <1>1, <2>1
<1>3. CASE p \notin selExclude /\ p \in selInclude
  <2>1. SetRules(selInclude \ {p}, selExclude)
    BY <1>3 DEF ToggleSelectionRule
  <2> QED BY <1>1, <2>1
<1>4. CASE p \notin selExclude /\ p \notin selInclude /\ p \in Selected
  <2>1. SetRules(selInclude, selExclude \cup {p})
    BY <1>4 DEF ToggleSelectionRule
  <2> QED BY <1>1, <2>1
<1>5. CASE p \notin selExclude /\ p \notin selInclude /\ p \notin Selected
  <2>1. SetRules(selInclude \cup {p}, selExclude)
    BY <1>5 DEF ToggleSelectionRule
  <2> QED BY <1>1, <2>1
<1> QED BY <1>1, <1>2, <1>3, <1>4, <1>5

\* Deleting what a walk reached, but for what failed and what it is in, leaves
\* no path without its directories.
LEMMA BatchKeepsTree ==
  ASSUME SelIInv, NEW root, HandleApiFileBatch(root)
  PROVE  selTree' \in SUBSET SelPaths /\ TreeClosed'
<1> DEFINE walked == Walk(root, selRun)
           rest == {p \in selTree \ walked : root \in Inside[p]}
<1>1. selTree \in SUBSET SelPaths /\ TreeClosed
  BY DEF SelIInv, SelTypeOK
<1>2. \A p \in walked : root \in Inside[p] /\ p \in selTree
  BY DEF Walk
<1>3. PICK failed \in SUBSET (walked \cap SelFiles) :
        selTree' = IF selRun.action = "copy" THEN selTree
                   ELSE selTree \ {p \in walked :
                          \A q \in failed \cup rest : p \notin Inside[q]}
  BY DEF HandleApiFileBatch
<1> HIDE DEF walked
<1>4. selTree' \in SUBSET SelPaths
  BY <1>1, <1>3
<1>5. ASSUME NEW q \in selTree', NEW p \in Inside[q]
      PROVE  p \in selTree'
  <2>1. q \in selTree /\ q \in SelPaths /\ p \in selTree
    BY <1>1, <1>3 DEF TreeClosed
  <2>2. CASE selRun.action = "copy"
    BY <1>3, <2>1, <2>2
  <2>3. CASE selRun.action # "copy"
    <3>1. SUFFICES ASSUME p \in walked,
                          \A x \in failed \cup rest : p \notin Inside[x]
                   PROVE  FALSE
      BY <1>3, <2>1, <2>3
    <3>2. root \in Inside[q]
      BY <1>2, <2>1, <3>1, InsideFacts
    <3>3. q \in walked
      BY <2>1, <3>1, <3>2
    <3>4. PICK x \in failed \cup rest : q \in Inside[x]
      BY <1>3, <2>1, <2>3, <3>3
    <3>5. x \in SelPaths
      BY <1>1, <1>2, <1>3, <3>4
    <3> QED BY <3>1, <3>4, <3>5, InsideFacts
  <2> QED BY <2>2, <2>3
<1> QED BY <1>4, <1>5 DEF TreeClosed

\* The rest of the types.
LEMMA BatchType ==
  ASSUME SelTypeOK, NEW root, HandleApiFileBatch(root)
  PROVE  selRun' \in [action : {"copy", "delete", "none"},
                      include : SUBSET SelPaths, exclude : SUBSET SelPaths,
                      failed : SUBSET SelPaths]
<1>1. root \in SelPaths /\ Walk(root, selRun) \subseteq SelPaths
  BY DEF SelTypeOK, HandleApiFileBatch, Walk
<1>2. PICK failed \in SUBSET (Walk(root, selRun) \cap SelFiles) :
        selRun' = [selRun EXCEPT !.include = @ \ {root},
                     !.failed = @ \cup failed \cup ({root} \ selTree)]
  BY DEF HandleApiFileBatch
<1> QED BY <1>1, <1>2 DEF SelTypeOK

LEMMA SelNextInv ==
  SelIInv /\ [SelNext]_selVars => SelIInv'
<1> SUFFICES ASSUME SelIInv, [SelNext]_selVars PROVE SelIInv'
  OBVIOUS
<1> USE DEF SelTypeOK
<1>0. SelTypeOK
  BY DEF SelIInv
<1>1. CASE LoadFiles
  <2>1. selDir' \in SelDirs \cup {""} /\ selShown' \in SUBSET SelPaths
    BY <1>0, <1>1 DEF LoadFiles, Entries
  <2> QED BY <1>0, <1>1, <2>1, QuietStep, ClickedType DEF LoadFiles, SelIInv
<1>2. ASSUME NEW p \in selShown, ToggleSelectionRule(p)
      PROVE  SelIInv'
  <2>1. PICK i, e \in SUBSET SelPaths : SetRules(i, e)
    BY <1>0, <1>2, ToggleRules
  <2>2. UNCHANGED <<selDir, selShown, selTree, selRun, selFailed, selMode>>
        /\ Clicked
    BY <1>2 DEF ToggleSelectionRule
  <2> QED BY <1>0, <2>1, <2>2, RulesStep, ClickedType DEF SelIInv
<1>3. CASE ToggleSelectAllCurrentDir
  <2>1. PICK i, e \in SUBSET SelPaths : SetRules(i, e)
    <3>1. CASE AllSelected
      BY <1>0, <1>3, <3>1 DEF ToggleSelectAllCurrentDir
    <3>2. CASE ~AllSelected
      BY <1>0, <1>3, <3>2 DEF ToggleSelectAllCurrentDir
    <3> QED BY <3>1, <3>2
  <2>2. UNCHANGED <<selDir, selShown, selTree, selRun, selFailed, selMode>>
        /\ Clicked
    BY <1>3 DEF ToggleSelectAllCurrentDir
  <2> QED BY <1>0, <2>1, <2>2, RulesStep, ClickedType DEF SelIInv
<1>4. ASSUME NEW action \in {"copy", "delete"}, RunBatch(action)
      PROVE  SelIInv'
  <2>1. selCount.runs + 1 \in 0 .. SelRuns
    <3>1. selCount.runs \in 0 .. SelRuns /\ selCount.runs < SelRuns
      BY <1>0, <1>4 DEF RunBatch
    <3> QED BY <3>1, BoundFacts
  <2>2. selCount' \in [clicks : 0 .. SelClicks, runs : 0 .. SelRuns]
    BY <1>0, <1>4, <2>1 DEF RunBatch
  <2>3. selRun' \in [action : {"copy", "delete", "none"},
                     include : SUBSET SelPaths, exclude : SUBSET SelPaths,
                     failed : SUBSET SelPaths]
    BY <1>0, <1>4 DEF RunBatch
  <2>4. UNCHANGED <<selInclude, selExclude, selDir, selShown, selTree, selMode>>
        /\ selFailed' = {}
    BY <1>4 DEF RunBatch
  <2> QED BY <1>0, <2>2, <2>3, <2>4, QuietStep DEF SelIInv
<1>5. ASSUME NEW root \in selRun.include, HandleApiFileBatch(root)
      PROVE  SelIInv'
  <2>1. selTree' \in SUBSET SelPaths /\ TreeClosed'
    BY <1>5, BatchKeepsTree
  <2>2. selRun' \in [action : {"copy", "delete", "none"},
                     include : SUBSET SelPaths, exclude : SUBSET SelPaths,
                     failed : SUBSET SelPaths]
    BY <1>0, <1>5, BatchType
  <2>3. UNCHANGED <<selInclude, selExclude, selDir, selShown, selFailed,
                    selMode, selCount>>
    BY <1>5 DEF HandleApiFileBatch
  <2>4. CleanRules'
    BY <2>3 DEF SelIInv, CleanRules, Covered
  <2> QED BY <1>0, <2>1, <2>2, <2>3, <2>4 DEF SelIInv
<1>6. CASE BatchEnded
  <2>1. UNCHANGED <<selDir, selShown, selTree, selCount>> /\ SetRules({}, {})
        /\ selFailed' = selRun.failed /\ selRun' = NoRun
        /\ selMode' \in {"run", "select_failed"}
    BY <1>6 DEF BatchEnded
  <2> QED BY <1>0, <2>1, RulesStep DEF SelIInv, NoRun
<1>7. CASE BatchBroken
  BY <1>0, <1>7, QuietStep DEF BatchBroken, SelIInv, NoRun
<1>8. CASE SelectAllFailedFiles
  <2>1. SetRules(selFailed, {}) /\ selMode' = "run"
        /\ UNCHANGED <<selDir, selShown, selTree, selRun, selFailed, selCount>>
    BY <1>8 DEF SelectAllFailedFiles
  <2> QED BY <1>0, <2>1, RulesStep DEF SelIInv
<1>9. CASE OpenFileBatchAction
  BY <1>0, <1>9, QuietStep DEF OpenFileBatchAction, SelIInv
<1>10. CASE ResetSelection
  <2>1. SetRules({}, {}) /\ selDir' = "" /\ selShown' = {}
        /\ UNCHANGED <<selTree, selRun, selFailed, selMode>> /\ Clicked
    BY <1>10 DEF ResetSelection
  <2> QED BY <1>0, <2>1, RulesStep, ClickedType DEF SelIInv
<1>11. CASE UNCHANGED selVars
  BY <1>0, <1>11, QuietStep DEF selVars, SelIInv
<1> QED
  BY <1>1, <1>2, <1>3, <1>4, <1>5, <1>6, <1>7, <1>8, <1>9, <1>10, <1>11
  DEF SelNext

\* The invariant holds in every behaviour.
THEOREM SelectionInvariant ==
  SelSpec => []SelIInv
<1>1. SelInit => SelIInv
  BY SelInitInv
<1>2. SelIInv /\ [SelNext]_selVars => SelIInv'
  BY SelNextInv
<1> QED BY <1>1, <1>2, PTL DEF SelSpec

-----------------------------------------------------------------------------
\* A batch operation treats what the list shows as selected.
THEOREM BatchMatchesList ==
  SelSpec => []SelBatchMatches
<1>1. SelIInv => SelBatchMatches
  <2> SUFFICES ASSUME SelIInv, NEW action \in {"copy", "delete"}
               PROVE  LET run == [action |-> action, include |-> selInclude,
                                  exclude |-> selExclude, failed |-> {}]
                      IN (UNION {Walk(root, run) :
                                   root \in selInclude \cap selTree}) \cap SelFiles
                           = Selected \cap selTree \cap SelFiles
    BY DEF SelBatchMatches
  <2> DEFINE run == [action |-> action, include |-> selInclude,
                     exclude |-> selExclude, failed |-> {}]
  <2>1. /\ selInclude \in SUBSET SelPaths /\ selTree \in SUBSET SelPaths
        /\ CleanRules /\ TreeClosed
    BY DEF SelIInv, SelTypeOK
  <2>2. run.exclude = selExclude
    OBVIOUS
  <2>3. ASSUME NEW root \in selInclude \cap selTree
        PROVE  Walk(root, run) =
                 {p \in selTree : /\ root \in Inside[p]
                                  /\ (Inside[p] \ Inside[root])
                                       \cap selExclude = {}
                                  /\ p = root => p \in SelDirs
                                                 \/ p \notin selExclude}
    <3>1. ~Covered(root, run.exclude)
      BY <2>1, <2>2, <2>3 DEF CleanRules
    <3> HIDE DEF run
    <3> QED BY <2>2, <3>1 DEF Walk
  <2> HIDE DEF run
  <2>4. ASSUME NEW root \in selInclude \cap selTree,
               NEW p \in Walk(root, run) \cap SelFiles
        PROVE  p \in Selected \cap selTree \cap SelFiles
    <3>1. p \in selTree /\ p \in SelPaths /\ root \in Inside[p]
          /\ (Inside[p] \ Inside[root]) \cap selExclude = {}
      BY <2>1, <2>3, <2>4
    <3>2. Inside[root] \cap selExclude = {}
      BY <2>1, <2>4 DEF CleanRules, Covered
    <3>3. IsSelected(p, selInclude, selExclude)
      BY <2>4, <3>1, <3>2 DEF IsSelected, Covered
    <3> QED BY <2>4, <3>1, <3>3 DEF Selected, SelectedOf
  <2>5. ASSUME NEW p \in Selected \cap selTree \cap SelFiles
        PROVE  \E root \in selInclude \cap selTree : p \in Walk(root, run)
    <3>1. IsSelected(p, selInclude, selExclude) /\ p \in SelPaths
      BY <2>5 DEF Selected, SelectedOf
    <3>2. PICK root \in Inside[p] \cap selInclude : TRUE
      BY <3>1 DEF IsSelected, Covered
    <3>3. root \in selTree
      BY <2>1, <2>5, <3>2 DEF TreeClosed
    <3>4. Inside[p] \cap selExclude = {} /\ p \in Inside[p]
      BY <3>1, InsideFacts DEF IsSelected, Covered
    <3>5. p \in Walk(root, run)
      BY <2>3, <2>5, <3>2, <3>3, <3>4
    <3> QED BY <3>2, <3>3, <3>5
  <2> DEFINE reached == UNION {Walk(root, run) : root \in selInclude \cap selTree}
  <2>6. reached \cap SelFiles = Selected \cap selTree \cap SelFiles
    <3>1. \A p : p \in reached <=>
            \E root \in selInclude \cap selTree : p \in Walk(root, run)
      OBVIOUS
    <3> HIDE DEF reached
    <3>2. \A p \in reached \cap SelFiles : p \in Selected \cap selTree \cap SelFiles
      BY <2>4, <3>1
    <3>3. \A p \in Selected \cap selTree \cap SelFiles : p \in reached \cap SelFiles
      BY <2>5, <3>1
    <3> QED BY <3>2, <3>3
  <2> QED BY <2>6 DEF run
<1> QED BY <1>1, SelectionInvariant, PTL

\* A click on an entry changes the selection of that entry only.
THEOREM TogglesAreLocal ==
  SelSpec => SelToggleLocal
<1>1. ASSUME SelIInv, NEW p, ToggleSelectionRule(p), NEW q \in SelPaths,
             p \notin Inside[q]
      PROVE  (q \in Selected) <=> (q \in Selected')
  <2>1. SelTypeOK
    BY <1>1 DEF SelIInv
  <2>2. PICK i, e \in SUBSET SelPaths :
          /\ SetRules(i, e)
          /\ i \ {p} = selInclude \ {p} /\ e \ {p} = selExclude \ {p}
    BY <1>1, <2>1, ToggleRules
  <2>3. Selected' = SelectedOf(i, e)
    BY <2>2, SetRulesClean
  <2>4. /\ Inside[q] \cap i = Inside[q] \cap selInclude
        /\ Inside[q] \cap e = Inside[q] \cap selExclude
    BY <1>1, <2>2
  <2> QED BY <2>3, <2>4 DEF Selected, SelectedOf, IsSelected, Covered
<1>2. SelIInv /\ [SelNext]_selVars =>
        [\A p \in SelPaths : ToggleSelectionRule(p) =>
           \A q \in SelPaths : p \notin Inside[q] =>
             ((q \in Selected) <=> (q \in Selected'))]_selVars
  BY <1>1
<1> QED BY <1>2, SelectionInvariant, PTL DEF SelSpec, SelToggleLocal

(* ------------------------------ FileBrowser ---------------------------- *)

(* The sets the records of the browser are in.                             *)
Insts == [name : BrNames \cup {""}, session : Nat, opening : BrNames \cup {""}]
Waits == [seq : Nat, by : {"button", "box"}]
Wants == [ok : BOOLEAN, list : Listings \cup {NoListing}, seq : Nat]
Calls == [inst : BrNames, dir : BrPlaces, kind : {"rename", "ask", "delete"}]
Counts == [switches : 0 .. BrSwitches, asks : 0 .. BrAsks, acts : 0 .. BrActs]

LEMMA BrFacts ==
  /\ "" \notin BrNames /\ "" \in BrPlaces
  /\ BrSwitches \in Nat /\ BrAsks \in Nat /\ BrActs \in Nat
BY BrAssumption DEF BrPlaces

LEMMA PageFacts ==
  \A d : /\ Cardinality(PagesOf(d)) \in 1 .. 2 /\ 1 \in PagesOf(d)
         /\ PagesOf(d) \subseteq 1 .. 2
<1>1. Cardinality(1 .. 2) = 2
  <2>1. 1 .. 2 = {1} \cup {2} /\ 2 \notin {1}
    OBVIOUS
  <2>2. IsFiniteSet({1}) /\ Cardinality({1}) = 1
    BY FS_Singleton
  <2>3. Cardinality({1} \cup {2}) = Cardinality({1}) + 1
    BY <2>1, <2>2, FS_AddElement
  <2> QED BY <2>1, <2>2, <2>3
<1>2. Cardinality({1}) = 1
  BY FS_Singleton
<1> QED BY <1>1, <1>2 DEF PagesOf

LEMMA NextNat == \A n \in Nat : n + 1 \in Nat /\ n + 2 \in Nat /\ n + 1 >= n
OBVIOUS

LEMMA Higher ==
  ASSUME NEW m \in Nat, NEW n \in Nat, NEW k \in Nat, m > n, k <= n
  PROVE  k <= m /\ k # m /\ m > 0
OBVIOUS

LEMMA NoneYet == \A b \in Nat : 0 \in 0 .. b
OBVIOUS

LEMMA CountsOn ==
  ASSUME NEW b \in Nat, NEW n \in 0 .. b, n < b
  PROVE  n + 1 \in 0 .. b
OBVIOUS

LEMMA CountFacts ==
  ASSUME brCount \in Counts
  PROVE  /\ Spent("switches", BrSwitches) => brCount' \in Counts
         /\ Spent("asks", BrAsks) => brCount' \in Counts
         /\ Spent("acts", BrActs) => brCount' \in Counts
<1>1. /\ brCount.switches \in 0 .. BrSwitches /\ brCount.asks \in 0 .. BrAsks
      /\ brCount.acts \in 0 .. BrActs
  BY DEF Counts
<1>2. Spent("switches", BrSwitches) => brCount' \in Counts
  <2>1. SUFFICES ASSUME Spent("switches", BrSwitches) PROVE brCount' \in Counts
    OBVIOUS
  <2>2. brCount.switches + 1 \in 0 .. BrSwitches
    BY <1>1, <2>1, BrFacts, CountsOn DEF Spent
  <2> QED BY <2>1, <2>2 DEF Counts, Spent
<1>3. Spent("asks", BrAsks) => brCount' \in Counts
  <2>1. SUFFICES ASSUME Spent("asks", BrAsks) PROVE brCount' \in Counts
    OBVIOUS
  <2>2. brCount.asks + 1 \in 0 .. BrAsks
    BY <1>1, <2>1, BrFacts, CountsOn DEF Spent
  <2> QED BY <2>1, <2>2 DEF Counts, Spent
<1>4. Spent("acts", BrActs) => brCount' \in Counts
  <2>1. SUFFICES ASSUME Spent("acts", BrActs) PROVE brCount' \in Counts
    OBVIOUS
  <2>2. brCount.acts + 1 \in 0 .. BrActs
    BY <1>1, <2>1, BrFacts, CountsOn DEF Spent
  <2> QED BY <2>1, <2>2 DEF Counts, Spent
<1> QED BY <1>2, <1>3, <1>4

LEMMA ViewFacts ==
  ASSUME NEW v \in BrViews
  PROVE  /\ v.dir \in BrPlaces /\ v.list \in Listings \cup {NoListing}
         /\ v.page \in 1 .. 2 /\ v.total \in 1 .. 2 /\ v.seq \in Nat
         /\ v.search \in BOOLEAN /\ v.error \in BOOLEAN
         /\ \A n \in Nat : [v EXCEPT !.seq = n] \in BrViews
BY DEF BrViews

LEMMA ViewMakes ==
  \A n \in Nat, no \in BOOLEAN, d \in BrPlaces, l \in Listings \cup {NoListing} :
    LET v == [dir |-> d, list |-> l, page |-> 1, total |-> 1, seq |-> n,
              search |-> no, error |-> no]
    IN v \in BrViews /\ v.seq = n /\ v.list = l
BY DEF BrViews

LEMMA NoViewFacts ==
  ASSUME NEW n \in Nat
  PROVE  /\ NoView(n) \in BrViews /\ NoView(n).seq = n
         /\ NoView(n).list = NoListing
<1>1. FALSE \in BOOLEAN /\ NoListing \in Listings \cup {NoListing}
  OBVIOUS
<1> HIDE DEF Listings, NoListing
<1> QED BY <1>1, BrFacts, ViewMakes, Zenon DEF NoView

LEMMA ListingFacts ==
  /\ \A l \in Listings : /\ l.inst \in BrNames /\ l.dir \in BrPlaces
                         /\ l.page \in 1 .. 2 /\ l.search \in BOOLEAN
  /\ \A n \in BrNames, d \in BrPlaces, p \in 1 .. 2, s \in BOOLEAN :
       [inst |-> n, dir |-> d, page |-> p, search |-> s] \in Listings
  /\ NoListing \notin Listings
BY BrFacts DEF Listings, NoListing

LEMMA RequestFacts ==
  ASSUME NEW q \in BrRequests
  PROVE  /\ q.kind \in {"load", "restore", "root", "jump"} /\ q.inst \in BrNames
         /\ q.session \in Nat /\ q.seq \in Nat /\ q.dir \in BrPlaces
         /\ q.page \in 1 .. 2 /\ q.total \in 1 .. 2 /\ q.search \in BOOLEAN
BY DEF BrRequests

-----------------------------------------------------------------------------
(* The pieces.                                                             *)

\* The request that a load begun now sends.
AskedNow(q) == /\ q.seq = brView.seq + 1
               /\ q.inst = brInst.name /\ q.session = brInst.session

LEMMA LoadListEffect ==
  ASSUME BrTypeOK, NEW dir \in BrPlaces, NEW page \in 1 .. 2, NEW view \in BrViews,
         NEW by \in SUBSET {"button", "box"}, view.seq = brView.seq,
         brInst.name \in BrNames, LoadList(dir, page, view, by)
  PROVE  /\ brView' \in BrViews /\ brView'.seq = brView.seq + 1
         /\ \E q \in BrRequests : brLoads' = brLoads \cup {q} /\ AskedNow(q)
         /\ brBusy' \in SUBSET Waits
         /\ brWanted' \in Wants /\ brWanted'.ok /\ brWanted'.seq = brView.seq + 1
<1> DEFINE v == [view EXCEPT !.seq = @ + 1]
           memory == dir = "" /\ view.dir = "" /\ page = 1 /\ view.list = NoListing
           kind == IF ~memory THEN "load"
                   ELSE IF brMemory[brInst.name] = "" THEN "root" ELSE "restore"
           goal == IF kind = "restore" THEN brMemory[brInst.name] ELSE dir
           q == Request(kind, goal, page, v.search, v)
<1>1. v \in BrViews /\ v.seq = brView.seq + 1 /\ v.total \in 1 .. 2 /\ v.search \in BOOLEAN
  BY ViewFacts DEF BrViews
<1>2. brMemory[brInst.name] \in BrPlaces /\ goal \in BrPlaces
      /\ kind \in {"load", "restore", "root", "jump"}
  BY DEF BrTypeOK
<1>3. brView' = v /\ brLoads' = brLoads \cup {q}
      /\ brBusy' = brBusy \cup {[seq |-> v.seq, by |-> c] : c \in by}
      /\ brWanted' = [ok |-> TRUE, seq |-> v.seq,
                      list |-> [inst |-> brInst.name, dir |-> goal, page |-> page,
                                search |-> v.search]]
  BY DEF LoadList
<1>4. brInst.session \in Nat
  BY DEF BrTypeOK
<1> HIDE DEF v, kind, goal
<1>5. q \in BrRequests /\ AskedNow(q)
  <2>1. v.seq \in Nat
    BY <1>1, ViewFacts
  <2> QED BY <1>1, <1>2, <1>4, <2>1 DEF Request, BrRequests, AskedNow
<1>6. brBusy' \in SUBSET Waits
  <2>1. brBusy \in SUBSET Waits /\ v.seq \in Nat
    BY <1>1, ViewFacts DEF BrTypeOK, Waits
  <2> QED BY <1>3, <2>1 DEF Waits
<1>7. brWanted' \in Wants /\ brWanted'.ok /\ brWanted'.seq = brView.seq + 1
  <2>1. [inst |-> brInst.name, dir |-> goal, page |-> page, search |-> v.search] \in Listings
    BY <1>1, <1>2, ListingFacts
  <2>2. v.seq \in Nat
    BY <1>1, ViewFacts
  <2> QED BY <1>1, <1>3, <2>1, <2>2 DEF Wants
<1> QED BY <1>1, <1>3, <1>5, <1>6, <1>7

LEMMA ApplyEffect ==
  ASSUME BrTypeOK, NEW view \in BrViews, NEW inst \in BrNames, NEW list \in Listings,
         NEW remember, NEW missing,
         ApplyFileListResponse(view, inst, list, remember, missing)
  PROVE  /\ brView' \in BrViews /\ brView'.seq = view.seq
         /\ brView'.list = list /\ brView'.dir = list.dir /\ brView'.page = list.page
         /\ ~brView'.error
         /\ brMemory' \in [BrNames -> BrPlaces]
<1>1. list.dir \in BrPlaces /\ list.page \in 1 .. 2
      /\ Cardinality(PagesOf(list.dir)) \in 1 .. 2
  BY ListingFacts, PageFacts
<1> DEFINE total == Cardinality(PagesOf(list.dir))
<1>2. brView' = [view EXCEPT !.list = list, !.dir = list.dir, !.page = list.page,
                             !.error = FALSE, !.total = total]
  BY DEF ApplyFileListResponse
<1>3. total \in 1 .. 2
  BY <1>1
<1> HIDE DEF total
<1>4. /\ brView' \in BrViews /\ brView'.seq = view.seq
      /\ brView'.list = list /\ brView'.dir = list.dir /\ brView'.page = list.page
      /\ ~brView'.error
  <2> HIDE DEF Listings
  <2> QED BY <1>1, <1>2, <1>3 DEF BrViews
<1>5. brMemory' \in [BrNames -> BrPlaces]
  BY <1>1, BrFacts DEF ApplyFileListResponse, BrTypeOK
<1> QED BY <1>4, <1>5

LEMMA CloseFacts ==
  ASSUME NEW d \in BrDialogs
  PROVE  /\ CloseFileAction(d) \in BrDialogs
         /\ ~CloseFileAction(d).on /\ CloseFileAction(d).closing
         /\ ~CloseFileAction(d).ctl /\ ~CloseFileAction(d).extracting
         /\ CloseFileAction(d).run = d.run /\ CloseFileAction(d).shown = d.shown
BY DEF BrDialogs, CloseFileAction

LEMMA FinishedFacts ==
  ASSUME brDialog \in BrDialogs, NEW r
  PROVE  LET d == Finished(brDialog, r)
         IN /\ d \in BrDialogs /\ d.run = brDialog.run /\ d.shown = brDialog.shown
            /\ d.on = brDialog.on /\ d.closing = brDialog.closing
            /\ IsCurrentExtractTask(r) => ~d.ctl /\ ~d.extracting
            /\ ~IsCurrentExtractTask(r) => d = brDialog
BY DEF BrDialogs, Finished

LEMMA ExtractionFacts ==
  ASSUME NEW r \in BrExtractions
  PROVE  /\ r.run \in Nat /\ r.entry \in BrEntries /\ r.seq \in Nat
         /\ r.phase \in {"streams", "cut", "reloads"}
         /\ \A p \in {"streams", "cut", "reloads"} :
              LET s == [r EXCEPT !.phase = p]
              IN s \in BrExtractions /\ s.run = r.run /\ s.entry = r.entry /\ s.phase = p
         /\ \A n \in Nat :
              LET s == [r EXCEPT !.phase = "reloads", !.seq = n]
              IN s \in BrExtractions /\ s.run = r.run /\ s.entry = r.entry
                 /\ s.phase = "reloads"
BY DEF BrExtractions

\* What an abort leaves of an extraction.
LEMMA AbortedFacts ==
  ASSUME brRuns \in SUBSET BrExtractions
  PROVE  /\ Aborted(brRuns) \in SUBSET BrExtractions
         /\ \A a \in Aborted(brRuns) : \E r \in brRuns :
              /\ a.run = r.run /\ a.entry = r.entry
              /\ a.phase = "streams" => r.phase = "streams" /\ ~IsCurrentExtractTask(r)
         /\ \A a, b \in Aborted(brRuns) :
              (a.run = b.run /\ \A r, s \in brRuns : r.run = s.run => r = s) => a = b
<1> DEFINE After(r) == [r EXCEPT !.phase = IF @ = "streams" /\ IsCurrentExtractTask(r)
                                           THEN "cut" ELSE @]
<1>1. Aborted(brRuns) = {After(r) : r \in brRuns}
  BY DEF Aborted
<1>2. ASSUME NEW r \in brRuns
      PROVE  /\ After(r) \in BrExtractions /\ After(r).run = r.run /\ After(r).entry = r.entry
             /\ After(r).phase = "streams" => r.phase = "streams" /\ ~IsCurrentExtractTask(r)
  <2>1. r \in BrExtractions
    BY <1>2
  <2>2. r.phase \in {"streams", "cut", "reloads"}
    BY <2>1, ExtractionFacts
  <2>3. PICK p \in {"streams", "cut", "reloads"} :
          p = IF r.phase = "streams" /\ IsCurrentExtractTask(r) THEN "cut" ELSE r.phase
    BY <2>2
  <2>4. After(r) = [r EXCEPT !.phase = p]
    BY <2>3
  <2> HIDE DEF After
  <2>5. /\ After(r) \in BrExtractions /\ After(r).run = r.run
        /\ After(r).entry = r.entry /\ After(r).phase = p
    BY <2>1, <2>4 DEF BrExtractions
  <2> QED BY <2>3, <2>5
<1> HIDE DEF After
<1> QED BY <1>1, <1>2

-----------------------------------------------------------------------------
(* The invariant.                                                          *)

\* Requests for lists are numbered apart, up to the current number.
LoadsNumbered ==
  /\ \A q \in brLoads : q.seq > 0 /\ q.seq <= brView.seq
  /\ \A p, q \in brLoads : p.seq = q.seq => p = q

\* The answer that will be shown is the one that is wanted.
LoadWanted ==
  \A q \in brLoads : ~IsLoadContextStale(q) => brWanted.ok /\ brWanted.seq = q.seq

ListIInv == LoadsNumbered /\ LoadWanted /\ BrShowsLatest

DialogInOrder ==
  /\ brDialog.ctl = brDialog.extracting
  /\ brDialog.extracting => brDialog.on
  /\ brDialog.closing => ~brDialog.on
  /\ brDialog.on => brEntry # NoBrEntry

\* Extractions are numbered apart, up to the dialogue's number.
RunsNumbered ==
  /\ \A r \in brRuns : /\ r.run <= brDialog.run
                       /\ IsCurrentExtractTask(r) => r.entry = brEntry
  /\ \A r, s \in brRuns : r.run = s.run => r = s

EntryIInv == DialogInOrder /\ RunsNumbered /\ BrExtractOwn

BrIInv == BrTypeOK /\ ListIInv /\ EntryIInv

\* The types that a step on the lists can disturb, and those of the dialogue.
ListTypes == /\ brInst \in Insts /\ brView \in BrViews /\ brLoads \in SUBSET BrRequests
             /\ brBusy \in SUBSET Waits /\ brMemory \in [BrNames -> BrPlaces]
             /\ brWanted \in Wants /\ brStrayed \in BOOLEAN
EntryTypes == /\ brEntry \in BrEntries \cup {NoBrEntry} /\ brDialog \in BrDialogs
              /\ brCalls \in SUBSET Calls /\ brRuns \in SUBSET BrExtractions

LEMMA TypesMake ==
  ASSUME ListTypes', EntryTypes', brCount' \in Counts PROVE BrTypeOK'
BY DEF BrTypeOK, ListTypes, EntryTypes, Insts, Waits, Wants, Calls, Counts

LEMMA TypeParts == BrTypeOK <=> ListTypes /\ EntryTypes /\ brCount \in Counts
BY DEF BrTypeOK, ListTypes, EntryTypes, Insts, Waits, Wants, Calls, Counts

listVars == <<brInst, brView, brLoads, brWanted, brStrayed>>
entryVars == <<brEntry, brDialog, brRuns>>

LEMMA ListFrame ==
  ASSUME ListIInv, UNCHANGED listVars PROVE ListIInv'
BY DEF ListIInv, LoadsNumbered, LoadWanted, BrShowsLatest, IsLoadContextStale, listVars

LEMMA EntryFrame ==
  ASSUME EntryIInv, UNCHANGED entryVars PROVE EntryIInv'
BY DEF EntryIInv, DialogInOrder, RunsNumbered, BrExtractOwn, IsCurrentExtractTask, entryVars

\* A list has been asked for: nothing else counts until its answer.
LEMMA AskedKeeps ==
  ASSUME BrTypeOK, ListIInv, NEW q \in BrRequests, AskedNow(q),
         brLoads' = brLoads \cup {q}, brInst' = brInst,
         brView'.seq = brView.seq + 1, brWanted'.ok, brWanted'.seq = brView.seq + 1
  PROVE  ListIInv'
<1>1. brView.seq \in Nat /\ \A p \in brLoads : p.seq \in Nat
  BY ViewFacts, RequestFacts DEF BrTypeOK
<1>2. LoadsNumbered'
  BY <1>1 DEF ListIInv, LoadsNumbered, AskedNow
<1>3. LoadWanted'
  BY DEF LoadWanted, IsLoadContextStale
<1>4. BrShowsLatest'
  <2>1. q \in brLoads' /\ ~IsLoadContextStale(q)'
    BY DEF AskedNow, IsLoadContextStale
  <2> QED BY <2>1 DEF BrShowsLatest
<1> QED BY <1>2, <1>3, <1>4 DEF ListIInv

\* A request with a higher number than all before.
LEMMA FreshNumbered ==
  ASSUME ListTypes, LoadsNumbered, NEW q, brLoads' = brLoads \cup {q},
         q.seq = brView'.seq, brView'.seq \in Nat, brView'.seq > brView.seq
  PROVE  LoadsNumbered' /\ \A p \in brLoads : p.seq # brView'.seq
<1>1. brView.seq \in Nat /\ \A p \in brLoads : p.seq \in Nat /\ p.seq > 0 /\ p.seq <= brView.seq
  BY ViewFacts, RequestFacts DEF ListTypes, LoadsNumbered
<1>2. \A p \in brLoads : p.seq <= brView'.seq /\ p.seq # brView'.seq
  BY <1>1, Higher
<1>3. brView'.seq > 0
  BY <1>1
<1> QED BY <1>1, <1>2, <1>3 DEF LoadsNumbered

\* Nothing is wanted any more, or what was asked for has failed.
LEMMA UnwantedKeeps ==
  ASSUME BrTypeOK, ListIInv, brLoads' \subseteq brLoads, brView'.seq >= brView.seq,
         brView'.seq \in Nat, ~brWanted'.ok,
         \A q \in brLoads' : IsLoadContextStale(q)'
  PROVE  ListIInv'
<1>1. brView.seq \in Nat /\ \A p \in brLoads : p.seq \in Nat
  BY ViewFacts, RequestFacts DEF BrTypeOK
<1>2. LoadsNumbered'
  BY <1>1 DEF ListIInv, LoadsNumbered
<1> QED BY <1>2 DEF ListIInv, LoadWanted, BrShowsLatest

\* A list is shown.
LEMMA ShownKeeps ==
  ASSUME BrTypeOK, ListIInv, brLoads' \subseteq brLoads, brView'.seq = brView.seq,
         brInst' = brInst, NEW list \in Listings,
         brView'.list = list, brView'.dir = list.dir, brView'.page = list.page,
         ~brView'.error, brStrayed' \/ list.inst = brInst.name,
         \/ (\E q \in brLoads' : ~IsLoadContextStale(q)) /\ brWanted' = brWanted
         \/ (\A q \in brLoads' : IsLoadContextStale(q)) /\ brWanted'.list = list
  PROVE  ListIInv'
<1>1. \A q \in brLoads' : IsLoadContextStale(q)' <=> IsLoadContextStale(q)
  BY DEF IsLoadContextStale
<1>2. LoadsNumbered' /\ LoadWanted'
  BY <1>1 DEF ListIInv, LoadsNumbered, LoadWanted
<1>3. BrShowsLatest'
  BY <1>1 DEF BrShowsLatest
<1> QED BY <1>2, <1>3 DEF ListIInv

-----------------------------------------------------------------------------
(* Steps on the lists.                                                     *)

LEMMA InstFacts ==
  ASSUME NEW i \in Insts
  PROVE  /\ i.name \in BrNames \cup {""} /\ i.opening \in BrNames \cup {""}
         /\ i.session \in Nat
         /\ \A n \in BrNames \cup {""} :
              /\ [i EXCEPT !.session = @ + 1, !.opening = n] \in Insts
              /\ [i EXCEPT !.session = @ + 1, !.opening = n].session = i.session + 1
              /\ [i EXCEPT !.name = n, !.opening = ""] \in Insts
              /\ [i EXCEPT !.name = n, !.opening = ""].name = n
              /\ [i EXCEPT !.name = n, !.opening = ""].session = i.session
         /\ [name |-> "", session |-> i.session + 1, opening |-> ""] \in Insts
<1>1. /\ i.name \in BrNames \cup {""} /\ i.opening \in BrNames \cup {""}
      /\ i.session \in Nat /\ "" \in BrNames \cup {""}
  BY DEF Insts
<1>0. i.session \in Nat
  BY <1>1
<1>2. i.session + 1 \in Nat
  BY <1>0, NextNat
<1> DEFINE names == BrNames \cup {""}
<1> HIDE DEF names
<1>3. \A n \in names, none \in names :
              /\ [i EXCEPT !.session = @ + 1, !.opening = n] \in Insts
              /\ [i EXCEPT !.session = @ + 1, !.opening = n].session = i.session + 1
              /\ [i EXCEPT !.name = n, !.opening = none] \in Insts
              /\ [i EXCEPT !.name = n, !.opening = none].name = n
              /\ [i EXCEPT !.name = n, !.opening = none].session = i.session
              /\ [name |-> none, session |-> i.session + 1, opening |-> none] \in Insts
  BY <1>2 DEF Insts, names
<1> QED BY <1>1, <1>3 DEF names

LEMMA WantFacts ==
  \A w \in Wants : /\ w.seq \in Nat /\ w.ok \in BOOLEAN
                   /\ \A l \in Listings : /\ [w EXCEPT !.list = l] \in Wants
                                          /\ [w EXCEPT !.list = l].list = l
                                          /\ [w EXCEPT !.list = l].ok = w.ok
                                          /\ [w EXCEPT !.list = l].seq = w.seq
                   /\ [w EXCEPT !.ok = FALSE] \in Wants
                   /\ ~[w EXCEPT !.ok = FALSE].ok
BY DEF Wants

LEMMA WantMakes ==
  \A ok \in BOOLEAN, l \in Listings \cup {NoListing}, n \in Nat :
    LET w == [ok |-> ok, list |-> l, seq |-> n]
    IN w \in Wants /\ w.ok = ok /\ w.list = l /\ w.seq = n
BY DEF Wants

LEMMA NothingWantedFacts == NothingWanted \in Wants /\ ~NothingWanted.ok
<1>1. NoListing \in Listings \cup {NoListing} /\ 0 \in Nat /\ FALSE \in BOOLEAN
  OBVIOUS
<1> HIDE DEF Listings, NoListing
<1>2. NothingWanted \in Wants /\ NothingWanted.ok = FALSE
  BY <1>1, WantMakes, Zenon DEF NothingWanted
<1> QED BY <1>2

LEMMA ListWanted ==
  ASSUME NEW w, NEW l \in Listings, NEW n \in Nat,
         w = [ok |-> TRUE, list |-> l, seq |-> n]
  PROVE  w \in Wants /\ w.ok /\ w.list = l /\ w.seq = n
<1>1. l \in Listings \cup {NoListing} /\ TRUE \in BOOLEAN
  OBVIOUS
<1>2. w \in Wants /\ w.ok = TRUE /\ w.list = l /\ w.seq = n
  BY <1>1, WantMakes, Zenon
<1> QED BY <1>2

\* Opening and closing an instance.
LEMMA SwitchStep ==
  ASSUME BrTypeOK, ListIInv, EntryIInv,
         \/ \E n \in BrNames : PrepareOpenTerminalPage(n)
         \/ OpenTerminalPage
  PROVE  BrTypeOK' /\ ListIInv' /\ EntryIInv'
<1>1. ListTypes /\ EntryTypes /\ brCount \in Counts /\ brView.seq \in Nat
  BY TypeParts, ViewFacts DEF ListTypes
<1>2. /\ UNCHANGED <<entryVars, brCalls, brBusy, brMemory>>
  BY DEF PrepareOpenTerminalPage, OpenTerminalPage, entryVars
<1>3. EntryIInv' /\ EntryTypes'
  BY <1>1, <1>2, EntryFrame DEF EntryTypes, entryVars
<1>4. ASSUME NEW n \in BrNames, PrepareOpenTerminalPage(n)
      PROVE  ListTypes' /\ ListIInv' /\ brCount' \in Counts
  <2>1. /\ brInst' \in Insts /\ brInst'.session = brInst.session + 1
    BY <1>1, <1>4, InstFacts DEF PrepareOpenTerminalPage, ListTypes
  <2>2. brView' \in BrViews /\ brView'.seq = brView.seq + 1
    <3>1. brView' = NoView(brView.seq + 1)
      BY <1>4 DEF PrepareOpenTerminalPage, ResetView
    <3> QED BY <1>1, <3>1, NoViewFacts
  <2>3. brWanted' \in Wants /\ ~brWanted'.ok /\ UNCHANGED <<brLoads, brStrayed>>
    BY <1>4, NothingWantedFacts DEF PrepareOpenTerminalPage
  <2>4. ListTypes'
    BY <1>1, <1>2, <2>1, <2>2, <2>3 DEF ListTypes
  <2>5. \A q \in brLoads' : IsLoadContextStale(q)'
    <3>1. \A q \in brLoads : q.seq \in Nat /\ q.seq <= brView.seq
      BY <1>1, RequestFacts DEF ListTypes, ListIInv, LoadsNumbered
    <3> QED BY <1>1, <2>2, <2>3, <3>1 DEF IsLoadContextStale
  <2>6. ListIInv'
    BY <1>1, <2>2, <2>3, <2>5, UnwantedKeeps
  <2> QED BY <1>1, <1>4, <2>4, <2>6, CountFacts DEF PrepareOpenTerminalPage
<1>5. ASSUME OpenTerminalPage
      PROVE  ListTypes' /\ ListIInv' /\ brCount' = brCount
  <2> DEFINE n == brInst.opening
             kind == IF brMemory[n] = "" THEN "root" ELSE "restore"
             q == [kind |-> kind, inst |-> n, session |-> brInst.session,
                   seq |-> brView.seq + 2, dir |-> brMemory[n], page |-> 1, total |-> 1,
                   search |-> FALSE]
             l == [inst |-> n, dir |-> brMemory[n], page |-> 1, search |-> FALSE]
  <2>1. /\ n # "" /\ brInst' = [brInst EXCEPT !.name = n, !.opening = ""]
        /\ brView' = NoView(brView.seq + 2) /\ brLoads' = brLoads \cup {q}
        /\ brWanted' = [ok |-> TRUE, list |-> l, seq |-> brView.seq + 2]
        /\ brStrayed' = FALSE /\ brCount' = brCount
    BY <1>5 DEF OpenTerminalPage
  <2>2. n \in BrNames /\ brMemory[n] \in BrPlaces /\ brInst.session \in Nat
        /\ kind \in {"load", "restore", "root", "jump"}
    BY <1>1, <2>1, InstFacts DEF ListTypes
  <2>3. q \in BrRequests /\ q.seq = brView.seq + 2 /\ q.inst = n
        /\ q.session = brInst.session /\ l \in Listings
    <3>1. brView.seq + 2 \in Nat /\ FALSE \in BOOLEAN /\ 1 \in 1 .. 2
      BY <1>1
    <3> HIDE DEF n, kind
    <3>2. \A no \in BOOLEAN, m \in Nat, p \in 1 .. 2 :
            LET r == [kind |-> kind, inst |-> n, session |-> brInst.session,
                      seq |-> m, dir |-> brMemory[n], page |-> p, total |-> p,
                      search |-> no]
            IN /\ r \in BrRequests /\ r.seq = m /\ r.inst = n
               /\ r.session = brInst.session
               /\ [inst |-> n, dir |-> brMemory[n], page |-> p, search |-> no] \in Listings
      BY <2>2 DEF BrRequests, Listings
    <3> QED BY <3>1, <3>2, Zenon
  <2>x. PICK x \in BrRequests : x = q
    BY <2>3
  <2>y. x.seq = brView.seq + 2 /\ x.inst = n /\ x.session = brInst.session
    BY <2>3, <2>x
  <2>z. brLoads' = brLoads \cup {x}
    BY <2>1, <2>x
  <2> HIDE DEF q, l
  <2>4. /\ brInst' \in Insts /\ brInst'.name = n /\ brInst'.session = brInst.session
    BY <1>1, <2>1, <2>2, InstFacts DEF ListTypes
  <2>n. brView.seq + 2 \in Nat
    BY <1>1
  <2>5. brView' \in BrViews /\ brView'.seq = brView.seq + 2
    BY <2>n, <2>1, NoViewFacts
  <2>6. brWanted' \in Wants /\ brWanted'.ok /\ brWanted'.seq = brView.seq + 2
    BY <2>n, <2>1, <2>3, ListWanted
  <2>7. ListTypes'
    BY <1>1, <1>2, <2>1, <2>z, <2>4, <2>5, <2>6 DEF ListTypes
  <2>8. brView.seq + 2 > brView.seq
    BY <1>1
  <2>9. /\ x.seq = brView'.seq /\ x.inst = brInst'.name /\ x.session = brInst'.session
        /\ brView'.seq \in Nat /\ brView'.seq > brView.seq
    BY <2>n, <2>y, <2>4, <2>5, <2>8
  <2>10. LoadsNumbered' /\ \A p \in brLoads : p.seq # brView'.seq
    BY <1>1, <2>z, <2>9, FreshNumbered DEF ListIInv
  <2>11. ~IsLoadContextStale(x)' /\ x \in brLoads'
    BY <2>z, <2>9 DEF IsLoadContextStale
  <2>12. LoadWanted'
    BY <2>z, <2>5, <2>6, <2>9, <2>10 DEF LoadWanted, IsLoadContextStale
  <2> QED BY <2>1, <2>7, <2>10, <2>11, <2>12 DEF ListIInv, BrShowsLatest
<1> QED BY <1>1, <1>3, <1>4, <1>5, TypesMake

\* What the user asks to see: a load begins, the dialogue is left alone.
LEMMA AskStep ==
  ASSUME BrTypeOK, ListIInv, EntryIInv, NEW dir \in BrPlaces, NEW page \in 1 .. 2,
         NEW view \in BrViews, view.seq = brView.seq, NEW by \in SUBSET {"button", "box"},
         brInst.name # "", LoadList(dir, page, view, by), brCount' \in Counts,
         UNCHANGED <<brInst, brMemory, brCalls, entryVars, brStrayed>>
  PROVE  BrTypeOK' /\ ListIInv' /\ EntryIInv'
<1>1. ListTypes /\ EntryTypes /\ brInst.name \in BrNames
  BY TypeParts, InstFacts DEF ListTypes
<1>2. EntryIInv' /\ EntryTypes'
  BY <1>1, EntryFrame DEF EntryTypes, entryVars
<1>3. /\ brView' \in BrViews /\ brView'.seq = brView.seq + 1
      /\ brBusy' \in SUBSET Waits
      /\ brWanted' \in Wants /\ brWanted'.ok /\ brWanted'.seq = brView.seq + 1
      /\ \E q \in BrRequests : brLoads' = brLoads \cup {q} /\ AskedNow(q)
  BY <1>1, LoadListEffect
<1>4. PICK q \in BrRequests : brLoads' = brLoads \cup {q} /\ AskedNow(q)
  BY <1>3
<1>5. ListIInv'
  BY <1>3, <1>4, AskedKeeps
<1>6. ListTypes'
  BY <1>1, <1>3, <1>4 DEF ListTypes
<1> QED BY <1>2, <1>5, <1>6, TypesMake

LEMMA ViewEdits ==
  ASSUME NEW v \in BrViews
  PROVE  \A b \in BOOLEAN, p \in 1 .. 2 :
           /\ [v EXCEPT !.error = b] \in BrViews /\ [v EXCEPT !.error = b].seq = v.seq
           /\ [v EXCEPT !.search = b] \in BrViews /\ [v EXCEPT !.search = b].seq = v.seq
           /\ [v EXCEPT !.page = p] \in BrViews /\ [v EXCEPT !.page = p].seq = v.seq
           /\ [v EXCEPT !.total = p] \in BrViews /\ [v EXCEPT !.total = p].seq = v.seq
BY DEF BrViews

LEMMA ReloadedFacts ==
  ASSUME brView \in BrViews
  PROVE  Reloaded \in BrViews /\ Reloaded.seq = brView.seq
<1>1. 1 \in 1 .. 2
  OBVIOUS
<1>2. [brView EXCEPT !.page = 1] \in BrViews /\ [brView EXCEPT !.page = 1].seq = brView.seq
  BY <1>1, ViewEdits
<1>3. Reloaded = [[brView EXCEPT !.page = 1] EXCEPT !.total = 1]
  BY DEF Reloaded
<1> QED BY <1>1, <1>2, <1>3, ViewEdits

LEMMA ViewChanges ==
  ASSUME NEW v \in BrViews, NEW search \in BOOLEAN
  PROVE  /\ [v EXCEPT !.error = FALSE] \in BrViews
         /\ [v EXCEPT !.error = FALSE].seq = v.seq
         /\ [FirstPage(v) EXCEPT !.search = search] \in BrViews
         /\ [FirstPage(v) EXCEPT !.search = search].seq = v.seq
<1>1. 1 \in 1 .. 2 /\ FALSE \in BOOLEAN
  OBVIOUS
<1> DEFINE a == [v EXCEPT !.page = 1]
           b == [a EXCEPT !.total = 1]
<1>2. a \in BrViews /\ a.seq = v.seq
  BY <1>1, ViewEdits
<1>3. b \in BrViews /\ b.seq = v.seq
  BY <1>1, <1>2, ViewEdits
<1>4. FirstPage(v) = [b EXCEPT !.error = FALSE]
  BY DEF FirstPage
<1> HIDE DEF b
<1>5. FirstPage(v) \in BrViews /\ FirstPage(v).seq = v.seq
  BY <1>1, <1>3, <1>4, ViewEdits, Zenon
<1>6. [v EXCEPT !.error = FALSE] \in BrViews /\ [v EXCEPT !.error = FALSE].seq = v.seq
  BY <1>1, ViewEdits, Zenon
<1>7. PICK w \in BrViews : w = FirstPage(v) /\ w.seq = v.seq
  BY <1>5
<1>8. [w EXCEPT !.search = search] \in BrViews /\ [w EXCEPT !.search = search].seq = w.seq
  BY <1>1, ViewEdits
<1> QED BY <1>6, <1>7, <1>8

LEMMA AskSteps ==
  ASSUME BrTypeOK, ListIInv, EntryIInv,
         \/ \E d \in BrPlaces : OpenDirectory(d)
         \/ Refresh \/ ReloadFilesFromFirstPage
         \/ \E by \in {"button", "box"}, p \in 1 .. 2 : TurnPage(by, p)
         \/ \E on \in BOOLEAN : SubmitFileSearch(on)
  PROVE  BrTypeOK' /\ ListIInv' /\ EntryIInv'
<1>1. ListTypes /\ brCount \in Counts /\ brView \in BrViews
  BY TypeParts DEF ListTypes
<1>2. brView.dir \in BrPlaces /\ brView.page \in 1 .. 2 /\ 1 \in 1 .. 2
      /\ {} \in SUBSET {"button", "box"} /\ FALSE \in BOOLEAN
  BY <1>1, ViewFacts
<1>3. ASSUME NEW d \in BrPlaces, OpenDirectory(d)
      PROVE  BrTypeOK' /\ ListIInv' /\ EntryIInv'
  <2> DEFINE view == [FirstPage(brView) EXCEPT !.search = FALSE]
  <2>1. view \in BrViews /\ view.seq = brView.seq
    BY <1>1, <1>2, ViewChanges
  <2>2. /\ brInst.name # "" /\ LoadList(d, 1, view, {}) /\ brCount' \in Counts
        /\ UNCHANGED <<brInst, brMemory, brCalls, entryVars, brStrayed>>
    BY <1>1, <1>3, CountFacts DEF OpenDirectory, entryVars
  <2> HIDE DEF view
  <2> QED BY <1>2, <2>1, <2>2, AskStep
<1>4. CASE Refresh
  <2> DEFINE view == [brView EXCEPT !.error = FALSE]
  <2>1. view \in BrViews /\ view.seq = brView.seq
    BY <1>1, <1>2, ViewChanges
  <2>2. /\ brInst.name # "" /\ LoadList(brView.dir, brView.page, view, {})
        /\ brCount' \in Counts
        /\ UNCHANGED <<brInst, brMemory, brCalls, entryVars, brStrayed>>
    BY <1>1, <1>4, CountFacts DEF Refresh, entryVars
  <2> HIDE DEF view
  <2> QED BY <1>2, <2>1, <2>2, AskStep
<1>5. CASE ReloadFilesFromFirstPage
  <2>1. Reloaded \in BrViews /\ Reloaded.seq = brView.seq
    BY <1>1, ReloadedFacts
  <2>2. /\ brInst.name # "" /\ LoadList(brView.dir, 1, Reloaded, {})
        /\ brCount' \in Counts
        /\ UNCHANGED <<brInst, brMemory, brCalls, entryVars, brStrayed>>
    BY <1>1, <1>5, CountFacts DEF ReloadFilesFromFirstPage, entryVars
  <2> QED BY <1>2, <2>1, <2>2, AskStep
<1>6. ASSUME NEW by \in {"button", "box"}, NEW p \in 1 .. 2, TurnPage(by, p)
      PROVE  BrTypeOK' /\ ListIInv' /\ EntryIInv'
  <2> DEFINE view == [brView EXCEPT !.error = FALSE]
  <2>1. view \in BrViews /\ view.seq = brView.seq /\ {by} \in SUBSET {"button", "box"}
    BY <1>1, <1>2, ViewChanges
  <2>2. /\ brInst.name # "" /\ LoadList(brView.dir, p, view, {by})
        /\ brCount' \in Counts
        /\ UNCHANGED <<brInst, brMemory, brCalls, entryVars, brStrayed>>
    BY <1>1, <1>6, CountFacts DEF TurnPage, entryVars
  <2> HIDE DEF view
  <2> QED BY <1>2, <2>1, <2>2, AskStep
<1>7. ASSUME NEW on \in BOOLEAN, SubmitFileSearch(on)
      PROVE  BrTypeOK' /\ ListIInv' /\ EntryIInv'
  <2> DEFINE view == [FirstPage(brView) EXCEPT !.search = on]
  <2>1. view \in BrViews /\ view.seq = brView.seq
    BY <1>1, <1>2, ViewChanges
  <2>2. /\ brInst.name # "" /\ LoadList(brView.dir, 1, view, {}) /\ brCount' \in Counts
        /\ UNCHANGED <<brInst, brMemory, brCalls, entryVars, brStrayed>>
    BY <1>1, <1>7, CountFacts DEF SubmitFileSearch, entryVars
  <2> HIDE DEF view
  <2> QED BY <1>2, <2>1, <2>2, AskStep
<1> QED BY <1>3, <1>4, <1>5, <1>6, <1>7

\* The search field holds a path.
LEMMA JumpStep ==
  ASSUME BrTypeOK, ListIInv, EntryIInv, NEW d \in BrPlaces, TryJumpToSearchPath(d)
  PROVE  BrTypeOK' /\ ListIInv' /\ EntryIInv'
<1> DEFINE v == [brView EXCEPT !.seq = @ + 1, !.error = FALSE]
           r == Request("jump", d, v.page, v.search, v)
           l == [inst |-> brInst.name, dir |-> d, page |-> 1, search |-> FALSE]
<1>1. ListTypes /\ EntryTypes /\ brCount \in Counts /\ brView \in BrViews
      /\ brInst.session \in Nat
  BY TypeParts, InstFacts DEF ListTypes
<1>2. brView.seq + 1 \in Nat
  BY <1>1, ViewFacts, NextNat
<1>3. /\ v \in BrViews /\ v.seq = brView.seq + 1 /\ v.page \in 1 .. 2
      /\ v.total \in 1 .. 2 /\ v.search \in BOOLEAN
  BY <1>1, <1>2 DEF BrViews
<1>4. /\ brInst.name # "" /\ brView' = v /\ brLoads' = brLoads \cup {r}
      /\ brWanted' = [ok |-> TRUE, seq |-> v.seq, list |-> l] /\ brCount' \in Counts
      /\ UNCHANGED <<brInst, brBusy, brMemory, entryVars, brCalls, brStrayed>>
  BY <1>1, CountFacts DEF TryJumpToSearchPath, entryVars
<1>5. brInst.name \in BrNames
  BY <1>1, <1>4, InstFacts DEF ListTypes
<1>6. l \in Listings
  <2>1. FALSE \in BOOLEAN /\ 1 \in 1 .. 2
    OBVIOUS
  <2> QED BY <1>5, <2>1, ListingFacts, Zenon
<1> HIDE DEF v
<1>7. r \in BrRequests /\ AskedNow(r)
  BY <1>1, <1>2, <1>3, <1>5 DEF Request, BrRequests, AskedNow
<1> HIDE DEF r, l
<1>8. PICK q \in BrRequests : q = r
  BY <1>7
<1>9. brWanted' \in Wants /\ brWanted'.ok /\ brWanted'.seq = brView.seq + 1
  <2>1. brWanted' = [ok |-> TRUE, list |-> l, seq |-> v.seq] /\ v.seq \in Nat
    BY <1>2, <1>3, <1>4
  <2> QED BY <1>3, <1>6, <2>1, ListWanted
<1>10. brLoads' = brLoads \cup {q} /\ AskedNow(q)
  BY <1>4, <1>7, <1>8
<1>11. ListIInv'
  BY <1>3, <1>4, <1>9, <1>10, AskedKeeps
<1>12. ListTypes'
  BY <1>1, <1>3, <1>4, <1>9, <1>10 DEF ListTypes
<1>13. EntryIInv' /\ EntryTypes'
  BY <1>1, <1>4, EntryFrame DEF EntryTypes, entryVars
<1> QED BY <1>4, <1>11, <1>12, <1>13, TypesMake

\* The panel is emptied with its instance; the dialogue is closed.
LEMMA CloseDialogue ==
  ASSUME EntryTypes, EntryIInv, brDialog' = CloseFileAction(brDialog),
         brRuns' = Aborted(brRuns), brEntry' = brEntry
  PROVE  EntryIInv' /\ brDialog' \in BrDialogs /\ brRuns' \in SUBSET BrExtractions
<1>1. /\ brDialog' \in BrDialogs /\ ~brDialog'.on /\ brDialog'.closing
      /\ ~brDialog'.ctl /\ ~brDialog'.extracting
      /\ brDialog'.run = brDialog.run
  BY CloseFacts DEF EntryTypes
<1>2. /\ brRuns' \in SUBSET BrExtractions
      /\ \A a \in brRuns' : \E r \in brRuns :
           /\ a.run = r.run /\ a.entry = r.entry
           /\ a.phase = "streams" => r.phase = "streams" /\ ~IsCurrentExtractTask(r)
      /\ \A a, b \in brRuns' : a.run = b.run => a = b
  BY AbortedFacts DEF EntryTypes, EntryIInv, RunsNumbered
<1>3. DialogInOrder'
  BY <1>1 DEF DialogInOrder, EntryTypes, BrDialogs
<1>4. RunsNumbered'
  BY <1>1, <1>2 DEF EntryIInv, RunsNumbered, IsCurrentExtractTask
<1>5. BrExtractOwn'
  BY <1>1, <1>2 DEF EntryIInv, BrExtractOwn
<1> QED BY <1>1, <1>2, <1>3, <1>4, <1>5 DEF EntryIInv

LEMMA CloseStep ==
  ASSUME BrTypeOK, ListIInv, EntryIInv, CloseTerminalPanel
  PROVE  BrTypeOK' /\ ListIInv' /\ EntryIInv'
<1>1. ListTypes /\ EntryTypes /\ brCount \in Counts /\ brView.seq \in Nat
  BY TypeParts, ViewFacts DEF ListTypes
<1>2. /\ brInst' = [name |-> "", session |-> brInst.session + 1, opening |-> ""]
      /\ brView' = NoView(brView.seq + 1)
      /\ brDialog' = CloseFileAction(brDialog) /\ brRuns' = Aborted(brRuns)
      /\ brWanted' = NothingWanted /\ brCount' \in Counts
      /\ UNCHANGED <<brLoads, brBusy, brMemory, brEntry, brCalls, brStrayed>>
  BY <1>1, CountFacts DEF CloseTerminalPanel, ResetView
<1>3. EntryIInv' /\ EntryTypes'
  BY <1>1, <1>2, CloseDialogue DEF EntryTypes
<1>4. brInst' \in Insts
  BY <1>1, <1>2, InstFacts DEF ListTypes
<1>5. brView' \in BrViews /\ brView'.seq = brView.seq + 1
  BY <1>1, <1>2, NextNat, NoViewFacts
<1>6. brWanted' \in Wants /\ ~brWanted'.ok
  BY <1>2, NothingWantedFacts
<1>7. ListTypes'
  BY <1>1, <1>2, <1>4, <1>5, <1>6 DEF ListTypes
<1>8. \A q \in brLoads' : IsLoadContextStale(q)'
  <2>1. \A q \in brLoads : q.seq \in Nat /\ q.seq <= brView.seq
    BY <1>1, RequestFacts DEF ListTypes, ListIInv, LoadsNumbered
  <2>2. \A q \in brLoads : q.seq # brView.seq + 1
    BY <1>1, <2>1
  <2>3. \A q \in brLoads' : q.seq # brView'.seq
    BY <1>2, <1>5, <2>2
  <2> QED BY <2>3 DEF IsLoadContextStale
<1>9. brLoads' \subseteq brLoads /\ brView'.seq >= brView.seq /\ brView'.seq \in Nat
  <2>1. brView.seq \in Nat
    BY <1>1
  <2>2. brView.seq + 1 \in Nat /\ brView.seq + 1 >= brView.seq
    BY <2>1, NextNat
  <2> QED BY <1>2, <1>5, <2>2
<1>10. ListIInv'
  BY <1>6, <1>8, <1>9, UnwantedKeeps
<1> QED BY <1>2, <1>3, <1>7, <1>10, TypesMake

\* What is remembered of the directories.
LEMMA MemoryStep ==
  ASSUME BrTypeOK, ListIInv, EntryIInv,
         \/ \E m, n \in BrNames : RenameFileLastDirsInstance(m, n)
         \/ \E valid \in SUBSET BrNames : CleanupFileLastDirs(valid)
  PROVE  BrTypeOK' /\ ListIInv' /\ EntryIInv'
<1>1. ListTypes /\ EntryTypes /\ brCount \in Counts
  BY TypeParts
<1>2. UNCHANGED <<brBusy, brCalls, listVars, entryVars>> /\ brCount' \in Counts
  BY <1>1, CountFacts
  DEF RenameFileLastDirsInstance, CleanupFileLastDirs, listVars, entryVars
<1>3. brMemory' \in [BrNames -> BrPlaces]
  <2>1. brMemory \in [BrNames -> BrPlaces]
    BY <1>1 DEF ListTypes
  <2> QED BY <2>1, BrFacts DEF RenameFileLastDirsInstance, CleanupFileLastDirs
<1>4. ListTypes' /\ EntryTypes'
  BY <1>1, <1>2, <1>3 DEF ListTypes, EntryTypes, listVars, entryVars
<1> QED BY <1>2, <1>4, ListFrame, EntryFrame, TypesMake

-----------------------------------------------------------------------------
(* The answers.                                                            *)

LEMMA DoneFacts ==
  ASSUME ListTypes, NEW q, Done(q)
  PROVE  brLoads' = brLoads \ {q} /\ brLoads' \in SUBSET BrRequests
         /\ brBusy' \in SUBSET Waits
BY DEF ListTypes, Done

\* No other answer will be shown than that of the current request.
LEMMA OneCurrent ==
  ASSUME ListIInv, NEW q \in brLoads, ~IsLoadContextStale(q)
  PROVE  \A p \in brLoads \ {q} : IsLoadContextStale(p)
BY DEF ListIInv, LoadsNumbered, IsLoadContextStale

LEMMA AnswerStep ==
  ASSUME BrTypeOK, ListIInv, EntryIInv, NEW q \in brLoads,
         StaleAnswer(q) \/ RestoreFailed(q) \/ ListFailed(q)
  PROVE  BrTypeOK' /\ ListIInv' /\ EntryIInv'
<1>1. ListTypes /\ EntryTypes /\ brCount \in Counts /\ brView \in BrViews
      /\ brView.seq \in Nat /\ q \in BrRequests
  BY TypeParts, ViewFacts DEF ListTypes
<1>2. UNCHANGED <<brInst, brMemory, entryVars, brCalls, brStrayed, brCount>>
  BY DEF StaleAnswer, RestoreFailed, ListFailed, entryVars
<1>3. EntryIInv' /\ EntryTypes'
  BY <1>1, <1>2, EntryFrame DEF EntryTypes, entryVars
<1>4. CASE StaleAnswer(q)
  <2>1. /\ IsLoadContextStale(q) /\ Done(q) /\ UNCHANGED <<brView, brWanted>>
    BY <1>4 DEF StaleAnswer
  <2>2. brLoads' = brLoads \ {q} /\ ListTypes'
    BY <1>1, <1>2, <2>1, DoneFacts DEF ListTypes
  <2>3. \A p : IsLoadContextStale(p)' <=> IsLoadContextStale(p)
    BY <1>2, <2>1 DEF IsLoadContextStale
  <2>4. LoadsNumbered' /\ LoadWanted' /\ BrShowsLatest'
    BY <1>2, <2>1, <2>2, <2>3 DEF ListIInv, LoadsNumbered, LoadWanted, BrShowsLatest
  <2> QED BY <1>1, <1>2, <1>3, <2>2, <2>4, TypesMake DEF ListIInv
<1>5. CASE RestoreFailed(q)
  <2>1. PICK r : r = [q EXCEPT !.kind = "root", !.dir = ""]
    OBVIOUS
  <2>2. /\ ~IsLoadContextStale(q) /\ brLoads' = (brLoads \ {q}) \cup {r}
        /\ UNCHANGED <<brView, brBusy, brWanted>>
    BY <1>5, <2>1 DEF RestoreFailed
  <2>3. r \in BrRequests /\ r.seq = q.seq /\ r.session = q.session /\ r.inst = q.inst
    BY <1>1, <2>1, BrFacts DEF BrRequests
  <2>4. ListTypes'
    BY <1>1, <1>2, <2>2, <2>3 DEF ListTypes
  <2>5. \A p : IsLoadContextStale(p)' <=> IsLoadContextStale(p)
    BY <1>2, <2>2 DEF IsLoadContextStale
  <2>6. ~IsLoadContextStale(r)
    BY <2>2, <2>3 DEF IsLoadContextStale
  <2>7. LoadsNumbered'
    BY <2>2, <2>3 DEF ListIInv, LoadsNumbered
  <2>8. LoadWanted' /\ BrShowsLatest'
    BY <1>2, <2>2, <2>3, <2>5, <2>6 DEF ListIInv, LoadWanted, BrShowsLatest
  <2> QED BY <1>1, <1>2, <1>3, <2>4, <2>7, <2>8, TypesMake DEF ListIInv
<1>6. CASE ListFailed(q)
  <2>1. /\ ~IsLoadContextStale(q) /\ Done(q)
        /\ brView' = IF q.kind = "jump"
                     THEN [brView EXCEPT !.page = q.page, !.total = q.total,
                                         !.search = q.search, !.error = TRUE]
                     ELSE brView
        /\ brWanted' = [brWanted EXCEPT !.ok = FALSE]
    BY <1>6 DEF ListFailed
  <2>2. brLoads' = brLoads \ {q} /\ brLoads' \in SUBSET BrRequests
        /\ brBusy' \in SUBSET Waits
    BY <1>1, <2>1, DoneFacts
  <2>3. brWanted' \in Wants /\ ~brWanted'.ok
    <3>1. brWanted \in Wants
      BY <1>1 DEF ListTypes
    <3> QED BY <2>1, <3>1, WantFacts
  <2>4. brView' \in BrViews /\ brView'.seq = brView.seq
    <3>1. q.page \in 1 .. 2 /\ q.total \in 1 .. 2 /\ q.search \in BOOLEAN
      BY <1>1, RequestFacts
    <3>2. PICK yes \in BOOLEAN : yes = TRUE
      OBVIOUS
    <3>3. brView' = IF q.kind = "jump"
                    THEN [brView EXCEPT !.page = q.page, !.total = q.total,
                                        !.search = q.search, !.error = yes]
                    ELSE brView
      BY <2>1, <3>2
    <3> QED BY <1>1, <3>1, <3>3 DEF BrViews
  <2>5. ListTypes'
    BY <1>1, <1>2, <2>2, <2>3, <2>4 DEF ListTypes
  <2>6. \A p \in brLoads' : IsLoadContextStale(p)'
    <3>1. \A p : IsLoadContextStale(p)' <=> IsLoadContextStale(p)
      BY <1>2, <2>4 DEF IsLoadContextStale
    <3> QED BY <2>1, <2>2, <3>1, OneCurrent
  <2>7. brView'.seq >= brView.seq /\ brView'.seq \in Nat
    BY <1>1, <2>4
  <2>8. ListIInv'
    BY <2>2, <2>3, <2>6, <2>7, UnwantedKeeps
  <2> QED BY <1>1, <1>2, <1>3, <2>5, <2>8, TypesMake
<1> QED BY <1>4, <1>5, <1>6

LEMMA ListStep ==
  ASSUME BrTypeOK, ListIInv, EntryIInv, NEW q \in brLoads, NEW missing \in BOOLEAN,
         ListAnswered(q, missing)
  PROVE  BrTypeOK' /\ ListIInv' /\ EntryIInv'
<1> DEFINE dir == IF missing THEN "" ELSE q.dir
           page == IF q.kind # "load" \/ q.page \notin PagesOf(dir) THEN 1 ELSE q.page
           search == q.kind # "jump" /\ q.search
           l == [inst |-> q.inst, dir |-> dir, page |-> page, search |-> search]
           v == IF q.kind = "jump" THEN [brView EXCEPT !.search = FALSE] ELSE brView
<1>1. ListTypes /\ EntryTypes /\ brCount \in Counts /\ brView \in BrViews
      /\ brWanted \in Wants /\ q \in BrRequests
  BY TypeParts DEF ListTypes
<1>2. /\ ~IsLoadContextStale(q) /\ Done(q)
      /\ ApplyFileListResponse(v, q.inst, l, q.kind # "root", missing)
      /\ brWanted' = IF q.seq = brWanted.seq THEN [brWanted EXCEPT !.list = l] ELSE brWanted
      /\ brStrayed' = FALSE
      /\ UNCHANGED <<brInst, entryVars, brCalls, brCount>>
  BY DEF ListAnswered, entryVars
<1>3. dir \in BrPlaces /\ page \in 1 .. 2 /\ search \in BOOLEAN /\ q.inst \in BrNames
  BY <1>1, BrFacts, RequestFacts, PageFacts
<1>4. l \in Listings /\ l.inst = q.inst
  BY <1>3, ListingFacts
<1>5. v \in BrViews /\ v.seq = brView.seq
  <2>1. PICK no \in BOOLEAN : no = FALSE
    OBVIOUS
  <2>2. [brView EXCEPT !.search = no] \in BrViews
        /\ [brView EXCEPT !.search = no].seq = brView.seq
    BY <1>1 DEF BrViews
  <2>3. v = IF q.kind = "jump" THEN [brView EXCEPT !.search = no] ELSE brView
    BY <2>1
  <2> QED BY <1>1, <2>2, <2>3
<1> HIDE DEF l, v
<1>6. PICK list \in Listings : list = l
  BY <1>4
<1>7. PICK view \in BrViews : view = v
  BY <1>5
<1>8. ApplyFileListResponse(view, q.inst, list, q.kind # "root", missing)
  BY <1>2, <1>6, <1>7
<1>9. /\ brView' \in BrViews /\ brView'.seq = brView.seq
      /\ brView'.list = list /\ brView'.dir = list.dir /\ brView'.page = list.page
      /\ ~brView'.error /\ brMemory' \in [BrNames -> BrPlaces]
  BY <1>3, <1>5, <1>7, <1>8, ApplyEffect
<1>10. /\ brLoads' = brLoads \ {q} /\ brLoads' \in SUBSET BrRequests
       /\ brBusy' \in SUBSET Waits
  BY <1>1, <1>2, DoneFacts
<1>11. brWanted.ok /\ brWanted.seq = q.seq /\ list.inst = brInst.name
  BY <1>2, <1>4, <1>6 DEF ListIInv, LoadWanted, IsLoadContextStale
<1>12. brWanted' \in Wants /\ brWanted'.list = list
  BY <1>1, <1>2, <1>6, <1>11, WantFacts
<1>13. ListTypes'
  BY <1>1, <1>2, <1>9, <1>10, <1>12 DEF ListTypes
<1>14. \A p \in brLoads' : IsLoadContextStale(p)
  BY <1>2, <1>10, OneCurrent
<1>15. brLoads' \subseteq brLoads
  BY <1>10
<1>16. ListIInv'
  BY <1>2, <1>9, <1>11, <1>12, <1>14, <1>15, ShownKeeps
<1>17. EntryIInv' /\ EntryTypes'
  BY <1>1, <1>2, EntryFrame DEF EntryTypes, entryVars
<1> QED BY <1>1, <1>2, <1>13, <1>16, <1>17, TypesMake

-----------------------------------------------------------------------------
(* The dialogue.                                                           *)

\* The lists are left alone and an extraction is not begun: its parts.
LEMMA DialogueKeeps ==
  ASSUME BrTypeOK, ListIInv, UNCHANGED <<brBusy, brMemory, listVars>>,
         EntryTypes', EntryIInv', brCount' \in Counts
  PROVE  BrTypeOK' /\ ListIInv' /\ EntryIInv'
<1>1. ListTypes'
  BY TypeParts DEF ListTypes, listVars
<1> QED BY <1>1, ListFrame, TypesMake

\* No extraction is the dialogue's any more: none streams.
LEMMA QuietKeeps ==
  ASSUME DialogInOrder', ~brDialog'.ctl,
         \A r \in brRuns' : r.run <= brDialog'.run /\ r.phase # "streams",
         \A r, s \in brRuns' : r.run = s.run => r = s,
         brDialog'.on /\ brDialog'.shown # NoBrEntry => brDialog'.shown = brEntry'
  PROVE  EntryIInv'
BY DEF EntryIInv, RunsNumbered, BrExtractOwn, IsCurrentExtractTask

\* Without a controller no extraction streams.
LEMMA NoneStreams ==
  ASSUME EntryIInv, ~brDialog.ctl PROVE \A r \in brRuns : r.phase # "streams"
BY DEF EntryIInv, BrExtractOwn, IsCurrentExtractTask

\* Only one extraction is the dialogue's.
LEMMA OneStreams ==
  ASSUME EntryIInv, NEW r \in brRuns, IsCurrentExtractTask(r)
  PROVE  \A s \in brRuns \ {r} : s.phase # "streams"
BY DEF EntryIInv, RunsNumbered, BrExtractOwn, IsCurrentExtractTask

LEMMA DialogFacts ==
  ASSUME NEW d \in BrDialogs
  PROVE  /\ d.on \in BOOLEAN /\ d.closing \in BOOLEAN /\ d.run \in Nat
         /\ d.ctl \in BOOLEAN /\ d.extracting \in BOOLEAN
         /\ d.shown \in BrEntries \cup {NoBrEntry}
BY DEF BrDialogs

LEMMA EntryFacts ==
  /\ NoBrEntry \notin BrEntries /\ NoBrEntry.dir \in BrPlaces
  /\ \A e \in BrEntries : e.dir \in BrPlaces
  /\ \A n \in BrNames, d \in BrPlaces : [inst |-> n, dir |-> d] \in BrEntries
BY BrFacts DEF BrEntries, NoBrEntry

\* The dialogue is opened, closed and hidden.
LEMMA OpenStep ==
  ASSUME BrTypeOK, ListIInv, EntryIInv, OpenFileAction
  PROVE  BrTypeOK' /\ ListIInv' /\ EntryIInv'
<1>1. ListTypes /\ EntryTypes /\ brCount \in Counts /\ brDialog \in BrDialogs
      /\ brDialog.run \in Nat
  BY TypeParts, DialogFacts DEF EntryTypes
<1>2. /\ brInst.name # "" /\ ~brDialog.on
      /\ brEntry' = [inst |-> brInst.name, dir |-> brView.dir]
      /\ brDialog' = [on |-> TRUE, closing |-> FALSE, run |-> brDialog.run + 1,
                      ctl |-> FALSE, extracting |-> FALSE, canceling |-> FALSE,
                      shown |-> NoBrEntry]
      /\ UNCHANGED <<brBusy, brMemory, listVars, brCalls, brRuns>>
      /\ brCount' \in Counts
  BY <1>1, CountFacts DEF OpenFileAction, listVars
<1>3. brEntry' \in BrEntries
  <2>1. brInst.name \in BrNames /\ brView.dir \in BrPlaces
    BY <1>1, <1>2, InstFacts, ViewFacts DEF ListTypes
  <2> QED BY <1>2, <2>1, EntryFacts
<1>4. /\ brDialog' \in BrDialogs /\ brDialog'.run = brDialog.run + 1
      /\ brDialog'.on /\ ~brDialog'.closing /\ ~brDialog'.ctl /\ ~brDialog'.extracting
      /\ brDialog'.shown = NoBrEntry
  <2>1. \A no \in BOOLEAN, yes \in BOOLEAN, n \in Nat, e \in BrEntries \cup {NoBrEntry} :
          LET d == [on |-> yes, closing |-> no, run |-> n, ctl |-> no,
                    extracting |-> no, canceling |-> no, shown |-> e]
          IN /\ d \in BrDialogs /\ d.run = n /\ d.on = yes /\ d.closing = no
             /\ d.ctl = no /\ d.extracting = no /\ d.shown = e
    BY DEF BrDialogs
  <2>2. FALSE \in BOOLEAN /\ TRUE \in BOOLEAN /\ NoBrEntry \in BrEntries \cup {NoBrEntry}
        /\ brDialog.run + 1 \in Nat
    BY <1>1
  <2> HIDE DEF BrDialogs, BrEntries, NoBrEntry
  <2>3. /\ brDialog' \in BrDialogs /\ brDialog'.run = brDialog.run + 1
        /\ brDialog'.on = TRUE /\ brDialog'.closing = FALSE /\ brDialog'.ctl = FALSE
        /\ brDialog'.extracting = FALSE /\ brDialog'.shown = NoBrEntry
    BY <1>2, <2>1, <2>2, Zenon
  <2> QED BY <2>3
<1>5. ~brDialog.ctl
  BY <1>2 DEF EntryIInv, DialogInOrder
<1>6. \A r \in brRuns' : r.run <= brDialog'.run /\ r.phase # "streams"
  <2>1. \A r \in brRuns : r.run \in Nat
    BY <1>1, ExtractionFacts DEF EntryTypes
  <2>2. \A r \in brRuns : r.run <= brDialog.run
    BY DEF EntryIInv, RunsNumbered
  <2>3. \A r \in brRuns : r.phase # "streams"
    BY <1>5, NoneStreams
  <2>4. brDialog.run \in Nat
    BY <1>1
  <2>5. \A r \in brRuns : r.run <= brDialog.run + 1
    BY <2>1, <2>2, <2>4
  <2> QED BY <1>2, <1>4, <2>3, <2>5
<1>7. DialogInOrder'
  <2>1. brDialog'.ctl \in BOOLEAN /\ brDialog'.extracting \in BOOLEAN
    BY <1>4, DialogFacts
  <2>2. brEntry' # NoBrEntry
    BY <1>3, EntryFacts
  <2> QED BY <1>4, <2>1, <2>2 DEF DialogInOrder
<1>8. \A r, s \in brRuns' : r.run = s.run => r = s
  BY <1>2 DEF EntryIInv, RunsNumbered
<1>9. EntryIInv'
  BY <1>4, <1>6, <1>7, <1>8, QuietKeeps
<1>10. EntryTypes'
  BY <1>1, <1>2, <1>3, <1>4 DEF EntryTypes
<1> QED BY <1>2, <1>9, <1>10, DialogueKeeps

LEMMA HideStep ==
  ASSUME BrTypeOK, ListIInv, EntryIInv, RequestClose \/ FileActionHidden
  PROVE  BrTypeOK' /\ ListIInv' /\ EntryIInv'
<1>1. ListTypes /\ EntryTypes /\ brCount \in Counts /\ brDialog \in BrDialogs
      /\ brDialog.run \in Nat
  BY TypeParts, DialogFacts DEF EntryTypes
<1>2. /\ UNCHANGED <<brBusy, brMemory, listVars, brCalls, brRuns, brCount>>
  BY DEF RequestClose, FileActionHidden, listVars
<1>3. ~brDialog.ctl /\ ~brDialog.extracting
  BY <1>1, DialogFacts DEF RequestClose, FileActionHidden, EntryIInv, DialogInOrder
<1>4. /\ brDialog' \in BrDialogs /\ ~brDialog'.on /\ ~brDialog'.ctl
      /\ ~brDialog'.extracting /\ brDialog'.run = brDialog.run
  <2>1. CASE RequestClose
    BY <1>1, <2>1, CloseFacts DEF RequestClose
  <2>2. CASE FileActionHidden
    <3>1. /\ [brDialog EXCEPT !.closing = FALSE] \in BrDialogs
          /\ [brDialog EXCEPT !.closing = FALSE].on = brDialog.on
          /\ [brDialog EXCEPT !.closing = FALSE].ctl = brDialog.ctl
          /\ [brDialog EXCEPT !.closing = FALSE].extracting = brDialog.extracting
          /\ [brDialog EXCEPT !.closing = FALSE].run = brDialog.run
      BY <1>1 DEF BrDialogs
    <3>2. brDialog' = [brDialog EXCEPT !.closing = FALSE] /\ ~brDialog.on
      BY <2>2 DEF FileActionHidden, EntryIInv, DialogInOrder
    <3> QED BY <1>3, <3>1, <3>2
  <2> QED BY <2>1, <2>2
<1>5. brEntry' \in BrEntries \cup {NoBrEntry}
  BY <1>1 DEF RequestClose, FileActionHidden, EntryTypes
<1>6. \A r \in brRuns' : r.run <= brDialog'.run /\ r.phase # "streams"
  <2>1. \A r \in brRuns : r.phase # "streams"
    BY <1>3, NoneStreams
  <2>2. \A r \in brRuns : r.run <= brDialog.run
    BY DEF EntryIInv, RunsNumbered
  <2> QED BY <1>2, <1>4, <2>1, <2>2
<1>7. DialogInOrder'
  <2>1. brDialog'.ctl \in BOOLEAN /\ brDialog'.extracting \in BOOLEAN
    BY <1>4, DialogFacts
  <2> QED BY <1>4, <2>1 DEF DialogInOrder
<1>8. \A r, s \in brRuns' : r.run = s.run => r = s
  BY <1>2 DEF EntryIInv, RunsNumbered
<1>9. EntryIInv'
  BY <1>4, <1>6, <1>7, <1>8, QuietKeeps
<1>10. EntryTypes'
  BY <1>1, <1>2, <1>4, <1>5 DEF EntryTypes
<1> QED BY <1>1, <1>2, <1>9, <1>10, DialogueKeeps

\* A rename or a delete of the entry: asked for, confirmed, failed.
LEMMA CallStep ==
  ASSUME BrTypeOK, ListIInv, EntryIInv,
         \/ RenameFileEntry \/ DeleteFileEntry
         \/ \E c \in brCalls : \/ EntryFailed(c)
                              \/ \E yes \in BOOLEAN : DeleteConfirmed(c, yes)
  PROVE  BrTypeOK' /\ ListIInv' /\ EntryIInv'
<1>1. ListTypes /\ EntryTypes /\ brCount \in Counts
  BY TypeParts
<1>2. UNCHANGED <<brBusy, brMemory, listVars, entryVars>> /\ brCount' \in Counts
  BY <1>1, CountFacts DEF RenameFileEntry, DeleteFileEntry, SubmitEntry, EntryFailed,
       DeleteConfirmed, listVars, entryVars
<1>3. brCalls' \in SUBSET Calls
  <2>1. brCalls \in SUBSET Calls
    BY <1>1 DEF EntryTypes
  <2>2. ASSUME NEW kind \in {"rename", "ask"}, SubmitEntry(kind)
        PROVE  brCalls' \in SUBSET Calls
    <3>1. brInst.name \in BrNames
      BY <1>1, <2>2, InstFacts DEF SubmitEntry, ListTypes
    <3>2. brEntry.dir \in BrPlaces
      BY <1>1, EntryFacts DEF EntryTypes
    <3>3. CallFor(kind) \in Calls
      BY <3>1, <3>2 DEF CallFor, Calls
    <3> QED BY <2>1, <2>2, <3>3 DEF SubmitEntry
  <2>3. ASSUME NEW c \in brCalls, EntryFailed(c) PROVE brCalls' \in SUBSET Calls
    BY <2>1, <2>3 DEF EntryFailed
  <2>4. ASSUME NEW c \in brCalls, NEW yes \in BOOLEAN, DeleteConfirmed(c, yes)
        PROVE  brCalls' \in SUBSET Calls
    <3>1. [c EXCEPT !.kind = "delete"] \in Calls
      BY <2>1 DEF Calls
    <3> QED BY <2>1, <2>4, <3>1 DEF DeleteConfirmed
  <2> QED BY <2>2, <2>3, <2>4 DEF RenameFileEntry, DeleteFileEntry
<1>4. EntryTypes' /\ EntryIInv'
  BY <1>1, <1>2, <1>3, EntryFrame DEF EntryTypes, entryVars
<1> QED BY <1>2, <1>4, DialogueKeeps

\* The answer of a rename or a delete is shown, whichever instance is open.
LEMMA EntryAnsweredStep ==
  ASSUME BrTypeOK, ListIInv, EntryIInv, NEW c \in brCalls, EntryAnswered(c)
  PROVE  BrTypeOK' /\ ListIInv' /\ EntryIInv'
<1> DEFINE l == [inst |-> c.inst, dir |-> c.dir, page |-> 1, search |-> FALSE]
           waits == \E q \in brLoads : ~IsLoadContextStale(q)
<1>1. ListTypes /\ EntryTypes /\ brCount \in Counts /\ brView \in BrViews
      /\ brWanted \in Wants /\ c \in Calls
  BY TypeParts DEF ListTypes, EntryTypes
<1>2. /\ brCalls' = brCalls \ {c}
      /\ brDialog' = CloseFileAction(brDialog) /\ brRuns' = Aborted(brRuns)
      /\ UNCHANGED <<brInst, brLoads, brBusy, brEntry, brCount>>
  BY DEF EntryAnswered
<1>3. EntryIInv' /\ EntryTypes'
  BY <1>1, <1>2, CloseDialogue DEF EntryTypes
<1>4. CASE brInst.name = ""
  <2>1. UNCHANGED <<brMemory, listVars>>
    BY <1>2, <1>4 DEF EntryAnswered, listVars
  <2> QED BY <1>1, <1>2, <1>3, <2>1, DialogueKeeps
<1>5. CASE brInst.name # ""
  <2>1. l \in Listings /\ l.inst = c.inst
    <3>1. c.inst \in BrNames /\ c.dir \in BrPlaces
      BY <1>1 DEF Calls
    <3>2. FALSE \in BOOLEAN /\ 1 \in 1 .. 2
      OBVIOUS
    <3>3. l \in Listings
      BY <3>1, <3>2, ListingFacts, Zenon
    <3> QED BY <3>3
  <2>2. /\ ApplyFileListResponse(brView, brInst.name, l, TRUE, FALSE)
        /\ brWanted' = IF waits THEN brWanted ELSE [ok |-> TRUE, list |-> l, seq |-> 0]
        /\ brStrayed' = (brStrayed \/ c.inst # brInst.name)
    BY <1>5 DEF EntryAnswered
  <2> HIDE DEF l
  <2>3. PICK list \in Listings : list = l
    BY <2>1
  <2>4. brInst.name \in BrNames
    BY <1>1, <1>5, InstFacts DEF ListTypes
  <2>5. ApplyFileListResponse(brView, brInst.name, list, TRUE, FALSE)
    BY <2>2, <2>3
  <2>6. /\ brView' \in BrViews /\ brView'.seq = brView.seq
        /\ brView'.list = list /\ brView'.dir = list.dir /\ brView'.page = list.page
        /\ ~brView'.error /\ brMemory' \in [BrNames -> BrPlaces]
    BY <1>1, <2>4, <2>5, ApplyEffect
  <2>7. brStrayed' \in BOOLEAN /\ (brStrayed' \/ list.inst = brInst.name)
    BY <2>1, <2>2, <2>3
  <2>8. ~waits => brWanted' \in Wants /\ brWanted'.list = list
    <3>1. ~waits => brWanted' = [ok |-> TRUE, list |-> list, seq |-> 0]
      BY <2>2, <2>3
    <3>2. 0 \in Nat
      OBVIOUS
    <3> QED BY <3>1, <3>2, ListWanted
  <2>9. brWanted' \in Wants
    BY <1>1, <2>2, <2>8
  <2>10. ListTypes'
    BY <1>1, <1>2, <2>6, <2>7, <2>9 DEF ListTypes
  <2>11. \/ (\E q \in brLoads' : ~IsLoadContextStale(q)) /\ brWanted' = brWanted
         \/ (\A q \in brLoads' : IsLoadContextStale(q)) /\ brWanted'.list = list
    BY <1>2, <2>2, <2>8
  <2>12. brLoads' \subseteq brLoads /\ brInst' = brInst
    BY <1>2
  <2>13. ListIInv'
    BY <2>6, <2>7, <2>11, <2>12, ShownKeeps
  <2> QED BY <1>1, <1>2, <1>3, <2>10, <2>13, TypesMake
<1> QED BY <1>4, <1>5

-----------------------------------------------------------------------------
(* Extraction.                                                             *)

LEMMA ExtractStep ==
  ASSUME BrTypeOK, ListIInv, EntryIInv, ExtractArchive
  PROVE  BrTypeOK' /\ ListIInv' /\ EntryIInv'
<1> DEFINE n == brDialog.run + 1
<1>1. ListTypes /\ EntryTypes /\ brCount \in Counts /\ brDialog \in BrDialogs
  BY TypeParts DEF EntryTypes
<1>2. brDialog.run \in Nat /\ n \in Nat
  BY <1>1, DialogFacts, NextNat
<1>3. PICK x : x = [run |-> n, entry |-> brEntry, phase |-> "streams", seq |-> 0]
  OBVIOUS
<1>4. /\ brDialog.on /\ ~brDialog.extracting
      /\ brDialog' = [brDialog EXCEPT !.run = @ + 1, !.ctl = TRUE, !.extracting = TRUE,
                                     !.canceling = FALSE, !.shown = brEntry]
      /\ brRuns' = brRuns \cup {x} /\ brCount' \in Counts
      /\ UNCHANGED <<brBusy, brMemory, listVars, brEntry, brCalls>>
  BY <1>1, <1>3, CountFacts DEF ExtractArchive, listVars
<1>5. brEntry \in BrEntries /\ ~brDialog.ctl /\ brEntry # NoBrEntry /\ ~brDialog.closing
  BY <1>1, <1>4, DialogFacts DEF EntryTypes, EntryIInv, DialogInOrder
<1>6. x \in BrExtractions /\ x.run = n /\ x.entry = brEntry
  BY <1>2, <1>3, <1>5 DEF BrExtractions
<1>7. /\ brDialog' \in BrDialogs /\ brDialog'.run = n /\ brDialog'.ctl
      /\ brDialog'.extracting /\ brDialog'.on = brDialog.on
      /\ brDialog'.closing = brDialog.closing /\ brDialog'.shown = brEntry
  <2>1. PICK yes \in BOOLEAN, no \in BOOLEAN : yes = TRUE /\ no = FALSE
    OBVIOUS
  <2>2. brDialog' = [brDialog EXCEPT !.run = n, !.ctl = yes, !.extracting = yes,
                                     !.canceling = no, !.shown = brEntry]
    BY <1>4, <2>1
  <2> HIDE DEF n
  <2>3. /\ brDialog' \in BrDialogs /\ brDialog'.run = n /\ brDialog'.ctl = yes
        /\ brDialog'.extracting = yes /\ brDialog'.on = brDialog.on
        /\ brDialog'.closing = brDialog.closing /\ brDialog'.shown = brEntry
    BY <1>1, <1>2, <1>5, <2>2 DEF BrDialogs
  <2> QED BY <2>1, <2>3
<1>8. \A r \in brRuns : r.run <= n /\ r.run # n
  <2>1. \A r \in brRuns : r.run \in Nat
    BY <1>1, ExtractionFacts DEF EntryTypes
  <2>2. \A r \in brRuns : r.run <= brDialog.run
    BY DEF EntryIInv, RunsNumbered
  <2> QED BY <1>2, <2>1, <2>2
<1> HIDE DEF n
<1>9. n <= n
  BY <1>2
<1>10. \A r \in brRuns : r.phase # "streams"
  BY <1>5, NoneStreams
<1>11. DialogInOrder'
  <2>1. brDialog'.ctl \in BOOLEAN /\ brDialog'.extracting \in BOOLEAN
    BY <1>7, DialogFacts
  <2> QED BY <1>4, <1>5, <1>7, <2>1 DEF DialogInOrder
<1>12. \A r \in brRuns : ~IsCurrentExtractTask(r)'
  BY <1>7, <1>8 DEF IsCurrentExtractTask
<1>13. IsCurrentExtractTask(x)'
  BY <1>6, <1>7 DEF IsCurrentExtractTask
<1>14. RunsNumbered'
  BY <1>4, <1>6, <1>7, <1>8, <1>9, <1>12 DEF EntryIInv, RunsNumbered
<1>15. BrExtractOwn'
  BY <1>4, <1>7, <1>10, <1>13 DEF BrExtractOwn
<1>16. EntryTypes'
  BY <1>1, <1>4, <1>6, <1>7 DEF EntryTypes
<1> QED BY <1>4, <1>11, <1>14, <1>15, <1>16, DialogueKeeps DEF EntryIInv

LEMMA CancelStep ==
  ASSUME BrTypeOK, ListIInv, EntryIInv, RequestCancelExtract
  PROVE  BrTypeOK' /\ ListIInv' /\ EntryIInv'
<1>1. ListTypes /\ EntryTypes /\ brCount \in Counts /\ brDialog \in BrDialogs
  BY TypeParts DEF EntryTypes
<1>2. /\ brDialog' = [brDialog EXCEPT !.canceling = TRUE] /\ brRuns' = Aborted(brRuns)
      /\ UNCHANGED <<brBusy, brMemory, listVars, brEntry, brCalls, brCount>>
  BY DEF RequestCancelExtract, listVars
<1>3. /\ brDialog' \in BrDialogs /\ brDialog'.on = brDialog.on
      /\ brDialog'.closing = brDialog.closing /\ brDialog'.run = brDialog.run
      /\ brDialog'.ctl = brDialog.ctl /\ brDialog'.extracting = brDialog.extracting
      /\ brDialog'.shown = brDialog.shown
  BY <1>1, <1>2 DEF BrDialogs
<1>4. /\ brRuns' \in SUBSET BrExtractions
      /\ \A a \in brRuns' : \E r \in brRuns :
           /\ a.run = r.run /\ a.entry = r.entry
           /\ a.phase = "streams" => r.phase = "streams" /\ ~IsCurrentExtractTask(r)
      /\ \A a, b \in brRuns' : a.run = b.run => a = b
  BY <1>1, <1>2, AbortedFacts DEF EntryTypes, EntryIInv, RunsNumbered
<1>5. DialogInOrder'
  BY <1>2, <1>3 DEF EntryIInv, DialogInOrder
<1>6. RunsNumbered'
  BY <1>2, <1>3, <1>4 DEF EntryIInv, RunsNumbered, IsCurrentExtractTask
<1>7. BrExtractOwn'
  BY <1>2, <1>3, <1>4 DEF EntryIInv, BrExtractOwn
<1>8. EntryTypes'
  BY <1>1, <1>2, <1>3, <1>4 DEF EntryTypes
<1> QED BY <1>1, <1>2, <1>5, <1>6, <1>7, <1>8, DialogueKeeps DEF EntryIInv

\* The dialogue after its extraction, or after one that is not its own.
LEMMA AfterExtraction ==
  ASSUME EntryTypes, EntryIInv, NEW r \in brRuns, brRuns' = brRuns \ {r},
         brEntry' = brEntry, brDialog' \in BrDialogs, brDialog'.run = brDialog.run,
         \/ brDialog' = brDialog /\ ~IsCurrentExtractTask(r)
         \/ /\ IsCurrentExtractTask(r) /\ ~brDialog'.ctl /\ ~brDialog'.extracting
            /\ \/ ~brDialog'.on
               \/ /\ brDialog'.on = brDialog.on /\ brDialog'.closing = brDialog.closing
                  /\ brDialog'.shown \in {brDialog.shown, brEntry}
  PROVE  EntryIInv'
<1>1. CASE brDialog' = brDialog
  BY <1>1 DEF EntryIInv, DialogInOrder, RunsNumbered, BrExtractOwn, IsCurrentExtractTask
<1>2. CASE IsCurrentExtractTask(r) /\ ~brDialog'.ctl /\ ~brDialog'.extracting
  <2>1. brDialog'.ctl \in BOOLEAN /\ brDialog'.extracting \in BOOLEAN
        /\ brDialog'.on \in BOOLEAN
    BY DialogFacts
  <2>2. DialogInOrder'
    BY <1>2, <2>1 DEF EntryIInv, DialogInOrder
  <2>3. \A s \in brRuns' : s.phase # "streams"
    BY <1>2, OneStreams
  <2>4. \A s \in brRuns' : s.run <= brDialog'.run
    BY DEF EntryIInv, RunsNumbered
  <2>5. \A s, u \in brRuns' : s.run = u.run => s = u
    BY DEF EntryIInv, RunsNumbered
  <2>6. brDialog'.on /\ brDialog'.shown # NoBrEntry => brDialog'.shown = brEntry'
    BY <1>2 DEF EntryIInv, BrExtractOwn
  <2> QED BY <1>2, <2>2, <2>3, <2>4, <2>5, <2>6, QuietKeeps
<1> QED BY <1>1, <1>2

LEMMA EndStep ==
  ASSUME BrTypeOK, ListIInv, EntryIInv, NEW r \in brRuns,
         ExtractStopped(r) \/ \E skipped \in BOOLEAN : ExtractReloaded(r, skipped)
  PROVE  BrTypeOK' /\ ListIInv' /\ EntryIInv'
<1> DEFINE d == Finished(brDialog, r)
<1>1. ListTypes /\ EntryTypes /\ brCount \in Counts /\ brDialog \in BrDialogs
      /\ r \in BrExtractions
  BY TypeParts DEF EntryTypes
<1>2. /\ brRuns' = brRuns \ {r}
      /\ UNCHANGED <<brBusy, brMemory, listVars, brEntry, brCalls, brCount>>
  BY DEF ExtractStopped, ExtractReloaded, listVars
<1>3. /\ d \in BrDialogs /\ d.run = brDialog.run /\ d.shown = brDialog.shown
      /\ d.on = brDialog.on /\ d.closing = brDialog.closing
      /\ IsCurrentExtractTask(r) => ~d.ctl /\ ~d.extracting
      /\ ~IsCurrentExtractTask(r) => d = brDialog
  BY <1>1, FinishedFacts
<1> HIDE DEF d
<1>4. /\ brDialog' \in BrDialogs /\ brDialog'.run = brDialog.run
      /\ \/ brDialog' = brDialog /\ ~IsCurrentExtractTask(r)
         \/ /\ IsCurrentExtractTask(r) /\ ~brDialog'.ctl /\ ~brDialog'.extracting
            /\ \/ ~brDialog'.on
               \/ /\ brDialog'.on = brDialog.on /\ brDialog'.closing = brDialog.closing
                  /\ brDialog'.shown \in {brDialog.shown, brEntry}
  <2>1. CASE ExtractStopped(r)
    <3>1. PICK e : e = IF IsCurrentExtractTask(r) THEN r.entry ELSE d.shown
      OBVIOUS
    <3>2. brDialog' = [d EXCEPT !.shown = e]
      BY <2>1, <3>1 DEF ExtractStopped, d
    <3>3. IsCurrentExtractTask(r) => r.entry = brEntry
      BY DEF EntryIInv, RunsNumbered
    <3>4. e \in {d.shown, brEntry} /\ e \in BrEntries \cup {NoBrEntry}
      BY <1>1, <1>3, <3>1, <3>3, DialogFacts DEF EntryTypes
    <3>5. /\ brDialog' \in BrDialogs /\ brDialog'.run = d.run /\ brDialog'.on = d.on
          /\ brDialog'.closing = d.closing /\ brDialog'.ctl = d.ctl
          /\ brDialog'.extracting = d.extracting /\ brDialog'.shown = e
          /\ e = d.shown => brDialog' = d
      BY <1>3, <3>2, <3>4 DEF BrDialogs
    <3> QED BY <1>3, <3>1, <3>4, <3>5
  <2>2. ASSUME NEW skipped \in BOOLEAN, ExtractReloaded(r, skipped)
        PROVE  \/ brDialog' = CloseFileAction(brDialog) /\ IsCurrentExtractTask(r)
               \/ brDialog' = d
    BY <2>2 DEF ExtractReloaded, d
  <2>3. CASE brDialog' = CloseFileAction(brDialog) /\ IsCurrentExtractTask(r)
    BY <1>1, <2>3, CloseFacts
  <2>4. CASE brDialog' = d
    BY <1>3, <2>4
  <2> QED BY <2>1, <2>2, <2>3, <2>4
<1>5. EntryIInv'
  BY <1>1, <1>2, <1>4, AfterExtraction
<1>6. EntryTypes'
  BY <1>1, <1>2, <1>4 DEF EntryTypes
<1> QED BY <1>1, <1>2, <1>5, <1>6, DialogueKeeps

LEMMA BatchEndedStep ==
  ASSUME BrTypeOK, ListIInv, EntryIInv, NEW r \in brRuns, ExtractEnded(r)
  PROVE  BrTypeOK' /\ ListIInv' /\ EntryIInv'
<1>1. ListTypes /\ EntryTypes /\ brCount \in Counts /\ r \in BrExtractions
      /\ brView \in BrViews /\ brView.seq + 1 \in Nat
  BY TypeParts, ViewFacts, NextNat DEF EntryTypes, ListTypes
<1>2. PICK s : s = [r EXCEPT !.phase = "reloads", !.seq = brView.seq + 1]
  OBVIOUS
<1>3. /\ IsCurrentExtractTask(r) /\ brRuns' = (brRuns \ {r}) \cup {s}
      /\ UNCHANGED <<brInst, brMemory, brEntry, brDialog, brCalls, brStrayed, brCount>>
  BY <1>2 DEF ExtractEnded
<1>4. /\ s \in BrExtractions /\ s.run = r.run /\ s.entry = r.entry
      /\ s.phase = "reloads"
  <2>1. PICK n \in Nat : n = brView.seq + 1
    BY <1>1
  <2>2. s = [r EXCEPT !.phase = "reloads", !.seq = n]
    BY <1>2, <2>1
  <2> QED BY <1>1, <2>2 DEF BrExtractions
<1>5. EntryTypes'
  BY <1>1, <1>3, <1>4 DEF EntryTypes
<1>6. EntryIInv'
  <2>1. DialogInOrder'
    BY <1>3 DEF EntryIInv, DialogInOrder
  <2>2. RunsNumbered'
    BY <1>3, <1>4 DEF EntryIInv, RunsNumbered, IsCurrentExtractTask
  <2>3. BrExtractOwn'
    BY <1>3, <1>4 DEF EntryIInv, BrExtractOwn, IsCurrentExtractTask
  <2> QED BY <2>1, <2>2, <2>3 DEF EntryIInv
<1>7. ListTypes' /\ ListIInv'
  <2>1. CASE brInst.name = ""
    <3>1. UNCHANGED <<brBusy, brMemory, listVars>>
      BY <1>3, <2>1 DEF ExtractEnded, listVars
    <3>2. ListTypes'
      BY <1>1, <3>1 DEF ListTypes, listVars
    <3> QED BY <3>1, <3>2, ListFrame
  <2>2. CASE brInst.name # ""
    <3>1. LoadList(brView.dir, 1, Reloaded, {})
      BY <2>2 DEF ExtractEnded
    <3>2. brView.dir \in BrPlaces /\ 1 \in 1 .. 2 /\ {} \in SUBSET {"button", "box"}
          /\ Reloaded \in BrViews /\ Reloaded.seq = brView.seq
      BY <1>1, ViewFacts, ReloadedFacts
    <3>7. brInst.name \in BrNames
      BY <1>1, <2>2, InstFacts DEF ListTypes
    <3>3. /\ brView' \in BrViews /\ brView'.seq = brView.seq + 1
          /\ brBusy' \in SUBSET Waits
          /\ brWanted' \in Wants /\ brWanted'.ok /\ brWanted'.seq = brView.seq + 1
          /\ \E q \in BrRequests : brLoads' = brLoads \cup {q} /\ AskedNow(q)
      BY <3>1, <3>2, <3>7, LoadListEffect
    <3>4. PICK q \in BrRequests : brLoads' = brLoads \cup {q} /\ AskedNow(q)
      BY <3>3
    <3>5. ListIInv'
      BY <1>3, <3>3, <3>4, AskedKeeps
    <3>6. ListTypes'
      BY <1>1, <1>3, <3>3, <3>4 DEF ListTypes
    <3> QED BY <3>5, <3>6
  <2> QED BY <2>1, <2>2
<1> QED BY <1>1, <1>3, <1>5, <1>6, <1>7, TypesMake

-----------------------------------------------------------------------------
(* The theorems.                                                           *)

LEMMA BrInitHolds == ASSUME BrInit PROVE BrIInv
<1>1. /\ brInst = [name |-> "", session |-> 0, opening |-> ""]
      /\ brView = NoView(0) /\ brLoads = {} /\ brBusy = {}
      /\ brMemory = [n \in BrNames |-> ""] /\ brEntry = NoBrEntry
      /\ brCalls = {} /\ brRuns = {} /\ brWanted = NothingWanted
      /\ brStrayed = FALSE
  BY DEF BrInit
<1>2. brInst \in Insts
  BY <1>1 DEF Insts
<1>3. brView \in BrViews /\ brWanted \in Wants /\ ~brWanted.ok
  BY <1>1, NoViewFacts, NothingWantedFacts
<1>4. brMemory \in [BrNames -> BrPlaces] /\ brStrayed \in BOOLEAN
  BY <1>1, BrFacts
<1>5. ListTypes
  BY <1>1, <1>2, <1>3, <1>4 DEF ListTypes
<1>6. /\ brDialog \in BrDialogs /\ ~brDialog.on /\ ~brDialog.closing
      /\ ~brDialog.ctl /\ ~brDialog.extracting
  <2>1. \A no \in BOOLEAN, n \in Nat, e \in BrEntries \cup {NoBrEntry} :
          LET d == [on |-> no, closing |-> no, run |-> n, ctl |-> no,
                    extracting |-> no, canceling |-> no, shown |-> e]
          IN d \in BrDialogs /\ d.on = no /\ d.closing = no /\ d.ctl = no
             /\ d.extracting = no
    BY DEF BrDialogs
  <2>2. brDialog = [on |-> FALSE, closing |-> FALSE, run |-> 0, ctl |-> FALSE,
                    extracting |-> FALSE, canceling |-> FALSE, shown |-> NoBrEntry]
    BY DEF BrInit
  <2>3. FALSE \in BOOLEAN /\ 0 \in Nat /\ NoBrEntry \in BrEntries \cup {NoBrEntry}
    OBVIOUS
  <2> HIDE DEF BrDialogs, BrEntries, NoBrEntry
  <2>4. /\ brDialog \in BrDialogs /\ brDialog.on = FALSE /\ brDialog.closing = FALSE
        /\ brDialog.ctl = FALSE /\ brDialog.extracting = FALSE
    BY <2>1, <2>2, <2>3, Zenon
  <2> QED BY <2>4
<1>7. EntryTypes
  BY <1>1, <1>6 DEF EntryTypes
<1>8. brCount \in Counts
  <2>1. 0 \in 0 .. BrSwitches /\ 0 \in 0 .. BrAsks /\ 0 \in 0 .. BrActs
    BY BrFacts, NoneYet
  <2> QED BY <2>1 DEF BrInit, Counts
<1>9. ListIInv
  BY <1>1, <1>3 DEF ListIInv, LoadsNumbered, LoadWanted, BrShowsLatest
<1>10. EntryIInv
  <2>1. brDialog.ctl \in BOOLEAN /\ brDialog.extracting \in BOOLEAN
    BY <1>6, DialogFacts
  <2>2. DialogInOrder
    BY <1>6, <2>1 DEF DialogInOrder
  <2> QED BY <1>1, <1>6, <2>2 DEF EntryIInv, RunsNumbered, BrExtractOwn
<1> QED BY <1>5, <1>7, <1>8, <1>9, <1>10, TypeParts DEF BrIInv

\* Every step keeps the invariant.
LEMMA BrStep == ASSUME BrIInv, [BrNext]_brVars PROVE BrIInv'
<1>1. BrTypeOK /\ ListIInv /\ EntryIInv
  BY DEF BrIInv
<1>2. ASSUME BrNext PROVE BrTypeOK' /\ ListIInv' /\ EntryIInv'
  <2>1. CASE \/ \E n \in BrNames : PrepareOpenTerminalPage(n)
             \/ OpenTerminalPage
    BY <1>1, <2>1, SwitchStep
  <2>2. CASE CloseTerminalPanel
    BY <1>1, <2>2, CloseStep
  <2>3. CASE \/ \E m, n \in BrNames : RenameFileLastDirsInstance(m, n)
             \/ \E valid \in SUBSET BrNames : CleanupFileLastDirs(valid)
    BY <1>1, <2>3, MemoryStep
  <2>4. CASE \/ \E d \in BrPlaces : OpenDirectory(d)
             \/ Refresh \/ ReloadFilesFromFirstPage
             \/ \E by \in {"button", "box"}, p \in 1 .. 2 : TurnPage(by, p)
             \/ \E on \in BOOLEAN : SubmitFileSearch(on)
    BY <1>1, <2>4, AskSteps
  <2>5. CASE \E d \in BrPlaces : TryJumpToSearchPath(d)
    BY <1>1, <2>5, JumpStep
  <2>6. CASE \E q \in brLoads : StaleAnswer(q) \/ RestoreFailed(q) \/ ListFailed(q)
    BY <1>1, <2>6, AnswerStep
  <2>7. CASE \E q \in brLoads, missing \in BOOLEAN : ListAnswered(q, missing)
    BY <1>1, <2>7, ListStep
  <2>8. CASE OpenFileAction
    BY <1>1, <2>8, OpenStep
  <2>9. CASE RequestClose \/ FileActionHidden
    BY <1>1, <2>9, HideStep
  <2>10. CASE \/ RenameFileEntry \/ DeleteFileEntry
              \/ \E c \in brCalls : \/ EntryFailed(c)
                                   \/ \E yes \in BOOLEAN : DeleteConfirmed(c, yes)
    BY <1>1, <2>10, CallStep
  <2>11. CASE \E c \in brCalls : EntryAnswered(c)
    BY <1>1, <2>11, EntryAnsweredStep
  <2>12. CASE ExtractArchive
    BY <1>1, <2>12, ExtractStep
  <2>13. CASE RequestCancelExtract
    BY <1>1, <2>13, CancelStep
  <2>14. CASE \E r \in brRuns : \/ ExtractStopped(r)
                               \/ \E skipped \in BOOLEAN : ExtractReloaded(r, skipped)
    BY <1>1, <2>14, EndStep
  <2>15. CASE \E r \in brRuns : ExtractEnded(r)
    BY <1>1, <2>15, BatchEndedStep
  <2> QED BY <1>2, <2>1, <2>2, <2>3, <2>4, <2>5, <2>6, <2>7, <2>8, <2>9, <2>10, <2>11,
             <2>12, <2>13, <2>14, <2>15 DEF BrNext
<1>3. ASSUME UNCHANGED brVars PROVE BrTypeOK' /\ ListIInv' /\ EntryIInv'
  BY <1>1, <1>3, ListFrame, EntryFrame DEF BrTypeOK, brVars, listVars, entryVars
<1> QED BY <1>2, <1>3 DEF BrIInv

LEMMA BrIInvHolds == BrSpec => []BrIInv
BY BrInitHolds, BrStep, PTL DEF BrSpec

\* The state of the file panel and of its dialogue keeps its shape, whatever
\* crosses what.
THEOREM BrTypesHold == BrSpec => []BrTypeOK
<1>1. BrIInv => BrTypeOK
  BY DEF BrIInv
<1> QED BY <1>1, BrIInvHolds, PTL

\* Whatever the number of instances, directories and requests: once nothing is
\* on its way the panel shows what was asked for last (fileList.js
\* isLoadContextStale).
THEOREM PanelShowsLatest == BrSpec => []BrShowsLatest
<1>1. BrIInv => BrShowsLatest
  BY DEF BrIInv, ListIInv
<1> QED BY <1>1, BrIInvHolds, PTL

\* The dialogue shows the extraction of its own entry only, and a stream that
\* runs can be cancelled (fileActionModal.js isCurrentExtractTask).
THEOREM DialogueShowsOwnExtraction == BrSpec => []BrExtractOwn
<1>1. BrIInv => BrExtractOwn
  BY DEF BrIInv, EntryIInv
<1> QED BY <1>1, BrIInvHolds, PTL

(* ------------------------------ FileEditor ----------------------------- *)

EdReadRecs == [op : Nat, path : EdFiles, text : EdTexts \cup {NoText}]
EdStartRecs == [op : Nat, path : EdFiles]
EdSaveRecs == {NoSave} \cup [path : EdFiles, text : EdTexts, close : BOOLEAN,
                             stored : BOOLEAN]
EdCounts == [opens : 0 .. EdOpens, edits : 0 .. EdEdits, saves : 0 .. EdSaves]

(* The start of Monaco for the present opening is under way.               *)
EdStartsNow == \E start \in edStarts : start.op = edOp

(* The file is being saved, for this opening or an earlier one.            *)
EdSavesPath == EdSaving /\ edSave.path = edPath

(* Reads and starts belong to their opening, which is the present one only *)
(* while the editor is shown.                                              *)
EdPathInv ==
  /\ edView = "open" => edPath \in EdFiles
  /\ edView # "open" => edModel = NoText /\ edPending = NoText /\ ~edLoaded

EdReadInv ==
  /\ \A read \in edReads :
       /\ read.op <= edOp
       /\ read.op = edOp => edView = "open" /\ read.path = edPath /\ ~edLoaded
  /\ \A r, q \in edReads : r.op = q.op => r = q

EdStartInv ==
  /\ \A start \in edStarts :
       /\ start.op <= edOp
       /\ start.op = edOp => edView = "open"
  /\ \A s, q \in edStarts : s.op = q.op => s = q
  /\ edModel # NoText => edMonaco
  /\ edLoaded /\ EdStartsNow => edModel = NoText /\ edPending # NoText

(* What an opening that does not overlap an earlier write of its file has  *)
(* read is what the file holds, until its own save is stored or fails with *)
(* the host able to store it.                                              *)
EdDiskInv ==
  edView = "open" /\ ~edBehind =>
    /\ \A stray \in edStray : stray[1] = edPath => stray[2] \in edFailed
    /\ \A read \in edReads :
         read.op = edOp /\ read.text # NoText => read.text = edDisk[edPath]
    /\ ~edLoaded \/ edModel = NoText => ~EdSavesPath /\ edFailed = {}
    /\ EdStartsNow /\ edPending # NoText => edPending = edDisk[edPath]
    /\ EdSavesPath /\ edSave.stored =>
         edDisk[edPath] = edSave.text \/ edDisk[edPath] \in edFailed
    /\ edLoaded /\ edModel # NoText =>
         \/ edOriginal = edDisk[edPath]
         \/ edDisk[edPath] \in edFailed
         \/ EdSavesPath /\ edSave.stored

(* The left side of the diff is the baseline, and is of this opening.      *)
EdDiffInv ==
  /\ edDiff # NoText => edModel # NoText /\ (edLoaded \/ EdStartsNow)
  /\ edLoaded /\ edDiff # NoText => edDiff = edOriginal
  /\ edMode = "diff" => edDiff # NoText

EdIInv == /\ EdTypeOK /\ EdPathInv /\ EdReadInv /\ EdStartInv
          /\ EdDiskInv /\ EdDiffInv

-----------------------------------------------------------------------------
(* Types, with the sets of records by name.                                *)
EdTypes ==
  /\ edDisk \in [EdFiles -> EdTexts]
  /\ edView \in {"hidden", "open", "closing"}
  /\ edPath \in EdFiles \cup {""}
  /\ edOriginal \in EdTexts
  /\ edModel \in EdTexts \cup {NoText}
  /\ edPending \in EdTexts \cup {NoText}
  /\ edDiff \in EdTexts \cup {NoText}
  /\ edMode \in {"edit", "diff"}
  /\ edLoaded \in BOOLEAN
  /\ edOp \in Nat
  /\ edReads \subseteq EdReadRecs
  /\ edStarts \subseteq EdStartRecs
  /\ edMonaco \in BOOLEAN
  /\ edSave \in EdSaveRecs
  /\ edClosers \in Nat
  /\ edAsk \in BOOLEAN
  /\ edStray \subseteq EdFiles \X EdTexts
  /\ edBehind \in BOOLEAN
  /\ edFailed \subseteq EdTexts
  /\ edCount \in EdCounts

LEMMA EdTypeForm == EdTypeOK <=> EdTypes
BY DEF EdTypeOK, EdTypes, EdReadRecs, EdStartRecs, EdSaveRecs, EdCounts

LEMMA CountGrows ==
  \A n \in Nat, bound \in Nat :
    /\ 0 \in 0 .. bound
    /\ n < bound => n + 1 \in 0 .. bound
OBVIOUS

LEMMA TextFacts == Empty \in EdTexts /\ NoText \notin EdTexts
BY EdAssumption DEF EdAssumption, Empty, NoText

LEMMA ReadFacts ==
  /\ \A op \in Nat, f \in EdFiles :
       /\ [op |-> op, path |-> f, text |-> NoText] \in EdReadRecs
       /\ [op |-> op, path |-> f, text |-> NoText].op = op
       /\ [op |-> op, path |-> f, text |-> NoText].path = f
       /\ [op |-> op, path |-> f, text |-> NoText].text = NoText
  /\ \A read \in EdReadRecs :
       /\ read.op \in Nat /\ read.path \in EdFiles
       /\ read.text \in EdTexts \cup {NoText}
  /\ \A read \in EdReadRecs, text \in EdTexts :
       /\ [read EXCEPT !.text = text] \in EdReadRecs
       /\ [read EXCEPT !.text = text].op = read.op
       /\ [read EXCEPT !.text = text].path = read.path
       /\ [read EXCEPT !.text = text].text = text
BY DEF EdReadRecs

LEMMA StartFacts ==
  /\ \A op \in Nat, f \in EdFiles :
       /\ [op |-> op, path |-> f] \in EdStartRecs
       /\ [op |-> op, path |-> f].op = op
  /\ \A start \in EdStartRecs : start.op \in Nat
BY DEF EdStartRecs

LEMMA SaveFacts ==
  /\ NoSave \in EdSaveRecs
  /\ \A f \in EdFiles, text \in EdTexts, close \in BOOLEAN :
       LET save == [path |-> f, text |-> text, close |-> close,
                    stored |-> FALSE]
       IN /\ save \in EdSaveRecs /\ save # NoSave
          /\ save.path = f /\ save.text = text /\ ~save.stored
  /\ \A save \in EdSaveRecs :
       save # NoSave =>
         /\ save.path \in EdFiles /\ save.text \in EdTexts
         /\ save.stored \in BOOLEAN /\ save.close \in BOOLEAN
         /\ [save EXCEPT !.stored = TRUE] \in EdSaveRecs
         /\ [save EXCEPT !.stored = TRUE] # NoSave
         /\ [save EXCEPT !.stored = TRUE].path = save.path
         /\ [save EXCEPT !.stored = TRUE].text = save.text
         /\ [save EXCEPT !.stored = TRUE].stored
BY EdAssumption DEF EdAssumption, EdSaveRecs, NoSave

LEMMA StrayFacts ==
  /\ \A f \in EdFiles, text \in EdTexts :
       /\ <<f, text>> \in EdFiles \X EdTexts
       /\ <<f, text>>[1] = f /\ <<f, text>>[2] = text
  /\ \A stray \in EdFiles \X EdTexts :
       stray[1] \in EdFiles /\ stray[2] \in EdTexts
OBVIOUS

LEMMA EdCountFacts ==
  /\ [opens |-> 0, edits |-> 0, saves |-> 0] \in EdCounts
  /\ \A count \in EdCounts :
       /\ count.opens < EdOpens => [count EXCEPT !.opens = @ + 1] \in EdCounts
       /\ count.edits < EdEdits => [count EXCEPT !.edits = @ + 1] \in EdCounts
       /\ count.saves < EdSaves => [count EXCEPT !.saves = @ + 1] \in EdCounts
<1>1. EdOpens \in Nat /\ EdEdits \in Nat /\ EdSaves \in Nat
  BY EdAssumption DEF EdAssumption
<1>2. [opens |-> 0, edits |-> 0, saves |-> 0] \in EdCounts
  BY <1>1, CountGrows DEF EdCounts
<1>3. \A count \in EdCounts :
        /\ count.opens \in Nat /\ count.edits \in Nat /\ count.saves \in Nat
        /\ \A n \in 0 .. EdOpens : [count EXCEPT !.opens = n] \in EdCounts
        /\ \A n \in 0 .. EdEdits : [count EXCEPT !.edits = n] \in EdCounts
        /\ \A n \in 0 .. EdSaves : [count EXCEPT !.saves = n] \in EdCounts
  BY DEF EdCounts
<1> QED BY <1>1, <1>2, <1>3, CountGrows

LEMMA OpFacts ==
  /\ \A n \in Nat : n + 1 \in Nat /\ n <= n /\ n < n + 1 /\ ~(n + 1 <= n)
  /\ \A m, n \in Nat : m <= n => m <= n + 1 /\ m # n + 1
OBVIOUS

LEMMA CloserFacts ==
  \A n \in Nat : /\ n + 0 \in Nat /\ n + 1 \in Nat
                 /\ n > 0 => n - 1 \in Nat
OBVIOUS

LEMMA EdParts ==
  EdIInv <=> /\ EdTypes /\ EdPathInv /\ EdReadInv /\ EdStartInv
             /\ EdDiskInv /\ EdDiffInv
BY EdTypeForm DEF EdIInv

(* The primed form of EdParts.                                             *)
LEMMA EdPartsMake ==
  ASSUME EdTypes', EdPathInv', EdReadInv', EdStartInv', EdDiskInv', EdDiffInv'
  PROVE  EdIInv'
<1>1. EdTypeOK'
  BY DEF EdTypeOK, EdTypes, EdReadRecs, EdStartRecs, EdSaveRecs, EdCounts
<1> QED BY <1>1 DEF EdIInv

-----------------------------------------------------------------------------
LEMMA EdStartsOK == EdInit => EdIInv
<1> SUFFICES ASSUME EdInit PROVE EdIInv
  OBVIOUS
<1>1. EdTypes
  BY TextFacts, SaveFacts, EdCountFacts DEF EdInit, EdTypes
<1>2. EdPathInv /\ EdReadInv /\ EdStartInv /\ EdDiskInv /\ EdDiffInv
  BY DEF EdInit, EdPathInv, EdReadInv, EdStartInv, EdDiskInv, EdDiffInv,
         EdStartsNow
<1> QED BY <1>1, <1>2, EdParts
-----------------------------------------------------------------------------
(* What leaves the parts of the invariant alone.                           *)

LEMMA PathFrame ==
  ASSUME EdPathInv, UNCHANGED <<edView, edPath, edModel, edPending, edLoaded>>
  PROVE  EdPathInv'
BY DEF EdPathInv

LEMMA ReadFrame ==
  ASSUME EdReadInv, UNCHANGED <<edView, edPath, edLoaded, edOp>>,
         edReads' \subseteq edReads
  PROVE  EdReadInv'
BY DEF EdReadInv

LEMMA StartFrame ==
  ASSUME EdStartInv, UNCHANGED <<edView, edModel, edPending, edLoaded, edOp>>,
         edStarts' \subseteq edStarts, edMonaco => edMonaco'
  PROVE  EdStartInv' /\ (EdStartsNow' => EdStartsNow)
BY DEF EdStartInv, EdStartsNow

LEMMA DiskFrame ==
  ASSUME EdDiskInv, UNCHANGED <<edDisk, edView, edSave, edStray, edPath,
                                edOriginal, edModel, edPending, edLoaded,
                                edOp, edBehind, edFailed>>,
         edReads' \subseteq edReads, EdStartsNow' => EdStartsNow
  PROVE  EdDiskInv'
BY DEF EdDiskInv, EdSavesPath, EdSaving

LEMMA DiffFrame ==
  ASSUME EdDiffInv, UNCHANGED <<edOriginal, edModel, edLoaded, edDiffView>>,
         EdStartsNow => EdStartsNow'
  PROVE  EdDiffInv'
BY DEF EdDiffInv, edDiffView

LEMMA StartsSame ==
  ASSUME UNCHANGED <<edStarts, edOp>>
  PROVE  EdStartsNow' <=> EdStartsNow
BY DEF EdStartsNow

-----------------------------------------------------------------------------
(* One lemma per action, with one step per part of the invariant it can    *)
(* disturb.                                                                *)

LEMMA EdOpenKeeps ==
  ASSUME EdIInv, NEW f \in EdFiles, EdOpen(f)
  PROVE  EdIInv'
<1>1. /\ EdTypes /\ EdPathInv /\ EdReadInv /\ EdStartInv
      /\ EdDiskInv /\ EdDiffInv
  BY EdParts
<1> DEFINE newRead == [op |-> edOp + 1, path |-> f, text |-> NoText]
           newStart == [op |-> edOp + 1, path |-> f]
<1>2. /\ edView' = "open" /\ edOp' = edOp + 1 /\ edPath' = f
      /\ edOriginal' = Empty /\ edPending' = NoText /\ edLoaded' = FALSE
      /\ edMode' = "edit"
      /\ edReads' = edReads \cup {newRead}
      /\ edStarts' = edStarts \cup {newStart}
      /\ edBehind' = (edSave.path = f \/ \E stray \in edStray : stray[1] = f)
      /\ edFailed' = {}
      /\ UNCHANGED <<edDisk, edModel, edDiff, edMonaco, edSave, edClosers,
                     edAsk, edStray>>
      /\ edCount.opens < EdOpens
      /\ edCount' = [edCount EXCEPT !.opens = @ + 1]
  BY DEF EdOpen
<1>3. edOp \in Nat /\ edOp + 1 \in Nat
  BY <1>1, OpFacts DEF EdTypes
<1>4. /\ newRead \in EdReadRecs /\ newRead.op = edOp + 1 /\ newRead.path = f
      /\ newRead.text = NoText
  BY <1>3, ReadFacts
<1>5. newStart \in EdStartRecs /\ newStart.op = edOp + 1
  BY <1>3, StartFacts
<1>6. \A read \in edReads : read.op <= edOp + 1 /\ read.op # edOp + 1
  BY <1>1, <1>3, ReadFacts, OpFacts DEF EdTypes, EdReadInv
<1>7. \A start \in edStarts : start.op <= edOp + 1 /\ start.op # edOp + 1
  BY <1>1, <1>3, StartFacts, OpFacts DEF EdTypes, EdStartInv
<1>8. edOp + 1 <= edOp + 1
  BY <1>3, OpFacts
<1> HIDE DEF newRead, newStart
<1>9. EdTypes'
  <2>1. edCount' \in EdCounts
    BY <1>1, <1>2, EdCountFacts DEF EdTypes
  <2>2. edOriginal' \in EdTexts
    BY <1>2, TextFacts
  <2> QED BY <1>1, <1>2, <1>3, <1>4, <1>5, <2>1, <2>2 DEF EdTypes
<1>10. EdPathInv'
  BY <1>2 DEF EdPathInv
<1>11. EdReadInv'
  BY <1>1, <1>2, <1>4, <1>6, <1>8 DEF EdReadInv
<1>12. EdStartInv'
  BY <1>1, <1>2, <1>5, <1>7, <1>8 DEF EdStartInv
<1>13. EdDiskInv'
  <2>1. ~edBehind' => ~EdSavesPath' /\ \A stray \in edStray' : stray[1] # edPath'
    BY <1>2 DEF EdSavesPath, EdSaving
  <2>2. \A read \in edReads' : read.op = edOp' => read.text = NoText
    BY <1>2, <1>4, <1>6
  <2> QED BY <1>2, <2>1, <2>2 DEF EdDiskInv
<1>14. EdDiffInv'
  <2>1. EdStartsNow'
    BY <1>2, <1>5 DEF EdStartsNow
  <2> QED BY <1>1, <1>2, <2>1 DEF EdDiffInv
<1> QED BY <1>9, <1>10, <1>11, <1>12, <1>13, <1>14, EdPartsMake

LEMMA EdReadFileKeeps ==
  ASSUME EdIInv, EdReadFile
  PROVE  EdIInv'
<1>1. /\ EdTypes /\ EdPathInv /\ EdReadInv /\ EdStartInv
      /\ EdDiskInv /\ EdDiffInv
  BY EdParts
<1>2. PICK read \in edReads :
        /\ read.text = NoText
        /\ edReads' = (edReads \ {read})
                        \cup {[read EXCEPT !.text = edDisk[read.path]]}
  BY DEF EdReadFile
<1> DEFINE answer == [read EXCEPT !.text = edDisk[read.path]]
<1>3. /\ UNCHANGED <<edDisk, edView, edPath, edOriginal, edModel, edPending,
                     edLoaded, edOp, edStarts, edMonaco, edSave, edClosers,
                     edAsk, edStray, edCount, edBehind, edFailed>>
      /\ UNCHANGED <<edDiff, edMode>> /\ UNCHANGED edDiffView
  BY DEF EdReadFile, edDiffView, edDoubts
<1>4. /\ read \in EdReadRecs /\ read.path \in EdFiles
      /\ edDisk[read.path] \in EdTexts
  BY <1>1, <1>2, ReadFacts DEF EdTypes
<1>5. /\ answer \in EdReadRecs /\ answer.op = read.op
      /\ answer.path = read.path /\ answer.text = edDisk[read.path]
  BY <1>4, ReadFacts
<1>6. edReads' = (edReads \ {read}) \cup {answer}
  BY <1>2
<1> HIDE DEF answer
<1>7. EdTypes'
  BY ZenonT(40), <1>1, <1>3, <1>5, <1>6 DEF EdTypes
<1>8. EdPathInv'
  BY <1>1, <1>3, PathFrame
<1>9. EdReadInv'
  BY <1>1, <1>2, <1>3, <1>5, <1>6 DEF EdReadInv
<1>10. EdStartInv' /\ (EdStartsNow' <=> EdStartsNow)
  BY <1>1, <1>3, StartFrame, StartsSame
<1>11. EdDiskInv'
  <2>1. answer.op = edOp => answer.text = edDisk[edPath]
    BY <1>1, <1>2, <1>5 DEF EdReadInv
  <2> QED BY <1>1, <1>3, <1>6, <1>10, <2>1 DEF EdDiskInv, EdSavesPath, EdSaving
<1>12. EdDiffInv'
  BY <1>1, <1>3, <1>10, DiffFrame
<1> QED BY <1>7, <1>8, <1>9, <1>10, <1>11, <1>12, EdPartsMake

LEMMA EdContentArrivesKeeps ==
  ASSUME EdIInv, EdContentArrives
  PROVE  EdIInv'
<1>1. /\ EdTypes /\ EdPathInv /\ EdReadInv /\ EdStartInv
      /\ EdDiskInv /\ EdDiffInv
  BY EdParts
<1>2. PICK read \in edReads :
        /\ read.text # NoText
        /\ edMonaco => ~\E start \in edStarts : start.op = read.op
        /\ edReads' = edReads \ {read}
        /\ IF read.op # edOp
             THEN UNCHANGED <<edPath, edOriginal, edModel, edPending, edLoaded>>
             ELSE /\ edPath' = read.path
                  /\ edOriginal' = read.text
                  /\ IF edModel = NoText
                       THEN edPending' = read.text /\ UNCHANGED edModel
                       ELSE edModel' = read.text /\ UNCHANGED edPending
                  /\ edLoaded' = TRUE
  BY DEF EdContentArrives
<1>3. /\ UNCHANGED <<edDisk, edView, edOp, edStarts, edMonaco, edSave,
                     edClosers, edAsk, edStray, edCount, edBehind, edFailed>>
      /\ UNCHANGED <<edDiff, edMode>> /\ UNCHANGED edDiffView
  BY DEF EdContentArrives, edDiffView, edDoubts
<1>4. EdStartsNow' <=> EdStartsNow
  BY <1>3, StartsSame
<1>5. CASE read.op # edOp
  <2>1. UNCHANGED <<edPath, edOriginal, edModel, edPending, edLoaded>>
    BY <1>2, <1>5
  <2>2. edReads' \subseteq edReads
    BY <1>2
  <2>3. EdTypes'
    BY ZenonT(40), <1>1, <1>3, <2>1, <2>2 DEF EdTypes
  <2>4. EdPathInv' /\ EdReadInv' /\ EdStartInv'
    BY <1>1, <1>3, <2>1, <2>2, PathFrame, ReadFrame, StartFrame
  <2>5. EdDiskInv' /\ EdDiffInv'
    BY <1>1, <1>3, <1>4, <2>1, <2>2, DiskFrame, DiffFrame
  <2> QED BY <2>3, <2>4, <2>5, EdPartsMake
<1>6. CASE read.op = edOp
  <2>1. /\ edView = "open" /\ read.path = edPath /\ ~edLoaded
        /\ edPath \in EdFiles
    BY <1>1, <1>6 DEF EdReadInv, EdPathInv
  <2>2. read.text \in EdTexts
    BY <1>1, <1>2, <2>1, ReadFacts DEF EdTypes
  <2>3. /\ edPath' = edPath /\ edOriginal' = read.text /\ edLoaded' = TRUE
        /\ edModel = NoText => edPending' = read.text /\ edModel' = NoText
        /\ edModel # NoText => edModel' = read.text /\ edPending' = edPending
    BY <1>2, <1>6, <2>1
  <2>4. \A other \in edReads' : other \in edReads /\ other.op # edOp
    BY <1>1, <1>2, <1>6 DEF EdReadInv
  <2>5. EdStartsNow => edModel = NoText
    BY <1>1, <1>2, <1>6 DEF EdStartsNow, EdStartInv
  <2>6. edModel' = NoText \/ edModel' = read.text
    BY <2>3
  <2>7. EdTypes'
    BY <1>1, <1>3, <2>2, <2>3, <2>4, <2>6 DEF EdTypes
  <2>8. EdPathInv'
    BY <1>3, <2>1, <2>3 DEF EdPathInv
  <2>9. EdReadInv'
    BY <1>1, <1>3, <2>3, <2>4 DEF EdReadInv
  <2>10. EdStartInv'
    <3>1. EdStartsNow' => edModel' = NoText /\ edPending' # NoText
      BY <1>2, <1>4, <2>3, <2>5
    <3>2. edModel' # NoText => edMonaco'
      BY <1>1, <1>3, <2>3 DEF EdStartInv
    <3> QED BY <1>1, <1>3, <3>1, <3>2 DEF EdStartInv
  <2>11. EdDiskInv'
    <3>1. ~edBehind => /\ read.text = edDisk[edPath]
                       /\ ~EdSavesPath /\ edFailed = {}
      BY <1>1, <1>2, <1>6, <2>1 DEF EdDiskInv
    <3>2. EdSavesPath' <=> EdSavesPath
      BY <1>3, <2>3 DEF EdSavesPath, EdSaving
    <3>3. EdStartsNow' => edPending' = read.text
      BY <1>4, <2>3, <2>5
    <3>4. ~edBehind =>
            \A stray \in edStray : stray[1] = edPath => stray[2] \in edFailed
      BY <1>1, <2>1 DEF EdDiskInv
    <3> QED BY <1>3, <2>3, <2>4, <3>1, <3>2, <3>3, <3>4 DEF EdDiskInv
  <2>12. EdDiffInv'
    <3>1. edDiff = NoText
      BY <1>1, <2>1, <2>5 DEF EdDiffInv
    <3> QED BY <1>1, <1>3, <2>1, <2>3, <3>1 DEF EdDiffInv
  <2> QED BY <2>7, <2>8, <2>9, <2>10, <2>11, <2>12, EdPartsMake
<1> QED BY <1>5, <1>6

LEMMA EdReadFailsKeeps ==
  ASSUME EdIInv, EdReadFails
  PROVE  EdIInv'
<1>1. /\ EdTypes /\ EdPathInv /\ EdReadInv /\ EdStartInv
      /\ EdDiskInv /\ EdDiffInv
  BY EdParts
<1>2. edReads' \subseteq edReads
  BY DEF EdReadFails
<1>3. UNCHANGED <<edDisk, edView, edPath, edOriginal, edModel, edPending,
                  edLoaded, edOp, edStarts, edMonaco, edSave, edClosers, edAsk,
                  edStray, edCount, edBehind, edFailed, edDiff, edMode, edDiffView>>
  BY DEF EdReadFails, edDiffView, edDoubts
<1>4. EdStartsNow' <=> EdStartsNow
  BY <1>3, StartsSame
<1>5. EdTypes'
  BY ZenonT(40), <1>1, <1>2, <1>3 DEF EdTypes
<1>6. EdPathInv' /\ EdReadInv' /\ EdStartInv'
  BY <1>1, <1>2, <1>3, PathFrame, ReadFrame, StartFrame
<1>7. EdDiskInv' /\ EdDiffInv'
  BY <1>1, <1>2, <1>3, <1>4, DiskFrame, DiffFrame
<1> QED BY <1>5, <1>6, <1>7, EdPartsMake

LEMMA EdMonacoStartsKeeps ==
  ASSUME EdIInv, EdMonacoStarts
  PROVE  EdIInv'
<1>1. /\ EdTypes /\ EdPathInv /\ EdReadInv /\ EdStartInv
      /\ EdDiskInv /\ EdDiffInv
  BY EdParts
<1>2. PICK start \in edStarts :
        /\ edStarts' = edStarts \ {start}
        /\ IF start.op # edOp \/ edView = "hidden"
             THEN UNCHANGED <<edModel, edOriginal, edDiffView>>
             ELSE LET text == IF edPending # NoText THEN edPending ELSE Empty
                  IN /\ edModel' = text /\ edOriginal' = text
                     /\ edDiff' = NoText /\ edMode' = "edit"
  BY DEF EdMonacoStarts
<1>3. /\ edMonaco' = TRUE
      /\ UNCHANGED <<edDisk, edView, edPath, edPending, edLoaded, edOp,
                     edReads, edSave, edClosers, edAsk, edStray, edCount,
                     edBehind, edFailed>>
  BY DEF EdMonacoStarts, edDoubts
<1>4. edStarts' \subseteq edStarts
  BY <1>2
<1>5. CASE start.op # edOp
  <2>1. UNCHANGED <<edModel, edOriginal, edDiffView, edDiff, edMode>>
    BY <1>2, <1>5 DEF edDiffView
  <2>2. EdStartsNow' <=> EdStartsNow
    BY <1>2, <1>3, <1>5 DEF EdStartsNow
  <2>3. EdTypes'
    BY <1>1, <1>3, <1>4, <2>1 DEF EdTypes
  <2>4. EdPathInv' /\ EdReadInv' /\ EdStartInv'
    BY <1>1, <1>3, <1>4, <2>1, PathFrame, ReadFrame, StartFrame
  <2>5. EdDiskInv' /\ EdDiffInv'
    BY <1>1, <1>3, <2>1, <2>2, DiskFrame, DiffFrame
  <2> QED BY <2>3, <2>4, <2>5, EdPartsMake
<1>6. CASE start.op = edOp
  <2>1. EdStartsNow /\ edView = "open"
    BY <1>1, <1>6 DEF EdStartsNow, EdStartInv
  <2>2. ~EdStartsNow'
    BY <1>1, <1>2, <1>3, <1>6 DEF EdStartsNow, EdStartInv
  <2> DEFINE text == IF edPending # NoText THEN edPending ELSE Empty
  <2>3. /\ edModel' = text /\ edOriginal' = text /\ edDiff' = NoText
        /\ edMode' = "edit"
    BY <1>2, <1>6, <2>1
  <2>4. text \in EdTexts /\ (edPending # NoText => text = edPending)
    BY <1>1, TextFacts DEF EdTypes
  <2>5. edLoaded => edPending # NoText
    BY <1>1, <2>1 DEF EdStartInv
  <2> HIDE DEF text
  <2>6. EdTypes'
    BY <1>1, <1>3, <1>4, <2>3, <2>4 DEF EdTypes
  <2>7. EdPathInv'
    BY <1>1, <1>3, <2>1 DEF EdPathInv
  <2>8. EdReadInv'
    BY <1>1, <1>3, ReadFrame
  <2>9. EdStartInv'
    BY <1>1, <1>3, <1>4, <2>2 DEF EdStartInv
  <2>10. EdDiskInv'
    <3>1. EdSavesPath' <=> EdSavesPath
      BY <1>3 DEF EdSavesPath, EdSaving
    <3>2. edLoaded /\ ~edBehind =>
            /\ edOriginal' = edDisk[edPath]
            /\ edFailed = {} /\ ~EdSavesPath
      BY <1>1, <2>1, <2>3, <2>4, <2>5 DEF EdDiskInv, EdStartInv
    <3> QED BY <1>1, <1>3, <2>1, <2>2, <3>1, <3>2 DEF EdDiskInv
  <2>11. EdDiffInv'
    BY <2>3 DEF EdDiffInv
  <2> QED BY <2>6, <2>7, <2>8, <2>9, <2>10, <2>11, EdPartsMake
<1> QED BY <1>5, <1>6

LEMMA EdMonacoFailsKeeps ==
  ASSUME EdIInv, EdMonacoFails
  PROVE  EdIInv'
<1>1. /\ EdTypes /\ EdPathInv /\ EdReadInv /\ EdStartInv
      /\ EdDiskInv /\ EdDiffInv
  BY EdParts
<1>2. ~edMonaco /\ edStarts' \subseteq edStarts
  BY DEF EdMonacoFails
<1>3. UNCHANGED <<edDisk, edView, edPath, edOriginal, edModel, edPending,
                  edLoaded, edOp, edReads, edMonaco, edSave, edClosers, edAsk,
                  edStray, edCount, edBehind, edFailed, edDiff, edMode>>
  BY DEF EdMonacoFails, edDiffView, edDoubts
<1>4. EdTypes'
  BY <1>1, <1>2, <1>3 DEF EdTypes
<1>5. EdPathInv' /\ EdReadInv'
  BY <1>1, <1>3, PathFrame, ReadFrame
<1>6. EdStartInv' /\ (EdStartsNow' => EdStartsNow)
  BY <1>1, <1>2, <1>3, StartFrame
<1>7. EdDiskInv'
  BY <1>1, <1>3, <1>6, DiskFrame
<1>8. EdDiffInv'
  <2>1. edModel = NoText /\ edDiff = NoText
    BY <1>1, <1>2 DEF EdStartInv, EdDiffInv
  <2> QED BY <1>1, <1>3, <2>1 DEF EdDiffInv
<1> QED BY <1>4, <1>5, <1>6, <1>7, <1>8, EdPartsMake

LEMMA EdToggleDiffKeeps ==
  ASSUME EdIInv, EdToggleDiff
  PROVE  EdIInv'
<1>1. /\ EdTypes /\ EdPathInv /\ EdReadInv /\ EdStartInv
      /\ EdDiskInv /\ EdDiffInv
  BY EdParts
<1>2. /\ edLoaded /\ edModel # NoText
      /\ edMode' = IF edMode = "edit" THEN "diff" ELSE "edit"
      /\ edDiff' = IF edMode = "edit" /\ edDiff = NoText THEN edOriginal
                   ELSE edDiff
  BY DEF EdToggleDiff, edDoubts
<1>3. UNCHANGED <<edDisk, edView, edPath, edOriginal, edModel, edPending,
                  edLoaded, edOp, edReads, edStarts, edMonaco, edSave,
                  edClosers, edAsk, edStray, edCount, edBehind, edFailed>>
  BY DEF EdToggleDiff, edDoubts
<1>4. EdStartsNow' <=> EdStartsNow
  BY <1>3, StartsSame
<1>5. EdTypes'
  BY <1>1, <1>2, <1>3 DEF EdTypes
<1>6. EdPathInv' /\ EdReadInv' /\ EdStartInv'
  BY <1>1, <1>3, PathFrame, ReadFrame, StartFrame
<1>7. EdDiskInv'
  BY <1>1, <1>3, <1>4, DiskFrame
<1>8. EdDiffInv'
  <2>1. edOriginal # NoText
    BY <1>1, TextFacts DEF EdTypes
  <2> QED BY <1>1, <1>2, <1>3, <2>1 DEF EdDiffInv, EdTypes
<1> QED BY <1>5, <1>6, <1>7, <1>8, EdPartsMake

LEMMA EdEditKeeps ==
  ASSUME EdIInv, EdEdit
  PROVE  EdIInv'
<1>1. /\ EdTypes /\ EdPathInv /\ EdReadInv /\ EdStartInv
      /\ EdDiskInv /\ EdDiffInv
  BY EdParts
<1>2. /\ edView = "open" /\ edModel # NoText /\ edLoaded
      /\ edCount.edits < EdEdits
      /\ edCount' = [edCount EXCEPT !.edits = @ + 1]
      /\ edModel' \in EdTexts
  BY DEF EdEdit, EdShown
<1>3. UNCHANGED <<edDisk, edView, edPath, edOriginal, edPending, edLoaded,
                  edOp, edReads, edStarts, edMonaco, edSave, edClosers, edAsk,
                  edStray, edBehind, edFailed, edDiff, edMode>>
  BY DEF EdEdit, edDiffView, edDoubts
<1>4. EdStartsNow' <=> EdStartsNow
  BY <1>3, StartsSame
<1>5. edCount' \in EdCounts
  BY <1>1, <1>2, EdCountFacts DEF EdTypes
<1>6. edModel' # NoText
  BY <1>2, TextFacts
<1>7. EdTypes'
  BY <1>1, <1>3, <1>2, <1>5 DEF EdTypes
<1>8. EdPathInv'
  BY <1>1, <1>2, <1>3 DEF EdPathInv
<1>9. EdReadInv'
  BY <1>1, <1>3, ReadFrame
<1>10. EdStartInv'
  BY <1>1, <1>2, <1>3, <1>4 DEF EdStartInv
<1>11. EdDiskInv'
  <2>1. EdSavesPath' <=> EdSavesPath
    BY <1>3 DEF EdSavesPath, EdSaving
  <2> QED BY <1>1, <1>2, <1>3, <1>4, <1>6, <2>1 DEF EdDiskInv
<1>12. EdDiffInv'
  BY <1>1, <1>2, <1>3, <1>4, <1>6 DEF EdDiffInv
<1> QED BY <1>7, <1>8, <1>9, <1>10, <1>11, <1>12, EdPartsMake

LEMMA EdSaveBeginsKeeps ==
  ASSUME EdIInv, NEW close \in BOOLEAN, EdSaveBegins(close)
  PROVE  EdIInv'
<1>1. /\ EdTypes /\ EdPathInv /\ EdReadInv /\ EdStartInv
      /\ EdDiskInv /\ EdDiffInv
  BY EdParts
<1> DEFINE save == [path |-> edPath, text |-> edModel, close |-> close,
                    stored |-> FALSE]
<1>2. /\ edView = "open" /\ ~EdSaving /\ edLoaded /\ edModel # NoText
      /\ edCount.saves < EdSaves
      /\ edCount' = [edCount EXCEPT !.saves = @ + 1]
      /\ edSave' = save
  BY DEF EdSaveBegins, EdShown, FileEditorText
<1>3. UNCHANGED <<edDisk, edView, edPath, edOriginal, edModel, edPending,
                  edLoaded, edOp, edReads, edStarts, edMonaco, edClosers,
                  edAsk, edStray, edBehind, edFailed, edDiff, edMode, edDiffView>>
  BY DEF EdSaveBegins, edDiffView, edDoubts
<1>4. EdStartsNow' <=> EdStartsNow
  BY <1>3, StartsSame
<1>5. edPath \in EdFiles /\ edModel \in EdTexts
  BY <1>1, <1>2 DEF EdTypes, EdPathInv
<1>6. /\ save \in EdSaveRecs /\ save.path = edPath /\ save.text = edModel
      /\ ~save.stored
  BY <1>5, SaveFacts
<1> HIDE DEF save
<1>7. EdTypes'
  <2>1. edCount' \in EdCounts
    BY <1>1, <1>2, EdCountFacts DEF EdTypes
  <2> QED BY <1>1, <1>2, <1>3, <1>6, <2>1 DEF EdTypes
<1>8. EdPathInv' /\ EdReadInv' /\ EdStartInv' /\ EdDiffInv'
  BY <1>1, <1>3, <1>4, PathFrame, ReadFrame, StartFrame, DiffFrame
<1>9. EdDiskInv'
  <2>1. ~EdStartsNow
    BY <1>1, <1>2 DEF EdStartInv
  <2>2. ~edSave'.stored /\ ~EdSavesPath
    BY <1>2, <1>6 DEF EdSavesPath
  <2> QED BY <1>1, <1>2, <1>3, <1>4, <2>1, <2>2 DEF EdDiskInv
<1> QED BY <1>7, <1>8, <1>9, EdPartsMake

LEMMA EdStoredKeeps ==
  ASSUME EdIInv, EdStored
  PROVE  EdIInv'
<1>1. /\ EdTypes /\ EdPathInv /\ EdReadInv /\ EdStartInv
      /\ EdDiskInv /\ EdDiffInv
  BY EdParts
<1>2. /\ EdSaving /\ edSave # NoSave /\ ~edSave.stored
      /\ edDisk' = [edDisk EXCEPT ![edSave.path] = edSave.text]
      /\ edSave' = [edSave EXCEPT !.stored = TRUE]
  BY DEF EdStored, EdSaving
<1>3. UNCHANGED <<edView, edPath, edOriginal, edModel, edPending, edLoaded,
                  edOp, edReads, edStarts, edMonaco, edClosers, edAsk, edStray,
                  edCount, edBehind, edFailed, edDiff, edMode, edDiffView>>
  BY DEF EdStored, edDiffView, edDoubts
<1>4. EdStartsNow' <=> EdStartsNow
  BY <1>3, StartsSame
<1>5. /\ edSave.path \in EdFiles /\ edSave.text \in EdTexts
      /\ edSave' \in EdSaveRecs /\ edSave' # NoSave
      /\ edSave'.path = edSave.path /\ edSave'.text = edSave.text
      /\ edSave'.stored
  BY <1>1, <1>2, SaveFacts DEF EdTypes
<1>6. /\ edDisk' \in [EdFiles -> EdTexts]
      /\ edDisk'[edSave.path] = edSave.text
      /\ \A f \in EdFiles : f # edSave.path => edDisk'[f] = edDisk[f]
  BY <1>1, <1>2, <1>5 DEF EdTypes
<1>7. EdTypes'
  BY ZenonT(40), <1>1, <1>3, <1>5, <1>6 DEF EdTypes
<1>8. EdPathInv' /\ EdReadInv' /\ EdStartInv' /\ EdDiffInv'
  BY <1>1, <1>3, <1>4, PathFrame, ReadFrame, StartFrame, DiffFrame
<1>9. EdDiskInv'
  <2>1. CASE edSave.path = edPath
    <3>1. EdSavesPath /\ EdSavesPath' /\ edDisk'[edPath] = edSave'.text
      BY <1>2, <1>3, <1>5, <1>6, <2>1 DEF EdSavesPath, EdSaving
    <3>2. edView = "open" /\ ~edBehind =>
            /\ edLoaded /\ edModel # NoText /\ ~EdStartsNow
            /\ \A read \in edReads : read.op # edOp
      BY <1>1, <3>1 DEF EdDiskInv, EdStartInv, EdReadInv
    <3> QED BY <1>1, <1>3, <1>4, <1>5, <3>1, <3>2 DEF EdDiskInv
  <2>2. CASE edSave.path # edPath
    <3>1. ~EdSavesPath /\ ~EdSavesPath'
      BY <1>3, <1>5, <2>2 DEF EdSavesPath
    <3>2. edView = "open" => edDisk'[edPath] = edDisk[edPath]
      BY <1>1, <1>6, <2>2 DEF EdPathInv
    <3> QED BY <1>1, <1>3, <1>4, <3>1, <3>2 DEF EdDiskInv
  <2> QED BY <2>1, <2>2
<1> QED BY <1>7, <1>8, <1>9, EdPartsMake

LEMMA EdSavedKeeps ==
  ASSUME EdIInv, EdSaved
  PROVE  EdIInv'
<1>1. /\ EdTypes /\ EdPathInv /\ EdReadInv /\ EdStartInv
      /\ EdDiskInv /\ EdDiffInv
  BY EdParts
<1>2. /\ EdSaving /\ edSave # NoSave /\ edSave.stored
      /\ edSave' = NoSave
      /\ edOriginal' = edSave.text
      /\ edDiff' = IF edDiff = NoText THEN NoText ELSE edSave.text
      /\ edClosers' = edClosers + (IF edSave.close THEN 1 ELSE 0)
      /\ SaveSettles
  BY DEF EdSaved, EdSaving
<1>3. UNCHANGED <<edDisk, edView, edPath, edModel, edPending, edLoaded, edOp,
                  edReads, edStarts, edMonaco, edAsk, edStray, edCount, edMode>>
  BY DEF EdSaved
<1>4. EdStartsNow' <=> EdStartsNow
  BY <1>3, StartsSame
<1>5. edSave.text \in EdTexts /\ edSave.text # NoText
  <2>1. edSave \in EdSaveRecs
    BY <1>1 DEF EdTypes
  <2>2. edSave.text \in EdTexts
    BY <1>2, <2>1, SaveFacts
  <2> QED BY <2>2, TextFacts
<1>6. EdTypes'
  <2>1. edClosers' \in Nat
    <3>1. edClosers \in Nat
      BY <1>1 DEF EdTypes
    <3>2. edClosers' = edClosers + 0 \/ edClosers' = edClosers + 1
      BY <1>2
    <3> QED BY <3>1, <3>2, CloserFacts
  <2>2. edSave' \in EdSaveRecs
    BY <1>2, SaveFacts
  <2>3. edBehind' \in BOOLEAN /\ edFailed' \subseteq EdTexts
    BY <1>1, <1>2 DEF SaveSettles, EdTypes, edDoubts
  <2> QED BY <1>1, <1>2, <1>3, <1>5, <2>1, <2>2, <2>3 DEF EdTypes
<1>7. EdPathInv' /\ EdReadInv' /\ EdStartInv'
  BY <1>1, <1>3, PathFrame, ReadFrame, StartFrame
<1>8. EdDiskInv'
  <2> SUFFICES ASSUME edView = "open", ~edBehind' PROVE EdDiskInv'
    BY <1>3 DEF EdDiskInv
  <2>1. ~EdSavesPath'
    BY <1>2 DEF EdSavesPath, EdSaving
  <2>2. CASE ~edLoaded \/ edModel = NoText
    <3>1. UNCHANGED <<edBehind, edFailed>>
      BY <1>2, <2>2 DEF SaveSettles, edDoubts
    <3> QED BY <1>1, <1>3, <1>4, <2>1, <2>2, <3>1 DEF EdDiskInv
  <2>3. CASE edLoaded /\ edModel # NoText
    <3>1. edSave.path = edPath
      BY <1>2, <2>3 DEF SaveSettles
    <3>2. EdSavesPath /\ ~EdStartsNow
      BY <1>1, <1>2, <2>3, <3>1 DEF EdSavesPath, EdStartInv
    <3>3. \A read \in edReads : read.op # edOp
      BY <1>1, <2>3 DEF EdReadInv
    <3>4. CASE edDisk[edPath] # edSave.text
      <4>1. UNCHANGED <<edBehind, edFailed>>
        BY <1>2, <2>3, <3>1, <3>4 DEF SaveSettles, edDoubts
      <4> QED BY <1>1, <1>2, <1>3, <1>4, <2>1, <2>3, <3>2, <3>3, <3>4, <4>1
              DEF EdDiskInv
    <3>5. CASE edDisk[edPath] = edSave.text
      <4> DEFINE coming == {stray \in edStray : stray[1] = edPath}
      <4>1. /\ edBehind' = (edBehind /\ coming # {})
            /\ edFailed' = edFailed \cap {stray[2] : stray \in coming}
        BY <1>2, <2>3, <3>1, <3>5 DEF SaveSettles
      <4>2. \A stray \in edStray : stray[1] = edPath => stray[2] \in edFailed'
        <5>1. CASE coming = {}
          BY <5>1
        <5>2. CASE ~edBehind
          BY <1>1, <4>1, <5>2 DEF EdDiskInv
        <5> QED BY <4>1, <5>1, <5>2
      <4> HIDE DEF coming
      <4> QED BY <1>2, <1>3, <1>4, <2>1, <2>3, <3>2, <3>3, <3>5, <4>2
              DEF EdDiskInv
    <3> QED BY <3>4, <3>5
  <2> QED BY <2>2, <2>3
<1>9. EdDiffInv'
  BY <1>1, <1>2, <1>3, <1>4, <1>5 DEF EdDiffInv
<1> QED BY <1>6, <1>7, <1>8, <1>9, EdPartsMake

LEMMA EdSaveFailsKeeps ==
  ASSUME EdIInv, EdSaveFails
  PROVE  EdIInv'
<1>1. /\ EdTypes /\ EdPathInv /\ EdReadInv /\ EdStartInv
      /\ EdDiskInv /\ EdDiffInv
  BY EdParts
<1>2. /\ EdSaving /\ edSave # NoSave /\ edSave' = NoSave
      /\ \/ ~edSave.stored /\ UNCHANGED <<edStray, edFailed>>
         \/ /\ edStray' = edStray \cup (IF edSave.stored THEN {}
                                        ELSE {<<edSave.path, edSave.text>>})
            /\ edFailed' = edFailed \cup (IF edSave.path = edPath
                                          THEN {edSave.text} ELSE {})
  BY DEF EdSaveFails, EdSaving
<1>3. UNCHANGED <<edDisk, edView, edPath, edOriginal, edModel, edPending,
                  edLoaded, edOp, edReads, edStarts, edMonaco, edClosers,
                  edAsk, edCount, edBehind, edDiff, edMode, edDiffView>>
  BY DEF EdSaveFails, edDiffView
<1>4. EdStartsNow' <=> EdStartsNow
  BY <1>3, StartsSame
<1> DEFINE late == <<edSave.path, edSave.text>>
<1>5. /\ edSave.path \in EdFiles /\ edSave.text \in EdTexts
      /\ late \in EdFiles \X EdTexts
      /\ late[1] = edSave.path /\ late[2] = edSave.text
  BY <1>1, <1>2, SaveFacts, StrayFacts DEF EdTypes
<1>6. edStray' \subseteq edStray \cup {late} /\ edFailed \subseteq edFailed'
  BY <1>2
<1>7. edStray' # edStray /\ edSave.path = edPath => edSave.text \in edFailed'
  BY <1>2
<1>8. edFailed' # edFailed => edSave.path = edPath /\ edFailed' \subseteq EdTexts
  BY <1>1, <1>2, <1>5 DEF EdTypes
<1> HIDE DEF late
<1>9. EdTypes'
  <2>1. edStray' \subseteq EdFiles \X EdTexts /\ edFailed' \subseteq EdTexts
    BY <1>1, <1>5, <1>6, <1>8 DEF EdTypes
  <2> QED BY ZenonT(40), <1>1, <1>2, <1>3, <2>1, SaveFacts DEF EdTypes
<1>10. EdPathInv' /\ EdReadInv' /\ EdStartInv' /\ EdDiffInv'
  BY <1>1, <1>3, <1>4, PathFrame, ReadFrame, StartFrame, DiffFrame
<1>11. EdDiskInv'
  <2> SUFFICES ASSUME edView = "open", ~edBehind PROVE EdDiskInv'
    BY <1>3 DEF EdDiskInv
  <2>1. ~EdSavesPath' /\ (EdSavesPath <=> edSave.path = edPath)
    BY <1>2 DEF EdSavesPath, EdSaving
  <2>2. \A stray \in edStray' : stray[1] = edPath => stray[2] \in edFailed'
    BY <1>1, <1>5, <1>6, <1>7 DEF EdDiskInv
  <2>3. ~edLoaded \/ edModel = NoText => edFailed' = {}
    BY <1>1, <1>8, <2>1 DEF EdDiskInv
  <2>4. EdSavesPath /\ edSave.stored => edDisk[edPath] \in edFailed'
    <3>1. EdSavesPath /\ edSave.stored => edSave.text \in edFailed'
      BY <1>2, <2>1
    <3> QED BY <1>1, <1>6, <3>1 DEF EdDiskInv
  <2> QED BY <1>1, <1>3, <1>4, <1>6, <2>1, <2>2, <2>3, <2>4 DEF EdDiskInv
<1> QED BY <1>9, <1>10, <1>11, EdPartsMake

(* Whatever closes the editor.                                             *)
LEMMA CloseKeeps ==
  ASSUME EdIInv, CloseEditor,
         UNCHANGED <<edDisk, edPath, edOriginal, edReads, edStarts, edMonaco,
                     edCount, edDoubts>>,
         edClosers' \in Nat, edAsk' \in BOOLEAN
  PROVE  EdIInv'
<1>1. /\ EdTypes /\ EdPathInv /\ EdReadInv /\ EdStartInv
      /\ EdDiskInv /\ EdDiffInv
  BY EdParts
<1>2. /\ edView' = "closing" /\ edOp' = edOp + 1
      /\ edModel' = NoText /\ edPending' = NoText
      /\ edDiff' = NoText /\ edMode' = "edit" /\ edLoaded' = FALSE
  BY DEF CloseEditor
<1>3. /\ edSave' = NoSave \/ edSave' = edSave
      /\ edStray' \subseteq edStray \cup {<<edSave.path, edSave.text>>}
      /\ ~EdSaving => edStray' = edStray
  BY DEF CloseEditor
<1>4. edOp \in Nat /\ edOp + 1 \in Nat
  BY <1>1, OpFacts DEF EdTypes
<1>5. \A read \in edReads : read.op <= edOp + 1 /\ read.op # edOp + 1
  BY <1>1, <1>4, ReadFacts, OpFacts DEF EdTypes, EdReadInv
<1>6. \A start \in edStarts : start.op <= edOp + 1 /\ start.op # edOp + 1
  BY <1>1, <1>4, StartFacts, OpFacts DEF EdTypes, EdStartInv
<1>7. EdSaving => /\ edSave.path \in EdFiles /\ edSave.text \in EdTexts
  BY <1>1, SaveFacts DEF EdTypes, EdSaving
<1>8. edStray' \subseteq EdFiles \X EdTexts
  <2>1. edStray \subseteq EdFiles \X EdTexts
    BY <1>1 DEF EdTypes
  <2>2. EdSaving => <<edSave.path, edSave.text>> \in EdFiles \X EdTexts
    BY <1>7, StrayFacts
  <2> QED BY <1>3, <2>1, <2>2
<1>9. EdTypes'
  <2>1. edSave' \in EdSaveRecs
    <3>1. edSave \in EdSaveRecs
      BY <1>1 DEF EdTypes
    <3> QED BY <1>3, <3>1, SaveFacts
  <2> QED BY <1>1, <1>2, <1>4, <1>8, <2>1 DEF EdTypes, edDoubts
<1>10. EdPathInv'
  BY <1>2 DEF EdPathInv
<1>11. EdReadInv'
  BY <1>1, <1>2, <1>5 DEF EdReadInv
<1>12. EdStartInv'
  BY <1>1, <1>2, <1>6 DEF EdStartInv
<1>13. EdDiskInv' /\ EdDiffInv'
  BY <1>2 DEF EdDiskInv, EdDiffInv
<1> QED BY <1>9, <1>10, <1>11, <1>12, <1>13, EdPartsMake

LEMMA EdCloseAfterSaveKeeps ==
  ASSUME EdIInv, EdCloseAfterSave
  PROVE  EdIInv'
<1>1. /\ EdTypes /\ EdPathInv /\ EdReadInv /\ EdStartInv
      /\ EdDiskInv /\ EdDiffInv
  BY EdParts
<1>2. edClosers' \in Nat
  <2>1. edClosers \in Nat
    BY <1>1 DEF EdTypes
  <2>2. edClosers > 0 /\ edClosers' = edClosers - 1
    BY DEF EdCloseAfterSave
  <2> QED BY <2>1, <2>2, CloserFacts
<1>3. edAsk' \in BOOLEAN
  BY <1>1 DEF EdTypes, EdCloseAfterSave
<1> QED BY <1>2, <1>3, CloseKeeps DEF EdCloseAfterSave

(* A question is asked or answered, and the editor stays.                  *)
LEMMA AskKeeps ==
  ASSUME EdIInv, edAsk' \in BOOLEAN,
         UNCHANGED <<edView, edOp, edModel, edPending, edLoaded, edSave,
                     edStray, edDiffView>>,
         UNCHANGED <<edDisk, edPath, edOriginal, edReads, edStarts, edMonaco,
                     edClosers, edCount, edDoubts>>
  PROVE  EdIInv'
<1>1. /\ EdTypes /\ EdPathInv /\ EdReadInv /\ EdStartInv
      /\ EdDiskInv /\ EdDiffInv
  BY EdParts
<1>2. /\ UNCHANGED <<edDiff, edMode, edBehind, edFailed>>
      /\ EdStartsNow' <=> EdStartsNow
  BY StartsSame DEF edDiffView, edDoubts
<1>3. EdTypes'
  BY <1>1, <1>2 DEF EdTypes
<1>4. EdPathInv' /\ EdReadInv' /\ EdStartInv'
  BY <1>1, PathFrame, ReadFrame, StartFrame
<1>5. EdDiskInv' /\ EdDiffInv'
  BY <1>1, <1>2, DiskFrame, DiffFrame
<1> QED BY <1>3, <1>4, <1>5, EdPartsMake

LEMMA EdTryCloseKeeps ==
  ASSUME EdIInv, EdTryClose
  PROVE  EdIInv'
<1>1. /\ EdTypes /\ EdPathInv /\ EdReadInv /\ EdStartInv
      /\ EdDiskInv /\ EdDiffInv
  BY EdParts
<1>2. edAsk' \in BOOLEAN
  BY <1>1 DEF EdTypes, EdTryClose
<1>3. edClosers' \in Nat
  BY <1>1 DEF EdTypes, EdTryClose
<1> QED BY <1>2, <1>3, CloseKeeps, AskKeeps DEF EdTryClose

LEMMA EdAnswerKeeps ==
  ASSUME EdIInv, NEW leave \in BOOLEAN, EdAnswer(leave)
  PROVE  EdIInv'
<1>1. /\ EdTypes /\ EdPathInv /\ EdReadInv /\ EdStartInv
      /\ EdDiskInv /\ EdDiffInv
  BY EdParts
<1>2. edAsk' \in BOOLEAN
  BY DEF EdAnswer
<1>3. edClosers' \in Nat
  BY <1>1 DEF EdTypes, EdAnswer
<1> QED BY <1>2, <1>3, CloseKeeps, AskKeeps DEF EdAnswer

LEMMA EdHiddenKeeps ==
  ASSUME EdIInv, EdHidden
  PROVE  EdIInv'
<1>1. /\ EdTypes /\ EdPathInv /\ EdReadInv /\ EdStartInv
      /\ EdDiskInv /\ EdDiffInv
  BY EdParts
<1>2. /\ edView = "closing" /\ edView' = "hidden"
      /\ edPath' = "" /\ edOriginal' = Empty
  BY DEF EdHidden
<1>3. UNCHANGED <<edDisk, edModel, edPending, edLoaded, edOp, edReads,
                  edStarts, edMonaco, edSave, edClosers, edAsk, edStray,
                  edCount, edBehind, edFailed, edDiff, edMode>>
  BY DEF EdHidden, edDiffView, edDoubts
<1>4. edModel = NoText /\ edPending = NoText /\ ~edLoaded
  BY <1>1, <1>2 DEF EdPathInv
<1>5. /\ \A read \in edReads : read.op # edOp
      /\ \A start \in edStarts : start.op # edOp
  BY <1>1, <1>2 DEF EdReadInv, EdStartInv
<1>6. EdTypes'
  BY <1>1, <1>2, <1>3, TextFacts DEF EdTypes
<1>7. EdPathInv' /\ EdDiskInv'
  BY <1>2, <1>3, <1>4 DEF EdPathInv, EdDiskInv
<1>8. EdReadInv' /\ EdStartInv'
  BY <1>1, <1>3, <1>4, <1>5 DEF EdReadInv, EdStartInv
<1>9. EdDiffInv'
  BY <1>1, <1>3, <1>4 DEF EdDiffInv
<1> QED BY <1>6, <1>7, <1>8, <1>9, EdPartsMake

LEMMA EdStrayStoredKeeps ==
  ASSUME EdIInv, EdStrayStored
  PROVE  EdIInv'
<1>1. /\ EdTypes /\ EdPathInv /\ EdReadInv /\ EdStartInv
      /\ EdDiskInv /\ EdDiffInv
  BY EdParts
<1>2. PICK stray \in edStray :
        /\ edDisk' = [edDisk EXCEPT ![stray[1]] = stray[2]]
        /\ edStray' \in {edStray, edStray \ {stray}}
  BY DEF EdStrayStored
<1>3. UNCHANGED <<edView, edPath, edOriginal, edModel, edPending, edLoaded,
                  edOp, edReads, edStarts, edMonaco, edSave, edClosers, edAsk,
                  edCount, edBehind, edFailed, edDiff, edMode, edDiffView>>
  BY DEF EdStrayStored, edDiffView, edDoubts
<1>4. EdStartsNow' <=> EdStartsNow
  BY <1>3, StartsSame
<1>5. /\ stray[1] \in EdFiles /\ stray[2] \in EdTexts
      /\ edStray' \subseteq edStray
  BY <1>1, <1>2, StrayFacts DEF EdTypes
<1>6. /\ edDisk' \in [EdFiles -> EdTexts]
      /\ edDisk'[stray[1]] = stray[2]
      /\ \A f \in EdFiles : f # stray[1] => edDisk'[f] = edDisk[f]
  BY <1>1, <1>2, <1>5 DEF EdTypes
<1>7. EdTypes'
  <2>1. edStray' \subseteq EdFiles \X EdTexts
    BY <1>1, <1>5 DEF EdTypes
  <2> QED BY ZenonT(40), <1>1, <1>3, <1>6, <2>1 DEF EdTypes
<1>8. EdPathInv' /\ EdReadInv' /\ EdStartInv' /\ EdDiffInv'
  BY <1>1, <1>3, <1>4, PathFrame, ReadFrame, StartFrame, DiffFrame
<1>9. EdDiskInv'
  <2> SUFFICES ASSUME edView = "open", ~edBehind PROVE EdDiskInv'
    BY <1>3 DEF EdDiskInv
  <2>1. edPath \in EdFiles
    BY <1>1 DEF EdPathInv
  <2>2. \/ edDisk'[edPath] = edDisk[edPath]
        \/ edDisk'[edPath] \in edFailed /\ edFailed # {}
    BY <1>1, <1>2, <1>6, <2>1 DEF EdDiskInv
  <2>3. EdSavesPath' <=> EdSavesPath
    BY <1>3 DEF EdSavesPath, EdSaving
  <2>4. CASE edDisk'[edPath] = edDisk[edPath]
    BY <1>1, <1>3, <1>4, <1>5, <2>3, <2>4 DEF EdDiskInv
  <2>5. CASE edDisk'[edPath] \in edFailed /\ edFailed # {}
    <3>1. edLoaded /\ edModel # NoText
      BY <1>1, <2>5 DEF EdDiskInv
    <3>2. ~EdStartsNow /\ \A read \in edReads : read.op # edOp
      BY <1>1, <3>1 DEF EdStartInv, EdReadInv
    <3> QED BY <1>1, <1>3, <1>4, <1>5, <2>3, <2>5, <3>1, <3>2 DEF EdDiskInv
  <2> QED BY <2>2, <2>4, <2>5
<1> QED BY <1>7, <1>8, <1>9, EdPartsMake

-----------------------------------------------------------------------------
LEMMA EdStep == EdIInv /\ [EdNext]_edVars => EdIInv'
<1> SUFFICES ASSUME EdIInv, [EdNext]_edVars PROVE EdIInv'
  OBVIOUS
<1>1. CASE UNCHANGED edVars
  <2>1. /\ UNCHANGED <<edView, edOp, edModel, edPending, edLoaded, edSave,
                       edStray, edDiffView>>
        /\ UNCHANGED <<edDisk, edPath, edOriginal, edReads, edStarts, edMonaco,
                       edClosers, edCount, edDoubts>>
        /\ UNCHANGED edAsk
    BY <1>1 DEF edVars, edDiffView, edDoubts
  <2>2. edAsk' \in BOOLEAN
    BY <2>1, EdParts DEF EdTypes
  <2> QED BY <2>1, <2>2, AskKeeps
<1>2. CASE EdNext
  BY <1>2, EdOpenKeeps, EdReadFileKeeps, EdContentArrivesKeeps,
     EdReadFailsKeeps, EdMonacoStartsKeeps, EdMonacoFailsKeeps,
     EdToggleDiffKeeps, EdEditKeeps, EdSaveBeginsKeeps, EdStoredKeeps,
     EdSavedKeeps, EdSaveFailsKeeps, EdCloseAfterSaveKeeps, EdTryCloseKeeps,
     EdAnswerKeeps, EdHiddenKeeps, EdStrayStoredKeeps DEF EdNext
<1> QED BY <1>1, <1>2

\* The inductive invariant of the text editor (fileEditorModal.js).
THEOREM EditorInvariant == EdSpec => []EdIInv
<1> QED BY EdStartsOK, EdStep, PTL DEF EdSpec

\* Type correctness of the text editor.
THEOREM EditorTypes == EdSpec => []EdTypeOK
<1>1. EdIInv => EdTypeOK
  BY DEF EdIInv
<1> QED BY <1>1, EditorInvariant, PTL

\* Content the editor calls unchanged is in the file, and its diff counts from
\* the text last read or saved (isFileEditorDirty, applyFileEditorViewMode).
THEOREM ChangesAreHonest == EdSpec => []EdChangesHonest
<1>1. ASSUME EdIInv PROVE EdCleanIsSaved
  <2>1. EdDiskInv
    BY <1>1, EdParts
  <2>2. ASSUME edView = "open", edLoaded, edModel # NoText,
               ~IsFileEditorDirty, ~EdSaving, ~edBehind
        PROVE  edDisk[edPath] = edModel \/ edDisk[edPath] \in edFailed
    <3>1. edOriginal = edModel
      BY <2>2 DEF IsFileEditorDirty, FileEditorText
    <3>2. ~EdSavesPath
      BY <2>2 DEF EdSavesPath
    <3> QED BY <2>1, <2>2, <3>1, <3>2 DEF EdDiskInv
  <2> QED BY <2>2 DEF EdCleanIsSaved, EdShown
<1>2. ASSUME EdIInv PROVE EdDiffHonest
  BY <1>2 DEF EdIInv, EdDiffInv, EdDiffHonest
<1>3. EdIInv => EdChangesHonest
  BY <1>1, <1>2 DEF EdChangesHonest
<1> QED BY <1>3, EditorInvariant, PTL

=============================================================================
