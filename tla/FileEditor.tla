----------------------------- MODULE FileEditor -----------------------------
(***************************************************************************)
(* The text editor of the web panel (module/fileEditorModal.js) and how it *)
(* reads and saves a file (api/file.js): reading and the start of Monaco   *)
(* run side by side, a save goes on while the user types, closes the       *)
(* editor or opens another file.                                           *)
(*                                                                         *)
(* A text is a member of a small set: any file may hold any of them, and   *)
(* typing, undoing and pasting lead from any one to any other.             *)
(***************************************************************************)
EXTENDS Naturals, FiniteSets

CONSTANTS EdFiles,   \* files
          EdLarge,   \* those whose content is saved by an upload (over 9 MiB)
          EdTexts,   \* texts, the empty one among them
          EdOpens,   \* bound: openings of the editor
          EdEdits,   \* bound: edits
          EdSaves    \* bound: saves

ASSUME EdAssumption == /\ EdLarge \subseteq EdFiles
                       /\ "" \notin EdFiles
                       /\ "" \in EdTexts /\ "none" \notin EdTexts
                       /\ EdOpens \in Nat /\ EdEdits \in Nat /\ EdSaves \in Nat

VARIABLES
  edDisk,     \* the files as the daemon's host has them
  edView,     \* "hidden", "open" or "closing" (the 280 ms of the animation)
  edPath,     \* editingFilePath
  edOriginal, \* originalFileContent, the baseline of isFileEditorDirty
  edModel,    \* text of monacoModel, or NoText when there is no model
  edDiff,     \* text of monacoOriginalModel, the left side of the diff, or NoText
  edMode,     \* fileEditorViewMode
  edPending,  \* pendingInitialContent, or NoText
  edLoaded,   \* fileEditorContentLoaded
  edOp,       \* fileEditorOpSeq (fileEditorMonacoInitSeq moves with it)
  edReads,    \* reads under way: [op, path, text]; text is read at the host
  edStarts,   \* Monaco starts under way: [op, path]
  edMonaco,   \* the Monaco runtime is loaded
  edSave,     \* the save under way, or NoSave
  edClosers,  \* saved with closeOnSuccess, the file list being read again
  edAsk,      \* the question whether to leave unsaved content is open
  edStray,    \* given up saves the host may still complete: <<file, text>>
  edBehind,   \* history: this opening overlaps an earlier write of its file, or
              \* its baseline is what another file's save answered
  edFailed,   \* history: texts whose save from this opening ended as failed, and
              \* which the host has stored or may still store
  edCount     \* history: openings, edits and saves so far

edVars == <<edDisk, edView, edPath, edOriginal, edModel, edPending, edLoaded,
            edOp, edReads, edStarts, edMonaco, edSave, edClosers, edAsk,
            edStray, edBehind, edFailed, edCount, edDiff, edMode>>
edDiffView == <<edDiff, edMode>>
edDoubts == <<edBehind, edFailed>>

Empty == ""
NoText == "none"
NoSave == [path |-> "", text |-> NoText, close |-> FALSE, stored |-> FALSE]

EdTypeOK ==
  /\ edDisk \in [EdFiles -> EdTexts]
  /\ edView \in {"hidden", "open", "closing"}
  /\ edPath \in EdFiles \cup {""}
  /\ edOriginal \in EdTexts
  /\ edModel \in EdTexts \cup {NoText}
  /\ edPending \in EdTexts \cup {NoText}
  /\ edDiff \in EdTexts \cup {NoText}
  /\ edMode \in {"edit", "diff"}
  /\ edLoaded \in BOOLEAN
  /\ edOp \in Nat
  /\ edReads \subseteq [op : Nat, path : EdFiles, text : EdTexts \cup {NoText}]
  /\ edStarts \subseteq [op : Nat, path : EdFiles]
  /\ edMonaco \in BOOLEAN
  /\ edSave \in {NoSave} \cup [path : EdFiles, text : EdTexts, close : BOOLEAN,
                               stored : BOOLEAN]
  /\ edClosers \in Nat
  /\ edAsk \in BOOLEAN
  /\ edStray \subseteq EdFiles \X EdTexts
  /\ edBehind \in BOOLEAN
  /\ edFailed \subseteq EdTexts
  /\ edCount \in [opens : 0 .. EdOpens, edits : 0 .. EdEdits,
                  saves : 0 .. EdSaves]

EdInit ==
  /\ edDisk \in [EdFiles -> EdTexts]
  /\ edView = "hidden" /\ edPath = "" /\ edOriginal = Empty
  /\ edModel = NoText /\ edPending = NoText /\ edLoaded = FALSE
  /\ edOp = 0 /\ edReads = {} /\ edStarts = {} /\ edMonaco = FALSE
  /\ edSave = NoSave /\ edClosers = 0 /\ edAsk = FALSE /\ edStray = {}
  /\ edBehind = FALSE /\ edFailed = {}
  /\ edDiff = NoText /\ edMode = "edit"
  /\ edCount = [opens |-> 0, edits |-> 0, saves |-> 0]

EdShown == edView = "open"
EdSaving == edSave # NoSave
FileEditorText == IF edModel # NoText THEN edModel ELSE edOriginal
IsFileEditorDirty == FileEditorText # edOriginal

-----------------------------------------------------------------------------
(* openFileEditorModal.  Two questions about a large file may be queued, so *)
(* it can happen while the editor is open.  The read and the start of       *)
(* Monaco begin together.                                                   *)
EdOpen(f) ==
  /\ edCount.opens < EdOpens
  /\ edCount' = [edCount EXCEPT !.opens = @ + 1]
  /\ ~edAsk
  /\ edView' = "open"
  /\ edOp' = edOp + 1
  /\ edPath' = f
  /\ edOriginal' = Empty
  /\ edPending' = NoText
  /\ edLoaded' = FALSE
  /\ edMode' = "edit"
  /\ edReads' = edReads \cup {[op |-> edOp + 1, path |-> f, text |-> NoText]}
  /\ edStarts' = edStarts \cup {[op |-> edOp + 1, path |-> f]}
  /\ edBehind' = (edSave.path = f \/ \E stray \in edStray : stray[1] = f)
  /\ edFailed' = {}
  /\ UNCHANGED <<edDisk, edModel, edDiff, edMonaco, edSave, edClosers, edAsk,
                 edStray>>

(* The host answers a read with the content of that moment. *)
EdReadFile ==
  \E read \in edReads :
    /\ read.text = NoText
    /\ edReads' = (edReads \ {read})
                    \cup {[read EXCEPT !.text = edDisk[read.path]]}
    /\ UNCHANGED <<edDisk, edView, edPath, edOriginal, edModel, edPending,
                   edLoaded, edOp, edStarts, edMonaco, edSave, edClosers,
                   edAsk, edStray, edCount, edDoubts,
                 edDiffView>>

(* loadFileContentIntoEditor, after the answer.  The content becomes the    *)
(* baseline and goes into the model, or waits for it.  With Monaco loaded   *)
(* the start of the same opening, a timer of 0 ms, has run before.          *)
EdContentArrives ==
  \E read \in edReads :
    /\ read.text # NoText
    /\ edMonaco => ~\E start \in edStarts : start.op = read.op
    /\ edReads' = edReads \ {read}
    /\ IF read.op # edOp
         THEN UNCHANGED <<edPath, edOriginal, edModel, edPending, edLoaded>>
         ELSE /\ edPath' = read.path
              /\ edOriginal' = read.text
              /\ IF edModel = NoText
                   THEN edPending' = read.text /\ UNCHANGED edModel
                   ELSE edModel' = read.text /\ UNCHANGED edPending
              /\ edLoaded' = TRUE
    /\ UNCHANGED <<edDisk, edView, edOp, edStarts, edMonaco, edSave, edClosers,
                   edAsk, edStray, edCount, edDoubts,
                 edDiffView>>

(* The file cannot be read: the editor stays empty and unsaveable. *)
EdReadFails ==
  \E read \in edReads :
    /\ read.text = NoText
    /\ edReads' = edReads \ {read}
    /\ UNCHANGED <<edDisk, edView, edPath, edOriginal, edModel, edPending,
                   edLoaded, edOp, edStarts, edMonaco, edSave, edClosers,
                   edAsk, edStray, edCount, edDoubts,
                 edDiffView>>

(* The start of Monaco for the last opening: the model is made from the     *)
(* content that waited, or empty, and becomes the baseline.                 *)
EdMonacoStarts ==
  \E start \in edStarts :
    /\ edStarts' = edStarts \ {start}
    /\ edMonaco' = TRUE
    /\ IF start.op # edOp \/ edView = "hidden"
         THEN UNCHANGED <<edModel, edOriginal, edDiffView>>
         ELSE LET text == IF edPending # NoText THEN edPending ELSE Empty
              IN /\ edModel' = text /\ edOriginal' = text
                 /\ edDiff' = NoText /\ edMode' = "edit"
    /\ UNCHANGED <<edDisk, edView, edPath, edPending, edLoaded, edOp, edReads,
                   edSave, edClosers, edAsk, edStray, edCount, edDoubts>>

(* Loading Monaco fails for those that wait for it; the next opening tries  *)
(* again.                                                                   *)
EdMonacoFails ==
  /\ ~edMonaco
  /\ \E failed \in SUBSET edStarts \ {{}} : edStarts' = edStarts \ failed
  /\ UNCHANGED <<edDisk, edView, edPath, edOriginal, edModel, edPending,
                 edLoaded, edOp, edReads, edMonaco, edSave, edClosers, edAsk,
                 edStray, edCount, edDoubts,
                 edDiffView>>

(* applyFileEditorViewMode: the left side of the diff is made once, from    *)
(* the baseline of that moment.                                             *)
EdToggleDiff ==
  /\ EdShown /\ ~edAsk
  /\ edLoaded /\ edModel # NoText
  /\ edMode' = IF edMode = "edit" THEN "diff" ELSE "edit"
  /\ edDiff' = IF edMode = "edit" /\ edDiff = NoText THEN edOriginal ELSE edDiff
  /\ UNCHANGED <<edDisk, edView, edPath, edOriginal, edModel, edPending,
                 edLoaded, edOp, edReads, edStarts, edMonaco, edSave,
                 edClosers, edAsk, edStray, edCount, edDoubts>>

(* Typing, undoing or pasting, in the editor or in the modified side of the  *)
(* diff; the editor is read-only until the content is there, and stays       *)
(* writable during a save.                                                   *)
EdEdit ==
  /\ EdShown /\ ~edAsk
  /\ edModel # NoText /\ edLoaded
  /\ edCount.edits < EdEdits
  /\ edCount' = [edCount EXCEPT !.edits = @ + 1]
  /\ \E text \in EdTexts \ {edModel} : edModel' = text
  /\ UNCHANGED <<edDisk, edView, edPath, edOriginal, edPending, edLoaded, edOp,
                 edReads, edStarts, edMonaco, edSave, edClosers, edAsk, edStray, edDoubts,
                 edDiffView>>

(* saveFileEditorContent up to the request.  The SAVE button closes the     *)
(* editor on success, the keyboard command does not.                        *)
EdSaveBegins(close) ==
  /\ EdShown /\ ~edAsk
  /\ ~EdSaving /\ edLoaded /\ edModel # NoText /\ edPath # ""
  /\ edCount.saves < EdSaves
  /\ edCount' = [edCount EXCEPT !.saves = @ + 1]
  /\ edSave' = [path |-> edPath, text |-> FileEditorText, close |-> close,
                stored |-> FALSE]
  /\ UNCHANGED <<edDisk, edView, edPath, edOriginal, edModel, edPending,
                 edLoaded, edOp, edReads, edStarts, edMonaco, edClosers, edAsk,
                 edStray, edDoubts,
                 edDiffView>>

(* The host has written the file; the answer is on its way. *)
EdStored ==
  /\ EdSaving /\ ~edSave.stored
  /\ edDisk' = [edDisk EXCEPT ![edSave.path] = edSave.text]
  /\ edSave' = [edSave EXCEPT !.stored = TRUE]
  /\ UNCHANGED <<edView, edPath, edOriginal, edModel, edPending, edLoaded,
                 edOp, edReads, edStarts, edMonaco, edClosers, edAsk, edStray,
                 edCount, edDoubts,
                 edDiffView>>

(* What a successful save says of the content shown: its own file holds the  *)
(* baseline again, up to saves the host may still complete, and the answer   *)
(* of another file's save leaves a baseline that is not of this file.        *)
SaveSettles ==
  IF ~edLoaded \/ edModel = NoText THEN UNCHANGED edDoubts
  ELSE IF edSave.path # edPath THEN edBehind' = TRUE /\ UNCHANGED edFailed
  ELSE IF edDisk[edPath] # edSave.text THEN UNCHANGED edDoubts
  ELSE LET coming == {stray \in edStray : stray[1] = edPath}
       IN /\ edBehind' = (edBehind /\ coming # {})
          /\ edFailed' = edFailed \cap {stray[2] : stray \in coming}

\* Variant: the text of now counts as saved.
EdSavedCurrent ==
  /\ EdSaving /\ edSave.stored
  /\ edSave' = NoSave
  /\ edOriginal' = FileEditorText
  /\ edDiff' = IF edDiff = NoText THEN NoText ELSE edSave.text
  /\ edClosers' = edClosers + (IF edSave.close THEN 1 ELSE 0)
  /\ SaveSettles
  /\ UNCHANGED <<edDisk, edView, edPath, edModel, edPending, edLoaded, edOp,
                 edReads, edStarts, edMonaco, edAsk, edStray, edCount, edMode>>

(* The answer: the saved text is the new baseline, of whatever file is open *)
(* now.                                                                     *)
EdSaved ==
  /\ EdSaving /\ edSave.stored
  /\ edSave' = NoSave
  /\ edOriginal' = edSave.text
  /\ edDiff' = IF edDiff = NoText THEN NoText ELSE edSave.text
  /\ edClosers' = edClosers + (IF edSave.close THEN 1 ELSE 0)
  /\ SaveSettles
  /\ UNCHANGED <<edDisk, edView, edPath, edModel, edPending, edLoaded, edOp,
                 edReads, edStarts, edMonaco, edAsk, edStray, edCount, edMode>>

(* The save ends as failed, and the baseline stays.  The host refused it, or *)
(* only its answer was lost: then the text is stored, or may still be.       *)
EdSaveFails ==
  /\ EdSaving
  /\ edSave' = NoSave
  /\ \/ ~edSave.stored /\ UNCHANGED <<edStray, edFailed>>
     \/ /\ edStray' = edStray \cup (IF edSave.stored THEN {}
                                   ELSE {<<edSave.path, edSave.text>>})
        /\ edFailed' = edFailed \cup (IF edSave.path = edPath
                                     THEN {edSave.text} ELSE {})
  /\ UNCHANGED <<edDisk, edView, edPath, edOriginal, edModel, edPending,
                 edLoaded, edOp, edReads, edStarts, edMonaco, edClosers, edAsk,
                 edCount, edBehind, edDiffView>>

(* closeFileEditorModal.  A save by upload is aborted, which the host may    *)
(* not notice in time; a save by the JSON call goes on.                      *)
CloseEditor ==
  /\ edView' = "closing"
  /\ edOp' = edOp + 1
  /\ edModel' = NoText /\ edPending' = NoText
  /\ edDiff' = NoText /\ edMode' = "edit"
  /\ edLoaded' = FALSE
  /\ IF EdSaving /\ edSave.path \in EdLarge
       THEN /\ edSave' = NoSave
            /\ edStray' = edStray \cup
                 (IF edSave.stored THEN {} ELSE {<<edSave.path, edSave.text>>})
       ELSE UNCHANGED <<edSave, edStray>>

(* After a save with closeOnSuccess and the reading of the list. *)
EdCloseAfterSave ==
  /\ edClosers > 0
  /\ edClosers' = edClosers - 1
  /\ CloseEditor
  /\ UNCHANGED <<edDisk, edPath, edOriginal, edReads, edStarts, edMonaco,
                 edAsk, edCount, edDoubts>>

(* tryCloseFileEditorModal: clean content goes at once, other content after *)
(* a question.                                                              *)
EdTryClose ==
  /\ EdShown /\ ~edAsk
  /\ IF IsFileEditorDirty
       THEN /\ edAsk' = TRUE
            /\ UNCHANGED <<edView, edOp, edModel, edPending, edLoaded, edSave,
                           edStray, edDiffView>>
       ELSE CloseEditor /\ UNCHANGED edAsk
  /\ UNCHANGED <<edDisk, edPath, edOriginal, edReads, edStarts, edMonaco,
                 edClosers, edCount, edDoubts>>

EdAnswer(leave) ==
  /\ edAsk
  /\ edAsk' = FALSE
  /\ IF leave THEN CloseEditor
     ELSE UNCHANGED <<edView, edOp, edModel, edPending, edLoaded, edSave,
                      edStray, edDiffView>>
  /\ UNCHANGED <<edDisk, edPath, edOriginal, edReads, edStarts, edMonaco,
                 edClosers, edCount, edDoubts>>

(* The end of the closing animation, unless another opening cancelled it. *)
EdHidden ==
  /\ edView = "closing"
  /\ edView' = "hidden"
  /\ edPath' = "" /\ edOriginal' = Empty
  /\ UNCHANGED <<edDisk, edModel, edPending, edLoaded, edOp, edReads, edStarts,
                 edMonaco, edSave, edClosers, edAsk, edStray, edCount, edDoubts,
                 edDiffView>>

(* The host completes a save whose request was given up or cut off.  Two of  *)
(* the same text count as one here, so it may have another to complete.      *)
EdStrayStored ==
  \E stray \in edStray :
    /\ edDisk' = [edDisk EXCEPT ![stray[1]] = stray[2]]
    /\ edStray' \in {edStray, edStray \ {stray}}
    /\ UNCHANGED <<edView, edPath, edOriginal, edModel, edPending, edLoaded,
                   edOp, edReads, edStarts, edMonaco, edSave, edClosers, edAsk,
                   edCount, edDoubts, edDiffView>>

EdNext ==
  \/ \E f \in EdFiles : EdOpen(f)
  \/ EdReadFile \/ EdContentArrives \/ EdReadFails \/ EdMonacoStarts
  \/ EdMonacoFails \/ EdToggleDiff \/ EdEdit
  \/ \E close \in BOOLEAN : EdSaveBegins(close)
  \/ EdStored \/ EdSaved \/ EdSaveFails \/ EdCloseAfterSave
  \/ EdTryClose \/ (\E leave \in BOOLEAN : EdAnswer(leave)) \/ EdHidden
  \/ EdStrayStored

EdSpec == EdInit /\ [][EdNext]_edVars

-----------------------------------------------------------------------------
(* Content the editor calls unchanged is in the file: leaving it without a  *)
(* question loses nothing, whatever was typed, undone, closed or opened      *)
(* during a save.  Excepted are a save under way; a file that holds a text   *)
(* whose save this opening saw fail, its answer lost (the baseline stays     *)
(* behind the file); an opening of a file that an earlier opening was still  *)
(* writing; and a baseline set by the late answer of another file's save.    *)
EdCleanIsSaved ==
  EdShown /\ edLoaded /\ edModel # NoText /\ ~IsFileEditorDirty /\ ~EdSaving =>
    \/ edDisk[edPath] = edModel
    \/ edDisk[edPath] \in edFailed
    \/ edBehind

(* What the diff shows on its left is the text the changes are counted      *)
(* from: the last one read or saved.                                        *)
EdDiffHonest == edLoaded /\ edMode = "diff" => edDiff = edOriginal

(* What the editor says about changes is right: by its question before it   *)
(* is left, and by its diff.                                                *)
EdChangesHonest == EdCleanIsSaved /\ EdDiffHonest
=============================================================================
