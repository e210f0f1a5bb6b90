------------------------------ MODULE MCPanel ------------------------------
(* Instances of the parts of the web panel.  A behaviour chooses one part in *)
(* its first state and explores that part alone: they share no variable.     *)
EXTENDS StatusFeed, UploadQueue, TerminalView, FileEditor, Workspace,
        FileSelection, FileBrowser

VARIABLE part  \* the part this behaviour explores

panelVars == <<part, feedVars, upVars, termVars, edVars, wsVars, selVars,
               brVars>>

\* This part takes a step, the others stay as they are.
Only(p) ==
  /\ part = p /\ UNCHANGED part
  /\ IF p = "feed" THEN TRUE ELSE UNCHANGED feedVars
  /\ IF p = "upload" THEN TRUE ELSE UNCHANGED upVars
  /\ IF p = "terminal" THEN TRUE ELSE UNCHANGED termVars
  /\ IF p = "editor" THEN TRUE ELSE UNCHANGED edVars
  /\ IF p = "workspace" THEN TRUE ELSE UNCHANGED wsVars
  /\ IF p = "selection" THEN TRUE ELSE UNCHANGED selVars
  /\ IF p = "browser" THEN TRUE ELSE UNCHANGED brVars

Starts(chosen) ==
  /\ part \in chosen
  /\ FeedInit /\ UpInit /\ TermInit /\ EdInit /\ WsInit /\ SelInit /\ BrInit
  /\ part # "workspace" => tab.url = "home" /\ tab.dashboard
  /\ part # "editor" => edDisk = [f \in EdFiles |-> Empty]

PanelNext ==
  \/ Only("feed") /\ FeedNext
  \/ Only("upload") /\ UpNext
  \/ Only("terminal") /\ TermNext
  \/ Only("editor") /\ EdNext
  \/ Only("workspace") /\ WsNext
  \/ Only("selection") /\ SelNext
  \/ Only("browser") /\ BrNext

\* Every part, for the safety properties.
PanelSpec ==
  /\ Starts({"feed", "upload", "terminal", "editor", "workspace", "selection",
             "browser"})
  /\ [][PanelNext]_panelVars

\* The parts that must also get on, with what the code keeps running.
LiveSpec ==
  /\ Starts({"feed", "upload"})
  /\ [][PanelNext]_panelVars
  /\ WF_panelVars(Only("feed") /\ FeedProgress)
  /\ WF_panelVars(Only("upload") /\ UpProgress)

\* The type invariants of the parts.
PanelTypeOK ==
  /\ part = "feed" => FeedTypeOK
  /\ part = "upload" => UpTypeOK
  /\ part = "terminal" => TermTypeOK
  /\ part = "editor" => EdTypeOK
  /\ part = "workspace" => WsTypeOK
  /\ part = "selection" => SelTypeOK
  /\ part = "browser" => BrTypeOK

\* FeedConverges, of the behaviours in which the status feed runs: whatever is
\* lost or refused, the page ends up with the controller's list for good.
PageConverges == part = "feed" => FeedConverges

\* Some paths: a directory d in the root with a file g and a directory s, in
\* which a file h; and a file f.
MCInside == [p \in SelPaths |->
  CASE p = "f" -> {"f"} [] p = "d" -> {"d"} [] p = "g" -> {"g", "d"}
    [] p = "s" -> {"s", "d"} [] p = "h" -> {"h", "s", "d"}]
MCName == [i \in UpItems |-> i]
=============================================================================
