---------------------------- MODULE Panel_proofs ----------------------------
(***************************************************************************)
(* Proofs about the parts of the panel put side by side.  Every behaviour  *)
(* of the composition is one of each part, so what is proved of a part     *)
(* alone holds of it there: the run of all parts and the proofs of each    *)
(* speak of the same thing.                                                *)
(***************************************************************************)
EXTENDS MCPanel, InstancePanel_proofs, FilePanel_proofs, UploadQueue_proofs

\* Every part starts as it does alone, whichever is explored.
LEMMA PartsStart ==
    ASSUME NEW chosen
    PROVE  Starts(chosen) =>
             /\ part \in chosen
             /\ FeedInit /\ UpInit /\ TermInit /\ EdInit /\ WsInit /\ SelInit
             /\ BrInit
BY DEF Starts

\* A step of the panel is a step of one part, in which the others rest.
LEMMA PartsStep ==
    [PanelNext]_panelVars =>
      /\ [FeedNext]_feedVars /\ [UpNext]_upVars /\ [TermNext]_termVars
      /\ [EdNext]_edVars /\ [WsNext]_wsVars /\ [SelNext]_selVars
      /\ [BrNext]_brVars
      /\ part' = part
<1> SUFFICES ASSUME [PanelNext]_panelVars
             PROVE  /\ [FeedNext]_feedVars /\ [UpNext]_upVars
                    /\ [TermNext]_termVars /\ [EdNext]_edVars /\ [WsNext]_wsVars
                    /\ [SelNext]_selVars /\ [BrNext]_brVars
                    /\ part' = part
  OBVIOUS
<1>1. CASE Only("feed") /\ FeedNext
  BY <1>1 DEF Only
<1>2. CASE Only("upload") /\ UpNext
  BY <1>2 DEF Only
<1>3. CASE Only("terminal") /\ TermNext
  BY <1>3 DEF Only
<1>4. CASE Only("editor") /\ EdNext
  BY <1>4 DEF Only
<1>5. CASE Only("workspace") /\ WsNext
  BY <1>5 DEF Only
<1>6. CASE Only("selection") /\ SelNext
  BY <1>6 DEF Only
<1>7. CASE Only("browser") /\ BrNext
  BY <1>7 DEF Only
<1>8. CASE UNCHANGED panelVars
  BY <1>8 DEF panelVars
<1> QED BY <1>1, <1>2, <1>3, <1>4, <1>5, <1>6, <1>7, <1>8 DEF PanelNext

\* The composition implements each of its parts: what the page does in one of
\* them is what that part does alone.
THEOREM PanelServesItsParts ==
    PanelSpec => /\ FeedSpec /\ UpSpec /\ TermSpec /\ EdSpec /\ WsSpec
                 /\ SelSpec /\ BrSpec
<1>1. Starts({"feed", "upload", "terminal", "editor", "workspace",
              "selection", "browser"})
        => /\ FeedInit /\ UpInit /\ TermInit /\ EdInit /\ WsInit /\ SelInit
           /\ BrInit
  BY PartsStart
<1> QED
  BY <1>1, PartsStep, PTL DEF PanelSpec, FeedSpec, UpSpec, TermSpec, EdSpec,
     WsSpec, SelSpec, BrSpec

\* Of the whole page, for any instances, files, paths and bounds: every part
\* keeps its types.
THEOREM PanelTypesHold == PanelSpec => []PanelTypeOK
<1>1. PanelSpec => []SelTypeOK
  <2>1. SelIInv => SelTypeOK
    BY DEF SelIInv
  <2> QED BY <2>1, PanelServesItsParts, SelectionInvariant, PTL
<1>2. /\ FeedTypeOK /\ UpTypeOK /\ TermTypeOK /\ EdTypeOK /\ WsTypeOK
      /\ SelTypeOK /\ BrTypeOK
      => PanelTypeOK
  BY DEF PanelTypeOK
<1> QED
  BY <1>1, <1>2, PanelServesItsParts, FeedTypes, UploadTyped, TermTypesHold,
     EditorTypes, WorkspaceTyped, BrTypesHold, PTL

\* Of the whole page: what is proved of the parts one by one holds of them
\* together.
THEOREM PanelIsHonest ==
    PanelSpec => /\ [](FeedNeverSilent /\ UpShownIsTrue)
                 /\ [](TermConnection /\ TermDrawn /\ EdChangesHonest)
                 /\ [](WsTabAgrees /\ SelBatchMatches)
                 /\ [](BrShowsLatest /\ BrExtractOwn)
                 /\ WsTextKept
BY PanelServesItsParts, SubscribersHear, UploadShowsTruth, ConnectionHolds,
   DrawingHolds, ChangesAreHonest, UrlNamesTab, TextIsKept, BatchMatchesList,
   PanelShowsLatest, DialogueShowsOwnExtraction, PTL
=============================================================================
