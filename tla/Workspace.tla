----------------------------- MODULE Workspace -----------------------------
(***************************************************************************)
(* Navigation of the web panel: which page a tab shows, which instance its *)
(* workspace has open and what its URL says (ui.js), the instance form     *)
(* (page/instanceWorkspacePage.js) and the instance list fed by the status *)
(* store (page/instanceList.js).                                           *)
(*                                                                         *)
(* Detail requests, saves and questions to the user are answered later, in *)
(* any order, while the user, the browser's history, other users and the   *)
(* status stream go on.  A run of JavaScript up to its next await that can *)
(* take time is one step, written as an operator from tab to tab.          *)
(***************************************************************************)
EXTENDS Naturals, FiniteSets, Sequences, SequencesExt

CONSTANTS WsNames,    \* names of instances
          WsMoves,    \* bound: moves of the user (clicks, back, forward)
          WsForms,    \* bound: openings of the instance form
          WsChanges,  \* bound: changes other users make
          WsReloads,  \* bound: reloads after the session has ended
          WsEvents    \* bound: all of these together

ASSUME WsAssumption == /\ {"", "home", "dashboard"} \cap WsNames = {}
                       /\ {WsMoves, WsForms, WsChanges, WsReloads, WsEvents} \subseteq Nat

VARIABLES
  wsServer,  \* the instances the controller has
  wsStore,   \* those of the status store's list
  tab,       \* the tab: see WsTab
  wsOpens,   \* details asked for by openTerminalPage: [name, seq]
  wsAsks,    \* questions about unsaved text, first shown: what waits for each
  wsForm,    \* the instance form: see WsFormState
  wsDetails, \* details asked for by openEditInstanceModal: [name, seq]
  wsSubmit,  \* the submit of the form under way, or NoSubmit
  wsOverlap, \* history: two moves of the tab have met since it was loaded:
             \* see Met
  wsCount    \* moves, forms, changes and reloads so far

wsVars == <<wsServer, wsStore, tab, wsOpens, wsAsks, wsForm, wsDetails,
            wsSubmit, wsOverlap, wsCount>>

\* Routes: "" is the list, "home" is ?p=home (or an unknown ?p=), which is
\* always replaced by "", "dashboard" is ?p=dashboard, a name is ?i=<name>.
Routes == {"", "home", "dashboard"} \cup WsNames
MaybeName == {""} \cup WsNames
WsPages == {"boot", "list", "dash", "term", "auth", "public"}

\* open is state.currentInstanceName, svc the name in currentTerminalSvc, seq
\* state.instanceSessionSeq, dirty an editor with unsaved text, list the
\* names in state.instances, dashboard state.dashboardEnabled, locked
\* unauthorizedLocked, past and ahead the history around the entry url.
WsTab == [page : WsPages, open : MaybeName, svc : MaybeName, seq : Nat,
          dirty : BOOLEAN, list : SUBSET WsNames, dashboard : BOOLEAN,
          locked : BOOLEAN, url : Routes, past : Seq(Routes),
          ahead : Seq(Routes)]

WsFormState == [mode : {"closed", "create", "edit"}, name : MaybeName,
                loading : BOOLEAN, seq : Nat]
NoSubmit == [mode |-> "none", name |-> "", new |-> "", told |-> ""]
Submits == [mode : {"create", "edit", "delete"}, name : MaybeName,
            new : MaybeName, told : {"sent", "done", "failed"}]

\* What waits for an answer: openInstanceTerminal(name), openDashboardPage, or
\* closeCurrentTerminal called by leaveTerminalPage, by the handler of the
\* history (replacing the URL or leaving it), or by applyDashboardEnabled.
Waiting == [do : {"open", "dash", "leave", "rehome", "stay", "disable"},
            name : MaybeName, replace : BOOLEAN]

WsTypeOK ==
  /\ wsServer \in SUBSET WsNames /\ wsStore \in SUBSET WsNames
  /\ tab \in WsTab
  /\ wsOpens \in SUBSET [name : WsNames, seq : Nat]
  /\ wsAsks \in Seq(Waiting)
  /\ wsForm \in WsFormState
  /\ wsDetails \in SUBSET [name : WsNames, seq : Nat]
  /\ wsSubmit \in Submits \cup {NoSubmit}
  /\ wsOverlap \in BOOLEAN
  /\ wsCount \in [moves : 0 .. WsMoves, forms : 0 .. WsForms,
                  changes : 0 .. WsChanges, reloads : 0 .. WsReloads]

(* --------------------------- the tab, in steps ------------------------- *)

\* setUrlSearchParams: nothing when the URL is already r, otherwise the entry
\* is replaced or a new one pushed, which drops the entries ahead.
Route(t, r, replace) ==
  IF t.url = r THEN t
  ELSE IF replace THEN [t EXCEPT !.url = r]
  ELSE [t EXCEPT !.url = r, !.past = Append(t.past, t.url), !.ahead = <<>>]

SwitchPage(t, page) == [t EXCEPT !.page = page]

\* closeTerminalPage: the editor is closed whatever it holds, requests of the
\* session are outdated.
CloseTerminalPage(t) ==
  [t EXCEPT !.open = "", !.svc = "", !.dirty = FALSE, !.seq = @ + 1]

\* A request to open name in tab t (the end of openInstanceTerminal): until
\* the detail arrives the tab keeps the instance it had.
StartOpen(t, name, replace) ==
  Route(SwitchPage([t EXCEPT !.seq = @ + 1], "term"), name, replace)

\* What follows once the current context may be left.
Left(t, w) ==
  CASE w.do = "open" -> StartOpen(t, w.name, w.replace)
    [] w.do = "dash" ->
         SwitchPage(Route(CloseTerminalPage(t), "dashboard", w.replace), "dash")
    [] w.do = "stay" -> SwitchPage(CloseTerminalPage(t), "list")
    [] OTHER -> Route(SwitchPage(CloseTerminalPage(t), "list"), "",
                      w.do = "rehome")

\* What follows when the user stays: the URL names the instance that is
\* current by now.
Stayed(t, w) == Route(t, t.open, w.do \in {"open", "dash"} /\ w.replace)

\* Only work of this session is let in: an open starts a request.
Requested(t, w) ==
  IF w.do = "open" THEN {[name |-> w.name, seq |-> t.seq + 1]} ELSE {}

\* Variant: unsaved text is not asked about.
AskNever(t, asks, opens, w) ==
  IF \/ t.locked
     \/ w.do = "open" /\ t.open = w.name
     \/ w.do = "dash" /\ ~t.dashboard
  THEN [tab |-> t, asks |-> asks, opens |-> opens]
  ELSE [tab |-> Left(t, w), asks |-> asks, opens |-> opens \cup Requested(t, w)]

\* The tab, the questions and the requests after the user, the history or the
\* code asked for w in tab t: immediately, unless there is unsaved text.
\* openInstanceTerminal returns early for the instance that is current, and
\* openDashboardPage when the dashboard is disabled.
Ask(t, asks, opens, w) ==
  IF \/ t.locked
     \/ w.do = "open" /\ t.open = w.name
     \/ w.do = "dash" /\ ~t.dashboard
  THEN [tab |-> t, asks |-> asks, opens |-> opens]
  ELSE IF t.open # "" /\ t.dirty
  THEN [tab |-> t, asks |-> Append(asks, w), opens |-> opens]
  ELSE [tab |-> Left(t, w), asks |-> asks, opens |-> opens \cup Requested(t, w)]

\* The detail of an instance the tab is to show is awaited.
Opening == \E o \in wsOpens : o.seq = tab.seq

\* Two moves meet when the tab moves, or another question is put, while one is
\* open; when the history moves with something under way or to a dashboard
\* that is off; when an edit is answered with another instance open, or a
\* change of name while the next instance is being opened.  What the later one
\* says of the URL or of the terminal then stands, right or wrong.
Met(r) == wsAsks # <<>> /\ <<r.tab, r.asks>> # <<tab, wsAsks>>

Take(r, met) == /\ tab' = r.tab
                /\ wsAsks' = r.asks
                /\ wsOpens' = r.opens
                /\ wsOverlap' = (wsOverlap \/ met \/ Met(r))

Wait(do) == [do |-> do, name |-> "", replace |-> FALSE]
WaitOpen(name) == [do |-> "open", name |-> name, replace |-> FALSE]
Replacing(w) == [w EXCEPT !.replace = TRUE]

\* The page is reachable by clicks: nothing lies over it.
Reachable == /\ tab.page \in {"list", "dash", "term"}
             /\ ~tab.locked
             /\ wsAsks = <<>>
             /\ wsForm.mode = "closed"

WsCounted(what, bound) ==
  /\ wsCount[what] < bound
  /\ wsCount.moves + wsCount.forms + wsCount.changes + wsCount.reloads
       < WsEvents
  /\ wsCount' = [wsCount EXCEPT ![what] = @ + 1]

\* Nothing is under way that will move the tab.
AtRest == /\ tab.page \in {"list", "dash", "term"} /\ ~tab.locked
          /\ wsAsks = <<>> /\ wsSubmit = NoSubmit
          /\ ~Opening

(* ------------------------------ navigation ----------------------------- *)

ClickInstance(n) ==
  /\ Reachable /\ tab.page = "list" /\ n \in tab.list
  /\ WsCounted("moves", WsMoves)
  /\ Take(Ask(tab, wsAsks, wsOpens, WaitOpen(n)), FALSE)
  /\ UNCHANGED <<wsServer, wsStore, wsForm, wsDetails, wsSubmit>>

ClickDashboard ==
  /\ Reachable
  /\ WsCounted("moves", WsMoves)
  /\ Take(Ask(tab, wsAsks, wsOpens, Wait("dash")), FALSE)
  /\ UNCHANGED <<wsServer, wsStore, wsForm, wsDetails, wsSubmit>>

\* A click on navHome runs two handlers, the onclick of the workspace (when an
\* instance is current) and the listener of ui.js; both leave the workspace.
ClickHome ==
  /\ Reachable
  /\ WsCounted("moves", WsMoves)
  /\ LET first == IF tab.open # ""
                  THEN Ask(tab, wsAsks, wsOpens, Wait("leave"))
                  ELSE [tab |-> tab, asks |-> wsAsks, opens |-> wsOpens]
     IN Take(Ask(first.tab, first.asks, first.opens, Wait("leave")), FALSE)
  /\ UNCHANGED <<wsServer, wsStore, wsForm, wsDetails, wsSubmit>>

\* What the handler of popstate asks for at the URL of t.
Popped(t) ==
  CASE t.url = "dashboard" -> Replacing(Wait("dash"))
    [] t.url = "home" -> Wait("rehome")
    [] t.url \in t.list -> Replacing(WaitOpen(t.url))
    [] t.url = "" -> Wait("stay")
    [] OTHER -> Wait("rehome")

\* The history moves to another entry, dialog or not, and popstate is handled.
Travel(t) ==
  /\ tab.page \in {"list", "dash", "term"}
  /\ WsCounted("moves", WsMoves)
  /\ Take(Ask(t, wsAsks, wsOpens, Popped(t)),
          ~AtRest \/ (t.url = "dashboard" /\ ~t.dashboard))
  /\ UNCHANGED <<wsServer, wsStore, wsForm, wsDetails, wsSubmit>>

GoBack ==
  /\ tab.past # <<>>
  /\ Travel([tab EXCEPT !.url = Last(tab.past), !.past = Front(tab.past),
                        !.ahead = <<tab.url>> \o tab.ahead])

GoForward ==
  /\ tab.ahead # <<>>
  /\ Travel([tab EXCEPT !.url = Head(tab.ahead), !.ahead = Tail(tab.ahead),
                        !.past = Append(tab.past, tab.url)])

\* The user types into the editor of the instance whose files are shown.
Type ==
  /\ Reachable /\ tab.page = "term" /\ tab.open # "" /\ ~tab.dirty
  /\ ~Opening
  /\ tab' = [tab EXCEPT !.dirty = TRUE]
  /\ UNCHANGED <<wsServer, wsStore, wsOpens, wsAsks, wsForm, wsDetails,
                 wsSubmit, wsCount, wsOverlap>>

\* The first question is answered; consent closes the editor.
Answer ==
  /\ wsAsks # <<>>
  /\ LET w == Head(wsAsks)
     IN \/ /\ tab' = Left([tab EXCEPT !.dirty = FALSE], w)
           /\ wsOpens' = wsOpens \cup Requested(tab, w)
        \/ /\ tab' = Stayed(tab, w)
           /\ wsOpens' = wsOpens
  /\ wsAsks' = Tail(wsAsks)
  /\ UNCHANGED <<wsServer, wsStore, wsForm, wsDetails, wsSubmit, wsCount, wsOverlap>>

\* Variant: the answer of an outdated opening is shown.
OpenAnsweredAlways(o) ==
  /\ o \in wsOpens
  /\ o.name \in wsServer
  /\ tab' = [tab EXCEPT !.open = o.name, !.svc = o.name]
  /\ wsOpens' = wsOpens \ {o}
  /\ UNCHANGED <<wsServer, wsStore, wsAsks, wsForm, wsDetails, wsSubmit, wsCount, wsOverlap>>

\* The detail of an instance to open arrives; it binds only in its session.
OpenAnswered(o) ==
  /\ o \in wsOpens
  /\ o.name \in wsServer
  /\ tab' = IF o.seq = tab.seq THEN [tab EXCEPT !.open = o.name, !.svc = o.name]
            ELSE tab
  /\ wsOpens' = wsOpens \ {o}
  /\ UNCHANGED <<wsServer, wsStore, wsAsks, wsForm, wsDetails, wsSubmit, wsCount, wsOverlap>>

\* It fails: the workspace is left, whichever session it is in by now.
OpenFailed(o) ==
  /\ o \in wsOpens
  /\ Take(Ask(tab, wsAsks, wsOpens \ {o}, Wait("leave")), FALSE)
  /\ UNCHANGED <<wsServer, wsStore, wsForm, wsDetails, wsSubmit, wsCount>>

(* --------------------------- the instance form ------------------------- *)

\* openCreateInstanceModal, from the list.
OpenCreateInstanceModal ==
  /\ Reachable /\ tab.page = "list"
  /\ WsCounted("forms", WsForms)
  /\ wsForm' = [mode |-> "create", name |-> "", loading |-> FALSE,
                seq |-> wsForm.seq + 1]
  /\ UNCHANGED <<wsServer, wsStore, tab, wsOpens, wsAsks, wsDetails, wsSubmit, wsOverlap>>

\* openEditInstanceModal, from the workspace, up to the request of the detail.
OpenEditInstanceModal ==
  /\ Reachable /\ tab.page = "term" /\ tab.svc # ""
  /\ WsCounted("forms", WsForms)
  /\ wsForm' = [mode |-> "edit", name |-> tab.svc, loading |-> TRUE,
                seq |-> wsForm.seq + 1]
  /\ wsDetails' = wsDetails \cup {[name |-> tab.svc, seq |-> wsForm.seq + 1]}
  /\ UNCHANGED <<wsServer, wsStore, tab, wsOpens, wsAsks, wsSubmit, wsOverlap>>

\* The detail for the form arrives: it fills the form of its request, opening
\* it again if it was closed; a form it could not be loaded for stays locked.
DetailAnswered(d) ==
  /\ d \in wsDetails
  /\ wsForm' = IF d.seq = wsForm.seq /\ d.name \in wsServer
               THEN [wsForm EXCEPT !.mode = "edit", !.name = d.name,
                                   !.loading = FALSE]
               ELSE wsForm
  /\ wsDetails' = wsDetails \ {d}
  /\ UNCHANGED <<wsServer, wsStore, tab, wsOpens, wsAsks, wsSubmit, wsCount, wsOverlap>>

CloseInstanceModal ==
  /\ wsForm.mode # "closed" /\ wsAsks = <<>>
  /\ wsForm' = [wsForm EXCEPT !.mode = "closed"]
  /\ UNCHANGED <<wsServer, wsStore, tab, wsOpens, wsAsks, wsDetails, wsSubmit,
                 wsCount, wsOverlap>>

\* handleInstanceModalSubmit up to its request: a creation, an edit that may
\* change the name, or the deletion of the instance edited; one at a time.
HandleInstanceModalSubmit ==
  /\ wsForm.mode # "closed" /\ ~wsForm.loading
  /\ wsSubmit = NoSubmit /\ wsAsks = <<>>
  /\ wsSubmit' \in
       IF wsForm.mode = "create"
       THEN [mode : {"create"}, name : {""}, new : WsNames, told : {"sent"}]
       ELSE [mode : {"edit"}, name : {wsForm.name}, new : WsNames, told : {"sent"}]
            \cup [mode : {"delete"}, name : {wsForm.name}, new : {""},
                  told : {"sent"}]
  /\ UNCHANGED <<wsServer, wsStore, tab, wsOpens, wsAsks, wsForm, wsDetails,
                 wsCount, wsOverlap>>

\* The controller handles it, or refuses.
HandleApiInstance ==
  /\ wsSubmit.told = "sent"
  /\ LET missing == wsSubmit.mode # "create" /\ wsSubmit.name \notin wsServer
         taken == wsSubmit.new \in wsServer \ {wsSubmit.name}
     IN \/ /\ ~missing /\ ~taken
           /\ wsServer' = (wsServer \ {wsSubmit.name})
                          \cup ({wsSubmit.new} \cap WsNames)
           /\ wsSubmit' = [wsSubmit EXCEPT !.told = "done"]
        \/ /\ wsSubmit' = [wsSubmit EXCEPT !.told = "failed"]
           /\ UNCHANGED wsServer
  /\ UNCHANGED <<wsStore, tab, wsOpens, wsAsks, wsForm, wsDetails, wsCount, wsOverlap>>

\* No answer or an error: an alert, the form stays.
SubmitFailed ==
  /\ wsSubmit.told \in {"done", "failed"}
  /\ wsSubmit' = NoSubmit
  /\ UNCHANGED <<wsServer, wsStore, tab, wsOpens, wsAsks, wsForm, wsDetails,
                 wsCount, wsOverlap>>

\* After an edit: a new name is taken over where the old one is current, the
\* answer is merged into whatever instance the terminal has.
Edited(t) ==
  LET renamed == t.open = wsSubmit.name /\ wsSubmit.new # wsSubmit.name
      u == IF renamed THEN Route([t EXCEPT !.open = wsSubmit.new],
                                 wsSubmit.new, FALSE) ELSE t
  IN IF u.svc = "" THEN u ELSE [u EXCEPT !.svc = wsSubmit.new]

\* Success: after a deletion the workspace is closed, whatever it shows;
\* otherwise the instance is opened, after an edit only if it is listed.
SubmitSucceeded ==
  /\ wsSubmit.told = "done"
  /\ wsForm' = [wsForm EXCEPT !.mode = "closed"]
  /\ wsSubmit' = NoSubmit
  /\ LET t == IF wsSubmit.mode = "edit" THEN Edited(tab) ELSE tab
         still == [tab |-> t, asks |-> wsAsks, opens |-> wsOpens]
         deleted == [still EXCEPT !.tab =
                       SwitchPage(Route(CloseTerminalPage(t), "", FALSE), "list")]
         other == /\ wsSubmit.mode = "edit"
                  /\ \/ tab.svc \notin {"", wsSubmit.name}
                     \/ Opening /\ t.open # tab.open
     IN Take(IF wsSubmit.mode = "delete" THEN deleted
             ELSE IF wsSubmit.mode = "edit" /\ wsSubmit.new \notin t.list THEN still
             ELSE Ask(t, wsAsks, wsOpens, WaitOpen(wsSubmit.new)), other)
  /\ UNCHANGED <<wsServer, wsStore, wsDetails, wsCount>>

(* ---------------------- the status stream and others ------------------- *)

\* An emit of the store: an open instance the store does not list is gone,
\* one it lists is merged into the terminal's.
Emitted(t) ==
  IF t.open = "" THEN t
  ELSE IF t.open \in t.list
  THEN IF t.svc = "" THEN t ELSE [t EXCEPT !.svc = t.open]
  ELSE SwitchPage(Route(CloseTerminalPage(t), "", FALSE), "list")

\* A snapshot brings the store the instances of the controller, a patch leaves
\* it the list it has.
InstancesReceived ==
  /\ tab.page # "boot" /\ ~tab.locked
  /\ \E names \in {wsServer, wsStore} :
       /\ wsStore' = names
       /\ tab' = Emitted([tab EXCEPT !.list = names])
  /\ UNCHANGED <<wsServer, wsOpens, wsAsks, wsForm, wsDetails, wsSubmit, wsCount, wsOverlap>>

\* The terminal found that its instance does not exist (onInstanceMissing).
InstanceMissing ==
  /\ tab.open # "" /\ tab.open \notin wsServer
  /\ tab' = SwitchPage(Route(CloseTerminalPage(tab), "", FALSE), "list")
  /\ UNCHANGED <<wsServer, wsStore, wsOpens, wsAsks, wsForm, wsDetails,
                 wsSubmit, wsCount, wsOverlap>>

\* Another user creates or deletes an instance.
OtherUser ==
  /\ WsCounted("changes", WsChanges)
  /\ \E n \in WsNames : wsServer' = IF n \in wsServer THEN wsServer \ {n}
                                    ELSE wsServer \cup {n}
  /\ UNCHANGED <<wsStore, tab, wsOpens, wsAsks, wsForm, wsDetails, wsSubmit, wsOverlap>>

\* The settings turn the dashboard on or off; off, the tab goes home unless it
\* shows a workspace.
ApplyDashboardEnabled ==
  /\ tab.page \in {"list", "dash", "term"} /\ ~tab.locked
  /\ WsCounted("changes", WsChanges)
  /\ LET t == [tab EXCEPT !.dashboard = ~@]
     IN tab' = IF t.dashboard \/ t.page = "term" THEN t
               ELSE SwitchPage(Route(CloseTerminalPage(t), "", FALSE), "list")
  /\ UNCHANGED <<wsServer, wsStore, wsOpens, wsAsks, wsForm, wsDetails, wsSubmit, wsOverlap>>

(* ----------------------- session and start of the tab ------------------ *)

\* enterUnauthorizedState, at a logout with the URL reset; the reload follows.
EnterUnauthorizedState ==
  /\ tab.page \in {"list", "dash", "term"} /\ ~tab.locked
  /\ WsCounted("reloads", WsReloads)
  /\ \E url \in {"", tab.url} :
       tab' = [CloseTerminalPage(tab) EXCEPT !.locked = TRUE, !.list = {},
                                             !.dashboard = TRUE, !.url = url]
  /\ UNCHANGED <<wsServer, wsStore, wsOpens, wsAsks, wsForm, wsDetails, wsSubmit, wsOverlap>>

\* The page is loaded again: all that waits is forgotten.
Loaded(t) == [t EXCEPT !.page = "boot", !.open = "", !.svc = "", !.seq = 0,
                       !.dirty = FALSE, !.list = {}, !.locked = FALSE]

Reload ==
  /\ tab.locked
  /\ tab' = Loaded(tab)
  /\ wsOpens' = {} /\ wsAsks' = <<>> /\ wsDetails' = {}
  /\ wsForm' = [mode |-> "closed", name |-> "", loading |-> FALSE, seq |-> 0]
  /\ wsSubmit' = NoSubmit
  /\ wsOverlap' = FALSE
  /\ UNCHANGED <<wsServer, wsStore, wsCount>>

\* main with a session: the list is waited for, then the URL is followed.
BootAuthenticated ==
  /\ tab.page = "boot"
  /\ wsStore' = wsServer
  /\ LET t == [tab EXCEPT !.list = wsServer]
         w == IF t.url = "dashboard" /\ t.dashboard
              THEN Replacing(Wait("dash"))
              ELSE IF t.url \in t.list THEN Replacing(WaitOpen(t.url))
              ELSE Wait("rehome")
     IN /\ tab' = Left(t, w)
        /\ wsOpens' = Requested(t, w)
  /\ UNCHANGED <<wsServer, wsAsks, wsForm, wsDetails, wsSubmit, wsCount, wsOverlap>>

\* main without one: the public dashboard when the URL asks for it and the
\* settings allow it, otherwise the login page.
BootUnauthorized ==
  /\ tab.page = "boot"
  /\ \E page \in {"auth"} \cup (IF tab.url = "dashboard" /\ tab.dashboard
                                THEN {"public"} ELSE {}) :
       tab' = SwitchPage(tab, page)
  /\ UNCHANGED <<wsServer, wsStore, wsOpens, wsAsks, wsForm, wsDetails,
                 wsSubmit, wsCount, wsOverlap>>

\* A click on navHome on the public dashboard.
PublicHome ==
  /\ tab.page = "public"
  /\ tab' = SwitchPage(Route(tab, "", TRUE), "auth")
  /\ UNCHANGED <<wsServer, wsStore, wsOpens, wsAsks, wsForm, wsDetails,
                 wsSubmit, wsCount, wsOverlap>>

\* The login succeeds (bindAuthenticatedHandling): the page is loaded again.
LoggedIn ==
  /\ tab.page = "auth"
  /\ WsCounted("reloads", WsReloads)
  /\ tab' = Loaded(tab)
  /\ wsOverlap' = FALSE
  /\ UNCHANGED <<wsServer, wsStore, wsOpens, wsAsks, wsForm, wsDetails, wsSubmit>>

WsInit ==
  /\ wsServer = WsNames \ {CHOOSE n \in WsNames : TRUE}
  /\ wsStore = {}
  /\ tab \in [page : {"boot"}, open : {""}, svc : {""}, seq : {0},
              dirty : {FALSE}, list : {{}}, dashboard : BOOLEAN,
              locked : {FALSE}, url : Routes, past : {<<>>}, ahead : {<<>>}]
  /\ wsOpens = {} /\ wsAsks = <<>> /\ wsDetails = {}
  /\ wsForm = [mode |-> "closed", name |-> "", loading |-> FALSE, seq |-> 0]
  /\ wsSubmit = NoSubmit
  /\ wsOverlap = FALSE
  /\ wsCount = [moves |-> 0, forms |-> 0, changes |-> 0, reloads |-> 0]

WsNext ==
  \/ \E n \in WsNames : ClickInstance(n)
  \/ ClickDashboard \/ ClickHome \/ GoBack \/ GoForward \/ Type \/ Answer
  \/ \E o \in wsOpens : OpenAnswered(o) \/ OpenFailed(o)
  \/ OpenCreateInstanceModal \/ OpenEditInstanceModal
  \/ \E d \in wsDetails : DetailAnswered(d)
  \/ CloseInstanceModal \/ HandleInstanceModalSubmit \/ HandleApiInstance
  \/ SubmitFailed \/ SubmitSucceeded
  \/ InstancesReceived \/ InstanceMissing \/ OtherUser \/ ApplyDashboardEnabled
  \/ EnterUnauthorizedState \/ Reload
  \/ BootAuthenticated \/ BootUnauthorized \/ PublicHome \/ LoggedIn

WsSpec == WsInit /\ [][WsNext]_wsVars

(* ------------------------------- properties ---------------------------- *)

\* At rest, unless two moves have met, what the user sees agrees with itself:
\* the URL (what a reload or a shared link opens) names the page shown and the
\* instance that is current, and the terminal's controls are for that instance.
WsTabAgrees ==
  AtRest /\ ~wsOverlap =>
    /\ CASE tab.page = "list" -> tab.url = "" /\ tab.open = ""
         [] tab.page = "dash" -> tab.url = "dashboard" /\ tab.open = ""
         [] tab.page = "term" -> tab.url = tab.open /\ tab.open # ""
    /\ tab.svc = tab.open

\* Unsaved text is dropped with the user's consent, with the session, with an
\* instance that is gone or no longer listed, or by a deletion: no click, no
\* move of the history and no late or failed answer drops it.
WsTextKept ==
  [][tab.dirty /\ ~tab'.dirty =>
       \/ wsAsks # <<>> /\ wsAsks' = Tail(wsAsks)
       \/ tab'.locked
       \/ tab.open \notin wsServer \cap wsStore'
       \/ wsSubmit.mode = "delete"]_wsVars
=============================================================================
