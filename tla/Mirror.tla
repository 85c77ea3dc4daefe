------------------------------- MODULE Mirror -------------------------------
(***************************************************************************)
(* The reducer at work: a server that changes workspaces, tabs, panes,     *)
(* agents and layouts and pushes events about it, and a mirror that is     *)
(* bootstrapped from a snapshot and then replays every event pushed since  *)
(* the subscription, those the snapshot already reflects included          *)
(* (session_bootstrap.go, session_state.go, session_cache.go).             *)
(*                                                                         *)
(* The server is external.  Its operations are written from what the       *)
(* client's comments say of it: closing a container is one event for       *)
(* everything it held, a focus change emits the whole chain and no layout, *)
(* a moved pane gets a new id, an agent is reported by detection.  It is   *)
(* kept as sequences and sets, apart from the collections of the mirror.   *)
(***************************************************************************)
EXTENDS SessionState, FiniteSets

S == INSTANCE SequencesExt

CONSTANTS
    InitialServer,  \* the server's state when the subscription is accepted,
                    \* with the ids it will give out in freshW, freshT, freshP
    Programs, Statuses, Labels,  \* what panes run and report, what labels say
    MaxOps          \* bound: operations of the server

ASSUME MaxOpsAssumption == MaxOps \in Nat

\* session.snapshot is finite: lists of workspaces and of tabs, whose order
\* counts, and panes and layouts.
ASSUME ServerAssumption ==
    /\ DOMAIN InitialServer = {"workspaces", "tabs", "panes", "names", "layouts",
                               "freshW", "freshT", "freshP"}
    /\ InitialServer.workspaces \in Seq(S!Range(InitialServer.workspaces))
    /\ InitialServer.tabs \in Seq(S!Range(InitialServer.tabs))
    /\ IsFiniteSet(InitialServer.panes) /\ IsFiniteSet(InitialServer.layouts)

\* An id names one tab, and those it will give out name none yet.
ASSUME TabIdsAssumption ==
    LET tabs == InitialServer.tabs
        fresh == InitialServer.freshT IN
    /\ \A i, j \in DOMAIN tabs : tabs[i].id = tabs[j].id => i = j
    /\ \A i \in DOMAIN tabs : {"id", "ws"} \subseteq DOMAIN tabs[i]
    /\ fresh \in Seq(S!Range(fresh))
    /\ \A i, j \in DOMAIN fresh : fresh[i] = fresh[j] => i = j
    /\ \A i \in DOMAIN tabs, j \in DOMAIN fresh : tabs[i].id # fresh[j]

\* A record says all its fields, each id names one record, a tab is in a workspace
\* there is, a pane and a layout are in a tab there is and in its workspace, and one
\* workspace, one tab and one pane at most have the focus.
ASSUME RecordsAssumption ==
    LET s == InitialServer
        workspaces == S!Range(s.workspaces)
        tabs == S!Range(s.tabs) IN
    /\ \A w \in workspaces :
          w = [id |-> w.id, label |-> w.label, focused |-> w.focused] /\ w.focused \in BOOLEAN
    /\ \A tab \in tabs :
          /\ tab = [id |-> tab.id, ws |-> tab.ws, label |-> tab.label,
                    focused |-> tab.focused]
          /\ tab.focused \in BOOLEAN
          /\ \E w \in workspaces : w.id = tab.ws
    /\ \A p \in s.panes :
          /\ p = [id |-> p.id, tab |-> p.tab, ws |-> p.ws, focused |-> p.focused,
                  agent |-> p.agent, display |-> p.display, status |-> p.status,
                  rev |-> p.rev]
          /\ p.focused \in BOOLEAN
          /\ \E tab \in tabs : tab.id = p.tab /\ tab.ws = p.ws
    /\ \A x \in s.layouts :
          /\ x = [tab |-> x.tab, ws |-> x.ws, focusedPane |-> x.focusedPane]
          /\ \E tab \in tabs : tab.id = x.tab /\ tab.ws = x.ws
    /\ \A i, j \in DOMAIN s.workspaces : s.workspaces[i].id = s.workspaces[j].id => i = j
    /\ \A p, q \in s.panes : p.id = q.id => p = q
    /\ \A x, y \in s.layouts : x.tab = y.tab => x = y
    /\ \A records \in {workspaces, tabs, s.panes} :
          \A r, q \in records : r.focused /\ q.focused => r = q

\* The ids it will give out are in no record yet, and each is given out once.
ASSUME FreshAssumption ==
    LET s == InitialServer IN
    /\ s.freshW \in Seq(S!Range(s.freshW)) /\ s.freshP \in Seq(S!Range(s.freshP))
    /\ \A i, j \in DOMAIN s.freshW : s.freshW[i] = s.freshW[j] => i = j
    /\ \A i, j \in DOMAIN s.freshP : s.freshP[i] = s.freshP[j] => i = j
    /\ \A w \in S!Range(s.workspaces) : w.id \notin S!Range(s.freshW)
    /\ \A p \in s.panes : p.id \notin S!Range(s.freshP)

\* What is not set is not one of the values: no program, no status and no text, no
\* id of a tab and no record.
ASSUME AbsentAssumption ==
    LET s == InitialServer IN
    /\ Absent \notin Programs \cup {"unknown", "shown"}
    /\ Absent \notin S!Range(s.freshT) \cup {tab.id : tab \in S!Range(s.tabs)}
    /\ \A w \in S!Range(s.freshW) :
          /\ Absent # [id |-> w, label |-> "new", focused |-> FALSE]
          /\ \A tab \in S!Range(s.freshT) :
                Absent # [id |-> tab, ws |-> w, label |-> "new", focused |-> FALSE]

VARIABLES
    server,    \* the server's state
    ops,       \* number of operations so far
    log,       \* the events pushed since the subscription
    cache,     \* sessionState.cache, or Absent before the snapshot
    applied    \* number of events applied to it

vars == <<server, ops, log, cache, applied>>

-----------------------------------------------------------------------------
(* The server: external *)

PanesIn(tab) == {pane \in server.panes : pane.tab = tab}
Without(records, Gone(_)) == {r \in records : ~Gone(r)}
SeqWithout(s, Gone(_)) == Among(s, {r \in S!Range(s) : ~Gone(r)})
Relabelled(s, id, label) ==
    [i \in DOMAIN s |-> IF s[i].id = id THEN [s[i] EXCEPT !.label = label] ELSE s[i]]
FocusedIn(s, id) == [i \in DOMAIN s |-> [s[i] EXCEPT !.focused = (s[i].id = id)]]

\* The agents are the panes that run one.
AgentOf(pane, names) ==
    [id |-> pane.id, tab |-> pane.tab, ws |-> pane.ws, focused |-> pane.focused,
     agent |-> pane.agent, display |-> pane.display, status |-> pane.status,
     rev |-> pane.rev, name |-> names[pane.id]]
AgentsOf(s) == {AgentOf(pane, s.names) : pane \in {p \in s.panes : p.agent # Absent}}

\* session.snapshot
SnapshotOf(s) ==
    [workspaces |-> s.workspaces, tabs |-> s.tabs,
     panes |-> S!SetToSeq(s.panes), agents |-> S!SetToSeq(AgentsOf(s)),
     layouts |-> S!SetToSeq(s.layouts)]

\* One operation: the new state and the events that report it.
Operate(state, events) ==
    /\ ops < MaxOps
    /\ server' = state
    /\ ops' = ops + 1
    /\ log' = log \o events
    /\ UNCHANGED <<cache, applied>>

NewPane(id, tab, ws) ==
    [id |-> id, tab |-> tab, ws |-> ws, focused |-> FALSE, agent |-> Absent,
     display |-> Absent, status |-> "unknown", rev |-> 0]

PaneSet(pane) == [type |-> "PaneSet", pane |-> pane]
LayoutUpdated(layout) == [type |-> "LayoutUpdated", layout |-> layout]

\* The layout of a tab after its panes changed.
LayoutFor(tab, ws, panes, old) ==
    [tab |-> tab, ws |-> ws,
     focusedPane |-> IF \E p \in panes : p.id = old THEN old
                     ELSE (CHOOSE p \in panes : TRUE).id]
FocusedPaneOf(tab) == (CHOOSE l \in server.layouts : l.tab = tab).focusedPane
ReplaceLayout(layouts, layout) == {l \in layouts : l.tab # layout.tab} \cup {layout}

CreateWorkspace ==
    /\ server.freshW # <<>>
    /\ LET w == [id |-> Head(server.freshW), label |-> "new", focused |-> FALSE] IN
       Operate([server EXCEPT !.freshW = Tail(@), !.workspaces = Append(@, w)],
               <<[type |-> "WorkspaceSet", workspace |-> w]>>)

RenameWorkspace(w, label) ==
    Operate([server EXCEPT !.workspaces = Relabelled(@, w.id, label)],
            <<[type |-> "WorkspaceRenamed", id |-> w.id, label |-> label]>>)

MoveWorkspace ==
    /\ Len(server.workspaces) > 1
    /\ LET moved == Append(Tail(server.workspaces), Head(server.workspaces)) IN
       Operate([server EXCEPT !.workspaces = moved],
               <<[type |-> "WorkspaceMoved", workspaces |-> moved]>>)

CloseWorkspace(w) ==
    /\ ~w.focused
    /\ LET inside(r) == r.ws = w.id IN
       Operate([server EXCEPT !.workspaces = SeqWithout(@, LAMBDA r : r.id = w.id),
                              !.tabs = SeqWithout(@, inside),
                              !.panes = Without(@, inside),
                              !.layouts = Without(@, inside)],
               <<[type |-> "WorkspaceClosed", id |-> w.id]>>)

\* A new tab comes with a pane and a layout.
CreateTab(w) ==
    /\ server.freshT # <<>>
    /\ server.freshP # <<>>
    /\ LET tab == [id |-> Head(server.freshT), ws |-> w.id, label |-> "new",
                   focused |-> FALSE]
           pane == NewPane(Head(server.freshP), tab.id, w.id)
           layout == [tab |-> tab.id, ws |-> w.id, focusedPane |-> pane.id] IN
       Operate([server EXCEPT !.freshT = Tail(@), !.freshP = Tail(@),
                              !.tabs = Append(@, tab), !.panes = @ \cup {pane},
                              !.layouts = @ \cup {layout}],
               <<[type |-> "TabCreated", tab |-> tab], PaneSet(pane),
                 LayoutUpdated(layout)>>)

RenameTab(tab, label) ==
    Operate([server EXCEPT !.tabs = Relabelled(@, tab.id, label)],
            <<[type |-> "TabRenamed", id |-> tab.id, label |-> label]>>)

\* The first tab of a workspace becomes its last.
MoveTab(ws) ==
    LET inside(tab) == tab.ws = ws
        tabs == SeqWithout(server.tabs, LAMBDA tab : ~inside(tab))
        moved == Append(Tail(tabs), Head(tabs)) IN
    /\ Len(tabs) > 1
    /\ Operate([server EXCEPT !.tabs = SeqWithout(@, inside) \o moved],
               <<[type |-> "TabMoved", ws |-> ws, tabs |-> moved]>>)

CloseTab(tab) ==
    /\ ~tab.focused
    /\ LET inside(r) == r.tab = tab.id IN
       Operate([server EXCEPT !.tabs = SeqWithout(@, LAMBDA r : r.id = tab.id),
                              !.panes = Without(@, inside),
                              !.layouts = Without(@, inside)],
               <<[type |-> "TabClosed", id |-> tab.id]>>)

CreatePane(tab) ==
    /\ server.freshP # <<>>
    /\ LET pane == NewPane(Head(server.freshP), tab.id, tab.ws)
           layout == LayoutFor(tab.id, tab.ws, PanesIn(tab.id) \cup {pane},
                               FocusedPaneOf(tab.id)) IN
       Operate([server EXCEPT !.freshP = Tail(@), !.panes = @ \cup {pane},
                              !.layouts = ReplaceLayout(@, layout)],
               <<PaneSet(pane), LayoutUpdated(layout)>>)

ChangePane(pane, new, events) ==
    Operate([server EXCEPT !.panes = (@ \ {pane}) \cup {new}], events)

UpdatePane(pane) ==
    LET new == [pane EXCEPT !.rev = @ + 1] IN
    \/ ChangePane(pane, new, <<PaneSet(new)>>)
    \/ ChangePane(pane, new, <<[type |-> "PaneRevised", id |-> pane.id, rev |-> new.rev]>>)

\* A pane that is not its tab's last one, and not the focused one, closes.
ClosePane(pane) ==
    /\ ~pane.focused
    /\ PanesIn(pane.tab) # {pane}
    /\ LET layout == LayoutFor(pane.tab, pane.ws, PanesIn(pane.tab) \ {pane},
                               FocusedPaneOf(pane.tab)) IN
       Operate([server EXCEPT !.panes = @ \ {pane}, !.layouts = ReplaceLayout(@, layout)],
               <<[type |-> "PaneClosed", id |-> pane.id], LayoutUpdated(layout)>>)

\* A pane moves to another tab, and its old tab closes if it was the last one.
MovePane(pane, tab) ==
    /\ server.freshP # <<>>
    /\ ~pane.focused
    /\ tab.id # pane.tab
    /\ LET new == [pane EXCEPT !.id = Head(server.freshP), !.tab = tab.id, !.ws = tab.ws]
           rest == PanesIn(pane.tab) \ {pane}
           closes == rest = {}
           target == LayoutFor(tab.id, tab.ws, PanesIn(tab.id) \cup {new},
                               FocusedPaneOf(tab.id))
           source == IF closes THEN {}
                     ELSE {LayoutFor(pane.tab, pane.ws, rest, FocusedPaneOf(pane.tab))}
           layouts == {l \in server.layouts : l.tab \notin {tab.id, pane.tab}}
                         \cup source \cup {target} IN
       Operate([server EXCEPT
                   !.freshP = Tail(@),
                   !.panes = (@ \ {pane}) \cup {new},
                   !.names = [@ EXCEPT ![new.id] = server.names[pane.id]],
                   !.tabs = IF closes THEN SeqWithout(@, LAMBDA t : t.id = pane.tab) ELSE @,
                   !.layouts = layouts],
               <<[type |-> "PaneMoved", previous |-> pane.id, pane |-> new,
                  createdWorkspace |-> Absent, createdTab |-> Absent,
                  closedTab |-> IF closes THEN pane.tab ELSE Absent,
                  closedWorkspace |-> Absent]>>
                 \o S!SetToSeq({LayoutUpdated(l) : l \in source \cup {target}}))

\* A pane moves to a tab, and a workspace, made for it.
BreakOutPane(pane) ==
    /\ server.freshP # <<>> /\ server.freshT # <<>> /\ server.freshW # <<>>
    /\ ~pane.focused
    /\ PanesIn(pane.tab) # {pane}
    /\ LET w == [id |-> Head(server.freshW), label |-> "new", focused |-> FALSE]
           tab == [id |-> Head(server.freshT), ws |-> w.id, label |-> "new",
                   focused |-> FALSE]
           new == [pane EXCEPT !.id = Head(server.freshP), !.tab = tab.id, !.ws = w.id]
           target == [tab |-> tab.id, ws |-> w.id, focusedPane |-> new.id]
           source == LayoutFor(pane.tab, pane.ws, PanesIn(pane.tab) \ {pane},
                               FocusedPaneOf(pane.tab)) IN
       Operate([server EXCEPT
                   !.freshP = Tail(@), !.freshT = Tail(@), !.freshW = Tail(@),
                   !.panes = (@ \ {pane}) \cup {new},
                   !.names = [@ EXCEPT ![new.id] = server.names[pane.id]],
                   !.workspaces = Append(@, w), !.tabs = Append(@, tab),
                   !.layouts = ReplaceLayout(@, source) \cup {target}],
               <<[type |-> "PaneMoved", previous |-> pane.id, pane |-> new,
                  createdWorkspace |-> w, createdTab |-> tab,
                  closedTab |-> Absent, closedWorkspace |-> Absent],
                 LayoutUpdated(source), LayoutUpdated(target)>>)

FocusPane(pane) ==
    Operate([server EXCEPT
                !.workspaces = FocusedIn(@, pane.ws),
                !.tabs = FocusedIn(@, pane.tab),
                !.panes = {[p EXCEPT !.focused = (p = pane)] : p \in @},
                !.layouts = {IF l.tab = pane.tab THEN [l EXCEPT !.focusedPane = pane.id]
                             ELSE l : l \in @}],
            <<[type |-> "WorkspaceFocused", id |-> pane.ws],
              [type |-> "TabFocused", id |-> pane.tab],
              [type |-> "PaneFocused", id |-> pane.id]>>)

DetectAgent(pane, agent) ==
    /\ pane.agent # agent
    /\ ChangePane(pane, [pane EXCEPT !.agent = agent],
                  <<[type |-> "PaneAgentDetected", id |-> pane.id, agent |-> agent,
                     released |-> FALSE, finalStatus |-> Absent]>>)

ReleaseAgent(pane) ==
    /\ pane.agent # Absent
    /\ Operate([server EXCEPT
                   !.panes = (@ \ {pane}) \cup {[pane EXCEPT !.agent = Absent,
                                 !.display = Absent, !.status = "unknown"]},
                   !.names = [@ EXCEPT ![pane.id] = Absent]],
               <<[type |-> "PaneAgentDetected", id |-> pane.id, agent |-> Absent,
                  released |-> TRUE, finalStatus |-> "unknown"]>>)

ReportStatus(pane, status) ==
    /\ pane.agent # Absent
    /\ pane.status # status
    /\ ChangePane(pane, [pane EXCEPT !.status = status, !.display = "shown"],
                  <<[type |-> "PaneAgentStatusChanged", id |-> pane.id,
                     status |-> status, agent |-> pane.agent, display |-> "shown"]>>)

-----------------------------------------------------------------------------
(* The client *)

\* bootstrapSession: the snapshot becomes the cache, before the first event is
\* delivered.
Bootstrap ==
    /\ cache = Absent
    /\ applied = 0
    /\ cache' = newSessionCache(SnapshotOf(server))
    /\ UNCHANGED <<server, ops, log, applied>>

\* deliver and sessionState.apply: the next event pushed since Subscribe.
Apply ==
    /\ cache # Absent
    /\ applied < Len(log)
    /\ cache' = apply(cache, log[applied + 1])
    /\ applied' = applied + 1
    /\ UNCHANGED <<server, ops, log>>

Init ==
    /\ server = InitialServer
    /\ ops = 0
    /\ log = <<>>
    /\ cache = Absent
    /\ applied = 0

ServerStep ==
    \/ CreateWorkspace
    \/ MoveWorkspace
    \/ \E w \in S!Range(server.workspaces) :
          \/ \E label \in Labels : RenameWorkspace(w, label)
          \/ CloseWorkspace(w)
          \/ CreateTab(w)
          \/ MoveTab(w.id)
    \/ \E tab \in S!Range(server.tabs) :
          \/ \E label \in Labels : RenameTab(tab, label)
          \/ CloseTab(tab)
          \/ CreatePane(tab)
          \/ \E pane \in server.panes : MovePane(pane, tab)
    \/ \E pane \in server.panes :
          \/ UpdatePane(pane)
          \/ ClosePane(pane)
          \/ BreakOutPane(pane)
          \/ FocusPane(pane)
          \/ ReleaseAgent(pane)
          \/ \E agent \in Programs : DetectAgent(pane, agent)
          \/ \E status \in Statuses : ReportStatus(pane, status)

Next == ServerStep \/ Bootstrap \/ Apply

Spec == Init /\ [][Next]_vars

-----------------------------------------------------------------------------
(* Properties *)

Bootstrapped == cache # Absent

\* Every event pushed so far was applied.
CaughtUp == Bootstrapped /\ applied = Len(log)

Nameless(agents) == {[a EXCEPT !.name = Absent] : a \in agents}
TabsOf(s, ws) == Among(s, {tab \in S!Range(s) : tab.ws = ws})
FocusOf(records) ==
    IF \E r \in records : r.focused THEN (CHOOSE r \in records : r.focused).id
    ELSE Absent

\* orderedCollection: ids and entries of every collection agree after every
\* event, live or replayed: set, delete, deleteWhere, insertAt and reset keep
\* one place for each entry.
CollectionsWellFormed ==
    Bootstrapped =>
        /\ WellFormed(cache.workspaces)
        /\ WellFormed(cache.tabs)
        /\ WellFormed(cache.panes)
        /\ WellFormed(cache.agents)
        /\ WellFormed(cache.layouts)

\* The program is shown the server's state: its records, the workspaces and
\* the tabs of each in the server's order, the focus, and nothing else.
Shows(snapshot) ==
    /\ snapshot.workspaces = server.workspaces
    /\ S!Range(snapshot.tabs) = S!Range(server.tabs)
    /\ \A w \in S!Range(server.workspaces) :
          TabsOf(snapshot.tabs, w.id) = TabsOf(server.tabs, w.id)
    /\ S!Range(snapshot.panes) = server.panes
    /\ Nameless(S!Range(snapshot.agents)) = Nameless(AgentsOf(server))
    /\ S!Range(snapshot.layouts) = server.layouts
    /\ snapshot.focusedWorkspace = FocusOf(S!Range(server.workspaces))
    /\ snapshot.focusedTab = FocusOf(S!Range(server.tabs))
    /\ snapshot.focusedPane = FocusOf(server.panes)

\* Bootstrap and replay converge: when every event was applied the Session
\* reports what the server has, wherever in the log the snapshot was taken:
\* nothing closed stays, nothing moved is doubled, the focus is where the
\* server has it, also in the layouts, and agents agree with their panes.
MirrorMatchesServer ==
    CaughtUp =>
        /\ Shows(Snapshot(cache))
        /\ \A pane \in server.panes : Pane(cache, pane.id) = pane
        /\ \A layout \in server.layouts : Layout(cache, layout.tab) = layout

\* sessionCache.apply: "Applying the same event twice leaves the same state".
ApplyIsIdempotent ==
    Bootstrapped /\ applied > 0 => apply(cache, log[applied]) = cache

\* design.md: replay is safe "because every handler assigns state rather than
\* adjusting it".  The fields of an agent that only the snapshot reports must
\* then survive the replay.
SnapshotFieldsSurvive ==
    CaughtUp => S!Range(Agents(cache)) = AgentsOf(server)
=============================================================================
