---------------------------- MODULE SessionCache ----------------------------
(***************************************************************************)
(* sessionCache.apply: the reducer that folds one server event into the    *)
(* mirror (session_cache.go).  No I/O and no locking: pure operators.      *)
(*                                                                         *)
(* The records keep the fields that the handlers treat differently.  rev   *)
(* stands for every field of PaneInfo that only a whole new pane replaces  *)
(* and that AgentInfo repeats; display for the optional fields a status    *)
(* event may carry; name for the fields of AgentInfo that only a snapshot  *)
(* reports.  An event is a record whose type names the Go type.            *)
(***************************************************************************)
EXTENDS OrderedCollection

CONSTANT Absent   \* an Optional that is not set

\* The ids of a list of records, and those of a collection's records in a tab
\* or a workspace.
IdsOf(records) == [i \in DOMAIN records |-> records[i].id]
InTab(o, id) == {x \in DOMAIN o.entries : o.entries[x].tab = id}
InWorkspace(o, id) == {x \in DOMAIN o.entries : o.entries[x].ws = id}

\* Layouts are held by the tab they belong to.
newSessionCache(snapshot) ==
    [workspaces |-> Reset(IdsOf(snapshot.workspaces), snapshot.workspaces),
     tabs       |-> Reset(IdsOf(snapshot.tabs), snapshot.tabs),
     panes      |-> Reset(IdsOf(snapshot.panes), snapshot.panes),
     agents     |-> Reset(IdsOf(snapshot.agents), snapshot.agents),
     layouts    |-> Reset([i \in DOMAIN snapshot.layouts |-> snapshot.layouts[i].tab],
                          snapshot.layouts)]

\* The fields an AgentInfo shares with the pane it runs in.
mergeAgent(agent, pane) ==
    [id |-> pane.id, tab |-> pane.tab, ws |-> pane.ws, focused |-> pane.focused,
     agent |-> pane.agent, display |-> pane.display, status |-> pane.status,
     rev |-> pane.rev, name |-> agent.name]

\* The zero AgentInfo a map lookup returns for a pane without an entry.
AgentAt(c, id) ==
    IF Has(c.agents, id) THEN c.agents.entries[id] ELSE [name |-> Absent]

setPane(c, pane) ==
    [c EXCEPT !.panes = Set(@, pane.id, pane),
              !.agents = IF Has(@, pane.id)
                         THEN Set(@, pane.id, mergeAgent(@.entries[pane.id], pane))
                         ELSE @]

closePane(c, id) ==
    [c EXCEPT !.panes = Delete(@, id), !.agents = Delete(@, id)]

\* Mutant: the agents of a closed tab stay.
closeTabKeepAgents(c, id) ==
    [c EXCEPT !.tabs    = Delete(@, id),
              !.layouts = Delete(@, id),
              !.panes   = DeleteWhere(@, InTab(@, id))]

closeTab(c, id) ==
    [c EXCEPT !.tabs    = Delete(@, id),
              !.layouts = Delete(@, id),
              !.panes   = DeleteWhere(@, InTab(@, id)),
              !.agents  = DeleteWhere(@, InTab(@, id))]

closeWorkspace(c, id) ==
    [workspaces |-> Delete(c.workspaces, id),
     tabs       |-> DeleteWhere(c.tabs, InWorkspace(c.tabs, id)),
     panes      |-> DeleteWhere(c.panes, InWorkspace(c.panes, id)),
     agents     |-> DeleteWhere(c.agents, InWorkspace(c.agents, id)),
     layouts    |-> DeleteWhere(c.layouts, InWorkspace(c.layouts, id))]

\* A pane changes its id with the move, so its entries are rekeyed; then the
\* containers it left are closed.
movePane(c, e) ==
    LET created == [c EXCEPT
            !.workspaces = IF e.createdWorkspace = Absent THEN @
                           ELSE Set(@, e.createdWorkspace.id, e.createdWorkspace),
            !.tabs = IF e.createdTab = Absent THEN @
                     ELSE Set(@, e.createdTab.id, e.createdTab)]
        left == closePane(created, e.previous)
        moved == [left EXCEPT
            !.panes = Set(@, e.pane.id, e.pane),
            !.agents = IF Has(c.agents, e.previous)
                       THEN Set(@, e.pane.id,
                                mergeAgent(c.agents.entries[e.previous], e.pane))
                       ELSE @]
        tabClosed == IF e.closedTab = Absent THEN moved
                     ELSE closeTab(moved, e.closedTab)
    IN IF e.closedWorkspace = Absent THEN tabClosed
       ELSE closeWorkspace(tabClosed, e.closedWorkspace)

\* Mutant: the tabs are set where they are.
reorderTabsInPlace(c, ws, tabs) ==
    [c EXCEPT !.tabs = InsertAt(@, 0, IdsOf(tabs), tabs)]

reorderTabs(c, ws, tabs) ==
    LET inside == InWorkspace(c.tabs, ws) IN
    [c EXCEPT !.tabs = InsertAt(DeleteWhere(@, inside), FirstMatch(@, inside),
                                IdsOf(tabs), tabs)]

applyAgentDetected(c, e) ==
    LET hasPane == Has(c.panes, e.id)
        old == c.panes.entries[e.id]
        pane == [old EXCEPT
            !.agent = IF e.released THEN Absent ELSE e.agent,
            !.display = IF e.released THEN Absent ELSE @,
            !.status = IF e.finalStatus = Absent THEN @ ELSE e.finalStatus]
        panes == IF hasPane THEN Set(c.panes, e.id, pane) ELSE c.panes
        agents == IF e.released THEN Delete(c.agents, e.id)
                  ELSE IF ~hasPane THEN c.agents
                  ELSE Set(c.agents, e.id, mergeAgent(AgentAt(c, e.id), pane))
    IN [c EXCEPT !.panes = panes, !.agents = agents]

applyAgentStatus(c, e) ==
    LET hasPane == Has(c.panes, e.id)
        old == c.panes.entries[e.id]
        pane == [old EXCEPT
            !.status = e.status,
            !.agent = IF e.agent = Absent THEN @ ELSE e.agent,
            !.display = IF e.display = Absent THEN @ ELSE e.display]
        agent == c.agents.entries[e.id]
        panes == IF hasPane THEN Set(c.panes, e.id, pane) ELSE c.panes
        agents == IF ~Has(c.agents, e.id) THEN c.agents
                  ELSE IF hasPane THEN Set(c.agents, e.id, mergeAgent(agent, pane))
                  ELSE Set(c.agents, e.id, [agent EXCEPT !.status = e.status])
    IN [c EXCEPT !.panes = panes, !.agents = agents]

\* Mutant: the focused flag is adjusted, not assigned.
FocusToggled(o, id) ==
    Update(o, [x \in DOMAIN o.entries |->
                  [o.entries[x] EXCEPT !.focused = @ # (x = id)]])

\* The focused flag is exclusive across the session.
FocusOnly(o, id) ==
    Update(o, [x \in DOMAIN o.entries |-> [o.entries[x] EXCEPT !.focused = (x = id)]])

\* The layout of the pane's tab follows; the layouts of other tabs keep theirs.
focusPane(c, id) ==
    LET panes == FocusOnly(c.panes, id)
        tab == panes.entries[id].tab
        named == Has(panes, id) /\ Has(c.layouts, tab)
    IN [c EXCEPT !.panes = panes,
                 !.agents = FocusOnly(@, id),
                 !.layouts = IF named
                             THEN Set(@, tab, [@.entries[tab] EXCEPT !.focusedPane = id])
                             ELSE @]

\* An event that changes one field of a record that is held.
Relabel(o, id, label) ==
    IF Has(o, id) THEN Set(o, id, [o.entries[id] EXCEPT !.label = label]) ELSE o

apply(c, e) ==
    CASE e.type = "WorkspaceSet" ->       \* created, updated, metadata, worktree
            [c EXCEPT !.workspaces = Set(@, e.workspace.id, e.workspace)]
      [] e.type = "WorkspaceRenamed" ->
            [c EXCEPT !.workspaces = Relabel(@, e.id, e.label)]
      [] e.type = "WorkspaceMoved" ->     \* and reordered
            [c EXCEPT !.workspaces = Reset(IdsOf(e.workspaces), e.workspaces)]
      [] e.type = "WorkspaceFocused" ->
            [c EXCEPT !.workspaces = FocusOnly(@, e.id)]
      [] e.type = "WorkspaceClosed" -> closeWorkspace(c, e.id)
      [] e.type = "TabCreated" -> [c EXCEPT !.tabs = Set(@, e.tab.id, e.tab)]
      [] e.type = "TabRenamed" -> [c EXCEPT !.tabs = Relabel(@, e.id, e.label)]
      [] e.type = "TabMoved" -> reorderTabs(c, e.ws, e.tabs)
      [] e.type = "TabFocused" -> [c EXCEPT !.tabs = FocusOnly(@, e.id)]
      [] e.type = "TabClosed" -> closeTab(c, e.id)
      [] e.type = "PaneSet" -> setPane(c, e.pane)   \* created, updated
      [] e.type = "PaneMoved" -> movePane(c, e)
      [] e.type = "PaneFocused" -> focusPane(c, e.id)
      [] e.type = "PaneClosed" -> closePane(c, e.id)
      [] e.type = "PaneRevised" ->        \* output changed, scroll changed
            IF Has(c.panes, e.id)
            THEN setPane(c, [c.panes.entries[e.id] EXCEPT !.rev = e.rev])
            ELSE c
      [] e.type = "PaneAgentDetected" -> applyAgentDetected(c, e)
      [] e.type = "PaneAgentStatusChanged" -> applyAgentStatus(c, e)
      [] e.type = "LayoutUpdated" ->
            [c EXCEPT !.layouts = Set(@, e.layout.tab, e.layout)]
      [] OTHER -> c
=============================================================================
