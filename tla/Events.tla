-------------------------------- MODULE Events --------------------------------
(***************************************************************************)
(* The events of the API (events_gen.go): their names, their payloads, and *)
(* the cases of cloneEvent and DecodeEvent.                                *)
(*                                                                         *)
(* A name is a triple: what precedes the first separator, the separator    *)
(* and what follows, because the code turns the first underscore of        *)
(* "pane_agent_detected" into a dot and back.                              *)
(***************************************************************************)
EXTENDS Types

Under(head, tails) == {<<head, "_", tail>> : tail \in tails}

\* A payload whose MarshalJSON adds the variant's name as "type", and one
\* that is carried by a dedicated subscription only and has no "type".
Event(head, tail, fields) ==
    [fields |-> fields, tag |-> <<"type", <<head, "_", tail>>>>,
     event |-> <<head, ".", tail>>]
Dedicated(head, tail, fields) == Fields(fields) @@ [event |-> <<head, ".", tail>>]

cloneEventToTabFocusedEvent ==
    {"LayoutUpdatedEvent", "PaneAgentDetectedEvent", "PaneAgentStatusChangedEvent",
     "PaneClosedEvent", "PaneCreatedEvent", "PaneExitedEvent", "PaneFocusedEvent",
     "PaneMovedEvent", "PaneOutputChangedEvent", "PaneOutputMatchedEvent",
     "PaneScrollChangedEvent", "PaneUpdatedEvent", "TabClosedEvent",
     "TabCreatedEvent", "TabFocusedEvent"}

cloneEventFromTabMovedEvent ==
    {"TabMovedEvent", "TabRenamedEvent", "WorkspaceClosedEvent",
     "WorkspaceCreatedEvent", "WorkspaceFocusedEvent",
     "WorkspaceMetadataUpdatedEvent", "WorkspaceMovedEvent",
     "WorkspaceRenamedEvent", "WorkspaceReorderedEvent", "WorkspaceUpdatedEvent",
     "WorktreeCreatedEvent", "WorktreeOpenedEvent", "WorktreeRemovedEvent"}

DedicatedEvents ==
    <<"pane", ".", "output_matched">> :> "PaneOutputMatchedEvent"
    @@ <<"pane", ".", "agent_status_changed">> :> "PaneAgentStatusChangedEvent"
    @@ <<"pane", ".", "scroll_changed">> :> "PaneScrollChangedEvent"

EventVariants ==
    <<"layout", "_", "updated">> :> "LayoutUpdatedEvent"
    @@ <<"pane", "_", "agent_detected">> :> "PaneAgentDetectedEvent"
    @@ <<"pane", "_", "agent_status_changed">> :> "PaneAgentStatusChangedEvent"
    @@ <<"pane", "_", "closed">> :> "PaneClosedEvent"
    @@ <<"pane", "_", "created">> :> "PaneCreatedEvent"
    @@ <<"pane", "_", "exited">> :> "PaneExitedEvent"
    @@ <<"pane", "_", "focused">> :> "PaneFocusedEvent"
    @@ <<"pane", "_", "moved">> :> "PaneMovedEvent"
    @@ <<"pane", "_", "output_changed">> :> "PaneOutputChangedEvent"
    @@ <<"pane", "_", "updated">> :> "PaneUpdatedEvent"
    @@ <<"tab", "_", "closed">> :> "TabClosedEvent"
    @@ <<"tab", "_", "created">> :> "TabCreatedEvent"
    @@ <<"tab", "_", "focused">> :> "TabFocusedEvent"
    @@ <<"tab", "_", "moved">> :> "TabMovedEvent"
    @@ <<"tab", "_", "renamed">> :> "TabRenamedEvent"
    @@ <<"workspace", "_", "closed">> :> "WorkspaceClosedEvent"
    @@ <<"workspace", "_", "created">> :> "WorkspaceCreatedEvent"
    @@ <<"workspace", "_", "focused">> :> "WorkspaceFocusedEvent"
    @@ <<"workspace", "_", "metadata_updated">> :> "WorkspaceMetadataUpdatedEvent"
    @@ <<"workspace", "_", "moved">> :> "WorkspaceMovedEvent"
    @@ <<"workspace", "_", "renamed">> :> "WorkspaceRenamedEvent"
    @@ <<"workspace", "_", "reordered">> :> "WorkspaceReorderedEvent"
    @@ <<"workspace", "_", "updated">> :> "WorkspaceUpdatedEvent"
    @@ <<"worktree", "_", "created">> :> "WorktreeCreatedEvent"
    @@ <<"worktree", "_", "opened">> :> "WorktreeOpenedEvent"
    @@ <<"worktree", "_", "removed">> :> "WorktreeRemovedEvent"

FromLayoutUpdatedEvent ==
    [LayoutUpdatedEvent |-> Event("layout", "updated",
         [Layout |-> Of("PaneLayoutSnapshot")]),
     PaneAgentDetectedEvent |-> Event("pane", "agent_detected", Opts({"Agent",
         "FinalStatus", "Released"})),
     PaneAgentStatusChangedEvent |-> Event("pane", "agent_status_changed",
         Opts({"Agent", "DisplayAgent", "Title"}) @@
         [StateLabels |-> Opt(Map(Scalar))]),
     PaneClosedEvent |-> Event("pane", "closed", NoFields),
     PaneCreatedEvent |-> Event("pane", "created", [Pane |-> Of("PaneInfo")])]

FromPaneExitedEvent ==
    [PaneExitedEvent |-> Event("pane", "exited", NoFields),
     PaneFocusedEvent |-> Event("pane", "focused", NoFields),
     PaneMovedEvent |-> Event("pane", "moved", Opts({"ClosedTabID",
         "ClosedWorkspaceID"}) @@ [CreatedTab |-> Opt(Of("TabInfo")),
         CreatedWorkspace |-> Opt(Of("WorkspaceInfo")),
         Pane |-> Of("PaneInfo")]),
     PaneOutputChangedEvent |-> Event("pane", "output_changed", NoFields),
     PaneOutputMatchedEvent |-> Dedicated("pane", "output_matched",
         [Read |-> Of("PaneReadResult")]),
     PaneScrollChangedEvent |-> Dedicated("pane", "scroll_changed",
         [Scroll |-> Of("PaneScrollInfo")])]

FromPaneUpdatedEvent ==
    [PaneUpdatedEvent |-> Event("pane", "updated", [Pane |-> Of("PaneInfo")]),
     TabClosedEvent |-> Event("tab", "closed", NoFields),
     TabCreatedEvent |-> Event("tab", "created", [Tab |-> Of("TabInfo")]),
     TabFocusedEvent |-> Event("tab", "focused", NoFields),
     TabMovedEvent |-> Event("tab", "moved", [Tabs |-> Slice(Of("TabInfo"))])]

FromTabRenamedEvent ==
    [TabRenamedEvent |-> Event("tab", "renamed", NoFields),
     WorkspaceClosedEvent |-> Event("workspace", "closed",
         [Workspace |-> Opt(Of("WorkspaceInfo"))]),
     WorkspaceCreatedEvent |-> Event("workspace", "created",
         [Workspace |-> Of("WorkspaceInfo")]),
     WorkspaceFocusedEvent |-> Event("workspace", "focused", NoFields),
     WorkspaceMetadataUpdatedEvent |-> Event("workspace", "metadata_updated",
         [Workspace |-> Of("WorkspaceInfo")])]

FromWorkspaceMovedEvent ==
    [WorkspaceMovedEvent |-> Event("workspace", "moved",
         [Workspaces |-> Slice(Of("WorkspaceInfo"))]),
     WorkspaceRenamedEvent |-> Event("workspace", "renamed", NoFields),
     WorkspaceReorderedEvent |-> Event("workspace", "reordered",
         Opts({"BeforeWorkspaceID"}) @@ [WorkspaceIds |-> Slice(Scalar),
         Workspaces |-> Slice(Of("WorkspaceInfo"))]),
     WorkspaceUpdatedEvent |-> Event("workspace", "updated",
         [Workspace |-> Of("WorkspaceInfo")]),
     WorktreeCreatedEvent |-> Event("worktree", "created",
         [Workspace |-> Of("WorkspaceInfo"), Worktree |-> Of("WorktreeInfo")])]

FromWorktreeOpenedEvent ==
    [WorktreeOpenedEvent |-> Event("worktree", "opened",
         [Workspace |-> Of("WorkspaceInfo"), Worktree |-> Of("WorktreeInfo")]),
     WorktreeRemovedEvent |-> Event("worktree", "removed",
         [Workspace |-> Opt(Of("WorkspaceInfo")),
         Worktree |-> Of("WorktreeInfo")])]

-----------------------------------------------------------------------------
cloneEvent == cloneEventToTabFocusedEvent \cup cloneEventFromTabMovedEvent

DeclaredEvents ==
    FromLayoutUpdatedEvent @@ FromPaneExitedEvent @@ FromPaneUpdatedEvent @@
    FromTabRenamedEvent @@ FromWorkspaceMovedEvent @@ FromWorktreeOpenedEvent
=============================================================================
