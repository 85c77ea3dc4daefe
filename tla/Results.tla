------------------------------- MODULE Results -------------------------------
(***************************************************************************)
(* The results of the API (results_gen.go): the cases of DecodeResult and  *)
(* the types they decode into.  A result's ResultType is the tag that its  *)
(* MarshalJSON writes.                                                     *)
(***************************************************************************)
EXTENDS Types

Result(name, fields) == Tagged("type", name, fields)

DecodeResultFrom_agent_explain ==
    "agent_explain" :> "AgentExplainResponse" @@ "agent_info" :> "AgentInfoResponse"
    @@ "agent_list" :> "AgentListResponse" @@
    "agent_manifest_reload" :> "AgentManifestReloadResponse" @@
    "agent_manifest_status" :> "AgentManifestStatusResponse" @@
    "agent_prompted" :> "AgentPromptedResponse" @@
    "agent_started" :> "AgentStartedResponse" @@ "agent_view" :> "AgentViewResponse"
    @@ "client_shell_surface_set" :> "ClientShellSurfaceSetResponse" @@
    "client_window_title" :> "ClientWindowTitleResponse" @@
    "config_reload" :> "ConfigReloadResponse" @@
    "integration_install" :> "IntegrationInstallResponse" @@
    "integration_list" :> "IntegrationListResponse" @@
    "integration_uninstall" :> "IntegrationUninstallResponse" @@
    "layout_apply" :> "LayoutApplyResponse" @@
    "layout_export" :> "LayoutExportResponse" @@
    "layout_split_ratio_set" :> "LayoutSplitRatioSetResponse" @@
    "notification_show" :> "NotificationShowResponse" @@ "ok" :> "OKResponse" @@
    "output_matched" :> "OutputMatchedResponse" @@
    "pane_copy_motion" :> "PaneCopyMotionResponse" @@
    "pane_copy_search" :> "PaneCopySearchResponse" @@
    "pane_current" :> "PaneCurrentResponse" @@ "pane_edges" :> "PaneEdgesResponse"
    @@ "pane_focus_direction" :> "PaneFocusDirectionResponse"

DecodeResultFrom_pane_info ==
    "pane_info" :> "PaneInfoResponse" @@ "pane_layout" :> "PaneLayoutResponse" @@
    "pane_link_activated" :> "PaneLinkActivatedResponse" @@
    "pane_link_resolved" :> "PaneLinkResolvedResponse" @@
    "pane_list" :> "PaneListResponse" @@ "pane_move" :> "PaneMoveResponse" @@
    "pane_neighbor" :> "PaneNeighborResponse" @@
    "pane_process_info" :> "PaneProcessInfoResponse" @@
    "pane_read" :> "PaneReadResponse" @@ "pane_resize" :> "PaneResizeResponse" @@
    "pane_selection" :> "PaneSelectionResponse" @@ "pane_swap" :> "PaneSwapResponse"
    @@ "pane_zoom" :> "PaneZoomResponse" @@
    "plugin_action_invoked" :> "PluginActionInvokedResponse" @@
    "plugin_action_list" :> "PluginActionListResponse" @@
    "plugin_disabled" :> "PluginDisabledResponse" @@
    "plugin_enabled" :> "PluginEnabledResponse" @@
    "plugin_linked" :> "PluginLinkedResponse" @@
    "plugin_list" :> "PluginListResponse" @@
    "plugin_log_list" :> "PluginLogListResponse" @@
    "plugin_pane_closed" :> "PluginPaneClosedResponse" @@
    "plugin_pane_focused" :> "PluginPaneFocusedResponse" @@
    "plugin_pane_opened" :> "PluginPaneOpenedResponse" @@
    "plugin_unlinked" :> "PluginUnlinkedResponse" @@ "pong" :> "PongResponse"

DecodeResultFrom_session_snapshot ==
    "session_snapshot" :> "SessionSnapshotResponse" @@
    "subscription_started" :> "SubscriptionStartedResponse" @@
    "tab_created" :> "TabCreatedResponse" @@ "tab_info" :> "TabInfoResponse" @@
    "tab_list" :> "TabListResponse" @@ "wait_matched" :> "WaitMatchedResponse" @@
    "workspace_created" :> "WorkspaceCreatedResponse" @@
    "workspace_info" :> "WorkspaceInfoResponse" @@
    "workspace_list" :> "WorkspaceListResponse" @@
    "worktree_created" :> "WorktreeCreatedResponse" @@
    "worktree_list" :> "WorktreeListResponse" @@
    "worktree_opened" :> "WorktreeOpenedResponse" @@
    "worktree_removed" :> "WorktreeRemovedResponse"

FromAgentExplainResponse ==
    [AgentExplainResponse |-> Result("agent_explain", [Explain |-> Raw]),
      AgentInfoResponse |-> Result("agent_info", [Agent |-> Of("AgentInfo")]),
      AgentListResponse |-> Result("agent_list",
         [Agents |-> Slice(Of("AgentInfo"))]),
      AgentManifestReloadResponse |-> Result("agent_manifest_reload",
         [Manifests |-> Slice(Of("AgentManifestInfo"))]),
      AgentManifestStatusResponse |-> Result("agent_manifest_status",
         Opts({"LastCheckUnix", "LastResult"}) @@
         [Manifests |-> Slice(Of("AgentManifestInfo"))])]

FromAgentPromptedResponse ==
    [AgentPromptedResponse |-> Result("agent_prompted",
         [Agent |-> Of("AgentInfo")]),
      AgentStartedResponse |-> Result("agent_started", [Agent |-> Of("AgentInfo"),
         Argv |-> Slice(Scalar)]),
      AgentViewResponse |-> Result("agent_view", Opts({"Label", "Source"})),
      ClientShellSurfaceSetResponse |-> Result("client_shell_surface_set",
         NoFields),
      ClientWindowTitleResponse |-> Result("client_window_title", NoFields)]

FromConfigReloadResponse ==
    [ConfigReloadResponse |-> Result("config_reload",
         [Diagnostics |-> Slice(Scalar)]),
      IntegrationInstallResponse |-> Result("integration_install",
         [Details |-> Of("IntegrationInstallResult")]),
      IntegrationListResponse |-> Result("integration_list",
         [Integrations |-> Slice(Of("IntegrationInfo"))]),
      IntegrationUninstallResponse |-> Result("integration_uninstall",
         [Details |-> Of("IntegrationUninstallResult")]),
      LayoutApplyResponse |-> Result("layout_apply",
         [Layout |-> Of("LayoutDescription")])]

FromLayoutExportResponse ==
    [LayoutExportResponse |-> Result("layout_export",
         [Layout |-> Of("LayoutDescription")]),
      LayoutSplitRatioSetResponse |-> Result("layout_split_ratio_set",
         [Layout |-> Of("LayoutDescription")]),
      NotificationShowResponse |-> Result("notification_show", NoFields),
      OKResponse |-> Result("ok", NoFields),
      OutputMatchedResponse |-> Result("output_matched", Opts({"MatchedLine"}) @@
         [Read |-> Of("PaneReadResult")]),
      PaneCopyMotionResponse |-> Result("pane_copy_motion",
         [Cursor |-> Of("PaneTextPoint")])]

FromPaneCopySearchResponse ==
    [PaneCopySearchResponse |-> Result("pane_copy_search", Opts({"Current",
         "CurrentGlobal"}) @@ [Matches |-> Slice(Of("PaneTextRange"))]),
      PaneCurrentResponse |-> Result("pane_current", [Pane |-> Of("PaneInfo")]),
      PaneEdgesResponse |-> Result("pane_edges", [Edges |-> Of("PaneEdgesResult")]),
      PaneFocusDirectionResponse |-> Result("pane_focus_direction",
         [Focus |-> Of("PaneFocusDirectionResult")]),
      PaneInfoResponse |-> Result("pane_info", [Pane |-> Of("PaneInfo")])]

FromPaneLayoutResponse ==
    [PaneLayoutResponse |-> Result("pane_layout",
         [Layout |-> Of("PaneLayoutSnapshot")]),
      PaneLinkActivatedResponse |-> Result("pane_link_activated", Opts({"URL"})),
      PaneLinkResolvedResponse |-> Result("pane_link_resolved",
         [Regions |-> Slice(Of("PaneLinkRegion"))]),
      PaneListResponse |-> Result("pane_list", [Panes |-> Slice(Of("PaneInfo"))]),
      PaneMoveResponse |-> Result("pane_move",
         [MoveResult |-> Of("PaneMoveResult")])]

FromPaneNeighborResponse ==
    [PaneNeighborResponse |-> Result("pane_neighbor",
         [Neighbor |-> Of("PaneNeighborResult")]),
      PaneProcessInfoResponse |-> Result("pane_process_info",
         [ProcessInfo |-> Of("PaneProcessInfo")]),
      PaneReadResponse |-> Result("pane_read", [Read |-> Of("PaneReadResult")]),
      PaneResizeResponse |-> Result("pane_resize",
         [Resize |-> Of("PaneResizeResult")]),
      PaneSelectionResponse |-> Result("pane_selection", NoFields),
      PaneSwapResponse |-> Result("pane_swap", [Swap |-> Of("PaneSwapResult")])]

FromPaneZoomResponse ==
    [PaneZoomResponse |-> Result("pane_zoom", [Zoom |-> Of("PaneZoomResult")]),
      PluginActionInvokedResponse |-> Result("plugin_action_invoked",
         [Action |-> Of("PluginActionInfo"),
         Context |-> Of("PluginInvocationContext"),
         Log |-> Of("PluginCommandLogInfo")]),
      PluginActionListResponse |-> Result("plugin_action_list",
         [Actions |-> Slice(Of("PluginActionInfo"))]),
      PluginDisabledResponse |-> Result("plugin_disabled",
         [Plugin |-> Of("InstalledPluginInfo")]),
      PluginEnabledResponse |-> Result("plugin_enabled",
         [Plugin |-> Of("InstalledPluginInfo")])]

FromPluginLinkedResponse ==
    [PluginLinkedResponse |-> Result("plugin_linked",
         [Plugin |-> Of("InstalledPluginInfo")]),
      PluginListResponse |-> Result("plugin_list",
         [Plugins |-> Slice(Of("InstalledPluginInfo"))]),
      PluginLogListResponse |-> Result("plugin_log_list",
         [Logs |-> Slice(Of("PluginCommandLogInfo"))]),
      PluginPaneClosedResponse |-> Result("plugin_pane_closed", NoFields),
      PluginPaneFocusedResponse |-> Result("plugin_pane_focused",
         [PluginPane |-> Of("PluginPaneInfo")])]

FromPluginPaneOpenedResponse ==
    [PluginPaneOpenedResponse |-> Result("plugin_pane_opened",
         [PluginPane |-> Of("PluginPaneInfo")]),
      PluginUnlinkedResponse |-> Result("plugin_unlinked", NoFields),
      PongResponse |-> Result("pong",
         [Capabilities |-> Opt(Of("ServerCapabilities"))]),
      SessionSnapshotResponse |-> Result("session_snapshot",
         [Snapshot |-> Of("SessionSnapshot")]),
      SubscriptionStartedResponse |-> Result("subscription_started", NoFields),
      TabCreatedResponse |-> Result("tab_created", [RootPane |-> Of("PaneInfo"),
         Tab |-> Of("TabInfo")])]

FromTabInfoResponse ==
    [TabInfoResponse |-> Result("tab_info", [Tab |-> Of("TabInfo")]),
      TabListResponse |-> Result("tab_list", [Tabs |-> Slice(Of("TabInfo"))]),
      WaitMatchedResponse |-> Result("wait_matched",
         [Event |-> Of("EventEnvelope")]),
      WorkspaceCreatedResponse |-> Result("workspace_created",
         [RootPane |-> Of("PaneInfo"), Tab |-> Of("TabInfo"),
         Workspace |-> Of("WorkspaceInfo")]),
      WorkspaceInfoResponse |-> Result("workspace_info",
         [Workspace |-> Of("WorkspaceInfo")])]

FromWorkspaceListResponse ==
    [WorkspaceListResponse |-> Result("workspace_list",
         [Workspaces |-> Slice(Of("WorkspaceInfo"))]),
      WorktreeCreatedResponse |-> Result("worktree_created",
         [RootPane |-> Of("PaneInfo"), Tab |-> Of("TabInfo"),
         Workspace |-> Of("WorkspaceInfo"), Worktree |-> Of("WorktreeInfo")]),
      WorktreeListResponse |-> Result("worktree_list",
         [Source |-> Of("WorktreeSourceInfo"),
         Worktrees |-> Slice(Of("WorktreeInfo"))]),
      WorktreeOpenedResponse |-> Result("worktree_opened",
         [RootPane |-> Of("PaneInfo"), Tab |-> Of("TabInfo"),
         Workspace |-> Of("WorkspaceInfo"), Worktree |-> Of("WorktreeInfo")]),
      WorktreeRemovedResponse |-> Result("worktree_removed", NoFields)]

-----------------------------------------------------------------------------
DecodeResultSwitch ==
    Switch("type", DecodeResultFrom_agent_explain @@ DecodeResultFrom_pane_info @@
        DecodeResultFrom_session_snapshot)

DeclaredResults ==
    FromAgentExplainResponse @@ FromAgentPromptedResponse @@
    FromConfigReloadResponse @@ FromLayoutExportResponse @@
    FromPaneCopySearchResponse @@ FromPaneLayoutResponse @@ FromPaneNeighborResponse
    @@ FromPaneZoomResponse @@ FromPluginLinkedResponse @@
    FromPluginPaneOpenedResponse @@ FromTabInfoResponse @@ FromWorkspaceListResponse
=============================================================================
