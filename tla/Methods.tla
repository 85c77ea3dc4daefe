------------------------------- MODULE Methods -------------------------------
(***************************************************************************)
(* The methods of the API (methods_gen.go), one row each: the name on the  *)
(* wire, the type of the parameters, the type the answer is asserted to    *)
(* have and the result that type stands for.  Module Api says what the     *)
(* generated bodies do with a row.                                         *)
(***************************************************************************)
EXTENDS TLC

NoParams == "none"

Call(name, params, response, want) ==
    [kind |-> "call", name |-> name, params |-> params, response |-> response,
     want |-> want]

\* The methods that return any Result, and those that open a stream.
AnyResult(name, params) == [kind |-> "any", name |-> name, params |-> params]
Streaming(name, params) == [kind |-> "stream", name |-> name, params |-> params]

CallsFromAgentExplain ==
    [AgentExplain |-> Call("agent.explain", "AgentTarget",
           "AgentExplainResponse", "agent_explain"),
     AgentFocus |-> Call("agent.focus", "AgentTarget", "AgentInfoResponse",
           "agent_info"),
     AgentGet |-> Call("agent.get", "AgentTarget", "AgentInfoResponse",
           "agent_info"),
     AgentList |-> Call("agent.list", NoParams, "AgentListResponse",
           "agent_list"),
     AgentPrompt |-> Call("agent.prompt", "AgentPromptParams",
           "AgentPromptedResponse", "agent_prompted"),
     AgentRead |-> Call("agent.read", "AgentReadParams", "PaneReadResponse",
           "pane_read"),
     AgentRename |-> Call("agent.rename", "AgentRenameParams",
           "AgentInfoResponse", "agent_info"),
     AgentSendKeys |-> Call("agent.send_keys", "AgentSendKeysParams",
           "OKResponse", "ok")]

CallsFromAgentStart ==
    [AgentStart |-> Call("agent.start", "AgentStartParams",
           "AgentStartedResponse", "agent_started"),
     AgentViewClear |-> Call("agent.view.clear", "AgentViewClearParams",
           "AgentViewResponse", "agent_view"),
     AgentViewSet |-> Call("agent.view.set", "AgentViewSetParams",
           "AgentViewResponse", "agent_view"),
     AgentWait |-> Call("agent.wait", "AgentWaitParams", "AgentInfoResponse",
           "agent_info"),
     ClientShellSurfaceSet |-> Call("client_shell.surface.set",
           "ClientShellSurfaceSetParams", "ClientShellSurfaceSetResponse",
           "client_shell_surface_set"),
     ClientWindowTitleClear |-> Call("client.window_title.clear", NoParams,
           "ClientWindowTitleResponse", "client_window_title"),
     ClientWindowTitleSet |-> Call("client.window_title.set",
           "ClientWindowTitleSetParams", "ClientWindowTitleResponse",
           "client_window_title"),
     CommandInvoke |-> AnyResult("command.invoke", "CommandInvokeParams"),
     EventsSubscribe |-> Streaming("events.subscribe", "EventsSubscribeParams")]

CallsFromEventsWait ==
    [EventsWait |-> Call("events.wait", "EventsWaitParams",
           "WaitMatchedResponse", "wait_matched"),
     IntegrationInstall |-> Call("integration.install",
           "IntegrationInstallParams", "IntegrationInstallResponse",
           "integration_install"),
     IntegrationList |-> Call("integration.list", NoParams,
           "IntegrationListResponse", "integration_list"),
     IntegrationUninstall |-> Call("integration.uninstall",
           "IntegrationUninstallParams", "IntegrationUninstallResponse",
           "integration_uninstall"),
     LayoutApply |-> Call("layout.apply", "LayoutApplyParams",
           "LayoutApplyResponse", "layout_apply"),
     LayoutExport |-> Call("layout.export", "LayoutExportParams",
           "LayoutExportResponse", "layout_export"),
     LayoutSetSplitRatio |-> Call("layout.set_split_ratio",
           "LayoutSetSplitRatioParams", "LayoutSplitRatioSetResponse",
           "layout_split_ratio_set"),
     NotificationShow |-> Call("notification.show", "NotificationShowParams",
           "NotificationShowResponse", "notification_show")]

CallsFromPaneClear ==
    [PaneClear |-> Call("pane.clear", "PaneTarget", "OKResponse", "ok"),
     PaneClearAgentAuthority |-> Call("pane.clear_agent_authority",
           "PaneClearAgentAuthorityParams", "OKResponse", "ok"),
     PaneClose |-> Call("pane.close", "PaneTarget", "OKResponse", "ok"),
     PaneCopyMotion |-> Call("pane.copy_motion", "PaneCopyMotionParams",
           "PaneCopyMotionResponse", "pane_copy_motion"),
     PaneCopySearch |-> Call("pane.copy_search", "PaneCopySearchParams",
           "PaneCopySearchResponse", "pane_copy_search"),
     PaneCurrent |-> Call("pane.current", "PaneCurrentParams",
           "PaneCurrentResponse", "pane_current"),
     PaneEdges |-> Call("pane.edges", "PaneEdgesParams", "PaneEdgesResponse",
           "pane_edges"),
     PaneEditScrollback |-> Call("pane.edit_scrollback", "PaneTarget",
           "OKResponse", "ok")]

CallsFromPaneFocus ==
    [PaneFocus |-> Call("pane.focus", "PaneTarget", "PaneInfoResponse",
           "pane_info"),
     PaneFocusDirection |-> Call("pane.focus_direction",
           "PaneFocusDirectionParams", "PaneFocusDirectionResponse",
           "pane_focus_direction"),
     PaneGet |-> Call("pane.get", "PaneTarget", "PaneInfoResponse",
           "pane_info"),
     PaneInputSet |-> Call("pane.input.set", "PaneInputSetParams",
           "OKResponse", "ok"),
     PaneLayout |-> Call("pane.layout", "PaneLayoutParams",
           "PaneLayoutResponse", "pane_layout"),
     PaneLinkActivate |-> Call("pane.link.activate", "PaneLinkActivateParams",
           "PaneLinkActivatedResponse", "pane_link_activated"),
     PaneLinkResolve |-> Call("pane.link.resolve", "PaneLinkActivateParams",
           "PaneLinkResolvedResponse", "pane_link_resolved"),
     PaneList |-> Call("pane.list", "PaneListParams", "PaneListResponse",
           "pane_list")]

CallsFromPaneMove ==
    [PaneMove |-> Call("pane.move", "PaneMoveParams", "PaneMoveResponse",
           "pane_move"),
     PaneNeighbor |-> Call("pane.neighbor", "PaneNeighborParams",
           "PaneNeighborResponse", "pane_neighbor"),
     PaneProcessInfo |-> Call("pane.process_info", "PaneProcessInfoParams",
           "PaneProcessInfoResponse", "pane_process_info"),
     PaneRead |-> Call("pane.read", "PaneReadParams", "PaneReadResponse",
           "pane_read"),
     PaneReleaseAgent |-> Call("pane.release_agent", "PaneReleaseAgentParams",
           "OKResponse", "ok"),
     PaneRename |-> Call("pane.rename", "PaneRenameParams", "PaneInfoResponse",
           "pane_info"),
     PaneReportAgent |-> Call("pane.report_agent", "PaneReportAgentParams",
           "OKResponse", "ok"),
     PaneReportAgentSession |-> Call("pane.report_agent_session",
           "PaneReportAgentSessionParams", "OKResponse", "ok")]

CallsFromPaneReportMetadata ==
    [PaneReportMetadata |-> Call("pane.report_metadata",
           "PaneReportMetadataParams", "OKResponse", "ok"),
     PaneResize |-> Call("pane.resize", "PaneResizeParams",
           "PaneResizeResponse", "pane_resize"),
     PaneScroll |-> Call("pane.scroll", "PaneScrollParams", "PaneInfoResponse",
           "pane_info"),
     PaneSelectionRead |-> Call("pane.selection.read",
           "PaneSelectionReadParams", "PaneSelectionResponse",
           "pane_selection"),
     PaneSendInput |-> Call("pane.send_input", "PaneSendInputParams",
           "OKResponse", "ok"),
     PaneSendKeys |-> Call("pane.send_keys", "PaneSendKeysParams",
           "OKResponse", "ok"),
     PaneSendText |-> Call("pane.send_text", "PaneSendTextParams",
           "OKResponse", "ok"),
     PaneSplit |-> Call("pane.split", "PaneSplitParams", "PaneInfoResponse",
           "pane_info")]

CallsFromPaneSwap ==
    [PaneSwap |-> Call("pane.swap", "PaneSwapParams", "PaneSwapResponse",
           "pane_swap"),
     PaneWaitForOutput |-> Call("pane.wait_for_output",
           "PaneWaitForOutputParams", "OutputMatchedResponse",
           "output_matched"),
     PaneZoom |-> Call("pane.zoom", "PaneZoomParams", "PaneZoomResponse",
           "pane_zoom"),
     Ping |-> Call("ping", NoParams, "PongResponse", "pong"),
     PluginActionInvoke |-> Call("plugin.action.invoke",
           "PluginActionInvokeParams", "PluginActionInvokedResponse",
           "plugin_action_invoked"),
     PluginActionList |-> Call("plugin.action.list", "PluginActionListParams",
           "PluginActionListResponse", "plugin_action_list"),
     PluginDisable |-> Call("plugin.disable", "PluginSetEnabledParams",
           "PluginDisabledResponse", "plugin_disabled"),
     PluginEnable |-> Call("plugin.enable", "PluginSetEnabledParams",
           "PluginEnabledResponse", "plugin_enabled")]

CallsFromPluginLink ==
    [PluginLink |-> Call("plugin.link", "PluginLinkParams",
           "PluginLinkedResponse", "plugin_linked"),
     PluginList |-> Call("plugin.list", "PluginListParams",
           "PluginListResponse", "plugin_list"),
     PluginLogList |-> Call("plugin.log.list", "PluginLogListParams",
           "PluginLogListResponse", "plugin_log_list"),
     PluginPaneClose |-> Call("plugin.pane.close", "PluginPaneCloseParams",
           "PluginPaneClosedResponse", "plugin_pane_closed"),
     PluginPaneFocus |-> Call("plugin.pane.focus", "PluginPaneFocusParams",
           "PluginPaneFocusedResponse", "plugin_pane_focused"),
     PluginPaneOpen |-> AnyResult("plugin.pane.open", "PluginPaneOpenParams"),
     PluginUnlink |-> Call("plugin.unlink", "PluginUnlinkParams",
           "PluginUnlinkedResponse", "plugin_unlinked"),
     PopupClose |-> Call("popup.close", NoParams, "OKResponse", "ok"),
     ProductAnnouncementDismiss |-> Call("product_announcement.dismiss",
           "ProductAnnouncementDismissParams", "OKResponse", "ok")]

CallsFromReleaseNotesDismiss ==
    [ReleaseNotesDismiss |-> Call("release_notes.dismiss",
           "ReleaseNotesDismissParams", "OKResponse", "ok"),
     ServerAgentManifests |-> Call("server.agent_manifests", NoParams,
           "AgentManifestStatusResponse", "agent_manifest_status"),
     ServerLiveHandoff |-> AnyResult("server.live_handoff",
           "ServerLiveHandoffParams"),
     ServerReloadAgentManifests |-> Call("server.reload_agent_manifests",
           NoParams, "AgentManifestReloadResponse",
           "agent_manifest_reload"),
     ServerReloadConfig |-> Call("server.reload_config", NoParams,
           "ConfigReloadResponse", "config_reload"),
     ServerSshAgentRegister |-> Streaming("server.ssh_agent.register",
           "ServerSshAgentRegisterParams"),
     ServerStop |-> Call("server.stop", NoParams, "OKResponse", "ok"),
     SessionSnapshot |-> Call("session.snapshot", NoParams,
           "SessionSnapshotResponse", "session_snapshot"),
     TabClose |-> Call("tab.close", "TabTarget", "OKResponse", "ok")]

CallsFromTabCreate ==
    [TabCreate |-> Call("tab.create", "TabCreateParams", "TabCreatedResponse",
           "tab_created"),
     TabFocus |-> Call("tab.focus", "TabTarget", "TabInfoResponse", "tab_info"),
     TabGet |-> Call("tab.get", "TabTarget", "TabInfoResponse", "tab_info"),
     TabList |-> Call("tab.list", "TabListParams", "TabListResponse",
           "tab_list"),
     TabMove |-> Call("tab.move", "TabMoveParams", "TabListResponse",
           "tab_list"),
     TabRename |-> Call("tab.rename", "TabRenameParams", "TabInfoResponse",
           "tab_info"),
     WorkspaceClose |-> Call("workspace.close", "WorkspaceCloseParams",
           "OKResponse", "ok"),
     WorkspaceCreate |-> Call("workspace.create", "WorkspaceCreateParams",
           "WorkspaceCreatedResponse", "workspace_created")]

CallsFromWorkspaceFocus ==
    [WorkspaceFocus |-> Call("workspace.focus", "WorkspaceTarget",
           "WorkspaceInfoResponse", "workspace_info"),
     WorkspaceGet |-> Call("workspace.get", "WorkspaceTarget",
           "WorkspaceInfoResponse", "workspace_info"),
     WorkspaceList |-> Call("workspace.list", NoParams,
           "WorkspaceListResponse", "workspace_list"),
     WorkspaceMove |-> Call("workspace.move", "WorkspaceMoveParams",
           "WorkspaceListResponse", "workspace_list"),
     WorkspaceMoveBlock |-> Call("workspace.move_block",
           "WorkspaceMoveBlockParams", "WorkspaceListResponse",
           "workspace_list"),
     WorkspaceRename |-> Call("workspace.rename", "WorkspaceRenameParams",
           "WorkspaceInfoResponse", "workspace_info"),
     WorkspaceReportMetadata |-> Call("workspace.report_metadata",
           "WorkspaceReportMetadataParams", "OKResponse", "ok"),
     WorktreeCreate |-> Call("worktree.create", "WorktreeCreateParams",
           "WorktreeCreatedResponse", "worktree_created")]

CallsFromWorktreeList ==
    [WorktreeList |-> Call("worktree.list", "WorktreeListParams",
           "WorktreeListResponse", "worktree_list"),
     WorktreeOpen |-> Call("worktree.open", "WorktreeOpenParams",
           "WorktreeOpenedResponse", "worktree_opened"),
     WorktreeRemove |-> Call("worktree.remove", "WorktreeRemoveParams",
           "WorktreeRemovedResponse", "worktree_removed")]

-----------------------------------------------------------------------------
DeclaredMethods ==
    CallsFromAgentExplain @@ CallsFromAgentStart @@ CallsFromEventsWait @@
    CallsFromPaneClear @@ CallsFromPaneFocus @@ CallsFromPaneMove @@
    CallsFromPaneReportMetadata @@ CallsFromPaneSwap @@ CallsFromPluginLink @@
    CallsFromReleaseNotesDismiss @@ CallsFromTabCreate @@
    CallsFromWorkspaceFocus @@ CallsFromWorktreeList
=============================================================================
