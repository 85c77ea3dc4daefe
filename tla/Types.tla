-------------------------------- MODULE Types --------------------------------
(***************************************************************************)
(* The Go types of the protocol (types_gen.go), as far as copying and      *)
(* encoding tell them apart: for each struct its fields that hold an       *)
(* optional, a reference or another struct, and its tag if it is a variant *)
(* of a union.  Required scalars and enums are left out.  The generated    *)
(* methods (Clone, MarshalJSON, UnmarshalJSON) follow these declarations;  *)
(* module Values says how.                                                 *)
(*                                                                         *)
(* FromX is the part of the file that begins with the declaration of X.    *)
(***************************************************************************)
EXTENDS TLC

-----------------------------------------------------------------------------
(* Shapes of fields. *)

Scalar == [kind |-> "scalar"]
Raw == [kind |-> "raw"]                              \* json.RawMessage
Slice(elem) == [kind |-> "slice", elem |-> elem]
Map(elem) == [kind |-> "map", elem |-> elem]         \* its keys are strings
Ptr(elem) == [kind |-> "ptr", elem |-> elem]
Opt(elem) == [kind |-> "opt", elem |-> elem]         \* Optional[elem]
Of(name) == [kind |-> "struct", name |-> name]
Iface(name) == [kind |-> "union", name |-> name]       \* an interface

Opts(names) == [f \in names |-> Opt(Scalar)]
NoFields == <<>>

(* Structs: plain, and the variants of a union, which MarshalJSON tags. *)

Fields(fields) == [fields |-> fields, tag |-> <<>>]
Tagged(key, value, fields) == [fields |-> fields, tag |-> <<key, <<value>>>>]
Flat == Fields(NoFields)

(* The switch of a union's decoder on the tag. *)
Switch(key, cases) == [key |-> key, cases |-> cases]

FromAgentInfo ==
    [AgentInfo |-> Fields(Opts({"Agent", "CompletionSeq", "Cwd", "DisplayAgent",
         "ForegroundCwd", "InteractiveReady", "LaunchPending", "Name",
         "ScreenDetectionSkipped", "StateChangeSeq", "TerminalTitle",
         "TerminalTitleStripped", "Title"}) @@
         [AgentSession |-> Opt(Of("AgentSessionInfo")),
         StateLabels |-> Opt(Map(Scalar)), Tokens |-> Opt(Map(Scalar))]),
      AgentManifestInfo |-> Fields(Opts({"ActiveVersion", "CachedRemoteVersion",
         "RemoteLastCheckedUnix", "RemoteUpdateError", "RemoteUpdateResult",
         "Warning"})),
      AgentPromptParams |-> Fields([Wait |-> Opt(Of("AgentPromptWaitOptions"))]),
      AgentPromptWaitOptions |-> Fields(Opts({"TimeoutMs"}) @@
         [Until |-> Opt(Slice(Scalar))]),
      AgentReadParams |-> Fields(Opts({"Format", "Lines", "StripANSI"})),
      AgentRenameParams |-> Fields(Opts({"Name"}))]

FromAgentSendKeysParams ==
    [AgentSendKeysParams |-> Fields([Keys |-> Slice(Scalar)]),
      AgentStartParams |-> Fields(Opts({"TimeoutMs"}) @@
         [Args |-> Opt(Slice(Scalar))]),
      AgentViewClearParams |-> Fields(Opts({"Source"}))]
    @@ [t \in {"AgentSessionInfo", "AgentTarget"} |-> Flat]

FromAgentViewFilterAll ==
    [AgentViewFilterAll |-> Tagged("op", "all",
         [Filters |-> Slice(Iface("AgentViewFilter"))]),
      AgentViewFilterAny |-> Tagged("op", "any",
         [Filters |-> Slice(Iface("AgentViewFilter"))]),
      AgentViewFilterEq |-> Tagged("op", "eq", [Field |-> Of("AgentViewField"),
         Value |-> Of("AgentViewValue")])]

FromAgentViewFilterExists ==
    [AgentViewFilterExists |-> Tagged("op", "exists",
         [Field |-> Of("AgentViewField")]),
      AgentViewFilterIn |-> Tagged("op", "in", [Field |-> Of("AgentViewField"),
         Values |-> Slice(Of("AgentViewValue"))]),
      AgentViewFilterNot |-> Tagged("op", "not",
         [Filter |-> Iface("AgentViewFilter")]),
      AgentViewSetParams |-> Fields(Opts({"Label"}) @@
         [Filter |-> Opt(Iface("AgentViewFilter")),
         Sort |-> Opt(Slice(Of("AgentViewSort")))])]

FromAgentViewSort ==
    [AgentViewSort |-> Fields(Opts({"Order"}) @@
         [Field |-> Of("AgentViewSortField")]),
      AgentWaitParams |-> Fields(Opts({"TimeoutMs"}) @@
         [Until |-> Opt(Slice(Scalar))]),
      CommandInvokeParams |-> Fields(Opts({"PaneID", "TabID", "WorkspaceID"}) @@
         [Selection |-> Opt(Of("PaneSelectionReadParams"))])]
    @@ [t \in {"ClientShellSurfaceSetParams", "ClientWindowTitleSetParams",
         "EmptyParams", "ErrorBody"} |-> Flat]

FromEventMatchPaneAgentDetected ==
    [EventMatchPaneAgentDetected |-> Tagged("event", "pane_agent_detected",
         Opts({"Agent"})),
      EventMatchPaneAgentStatusChanged |-> Tagged("event",
         "pane_agent_status_changed", NoFields),
      EventMatchPaneClosed |-> Tagged("event", "pane_closed", NoFields),
      EventMatchPaneCreated |-> Tagged("event", "pane_created", Opts({"PaneID",
         "WorkspaceID"})),
      EventMatchPaneExited |-> Tagged("event", "pane_exited", NoFields),
      EventMatchPaneFocused |-> Tagged("event", "pane_focused", NoFields)]

FromEventMatchPaneMoved ==
    [EventMatchPaneMoved |-> Tagged("event", "pane_moved", NoFields),
      EventMatchPaneOutputChanged |-> Tagged("event", "pane_output_changed",
         Opts({"MinRevision"})),
      EventMatchTabClosed |-> Tagged("event", "tab_closed", NoFields),
      EventMatchTabCreated |-> Tagged("event", "tab_created", Opts({"TabID",
         "WorkspaceID"})),
      EventMatchTabFocused |-> Tagged("event", "tab_focused", NoFields),
      EventMatchTabMoved |-> Tagged("event", "tab_moved", NoFields)]

FromEventMatchTabRenamed ==
    [EventMatchTabRenamed |-> Tagged("event", "tab_renamed", Opts({"Label"})),
      EventMatchWorkspaceClosed |-> Tagged("event", "workspace_closed", NoFields),
      EventMatchWorkspaceCreated |-> Tagged("event", "workspace_created",
         Opts({"WorkspaceID"})),
      EventMatchWorkspaceFocused |-> Tagged("event", "workspace_focused", NoFields),
      EventMatchWorkspaceMoved |-> Tagged("event", "workspace_moved", NoFields),
      EventMatchWorkspaceRenamed |-> Tagged("event", "workspace_renamed",
         Opts({"Label"}))]

FromEventMatchWorkspaceUpdated ==
    [EventMatchWorkspaceUpdated |-> Tagged("event", "workspace_updated", NoFields),
     EventsSubscribeParams |-> Fields([Subscriptions |-> Slice(Iface("Subscription"))]),
      EventsWaitParams |-> Fields(Opts({"TimeoutMs"}) @@
         [MatchEvent |-> Iface("EventMatch")])]

FromInstalledPluginInfo ==
    [InstalledPluginInfo |-> Fields(Opts({"Description", "MinHerdrVersion"}) @@
         [Actions |-> Opt(Slice(Of("PluginManifestAction"))),
         Build |-> Opt(Slice(Of("PluginManifestBuild"))),
         Events |-> Opt(Slice(Of("PluginManifestEventHook"))),
         LinkHandlers |-> Opt(Slice(Of("PluginManifestLinkHandler"))),
         Panes |-> Opt(Slice(Of("PluginManifestPane"))),
         Platforms |-> Opt(Slice(Scalar)), Source |-> Opt(Of("PluginSourceInfo")),
         Startup |-> Opt(Slice(Of("PluginManifestStartup"))),
         Warnings |-> Opt(Slice(Scalar))]),
      IntegrationInstallResult |-> Fields([Messages |-> Slice(Scalar)])]
    @@ [t \in {"IntegrationInfo", "IntegrationInstallParams"} |-> Flat]

FromIntegrationUninstallParams ==
    [IntegrationUninstallResult |-> Fields([Messages |-> Slice(Scalar)]),
      LayoutApplyParams |-> Fields(Opts({"Focus", "TabID", "TabLabel",
         "WorkspaceID"}) @@ [Root |-> Iface("LayoutNode")]),
      LayoutDescription |-> Fields([Root |-> Iface("LayoutNode")]),
      LayoutExportParams |-> Fields(Opts({"PaneID", "TabID"}))]
    @@ [t \in {"IntegrationUninstallParams"} |-> Flat]

FromLayoutNodePane ==
    [LayoutNodePane |-> Tagged("type", "pane", Opts({"Cwd", "Label", "PaneID"}) @@
         [Command |-> Opt(Slice(Scalar)), Env |-> Opt(Map(Scalar))]),
      LayoutNodeSplit |-> Tagged("type", "split", [First |-> Iface("LayoutNode"),
         Second |-> Iface("LayoutNode")]),
      LayoutSetSplitRatioParams |-> Fields(Opts({"PaneID", "TabID"}) @@
         [Path |-> Slice(Scalar)]),
      LayoutUpdatedSubscription |-> Tagged("type", "layout.updated", NoFields),
      NotificationShowParams |-> Fields(Opts({"Body", "Position", "Sound"}))]

FromOutputMatchRegex ==
    [OutputMatchRegex |-> Tagged("type", "regex", NoFields),
      OutputMatchSubstring |-> Tagged("type", "substring", NoFields),
      PaneAgentDetectedSubscription |-> Tagged("type", "pane.agent_detected",
         NoFields),
      PaneAgentStatusChangedSubscription |-> Tagged("type",
         "pane.agent_status_changed", Opts({"AgentStatus"})),
      PaneClearAgentAuthorityParams |-> Fields(Opts({"Seq", "Source"})),
      PaneClosedSubscription |-> Tagged("type", "pane.closed", NoFields)]

FromPaneCopyMotionParams ==
    [PaneCopyMotionParams |-> Fields(Opts({"ContentRevision"}) @@
         [Cursor |-> Of("PaneTextPoint")]),
      PaneCopySearchParams |-> Fields([Cursor |-> Of("PaneTextPoint"),
         Previous |-> Opt(Of("PaneTextRange"))]),
      PaneCreatedSubscription |-> Tagged("type", "pane.created", NoFields),
      PaneCurrentParams |-> Fields(Opts({"CallerPaneID"})),
      PaneEdgesParams |-> Fields(Opts({"PaneID"})),
      PaneEdgesResult |-> Fields([Layout |-> Of("PaneLayoutSnapshot")]),
      PaneExitedSubscription |-> Tagged("type", "pane.exited", NoFields),
      PaneFocusDirectionParams |-> Fields(Opts({"PaneID"}))]

FromPaneFocusDirectionResult ==
    [PaneFocusDirectionResult |-> Fields(Opts({"FocusedPaneID", "Reason"}) @@
         [Layout |-> Of("PaneLayoutSnapshot")]),
      PaneFocusedSubscription |-> Tagged("type", "pane.focused", NoFields),
      PaneInfo |-> Fields(Opts({"Agent", "Cwd", "DisplayAgent", "ForegroundCwd",
         "Label", "RestoreError", "TerminalTitle", "TerminalTitleStripped",
         "Title"}) @@ [AgentSession |-> Opt(Of("AgentSessionInfo")),
         Scroll |-> Opt(Of("PaneScrollInfo")), StateLabels |-> Opt(Map(Scalar)),
         Tokens |-> Opt(Map(Scalar))]),
      PaneLayoutPane |-> Fields([Rect |-> Of("PaneLayoutRect")]),
      PaneLayoutParams |-> Fields(Opts({"PaneID"}))]
    @@ [t \in {"PaneInputSetParams", "PaneLayoutRect"} |-> Flat]

FromPaneLayoutSnapshot ==
    [PaneLayoutSnapshot |-> Fields([Area |-> Of("PaneLayoutRect"),
         Panes |-> Slice(Of("PaneLayoutPane")),
         Splits |-> Slice(Of("PaneLayoutSplit"))]),
      PaneLayoutSplit |-> Fields([Rect |-> Of("PaneLayoutRect")]),
      PaneLinkActivateParams |-> Fields(Opts({"ContentRevision",
         "OffsetFromBottom"})),
      PaneListParams |-> Fields(Opts({"WorkspaceID"}))]
    @@ [t \in {"PaneLinkRegion"} |-> Flat]

FromPaneMoveDestinationNewTab ==
    [PaneMoveDestinationNewTab |-> Tagged("type", "new_tab", Opts({"Label",
         "WorkspaceID"})),
      PaneMoveDestinationNewWorkspace |-> Tagged("type", "new_workspace",
         Opts({"Label", "TabLabel"})),
      PaneMoveDestinationTab |-> Tagged("type", "tab", Opts({"Ratio",
         "TargetPaneID"})),
      PaneMoveParams |-> Fields(Opts({"Focus"}) @@
         [Destination |-> Iface("PaneMoveDestination")])]

FromPaneMoveResult ==
    [PaneMoveResult |-> Fields(Opts({"ClosedTabID", "ClosedWorkspaceID", "Reason"})
         @@ [CreatedTab |-> Opt(Of("TabInfo")),
         CreatedWorkspace |-> Opt(Of("WorkspaceInfo")), Pane |-> Of("PaneInfo"),
         SourceLayout |-> Opt(Of("PaneLayoutSnapshot")),
         TargetLayout |-> Of("PaneLayoutSnapshot")]),
      PaneMovedSubscription |-> Tagged("type", "pane.moved", NoFields),
      PaneNeighborParams |-> Fields(Opts({"PaneID"})),
      PaneNeighborResult |-> Fields(Opts({"NeighborPaneID"}) @@
         [Layout |-> Of("PaneLayoutSnapshot")]),
      PaneOutputMatchedSubscription |-> Tagged("type", "pane.output_matched",
         Opts({"Lines", "StripANSI"}) @@ [Match |-> Iface("OutputMatch")])]

FromPaneProcessInfo ==
    [PaneProcessInfo |-> Fields(Opts({"ForegroundProcessGroupID", "ShellPID",
         "TTY"}) @@
         [ForegroundProcesses |-> Opt(Slice(Of("PaneProcessInfoProcess")))]),
      PaneProcessInfoParams |-> Fields(Opts({"PaneID"})),
      PaneProcessInfoProcess |-> Fields(Opts({"Argv0", "Cmdline", "Cwd"}) @@
         [Argv |-> Opt(Slice(Scalar))]),
      PaneReadParams |-> Fields(Opts({"Format", "Lines", "StripANSI"})),
      PaneReleaseAgentParams |-> Fields(Opts({"Seq"})),
      PaneRenameParams |-> Fields(Opts({"Label"})),
      PaneReportAgentParams |-> Fields(Opts({"AgentSessionID", "AgentSessionPath",
         "Message", "Seq"}) @@ [ResumeArgv |-> Opt(Slice(Scalar))])]
    @@ [t \in {"PaneReadResult"} |-> Flat]

FromPaneReportAgentSessionParams ==
    [PaneReportAgentSessionParams |-> Fields(Opts({"AgentSessionID",
         "AgentSessionPath", "Seq", "SessionStartSource"}) @@
         [ResumeArgv |-> Opt(Slice(Scalar))]),
      PaneReportMetadataParams |-> Fields(Opts({"Agent", "AppliesToSource",
         "ClearDisplayAgent", "ClearStateLabels", "ClearTitle", "DisplayAgent",
         "Seq", "Title", "TTLMs"}) @@ [StateLabels |-> Opt(Map(Scalar)),
         Tokens |-> Opt(Map(Ptr(Scalar)))]),
      PaneResizeParams |-> Fields(Opts({"Amount", "PaneID"})),
      PaneResizeResult |-> Fields(Opts({"Reason"}) @@
         [Layout |-> Of("PaneLayoutSnapshot")]),
      PaneScrollChangedSubscription |-> Tagged("type", "pane.scroll_changed",
         NoFields)]

FromPaneScrollInfo ==
    [PaneSelectionReadParams |-> Fields(Opts({"ContentRevision"}) @@
         [Anchor |-> Of("PaneTextPoint"), Cursor |-> Of("PaneTextPoint")]),
      PaneSendInputParams |-> Fields(Opts({"Text"}) @@
         [Keys |-> Opt(Slice(Scalar))]),
      PaneSendKeysParams |-> Fields([Keys |-> Slice(Scalar)]),
      PaneSplitParams |-> Fields(Opts({"Cwd", "Focus", "Ratio", "RightClick",
         "TargetPaneID", "WorkspaceID"}) @@ [Env |-> Opt(Map(Scalar))]),
      PaneSwapParams |-> Fields(Opts({"Direction", "PaneID", "SourcePaneID",
         "TargetPaneID"})),
      PaneSwapResult |-> Fields(Opts({"Reason", "TargetPaneID"}) @@
         [Layout |-> Of("PaneLayoutSnapshot")])]
    @@ [t \in {"PaneScrollInfo", "PaneScrollParams", "PaneSendTextParams"} |-> Flat]

FromPaneTarget ==
    [PaneTextRange |-> Fields([End |-> Of("PaneTextPoint"),
         Start |-> Of("PaneTextPoint")]),
      PaneUpdatedSubscription |-> Tagged("type", "pane.updated", NoFields),
      PaneWaitForOutputParams |-> Fields(Opts({"Lines", "StripANSI", "TimeoutMs"})
         @@ [Match |-> Iface("OutputMatch")]),
      PaneZoomParams |-> Fields(Opts({"Mode", "PaneID"})),
      PaneZoomResult |-> Fields(Opts({"Reason"}) @@
         [Layout |-> Of("PaneLayoutSnapshot")])]
    @@ [t \in {"PaneTarget", "PaneTextPoint", "PingParams"} |-> Flat]

FromPluginActionInfo ==
    [PluginActionInfo |-> Fields(Opts({"Description"}) @@
         [Command |-> Slice(Scalar), Contexts |-> Opt(Slice(Scalar)),
         Platforms |-> Opt(Slice(Scalar))]),
      PluginActionInvokeParams |-> Fields(Opts({"PluginID"}) @@
         [Context |-> Opt(Of("PluginInvocationContext"))]),
      PluginActionListParams |-> Fields(Opts({"PluginID"})),
      PluginCommandLogInfo |-> Fields(Opts({"ActionID", "Error", "Event",
         "ExitCode", "FinishedUnixMs", "Stderr", "Stdout"}) @@
         [Command |-> Slice(Scalar)]),
      PluginInvocationContext |-> Fields(Opts({"ClickedURL", "CorrelationID",
         "FocusedPaneAgent", "FocusedPaneCwd", "FocusedPaneID", "FocusedPaneStatus",
         "InvocationSource", "LinkHandlerID", "SelectedText", "TabID", "TabLabel",
         "WorkspaceCwd", "WorkspaceID", "WorkspaceLabel"}) @@
         [Worktree |-> Opt(Of("WorkspaceWorktreeInfo"))])]

FromPluginLinkParams ==
    [PluginLinkParams |-> Fields(Opts({"Enabled"}) @@
         [Source |-> Opt(Of("PluginSourceInfo"))]),
      PluginListParams |-> Fields(Opts({"PluginID"})),
      PluginLogListParams |-> Fields(Opts({"Limit", "PluginID"})),
      PluginManifestAction |-> Fields(Opts({"Description"}) @@
         [Command |-> Slice(Scalar), Contexts |-> Opt(Slice(Scalar)),
         Platforms |-> Opt(Slice(Scalar))]),
      PluginManifestBuild |-> Fields([Command |-> Slice(Scalar),
         Platforms |-> Opt(Slice(Scalar))]),
      PluginManifestEventHook |-> Fields([Command |-> Slice(Scalar),
         Platforms |-> Opt(Slice(Scalar))]),
      PluginManifestLinkHandler |-> Fields([Platforms |-> Opt(Slice(Scalar))])]

FromPluginManifestPane ==
    [PluginManifestPane |-> Fields(Opts({"Description", "Placement"}) @@
         [Command |-> Slice(Scalar), Height |-> Opt(Of("PopupSize")),
         Platforms |-> Opt(Slice(Scalar)), Width |-> Opt(Of("PopupSize"))]),
      PluginManifestStartup |-> Fields([Command |-> Slice(Scalar),
         Platforms |-> Opt(Slice(Scalar))]),
      PluginPaneInfo |-> Fields([Pane |-> Of("PaneInfo")]),
      PluginPaneOpenParams |-> Fields(Opts({"Cwd", "Direction", "Focus",
         "Placement", "TargetPaneID", "WorkspaceID"}) @@ [Env |-> Opt(Map(Scalar)),
         Height |-> Opt(Of("PopupSize")), Width |-> Opt(Of("PopupSize"))])]
    @@ [t \in {"PluginPaneCloseParams", "PluginPaneFocusParams"} |-> Flat]

FromPluginSetEnabledParams ==
    [PluginSourceInfo |-> Fields(Opts({"InstalledUnixMs", "Kind", "ManagedPath",
         "Owner", "Repo", "RequestedRef", "ResolvedCommit", "Subdir"})),
      ServerCapabilities |-> Fields(Opts({"DetachedServerDaemon",
         "EndpointProtocolGeneration", "HealthCheck", "SshAgentRegistration",
         "SurfaceInterest"})),
      ServerLiveHandoffParams |-> Fields(Opts({"ExpectedProtocol",
         "ExpectedVersion", "ImportExe"}))]
    @@ [t \in {"PluginSetEnabledParams", "PluginUnlinkParams",
         "ProductAnnouncementDismissParams", "ReleaseNotesDismissParams",
         "ServerSshAgentRegisterParams"} |-> Flat]

FromSessionSnapshot ==
    [SessionSnapshot |-> Fields(Opts({"FocusedPaneID", "FocusedTabID",
         "FocusedWorkspaceID"}) @@ [Agents |-> Slice(Of("AgentInfo")),
         Layouts |-> Slice(Of("PaneLayoutSnapshot")),
         Panes |-> Slice(Of("PaneInfo")), Tabs |-> Slice(Of("TabInfo")),
         Workspaces |-> Slice(Of("WorkspaceInfo"))])]

FromTabClosedSubscription ==
    [TabClosedSubscription |-> Tagged("type", "tab.closed", NoFields),
      TabCreateParams |-> Fields(Opts({"Cwd", "Focus", "Label", "WorkspaceID"}) @@
         [Env |-> Opt(Map(Scalar))]),
      TabCreatedSubscription |-> Tagged("type", "tab.created", NoFields),
      TabFocusedSubscription |-> Tagged("type", "tab.focused", NoFields),
      TabListParams |-> Fields(Opts({"WorkspaceID"})),
      TabMovedSubscription |-> Tagged("type", "tab.moved", NoFields)]
    @@ [t \in {"TabInfo", "TabMoveParams"} |-> Flat]

FromTabRenameParams ==
    [TabRenamedSubscription |-> Tagged("type", "tab.renamed", NoFields),
      WorkspaceCloseParams |-> Fields(Opts({"CloseGroup"})),
      WorkspaceClosedSubscription |-> Tagged("type", "workspace.closed", NoFields),
      WorkspaceCreateParams |-> Fields(Opts({"Cwd", "Focus", "Label",
         "SourceWorkspaceID"}) @@ [Env |-> Opt(Map(Scalar))]),
      WorkspaceCreatedSubscription |-> Tagged("type", "workspace.created",
         NoFields),
      WorkspaceFocusedSubscription |-> Tagged("type", "workspace.focused",
         NoFields)]
    @@ [t \in {"TabRenameParams", "TabTarget"} |-> Flat]

FromWorkspaceInfo ==
    [WorkspaceInfo |-> Fields([Tokens |-> Opt(Map(Scalar)),
         Worktree |-> Opt(Of("WorkspaceWorktreeInfo"))]),
      WorkspaceMetadataUpdatedSubscription |-> Tagged("type",
         "workspace.metadata_updated", NoFields),
      WorkspaceMoveBlockParams |-> Fields(Opts({"BeforeWorkspaceID"}) @@
         [WorkspaceIds |-> Slice(Scalar)]),
      WorkspaceMovedSubscription |-> Tagged("type", "workspace.moved", NoFields),
      WorkspaceRenamedSubscription |-> Tagged("type", "workspace.renamed",
         NoFields)]
    @@ [t \in {"WorkspaceMoveParams", "WorkspaceRenameParams"} |-> Flat]

FromWorkspaceReorderedSubscription ==
    [WorkspaceReorderedSubscription |-> Tagged("type", "workspace.reordered",
         NoFields),
      WorkspaceReportMetadataParams |-> Fields(Opts({"Seq", "TTLMs"}) @@
         [Tokens |-> Map(Ptr(Scalar))]),
      WorkspaceUpdatedSubscription |-> Tagged("type", "workspace.updated",
         NoFields),
      WorktreeCreateParams |-> Fields(Opts({"Base", "Branch", "Cwd", "Focus",
         "Label", "Path", "TrustRepository", "WorkspaceID"})),
      WorktreeCreatedSubscription |-> Tagged("type", "worktree.created", NoFields),
      WorktreeInfo |-> Fields(Opts({"Branch", "OpenWorkspaceID"}))]
    @@ [t \in {"WorkspaceTarget", "WorkspaceWorktreeInfo"} |-> Flat]

FromWorktreeListParams ==
    [WorktreeListParams |-> Fields(Opts({"Cwd", "TrustRepository", "WorkspaceID"})),
      WorktreeOpenParams |-> Fields(Opts({"Branch", "Cwd", "Focus", "Label", "Path",
         "TrustRepository", "WorkspaceID"})),
      WorktreeOpenedSubscription |-> Tagged("type", "worktree.opened", NoFields),
      WorktreeRemoveParams |-> Fields(Opts({"Force", "TrustRepository"})),
      WorktreeRemovedSubscription |-> Tagged("type", "worktree.removed", NoFields),
      WorktreeSourceInfo |-> Fields(Opts({"SourceWorkspaceID"}))]

-----------------------------------------------------------------------------
(* The unions: the cases of their copying and of their decoding switch. *)

cloneAgentViewFilter ==
    {"AgentViewFilterAll", "AgentViewFilterAny", "AgentViewFilterNot",
     "AgentViewFilterEq", "AgentViewFilterIn", "AgentViewFilterExists"}

decodeAgentViewFilter ==
    Switch("op", "all" :> "AgentViewFilterAll" @@ "any" :> "AgentViewFilterAny" @@
        "not" :> "AgentViewFilterNot" @@ "eq" :> "AgentViewFilterEq" @@
        "in" :> "AgentViewFilterIn" @@ "exists" :> "AgentViewFilterExists")

cloneEventMatch ==
    {"EventMatchWorkspaceCreated", "EventMatchWorkspaceUpdated",
     "EventMatchWorkspaceClosed", "EventMatchWorkspaceRenamed",
     "EventMatchWorkspaceMoved", "EventMatchWorkspaceFocused",
     "EventMatchTabCreated", "EventMatchTabClosed", "EventMatchTabRenamed",
     "EventMatchTabMoved", "EventMatchTabFocused", "EventMatchPaneCreated",
     "EventMatchPaneClosed", "EventMatchPaneFocused", "EventMatchPaneMoved",
     "EventMatchPaneOutputChanged", "EventMatchPaneExited",
     "EventMatchPaneAgentDetected", "EventMatchPaneAgentStatusChanged"}

decodeEventMatch ==
    Switch("event", "workspace_created" :> "EventMatchWorkspaceCreated" @@
        "workspace_updated" :> "EventMatchWorkspaceUpdated" @@
        "workspace_closed" :> "EventMatchWorkspaceClosed" @@
        "workspace_renamed" :> "EventMatchWorkspaceRenamed" @@
        "workspace_moved" :> "EventMatchWorkspaceMoved" @@
        "workspace_focused" :> "EventMatchWorkspaceFocused" @@
        "tab_created" :> "EventMatchTabCreated" @@
        "tab_closed" :> "EventMatchTabClosed" @@
        "tab_renamed" :> "EventMatchTabRenamed" @@
        "tab_moved" :> "EventMatchTabMoved" @@
        "tab_focused" :> "EventMatchTabFocused" @@
        "pane_created" :> "EventMatchPaneCreated" @@
        "pane_closed" :> "EventMatchPaneClosed" @@
        "pane_focused" :> "EventMatchPaneFocused" @@
        "pane_moved" :> "EventMatchPaneMoved" @@
        "pane_output_changed" :> "EventMatchPaneOutputChanged" @@
        "pane_exited" :> "EventMatchPaneExited" @@
        "pane_agent_detected" :> "EventMatchPaneAgentDetected" @@
        "pane_agent_status_changed" :> "EventMatchPaneAgentStatusChanged")

cloneLayoutNode ==
    {"LayoutNodePane", "LayoutNodeSplit"}

decodeLayoutNode ==
    Switch("type", "pane" :> "LayoutNodePane" @@ "split" :> "LayoutNodeSplit")

cloneOutputMatch ==
    {"OutputMatchSubstring", "OutputMatchRegex"}

decodeOutputMatch ==
    Switch("type", "substring" :> "OutputMatchSubstring" @@
        "regex" :> "OutputMatchRegex")

clonePaneMoveDestination ==
    {"PaneMoveDestinationTab", "PaneMoveDestinationNewTab",
     "PaneMoveDestinationNewWorkspace"}

decodePaneMoveDestination ==
    Switch("type", "tab" :> "PaneMoveDestinationTab" @@
        "new_tab" :> "PaneMoveDestinationNewTab" @@
        "new_workspace" :> "PaneMoveDestinationNewWorkspace")

cloneSubscription ==
    {"WorkspaceCreatedSubscription", "WorkspaceUpdatedSubscription",
     "WorkspaceMetadataUpdatedSubscription", "WorkspaceRenamedSubscription",
     "WorkspaceMovedSubscription", "WorkspaceReorderedSubscription",
     "WorkspaceClosedSubscription", "WorkspaceFocusedSubscription",
     "WorktreeCreatedSubscription", "WorktreeOpenedSubscription",
     "WorktreeRemovedSubscription", "TabCreatedSubscription",
     "TabClosedSubscription", "TabFocusedSubscription", "TabRenamedSubscription",
     "TabMovedSubscription", "PaneCreatedSubscription", "PaneClosedSubscription",
     "PaneUpdatedSubscription", "PaneFocusedSubscription", "PaneMovedSubscription",
     "PaneExitedSubscription", "PaneAgentDetectedSubscription",
     "PaneOutputMatchedSubscription", "PaneAgentStatusChangedSubscription",
     "PaneScrollChangedSubscription", "LayoutUpdatedSubscription"}

decodeSubscription ==
    Switch("type", "workspace.created" :> "WorkspaceCreatedSubscription" @@
        "workspace.updated" :> "WorkspaceUpdatedSubscription" @@
        "workspace.metadata_updated" :> "WorkspaceMetadataUpdatedSubscription" @@
        "workspace.renamed" :> "WorkspaceRenamedSubscription" @@
        "workspace.moved" :> "WorkspaceMovedSubscription" @@
        "workspace.reordered" :> "WorkspaceReorderedSubscription" @@
        "workspace.closed" :> "WorkspaceClosedSubscription" @@
        "workspace.focused" :> "WorkspaceFocusedSubscription" @@
        "worktree.created" :> "WorktreeCreatedSubscription" @@
        "worktree.opened" :> "WorktreeOpenedSubscription" @@
        "worktree.removed" :> "WorktreeRemovedSubscription" @@
        "tab.created" :> "TabCreatedSubscription" @@
        "tab.closed" :> "TabClosedSubscription" @@
        "tab.focused" :> "TabFocusedSubscription" @@
        "tab.renamed" :> "TabRenamedSubscription" @@
        "tab.moved" :> "TabMovedSubscription" @@
        "pane.created" :> "PaneCreatedSubscription" @@
        "pane.closed" :> "PaneClosedSubscription" @@
        "pane.updated" :> "PaneUpdatedSubscription" @@
        "pane.focused" :> "PaneFocusedSubscription" @@
        "pane.moved" :> "PaneMovedSubscription" @@
        "pane.exited" :> "PaneExitedSubscription" @@
        "pane.agent_detected" :> "PaneAgentDetectedSubscription" @@
        "pane.output_matched" :> "PaneOutputMatchedSubscription" @@
        "pane.agent_status_changed" :> "PaneAgentStatusChangedSubscription" @@
        "pane.scroll_changed" :> "PaneScrollChangedSubscription" @@
        "layout.updated" :> "LayoutUpdatedSubscription")

-----------------------------------------------------------------------------
DeclaredTypes ==
    FromAgentInfo @@ FromAgentSendKeysParams @@ FromAgentViewFilterAll @@
    FromAgentViewFilterExists @@ FromAgentViewSort @@
    FromEventMatchPaneAgentDetected @@ FromEventMatchPaneMoved @@
    FromEventMatchTabRenamed @@ FromEventMatchWorkspaceUpdated @@
    FromInstalledPluginInfo @@ FromIntegrationUninstallParams @@ FromLayoutNodePane
    @@ FromOutputMatchRegex @@ FromPaneCopyMotionParams @@
    FromPaneFocusDirectionResult @@ FromPaneLayoutSnapshot @@
    FromPaneMoveDestinationNewTab @@ FromPaneMoveResult @@ FromPaneProcessInfo @@
    FromPaneReportAgentSessionParams @@ FromPaneScrollInfo @@ FromPaneTarget @@
    FromPluginActionInfo @@ FromPluginLinkParams @@ FromPluginManifestPane @@
    FromPluginSetEnabledParams @@ FromSessionSnapshot @@ FromTabClosedSubscription
    @@ FromTabRenameParams @@ FromWorkspaceInfo @@
    FromWorkspaceReorderedSubscription @@ FromWorktreeListParams
=============================================================================
