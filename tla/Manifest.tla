------------------------------- MODULE Manifest -------------------------------
(***************************************************************************)
(* The manifest of a plugin (plugin/manifest): its decoding, the rules of  *)
(* Validate in the order of the code, and the comparison with the handlers *)
(* a program registers that plugintest.CheckManifest makes.                *)
(*                                                                         *)
(* A string is a sequence of pieces: words, and the characters that the    *)
(* code looks for (a blank, a dot, ...).  <<>> is the empty string.        *)
(***************************************************************************)
EXTENDS Values

LOCAL INSTANCE SequencesExt
LOCAL INSTANCE FiniteSetsExt

CONSTANTS
    idMaxChars,             \* the limit on the length of ids, in pieces
    Numbers                 \* the pieces that are 32-bit numbers

ASSUME ManifestAssumption == idMaxChars \in Nat \ {0}

-----------------------------------------------------------------------------
(* Strings. *)

TrimSpace(s) ==
    LET text == {i \in DOMAIN s : s[i] # " "}
    IN IF text = {} THEN <<>> ELSE SubSeq(s, Min(text), Max(text))

\* The pieces "/" and "(" stand for the characters no id may have.
validIdentifier(value, allowDot) ==
    LET id == TrimSpace(value) IN
    /\ id # <<>> /\ Len(id) <= idMaxChars
    /\ ~Contains(id, "/") /\ ~Contains(id, " ") /\ ~Contains(id, "(")
    /\ Contains(id, ".") => allowDot

validPluginID(value) == validIdentifier(value, TRUE)
validLocalID(value) == validIdentifier(value, FALSE)

dotName(kind) == <<kind[1], ".", kind[3]>>

-----------------------------------------------------------------------------
(* Events. *)

\* The events that Herdr fires hooks for: fewer than the schema declares.
hookEventKinds ==
    UNION {Under("workspace", {"created", "updated", "closed", "renamed",
                "moved", "reordered", "focused"}),
           Under("worktree", {"created", "opened", "removed"}),
           Under("tab", {"created", "closed", "renamed", "moved", "focused"}),
           Under("pane", {"created", "closed", "focused", "moved", "exited",
                "agent_detected", "agent_status_changed"})}

HookEventNames == {dotName(kind) : kind \in hookEventKinds}
isHookEventName(name) == name \in HookEventNames

-----------------------------------------------------------------------------
(* Popup sizes.  A TOML value has the shape of a JSON one: a number, or a   *)
(* string whose number is what precedes the "%".                            *)

\* Mutant: nought percent is a size.
UnmarshalTOMLZero(value) ==
    CASE value.kind = "number" /\ value.num \in 0..MaxUint16 ->
            Struct([Cells |-> value, Percent |-> Number(0)])
      [] value.kind = "text" /\ value.text = <<"%">> /\ value.num \in 0..100 ->
            Struct([Cells |-> Number(0), Percent |-> Number(value.num)])
      [] OTHER -> Err

UnmarshalTOML(value) ==
    CASE value.kind = "number" /\ value.num \in 0..MaxUint16 ->
            Struct([Cells |-> value, Percent |-> Number(0)])
      [] value.kind = "text" /\ value.text = <<"%">> /\ value.num \in 1..100 ->
            Struct([Cells |-> Number(0), Percent |-> Number(value.num)])
      [] OTHER -> Err

\* A pane's width and height are a list: of none or one of each.
SizesOf(pane) == {pane.sizes[i] : i \in DOMAIN pane.sizes}

\* Decode fails if a size does.
DecodeFails(m) ==
    \E i \in DOMAIN m.panes : \E size \in SizesOf(m.panes[i]) :
        Failed(UnmarshalTOML(size))

-----------------------------------------------------------------------------
(* Validation: rules in the order in which the code checks them. *)

Rule(code, kept) == [code |-> code, kept |-> kept]

FirstBroken(rules) ==
    LET broken == {i \in DOMAIN rules : ~rules[i].kept}
    IN IF broken = {} THEN "" ELSE rules[Min(broken)].code

RulesOf(entries, rules(_)) == FlattenSeq([i \in DOMAIN entries |-> rules(i)])

Platforms == {"linux", "macos", "windows"}
Contexts == {"global", "workspace", "tab", "pane", "selection"}
Placements == {"", "overlay", "popup", "split", "tab", "zoomed"}

\* Platforms are undeclared, <<>>, or declared: the sequence of one set.
validatePlatforms(platforms) ==
    <<Rule("invalid_plugin_platform",
           platforms # <<>> => platforms[1] # {} /\ platforms[1] \subseteq Platforms)>>

validateCommand(command) ==
    <<Rule("invalid_plugin_command",
           command # <<>> /\ \A i \in DOMAIN command : command[i] # <<>>)>>

validateMinHerdrVersion(value) ==
    LET version == TrimSpace(value)
        parts == IF version # <<>> /\ version[1] = "v" THEN Tail(version) ELSE version
    IN <<Rule("invalid_plugin_min_herdr_version",
              /\ Len(parts) = 5 /\ parts[2] = "." /\ parts[4] = "."
              /\ \A i \in {1, 3, 5} : parts[i] \in Numbers)>>

EntryRules(entry) == validatePlatforms(entry.platforms) \o validateCommand(entry.command)

IsNew(entries, i) ==
    \A j \in 1..(i - 1) : TrimSpace(entries[j].id) # TrimSpace(entries[i].id)

validateActions(actions) ==
    LET ActionRules(i) ==
            LET action == actions[i] IN
            <<Rule("invalid_plugin_action_id", validLocalID(action.id)),
              Rule("invalid_plugin_action_title", TrimSpace(action.title) # <<>>),
              Rule("invalid_plugin_action_context", action.contexts \subseteq Contexts)>>
            \o EntryRules(action)
            \o <<Rule("duplicate_plugin_action_id", IsNew(actions, i))>>
    IN RulesOf(actions, ActionRules)

validateEvents(events) ==
    LET EventRules(i) ==
            <<Rule("invalid_plugin_event", TrimSpace(events[i].on) # <<>>)>>
            \o EntryRules(events[i])
    IN RulesOf(events, EventRules)

validatePanes(panes) ==
    LET PaneRules(i) ==
            LET pane == panes[i] IN
            <<Rule("invalid_plugin_pane_id", validLocalID(pane.id)),
              Rule("invalid_plugin_pane_title", TrimSpace(pane.title) # <<>>),
              Rule("invalid_plugin_pane_placement", pane.placement \in Placements)>>
            \o EntryRules(pane)
            \o <<Rule("invalid_plugin_pane_size",
                      pane.sizes # <<>> => pane.placement = "popup"),
                 Rule("duplicate_plugin_pane_id", IsNew(panes, i))>>
    IN RulesOf(panes, PaneRules)

hasAction(m, id) == \E i \in DOMAIN m.actions : TrimSpace(m.actions[i].id) = id

\* An unmatched "(" is what makes a pattern malformed.
validateLinkHandlers(m) ==
    LET LinkHandlerRules(i) ==
            LET handler == m.link_handlers[i]
                pattern == TrimSpace(handler.pattern)
                action == TrimSpace(handler.action)
            IN <<Rule("invalid_plugin_link_handler_id", validLocalID(handler.id)),
                 Rule("invalid_plugin_link_handler_title",
                      TrimSpace(handler.title) # <<>>),
                 Rule("invalid_plugin_link_handler_pattern",
                      pattern # <<>> /\ ~Contains(pattern, "(")),
                 Rule("invalid_plugin_link_handler_action",
                      validLocalID(action) /\ hasAction(m, action))>>
               \o validatePlatforms(handler.platforms)
               \o <<Rule("duplicate_plugin_link_handler_id", IsNew(m.link_handlers, i))>>
    IN RulesOf(m.link_handlers, LinkHandlerRules)

\* The code of the error, "" if there is none.
Validate(m) ==
    LET CommandRules(entries) ==
            FlattenSeq([i \in DOMAIN entries |-> EntryRules(entries[i])])
    IN FirstBroken(
        <<Rule("invalid_plugin_id", validPluginID(m.id)),
          Rule("invalid_plugin_name", TrimSpace(m.name) # <<>>),
          Rule("invalid_plugin_version", TrimSpace(m.version) # <<>>)>>
        \o validateMinHerdrVersion(m.min_herdr_version)
        \o validatePlatforms(m.platforms)
        \o CommandRules(m.build) \o CommandRules(m.startup)
        \o validateActions(m.actions) \o validateEvents(m.events)
        \o validatePanes(m.panes) \o validateLinkHandlers(m))

Warns(m) ==
    \/ \E i \in DOMAIN m.events : ~isHookEventName(TrimSpace(m.events[i].on))
    \/ m.platforms = <<>>

\* The code of the error of Parse: a size that does not decode comes first.
Parse(m) == IF DecodeFails(m) THEN "decode" ELSE Validate(m)

-----------------------------------------------------------------------------
(* plugintest.CheckManifest.  Registered is what the program serves: whether *)
(* it has a startup handler, and the sets of its action ids, pane ids and    *)
(* dotted event names.                                                       *)

\* Mutant: ids are compared as they are written.
declaredActionsRaw(m) == {m.actions[i].id : i \in DOMAIN m.actions}

declaredActions(m) == {TrimSpace(m.actions[i].id) : i \in DOMAIN m.actions}
declaredPanes(m) == {TrimSpace(m.panes[i].id) : i \in DOMAIN m.panes}
declaredEvents(m) == {TrimSpace(m.events[i].on) : i \in DOMAIN m.events}

\* Mutant: only what is declared is looked up.
compareOneWay(declared, registered) == declared \subseteq registered

compare(declared, registered) ==
    declared = registered

\* The case of an event that no hook exists for only changes the message.
compareEvents(declared, registered) == compare(declared, registered)

CheckManifest(m, registered) ==
    /\ Parse(m) = "" /\ ~Warns(m)
    /\ compare(declaredActions(m), registered.Actions)
    /\ compare(declaredPanes(m), registered.Panes)
    /\ compareEvents(declaredEvents(m), registered.Events)
    /\ (m.startup # <<>>) = registered.Startup
=============================================================================
