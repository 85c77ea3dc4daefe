----------------------------- MODULE MCPluginRun -----------------------------
(* Instances of PluginRun: every way to get a manifest or a program wrong. *)
EXTENDS PluginRun

LOCAL INSTANCE SequencesExt
LOCAL INSTANCE FiniteSetsExt

InSomeOrder(S) == FoldSet(LAMBDA x, seq : Append(seq, x), <<>>, S)

A == <<"a">>
B == <<"b">>
Title == <<"title">>
Command == <<<<"command">>>>

AllPlatforms == <<Platforms>>

ActionEntry(id) ==
    [id |-> id, title |-> Title, contexts |-> {"global"}, command |-> Command,
     platforms |-> <<>>]
EventEntry(on) == [on |-> on, command |-> Command, platforms |-> <<>>]
PaneEntry(id, placement, sizes) ==
    [id |-> id, title |-> Title, placement |-> placement, sizes |-> sizes,
     command |-> Command, platforms |-> <<>>]
LinkEntry(id, action) ==
    [id |-> id, title |-> Title, pattern |-> <<"pattern">>, action |-> action,
     platforms |-> <<>>]
CommandEntry == [command |-> Command, platforms |-> <<>>]

Plain ==
    [id |-> <<"org", ".", "plugin">>, name |-> Title, version |-> <<"1">>,
     min_herdr_version |-> <<"v", "0", ".", "9", ".", "0">>, platforms |-> AllPlatforms,
     build |-> <<CommandEntry>>, startup |-> <<>>, actions |-> <<>>, events |-> <<>>,
     panes |-> <<>>, link_handlers |-> <<>>]

Closed == <<"pane", ".", "closed">>

\* One entry of each kind, with blanks that Herdr trims.
Whole ==
    [Plain EXCEPT !.startup = <<CommandEntry>>, !.actions = <<ActionEntry(<<" ", "a">>)>>,
        !.events = <<EventEntry(Closed \o <<" ">>)>>,
        !.panes = <<PaneEntry(A, "popup", <<Number(80), Percentage(50)>>)>>,
        !.link_handlers = <<LinkEntry(B, A \o <<" ">>)>>]

BadIds == {<<>>, <<" ">>, <<"a", "/">>, <<"a", ".", "b">>, <<"a", "b", "c", "d">>}
BadTexts == {<<>>, <<" ">>}
BadPlatforms == {<<{}>>, <<{"plan9"}>>}
BadCommands == {<<>>, <<<<"command">>, <<>>>>}

\* Whole, wrong in one place.
Wrong ==
    {[Whole EXCEPT !.id = id] : id \in BadIds \ {<<"a", ".", "b">>}}
    \cup {[Whole EXCEPT !.name = t] : t \in BadTexts}
    \cup {[Whole EXCEPT !.version = t] : t \in BadTexts}
    \cup {[Whole EXCEPT !.min_herdr_version = t] :
            t \in {<<>>, <<"0", ".", "9">>, <<"0", ".", "9", ".", "x">>}}
    \cup {[Whole EXCEPT !.platforms = p] : p \in BadPlatforms \cup {<<>>}}
    \cup {[Whole EXCEPT !.build[1].command = c] : c \in BadCommands}
    \cup {[Whole EXCEPT !.startup[1].platforms = p] : p \in BadPlatforms}
    \cup {[Whole EXCEPT !.actions[1].id = id] : id \in BadIds}
    \cup {[Whole EXCEPT !.actions[1].title = t] : t \in BadTexts}
    \cup {[Whole EXCEPT !.actions[1].contexts = {"galaxy"}]}
    \cup {[Whole EXCEPT !.actions[1].command = c] : c \in BadCommands}
    \cup {[Whole EXCEPT !.events[1].on = on] :
            on \in {<<>>, <<"pane", ".", "updated">>, <<"pane", "_", "closed">>}}
    \cup {[Whole EXCEPT !.panes[1].id = id] : id \in BadIds}
    \cup {[Whole EXCEPT !.panes[1].placement = p] : p \in {"", "sideways"}}
    \cup {[Whole EXCEPT !.panes[1].sizes = <<size>>] :
            size \in {Number(n) : n \in {-1, 0, MaxUint16, MaxUint16 + 1}}
                \cup {Percentage(n) : n \in {0, 1, 100, 101, 257}}
                \cup {Text(<<"50">>), Bool(TRUE)}}
    \cup {[Whole EXCEPT !.link_handlers[1].id = id] : id \in BadIds}
    \cup {[Whole EXCEPT !.link_handlers[1].pattern = p] : p \in {<<>>, <<"(">>}}
    \cup {[Whole EXCEPT !.link_handlers[1].action = id] : id \in BadIds \cup {B}}

\* Entries that clash, are missing or are in addition.
Others ==
    {[Whole EXCEPT !.actions = @ \o <<ActionEntry(id)>>] : id \in {A, <<"a", " ">>, B}}
    \cup {[Whole EXCEPT !.panes = @ \o <<PaneEntry(id, "tab", <<>>)>>] : id \in {A, B}}
    \cup {[Whole EXCEPT !.link_handlers = @ \o <<LinkEntry(id, A)>>] : id \in {A, B}}
    \cup {[Whole EXCEPT !.events = @ \o <<EventEntry(on)>>] :
            on \in {Closed, <<"pane", ".", "moved">>}}
    \cup {[Whole EXCEPT !.startup = <<>>], [Whole EXCEPT !.events = <<>>],
          [Whole EXCEPT !.panes = <<>>],
          [Whole EXCEPT !.actions = <<>>, !.link_handlers = <<>>], Plain}

Watcher == [Plain EXCEPT !.events = <<EventEntry(Closed)>>]

\* Hooks for all events there are.
WatchesAll ==
    [Plain EXCEPT !.events = InSomeOrder({EventEntry(name) : name \in HookEventNames})]

MCManifests == Wrong \cup Others \cup {Whole, Watcher, WatchesAll}

-----------------------------------------------------------------------------
Handler(kind, id) == [kind |-> kind, id |-> id, nil |-> FALSE]

WholeHandlers ==
    <<Handler("startup", <<>>), Handler("action", A), Handler("pane", A),
      Handler("event", <<"PaneClosedEvent">>)>>

EventHandlers(names) == InSomeOrder({Handler("event", <<name>>) : name \in names})

Hooked == {name \in cloneEvent : Declared[name].event \in HookEventNames}

Program(main, registrations, context, handler) ==
    [main |-> main, registrations |-> registrations, context |-> context,
     handler |-> handler]

\* Programs that register something wrong, too little or too much.
Registrations ==
    {Remove(WholeHandlers, WholeHandlers[i]) : i \in DOMAIN WholeHandlers}
    \cup {Append(WholeHandlers, WholeHandlers[i]) : i \in DOMAIN WholeHandlers}
    \cup {[WholeHandlers EXCEPT ![i].nil = TRUE] : i \in DOMAIN WholeHandlers}
    \cup {[WholeHandlers EXCEPT ![i].id = id] : i \in {2, 3}, id \in {<<>>, B, <<" ", "a">>}}
    \cup {Append(WholeHandlers, Handler("event", <<name>>)) :
            name \in {"PaneUpdatedEvent", "PaneScrollChangedEvent", "PaneMovedEvent"}}

Good == Program("plugin", WholeHandlers, "shutdown", "returns")

\* Manifests for the one good program, programs for the good manifests, the
\* ways a process can run, and a program that calls Herdr.
MCPlugins ==
    ({Good} \X MCManifests)
    \cup ({Program("plugin", r, "shutdown", "returns") : r \in Registrations}
            \X {Whole})
    \cup ({Program("plugin", EventHandlers(names), "shutdown", "returns") :
                names \in {Hooked, cloneEvent}} \X {WatchesAll})
    \cup ({Program(main, WholeHandlers, context, handler) :
                main \in {"plugin", "handlers"}, context \in {"shutdown", "background"},
                handler \in {"returns", "fails", "waits"}} \X {Whole})
    \cup {<<Program("handlers", <<Handler("event", <<"PaneClosedEvent">>)>>, "shutdown",
                    "returns"), Watcher>>,
          <<Program("plugin", <<Handler("action", A)>>, "background", "calls"),
            [Plain EXCEPT !.startup = <<CommandEntry>>]>>}

MCMethods == DOMAIN DeclaredMethods
MCNumbers == {"0", "9"}
=============================================================================
