------------------------------ MODULE PluginRun -------------------------------
(***************************************************************************)
(* The life of one plugin process (plugin/run.go, registry.go, plugin.go,  *)
(* shutdown.go): the program registers its handlers, reads the environment *)
(* that Herdr gave it, dispatches to a handler and exits; a pane's process *)
(* gets signals when the pane is closed.  A handler may call Herdr, module *)
(* Api; what the program serves is compared with its manifest, module      *)
(* Manifest.  A test may build the environment instead (plugintest).       *)
(*                                                                         *)
(* Herdr, the user and the operating system are modelled from how this     *)
(* code uses them.                                                         *)
(***************************************************************************)
EXTENDS Api, Manifest

CONSTANT
    Plugins         \* pairs of a program and its manifest; a program is a record
                    \* of its main, registrations, context and handlers

VARIABLES
    program, manifest,      \* what is being run
    phase,                  \* how far the process is
    registry,               \* the Plugin, or the Handlers that are set
    invocation,             \* why the process was started
    env,                    \* its environment
    ran, received,          \* the handler that was called, and its payload
    exit,                   \* how the process ended
    closing, pending,       \* Herdr closed the pane; its signals on their way
    installed, notified,    \* signal.NotifyContext: handling signals; got one
    done                    \* the handler's context is done

process == <<phase, registry, invocation, env, ran, received, exit>>
signals == <<closing, pending, installed, notified, done>>
vars == <<program, manifest, process, signals, call>>

-----------------------------------------------------------------------------
(* Registration. *)

NoPlugin == [Startup |-> FALSE, Actions |-> {}, Panes |-> {}, Events |-> <<>>]

\* An event is registered under the name of its payload type.
nameOf(r) == Declared[r.id[1]].event

\* A nil handler, an empty id and a second registration panic.
RegistrationPanics(p, r) ==
    \/ r.nil
    \/ CASE r.kind = "startup" -> p.Startup
         [] r.kind = "action" -> r.id = <<>> \/ r.id \in p.Actions
         [] r.kind = "pane" -> r.id = <<>> \/ r.id \in p.Panes
         [] r.kind = "event" -> nameOf(r) \in DOMAIN p.Events

Registering(p, r) ==
    CASE r.kind = "startup" -> [p EXCEPT !.Startup = TRUE]
      [] r.kind = "action" -> [p EXCEPT !.Actions = @ \cup {r.id}]
      [] r.kind = "pane" -> [p EXCEPT !.Panes = @ \cup {r.id}]
      [] r.kind = "event" -> [p EXCEPT !.Events = @ @@ (nameOf(r) :> r.id[1])]

\* The registry after the first n registrations, if none of them panics.
RegistryAfter(registrations) ==
    LET after[n \in 0..Len(registrations)] ==
            IF n = 0 THEN NoPlugin
            ELSE Registering(after[n - 1], registrations[n])
    IN after

BuildPanics(registrations) ==
    \E n \in DOMAIN registrations :
        RegistrationPanics(RegistryAfter(registrations)[n - 1], registrations[n])

Built(registrations) == RegistryAfter(registrations)[Len(registrations)]

Registered(p) == [p EXCEPT !.Events = DOMAIN p.Events]

-----------------------------------------------------------------------------
(* The environment. *)

NoEnv ==
    [HerdrEnv |-> <<>>, PluginID |-> <<>>, Event |-> <<>>, ActionID |-> <<>>,
     EntrypointID |-> <<>>, EventJSON |-> Nil]

PluginEnv == [NoEnv EXCEPT !.HerdrEnv = <<"1">>, !.PluginID = <<"plugin">>]

startupEvent == <<"startup">>

LoadFails(e) == e.HerdrEnv # <<"1">> \/ e.PluginID = <<>>

isDotted(event) == \E i \in DOMAIN event : event[i] = "."

\* Mutant: an entrypoint id makes it a pane.
KindPaneFirst(e) ==
    CASE e.Event = startupEvent -> "startup"
      [] e.Event # startupEvent /\ e.EntrypointID # <<>> -> "pane"
      [] e.Event # startupEvent /\ e.ActionID # <<>> -> "action"
      [] isDotted(e.Event) -> "event"
      [] OTHER -> "unknown"

Kind(e) ==
    CASE e.Event = startupEvent -> "startup"
      [] e.Event # startupEvent /\ e.ActionID # <<>> -> "action"
      [] e.Event # startupEvent /\ e.ActionID = <<>> /\ isDotted(e.Event) -> "event"
      [] e.Event # startupEvent /\ e.ActionID = <<>> /\ ~isDotted(e.Event)
            /\ e.EntrypointID # <<>> -> "pane"
      [] OTHER -> "unknown"

\* Env.EventEnvelope: an error if there is none.
eventEnvelope(e) ==
    IF e.EventJSON = Nil THEN Err
    ELSE Decode("plugin", Of("EventEnvelope"), e.EventJSON)

\* The environments that plugintest builds.
EventHookJSON(payload) ==
    LET name == underscoreName(Declared[Dynamic(payload)].event)
    IN Encode(Of("EventEnvelope"), Struct([Event |-> Text(name), Data |-> payload]))

EventHookPanics(payload) ==
    LET encoded == EventHookJSON(payload)
    IN Failed(encoded) \/ Failed(Decode("test", Of("EventEnvelope"), encoded))

EventHook(payload) ==
    [PluginEnv EXCEPT !.Event = Declared[Dynamic(payload)].event,
                      !.EventJSON = EventHookJSON(payload)]

Env(kind, id) ==
    CASE kind = "startup" -> [PluginEnv EXCEPT !.Event = startupEvent]
      [] kind = "action" -> [PluginEnv EXCEPT !.ActionID = id]
      [] kind = "pane" -> [PluginEnv EXCEPT !.EntrypointID = id]

-----------------------------------------------------------------------------
(* Dispatch. *)

Bound(handler, payload) == [handler |-> handler, payload |-> payload]
NoHandler == Bound(<<>>, Nil)

\* Plugin.bind.
bind(p, e) ==
    LET kind == Kind(e)
        envelope == eventEnvelope(e)
        data == envelope.elems.Data
    IN CASE kind = "startup" /\ p.Startup -> Bound(<<kind>>, Nil)
         [] kind = "action" /\ e.ActionID \in p.Actions ->
                Bound(<<kind, e.ActionID>>, Nil)
         [] kind = "pane" /\ e.EntrypointID \in p.Panes ->
                Bound(<<kind, e.EntrypointID>>, Nil)
         [] kind = "event" /\ e.Event \in DOMAIN p.Events /\ ~Failed(envelope)
                /\ data # Nil ->
                IF Dynamic(data) = p.Events[e.Event]
                THEN Bound(<<kind, e.Event>>, data) ELSE NoHandler
         [] OTHER -> NoHandler

\* Handlers.bind: one function per kind, which gets the id or the envelope.
HandlersBind(kinds, e) ==
    LET kind == Kind(e)
        envelope == eventEnvelope(e)
    IN CASE kind \notin kinds -> NoHandler
         [] kind = "startup" -> Bound(<<kind>>, Nil)
         [] kind = "action" -> Bound(<<kind, e.ActionID>>, Nil)
         [] kind = "pane" -> Bound(<<kind, e.EntrypointID>>, Nil)
         [] kind = "event" ->
                IF Failed(envelope) THEN NoHandler
                ELSE Bound(<<kind, e.Event>>, envelope.elems.Data)

KindsOf(p) == {p.registrations[i].kind : i \in DOMAIN p.registrations}

\* How a process ends: with a code, by a panic or by a signal.
ExitOK == "0"
ExitHandlerError == "1"
ExitRuntimeError == "2"
-----------------------------------------------------------------------------
(* What starts a process. *)

Invocation(by, kind, id, sample) ==
    [by |-> by, kind |-> kind, id |-> id, sample |-> sample]

NoInvocation == Invocation("nobody", "none", <<>>, <<>>)

EventOf(sample) == Declared[sample[3][1]].event
PayloadOf(sample) == SampleAt("herdr", sample).elems.Data

\* Herdr invokes the entries of a manifest it accepted; a clicked link
\* invokes the action of its handler.
HerdrInvocations(m) ==
    IF Parse(m) # "" THEN {}
    ELSE {Invocation("herdr", "startup", <<>>, <<>>) : i \in DOMAIN m.startup}
         \cup {Invocation("herdr", "action", TrimSpace(m.actions[i].id), <<>>) :
                    i \in DOMAIN m.actions}
         \cup {Invocation("herdr", "action", TrimSpace(m.link_handlers[i].action), <<>>) :
                    i \in DOMAIN m.link_handlers}
         \cup {Invocation("herdr", "pane", TrimSpace(m.panes[i].id), <<>>) :
                    i \in DOMAIN m.panes}
         \cup {Invocation("herdr", "event", EventOf(s), s) :
                    s \in {s \in EventSamples :
                              EventOf(s) \in declaredEvents(m) \cap HookEventNames}}

HerdrEnv(inv) ==
    IF inv.kind = "event"
    THEN [PluginEnv EXCEPT !.Event = inv.id,
            !.EventJSON = Encode(Of("EventEnvelope"), SampleAt("herdr", inv.sample))]
    ELSE Env(inv.kind, inv.id)

\* Such an environment may have the markers of another entrypoint besides: a
\* pane's id, in an action's also an event, and in a pane's what is not one, a
\* name without a dot (plugin_test.go TestEnvKind).
Besides(m, kind, e) ==
    LET undotted == {underscoreName(name) : name \in HookEventNames}
        events == CASE kind = "action" -> HookEventNames \cup undotted
                    [] kind = "pane" -> undotted
                    [] OTHER -> {}
        panes == IF kind # "pane" THEN {TrimSpace(m.panes[i].id) : i \in DOMAIN m.panes}
                 ELSE {}
    IN {e} \cup {[e EXCEPT !.EntrypointID = id] : id \in panes}
           \cup {[e EXCEPT !.Event = name] : name \in events}

\* A test runs what is registered.
TestInvocations(p) ==
    LET Ids(kind) == {r.id : r \in {r \in {p.registrations[i] :
                                            i \in DOMAIN p.registrations} : r.kind = kind}}
    IN UNION {{Invocation("test", kind, id, <<>>) : id \in Ids(kind)} :
                kind \in {"startup", "action", "pane"}}
       \cup {Invocation("test", "event", EventOf(s), s) :
                s \in {s \in EventSamples : <<s[3][1]>> \in Ids("event")}}

\* By hand: outside Herdr, without an id, without an entrypoint.
HandEnvs ==
    {NoEnv, [NoEnv EXCEPT !.HerdrEnv = <<"1">>], PluginEnv}
    \cup {[PluginEnv EXCEPT !.Event = underscoreName(name)] : name \in HookEventNames}

-----------------------------------------------------------------------------
(* The process. *)

Idle ==
    /\ phase = "none" /\ registry = NoPlugin /\ invocation = NoInvocation
    /\ env = NoEnv /\ ran = <<>> /\ received = Nil /\ exit = "none"
    /\ closing = FALSE /\ pending = <<>> /\ installed = FALSE /\ notified = FALSE
    /\ done = FALSE

Init ==
    /\ \E plugin \in Plugins : program = plugin[1] /\ manifest = plugin[2]
    /\ Idle /\ ApiInit

Starts(inv, e) ==
    /\ phase' = "building"
    /\ invocation' = inv /\ env' = e
    /\ UNCHANGED <<program, manifest, registry, ran, received, exit, signals, call>>

HerdrInvokes ==
    /\ phase = "none"
    /\ \E inv \in HerdrInvocations(manifest) :
        \E e \in Besides(manifest, inv.kind, HerdrEnv(inv)) : Starts(inv, e)

UserRuns ==
    /\ phase = "none"
    /\ \E e \in HandEnvs : Starts(Invocation("user", "none", <<>>, <<>>), e)

TestRuns ==
    /\ phase = "none" /\ program.main = "plugin"
    /\ \E inv \in TestInvocations(program) :
        IF inv.kind # "event" THEN Starts(inv, Env(inv.kind, inv.id))
        ELSE /\ ~EventHookPanics(PayloadOf(inv.sample))
             /\ Starts(inv, EventHook(PayloadOf(inv.sample)))

EventHookRefuses ==
    /\ phase = "none" /\ program.main = "plugin"
    /\ phase' = "gone" /\ exit' = "panicked"
    /\ \E inv \in TestInvocations(program) :
        /\ inv.kind = "event" /\ EventHookPanics(PayloadOf(inv.sample))
        /\ invocation' = inv
    /\ UNCHANGED <<program, manifest, registry, env, ran, received, signals, call>>

\* main: the registrations (or the Handlers), the context, Run.
Builds ==
    /\ phase = "building"
    /\ IF program.main = "plugin" /\ BuildPanics(program.registrations)
       THEN phase' = "gone" /\ exit' = "panicked" /\ UNCHANGED registry
       ELSE /\ phase' = "built" /\ UNCHANGED exit
            /\ registry' = IF program.main = "plugin" THEN Built(program.registrations)
                           ELSE NoPlugin
    /\ UNCHANGED <<program, manifest, invocation, env, ran, received, signals, call>>

ShutdownContext ==
    /\ phase = "built" /\ phase' = "ready"
    /\ installed' = (program.context = "shutdown")
    /\ UNCHANGED <<program, manifest, registry, invocation, env, ran, received, exit,
                   closing, pending, notified, done, call>>

\* run (Dispatch for a test, which has no environment to load).
Dispatch ==
    /\ phase = "ready"
    /\ LET bound == CASE invocation.by # "test" /\ LoadFails(env) -> NoHandler
                      [] program.main = "plugin" -> bind(registry, env)
                      [] program.main = "handlers" -> HandlersBind(KindsOf(program), env)
       IN IF bound = NoHandler
          THEN /\ phase' = "returned" /\ exit' = ExitRuntimeError
               /\ UNCHANGED <<ran, received>>
          ELSE /\ phase' = "running" /\ UNCHANGED exit
               /\ ran' = bound.handler /\ received' = bound.payload
    /\ UNCHANGED <<program, manifest, registry, invocation, env, signals, call>>

\* Mutant: a pane handler that waits waits on, its context done or not.
HandlerWaitsOn ==
    /\ phase = "running" /\ call = NoCall
    /\ IF program.handler = "waits" /\ ran[1] = "pane" THEN UNCHANGED <<phase, exit>>
       ELSE phase' = "returned" /\ exit' = ExitOK
    /\ UNCHANGED <<program, manifest, registry, invocation, env, ran, received, signals,
                   call>>

\* A pane handler that waits returns once its context is done.
HandlerReturns ==
    /\ phase = "running" /\ call = NoCall
    /\ program.handler = "waits" /\ ran[1] = "pane" => done
    /\ phase' = "returned"
    /\ exit' = IF program.handler = "fails" THEN ExitHandlerError ELSE ExitOK
    /\ UNCHANGED <<program, manifest, registry, invocation, env, ran, received, signals,
                   call>>

\* A test cancels the context it gave; Exchange is about a call that is then
\* under way.
TestCancels ==
    /\ phase = "running" /\ invocation.by = "test" /\ ~done
    /\ program.handler # "calls"
    /\ done' = TRUE
    /\ UNCHANGED <<program, manifest, process, closing, pending, installed, notified,
                   call>>

HandlerCalls ==
    /\ phase = "running" /\ program.handler = "calls" /\ ran[1] = "action"
    /\ ApiNext
    /\ UNCHANGED <<program, manifest, process, signals>>

\* stop, which also ends the context and its goroutine.
Stop ==
    /\ phase = "returned" /\ phase' = "stopped"
    /\ installed' = FALSE /\ done' = (done \/ installed)
    /\ UNCHANGED <<program, manifest, registry, invocation, env, ran, received, exit,
                   closing, pending, notified, call>>

Exit ==
    /\ phase = "stopped" /\ phase' = "gone"
    /\ UNCHANGED <<program, manifest, registry, invocation, env, ran, received, exit,
                   signals, call>>

\* The next process.
Forget ==
    /\ phase = "gone" /\ phase' = "none"
    /\ registry' = NoPlugin /\ invocation' = NoInvocation /\ env' = NoEnv
    /\ ran' = <<>> /\ received' = Nil /\ exit' = "none"
    /\ closing' = FALSE /\ pending' = <<>> /\ installed' = FALSE /\ notified' = FALSE
    /\ done' = FALSE
    /\ UNCHANGED <<program, manifest, call>>

-----------------------------------------------------------------------------
(* Signals. *)

shutdownSignals == {"HUP", "TERM", "INT"}

IsAlive == phase \notin {"none", "gone"}

\* Closing a pane sends its process a hangup and then a termination.
UserClosesPane ==
    /\ IsAlive /\ invocation.by = "herdr" /\ invocation.kind = "pane" /\ ~closing
    /\ closing' = TRUE /\ pending' = pending \o <<"HUP", "TERM">>
    /\ UNCHANGED <<program, manifest, process, installed, notified, done, call>>

\* The terminal of a pane sends one interrupt at most.
UserInterrupts ==
    /\ IsAlive /\ invocation.by = "herdr" /\ invocation.kind = "pane"
    /\ ~closing /\ pending = <<>> /\ ~notified
    /\ pending' = <<"INT">>
    /\ UNCHANGED <<program, manifest, process, closing, installed, notified, done, call>>

\* A signal that is not handled kills.
DeliverSignal ==
    /\ IsAlive /\ pending # <<>> /\ pending' = Tail(pending)
    /\ IF installed /\ Head(pending) \in shutdownSignals
       THEN notified' = TRUE /\ UNCHANGED <<phase, exit>>
       ELSE phase' = "gone" /\ exit' = "killed" /\ UNCHANGED notified
    /\ UNCHANGED <<program, manifest, registry, invocation, env, ran, received, closing,
                   installed, done, call>>

\* Mutant: one signal is handled, the next one kills.
CancelContextOnce ==
    /\ IsAlive /\ installed /\ notified /\ ~done
    /\ done' = TRUE /\ installed' = FALSE
    /\ UNCHANGED <<program, manifest, process, closing, pending, notified, call>>

\* The goroutine of signal.NotifyContext; the signals stay handled.
CancelContext ==
    /\ IsAlive /\ installed /\ notified /\ ~done
    /\ done' = TRUE
    /\ UNCHANGED <<program, manifest, process, closing, pending, installed, notified,
                   call>>

ProcessNext ==
    Builds \/ ShutdownContext \/ Dispatch \/ HandlerReturns \/ Stop \/ Exit

Next ==
    \/ HerdrInvokes \/ UserRuns \/ TestRuns \/ EventHookRefuses
    \/ ProcessNext \/ HandlerCalls \/ TestCancels \/ Forget
    \/ UserClosesPane \/ UserInterrupts \/ DeliverSignal \/ CancelContext

\* A process that can go on does, the operating system delivers the signals
\* and the runtime schedules the goroutine.
Spec ==
    /\ Init /\ [][Next]_vars
    /\ WF_vars(ProcessNext) /\ WF_vars(DeliverSignal) /\ WF_vars(CancelContext)

-----------------------------------------------------------------------------
(* Properties. *)

Clean ==
    /\ program.main = "plugin" /\ ~BuildPanics(program.registrations)
    /\ CheckManifest(manifest, Registered(Built(program.registrations)))

\* If CheckManifest finds nothing to report, then whatever entry of the
\* manifest Herdr invokes, a handler runs (plugintest/manifest.go: "which
\* Herdr would only report when the user invokes it").
ServedAsChecked ==
    exit \in {ExitRuntimeError, "panicked"} /\ invocation.by = "herdr" => ~Clean

\* ... and every handler is one that Herdr can invoke ("a handler with no
\* manifest entry, which nothing can ever reach").
NoDeadHandler ==
    phase = "none" /\ Clean =>
        LET p == Built(program.registrations)
            served == {bind(p, HerdrEnv(inv)).handler : inv \in HerdrInvocations(manifest)}
        IN /\ p.Startup => <<"startup">> \in served
           /\ {<<"action", id>> : id \in p.Actions} \cup {<<"pane", id>> : id \in p.Panes}
                \cup {<<"event", name>> : name \in DOMAIN p.Events} \subseteq served

\* In a manifest that Parse accepts, an id names one entry, a link leads to an
\* action, and no local id has the dot that joins it to the plugin's.
IdsNameOneEntry ==
    phase = "none" /\ Parse(manifest) = "" =>
        /\ \A entries \in {manifest.actions, manifest.panes, manifest.link_handlers} :
            /\ \A i, j \in DOMAIN entries :
                    TrimSpace(entries[i].id) = TrimSpace(entries[j].id) => i = j
            /\ \A i, k \in DOMAIN entries :
                    k \in DOMAIN entries[i].id => entries[i].id[k] # "."
        /\ \A i \in DOMAIN manifest.link_handlers :
                TrimSpace(manifest.link_handlers[i].action) \in declaredActions(manifest)

\* The plugin's author, CheckManifest and Herdr understand a manifest alike.
ManifestAgrees == ServedAsChecked /\ NoDeadHandler /\ IdsNameOneEntry

\* The handler that runs is the one for what was invoked, whichever markers the
\* environment has besides, an event's handler gets the payload that was sent, and
\* code 2 means that no handler ran (run.go, Env.Kind, Plugin.bind).
RightHandler ==
    /\ ran # <<>> =>
        /\ ran[1] = invocation.kind
        /\ ran[1] # "startup" => ran[2] = invocation.id
        /\ ran[1] = "event" =>
                Erase(received) = Erase(Received(Of("EventEnvelope"),
                                SampleAt("herdr", invocation.sample)).elems.Data)
    /\ exit = ExitRuntimeError => ran = <<>>

\* The manifest and the API accept the same popup sizes, read them alike, and
\* the API writes what they read (manifest/size.go "It mirrors herdr's
\* PopupSize", unions_manual.go).
PopupSizesAgree ==
    phase = "none" => \A i \in DOMAIN manifest.panes : \A size \in SizesOf(manifest.panes[i]) :
        LET read == UnmarshalTOML(size) IN
        /\ read = UnmarshalPopupSize(size)
        /\ ~Failed(read) => MarshalPopupSize(read) = size

\* A signal does not kill a process that took its context from
\* ShutdownContext while its handler runs: Herdr's second signal does not
\* cut short what the first one asked for (shutdown.go).
ShutdownIsClean ==
    [][phase = "running" /\ program.context = "shutdown" => exit' # "killed"]_vars

\* Closing a pane ends its process (shutdown.go).
PaneCloses == closing ~> phase = "gone"
=============================================================================
