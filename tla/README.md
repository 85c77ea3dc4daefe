# A TLA+ model of herdr-client

herdr-client is a Go client for Herdr, a terminal multiplexer for coding
agents.  A program uses it to call the server, to follow the server's events,
to keep a mirror of the server's session, and to write Herdr plugins.  This
directory holds TLA+ modules translated from the code, TLC configurations that
check them on small instances, and TLAPS proofs about six of the components.
`PROJECT.json` maps every definition to the lines it models.

## 1. The system

| Component | State it keeps | Operations | What makes it correct |
| --- | --- | --- | --- |
| `herdr.Client` (client.go, dial*.go) | none between calls: every request has a connection of its own | `open`, `CallRaw`, `OpenStream`, `dial`, `watchContext` | the connection is closed exactly once or handed over, never both; cancellation ends the request and is what it reports |
| `herdr.Stream` (stream.go) | a reading goroutine, an unbuffered channel, the first read error, a `sync.Once` | `Next`, `Close`, `read` | no line is lost by a cancelled `Next`; `Close` unblocks everybody; the first end is the one reported |
| `herdr.Session` (session.go, session_bootstrap.go) | current stream, pending events, resync, cause, closed, the mirror | `OpenSession`, `Next`, `Close`, `reconnect`, `install`, the event collector | the mirror equals the server's state at the event delivered; a gap is always reported; no connection is leaked; `Next` ends on `Close` and cancellation |
| Session mirror (session_cache.go, ordered_collection.go, session_state.go) | five ordered collections of records | one handler per event, the accessors | replaying events over a snapshot that has them already ends in the server's state, and in its order |
| `plugin` state files (state.go) | files in the plugin's state directory | `ReadState`, `WriteState`, `AppendStateJSONL`, `joinInside` | a crash leaves the old file or the new one; concurrent records stay whole |
| API types and methods (types_gen.go, results_gen.go, events_gen.go, methods_gen.go, optional.go, unions_manual.go) | none: values | copying, encoding, decoding, one method per request | what is sent is what is read; absent, null and zero stay apart; a method returns its own result or an error; a copy shares no memory |
| `plugin` dispatch (run.go, registry.go, plugin.go, shutdown.go) | handler tables, built once; the signals and the context of one process | registration, `Load`, `Kind`, `Run`, `ShutdownContext` | every invocation reaches the handler of its kind, with its payload, or is refused; a closed pane ends, and not in the middle of its handler |
| `plugin/manifest`, `plugintest` | none | `Validate`, `CheckManifest`, the environments of tests | what is declared is what is served; ids mean what Herdr takes them for |
| `herdrtest`, `testsocket` | accepted connections, recorded calls, subscriptions, waiters, one gate per subscription | accept loop, `serveConn`, `WaitCall`, `WaitSubscription`, `Send`, `SendRaw`, `Close` | `Close` joins every goroutine; a waiter misses no wake-up; frames do not mix |
| API generator (internal/gen) | none: a batch program | schema to Go | the bodies it writes: modelled as what they do |
| socket path, source checks, examples | none | a path from the environment, text scans, sample plugins | not modelled, see 7 |

How they interact: `Session` opens `Stream`s through `Client.Subscribe` and
asks for `session.snapshot` through `Client.CallRaw`; both run `Client.open`.
A goroutine of the bootstrap (the collector) reads the new stream while the
snapshot is on its way.  `Session.Next` reads the stream and applies each event
to the mirror, which accessors read under a lock of its own.  `Close` runs
concurrently with `Next`.  A plugin is a process that Herdr starts per
invocation; several of them share one state directory.  Its handlers call the
methods of the API, which are one `CallRaw` each with typed parameters and a
typed result.  `plugintest` gives a plugin the environment that Herdr would,
`herdrtest` is the server that a test runs a client against.

Hard behaviours: the caller, the collector, the reading goroutine, `Close`
and the context watcher interleave freely; the server may restart, drop a slow
subscriber, answer late or never; reconnecting may be given up and resumed;
events are replayed over a snapshot that already has some of them; a test's
goroutines write on one connection and any of them may give up half-way; two
signals follow one another while a handler finishes; one payload goes by two
names, and every optional field has three states.

## 2. The modules

| Module | Models | Uses |
| --- | --- | --- |
| `Session` | the event loop, reconnect, install, bootstrap, collector, Close | implements `LogReader`; abstracts `Stream`, `Exchange`, `SessionCache` |
| `LogReader` | what a Session promises: a reader of the log with a view | |
| `Feed` | what a stream promises: a queue with an end | |
| `Stream` | the reading goroutine, `Next`, `Close` of a pushed stream | implements `Feed` |
| `Exchange` | one request: dial, watcher, write, read, handover, failure | |
| `OrderedCollection` | the ordered map of the mirror | |
| `SessionCache` | every event handler of the reducer | `OrderedCollection` |
| `SessionState` | the accessors and the `Snapshot` of a Session | `SessionCache` |
| `Mirror` | a server that pushes events, a snapshot, the replay | `SessionState` |
| `PluginState` | plugin state files over a file system that fails | |
| `TestServer` | the scripted test server and its accept loop | |
| `Subscription` | what a test sends on the subscriptions of that server | `TestServer` |
| `Types`, `Results`, `Events`, `Methods` | the declarations of the API, as tables | each other |
| `Values` | copying, encoding and decoding of values of those types | `Results`, `Events` |
| `Samples` | values of every type, and what a peer must receive of each | `Values` |
| `Api` | one call of a method; events as they are pushed and read | `Samples`, `Methods` |
| `Manifest` | decoding, validation and comparison of a plugin's manifest | `Values` |
| `PluginRun` | one plugin process: registration, dispatch, signals, exit | `Api`, `Manifest` |
| `SessionProofs`, `StreamProofs`, `ExchangeProofs`, `PluginStateProofs` | theorems about the module named | that module, `TLAPS` |
| `TestServerProofs` | theorems about `TestServer` and `Subscription` | `Subscription` |
| `ReducerProofs` | lemmas about the ordered map, theorems about every handler of the reducer | `SessionCache` |
| `MirrorProofs` | theorems about the mirror's collections, and about what the server's log says of its state | `Mirror`, `ReducerProofs` |
| `ConvergenceProofs` | the theorem that replay ends in the server's state | `MirrorProofs` |
| `MC...` | the instances TLC checks: initial data, what the tests do | the module named |

Definitions named "Mutant" in a comment are faulty variants of the definition
they precede.  They take part in no specification; each shows that a property
can tell the code from a plausible mistake.

### Session

One `Next` runs at a time (`nextMu`), so a single program counter `pc` and one
set of locals stand for it; before `opened` they are those of `OpenSession`.
`holder` is the caller that holds `nextMu`, `waiting` the callers that want it,
`ctx` those whose context is done.  The critical sections of `streamMu` are the
atomic steps: `LoadStream`, `DropStream`, `Install`, `CloseBegin`, with
`CloseStream` after the lock is released.  The steps of the code between two of
them (`StreamEnded`, `RecordCause`, `Replace`, ...) are separate actions, so
that `Close` can fall between any two.

The server keeps a log.  Event `i` sets record `log[i]` to version `i`, which
makes the mirror's contents comparable with the server's state `states[i+1]`
and leaves the reducer to `SessionCache`.  A stream carries the log from the
moment it was accepted; `str[s].pos` is what was taken from it.  A stream can
end (`BreakStream`) by a hang-up (`"eof"`) or an `events_lost` response
(`"lost"`), subscription and snapshot can fail in a retryable way, for good, or
as refused.  `ret`, `base`, `applied`, `mirror...` and `prevEnd` are history.

`LogReader` is the same seen from the program: callers that are inside a call,
the event they were told of last (`told`), a gap that is yet to be announced,
and a view that `Reflection` defines outright, by the snapshot it was taken from
and the events told of since.  `Deliver` tells of the next event, `Rejoin` takes
the view anew after its source was lost, `Announce` tells of the gap, and every
other return shows nothing new.  `ImplementsLogReader` maps `waiting` and
`holder` to `inside`, `base` to `told`, `resync` to `gap` and `mirror` to
`view`; everything about streams, bootstraps, the backoff and `nextMu` is gone.

### Stream, Feed, Exchange

`Stream` has the reader (`reader`, `lineErr`), the closed channel, the
`sync.Once` of `Close` (`closer`), the first read error (`readErr`) and one
program counter per `Next`.  The unbuffered channel is a rendezvous:
`SelectLine` and `SelectErr` move reader and caller together, and a `select`
with several ready cases is a disjunction.

`Feed` is the abstract specification of a stream: the lines pushed, how many
were handed out, whether it is closed, which end was recorded, who waits.  It
knows no reader, channel or lock.  `Stream` implements it (`ImplementsFeed`)
with `readErr` for `end` and the callers inside `Next` for `pending`; its other
variables are shared.  That no `Next` which begins after `Close` returns an
event, and that `Next` returns on close and cancellation, are part of `Feed`.

`Exchange` is one request through `open`: `pc` follows the code, `watch` is the `context.AfterFunc` watcher,
`once`/`closes` the connection that closes once, `opener` the goroutine of the
Windows pipe dialer that may outlive its dial.  A dialer given by the program
may return any combination of connection and error.

### OrderedCollection, SessionCache, SessionState, Mirror

The first three are pure: `apply(cache, event)` is the reducer, with one
operator per handler, and `Snapshot(cache)`, `Pane(cache, id)`, ... are what a
program reads.  Every accessor holds the read lock and every event the write
lock, so that each sees the cache between two events.  `Mirror` runs it against an external
server whose operations (create, rename, move, close workspaces and tabs;
create, update, move, break out, close, focus panes; detect, release, report
agents) emit the events the handlers' comments describe.  The snapshot is taken
anywhere in the log and every event since the subscription is applied to it,
also those it already contains.

### PluginState

Processes share a directory of inodes.  `WriteState` is create, fill, flush,
rename, with removal on failure, which may fail in turn and is then not
reported: `leftover` has the temporary files that stay so, `orphans` those of
killed processes.  `AppendStateJSONL` is open and one write, that the kernel may
cut short; `ReadStateJSON` reads in pieces.  `Kill` ends a
process between any two steps; `PowerLoss` also takes back what was not flushed
and any number of directory updates.

### TestServer

`acceptor`, `serve[c]` and `peer[c]` are the accept loop, the goroutine and the
watcher of each connection; `conns`, `closed` and the lock of `testsocket` are
modelled so that `Close` can run while a connection is being registered.  A
waiter's `changed` is the notification channel it holds: still open or already
closed by `notify`.  Clients, handlers and the test are external and do
anything their types allow.

### Subscription

`Subscription` adds the goroutines that call `SendRaw` to `TestServer`.
`gate` is the channel of one token per subscription, `after` the
`context.AfterFunc` that sets the write deadline, `deadline` the connections on
which it has passed, `wire` what went out.  A frame is written in two pieces,
so that a write can be interrupted with half of it on the wire.  `Send` is in
`Api`, because what is at stake there is the decoder it tries the frame on.

### Types, Results, Events, Methods, Values, Samples, Api

The first four are the declarations of the generated files as data: for each
type its fields with their shapes (scalar, raw JSON, list, map, pointer,
optional, struct, union), for each union its variants and its tag, for each
method its parameters and its result.  They decide what the generated bodies do;
`Values` is those bodies, once per shape: `Clone` (emit_clone.go), `Encode` and
`Decode` (emit.go, optional.go, unions_manual.go), `DecodeEvent` with its two
ways to name an event.  A value is a tree whose allocated nodes name their
owner, "caller", "herdr", "clone", ...; two values share memory iff an owner
occurs in both.  `Failed` values are errors.

`Api` is one call: `Begin` encodes, `HerdrReads` and `HerdrAnswers` are the
peer, `ReturnFromCall` is the method's body, `ReturnFromSubscribe` that of
`Subscribe` with `checkSubscriptionAck`; then `HerdrPushes`, or
`TestServerSends` for `herdrtest`, and `NextEvent`.  Herdr answers with any
result, with `null`, with a type nobody knows.  What happens to the connection
meanwhile is `Exchange`.

`Samples` holds the values that are sent and `Received`, the reference: what a
peer must find of each, written from the meaning of the shapes and without the
encoder.

### Manifest, PluginRun

`Manifest` is pure: `UnmarshalTOML` of a size, `Parse` with the rules of
`Validate` in the order of the code (the result is the first rule broken), the
comparison `CheckManifest` makes.  A string is a sequence of pieces, so that
trimming, dots and lengths are what they are in the code.

`PluginRun` is a process: `phase` follows `main`.  A program is data: its
registrations, in order, whether it uses `Plugin` or `Handlers`, which context
it takes, and whether its handler returns, fails, waits for its context or
calls Herdr.  It is started by Herdr for an entry of the manifest, by a user
at a shell, or by a test through `plugintest`; `env` is the environment, which
may have markers of other entrypoints (`Besides`: a pane's id, an event, a name
without a dot where an event would be), and `bind` what `Env.Kind` and the
tables make of it.  `UserClosesPane`,
`DeliverSignal` and `CancelContext` are the hangup and the termination that
follow each other, the operating system and the goroutine of
`signal.NotifyContext`.  A handler that calls goes through the actions of
`Api`.

## 3. What is checked

| Run | Question and result | Bounds |
| --- | --- | --- |
| `session_safety` | The mirror is the server's state once replay has reached the snapshot (`MirrorConverges`); no line is lost (`NothingLost`); every open stream has an owner (`NoOrphanStream`); a resync names the end of the previous stream (`ResyncCarriesCause`); a Session is a reader of the log that is told every event once and in order or of a gap, named by its cause, with a view that changes only inside a call (`ImplementsLogReader`). Holds. | 1 caller, 2 records, 2 events, 3 streams, 2 faults |
| `session_live` | A cancelled `Next` returns whatever the server does; with a server that answers, `Close` ends a running `Next` and reconnecting settles. Holds. | 2 callers, 1 event, 2 streams, 1 fault |
| `session_violation_closed` | "`ErrStreamClosed` means the Session is closed". Violated, see 6. | 2 faults |
| `session_violation_hang` | "Close ends a blocked Next", with a server that may never answer. Violated, see 6. | 2 faults |
| `stream` | `Stream` implements `Feed`; no line is lost by a cancelled `Next`; every `Close` returns with the connection closed and ends the reader; the first end is the one reported and it has a cause. Holds. | 2 lines; 2 callers and 1 closer, or 1 caller and 2 closers |
| `exchange` | A handed over connection is closed by its owner alone; a failed one is closed, once; cancellation is what is reported and it ends the call. Holds. | none: all of one request |
| `mirror` | Snapshot plus replay gives the server's records, its order, its focus; every handler is idempotent; collections stay well formed. Holds. | 3 server operations on 2 workspaces, 3 tabs, 4 panes, 1 agent |
| `mirror_violation_names` | "Replay is safe since handlers assign state", for the agent fields only the snapshot reports. Violated, see 6. | the same, 2 agents |
| `plugin_state` | State files always decode; records of concurrent appends do not mix and acknowledged ones stay; a temporary file has an owner, unless that was killed or its removal failed too. Holds. | 2 processes, 3 operations, 3 faults, 1 crash |
| `plugin_state_violation_append` | "Appends go through a temporary file and a rename". Violated, see 6. | 2 operations |
| `test_server` | `Close` joins every goroutine and returns; no waiter misses a wake-up; senders leave each other's frames alone; a cancelled send returns. Holds. | 2 connections; a test that waits, one with 2 closers, or one with 2 senders of 1 frame each |
| `plugin` | Requests and answers arrive as they were meant; clones share nothing; a manifest that passes `CheckManifest` is served whole and ids are unique; the right handler runs; sizes agree; a pane's process ends, after its handler. Holds. | every manifest and program that is wrong in one place; every method, every type in up to 13 fillings |

Why the bounds are enough for the cases that matter.  Three streams and two
faults let a first stream break, a re-bootstrap fail half-way and a second one
succeed, with the call given up and resumed in between; two events are enough
for one that the snapshot contains and one that it does not, and two records
for one that each writes.  In `Stream` the reader holds at most one line, so
two lines distinguish the one in hand from the one before.  Three operations of
`Mirror` reach the pairs that interact (an agent change followed by a move, a
break-out followed by a close) with one to spare.  In `PluginState` a third
operation meets what two interleaved ones left behind, and of three faults two
are a write and its removal that both fail, with one more for what comes after.  In `test_server` the
three tests share the server but not the hazard: what two closers can disturb
is the join, what two senders can disturb is the wire.  In `plugin` an API value
is filled in five ways (zero, nulls, required only, empty, full), at the top and
below it, so that every field is met absent, null, zero and present; a union
with each of its variants, as a value and as a pointer; types that contain
themselves are two levels deep.  Ids are at most three pieces long, limit
included (`idMaxChars`); sizes are the numbers around 0, 100 % and 65535.  The
theorems of section 5 hold without any of the bounds in this table.

`session_safety` has one caller because callers differ only in their context;
`session_live` has two, for the lock.  `FirstEndReported` and `EndHasCause`
say so themselves that they speak of a single consumer, which is how `Session`
uses a stream: with two concurrent `Next` calls the later read error may be
recorded first.  `Feed` therefore lets any end that was reached be recorded.

`CHECK_DEADLOCK FALSE` is set for `Exchange`, whose request ends, and for
`Mirror`, whose server stops at `MaxOps`.  In every other run a deadlock is an
error.

`Session` is symmetric in its records and `PluginState` in its processes;
`session_safety` and `plugin_state` use that, and check safety only.

The modules that restrict an instance (`MCStream`, `MCTestServer`) restrict
only the calls that a program or a test makes, which are under no fairness.
`ManifestAgrees`, `SendersKeepApart` and `AnswerIntact` are conjunctions of
parts that are stated and named next to them.  A type invariant is a property of
a run only in `Session`, and as `CollectionsWellFormed` in `Mirror`; `TypeOK` of
the other modules and `ServerTypeOK` are proved, see 5.  The exceptions are
`Api` and `PluginRun`, whose values are trees without a useful type.

## 4. Fairness

Nothing is assumed of the server, of the network or of a test's clients, unless
a property says so as its hypothesis.

- `Session`: a goroutine that can run does run (weak fairness of `ClientSteps`
  and `CloseStream`).  `Lock` is strongly fair because `sync.Mutex` hands the
  lock to a starving waiter; `WaitClosed` because `select` chooses among ready
  cases at random, so a ready case is not passed over for ever.  A request
  whose context is done ends; that is not assumed but taken over from
  `CancelEndsOpen` of `Exchange`.
- `ServerFairness` (every request is answered or fails) is the hypothesis of
  `CloseEndsServedNext` and `ReconnectSettles` only.  `CancelEndsNext` does
  without.
- `Stream`: the reader, each `Next` and each `Close` that can move do; the
  server need not send.  `Feed` promises no more: the next line is delivered
  while somebody waits for it, and a caller that may give up does.
- `Exchange`: the client's steps; a dialer returns once its context is done,
  which dial.go requires of it; I/O on a closed connection returns; a pipe
  open ends; the caller of `CallRaw` runs its deferred close.
- `TestServer`: goroutines that can run do; a handler returns once its context
  is done, as the comment on `Handler` demands.  `Subscription` adds the senders
  and their `context.AfterFunc`; the peer need not read, so a write may block
  until the deadline.
- `PluginRun`: a process that can go on does, a signal that was sent is
  delivered, and the goroutine of `signal.NotifyContext` runs.  Nothing is
  assumed of Herdr or of users; a handler that waits returns only because its
  context is done.

## 5. What is proved

Every theorem holds for all values of the constants that satisfy the named
assumptions: any number of callers, processes, connections, records and faults.
The assumptions only say that model values are distinct, that bounds are natural
numbers (`BoundsAssumption`, `StreamAssumption`, `StateAssumption`,
`SendersAssumption`, `NamesAssumption` of `Session` and of `TestServer`), that
a session's snapshot is finite (`ServerAssumption` of `Mirror`), that an id
names one tab and the ids the server has yet to give out name none
(`TabIdsAssumption`), and, for `Converges`, the same of the other records, that
each is in a container there is with one focus at most (`RecordsAssumption`),
that no id is given out twice (`FreshAssumption`), and that "not set" is none of
the values (`AbsentAssumption`).  The latter three are about the state the server
is in when it accepts the subscription; nothing is assumed of what it does then,
beyond the operations of `Mirror`, of their number, or of when the snapshot is
taken.

| Module | Theorem | Statement |
| --- | --- | --- |
| `SessionProofs` | `MirrorCorrect` | `Spec => []MirrorConverges` |
| | `NoLineLost` | `Spec => []NothingLost` |
| | `EveryStreamOwned` | `Spec => []NoOrphanStream` |
| | `ResyncCause` | `Spec => []ResyncCarriesCause` |
| | `ReadsTheLog` | `Spec => ImplementsLogReader`: `Session` implements `LogReader` |
| | `NoGap` | `Spec => NoSilentGap`, an action property |
| `StreamProofs` | `LinesKept` | `Spec => []NoLineLost` |
| | `CloseCloses` | `Spec => []CloseReturnsClosed` |
| | `FirstEnd` | `Spec => []FirstEndReported` |
| | `EndNamed` | `Spec => EndHasCause`, an action property |
| | `ImplementsFeedSafely` | `Spec => Promise!Safety`: `Stream` implements `Feed` |
| `ExchangeProofs` | `HandoverExclusive` | `Spec => []HandoverIsExclusive` |
| | `FailureCloses` | `Spec => []FailureClosesConnection` |
| | `CancellationReported` | `Spec => CancellationIsReported`, an action property |
| `ReducerProofs` | `ApplySound` | every handler keeps a sound cache sound, whatever the event |
| | `ApplyTwice` | `apply(apply(c, e), e) = apply(c, e)` for a sound cache and any event, a reorder at home |
| `MirrorProofs` | `CollectionsSound` | `Spec => []CollectionsWellFormed` |
| | `IdempotentReplay` | `Spec => []ApplyIsIdempotent` |
| `ConvergenceProofs` | `AlwaysConverging` | `Spec => [](IInv /\ Converging)`: what the mirror differs in is in the events it has not applied |
| | `Converges` | `Spec => []MirrorMatchesServer` |
| `PluginStateProofs` | `ReadsDecode` | `Spec => []StateDecodes` |
| | `RecordsApart` | `Spec => []RecordsDoNotMix` |
| | `AckedKept` | `Spec => []AckedRecordsKept` |
| | `TempsHaveOwners` | `Spec => []TempsOwned` |
| `TestServerProofs` | `CloseJoinsAll` | `CloseJoins`, with senders and without |
| | `NoWakeupLost` | `NoLostWakeup`, with senders and without |
| | `FramesWhole` | `SubscriptionSpec => []SendersKeepApart` |
| | `SendersKeepToServer` | `SubscriptionSpec => Spec`: `Subscription` implements `TestServer` |

Each module about a specification also has `Inductive`, which says that its
inductive invariant `IInv` holds (`SubInductive` for `Subscription`), and each
with a `TypeOK` has `TypeCorrect`.  The invariants are conjunctions of parts,
with one lemma per part or per group of actions.  None of the properties is
inductive alone; what the parts add:

`Session`:

- `LogInv` ties the server's states to its log: a record that nobody wrote
  between two positions has the same version at both.  That is what makes
  replay over a newer snapshot converge.
- `StreamInv`: a stream is never ahead of the log or of its own end.
- `OwnerInv` says for each `pc` who holds which stream; `NoOrphanStream` needs
  it because ownership moves in several steps that `Close` can interrupt.
- `FeedInv`: `pending` and the collector's buffer are the contiguous run of
  events after the last one applied.
- `MirrorInv` describes the mirror while replay is still behind the snapshot,
  where `MirrorConverges` says nothing: a record written by a replayed event is
  as that event left it, any other as the snapshot has it.
- `CauseInv` follows the reason from the stream's end through `cause` to the
  `ResyncEvent`, across calls that give up.
- `ToldInv` relates what the caller was told to what the mirror took in;
  `NoSilentGap` follows from it.

`ReadsTheLog` uses them all.  `DeliverPending` and `Receive` are `Deliver`
(`FeedInv`: what they hand out is the next event; `MirrorInv`: the mirror it
makes is the `Reflection`), `Construct` is `Open`, `Replace` is `Rejoin`
(`CauseInv`: the mirror's stream was lost, for that reason), `ReturnResync` is
`Announce`, every other return is `Fail`, and the rest stutters.  `HolderInv`
adds that the caller that holds `nextMu` does not wait for it.

`Stream`:

- `HandInv`: what was taken and not handed over is one line in the reader's
  hand; only after `Close` may a line stay behind there.
- `CloseInv`: whoever is past the `sync.Once` found the stream closed.
- `CallInv`, `EndInv`: a `Next` that holds an error is about to record it, and
  whatever says that the stream is over (the reader's error, a caller's, the
  terminal branch) does so because an end was reached.  The refinement needs
  both: a step that reports an end maps to a step of `Feed` that may.
- `SingleInv`: for one consumer, the first end received is recorded or is in
  its hand.

In the refinement, each action of `Stream` is an action of `Feed` or a stutter:
`ReadLine` is `SkipBlank` for a blank line, `SelectLine` is `Deliver` or
`TakeError`, `SetReadErr` is `RecordEnd` when it is the first, `SelectDone`,
`Terminal` and an `Enter` whose context is done are `Fail`, `CallClose` is
`Close` the first time, and an action that keeps its name maps to its namesake;
everything else stutters.  The fairness part of `Feed` stays with TLC.

`Exchange`: `ConnInv` counts the closes against the state of the connection,
`OpenerInv` follows the pipe that may be opened after its dial was given up,
`OwnerInv` says who has the connection at each `pc`, `WatchInv` that the
watcher acts only on a context that is done and only until the stop function
has returned.  Exclusive handover is the meeting of the last two.

`Mirror`: an operation of `OrderedCollection` preserves `Sound`, which is
`WellFormed` with types.  A filter loop is a recursive function over positions
(`Among`), so a statement about it is proved of the first position where it
could fail (`Least`, `Positions`); the library's induction theorems cannot be
instantiated here.  On this rest `SetSound`, `KeepSound`, `InsertAtSound` (a
payload with one id twice, a held id in the block, a position outside) and
`ResetSound`; on these a lemma per handler, and `ApplySound`.  It assumes
nothing of the event but that its lists are lists, so it covers event
sequences no server would send.

`ApplyTwice` goes the same way: an operation repeated leaves the collection as
it is (`SetAgain`, `KeepAgain`), a block of tabs taken out and put back is where
it was (`BlockAgain`), and of a pane that moved, changed its id and lost its
containers nothing is left to do (`RekeyAgain`).  One handler needs a condition,
`AtHome`: the tabs a reorder lists are of its workspace, and the mirror has none
of them under another.  Without it the claim is false: of `t1` in `w1` and `t2`
in `w2`, a reorder of `w1` to `t2, t1` gives `t1, t2` at first and `t2, t1` when
it is applied again, because `insertAt` leaves a held id in its place.

`IInv` of `Mirror` adds that the server is finite, that every event pushed
decodes (`LogInv`), and `HomeInv`: of all the records of tabs there are, in the
server, in the log and in the mirror, two of one tab name one workspace, the
mirror holds them by id, and a new id is the id of none.  So a reorder is at
home whenever it comes, however old the state the mirror is in, and
`IdempotentReplay` follows.

`MirrorMatchesServer` speaks of a mirror that has caught up, and nothing of the
kind holds before: during replay an event older than the snapshot is applied
over it, and the mirror goes back and through mixtures no server was in.  What
does hold, at each step, is that whatever differs is in the events still to
come.  The proof has three parts.

- The log tells the state, whichever operations the server performs.  `Past`
  relates the log to the state it led to: a record that came is there unless an
  event after it took it away (`CameStays`) and one that went came back
  (`WentReturned`); every field is what the last event that wrote it wrote
  (`LastWrote`); a closed pane is not heard of again (`ClosedGone`), and a pane
  that moves gets an id no event was about (`MovedNew`); who runs in a pane, and
  in which order workspaces and tabs are, can be read off the log
  (`AgentsLogged`, `OrderLogged`).  A focus change is told to a layout only
  through the pane, so the layout of a tab must be reported after the pane that
  had the focus in it has left (`FocusStays`, with the tabs for which it has
  not been yet).  Containers are told only by the pane or the tab inside, so
  a history `h`, the id of the tab each pane was made in and of the workspace
  each tab was made in, goes along, and grows with each new id.  Each operation
  is one to three events; each event is shown to report the state it leads to
  (`Reports`, kind by kind in `Does`), and an operation is `Onward`, a lemma
  for each of the seventeen.
- `Awaits` says of a mirror that has applied `m` events, from a snapshot taken
  after `t`: of what it lacks (`Coming`), holds too long (`Going`), has out of
  date (`Current`) or in another order (`OrderKept`), the log still has the
  event behind `m`, and so for agents.  What is not obvious is kept apart:
  `applyAgentDetected` ignores a pane the mirror does not hold, so the pane
  must be made first (`PanesComing`, `PanesKnown`); `movePane` takes the agent
  the mirror has, not the one the event has, so of a pane still to move the
  mirror must have the agent by then, and not have it if it left
  (`CarriedComing`, `BareGoing`).  The server pushing one more event
  keeps it (`Lasts`), and so does the mirror applying one: `apply` does to each
  collection what the event says and no more (`Reduces`, a lemma per handler),
  and that leaves what differs behind `m + 1` (`TurnComing`, `TurnCurrent`,
  `TurnAgents`, `TurnCarried`, `TurnOrder`).
- `bootstrapSession` subscribes first and takes the snapshot then: the mirror
  it makes has nothing that differs (`SnapshotPresents`), whatever was pushed in
  between, so `Awaits` holds with no event applied (`BootstrapAwaits`).  Nothing
  is behind a mirror that has caught up, so nothing differs (`CaughtUpShows`).

`FocusSole` adds that one workspace, one tab and one pane at most have the
focus, which is what `Snapshot` reports by the first it finds.

`PluginState`:

- `DirInv` speaks of every directory that a power loss may bring back
  (`past`), not only of the current one: an inode has one name in all of them
  and a temporary file has none.
- `HandInv`, `ApartInv`: what each process holds at its `pc`; no two share an
  operation or a temporary file.
- `FileInv`: a file that has its name, or may get it back, is whole and
  flushed.  `StateDecodes` is proved together with it.
- `RecordInv`: in each log no half is there twice, and one without its second
  half behind it was cut or belongs to an append that is still running, which
  is at the end of the log (`RestInv`).  `RecordsDoNotMix` follows.
- `AckInv`: a log with an acknowledged record has its name.
- `FaultInv`: a write that is at `os.Remove` has had a call fail.  It makes the
  part of `TempsOwned` inductive that says what a leftover costs: two failed
  calls (`StepFault`).

`TestServer`: `ConnInv` and `PeerInv` say what a connection has left in the
server at each stage of its goroutine and its watcher; `DoneInv`, that after a
`Close` nothing can start one; `WaitInv` is `NoLostWakeup` with what a waiter
holds.  `Subscription`: `GateInv` (one token per subscription), `AfterInv` (the
`context.AfterFunc` lives exactly while its write does), `HalfInv` (half a
frame is the last thing on the wire) and `DeadlineInv` (a deadline that passed
belongs to the sender that will close the connection) carry `WholeFrames`.

TLC checked each inductive invariant on the module's run before it was proved;
`Past` and `Awaits`, which quantify over every id there could be, with the ids
of the instance.

Only model-checked:

- all liveness, which is out of the prover's reach, and with it the fairness
  part of `Feed`;
- the properties of `Api`, `Manifest` and `PluginRun` (`RequestIntact`,
  `AnswerIntact`, `CloneDetaches`, `ManifestAgrees`, `RightHandler`,
  `PopupSizesAgree`, `ShutdownIsClean`): `Values` and `Samples` recurse over types
  and values with RECURSIVE operators, which keeps them and what extends them
  out of the prover's reach.

## 6. Where documents and code disagree

- `session_violation_closed`: `Next` can return an error that matches
  `ErrStreamClosed` on a Session that is open.  A subscription ended with
  `events_lost` during a re-bootstrap yields an error that wraps both
  `ErrStreamClosed` and `*Error`, and `isRetryable` refuses it for the latter.
- `session_violation_hang`: `Close` does not interrupt a bootstrap.  With a
  server that accepts a request and never answers, a `Next` in `reconnect`
  stays blocked until its own context ends.
- `mirror_violation_names`: `movePane` carries over what the cache holds for
  the old pane id, so it is not a pure assignment: replayed after an event that
  recreated the pane, it loses the agent's snapshot-only fields.
- `plugin_state_violation_append`: an append is written in place, so a crash
  or a full disk can leave half a record, to which the next one is glued.

Noticed and not stated as properties: during replay the accessors can show
states older than the snapshot and mixtures of the two (a tab list from before
a focus change, applied over a snapshot from after it, leaves two focused tabs
until the focus event is replayed); a `Next` that waits for
`nextMu` does not look at its context; `writeAtomic`'s comment (plugin/state.go:243) promises that "a failed
write leaves nothing behind", but the removal of the temporary file may itself
fail, which the code ignores: the file then stays, and `TempsOwned` states this
as its exception (`leftover`), next to that of a killed process; `plugintest.EventHook` refuses the
payloads of dedicated subscriptions and accepts the schema's other events that
Herdr never delivers to a hook; a signal that arrives between `stop` and
`os.Exit` kills a process whose handler has already returned.

## 7. Not modelled

- The version and the protocol that the mirror reports: only a new snapshot
  sets them.
- The text of JSON and TOML: a document is a tree.  In `Session`, `Stream` and
  `Exchange` a line only decodes or does not.
- Constructors and the layout builders (layout.go): they put values together.
- The generator's reading of the schema (ir.go, schema.go, methods.go,
  naming.go): a batch translation whose outcome the tables are.
- The path check `joinInside`: names in `PluginState` have passed it.  The
  socket path: a function of a few environment variables, without state.
- The invocation context of a plugin and the options that fill it in tests:
  data that a handler reads.  `plugintest.Server` forwards to `herdrtest`.
- Source checks and examples: tools that scan another repository, and samples.
- The wording of errors.

## 8. What is left

Every safety invariant and action property of `Session`, `Stream`, `Exchange`,
`Mirror`, `PluginState`, `TestServer` and `Subscription` that a run checks is
proved, and so are both refinements, but for the fairness that `Feed` promises.
What would come next:

1. `joinInside` and the socket path as functions against a reference
   definition.
2. The fields of an agent that only a snapshot reports (section 6): `Converges`
   says nothing of them, because the code does not keep them.  Should it, the
   clause `Nameless` of `Shows` goes and `Awaits` has one field more.
3. A run with the reducer inside `Session`.  `Session` proves convergence for
   records that are assigned whole and `Mirror` for the real handlers on one
   subscription; what joins them is that both apply the log from the
   subscription on, in order, to a snapshot taken after it, which `FeedInv` of
   `Session` states and `Mirror` does by definition.
