------------------------------ MODULE Session ------------------------------
(***************************************************************************)
(* herdr.Session: the event loop that keeps a mirror of the server's state *)
(* current (session.go, session_bootstrap.go).                             *)
(*                                                                         *)
(* The server is external.  It keeps a log of events; event i sets the     *)
(* mirrored record log[i] to version i, so the server's state is a         *)
(* function from records to versions.  Two kinds of line change no record: *)
(* Unknown (an event DecodeEvent does not know) and Garbled (a line that   *)
(* is not JSON).  A stream is a subscription: it carries the log entries   *)
(* emitted since it was accepted, str[s].pos is the last one taken from    *)
(* it, and a stream the server ended carries nothing after str[s].end.     *)
(* DOMAIN str is the set of streams the client has not closed.  The inside *)
(* of a stream is module Stream, the inside of a request module Exchange;  *)
(* what the reducer does with one event is module SessionCache.            *)
(*                                                                         *)
(* nextMu admits one Next at a time, so one program counter and one set of *)
(* locals describe the running Next.  Before the Session exists they are   *)
(* those of OpenSession, which runs the same bootstrap.                    *)
(***************************************************************************)
EXTENDS Integers, Sequences

CONSTANTS
    Keys,        \* the records the mirror holds
    Unknown,     \* an event of a kind the client does not know
    Garbled,     \* a pushed line that is not JSON
    Callers,     \* goroutines that call Next
    None,        \* Go's nil
    MaxEvents,   \* bound: events the server emits
    MaxStreams,  \* bound: subscriptions the server accepts
    MaxFaults    \* bound: failures the server or the network causes

ASSUME NamesAssumption ==
    /\ Unknown \notin Keys
    /\ Garbled \notin Keys
    /\ Unknown # Garbled
    /\ None \notin Callers
    /\ None \notin Nat
    /\ None \notin {"eof", "lost", "closed"}

ASSUME BoundsAssumption ==
    /\ MaxEvents \in Nat
    /\ MaxStreams \in Nat
    /\ MaxFaults \in Nat

VARIABLES
    log,        \* server: the events emitted so far
    states,     \* server: states[n+1] is its state after n events
    str,        \* the streams that are open on the client's side
    made,       \* number of streams opened so far
    faults,     \* failures so far
    opened,     \* OpenSession returned a Session
    closed,     \* Session.closed (and the done channel)
    stream,     \* Session.stream
    closing,    \* the stream a Close took and has yet to close
    pending,    \* Session.pending, as log indices
    resync,     \* Session.resync: the cause it carries
    cause,      \* Session.cause
    mirror,     \* sessionState.cache
    holder,     \* the caller that holds nextMu
    ctx,        \* the callers whose context is done
    waiting,    \* the callers inside Next that wait for nextMu
    pc,         \* where the running Next is
    cur,        \* Next: the stream it reads
    boot,       \* bootstrapSession: its stream
    buffered,   \* eventCollector.events, as log indices
    snapshot,   \* bootstrapSession: number of events the snapshot reflects
    failure,    \* bootstrapSession: the snapshot call's or collector's error
    ret,        \* history: what the last Next returned
    base,       \* history: the last log index the caller was told of
    applied,    \* history: the last log index the mirror took in
    bootFrom,   \* history: the log's length when boot was accepted
    mirrorStr,  \* history: the stream the mirror is fed from
    mirrorFrom, \* history: the log's length when that one was accepted
    mirrorSnap, \* history: the snapshot the mirror was built from
    mirrorEnd,  \* history: why the server ended the mirror's stream
    prevEnd     \* history: why it ended the stream before that one

serverVars == <<log, states, faults>>
streams == <<str, made>>
nextMuVars == <<pending, resync, cause>>
streamMuVars == <<closed, stream, closing>>
bootVars == <<boot, bootFrom, buffered, snapshot, failure>>
callVars == <<holder, ctx, waiting>>
mirrorVars == <<mirror, applied, mirrorStr, mirrorFrom, mirrorSnap>>
endVars == <<mirrorEnd, prevEnd>>
toldVars == <<ret, base>>
vars == <<serverVars, streams, opened, streamMuVars, nextMuVars, mirrorVars,
          endVars, callVars, pc, cur, bootVars, toldVars>>

-----------------------------------------------------------------------------
Lines == Keys \cup {Unknown, Garbled}

\* A stream whose every line was taken and which the server has ended.
AtEnd(s) == str[s].end # None /\ str[s].pos = str[s].end

\* A line of stream s that the client has yet to take.
HasLine(s) ==
    /\ str[s].pos < Len(log)
    /\ str[s].end # None => str[s].pos < str[s].end

Take(s) == [str EXCEPT ![s] = [pos |-> @.pos + 1, end |-> @.end, why |-> @.why]]
Shut(s) == [t \in DOMAIN str \ {s} |-> str[t]]

Init ==
    /\ log = <<>>
    /\ states = <<[k \in Keys |-> 0]>>
    /\ str = <<>>
    /\ made = 0
    /\ faults = 0
    /\ opened = FALSE
    /\ closed = FALSE
    /\ stream = None
    /\ closing = None
    /\ pending = <<>>
    /\ resync = None
    /\ cause = None
    /\ mirror = [k \in Keys |-> 0]
    /\ holder = None
    /\ ctx = {}
    /\ waiting = {}
    /\ pc = "idle"
    /\ cur = None
    /\ boot = None
    /\ buffered = <<>>
    /\ snapshot = 0
    /\ failure = "none"
    /\ ret = "none"
    /\ base = 0
    /\ applied = 0
    /\ bootFrom = 0
    /\ mirrorStr = None
    /\ mirrorFrom = 0
    /\ mirrorSnap = 0
    /\ mirrorEnd = None
    /\ prevEnd = None

-----------------------------------------------------------------------------
(* The server and the callers' contexts: external. *)

\* The server changes a record, or pushes a line that changes none.
Emit(line) ==
    /\ Len(log) < MaxEvents
    /\ log' = Append(log, line)
    /\ states' = Append(states,
                   [k \in Keys |-> IF k = line THEN Len(log) + 1
                                   ELSE states[Len(log) + 1][k]])
    /\ UNCHANGED <<streams, faults, opened, streamMuVars, nextMuVars,
                   mirrorVars, endVars, callVars, pc, cur, bootVars,
                   toldVars>>

\* The server ends a subscription: a restart cuts the connection, and lines
\* on their way are lost with it ("eof"); a subscriber that fell behind gets
\* an events_lost error response in place of the next event ("lost").
BreakStream(s, why) ==
    /\ faults < MaxFaults
    /\ str[s].end = None
    /\ \E last \in str[s].pos..Len(log) :
          str' = [str EXCEPT ![s] = [pos |-> @.pos, end |-> last, why |-> why]]
    /\ faults' = faults + 1
    /\ mirrorEnd' = IF s = mirrorStr THEN why ELSE mirrorEnd
    /\ UNCHANGED <<log, states, made, prevEnd, opened, streamMuVars,
                   nextMuVars, mirrorVars, callVars, pc, cur, bootVars,
                   toldVars>>

Cancel(c) ==
    /\ c = holder \/ c \in waiting
    /\ c \notin ctx
    /\ ctx' = ctx \cup {c}
    /\ UNCHANGED <<serverVars, streams, opened, streamMuVars, nextMuVars,
                   mirrorVars, endVars, holder, waiting, pc, cur, bootVars,
                   toldVars>>

-----------------------------------------------------------------------------
(* Session.Next *)

CallNext(c) ==
    /\ opened
    /\ c # holder
    /\ c \notin waiting
    /\ waiting' = waiting \cup {c}
    /\ ctx' = ctx \ {c}
    /\ UNCHANGED <<serverVars, streams, opened, streamMuVars, nextMuVars,
                   mirrorVars, endVars, holder, pc, cur, bootVars, toldVars>>

\* nextMu.Lock
Lock(c) ==
    /\ c \in waiting
    /\ holder = None
    /\ holder' = c
    /\ waiting' = waiting \ {c}
    /\ pc' = "loop"
    /\ UNCHANGED <<serverVars, streams, opened, streamMuVars, nextMuVars,
                   mirrorVars, endVars, ctx, cur, bootVars, toldVars>>

\* The return from Next, which releases nextMu and ends the call's locals.
Return(value) ==
    /\ ret' = value
    /\ holder' = None
    /\ ctx' = ctx \ {holder}
    /\ pc' = "idle"
    /\ cur' = None
    /\ UNCHANGED waiting

\* deliver: decode, apply to the mirror, return.  An event that does not
\* decode is reported and does not reach the mirror.
Deliver(i) ==
    /\ applied' = i
    /\ base' = i
    /\ IF log[i] \in Keys
       THEN /\ mirror' = [mirror EXCEPT ![log[i]] = i]
            /\ Return("event")
       ELSE /\ Return("decode")
            /\ UNCHANGED mirror
    /\ UNCHANGED <<mirrorStr, mirrorFrom, mirrorSnap, endVars>>

ReturnResync ==
    /\ pc = "loop"
    /\ resync # None
    /\ resync' = None
    /\ base' = mirrorFrom
    /\ Return("resync")
    /\ UNCHANGED <<serverVars, streams, opened, streamMuVars, pending, cause,
                   mirrorVars, endVars, bootVars>>

DeliverPending ==
    /\ pc = "loop"
    /\ resync = None
    /\ pending # <<>>
    /\ pending' = Tail(pending)
    /\ Deliver(Head(pending))
    /\ UNCHANGED <<serverVars, streams, opened, streamMuVars, resync, cause,
                   bootVars>>

\* currentStream
LoadStream ==
    /\ pc = "loop"
    /\ resync = None
    /\ pending = <<>>
    /\ cur' = stream
    /\ pc' = IF stream = None THEN "noStream" ELSE "recv"
    /\ UNCHANGED <<serverVars, streams, opened, streamMuVars, nextMuVars,
                   mirrorVars, endVars, callVars, bootVars, toldVars>>

\* No stream: the Session was closed, or an earlier stream ended.
NoStream ==
    /\ pc = "noStream"
    /\ IF closed THEN Return("closed")
                 ELSE pc' = "wait" /\ UNCHANGED <<callVars, cur, ret>>
    /\ UNCHANGED <<serverVars, streams, opened, streamMuVars, nextMuVars,
                   mirrorVars, endVars, bootVars, base>>

\* stream.Next took a line.
Receive ==
    /\ pc = "recv"
    /\ cur \in DOMAIN str
    /\ HasLine(cur)
    /\ str' = Take(cur)
    /\ Deliver(str[cur].pos + 1)
    /\ UNCHANGED <<made, serverVars, opened, streamMuVars, nextMuVars,
                   bootVars>>

\* Mutant: a cancelled Next takes a line with it.
ReturnCancelledWithLine ==
    /\ pc \in {"recv", "wait", "backoff"}
    /\ holder \in ctx
    /\ Return("ctx")
    /\ str' = IF cur \in DOMAIN str /\ HasLine(cur) THEN Take(cur) ELSE str
    /\ UNCHANGED <<made, serverVars, opened, streamMuVars, nextMuVars,
                   mirrorVars, endVars, bootVars, base>>

\* stream.Next gave up with its context; so does wait, on entry or during
\* the backoff.
ReturnCancelled ==
    /\ pc \in {"recv", "wait", "backoff"}
    /\ holder \in ctx
    /\ Return("ctx")
    /\ UNCHANGED <<serverVars, streams, opened, streamMuVars, nextMuVars,
                   mirrorVars, endVars, bootVars, base>>

\* Mutant: a Next blocked in a stream does not notice that it was closed.
StreamEndedByServer ==
    /\ pc = "recv"
    /\ cur \in DOMAIN str
    /\ AtEnd(cur)
    /\ holder \notin ctx
    /\ pc' = "ended"
    /\ UNCHANGED <<serverVars, streams, opened, streamMuVars, nextMuVars,
                   mirrorVars, endVars, callVars, cur, bootVars, toldVars>>

\* stream.Next reported ErrStreamClosed: the stream ended or was closed.
\* terminalErr prefers the context's error.
StreamEnded ==
    /\ pc = "recv"
    /\ cur \in DOMAIN str => AtEnd(cur)
    /\ holder \notin ctx
    /\ pc' = "ended"
    /\ UNCHANGED <<serverVars, streams, opened, streamMuVars, nextMuVars,
                   mirrorVars, endVars, callVars, cur, bootVars, toldVars>>

\* Mutant: the cause is ErrStreamClosed, without what it wraps.
RecordBareCause ==
    /\ pc = "ended"
    /\ IF closed
       THEN Return("closed") /\ UNCHANGED cause
       ELSE cause' = "closed" /\ pc' = "drop" /\ UNCHANGED <<callVars, cur, ret>>
    /\ UNCHANGED <<serverVars, streams, opened, streamMuVars, pending, resync,
                   mirrorVars, endVars, bootVars, base>>

\* isClosed, then s.cause = err.  A stream that the client closed before the
\* server ended it reports ErrStreamClosed alone.
RecordCause ==
    /\ pc = "ended"
    /\ IF closed
       THEN Return("closed") /\ UNCHANGED cause
       ELSE /\ cause' = IF cur \in DOMAIN str THEN str[cur].why ELSE "closed"
            /\ pc' = "drop"
            /\ UNCHANGED <<callVars, cur, ret>>
    /\ UNCHANGED <<serverVars, streams, opened, streamMuVars, pending, resync,
                   mirrorVars, endVars, bootVars, base>>

\* closeStream
DropStream ==
    /\ pc = "drop"
    /\ str' = Shut(stream)
    /\ stream' = None
    /\ cur' = None
    /\ pc' = "loop"
    /\ UNCHANGED <<made, serverVars, opened, closed, closing, nextMuVars,
                   mirrorVars, endVars, callVars, bootVars, toldVars>>

-----------------------------------------------------------------------------
(* Session.reconnect and OpenSession, through bootstrapSession *)

\* OpenSession; its ctx bounds the bootstrap only.
OpenSession(c) ==
    /\ ~opened
    /\ holder = None
    /\ holder' = c
    /\ ctx' = ctx \ {c}
    /\ pc' = "subscribe"
    /\ UNCHANGED <<serverVars, streams, opened, streamMuVars, nextMuVars,
                   mirrorVars, endVars, waiting, cur, bootVars, toldVars>>

\* Mutant: wait does not look at the context before it blocks.
WaitBeginUnchecked ==
    /\ pc = "wait"
    /\ pc' = "backoff"
    /\ UNCHANGED <<serverVars, streams, opened, streamMuVars, nextMuVars,
                   mirrorVars, endVars, callVars, cur, bootVars, toldVars>>

\* wait: the context is not done, so block for the backoff delay.
WaitBegin ==
    /\ pc = "wait"
    /\ holder \notin ctx
    /\ pc' = "backoff"
    /\ UNCHANGED <<serverVars, streams, opened, streamMuVars, nextMuVars,
                   mirrorVars, endVars, callVars, cur, bootVars, toldVars>>

\* wait: the timer fired.
BackoffOver ==
    /\ pc = "backoff"
    /\ pc' = "subscribe"
    /\ UNCHANGED <<serverVars, streams, opened, streamMuVars, nextMuVars,
                   mirrorVars, endVars, callVars, cur, bootVars, toldVars>>

\* wait: the done channel is closed.
WaitClosed ==
    /\ pc = "backoff"
    /\ closed
    /\ Return("closed")
    /\ UNCHANGED <<serverVars, streams, opened, streamMuVars, nextMuVars,
                   mirrorVars, endVars, bootVars, base>>

\* The bootstrap is over and its locals with it.
BootstrapOver ==
    /\ boot' = None
    /\ bootFrom' = 0
    /\ buffered' = <<>>
    /\ snapshot' = 0
    /\ failure' = "none"

\* Mutant: reconnect returns every error and never tries again.
BootstrapFailedForGood(err) ==
    /\ BootstrapOver
    /\ Return(IF ~opened THEN "openFailed" ELSE err)

\* A bootstrap failed.  OpenSession returns the error; reconnect returns it
\* unless isRetryable, and waits for the next attempt otherwise.
BootstrapFailed(err) ==
    /\ BootstrapOver
    /\ IF ~opened THEN Return("openFailed")
       ELSE IF err = "retryable"
            THEN pc' = "wait" /\ UNCHANGED <<callVars, cur, ret>>
       ELSE Return(err)

\* Subscribe: accepted from here on, without replay of what came before.
Subscribe ==
    /\ pc = "subscribe"
    /\ made < MaxStreams
    /\ made' = made + 1
    /\ str' = [s \in DOMAIN str \cup {made'} |->
                  IF s = made' THEN [pos |-> Len(log), end |-> None, why |-> None]
                               ELSE str[s]]
    /\ boot' = made'
    /\ bootFrom' = Len(log)
    /\ pc' = "collect"
    /\ UNCHANGED <<serverVars, opened, streamMuVars, nextMuVars, mirrorVars,
                   endVars, callVars, cur, buffered, snapshot, failure,
                   toldVars>>

\* An exchange that its context ended fails with an error isRetryable accepts.
MayFail(err) ==
    \/ faults < MaxFaults /\ faults' = faults + 1
    \/ holder \in ctx /\ err = "retryable" /\ UNCHANGED faults

\* At the bound on subscriptions the server cannot be reached any more.
SubscribeFailed(err) ==
    /\ pc = "subscribe"
    /\ \/ MayFail(err)
       \/ made = MaxStreams /\ err = "retryable" /\ UNCHANGED faults
    /\ BootstrapFailed(err)
    /\ UNCHANGED <<log, states, streams, opened, streamMuVars, nextMuVars,
                   mirrorVars, endVars, base>>

\* The collector appends what stream.Next returns.  It runs until stop has
\* cancelled it, which is after the snapshot call ended.
Collect ==
    /\ pc \in {"collect", "stop"}
    /\ failure = "none"
    /\ HasLine(boot)
    /\ log[str[boot].pos + 1] # Garbled
    /\ str' = Take(boot)
    /\ buffered' = Append(buffered, str[boot].pos + 1)
    /\ UNCHANGED <<made, serverVars, opened, streamMuVars, nextMuVars,
                   mirrorVars, endVars, callVars, pc, cur, boot, bootFrom,
                   snapshot, failure, toldVars>>

\* The collector ends with an error of its own: the stream ended, or the line
\* is not JSON.  Of these only the events_lost error response is an *Error.
CollectorFailed ==
    /\ pc \in {"collect", "stop"}
    /\ failure = "none"
    /\ \/ /\ AtEnd(boot)
          /\ failure' = IF str[boot].why = "lost" THEN "lost" ELSE "retryable"
          /\ UNCHANGED str
       \/ /\ HasLine(boot)
          /\ log[str[boot].pos + 1] = Garbled
          /\ failure' = "retryable"
          /\ str' = Take(boot)
    /\ UNCHANGED <<made, serverVars, opened, streamMuVars, nextMuVars,
                   mirrorVars, endVars, callVars, pc, cur, boot, bootFrom,
                   buffered, snapshot, toldVars>>

\* session.snapshot answered.
Snapshot ==
    /\ pc = "collect"
    /\ snapshot' = Len(log)
    /\ pc' = "stop"
    /\ UNCHANGED <<serverVars, streams, opened, streamMuVars, nextMuVars,
                   mirrorVars, endVars, callVars, cur, boot, bootFrom,
                   buffered, failure, toldVars>>

\* session.snapshot failed: its error wins over the collector's.
SnapshotFailed(err) ==
    /\ pc = "collect"
    /\ MayFail(err)
    /\ str' = Shut(boot)
    /\ BootstrapFailed(err)
    /\ UNCHANGED <<made, log, states, opened, streamMuVars, nextMuVars,
                   mirrorVars, endVars, base>>

\* collector.stop found an error: the stream is closed and the bootstrap fails.
StopFailed ==
    /\ pc = "stop"
    /\ failure # "none"
    /\ str' = Shut(boot)
    /\ BootstrapFailed(failure)
    /\ UNCHANGED <<made, serverVars, opened, streamMuVars, nextMuVars,
                   mirrorVars, endVars, base>>

\* Mutant: the events buffered before the snapshot are dropped.
AdoptUnbuffered ==
    /\ mirror' = states[snapshot + 1]
    /\ mirrorSnap' = snapshot
    /\ mirrorStr' = boot
    /\ mirrorFrom' = bootFrom
    /\ mirrorEnd' = IF boot \in DOMAIN str THEN str[boot].why ELSE None
    /\ prevEnd' = mirrorEnd
    /\ applied' = bootFrom
    /\ pending' = <<>>

\* The mirror is the snapshot, the buffered events wait in pending.
Adopt ==
    /\ mirror' = states[snapshot + 1]
    /\ mirrorSnap' = snapshot
    /\ mirrorStr' = boot
    /\ mirrorFrom' = bootFrom
    /\ mirrorEnd' = IF boot \in DOMAIN str THEN str[boot].why ELSE None
    /\ prevEnd' = mirrorEnd
    /\ applied' = bootFrom
    /\ pending' = buffered

\* OpenSession returns the Session.
Construct ==
    /\ pc = "stop"
    /\ failure = "none"
    /\ ~opened
    /\ opened' = TRUE
    /\ stream' = boot
    /\ Adopt
    /\ BootstrapOver
    /\ base' = bootFrom
    /\ Return("opened")
    /\ UNCHANGED <<serverVars, streams, closed, closing, resync, cause>>

\* install refuses a Session that was closed during the bootstrap ...
InstallRefused ==
    /\ pc = "stop"
    /\ failure = "none"
    /\ opened
    /\ closed
    /\ str' = Shut(boot)
    /\ BootstrapOver
    /\ Return("closed")
    /\ UNCHANGED <<made, serverVars, opened, streamMuVars, nextMuVars,
                   mirrorVars, endVars, base>>

\* Mutants: install ignores closed; stop waits for the collector to end by
\* itself.
InstallOnClosed ==
    /\ pc = "stop"
    /\ failure = "none"
    /\ opened
    /\ stream' = boot
    /\ pc' = "replace"
    /\ UNCHANGED <<serverVars, streams, opened, closed, closing, nextMuVars,
                   mirrorVars, endVars, callVars, cur, bootVars, toldVars>>
InstallUncancelled ==
    /\ pc = "stop"
    /\ AtEnd(boot)
    /\ ~closed
    /\ InstallOnClosed

\* ... and otherwise publishes the stream, under streamMu, ...
Install ==
    /\ pc = "stop"
    /\ failure = "none"
    /\ opened
    /\ ~closed
    /\ stream' = boot
    /\ pc' = "replace"
    /\ UNCHANGED <<serverVars, streams, opened, closed, closing, nextMuVars,
                   mirrorVars, endVars, callVars, cur, bootVars, toldVars>>

\* Mutant: the mirror is replaced and nothing tells the caller.
ReplaceSilently ==
    /\ pc = "replace"
    /\ Adopt
    /\ cause' = None
    /\ BootstrapOver
    /\ pc' = "loop"
    /\ UNCHANGED <<serverVars, streams, opened, streamMuVars, callVars, cur,
                   toldVars, resync>>

\* ... then the mirror, under the state's own lock, and queues the resync.
Replace ==
    /\ pc = "replace"
    /\ Adopt
    /\ resync' = IF cause = None THEN "closed" ELSE cause
    /\ cause' = None
    /\ BootstrapOver
    /\ pc' = "loop"
    /\ UNCHANGED <<serverVars, streams, opened, streamMuVars, callVars, cur,
                   toldVars>>

-----------------------------------------------------------------------------
(* Session.Close *)

CloseBegin ==
    /\ opened
    /\ ~closed
    /\ closed' = TRUE
    /\ closing' = stream
    /\ stream' = None
    /\ UNCHANGED <<serverVars, streams, opened, nextMuVars, mirrorVars,
                   endVars, callVars, pc, cur, bootVars, toldVars>>

CloseStream ==
    /\ closing # None
    /\ str' = Shut(closing)
    /\ closing' = None
    /\ UNCHANGED <<made, serverVars, opened, closed, stream, nextMuVars,
                   mirrorVars, endVars, callVars, pc, cur, bootVars,
                   toldVars>>

-----------------------------------------------------------------------------
Environment ==
    \/ \E line \in Lines : Emit(line)
    \/ \E s \in DOMAIN str, why \in {"eof", "lost"} : BreakStream(s, why)
    \/ \E c \in Callers : OpenSession(c) \/ Cancel(c) \/ CallNext(c)
    \/ CloseBegin

Exchanges ==
    \/ Subscribe
    \/ Snapshot
    \/ \E err \in {"retryable", "fatal"} :
          SubscribeFailed(err) \/ SnapshotFailed(err)

ClientSteps ==
    \/ ReturnResync \/ DeliverPending \/ LoadStream \/ NoStream
    \/ Receive \/ ReturnCancelled \/ StreamEnded \/ RecordCause \/ DropStream
    \/ WaitBegin \/ BackoffOver \/ Collect \/ CollectorFailed \/ StopFailed
    \/ Construct \/ InstallRefused \/ Install \/ Replace

Next ==
    \/ Environment
    \/ Exchanges
    \/ ClientSteps
    \/ WaitClosed
    \/ CloseStream
    \/ \E c \in Callers : Lock(c)

Spec == Init /\ [][Next]_vars

\* The Go scheduler runs every goroutine that can run; sync.Mutex hands a
\* starving waiter the lock, and select picks among its ready cases at random,
\* so a case that is ready again and again is taken.  A request whose context
\* is done ends: Exchange, property CancelEndsOpen.
ClientFairness ==
    /\ WF_vars(ClientSteps)
    /\ SF_vars(WaitClosed)
    /\ WF_vars(CloseStream)
    /\ \A c \in Callers : SF_vars(Lock(c))
    /\ WF_vars(holder \in ctx /\ Exchanges)

LiveSpec == Spec /\ ClientFairness

-----------------------------------------------------------------------------
(* Properties *)

Streams == 1..made
StreamRecord == [pos: Nat, end: Nat \cup {None}, why: {"eof", "lost", None}]

TypeOK ==
    /\ log \in Seq(Lines)
    /\ states \in Seq([Keys -> Nat])
    /\ made \in Nat
    /\ DOMAIN str \subseteq Streams
    /\ str \in [DOMAIN str -> StreamRecord]
    /\ faults \in Nat
    /\ opened \in BOOLEAN /\ closed \in BOOLEAN
    /\ stream \in Streams \cup {None}
    /\ closing \in Streams \cup {None}
    /\ pending \in Seq(Nat)
    /\ resync \in {"eof", "lost", "closed", None}
    /\ cause \in {"eof", "lost", "closed", None}
    /\ mirror \in [Keys -> Nat]
    /\ holder \in Callers \cup {None}
    /\ ctx \subseteq Callers /\ waiting \subseteq Callers
    /\ pc \in {"idle", "loop", "noStream", "recv", "ended", "drop", "wait",
               "backoff", "subscribe", "collect", "stop", "replace"}
    /\ cur \in Streams \cup {None}
    /\ boot \in Streams \cup {None}
    /\ buffered \in Seq(Nat)
    /\ snapshot \in Nat
    /\ failure \in {"none", "retryable", "lost"}
    /\ ret \in {"none", "opened", "openFailed", "event", "decode", "resync",
                "ctx", "closed", "fatal", "lost"}
    /\ base \in Nat /\ applied \in Nat /\ mirrorSnap \in Nat
    /\ bootFrom \in Nat /\ mirrorFrom \in Nat
    /\ mirrorStr \in Streams \cup {None}
    /\ mirrorEnd \in {"eof", "lost", None}
    /\ prevEnd \in {"eof", "lost", None}

\* Once the events applied since the subscription reach the snapshot's own
\* position, the mirror is exactly the server's state at the last event
\* delivered (Session: "a reader that consults the accessors after Next sees
\* the state that event produced"), whatever was buffered, replayed, dropped
\* or refused by reconnect and install on the way.
MirrorConverges ==
    opened /\ applied >= mirrorSnap => mirror = states[applied + 1]

\* Every line taken from the mirror's stream, by the collector or by Next,
\* has been delivered or waits in pending: a cancelled Next or a stopped
\* collector loses none.
NothingLost ==
    opened /\ mirrorStr \in DOMAIN str =>
        applied + Len(pending) = str[mirrorStr].pos

\* Every connection that is open has an owner that will close it: the Session,
\* the bootstrap that opened it, or the Close that took it.  With the Session
\* closed and no Next or Close running none is left.
NoOrphanStream ==
    \A s \in DOMAIN str :
        \/ s = stream /\ ~closed
        \/ s = boot /\ pc \in {"collect", "stop"}
        \/ s = closing

\* The ResyncEvent names what ended the stream the mirror was fed from before
\* ("Cause is the error that ended the previous stream"), also when reconnect
\* was given up and resumed by later calls of Next.
ResyncCarriesCause ==
    resync # None => resync = prevEnd

\* What Next reports moves along the log one event at a time.  Only a
\* ResyncEvent may skip events, and nothing is reported twice.
NoSilentGap ==
    [][\/ base' = base
       \/ base' = base + 1
       \/ ret' \in {"opened", "resync"} /\ base' >= base]_vars

\* A Next whose context is done returns, whatever it is doing, even if the
\* server never answers again.
CancelEndsNext ==
    \A c \in Callers : (holder = c /\ c \in ctx) ~> (holder # c)

\* The server answers or fails every request: an assumption about it.
ServerFairness == WF_vars(Exchanges)

\* Session.Close: "A blocked Next matches ErrStreamClosed".  A Next that is
\* running when the Session is closed returns ...
CloseEndsNext ==
    \A c \in Callers : (holder = c /\ closed) ~> (holder # c)

\* ... but only as long as the server answers: Close does not interrupt a
\* bootstrap.
CloseEndsServedNext == ServerFairness => CloseEndsNext

\* With a server that answers, reconnecting comes to an end: the caller gets
\* an event, a resync or an error.  (Or the model's bound on subscriptions is
\* used up, the last one is gone too and reconnect keeps trying.)
ReconnectSettles ==
    ServerFairness =>
        ((pc = "backoff") ~> (pc = "idle" \/ (made = MaxStreams /\ boot = None)))

\* Whatever the streams, bootstraps and queues of a Session do, the program
\* that calls Next sees a reader of the server's log: every event once and in
\* order, a gap only after a stream was lost and named by what ended it, and
\* between two calls a view that is a snapshot with the events it was told of
\* replayed on it (Session: "a reader that consults the accessors after Next
\* sees the state that event produced").
Promise ==
    INSTANCE LogReader WITH inside <- waiting \cup ({holder} \ {None}),
                            broken <- mirrorEnd, told <- base, gap <- resync,
                            from <- mirrorFrom, snap <- mirrorSnap, view <- mirror
ImplementsLogReader == Promise!Spec

\* What comments and documents say and the code does not do.

\* Session.Next: "Use errors.Is to identify a closed session (ErrStreamClosed)".
StreamClosedMeansClosed ==
    opened /\ ret \in {"closed", "lost"} => closed

=============================================================================
