------------------------------ MODULE Exchange ------------------------------
(***************************************************************************)
(* Client.open and its two users, CallRaw and OpenStream: one request on a *)
(* connection of its own (client.go, dial.go, dial_windows.go).            *)
(*                                                                         *)
(* Three goroutines touch the connection: the caller, the watcher that     *)
(* context.AfterFunc starts when the caller's context is done, and, on     *)
(* Windows, the one that opens the named pipe.  All of them close it       *)
(* through ownedConnection once dial has wrapped it.  The server, the      *)
(* dialer and the context are external and act at any time.                *)
(***************************************************************************)
EXTENDS Integers

VARIABLES
    kind,      \* "call" (CallRaw) or "stream" (OpenStream)
    dialer,    \* "injected" (WithDialer, or the Unix dialer) or "pipe"
    ctx,       \* the caller's context: "background" is never done, "live", "done"
    timedOut,  \* the dial timeout has passed
    pc,        \* the caller
    conn,      \* the connection: "none", "open", "closed"
    opener,    \* dialSocket's goroutine: "none", "opening", "sent", "failed", "drained"
    closes,    \* number of Close calls that reached the connection itself
    once,      \* ownedConnection.once: "none" before dial wraps it, "fresh", "done"
    watch,     \* AfterFunc: "none", "armed", "stopped", "closing", "finished"
    failed,    \* what the caller will return: "none", or the kind of its error
    handedTo,  \* who owns the connection after open: "none", "caller", "stream"
    endedBy    \* history: who closed the connection: "none", "caller", "watcher", "dial", "owner"

vars == <<kind, dialer, ctx, timedOut, pc, conn, opener, closes, once, watch,
          failed, handedTo, endedBy>>
fixed == <<kind, dialer>>
connVars == <<conn, closes, once, endedBy>>

Init ==
    /\ kind \in {"call", "stream"}
    /\ dialer \in {"injected", "pipe"}
    /\ ctx \in {"background", "live", "done"}
    /\ timedOut = FALSE
    /\ pc = "encode"
    /\ conn = "none"
    /\ opener = "none"
    /\ closes = 0
    /\ once = "none"
    /\ watch = "none"
    /\ failed = "none"
    /\ handedTo = "none"
    /\ endedBy = "none"

-----------------------------------------------------------------------------
(* The context and the dial timer: external. *)

CancelContext ==
    /\ ctx = "live"
    /\ ctx' = "done"
    /\ UNCHANGED <<fixed, timedOut, pc, connVars, opener, watch, failed, handedTo>>

DialTimeout ==
    /\ pc \in {"dial", "dialing"}
    /\ ~timedOut
    /\ timedOut' = TRUE
    /\ UNCHANGED <<fixed, ctx, pc, connVars, opener, watch, failed, handedTo>>

\* dial's context: the caller's with the dial timeout.
DialDone == ctx = "done" \/ timedOut

-----------------------------------------------------------------------------
(* ownedConnection.Close: a sync.Once around the connection's own Close *)

\* Mutant: every Close reaches the connection.
CloseEach(who) ==
    /\ conn' = "closed"
    /\ closes' = closes + 1
    /\ once' = "done"
    /\ endedBy' = who

Close(who) ==
    \/ /\ once = "fresh"
       /\ conn' = "closed"
       /\ closes' = closes + 1
       /\ once' = "done"
       /\ endedBy' = who
    \/ once = "done" /\ UNCHANGED connVars

-----------------------------------------------------------------------------
(* Client.open, up to the connection *)

\* requestLine fails before anything is dialed.
Encode ==
    /\ pc = "encode"
    /\ \/ pc' = "dial" /\ UNCHANGED failed
       \/ pc' = "returned" /\ failed' = IF ctx = "done" THEN "ctx" ELSE "encode"
    /\ UNCHANGED <<fixed, ctx, timedOut, connVars, opener, watch, handedTo>>

\* dial: the context is checked before the dialer runs.
Dial ==
    /\ pc = "dial"
    /\ IF DialDone
       THEN pc' = "returned" /\ failed' = "ctx" /\ UNCHANGED opener
       ELSE /\ pc' = "dialing"
            /\ opener' = IF dialer = "pipe" THEN "opening" ELSE opener
            /\ UNCHANGED failed
    /\ UNCHANGED <<fixed, ctx, timedOut, connVars, watch, handedTo>>

\* dialSocket on Windows: the open cannot be interrupted.
PipeOpened ==
    /\ opener = "opening"
    /\ \/ opener' = "sent" /\ conn' = "open"
       \/ opener' = "failed" /\ UNCHANGED conn
    /\ UNCHANGED <<fixed, ctx, timedOut, pc, closes, once, endedBy, watch, failed,
                   handedTo>>

\* dialSocket: the context is done first.  The result is left to a goroutine
\* that closes what was opened.
PipeAbandoned ==
    /\ pc = "dialing"
    /\ dialer = "pipe"
    /\ DialDone
    /\ pc' = "returned"
    /\ failed' = "ctx"
    /\ UNCHANGED <<fixed, ctx, timedOut, connVars, opener, watch, handedTo>>

\* Mutant: nobody closes a pipe that was opened too late.
PipeForgotten ==
    /\ pc = "returned"
    /\ opener = "sent"
    /\ once = "none"
    /\ opener' = "drained"
    /\ UNCHANGED <<fixed, ctx, timedOut, pc, connVars, watch, failed, handedTo>>

PipeDrained ==
    /\ dialer = "pipe"
    /\ pc = "returned"
    /\ opener = "sent"
    /\ handedTo = "none" /\ once = "none"
    /\ opener' = "drained"
    /\ conn' = "closed"
    /\ closes' = closes + 1
    /\ endedBy' = "dial"
    /\ UNCHANGED <<fixed, ctx, timedOut, pc, once, watch, failed, handedTo>>

\* The dialer returned a connection, an error, both, or neither.  The context
\* error wins over its result, and a connection that comes with an error is
\* closed.
DialerReturned(hasConn, hasErr) ==
    /\ pc = "dialing"
    /\ \/ dialer = "injected"
       \/ dialer = "pipe" /\ opener = "sent" /\ hasConn /\ ~hasErr
       \/ dialer = "pipe" /\ opener = "failed" /\ ~hasConn /\ hasErr
    /\ IF DialDone \/ hasErr \/ ~hasConn
       THEN /\ pc' = "returned"
            /\ failed' = IF DialDone THEN "ctx" ELSE "dial"
            /\ conn' = IF hasConn THEN "closed" ELSE conn
            /\ closes' = IF hasConn THEN closes + 1 ELSE closes
            /\ endedBy' = IF hasConn THEN "dial" ELSE endedBy
            /\ UNCHANGED once
       ELSE /\ pc' = "watch"
            /\ conn' = "open"
            /\ once' = "fresh"
            /\ UNCHANGED <<failed, closes, endedBy>>
    /\ opener' = IF opener = "sent" THEN "drained" ELSE opener
    /\ UNCHANGED <<fixed, ctx, timedOut, watch, handedTo>>

-----------------------------------------------------------------------------
(* watchContext *)

\* Mutant: the context is not watched.
StartWithoutWatch ==
    /\ pc = "watch"
    /\ pc' = "write"
    /\ UNCHANGED <<fixed, ctx, timedOut, connVars, opener, watch, failed, handedTo>>

\* AfterFunc; a context that cannot be done needs no watch.
StartWatch ==
    /\ pc = "watch"
    /\ watch' = IF ctx = "background" THEN "none" ELSE "armed"
    /\ pc' = "write"
    /\ UNCHANGED <<fixed, ctx, timedOut, connVars, opener, failed, handedTo>>

\* The context is done: AfterFunc starts its goroutine, which closes.
WatchFires ==
    /\ watch = "armed"
    /\ ctx = "done"
    /\ watch' = "closing"
    /\ UNCHANGED <<fixed, ctx, timedOut, pc, connVars, opener, failed, handedTo>>

WatchCloses ==
    /\ watch = "closing"
    /\ Close("watcher")
    /\ watch' = "finished"
    /\ UNCHANGED <<fixed, ctx, timedOut, pc, opener, failed, handedTo>>

\* The stop function: it disarms the watch, or joins one that has started.
Stopped ==
    \/ watch \in {"none", "stopped", "finished"} /\ UNCHANGED watch
    \/ watch = "armed" /\ watch' = "stopped"

-----------------------------------------------------------------------------
(* Client.open, on the connection *)

\* Mutant: requestError returns the error of the connection.
RequestErrorPlain(op) == op

\* requestError prefers the context's error.
RequestError(op) == IF ctx = "done" THEN "ctx" ELSE op

\* writeAll and readLine: they fail because the connection was closed under
\* them or for reasons of the server's; they may also have just succeeded.
Write ==
    /\ pc = "write"
    /\ \/ pc' = "read" /\ UNCHANGED failed
       \/ pc' = "unwind" /\ failed' = RequestError("write")
    /\ UNCHANGED <<fixed, ctx, timedOut, connVars, opener, watch, handedTo>>

Read ==
    /\ pc = "read"
    /\ \/ pc' = "stop" /\ failed' \in {"none", "response"}
       \/ pc' = "unwind" /\ failed' = RequestError("read")
    /\ UNCHANGED <<fixed, ctx, timedOut, connVars, opener, watch, handedTo>>

\* Mutant: the watch outlives open.
StopWatchSkipped ==
    /\ pc = "stop"
    /\ pc' = "check"
    /\ UNCHANGED <<fixed, ctx, timedOut, connVars, opener, watch, failed, handedTo>>

\* stopWatch(), which joins a cancellation already in progress.
StopWatch ==
    /\ pc = "stop"
    /\ Stopped
    /\ pc' = "check"
    /\ UNCHANGED <<fixed, ctx, timedOut, connVars, opener, failed, handedTo>>

\* The context is looked at once more, then ownership transfers.
Transfer ==
    /\ pc = "check"
    /\ IF ctx = "done" \/ failed # "none"
       THEN /\ pc' = "unwind"
            /\ failed' = IF ctx = "done" THEN "ctx" ELSE failed
            /\ UNCHANGED handedTo
       ELSE /\ pc' = "returned"
            /\ handedTo' = IF kind = "call" THEN "caller" ELSE "stream"
            /\ UNCHANGED failed
    /\ UNCHANGED <<fixed, ctx, timedOut, connVars, opener, watch>>

\* The deferred calls of a failed open, last one first: stopWatch ...
Unwind ==
    /\ pc = "unwind"
    /\ Stopped
    /\ pc' = "unwindClose"
    /\ UNCHANGED <<fixed, ctx, timedOut, connVars, opener, failed, handedTo>>

\* Mutant: the connection is left open.
UnwindWithoutClose ==
    /\ pc = "unwindClose"
    /\ pc' = "returned"
    /\ UNCHANGED <<fixed, ctx, timedOut, connVars, opener, watch, failed, handedTo>>

\* ... then Close of a connection that was not transferred.
UnwindClose ==
    /\ pc = "unwindClose"
    /\ Close("caller")
    /\ pc' = "returned"
    /\ UNCHANGED <<fixed, ctx, timedOut, opener, watch, failed, handedTo>>

\* CallRaw closes the connection when it returns; a Stream when it is closed.
OwnerCloses ==
    /\ pc = "returned"
    /\ handedTo # "none"
    /\ conn = "open"
    /\ Close("owner")
    /\ UNCHANGED <<fixed, ctx, timedOut, pc, opener, watch, failed, handedTo>>

-----------------------------------------------------------------------------
Dialer == \E hasConn, hasErr \in BOOLEAN : DialerReturned(hasConn, hasErr)

ClientSteps ==
    \/ Encode \/ Dial \/ StartWatch \/ StopWatch \/ Transfer \/ Unwind
    \/ UnwindClose \/ PipeDrained

Next ==
    \/ CancelContext \/ DialTimeout
    \/ ClientSteps
    \/ PipeOpened \/ PipeAbandoned \/ Dialer
    \/ WatchFires \/ WatchCloses
    \/ Write \/ Read
    \/ OwnerCloses

Spec == Init /\ [][Next]_vars

\* Goroutines that can run do run.  An injected dialer honours its context,
\* and a read or write on a closed connection returns (both asked for in
\* dial.go); opening a pipe ends.  The server need not answer.
Fairness ==
    /\ WF_vars(ClientSteps)
    /\ WF_vars(WatchFires \/ WatchCloses)
    /\ WF_vars(PipeOpened)
    /\ WF_vars(PipeAbandoned)
    /\ WF_vars(DialDone /\ Dialer)
    /\ WF_vars(conn = "closed" /\ (Write \/ Read))
    /\ WF_vars(kind = "call" /\ OwnerCloses)

LiveSpec == Spec /\ Fairness

-----------------------------------------------------------------------------
(* Properties *)

TypeOK ==
    /\ kind \in {"call", "stream"}
    /\ dialer \in {"injected", "pipe"}
    /\ ctx \in {"background", "live", "done"}
    /\ timedOut \in BOOLEAN
    /\ pc \in {"encode", "dial", "dialing", "watch", "write", "read", "stop",
               "check", "unwind", "unwindClose", "returned"}
    /\ conn \in {"none", "open", "closed"}
    /\ opener \in {"none", "opening", "sent", "failed", "drained"}
    /\ closes \in Nat
    /\ once \in {"none", "fresh", "done"}
    /\ watch \in {"none", "armed", "stopped", "closing", "finished"}
    /\ failed \in {"none", "ctx", "encode", "dial", "write", "read", "response"}
    /\ handedTo \in {"none", "caller", "stream"}
    /\ endedBy \in {"none", "caller", "watcher", "dial", "owner"}

\* "It must not be possible for this watcher to close a successfully returned
\* stream later": what open hands over is closed by its owner alone, and no
\* watcher is left that could.
HandoverIsExclusive ==
    handedTo # "none" =>
        /\ endedBy \in {"none", "owner"}
        /\ watch \in {"none", "stopped"}

\* "Failed exchanges never transfer ownership": an open that failed leaves no
\* connection open, except a pipe whose opening goroutine will close it.  The
\* connection's own Close runs once, whichever of the caller, the watcher,
\* dial and the owner come to close it.
FailureClosesConnection ==
    /\ closes <= 1
    /\ pc = "returned" /\ failed # "none" =>
        /\ handedTo = "none"
        /\ conn = "open" => opener = "sent"
        /\ watch \notin {"armed", "closing"}

\* A write, read or check that ends on a connection the watcher has cut off is
\* reported as the context's error, never as a failure of the server.
CancellationIsReported ==
    [][pc' = "unwind" /\ conn = "closed" => failed' = "ctx"]_vars

\* Once the context is done open returns, even if the server never answers.
CancelEndsOpen == (ctx = "done") ~> (pc = "returned")

\* No connection leaks: one that was opened is closed in the end, unless a
\* Stream owns it or the server keeps the caller waiting.
ConnectionsEnd ==
    (conn = "open" /\ pc = "returned" /\ handedTo # "stream") ~> (conn = "closed")
=============================================================================
