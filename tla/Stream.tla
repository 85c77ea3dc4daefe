------------------------------- MODULE Stream -------------------------------
(***************************************************************************)
(* herdr.Stream (stream.go): a goroutine reads the lines the server pushes *)
(* and hands each one, over an unbuffered channel, to a goroutine that is  *)
(* in Next; Close may come at any moment.                                  *)
(*                                                                         *)
(* A line is what decoding it would show: an "event", an "error" response  *)
(* in place of one, "bad" JSON, or a "blank" line.  The server, which is   *)
(* external, pushes lines, and closes the connection after an "error".     *)
(***************************************************************************)
EXTENDS Integers, Sequences

CONSTANTS
    Callers,   \* goroutines that call Next
    Closers,   \* goroutines that call Close
    None,      \* Go's nil
    MaxLines   \* bound: lines the server pushes

ASSUME StreamAssumption ==
    /\ MaxLines \in Nat
    /\ None \notin {"eof", "error", "local"}

VARIABLES
    sent,      \* server: the lines pushed so far
    hungUp,    \* server: it closed the connection
    taken,     \* reader: number of lines it has read
    reader,    \* reader: "read", "hand" a line, "handErr" a read error, "done"
    closed,    \* the channel Stream.closed is closed
    connOpen,  \* the client's end of the connection
    closer,    \* each Close: "idle", "waiting" for the Once, "closing", "done"
    readErr,   \* Stream.readErr
    lineErr,   \* the error in the reader's hand
    next,      \* each Next: "idle", "enter", "select", "set", "terminal"
    got,       \* each Next: the error it received and has yet to record
    ctx,       \* the callers whose context is done
    ret,       \* history: what each caller's last Next returned, until it calls
    used,      \* history: the callers that have called Next
    handed,    \* history: number of lines that left the reader's hand or were blank
    late,      \* history: callers in a Next that began after Close had
    ended      \* history: the first end of the stream that a Next received

vars == <<sent, hungUp, taken, reader, closed, connOpen, closer, readErr,
          lineErr, next, got, ctx, ret, used, handed, late, ended>>
serverVars == <<sent, hungUp>>
readerVars == <<taken, reader, lineErr>>
closeVars == <<closed, connOpen, closer>>
callVars == <<next, got, ctx, ret, used, late>>

Init ==
    /\ sent = <<>>
    /\ hungUp = FALSE
    /\ taken = 0
    /\ reader = "read"
    /\ closed = FALSE
    /\ connOpen = TRUE
    /\ closer = [k \in Closers |-> "idle"]
    /\ readErr = None
    /\ lineErr = None
    /\ next = [c \in Callers |-> "idle"]
    /\ got = [c \in Callers |-> None]
    /\ ctx = {}
    /\ ret = [c \in Callers |-> "none"]
    /\ used = {}
    /\ handed = 0
    /\ late = {}
    /\ ended = None

-----------------------------------------------------------------------------
(* The server: external. *)

Push(line) ==
    /\ ~hungUp
    /\ connOpen
    /\ Len(sent) < MaxLines
    /\ sent' = Append(sent, line)
    /\ hungUp' = (line = "error")
    /\ UNCHANGED <<readerVars, closeVars, readErr, callVars, handed, ended>>

HangUp ==
    /\ ~hungUp
    /\ hungUp' = TRUE
    /\ UNCHANGED <<sent, readerVars, closeVars, readErr, callVars, handed, ended>>

-----------------------------------------------------------------------------
(* Stream.read *)

\* ReadBytes returned a line.  A blank one is skipped.  Lines the buffered
\* reader holds can still be read after the connection was closed.
ReadLine ==
    /\ reader = "read"
    /\ taken < Len(sent)
    /\ taken' = taken + 1
    /\ IF sent[taken + 1] = "blank"
       THEN handed' = handed + 1 /\ UNCHANGED reader
       ELSE reader' = "hand" /\ UNCHANGED handed
    /\ UNCHANGED <<serverVars, lineErr, closeVars, readErr, callVars, ended>>

\* ReadBytes failed: the server hung up, or the connection was closed here.
ReadError ==
    /\ reader = "read"
    /\ \/ hungUp /\ taken = Len(sent) /\ lineErr' = "eof"
       \/ ~connOpen /\ lineErr' = "local"
    /\ reader' = "handErr"
    /\ UNCHANGED <<serverVars, taken, closeVars, readErr, callVars, handed, ended>>

\* Mutant: the send of a line does not look at the closed channel.
ReaderQuitsOnErr ==
    /\ reader = "handErr"
    /\ closed
    /\ reader' = "done"
    /\ UNCHANGED <<serverVars, taken, lineErr, closeVars, readErr, callVars,
                   handed, ended>>

\* The select of a send saw the closed channel: read returns and closes lines.
ReaderQuits ==
    /\ reader \in {"hand", "handErr"}
    /\ closed
    /\ reader' = "done"
    /\ UNCHANGED <<serverVars, taken, lineErr, closeVars, readErr, callVars,
                   handed, ended>>

-----------------------------------------------------------------------------
(* Stream.Next *)

CallNext(c) ==
    /\ next[c] = "idle"
    /\ next' = [next EXCEPT ![c] = "enter"]
    /\ late' = IF closed THEN late \cup {c} ELSE late
    /\ ret' = [ret EXCEPT ![c] = "none"]
    /\ used' = used \cup {c}
    /\ UNCHANGED <<serverVars, readerVars, closeVars, readErr, got, ctx, handed, ended>>

Cancel(c) ==
    /\ next[c] # "idle"
    /\ c \notin ctx
    /\ ctx' = ctx \cup {c}
    /\ UNCHANGED <<serverVars, readerVars, closeVars, readErr, next, got, ret,
                   used, late, handed, ended>>

Return(c, value) ==
    /\ next' = [next EXCEPT ![c] = "idle"]
    /\ ret' = [ret EXCEPT ![c] = value]
    /\ ctx' = ctx \ {c}
    /\ late' = late \ {c}
    /\ UNCHANGED used

Goto(c, label) ==
    /\ next' = [next EXCEPT ![c] = label]
    /\ UNCHANGED <<ctx, ret, used, late>>

\* Mutant: the closed channel is left to the select.
EnterUnchecked(c) ==
    /\ next[c] = "enter"
    /\ \/ c \in ctx /\ Return(c, "ctx")
       \/ c \notin ctx /\ Goto(c, "select")
    /\ UNCHANGED <<serverVars, readerVars, closeVars, readErr, got, handed, ended>>

\* The checks before the select: the context, then the closed channel.
Enter(c) ==
    /\ next[c] = "enter"
    /\ \/ c \in ctx /\ Return(c, "ctx")
       \/ c \notin ctx /\ closed /\ Goto(c, "terminal")
       \/ c \notin ctx /\ ~closed /\ Goto(c, "select")
    /\ UNCHANGED <<serverVars, readerVars, closeVars, readErr, got, handed, ended>>

\* Mutants: a Next that gives up takes the reader's line with it; the context
\* is not a case of the select.
SelectDoneDrops(c) ==
    /\ next[c] = "select"
    /\ c \in ctx
    /\ Return(c, "ctx")
    /\ reader' = IF reader = "hand" THEN "read" ELSE reader
    /\ UNCHANGED <<serverVars, taken, lineErr, closeVars, readErr, got, handed, ended>>
SelectDoneMissing(c) == closed /\ SelectDoneDrops(c)

\* select: the context is done.
SelectDone(c) ==
    /\ next[c] = "select"
    /\ c \in ctx
    /\ Return(c, "ctx")
    /\ UNCHANGED <<serverVars, readerVars, closeVars, readErr, got, handed, ended>>

\* select: the closed channel, or the lines channel that read closed.
SelectClosed(c) ==
    /\ next[c] = "select"
    /\ closed \/ reader = "done"
    /\ Goto(c, "terminal")
    /\ UNCHANGED <<serverVars, readerVars, closeVars, readErr, got, handed, ended>>

\* select: a line.  An error response is kept to be recorded as the read error.
SelectLine(c) ==
    /\ next[c] = "select"
    /\ reader = "hand"
    /\ reader' = "read"
    /\ handed' = handed + 1
    /\ LET line == sent[taken] IN
       \/ /\ line = "event"
          /\ Return(c, "event")
          /\ UNCHANGED <<got, ended>>
       \/ /\ line = "bad"
          /\ Return(c, "decode")
          /\ UNCHANGED <<got, ended>>
       \/ /\ line = "error"
          /\ got' = [got EXCEPT ![c] = "error"]
          /\ ended' = IF ended = None THEN "error" ELSE ended
          /\ Goto(c, "set")
    /\ UNCHANGED <<serverVars, taken, lineErr, closeVars, readErr>>

\* Mutant: the read error is not recorded.
SelectErrUnrecorded(c) ==
    /\ next[c] = "select"
    /\ reader = "handErr"
    /\ reader' = "done"
    /\ ended' = IF ended = None THEN lineErr ELSE ended
    /\ Goto(c, "terminal")
    /\ UNCHANGED <<serverVars, taken, lineErr, closeVars, readErr, got, handed>>

\* select: a read error; read returns after it was handed over.
SelectErr(c) ==
    /\ next[c] = "select"
    /\ reader = "handErr"
    /\ reader' = "done"
    /\ got' = [got EXCEPT ![c] = lineErr]
    /\ ended' = IF ended = None THEN lineErr ELSE ended
    /\ Goto(c, "set")
    /\ UNCHANGED <<serverVars, taken, lineErr, closeVars, readErr, handed>>

\* Mutant: the last error stays.
SetLastReadErr(c) ==
    /\ next[c] = "set"
    /\ readErr' = got[c]
    /\ got' = [got EXCEPT ![c] = None]
    /\ Goto(c, "terminal")
    /\ UNCHANGED <<serverVars, readerVars, closeVars, handed, ended>>

\* setReadErr: the first error stays.
SetReadErr(c) ==
    /\ next[c] = "set"
    /\ readErr' = IF readErr = None THEN got[c] ELSE readErr
    /\ got' = [got EXCEPT ![c] = None]
    /\ Goto(c, "terminal")
    /\ UNCHANGED <<serverVars, readerVars, closeVars, handed, ended>>

\* terminalErr: the context's error, or ErrStreamClosed with the read error.
Terminal(c) ==
    /\ next[c] = "terminal"
    /\ Return(c, IF c \in ctx THEN "ctx"
                 ELSE IF readErr = None THEN "closed" ELSE readErr)
    /\ UNCHANGED <<serverVars, readerVars, closeVars, readErr, got, handed, ended>>

-----------------------------------------------------------------------------
(* Stream.Close: a sync.Once *)

\* Mutant: a flag in place of the Once; a Close that comes second returns.
CallCloseFlag(k) ==
    /\ closer[k] = "idle"
    /\ IF \E j \in Closers : closer[j] # "idle"
       THEN closer' = [closer EXCEPT ![k] = "done"] /\ UNCHANGED closed
       ELSE closer' = [closer EXCEPT ![k] = "closing"] /\ closed' = TRUE
    /\ UNCHANGED <<serverVars, readerVars, connOpen, readErr, callVars, handed,
                   ended>>

\* The first Close runs the body of the Once; the others wait for it.
CallClose(k) ==
    /\ closer[k] = "idle"
    /\ IF \E j \in Closers : closer[j] # "idle"
       THEN closer' = [closer EXCEPT ![k] = "waiting"] /\ UNCHANGED closed
       ELSE closer' = [closer EXCEPT ![k] = "closing"] /\ closed' = TRUE
    /\ UNCHANGED <<serverVars, readerVars, connOpen, readErr, callVars, handed,
                   ended>>

CloseConn(k) ==
    /\ closer[k] = "closing"
    /\ connOpen' = FALSE
    /\ closer' = [closer EXCEPT ![k] = "done"]
    /\ UNCHANGED <<serverVars, readerVars, closed, readErr, callVars, handed,
                   ended>>

OnceDone(k) ==
    /\ closer[k] = "waiting"
    /\ \E j \in Closers : closer[j] = "done"
    /\ closer' = [closer EXCEPT ![k] = "done"]
    /\ UNCHANGED <<serverVars, readerVars, closed, connOpen, readErr, callVars,
                   handed, ended>>

-----------------------------------------------------------------------------
Reader == ReadLine \/ ReadError \/ ReaderQuits

Caller(c) ==
    \/ Enter(c) \/ SelectDone(c) \/ SelectClosed(c) \/ SelectLine(c)
    \/ SelectErr(c) \/ SetReadErr(c) \/ Terminal(c)

Next ==
    \/ \E line \in {"event", "bad", "error", "blank"} : Push(line)
    \/ HangUp
    \/ Reader
    \/ \E c \in Callers : CallNext(c) \/ Cancel(c) \/ Caller(c)
    \/ \E k \in Closers : CallClose(k) \/ CloseConn(k) \/ OnceDone(k)

Spec == Init /\ [][Next]_vars

\* Goroutines that can run do run.  A closed connection makes a blocked read
\* return, which the dialer's contract asks for (dial.go).  Nothing is
\* assumed of the server, nor that anybody calls Next or Close.
Fairness ==
    /\ WF_vars(Reader)
    /\ \A c \in Callers : WF_vars(Caller(c))
    /\ \A k \in Closers : WF_vars(CloseConn(k)) /\ WF_vars(OnceDone(k))

LiveSpec == Spec /\ Fairness

-----------------------------------------------------------------------------
(* Properties *)

TypeOK ==
    /\ sent \in Seq({"event", "bad", "error", "blank"})
    /\ hungUp \in BOOLEAN
    /\ taken \in 0..Len(sent)
    /\ reader \in {"read", "hand", "handErr", "done"}
    /\ lineErr \in {None, "eof", "local"}
    /\ closed \in BOOLEAN /\ connOpen \in BOOLEAN
    /\ closer \in [Closers -> {"idle", "waiting", "closing", "done"}]
    /\ readErr \in {None, "eof", "error", "local"}
    /\ next \in [Callers -> {"idle", "enter", "select", "set", "terminal"}]
    /\ got \in [Callers -> {None, "eof", "error", "local"}]
    /\ ctx \subseteq Callers
    /\ ret \in [Callers -> {"none", "event", "decode", "ctx", "closed", "eof",
                            "error", "local"}]
    /\ handed \in Nat
    /\ late \subseteq used /\ used \subseteq Callers
    /\ ended \in {None, "eof", "error", "local"}

\* A step that ends the Next of c.
Returns(c) == next[c] # "idle" /\ next'[c] = "idle"

\* "Canceling Next leaves the stream usable": until Close, every line read
\* from the connection was handed to a Next or is in the reader's hand.
NoLineLost ==
    ~closed => handed = IF reader = "hand" THEN taken - 1 ELSE taken

\* Once any Close has returned the connection is closed, also for a Close
\* that lost the race for the Once.
CloseReturnsClosed ==
    \A k \in Closers : closer[k] = "done" => ~connOpen

\* With a single consumer, which is how Session uses a stream, the reported
\* end of the stream is the first one received: the hang-up that follows an
\* events_lost response does not replace it.
FirstEndReported ==
    (\E c \in Callers : used = {c}) /\ readErr # None => readErr = ended

\* With a single consumer, a Next that reports the stream closed names what
\* ended it, unless the client closed it.
EndHasCause ==
    [][\A c \in Callers :
          used' = {c} /\ Returns(c) /\ ret'[c] = "closed" => closed]_vars

\* Close ends the reading goroutine.
ReaderStops == closed ~> (reader = "done")

\* For any number of consumers a stream is a queue: every line goes to one
\* Next, in the order it was pushed, none to a Next that began after Close
\* although the reader may still offer one; a Next fails only with its
\* context's error or with an end that the stream has reached, and it does
\* return once it is closed or its context is done (Stream.Next, Stream.Close).
Promise ==
    INSTANCE Feed WITH end <- readErr,
                       pending <- {c \in Callers : next[c] # "idle"}
ImplementsFeed == Promise!Spec
=============================================================================
