-------------------------------- MODULE Feed --------------------------------
(***************************************************************************)
(* What herdr.Stream promises the goroutines that call Next: the lines the *)
(* server pushes, in order, each to one Next, until the stream ends or is  *)
(* closed.  No reader, channel or lock is visible here.                    *)
(***************************************************************************)
EXTENDS Integers, Sequences

CONSTANTS
    Callers,   \* goroutines that call Next
    None       \* Go's nil

VARIABLES
    sent,      \* the lines pushed: "event", "bad", "error" or "blank"
    hungUp,    \* the server closed the connection
    handed,    \* how many lines were delivered, or were blank
    closed,    \* Close was called
    end,       \* the recorded end: None, "eof", "error" or "local"
    pending,   \* the callers that are in Next
    late,      \* those whose Next began after Close
    ctx,       \* those whose context is done
    ret        \* what the last Next of each returned, until it calls again

vars == <<sent, hungUp, handed, closed, end, pending, late, ctx, ret>>
server == <<sent, hungUp>>
callers == <<pending, late, ctx, ret>>

Init ==
    /\ sent = <<>> /\ ~hungUp /\ handed = 0
    /\ ~closed
    /\ end = None
    /\ pending = {} /\ late = {} /\ ctx = {}
    /\ ret = [c \in Callers |-> "none"]

Push(line) ==
    /\ ~hungUp
    /\ sent' = Append(sent, line)
    /\ hungUp' = (line = "error")
    /\ UNCHANGED <<handed, closed, end, callers>>

HangUp ==
    /\ ~hungUp /\ hungUp'
    /\ UNCHANGED <<sent, handed, closed, end, callers>>

Close ==
    /\ ~closed /\ closed'
    /\ UNCHANGED <<server, handed, end, callers>>

Ahead == handed < Len(sent)
Line == sent[handed + 1]

SkipBlank ==
    /\ Ahead /\ Line = "blank"
    /\ handed' = handed + 1
    /\ UNCHANGED <<server, closed, end, callers>>

\* What may be reported as the end: what the server did, in the order it did
\* it, or that the stream was closed here.
Ends ==
    {"error" : i \in {j \in 1..handed : sent[j] = "error"}}
        \cup (IF hungUp /\ ~Ahead THEN {"eof"} ELSE {})
        \cup (IF closed THEN {"local"} ELSE {})

\* An error response ends the stream for whoever receives it.
TakeError ==
    /\ Ahead /\ Line = "error" /\ pending # {}
    /\ handed' = handed + 1
    /\ UNCHANGED <<server, closed, end, callers>>

\* The end that is recorded first stays.
RecordEnd ==
    /\ end = None
    /\ end' \in Ends
    /\ UNCHANGED <<server, handed, closed, callers>>

CallNext(c) ==
    /\ c \notin pending
    /\ pending' = pending \cup {c}
    /\ late' = IF closed THEN late \cup {c} ELSE late
    /\ ret' = [ret EXCEPT ![c] = "none"]
    /\ UNCHANGED <<server, handed, closed, end, ctx>>

Cancel(c) ==
    /\ c \in pending \ ctx
    /\ ctx' = ctx \cup {c}
    /\ UNCHANGED <<server, handed, closed, end, pending, late, ret>>

Return(c, value) ==
    /\ c \in pending
    /\ pending' = pending \ {c} /\ ctx' = ctx \ {c} /\ late' = late \ {c}
    /\ ret' = [ret EXCEPT ![c] = value]
    /\ UNCHANGED <<server, closed, end>>

\* A Next that began before Close may still receive a line.
Deliver(c) ==
    /\ c \notin late
    /\ Ahead /\ Line \in {"event", "bad"}
    /\ handed' = handed + 1
    /\ Return(c, IF Line = "event" THEN "event" ELSE "decode")

\* The context's error, or that the stream is over, with its end if one is
\* recorded.
Fail(c) ==
    /\ UNCHANGED handed
    /\ \/ c \in ctx /\ Return(c, "ctx")
       \/ Ends # {} /\ Return(c, IF end = None THEN "closed" ELSE end)

Next ==
    \/ \E line \in {"event", "bad", "error", "blank"} : Push(line)
    \/ HangUp \/ Close \/ SkipBlank \/ TakeError \/ RecordEnd
    \/ \E c \in Callers : CallNext(c) \/ Cancel(c) \/ Deliver(c) \/ Fail(c)

\* Until it is closed the stream delivers its next line while somebody waits
\* for it, though not to a given caller; and a caller that may give up does.
Fairness ==
    /\ WF_vars(~closed /\ SkipBlank)
    /\ \A c \in Callers :
          /\ WF_vars(/\ ~closed /\ c \in pending \ ctx
                     /\ TakeError \/ \E d \in Callers : Deliver(d))
          /\ WF_vars(Fail(c))

Safety == Init /\ [][Next]_vars

Spec == Safety /\ Fairness
=============================================================================
