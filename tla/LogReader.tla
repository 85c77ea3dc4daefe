------------------------------ MODULE LogReader ------------------------------
(***************************************************************************)
(* What herdr.Session promises the program that opens it and calls Next:   *)
(* it is told of the server's events in their order, each once, until it   *)
(* is told of a gap, and between two calls it sees a view of the server's  *)
(* state.  No stream, bootstrap, queue or lock is visible here.            *)
(***************************************************************************)
EXTENDS Integers, Sequences

CONSTANTS
    Keys,      \* the records of the view
    Unknown,   \* an event of a kind the client does not know
    Garbled,   \* a pushed line that is not JSON
    Callers,   \* goroutines that call OpenSession and Next
    None       \* Go's nil

VARIABLES
    log,       \* server: the events emitted so far
    states,    \* server: states[n+1] is its state after n events
    broken,    \* server: why it ended what feeds the view
    opened,    \* OpenSession returned a Session
    closed,    \* Close was called
    inside,    \* the callers that are in OpenSession or Next
    ctx,       \* the callers whose context is done
    ret,       \* what the last call returned
    told,      \* the last event the program was told of
    gap,       \* the cause of a gap it has yet to be told of
    from,      \* the last event before those that feed the view
    snap,      \* the last event the view's snapshot reflects
    view       \* the records as the program sees them

vars == <<log, states, broken, opened, closed, inside, ctx, ret, told, gap, from,
          snap, view>>
server == <<log, states, broken>>
calls == <<inside, ctx, ret>>
sight == <<gap, from, snap, view>>

Init ==
    /\ log = <<>> /\ states = <<[k \in Keys |-> 0]>> /\ broken = None
    /\ ~opened /\ ~closed
    /\ inside = {} /\ ctx = {} /\ ret = "none"
    /\ told = 0 /\ gap = None /\ from = 0 /\ snap = 0
    /\ view = [k \in Keys |-> 0]

\* The server changes a record, or pushes a line that changes none.
Emit(line) ==
    /\ log' = Append(log, line)
    /\ states' = Append(states,
                   [k \in Keys |-> IF k = line THEN Len(log) + 1
                                   ELSE states[Len(log) + 1][k]])
    /\ UNCHANGED <<broken, opened, closed, calls, told, sight>>

Break(why) ==
    /\ broken = None /\ broken' = why
    /\ UNCHANGED <<log, states, opened, closed, calls, told, sight>>

Call(c) ==
    /\ c \notin inside
    /\ inside' = inside \cup {c} /\ ctx' = ctx \ {c}
    /\ UNCHANGED <<server, opened, closed, ret, told, sight>>

Cancel(c) ==
    /\ c \in inside \ ctx
    /\ ctx' = ctx \cup {c}
    /\ UNCHANGED <<server, opened, closed, inside, ret, told, sight>>

Close ==
    /\ opened /\ ~closed /\ closed'
    /\ UNCHANGED <<server, opened, calls, told, sight>>

Return(c, value) ==
    /\ c \in inside
    /\ inside' = inside \ {c} /\ ctx' = ctx \ {c} /\ ret' = value

\* A snapshot with the events up to n since then replayed: a record that one
\* of these wrote is as that event left it, any other is as the snapshot has
\* it, which may be ahead of n.
Reflection(after, snapshot, n) ==
    [k \in Keys |->
        IF \E i \in (after + 1)..n : log[i] = k THEN states[n + 1][k]
        ELSE states[snapshot + 1][k]]

\* A view is taken from a snapshot, and fed with what came after some event
\* that is not before those already told of, and not after the snapshot.
Look ==
    /\ from' \in told..Len(log)
    /\ snap' \in from'..Len(log)
    /\ view' = states[snap' + 1]
    /\ broken' \in {None, "eof", "lost"}
    /\ UNCHANGED <<log, states>>

Open(c) ==
    /\ ~opened /\ opened'
    /\ Look /\ told' = from' /\ gap' = None
    /\ Return(c, "opened")
    /\ UNCHANGED closed

\* One event, the next one, and the view that it makes.
Deliver(c) ==
    /\ opened /\ gap = None
    /\ told < Len(log) /\ told' = told + 1
    /\ view' = Reflection(from, snap, told')
    /\ Return(c, IF log[told'] \in Keys THEN "event" ELSE "decode")
    /\ UNCHANGED <<server, opened, closed, gap, from, snap>>

\* What fed the view was lost: while somebody is in Next the view is taken
\* anew, and the gap is still to be told of, with what ended the old one.
Rejoin ==
    /\ opened /\ inside # {} /\ broken # None
    /\ gap = None /\ gap' = broken
    /\ Look
    /\ UNCHANGED <<opened, closed, calls, told>>

Announce(c) ==
    /\ gap # None /\ gap' = None
    /\ told' = from
    /\ Return(c, "resync")
    /\ UNCHANGED <<server, opened, closed, from, snap, view>>

\* The other ways to return tell of no event and show nothing new: the
\* context's error, that the Session is closed, and errors of OpenSession or
\* of reconnecting what was lost.
Fail(c) ==
    /\ \/ c \in ctx /\ Return(c, "ctx")
       \/ closed /\ Return(c, "closed")
       \/ ~opened /\ Return(c, "openFailed")
       \/ opened /\ broken # None /\ Return(c, "fatal")
       \/ opened /\ broken # None /\ Return(c, "lost")
    /\ UNCHANGED <<server, opened, closed, told, sight>>

Next ==
    \/ \E line \in Keys \cup {Unknown, Garbled} : Emit(line)
    \/ \E why \in {"eof", "lost"} : Break(why)
    \/ Close \/ Rejoin
    \/ \E c \in Callers :
          Call(c) \/ Cancel(c) \/ Open(c) \/ Deliver(c) \/ Announce(c) \/ Fail(c)

Spec == Init /\ [][Next]_vars
=============================================================================
