--------------------------- MODULE SessionProofs ---------------------------
(***************************************************************************)
(* Theorems about Session, for every set of records and callers and for    *)
(* every bound.                                                            *)
(***************************************************************************)
EXTENDS Session, TLAPS

-----------------------------------------------------------------------------
(* The inductive invariant, in parts. *)

\* The log and the server's states: the state after event i has version i of
\* the record that event i wrote, and a record nobody wrote keeps its version.
LogInv ==
    /\ Len(states) = Len(log) + 1
    /\ \A i \in 1..Len(log) : log[i] \in Keys => states[i + 1][log[i]] = i
    /\ \A k \in Keys : \A a, b \in 0..Len(log) :
          a <= b /\ (\A i \in (a + 1)..b : log[i] # k)
             => states[a + 1][k] = states[b + 1][k]

\* A stream never runs ahead of the log, nor of its own end.
StreamInv ==
    \A s \in DOMAIN str :
        /\ str[s].pos <= Len(log)
        /\ str[s].end # None => str[s].pos <= str[s].end /\ str[s].end <= Len(log)
        /\ str[s].end # None <=> str[s].why # None

Bootstrapping == pc \in {"collect", "stop"}
Reconnecting == pc \in {"wait", "backoff", "subscribe", "collect", "stop"}

\* Who owns which stream.
OwnerInv ==
    /\ NoOrphanStream
    /\ pc = "idle" <=> holder = None
    /\ closed => opened /\ stream = None
    /\ ~opened => /\ stream = None /\ waiting = {}
                  /\ pc \in {"idle", "subscribe", "collect", "stop"}
    /\ stream # None => stream \in DOMAIN str
    /\ closing # None => closed
    /\ Reconnecting \/ pc = "noStream" => stream = None
    /\ boot # None <=> Bootstrapping \/ pc = "replace"
    /\ Bootstrapping => boot \in DOMAIN str /\ boot # closing
    /\ boot # None => boot # mirrorStr
    /\ pc = "replace" /\ ~closed => stream = boot
    /\ pc \in {"recv", "ended"} => cur = mirrorStr /\ cur # None
    /\ stream # None /\ pc # "replace" => stream = mirrorStr
    /\ pc \in {"recv", "ended"} /\ ~closed => stream = cur

\* What waits in pending and in the collector's buffer is what comes next.
FeedInv ==
    /\ NothingLost
    /\ applied + Len(pending) <= Len(log)
    /\ \A j \in 1..Len(pending) : pending[j] = applied + j
    /\ bootFrom + Len(buffered) <= Len(log)
    /\ \A j \in 1..Len(buffered) : buffered[j] = bootFrom + j
    /\ boot # None /\ failure = "none" /\ boot \in DOMAIN str
         => bootFrom + Len(buffered) = str[boot].pos
    /\ boot = None => buffered = <<>>
    /\ pc = "replace" => failure = "none"
    /\ pc \in {"noStream", "recv"} => pending = <<>>
    /\ pc \in {"stop", "replace"} => bootFrom <= snapshot /\ snapshot <= Len(log)

\* The mirror: a record that an event applied since the subscription wrote is
\* as that event's log has it; any other is as the snapshot had it.
MirrorInv ==
    /\ mirrorFrom <= applied
    /\ mirrorFrom <= mirrorSnap
    /\ mirrorSnap <= Len(log)
    /\ \A k \in Keys :
          mirror[k] = IF \E i \in (mirrorFrom + 1)..applied : log[i] = k
                      THEN states[applied + 1][k]
                      ELSE states[mirrorSnap + 1][k]

\* Why the mirror's stream ended, until the ResyncEvent reports it.
CauseInv ==
    /\ ResyncCarriesCause
    /\ mirrorStr \in DOMAIN str => mirrorEnd = str[mirrorStr].why
    /\ pc = "ended" /\ cur \in DOMAIN str => str[cur].why # None
    /\ opened /\ stream = None /\ ~closed => cause = mirrorEnd /\ cause # None
    /\ opened /\ (Reconnecting \/ pc \in {"drop", "replace"})
          => cause = mirrorEnd /\ cause # None

\* How far the caller was told.
ToldInv ==
    /\ base <= applied
    /\ resync = None => base = applied
    /\ resync # None => applied = mirrorFrom
    /\ boot # None => base <= bootFrom
    /\ pc \notin {"idle", "loop"} => resync = None
    /\ ~opened => resync = None /\ base = 0

IInv ==
    /\ TypeOK
    /\ LogInv
    /\ StreamInv
    /\ OwnerInv
    /\ FeedInv
    /\ MirrorInv
    /\ CauseInv
    /\ ToldInv

-----------------------------------------------------------------------------
(* Type correctness *)

USE DEF serverVars, streams, nextMuVars, streamMuVars, bootVars, callVars,
        mirrorVars, endVars, toldVars

\* Before OpenSession every variable has its type.
LEMMA InitType == Init => TypeOK
<1> SUFFICES ASSUME Init PROVE TypeOK
    OBVIOUS
<1>1. log \in Seq(Lines) /\ states \in Seq([Keys -> Nat])
    BY DEF Init
<1>2. DOMAIN str = {}
    BY DEF Init
<1>3. /\ DOMAIN str \subseteq Streams
      /\ str \in [DOMAIN str -> StreamRecord]
    BY <1>2 DEF Init
<1>4. pending \in Seq(Nat) /\ buffered \in Seq(Nat)
    BY DEF Init
<1>5. mirror \in [Keys -> Nat]
    BY DEF Init
<1> QED
    BY <1>1, <1>3, <1>4, <1>5 DEF Init, TypeOK, Streams

\* What taking a line, ending a stream and closing one do to str.
LEMMA TakeFacts ==
    ASSUME TypeOK, NEW s \in DOMAIN str
    PROVE  /\ DOMAIN Take(s) = DOMAIN str
           /\ Take(s) \in [DOMAIN str -> StreamRecord]
           /\ Take(s)[s].pos = str[s].pos + 1
           /\ \A t \in DOMAIN str : /\ t # s => Take(s)[t] = str[t]
                                    /\ Take(s)[t].end = str[t].end
                                    /\ Take(s)[t].why = str[t].why
<1>1. str[s] \in StreamRecord
    BY DEF TypeOK
<1>2. [pos |-> str[s].pos + 1, end |-> str[s].end, why |-> str[s].why] \in StreamRecord
    BY <1>1 DEF StreamRecord
<1> QED
    BY <1>2 DEF TypeOK, Take

\* Closing a stream on the client's side takes it out of str.
LEMMA ShutFacts ==
    ASSUME TypeOK, NEW s
    PROVE  /\ DOMAIN Shut(s) = DOMAIN str \ {s}
           /\ Shut(s) \in [DOMAIN str \ {s} -> StreamRecord]
           /\ \A t \in DOMAIN str \ {s} : Shut(s)[t] = str[t]
BY DEF TypeOK, Shut

\* A stream that the server or the network ends stays open on this side.
LEMMA BreakFacts ==
    ASSUME TypeOK, NEW s \in DOMAIN str, NEW why \in {"eof", "lost"},
           BreakStream(s, why)
    PROVE  \E last \in str[s].pos..Len(log) :
              /\ last \in Nat
              /\ DOMAIN str' = DOMAIN str
              /\ str' \in [DOMAIN str -> StreamRecord]
              /\ str'[s].pos = str[s].pos
              /\ str'[s].end = last
              /\ str'[s].why = why
              /\ \A t \in DOMAIN str : t # s => str'[t] = str[t]
<1>1. PICK last \in str[s].pos..Len(log) :
         str' = [str EXCEPT ![s] = [pos |-> @.pos, end |-> last, why |-> why]]
    BY DEF BreakStream
<1>2. str[s] \in StreamRecord /\ str[s].pos \in Nat /\ Len(log) \in Nat
    BY DEF TypeOK, StreamRecord
<1>3. last \in Nat
    BY <1>2
<1>4. [pos |-> str[s].pos, end |-> last, why |-> why] \in StreamRecord
    BY <1>2, <1>3 DEF StreamRecord
<1>5. str' \in [DOMAIN str -> StreamRecord]
    BY <1>1, <1>4 DEF TypeOK
<1> QED
    BY <1>1, <1>3, <1>5 DEF TypeOK

\* A new stream joins the others at the end of the log.
LEMMA SubscribeFacts ==
    ASSUME TypeOK, Subscribe
    PROVE  /\ DOMAIN str' = DOMAIN str \cup {made'}
           /\ made' = made + 1
           /\ made' \notin DOMAIN str
           /\ str' \in [DOMAIN str' -> StreamRecord]
           /\ str'[made'] = [pos |-> Len(log), end |-> None, why |-> None]
           /\ \A t \in DOMAIN str : str'[t] = str[t]
<1>1. made' = made + 1 /\ made' \notin DOMAIN str
    BY DEF TypeOK, Streams, Subscribe
<1>2. [pos |-> Len(log), end |-> None, why |-> None] \in StreamRecord
    BY DEF TypeOK, StreamRecord
<1> QED
    BY <1>1, <1>2 DEF TypeOK, Subscribe

\* What a failed bootstrapSession leaves: its own stream is shut, the rest
\* of the Session as it was.
LEMMA BootstrapFailedFacts ==
    ASSUME TypeOK, NEW err \in {"retryable", "fatal", "lost"},
           BootstrapFailed(err)
    PROVE  /\ boot' = None /\ bootFrom' = 0 /\ buffered' = <<>>
           /\ snapshot' = 0 /\ failure' = "none"
           /\ waiting' = waiting
           /\ holder' \in Callers \cup {None}
           /\ ctx' \subseteq Callers
           /\ pc' \in {"idle", "wait"}
           /\ ~opened => pc' = "idle"
           /\ cur' \in {cur, None}
           /\ ret' \in {ret, "openFailed", "fatal", "lost"}
BY DEF TypeOK, BootstrapFailed, BootstrapOver, Return

\* What applying an event to the mirror and returning it changes.
LEMMA DeliverFacts ==
    ASSUME TypeOK, NEW i \in Nat, Deliver(i)
    PROVE  /\ applied' = i /\ base' = i
           /\ mirror' \in [Keys -> Nat]
           /\ log[i] \in Keys => mirror' = [mirror EXCEPT ![log[i]] = i]
           /\ log[i] \notin Keys => mirror' = mirror
           /\ ret' \in {"event", "decode"}
           /\ holder' = None /\ pc' = "idle" /\ cur' = None
           /\ ctx' = ctx \ {holder}
           /\ UNCHANGED <<waiting, mirrorStr, mirrorFrom, mirrorSnap, mirrorEnd, prevEnd>>
<1>1. CASE log[i] \in Keys
    BY <1>1 DEF TypeOK, Deliver, Return
<1>2. CASE log[i] \notin Keys
    BY <1>2 DEF TypeOK, Deliver, Return
<1> QED
    BY <1>1, <1>2

\* The snapshot that is installed is a state of the server.
LEMMA SnapshotTaken ==
    ASSUME TypeOK, LogInv, FeedInv, pc \in {"stop", "replace"}
    PROVE  states[snapshot + 1] \in [Keys -> Nat]
<1>1. snapshot <= Len(log)
    BY DEF FeedInv
<1>2. Len(states) = Len(log) + 1
    BY DEF LogInv
<1>3. snapshot \in Nat /\ log \in Seq(Lines) /\ states \in Seq([Keys -> Nat])
    BY DEF TypeOK
<1>4. Len(log) \in Nat
    BY <1>3
<1>5. snapshot + 1 \in 1..Len(states)
    BY <1>1, <1>2, <1>3, <1>4
<1> QED
    BY <1>3, <1>5

\* No step takes a variable out of its type.
LEMMA StepType == IInv /\ [Next]_vars => TypeOK'
<1> SUFFICES ASSUME TypeOK, LogInv, OwnerInv, FeedInv, [Next]_vars PROVE TypeOK'
    BY DEF IInv
<1> USE NamesAssumption
<1>1. ASSUME NEW line \in Lines, Emit(line) PROVE TypeOK'
    <2>1. log' \in Seq(Lines) /\ UNCHANGED <<str, made>>
        BY <1>1 DEF Emit, TypeOK, Streams
    <2>2. states[Len(log) + 1] \in [Keys -> Nat]
        BY SMTT(30) DEF LogInv, TypeOK, Streams
    <2>3. [k \in Keys |-> IF k = line THEN Len(log) + 1 ELSE states[Len(log) + 1][k]]
             \in [Keys -> Nat]
        BY <2>2 DEF TypeOK, Streams
    <2>4. states' \in Seq([Keys -> Nat])
        BY <1>1, <2>3 DEF Emit, TypeOK, Streams
    <2> QED
        BY <1>1, <2>1, <2>4, SMTT(30) DEF Emit, TypeOK, Streams
<1>2. ASSUME NEW c \in Callers, OpenSession(c) PROVE TypeOK'
    BY <1>2 DEF OpenSession, TypeOK, Streams
<1>3. ASSUME NEW c \in Callers, Cancel(c) PROVE TypeOK'
    BY <1>3 DEF Cancel, TypeOK, Streams
<1>4. ASSUME NEW c \in Callers, CallNext(c) PROVE TypeOK'
    BY <1>4 DEF CallNext, TypeOK, Streams
<1>5. ASSUME NEW c \in Callers, Lock(c) PROVE TypeOK'
    BY <1>5 DEF Lock, TypeOK, Streams
<1>6. ASSUME NEW s \in DOMAIN str, NEW why \in {"eof", "lost"}, BreakStream(s, why) PROVE TypeOK'
    <2>1. DOMAIN str' = DOMAIN str /\ str' \in [DOMAIN str -> StreamRecord]
        BY <1>6, BreakFacts
    <2>2. /\ faults' \in Nat
          /\ mirrorEnd' \in {"eof", "lost", None}
          /\ UNCHANGED <<log, states, made, prevEnd, opened, streamMuVars,
                         nextMuVars, mirrorVars, callVars, pc, cur, bootVars,
                         toldVars>>
        BY <1>6, SMTT(30) DEF BreakStream, TypeOK, Streams
    <2> QED
        BY <2>1, <2>2, SMTT(30) DEF TypeOK, Streams
<1>7. ASSUME NEW err \in {"retryable", "fatal"}, SubscribeFailed(err) PROVE TypeOK'
    <2>1. BootstrapFailed(err) /\ faults' \in Nat
        BY <1>7 DEF SubscribeFailed, MayFail, TypeOK, Streams
    <2>3. /\ boot' = None /\ bootFrom' = 0 /\ buffered' = <<>>
          /\ snapshot' = 0 /\ failure' = "none"
          /\ waiting' = waiting
          /\ holder' \in Callers \cup {None}
          /\ ctx' \subseteq Callers
          /\ pc' \in {"idle", "wait"}
          /\ cur' \in {cur, None}
          /\ ret' \in {ret, "openFailed", "fatal", "lost"}
        BY <2>1, BootstrapFailedFacts
    <2>4. UNCHANGED <<log, states, streams, opened, streamMuVars, nextMuVars,
                      mirrorVars, endVars, base>>
        BY <1>7 DEF SubscribeFailed
    <2> QED
        BY <2>1, <2>3, <2>4, SMTT(30) DEF TypeOK, Streams
<1>8. ASSUME NEW err \in {"retryable", "fatal"}, SnapshotFailed(err) PROVE TypeOK'
    <2>1. BootstrapFailed(err) /\ faults' \in Nat
        BY <1>8 DEF SnapshotFailed, MayFail, TypeOK, Streams
    <2>2. DOMAIN str' \subseteq DOMAIN str /\ str' \in [DOMAIN str' -> StreamRecord]
        BY <1>8, ShutFacts DEF SnapshotFailed
    <2>3. /\ boot' = None /\ bootFrom' = 0 /\ buffered' = <<>>
          /\ snapshot' = 0 /\ failure' = "none"
          /\ waiting' = waiting
          /\ holder' \in Callers \cup {None}
          /\ ctx' \subseteq Callers
          /\ pc' \in {"idle", "wait"}
          /\ cur' \in {cur, None}
          /\ ret' \in {ret, "openFailed", "fatal", "lost"}
        BY <2>1, BootstrapFailedFacts
    <2>4. UNCHANGED <<made, log, states, opened, streamMuVars, nextMuVars,
                      mirrorVars, endVars, base>>
        BY <1>8 DEF SnapshotFailed
    <2> QED
        BY <2>1, <2>2, <2>3, <2>4, SMTT(30) DEF TypeOK, Streams
<1>9. CASE CloseBegin
    BY <1>9 DEF CloseBegin, TypeOK, Streams
<1>10. CASE Subscribe
    <2>1. /\ made' = made + 1
          /\ DOMAIN str' = DOMAIN str \cup {made'}
          /\ str' \in [DOMAIN str' -> StreamRecord]
        BY <1>10, SubscribeFacts
    <2>2. DOMAIN str' \subseteq 1..made' /\ 1..made \subseteq 1..made'
        BY <2>1, SMTT(30) DEF TypeOK, Streams
    <2>3. /\ boot' = made' /\ bootFrom' = Len(log) /\ pc' = "collect"
          /\ Len(log) \in Nat /\ boot' \in 1..made'
          /\ UNCHANGED <<serverVars, opened, streamMuVars, nextMuVars, mirrorVars,
                         endVars, callVars, cur, buffered, snapshot, failure,
                         toldVars>>
        BY <2>1 , <1>10 DEF Subscribe, TypeOK
    <2> QED
        BY <2>1, <2>2, <2>3, SMTT(30) DEF TypeOK, Streams
<1>11. CASE Snapshot
    BY <1>11 DEF Snapshot, TypeOK, Streams
<1>12. CASE ReturnResync
    BY <1>12 DEF ReturnResync, Return, TypeOK, Streams
<1>13. CASE DeliverPending
    <2>1. Head(pending) \in Nat /\ pending' \in Seq(Nat) /\ Deliver(Head(pending))
        BY <1>13, SMTT(30) DEF DeliverPending, TypeOK
    <2> DEFINE i == Head(pending)
    <2>2. /\ applied' = i /\ base' = i
          /\ mirror' \in [Keys -> Nat]
          /\ ret' \in {"event", "decode"}
          /\ holder' = None /\ pc' = "idle" /\ cur' = None
          /\ ctx' = ctx \ {holder}
          /\ UNCHANGED <<waiting, mirrorStr, mirrorFrom, mirrorSnap, mirrorEnd, prevEnd>>
        BY <2>1, DeliverFacts
    <2>3. UNCHANGED <<serverVars, streams, opened, streamMuVars, resync, cause, bootVars>>
        BY <1>13 DEF DeliverPending
    <2> QED
        BY <2>1, <2>2, <2>3, SMTT(30) DEF TypeOK, Streams
<1>14. CASE LoadStream
    BY <1>14 DEF LoadStream, TypeOK, Streams
<1>15. CASE NoStream
    BY <1>15, SMTT(30) DEF NoStream, Return, TypeOK, Streams
<1>16. CASE Receive
    <2>1. DOMAIN str' = DOMAIN str /\ str' \in [DOMAIN str -> StreamRecord]
        BY <1>16, TakeFacts DEF Receive
    <2> DEFINE i == str[cur].pos + 1
    <2>2. i \in Nat /\ Deliver(i)
        BY <1>16 DEF Receive, TypeOK, StreamRecord
    <2> HIDE DEF i
    <2>3. /\ applied' = i /\ base' = i
          /\ mirror' \in [Keys -> Nat]
          /\ ret' \in {"event", "decode"}
          /\ holder' = None /\ pc' = "idle" /\ cur' = None
          /\ ctx' = ctx \ {holder}
          /\ UNCHANGED <<waiting, mirrorStr, mirrorFrom, mirrorSnap, mirrorEnd, prevEnd>>
        BY <2>2, DeliverFacts
    <2>4. UNCHANGED <<made, serverVars, opened, streamMuVars, nextMuVars, bootVars>>
        BY <1>16 DEF Receive
    <2> QED
        BY <2>1, <2>2, <2>3, <2>4, SMTT(30) DEF TypeOK, Streams
<1>17. CASE ReturnCancelled
    BY <1>17 DEF ReturnCancelled, Return, TypeOK, Streams
<1>18. CASE StreamEnded
    BY <1>18 DEF StreamEnded, TypeOK, Streams
<1>19a. \A s \in DOMAIN str : str[s].why \in {"eof", "lost", None}
    BY DEF TypeOK, StreamRecord
<1>19. CASE RecordCause
    <2>1. cause' \in {"eof", "lost", "closed", None}
        BY <1>19, <1>19a DEF RecordCause, TypeOK
    <2> QED
        BY <1>19, <2>1, SMTT(30) DEF RecordCause, Return, TypeOK, Streams
<1>20. CASE DropStream
    BY <1>20 DEF DropStream, Shut, TypeOK, Streams
<1>21. CASE WaitBegin
    BY <1>21 DEF WaitBegin, TypeOK, Streams
<1>22. CASE BackoffOver
    BY <1>22 DEF BackoffOver, TypeOK, Streams
<1>23. CASE Collect
    <2>1. boot \in DOMAIN str
        BY <1>23 DEF Collect, OwnerInv, Bootstrapping, TypeOK, Streams
    <2>2. DOMAIN str' = DOMAIN str /\ str' \in [DOMAIN str -> StreamRecord]
        BY <1>23, <2>1, TakeFacts DEF Collect
    <2>3. buffered' \in Seq(Nat)
        BY <1>23, <2>1, SMTT(30) DEF Collect, TypeOK, StreamRecord
    <2> QED
        BY <1>23, <2>2, <2>3, SMTT(30) DEF Collect, TypeOK, Streams
<1>24. CASE CollectorFailed
    <2>1. boot \in DOMAIN str
        BY <1>24 DEF CollectorFailed, OwnerInv, Bootstrapping, TypeOK, Streams
    <2>2. DOMAIN str' = DOMAIN str /\ str' \in [DOMAIN str -> StreamRecord]
        <3>1. CASE UNCHANGED str
            BY <3>1 DEF TypeOK
        <3>2. CASE str' = Take(boot)
            BY <2>1, <3>2, TakeFacts
        <3> QED
            BY <1>24, <3>1, <3>2 DEF CollectorFailed
    <2> QED
        BY <1>24, <2>2, SMTT(30) DEF CollectorFailed, TypeOK, Streams
<1>25. CASE StopFailed
    <2>1. BootstrapFailed(failure) /\ failure \in {"retryable", "lost"}
        BY <1>25 DEF StopFailed, TypeOK, Streams
    <2>2. DOMAIN str' \subseteq DOMAIN str /\ str' \in [DOMAIN str' -> StreamRecord]
        BY <1>25, ShutFacts DEF StopFailed
    <2>3. /\ boot' = None /\ bootFrom' = 0 /\ buffered' = <<>>
          /\ snapshot' = 0 /\ failure' = "none"
          /\ waiting' = waiting
          /\ holder' \in Callers \cup {None}
          /\ ctx' \subseteq Callers
          /\ pc' \in {"idle", "wait"}
          /\ cur' \in {cur, None}
          /\ ret' \in {ret, "openFailed", "fatal", "lost"}
        BY <2>1, BootstrapFailedFacts
    <2>4. UNCHANGED <<made, serverVars, opened, streamMuVars, nextMuVars,
                      mirrorVars, endVars, base>>
        BY <1>25 DEF StopFailed
    <2> QED
        BY <2>2, <2>3, <2>4, SMTT(30) DEF TypeOK, Streams
<1>26. CASE Construct
    <2>1. mirror' \in [Keys -> Nat]
        <3>1. pc = "stop"
            BY <1>26 DEF Construct
        <3>2. states[snapshot + 1] \in [Keys -> Nat]
            BY <3>1, SnapshotTaken
        <3> QED
            BY <1>26, <3>2 DEF Construct, Adopt
    <2>2. mirrorEnd' \in {"eof", "lost", None}
        BY <1>26, <1>19a DEF Construct, Adopt, TypeOK
    <2> QED
        BY <1>26, <2>1, <2>2, SMTT(30) DEF Construct, Adopt, BootstrapOver, Return, TypeOK, Streams
<1>27. CASE InstallRefused
    BY <1>27 DEF InstallRefused, Shut, BootstrapOver, Return, TypeOK, Streams
<1>28. CASE Install
    BY <1>28 DEF Install, TypeOK, Streams
<1>29. CASE Replace
    <2>1. mirror' \in [Keys -> Nat]
        <3>1. pc = "replace"
            BY <1>29 DEF Replace
        <3>2. states[snapshot + 1] \in [Keys -> Nat]
            BY <3>1, SnapshotTaken
        <3> QED
            BY <1>29, <3>2 DEF Replace, Adopt
    <2>2. mirrorEnd' \in {"eof", "lost", None}
        BY <1>29, <1>19a DEF Replace, Adopt, TypeOK
    <2> QED
        BY <1>29, <2>1, <2>2, SMTT(30) DEF Replace, Adopt, BootstrapOver, TypeOK, Streams
<1>30. CASE WaitClosed
    BY <1>30 DEF WaitClosed, Return, TypeOK, Streams
<1>31. CASE CloseStream
    BY <1>31, SMTT(30) DEF CloseStream, Shut, TypeOK, Streams
<1>32. CASE UNCHANGED vars
    BY <1>32, SMTT(30) DEF vars, TypeOK, Streams
<1> QED
    BY <1>1, <1>2, <1>3, <1>4, <1>5, <1>6, <1>7, <1>8, <1>9, <1>10, <1>11, <1>12, <1>13, <1>14, <1>15, <1>16, <1>17, <1>18, <1>19, <1>20, <1>21, <1>22, <1>23, <1>24, <1>25, <1>26, <1>27, <1>28, <1>29, <1>30, <1>31, <1>32 DEF Next, Environment, Exchanges, ClientSteps

-----------------------------------------------------------------------------
(* The log *)

USE DEF vars

\* Only the server's Emit changes the log and the states it stands for.
LEMMA LogFrame ==
    [Next]_vars => \/ \E line \in Lines : Emit(line)
                   \/ UNCHANGED <<log, states>>
<1> SUFFICES ASSUME [Next]_vars, ~\E line \in Lines : Emit(line)
             PROVE  UNCHANGED <<log, states>>
    OBVIOUS
<1>1. CASE Environment
    BY <1>1 DEF Environment, BreakStream, OpenSession, Cancel, CallNext, CloseBegin
<1>2. CASE Exchanges
    BY <1>2 DEF Exchanges, Subscribe, Snapshot, SubscribeFailed, SnapshotFailed
<1>3. CASE ClientSteps
    BY <1>3 DEF ClientSteps, ReturnResync, DeliverPending, LoadStream, NoStream,
                Receive, ReturnCancelled, StreamEnded, RecordCause, DropStream,
                WaitBegin, BackoffOver, Collect, CollectorFailed, StopFailed,
                Construct, InstallRefused, Install, Replace
<1>4. CASE WaitClosed \/ CloseStream \/ \E c \in Callers : Lock(c)
    BY <1>4 DEF WaitClosed, CloseStream, Lock
<1> QED
    BY <1>1, <1>2, <1>3, <1>4 DEF Next

\* What an Emit adds.
LEMMA EmitFacts ==
    ASSUME TypeOK, LogInv, NEW line \in Lines, Emit(line)
    PROVE  /\ Len(log) \in Nat
           /\ Len(log') = Len(log) + 1
           /\ Len(states') = Len(log) + 2
           /\ log'[Len(log) + 1] = line
           /\ \A i \in 1..Len(log) : log'[i] = log[i]
           /\ \A i \in 1..(Len(log) + 1) : states'[i] = states[i]
           /\ \A k \in Keys : states'[Len(log) + 2][k] =
                 IF k = line THEN Len(log) + 1 ELSE states[Len(log) + 1][k]
<1> DEFINE n == Len(log)
           new == [k \in Keys |-> IF k = line THEN n + 1 ELSE states[n + 1][k]]
<1>1. n \in Nat /\ Len(states) = n + 1
    BY DEF TypeOK, LogInv
<1>2. log' = Append(log, line) /\ states' = Append(states, new)
    BY DEF Emit
<1> HIDE DEF new
<1>3. Len(log') = n + 1 /\ log'[n + 1] = line /\ \A i \in 1..n : log'[i] = log[i]
    BY <1>1, <1>2 DEF TypeOK
<1>4. /\ Len(states') = n + 2
      /\ states'[n + 2] = new
      /\ \A i \in 1..(n + 1) : states'[i] = states[i]
    BY <1>1, <1>2, SMTT(30) DEF TypeOK
<1> QED
    BY <1>1, <1>3, <1>4 DEF new

\* The server's states stay those its log describes.
LEMMA StepLog == IInv /\ [Next]_vars => LogInv'
<1> SUFFICES ASSUME TypeOK, LogInv, [Next]_vars PROVE LogInv'
    BY DEF IInv
<1>1. ASSUME NEW line \in Lines, Emit(line) PROVE LogInv'
    <2> DEFINE n == Len(log)
    <2>1. /\ n \in Nat
          /\ Len(log') = n + 1
          /\ Len(states') = n + 2
          /\ log'[n + 1] = line
          /\ \A i \in 1..n : log'[i] = log[i]
          /\ \A i \in 1..(n + 1) : states'[i] = states[i]
          /\ \A k \in Keys : states'[n + 2][k] =
                IF k = line THEN n + 1 ELSE states[n + 1][k]
        BY <1>1, EmitFacts
    <2> HIDE DEF n
    <2>2. ASSUME NEW i \in 1..(n + 1), log'[i] \in Keys
          PROVE  states'[i + 1][log'[i]] = i
        <3>1. CASE i = n + 1
            BY <2>1, <2>2, <3>1
        <3>2. CASE i \in 1..n
            BY <2>1, <2>2, <3>2, SMTT(30) DEF LogInv, n
        <3> QED
            BY <2>1, <3>1, <3>2
    <2>3. ASSUME NEW k \in Keys, NEW a \in 0..(n + 1), NEW b \in 0..(n + 1), a <= b,
                 \A i \in (a + 1)..b : log'[i] # k
          PROVE  states'[a + 1][k] = states'[b + 1][k]
        <3>1. CASE b <= n
            <4>1. \A i \in (a + 1)..b : log[i] # k
                BY <2>1, <2>3, <3>1
            <4>2. states[a + 1][k] = states[b + 1][k]
                BY <2>1, <2>3, <3>1, <4>1 DEF LogInv, n
            <4> QED
                BY <2>1, <2>3, <3>1, <4>2
        <3>2. CASE a = b
            BY <3>2
        <3>3. CASE b = n + 1 /\ a <= n
            <4>1. \A i \in (a + 1)..n : log[i] # k
                BY <2>1, <2>3, <3>3
            <4>2. states[a + 1][k] = states[n + 1][k]
                BY <2>1, <3>3, <4>1 DEF LogInv, n
            <4>3. log'[n + 1] # k
                BY <2>1, <2>3, <3>3
            <4> QED
                BY <2>1, <3>3, <4>2, <4>3
        <3> QED
            BY <2>1, <2>3, <3>1, <3>2, <3>3
    <2> QED
        BY <2>1, <2>2, <2>3 DEF LogInv
<1>2. CASE UNCHANGED <<log, states>>
    BY <1>2 DEF LogInv
<1> QED
    BY <1>1, <1>2, LogFrame

-----------------------------------------------------------------------------
(* The streams *)

\* The ways a step can change the streams; only Emit changes the log as well.
LEMMA StreamFrame ==
    ASSUME OwnerInv, [Next]_vars
    PROVE  \/ \E line \in Lines : Emit(line)
           \/ \E s \in DOMAIN str, why \in {"eof", "lost"} : BreakStream(s, why)
           \/ Subscribe
           \/ UNCHANGED <<log, str>>
           \/ \E s : str' = Shut(s) /\ UNCHANGED log
           \/ \E s \in DOMAIN str : HasLine(s) /\ str' = Take(s) /\ UNCHANGED log
<1>1. CASE Environment
    BY <1>1 DEF Environment, OpenSession, Cancel, CallNext, CloseBegin
<1>2. CASE Exchanges
    BY <1>2 DEF Exchanges, Snapshot, SubscribeFailed, SnapshotFailed
<1>3. CASE Receive \/ Collect \/ CollectorFailed
    <2>1. Collect \/ CollectorFailed => boot \in DOMAIN str
        BY DEF Collect, CollectorFailed, OwnerInv, Bootstrapping
    <2>2. CASE Receive
        BY <2>2 DEF Receive
    <2>3. CASE Collect
        BY <2>1, <2>3 DEF Collect
    <2>4. CASE CollectorFailed
        BY <2>1, <2>4 DEF CollectorFailed
    <2> QED
        BY <1>3, <2>2, <2>3, <2>4
<1>4. CASE DropStream \/ StopFailed \/ InstallRefused \/ CloseStream
    BY <1>4 DEF DropStream, StopFailed, InstallRefused, CloseStream
<1>5. CASE \/ ReturnResync \/ DeliverPending \/ LoadStream \/ NoStream
           \/ ReturnCancelled \/ StreamEnded \/ RecordCause \/ WaitBegin
           \/ BackoffOver \/ Construct \/ Install \/ Replace \/ WaitClosed
           \/ \E c \in Callers : Lock(c)
    BY <1>5 DEF ReturnResync, DeliverPending, LoadStream, NoStream, ReturnCancelled,
                StreamEnded, RecordCause, WaitBegin, BackoffOver, Construct, Install,
                Replace, WaitClosed, Lock
<1> QED
    BY <1>1, <1>2, <1>3, <1>4, <1>5 DEF Next, ClientSteps

\* Streams stay positioned between their start and the end of the log.
LEMMA StepStream == IInv /\ [Next]_vars => StreamInv'
<1> SUFFICES ASSUME TypeOK, LogInv, StreamInv, OwnerInv, [Next]_vars PROVE StreamInv'
    BY DEF IInv
<1> USE NamesAssumption
<1>0. /\ Len(log) \in Nat
      /\ \A s \in DOMAIN str : /\ str[s].pos \in Nat
                               /\ str[s].end \in Nat \cup {None}
    BY DEF TypeOK, StreamRecord
<1>1. ASSUME NEW line \in Lines, Emit(line) PROVE StreamInv'
    <2>1. Len(log') = Len(log) + 1 /\ UNCHANGED str
        BY <1>1, EmitFacts DEF Emit
    <2> QED
        BY <1>0, <2>1 DEF StreamInv
<1>2. ASSUME NEW s \in DOMAIN str, NEW why \in {"eof", "lost"}, BreakStream(s, why)
      PROVE  StreamInv'
    <2>1. PICK last \in str[s].pos..Len(log) :
              /\ last \in Nat
              /\ DOMAIN str' = DOMAIN str
              /\ str'[s].pos = str[s].pos
              /\ str'[s].end = last
              /\ str'[s].why = why
              /\ \A t \in DOMAIN str : t # s => str'[t] = str[t]
        BY <1>2, BreakFacts
    <2>2. UNCHANGED log
        BY <1>2 DEF BreakStream
    <2> QED
        BY <1>0, <2>1, <2>2 DEF StreamInv
<1>3. CASE Subscribe
    <2>1. /\ DOMAIN str' = DOMAIN str \cup {made'}
          /\ str'[made'] = [pos |-> Len(log), end |-> None, why |-> None]
          /\ \A t \in DOMAIN str : str'[t] = str[t]
        BY <1>3, SubscribeFacts
    <2>2. UNCHANGED log
        BY <1>3 DEF Subscribe
    <2> QED
        BY <1>0, <2>1, <2>2 DEF StreamInv
<1>4. CASE UNCHANGED <<log, str>>
    BY <1>4 DEF StreamInv
<1>5. ASSUME NEW s, str' = Shut(s), UNCHANGED log PROVE StreamInv'
    <2>1. /\ DOMAIN str' = DOMAIN str \ {s}
          /\ \A t \in DOMAIN str \ {s} : str'[t] = str[t]
        BY <1>5, ShutFacts
    <2> QED
        BY <1>5, <2>1 DEF StreamInv
<1>6. ASSUME NEW s \in DOMAIN str, HasLine(s), str' = Take(s), UNCHANGED log
      PROVE  StreamInv'
    <2>1. /\ DOMAIN str' = DOMAIN str
          /\ str'[s].pos = str[s].pos + 1
          /\ \A t \in DOMAIN str : /\ t # s => str'[t] = str[t]
                                   /\ str'[t].end = str[t].end
                                   /\ str'[t].why = str[t].why
        BY <1>6, TakeFacts
    <2> QED
        BY <1>0, <1>6, <2>1 DEF StreamInv, HasLine
<1> QED
    BY <1>1, <1>2, <1>3, <1>4, <1>5, <1>6, StreamFrame

-----------------------------------------------------------------------------
(* Who owns the streams *)

\* Every step hands the streams it touches to somebody who will close them.
LEMMA StepOwner == IInv /\ [Next]_vars => OwnerInv'
<1> SUFFICES ASSUME TypeOK, OwnerInv, [Next]_vars PROVE OwnerInv'
    BY DEF IInv
<1> USE NamesAssumption
<1>0. None \notin DOMAIN str
    BY DEF TypeOK, Streams
<1>1. ASSUME NEW line \in Lines, Emit(line) PROVE OwnerInv'
    BY <1>1, <1>0 DEF Emit, OwnerInv, NoOrphanStream, Bootstrapping,
       Reconnecting
<1>2. ASSUME NEW s \in DOMAIN str, NEW why \in {"eof", "lost"}, BreakStream(s, why)
      PROVE  OwnerInv'
    <2>1. DOMAIN str' = DOMAIN str
        BY <1>2, BreakFacts
    <2> QED
        BY <1>2, <1>0, <2>1 DEF BreakStream, OwnerInv, NoOrphanStream,
           Bootstrapping, Reconnecting
<1>3. ASSUME NEW err \in {"retryable", "fatal"}, SubscribeFailed(err) PROVE OwnerInv'
    BY <1>3, <1>0 DEF SubscribeFailed, BootstrapFailed, BootstrapOver,
       Return, OwnerInv, NoOrphanStream, Bootstrapping, Reconnecting
<1>4. ASSUME NEW err \in {"retryable", "fatal"}, SnapshotFailed(err) PROVE OwnerInv'
    <2>1. /\ DOMAIN str' = DOMAIN str \ {boot}
        BY <1>4, ShutFacts DEF SnapshotFailed
    <2> QED
        BY <1>4, <1>0, <2>1 DEF SnapshotFailed, BootstrapFailed,
           BootstrapOver, Return, OwnerInv, NoOrphanStream,
           Bootstrapping, Reconnecting
<1>5. CASE CloseBegin
    BY <1>5, <1>0 DEF CloseBegin, OwnerInv, NoOrphanStream, Bootstrapping,
       Reconnecting
<1>6. CASE Subscribe
    <2>1. /\ DOMAIN str' = DOMAIN str \cup {made'}
          /\ made' = made + 1
        BY <1>6, SubscribeFacts
    <2>2. /\ made' \notin DOMAIN str /\ made' # None
          /\ made' # mirrorStr /\ made' # closing /\ made' # stream
        BY <2>1, SMTT(30) DEF TypeOK, Streams
    <2> QED
        BY <1>6, <1>0, <2>1, <2>2 DEF Subscribe, OwnerInv, NoOrphanStream,
           Bootstrapping, Reconnecting
<1>7. CASE Snapshot
    BY <1>7, <1>0 DEF Snapshot, OwnerInv, NoOrphanStream, Bootstrapping,
       Reconnecting
<1>8. CASE ReturnResync
    BY <1>8, <1>0 DEF ReturnResync, Return, OwnerInv, NoOrphanStream,
       Bootstrapping, Reconnecting
<1>9. CASE DeliverPending
    BY <1>9, <1>0 DEF DeliverPending, Return, Deliver, OwnerInv,
       NoOrphanStream, Bootstrapping, Reconnecting
<1>10. CASE Receive
    <2>1. DOMAIN str' = DOMAIN str
        BY <1>10, TakeFacts DEF Receive
    <2> QED
        BY <1>10, <1>0, <2>1 DEF Receive, Return, Deliver, OwnerInv,
           NoOrphanStream, Bootstrapping, Reconnecting
<1>11. CASE RecordCause
    BY <1>11, <1>0 DEF RecordCause, Return, OwnerInv, NoOrphanStream,
       Bootstrapping, Reconnecting
<1>12. CASE DropStream
    <2>1. /\ DOMAIN str' = DOMAIN str \ {stream}
        BY <1>12, ShutFacts DEF DropStream
    <2> QED
        BY <1>12, <1>0, <2>1 DEF DropStream, OwnerInv, NoOrphanStream,
           Bootstrapping, Reconnecting
<1>13. CASE Collect
    <2>1. boot \in DOMAIN str
        BY <1>13 DEF Collect, OwnerInv, Bootstrapping
    <2>2. DOMAIN str' = DOMAIN str
        BY <1>13, <2>1, TakeFacts DEF Collect
    <2> QED
        BY <1>13, <1>0, <2>2 DEF Collect, OwnerInv, NoOrphanStream,
           Bootstrapping, Reconnecting
<1>14. CASE CollectorFailed
    <2>1. boot \in DOMAIN str
        BY <1>14 DEF CollectorFailed, OwnerInv, Bootstrapping
    <2>2. DOMAIN str' = DOMAIN str
        BY <1>14, <2>1, TakeFacts DEF CollectorFailed
    <2> QED
        BY <1>14, <1>0, <2>2 DEF CollectorFailed, OwnerInv,
           NoOrphanStream, Bootstrapping, Reconnecting
<1>15. CASE StopFailed
    <2>1. /\ DOMAIN str' = DOMAIN str \ {boot}
        BY <1>15, ShutFacts DEF StopFailed
    <2> QED
        BY <1>15, <1>0, <2>1 DEF StopFailed, BootstrapFailed,
           BootstrapOver, Return, OwnerInv, NoOrphanStream,
           Bootstrapping, Reconnecting
<1>16. CASE Construct
    BY <1>16, <1>0 DEF Construct, Adopt, BootstrapOver, Return, OwnerInv,
       NoOrphanStream, Bootstrapping, Reconnecting
<1>17. CASE InstallRefused
    <2>1. /\ DOMAIN str' = DOMAIN str \ {boot}
        BY <1>17, ShutFacts DEF InstallRefused
    <2> QED
        BY <1>17, <1>0, <2>1 DEF InstallRefused, BootstrapOver, Return,
           OwnerInv, NoOrphanStream, Bootstrapping, Reconnecting
<1>18. CASE Install
    BY <1>18, <1>0 DEF Install, OwnerInv, NoOrphanStream, Bootstrapping,
       Reconnecting
<1>19. CASE Replace
    BY <1>19, <1>0 DEF Replace, Adopt, BootstrapOver, OwnerInv,
       NoOrphanStream, Bootstrapping, Reconnecting
<1>20. CASE CloseStream
    <2>1. /\ DOMAIN str' = DOMAIN str \ {closing}
        BY <1>20, ShutFacts DEF CloseStream
    <2> QED
        BY <1>20, <1>0, <2>1 DEF CloseStream, OwnerInv, NoOrphanStream,
           Bootstrapping, Reconnecting
<1>21. CASE (\E c \in Callers : OpenSession(c)) \/ (\E c \in Callers :
            Cancel(c)) \/ (\E c \in Callers : CallNext(c)) \/ (\E c \in Callers
            : Lock(c))
    <2>1. PICK c \in Callers : OpenSession(c) \/ Cancel(c) \/ CallNext(c) \/ Lock(c)
        BY <1>21
    <2>2. CASE OpenSession(c)
        BY <1>0, <2>2 DEF OpenSession, OwnerInv, NoOrphanStream, Bootstrapping,
                          Reconnecting
    <2>3. CASE Cancel(c)
        BY <1>0, <2>3 DEF Cancel, OwnerInv, NoOrphanStream, Bootstrapping,
                          Reconnecting
    <2>4. CASE CallNext(c)
        BY <1>0, <2>4 DEF CallNext, OwnerInv, NoOrphanStream, Bootstrapping,
                          Reconnecting
    <2>5. CASE Lock(c)
        BY <1>0, <2>5 DEF Lock, OwnerInv, NoOrphanStream, Bootstrapping,
                          Reconnecting
    <2> QED
        BY <2>1, <2>2, <2>3, <2>4, <2>5
<1>22. CASE LoadStream \/ NoStream \/ ReturnCancelled \/ StreamEnded \/
            WaitBegin \/ BackoffOver \/ WaitClosed
    BY <1>22, <1>0 DEF LoadStream, NoStream, ReturnCancelled, StreamEnded,
       WaitBegin, BackoffOver, WaitClosed, Return, OwnerInv,
       NoOrphanStream, Bootstrapping, Reconnecting
<1>23. CASE UNCHANGED vars
    BY <1>23, <1>0 DEF OwnerInv, NoOrphanStream, Bootstrapping, Reconnecting
<1> QED
    BY <1>1, <1>2, <1>3, <1>4, <1>5, <1>6, <1>7, <1>8, <1>9, <1>10, <1>11,
       <1>12, <1>13, <1>14, <1>15, <1>16, <1>17, <1>18, <1>19, <1>20, <1>21,
       <1>22, <1>23
    DEF Next, Environment, Exchanges, ClientSteps

-----------------------------------------------------------------------------
(* What comes next *)

\* The pending events and the mirror's stream stay contiguous: what is taken
\* next follows what was applied last.
LEMMA StepFeed == IInv /\ [Next]_vars => FeedInv'
<1> SUFFICES ASSUME TypeOK, LogInv, OwnerInv, FeedInv, [Next]_vars PROVE FeedInv'
    BY DEF IInv
<1> USE NamesAssumption
<1>0. /\ Len(log) \in Nat /\ applied \in Nat /\ bootFrom \in Nat /\ snapshot \in Nat
      /\ pending \in Seq(Nat) /\ buffered \in Seq(Nat)
      /\ Len(pending) \in Nat /\ Len(buffered) \in Nat
      /\ \A s \in DOMAIN str : str[s].pos \in Nat
    BY DEF TypeOK, StreamRecord
<1>1. ASSUME NEW line \in Lines, Emit(line) PROVE FeedInv'
    <2>1. Len(log') = Len(log) + 1
        BY <1>1, EmitFacts
    <2> QED
        BY <1>1, <1>0, <2>1 DEF Emit, FeedInv, NothingLost, OwnerInv,
           Bootstrapping, Reconnecting
<1>2. ASSUME NEW c \in Callers, OpenSession(c) PROVE FeedInv'
    BY <1>2, <1>0 DEF OpenSession, FeedInv, NothingLost, OwnerInv,
       Bootstrapping, Reconnecting
<1>3. ASSUME NEW c \in Callers, Lock(c) PROVE FeedInv'
    BY <1>3, <1>0 DEF Lock, FeedInv, NothingLost, OwnerInv, Bootstrapping,
       Reconnecting
<1>4. ASSUME NEW s \in DOMAIN str, NEW why \in {"eof", "lost"}, BreakStream(s, why)
      PROVE  FeedInv'
    <2>1. DOMAIN str' = DOMAIN str /\ \A t \in DOMAIN str : str'[t].pos = str[t].pos
        BY <1>4, BreakFacts
    <2> QED
        BY <1>4, <1>0, <2>1 DEF BreakStream, FeedInv, NothingLost,
           OwnerInv, Bootstrapping, Reconnecting
<1>5. ASSUME NEW err \in {"retryable", "fatal"}, SubscribeFailed(err) PROVE FeedInv'
    BY <1>5, <1>0 DEF SubscribeFailed, BootstrapFailed, BootstrapOver,
       Return, FeedInv, NothingLost, OwnerInv, Bootstrapping, Reconnecting
<1>6. ASSUME NEW err \in {"retryable", "fatal"}, SnapshotFailed(err) PROVE FeedInv'
    <2>1. /\ DOMAIN str' = DOMAIN str \ {boot}
          /\ \A t \in DOMAIN str \ {boot} : str'[t] = str[t]
        BY <1>6, ShutFacts DEF SnapshotFailed
    <2> QED
        BY <1>6, <1>0, <2>1 DEF SnapshotFailed, BootstrapFailed,
           BootstrapOver, Return, FeedInv, NothingLost, OwnerInv,
           Bootstrapping, Reconnecting
<1>7. CASE CloseBegin
    BY <1>7, <1>0 DEF CloseBegin, FeedInv, NothingLost, OwnerInv,
       Bootstrapping, Reconnecting
<1>8. CASE Subscribe
    <2>1. /\ DOMAIN str' = DOMAIN str \cup {made'}
          /\ str'[made'].pos = Len(log)
          /\ \A t \in DOMAIN str : str'[t] = str[t]
          /\ made' = made + 1
        BY <1>8, SubscribeFacts
    <2>2. made' # mirrorStr /\ boot = None
        BY <1>8, <2>1 DEF Subscribe, TypeOK, Streams, OwnerInv, Bootstrapping
    <2> QED
        BY <1>8, <1>0, <2>1, <2>2 DEF Subscribe, FeedInv, NothingLost,
           OwnerInv, Bootstrapping, Reconnecting
<1>9. CASE Snapshot
    BY <1>9, <1>0 DEF Snapshot, FeedInv, NothingLost, OwnerInv,
       Bootstrapping, Reconnecting
<1>10. CASE ReturnResync
    BY <1>10, <1>0 DEF ReturnResync, Return, FeedInv, NothingLost, OwnerInv,
       Bootstrapping, Reconnecting
<1>11. CASE DeliverPending
    <2>1. /\ applied' = Head(pending) /\ pending' = Tail(pending) /\ pc' = "idle"
          /\ UNCHANGED <<serverVars, str, opened, bootVars, mirrorStr>>
          /\ pc = "loop" /\ pending # <<>>
        BY <1>11 DEF DeliverPending, Deliver, Return
    <2>2. /\ Len(pending') = Len(pending) - 1
          /\ \A j \in 1..Len(pending') : pending'[j] = pending[j + 1]
          /\ Head(pending) = pending[1] /\ Len(pending) > 0
        BY <1>0, <2>1
    <2>3. applied' = applied + 1
        BY <1>0, <2>1, <2>2 DEF FeedInv
    <2>4. \A j \in 1..Len(pending') : pending'[j] = applied' + j
        BY <1>0, <2>2, <2>3, SMTT(30) DEF FeedInv
    <2>5. applied' + Len(pending') = applied + Len(pending)
        BY <1>0, <2>2, <2>3
    <2>6. pc' = "idle" /\ UNCHANGED <<log, str, opened, bootVars, mirrorStr>>
        BY <2>1
    <2> QED
        BY <1>0, <2>4, <2>5, <2>6 DEF FeedInv, NothingLost
<1>12. CASE LoadStream
    BY <1>12, <1>0 DEF LoadStream, FeedInv, NothingLost, OwnerInv,
       Bootstrapping, Reconnecting
<1>13. CASE Receive
    <2>1. /\ cur \in DOMAIN str /\ cur = mirrorStr /\ pending = <<>> /\ opened
          /\ str[cur].pos < Len(log) /\ boot = None
        BY <1>13 DEF Receive, HasLine, FeedInv, NothingLost, OwnerInv,
           Bootstrapping, Reconnecting
    <2>2. /\ DOMAIN str' = DOMAIN str
          /\ str'[cur].pos = str[cur].pos + 1
          /\ \A t \in DOMAIN str : t # cur => str'[t] = str[t]
        BY <1>13, <2>1, TakeFacts DEF Receive
    <2>3. /\ applied' = str[cur].pos + 1 /\ pc' = "idle"
          /\ UNCHANGED <<serverVars, opened, bootVars, pending, mirrorStr>>
        BY <1>13 DEF Receive, Deliver, Return
    <2> QED
        BY <1>0, <2>1, <2>2, <2>3 DEF FeedInv, NothingLost, OwnerInv,
           Bootstrapping, Reconnecting
<1>14. CASE DropStream
    <2>1. /\ DOMAIN str' = DOMAIN str \ {stream}
          /\ \A t \in DOMAIN str \ {stream} : str'[t] = str[t]
        BY <1>14, ShutFacts DEF DropStream
    <2> QED
        BY <1>14, <1>0, <2>1 DEF DropStream, FeedInv, NothingLost,
           OwnerInv, Bootstrapping, Reconnecting
<1>15. CASE Collect
    <2>1. boot \in DOMAIN str /\ boot # None /\ boot # mirrorStr
        BY <1>15 DEF Collect, OwnerInv, Bootstrapping
    <2>2. /\ DOMAIN str' = DOMAIN str
          /\ str'[boot].pos = str[boot].pos + 1
          /\ \A t \in DOMAIN str : t # boot => str'[t] = str[t]
        BY <1>15, <2>1, TakeFacts DEF Collect
    <2>3. /\ Len(buffered') = Len(buffered) + 1
          /\ buffered'[Len(buffered) + 1] = str[boot].pos + 1
          /\ \A j \in 1..Len(buffered) : buffered'[j] = buffered[j]
        BY <1>15, <1>0 DEF Collect
    <2>4. bootFrom + Len(buffered) = str[boot].pos /\ str[boot].pos < Len(log)
        BY <1>15, <2>1 DEF Collect, HasLine, FeedInv
    <2>5. \A j \in 1..Len(buffered') : buffered'[j] = bootFrom + j
        <3>1. ASSUME NEW j \in 1..Len(buffered) PROVE buffered'[j] = bootFrom + j
            BY <2>3, <3>1 DEF FeedInv
        <3>2. buffered'[Len(buffered) + 1] = bootFrom + (Len(buffered) + 1)
            BY <1>0, <2>1, <2>3, <2>4
        <3>3. \A j \in 1..Len(buffered') : j \in 1..Len(buffered) \/ j = Len(buffered) + 1
            BY <1>0, <2>3
        <3> QED
            BY <3>1, <3>2, <3>3
    <2>6. /\ UNCHANGED <<log, opened, pending, mirrorVars, pc, boot, bootFrom, snapshot,
                         failure>>
          /\ pc \in {"collect", "stop"}
        BY <1>15 DEF Collect
    <2> QED
        BY <1>0, <2>1, <2>2, <2>3, <2>4, <2>5, <2>6 DEF FeedInv, NothingLost
<1>16. CASE CollectorFailed
    <2>1. boot \in DOMAIN str /\ boot # None /\ boot # mirrorStr
        BY <1>16 DEF CollectorFailed, OwnerInv, Bootstrapping
    <2>2. DOMAIN str' = DOMAIN str /\ \A t \in DOMAIN str : t # boot => str'[t] = str[t]
        <3>1. CASE UNCHANGED str
            BY <3>1
        <3>2. CASE str' = Take(boot)
            BY <2>1, <3>2, TakeFacts
        <3> QED
            BY <1>16, <3>1, <3>2 DEF CollectorFailed
    <2>3. failure' # "none" /\ pc \in {"collect", "stop"}
        BY <1>16 DEF CollectorFailed
    <2>4. UNCHANGED <<log, opened, pending, mirrorVars, pc, boot, bootFrom, buffered,
                      snapshot>>
        BY <1>16 DEF CollectorFailed
    <2> QED
        BY <1>0, <2>1, <2>2, <2>3, <2>4 DEF FeedInv, NothingLost,
           OwnerInv, Bootstrapping, Reconnecting
<1>17. CASE StopFailed
    <2>1. /\ DOMAIN str' = DOMAIN str \ {boot}
          /\ \A t \in DOMAIN str \ {boot} : str'[t] = str[t]
        BY <1>17, ShutFacts DEF StopFailed
    <2> QED
        BY <1>17, <1>0, <2>1 DEF StopFailed, BootstrapFailed,
           BootstrapOver, Return, FeedInv, NothingLost, OwnerInv,
           Bootstrapping, Reconnecting
<1>18. CASE Construct
    <2>1. /\ boot # None /\ failure = "none"
          /\ applied' = bootFrom /\ pending' = buffered /\ mirrorStr' = boot
          /\ boot' = None /\ buffered' = <<>> /\ bootFrom' = 0
          /\ pc' \in {"idle", "loop"}
          /\ UNCHANGED <<log, str>>
        BY <1>18 DEF Construct, Adopt, BootstrapOver, Return, FeedInv,
           NothingLost, OwnerInv, Bootstrapping, Reconnecting
    <2> QED
        BY <1>0, <2>1 DEF FeedInv, NothingLost, OwnerInv, Bootstrapping,
           Reconnecting
<1>19. CASE InstallRefused
    <2>1. /\ DOMAIN str' = DOMAIN str \ {boot}
          /\ \A t \in DOMAIN str \ {boot} : str'[t] = str[t]
        BY <1>19, ShutFacts DEF InstallRefused
    <2> QED
        BY <1>19, <1>0, <2>1 DEF InstallRefused, BootstrapOver, Return,
           FeedInv, NothingLost, OwnerInv, Bootstrapping, Reconnecting
<1>20. CASE Install
    BY <1>20, <1>0 DEF Install, FeedInv, NothingLost, OwnerInv,
       Bootstrapping, Reconnecting
<1>21. CASE Replace
    <2>1. /\ boot # None /\ failure = "none"
          /\ applied' = bootFrom /\ pending' = buffered /\ mirrorStr' = boot
          /\ boot' = None /\ buffered' = <<>> /\ bootFrom' = 0
          /\ pc' \in {"idle", "loop"}
          /\ UNCHANGED <<log, str>>
        BY <1>21 DEF Replace, Adopt, BootstrapOver, Return, FeedInv,
           NothingLost, OwnerInv, Bootstrapping, Reconnecting
    <2> QED
        BY <1>0, <2>1 DEF FeedInv, NothingLost, OwnerInv, Bootstrapping,
           Reconnecting
<1>22. CASE CloseStream
    <2>1. /\ DOMAIN str' = DOMAIN str \ {closing}
          /\ \A t \in DOMAIN str \ {closing} : str'[t] = str[t]
        BY <1>22, ShutFacts DEF CloseStream
    <2> QED
        BY <1>22, <1>0, <2>1 DEF CloseStream, FeedInv, NothingLost,
           OwnerInv, Bootstrapping, Reconnecting
<1>23. CASE (\E c \in Callers : Cancel(c)) \/ (\E c \in Callers : CallNext(c))
    <2>1. UNCHANGED <<log, str, opened, nextMuVars, mirrorVars, pc, bootVars>>
        BY <1>23 DEF Cancel, CallNext
    <2> QED
        BY <2>1 DEF FeedInv, NothingLost
<1>24. CASE NoStream \/ ReturnCancelled \/ StreamEnded \/ WaitBegin \/
            BackoffOver \/ WaitClosed \/ RecordCause
    BY <1>24, <1>0 DEF NoStream, ReturnCancelled, StreamEnded, WaitBegin,
       BackoffOver, WaitClosed, RecordCause, Return,
       FeedInv, NothingLost, OwnerInv, Bootstrapping, Reconnecting
<1>25. CASE UNCHANGED vars
    BY <1>25, <1>0 DEF FeedInv, NothingLost, OwnerInv, Bootstrapping,
       Reconnecting
<1> QED
    BY <1>1, <1>2, <1>3, <1>4, <1>5, <1>6, <1>7, <1>8, <1>9, <1>10, <1>11,
       <1>12, <1>13, <1>14, <1>15, <1>16, <1>17, <1>18, <1>19, <1>20, <1>21,
       <1>22, <1>23, <1>24, <1>25
    DEF Next, Environment, Exchanges, ClientSteps

-----------------------------------------------------------------------------
(* The mirror *)

\* A step that leaves the mirror and its history alone keeps MirrorInv.
LEMMA MirrorFrame ==
    [Next]_vars => \/ \E line \in Lines : Emit(line)
                   \/ DeliverPending \/ Receive \/ Construct \/ Replace
                   \/ UNCHANGED <<log, states, mirrorVars>>
<1> SUFFICES ASSUME [Next]_vars,
                    ~(\E line \in Lines : Emit(line)),
                    ~(DeliverPending \/ Receive \/ Construct \/ Replace)
             PROVE  UNCHANGED <<log, states, mirrorVars>>
    OBVIOUS
<1>1. CASE Environment
    BY <1>1 DEF Environment, BreakStream, OpenSession, Cancel, CallNext, CloseBegin
<1>2. CASE Exchanges
    BY <1>2 DEF Exchanges, Subscribe, Snapshot, SubscribeFailed, SnapshotFailed
<1>3. CASE ClientSteps
    BY <1>3 DEF ClientSteps, ReturnResync, LoadStream, NoStream, ReturnCancelled,
                StreamEnded, RecordCause, DropStream, WaitBegin, BackoffOver, Collect,
                CollectorFailed, StopFailed, InstallRefused, Install
<1>4. CASE WaitClosed \/ CloseStream \/ \E c \in Callers : Lock(c)
    BY <1>4 DEF WaitClosed, CloseStream, Lock
<1> QED
    BY <1>1, <1>2, <1>3, <1>4 DEF Next

\* Delivering the next event keeps the mirror's description.
LEMMA DeliverMirror ==
    ASSUME TypeOK, LogInv, MirrorInv, applied < Len(log), Deliver(applied + 1),
           UNCHANGED <<log, states>>
    PROVE  MirrorInv'
<1> DEFINE n == applied + 1
<1>1. /\ applied \in Nat /\ n \in Nat /\ n \in 1..Len(log) /\ Len(log) \in Nat
      /\ mirrorFrom \in Nat /\ mirrorSnap \in Nat
      /\ mirror \in [Keys -> Nat]
    BY SMTT(30) DEF TypeOK
<1>2. /\ applied' = n
      /\ log[n] \in Keys => mirror' = [mirror EXCEPT ![log[n]] = n]
      /\ log[n] \notin Keys => mirror' = mirror
      /\ UNCHANGED <<mirrorFrom, mirrorSnap>>
    BY <1>1, DeliverFacts
<1>3. mirrorFrom <= applied /\ mirrorFrom <= mirrorSnap /\ mirrorSnap <= Len(log)
    BY DEF MirrorInv
<1>4. ASSUME NEW k \in Keys
      PROVE  mirror'[k] = IF \E i \in (mirrorFrom + 1)..n : log[i] = k
                          THEN states[n + 1][k] ELSE states[mirrorSnap + 1][k]
    <2>1. CASE log[n] = k
        <3>1. \E i \in (mirrorFrom + 1)..n : log[i] = k
            BY <1>1, <1>3, <2>1
        <3>2. states[n + 1][k] = n
            BY <1>1, <2>1 DEF LogInv
        <3> QED
            BY <1>1, <1>2, <2>1, <3>1, <3>2
    <2>2. CASE log[n] # k
        <3>1. mirror'[k] = mirror[k]
            BY <1>1, <1>2, <2>2
        <3>2. states[applied + 1][k] = states[n + 1][k]
            <4>1. applied \in 0..Len(log) /\ n \in 0..Len(log) /\ applied <= n
                BY <1>1
            <4>2. \A i \in (applied + 1)..n : log[i] # k
                BY <1>1, <2>2
            <4> QED
                BY <4>1, <4>2 DEF LogInv
        <3>3. (\E i \in (mirrorFrom + 1)..n : log[i] = k)
                 <=> (\E i \in (mirrorFrom + 1)..applied : log[i] = k)
            BY <1>1, <2>2
        <3> QED
            BY <3>1, <3>2, <3>3 DEF MirrorInv
    <2> QED
        BY <2>1, <2>2
<1> QED
    BY <1>1, <1>2, <1>3, <1>4 DEF MirrorInv

\* Every step keeps the mirror the record of the snapshot and the events
\* applied since.
LEMMA StepMirror == IInv /\ [Next]_vars => MirrorInv'
<1> SUFFICES ASSUME TypeOK, LogInv, OwnerInv, FeedInv, MirrorInv, [Next]_vars
             PROVE  MirrorInv'
    BY DEF IInv
<1>0. /\ Len(log) \in Nat /\ applied \in Nat /\ mirrorFrom \in Nat /\ mirrorSnap \in Nat
      /\ bootFrom \in Nat /\ snapshot \in Nat /\ Len(pending) \in Nat
      /\ pending \in Seq(Nat)
      /\ applied + Len(pending) <= Len(log)
    BY SMTT(30) DEF TypeOK, FeedInv
<1>1. ASSUME NEW line \in Lines, Emit(line) PROVE MirrorInv'
    <2>1. /\ Len(log') = Len(log) + 1
          /\ \A i \in 1..Len(log) : log'[i] = log[i]
          /\ \A i \in 1..(Len(log) + 1) : states'[i] = states[i]
        BY <1>1, EmitFacts
    <2>2. UNCHANGED mirrorVars
        BY <1>1 DEF Emit
    <2>3. applied <= Len(log) /\ mirrorSnap <= Len(log)
        BY <1>0 DEF MirrorInv
    <2>4. states'[applied + 1] = states[applied + 1]
        BY <1>0, <2>1, <2>3
    <2>5. states'[mirrorSnap + 1] = states[mirrorSnap + 1]
        BY <1>0, <2>1, <2>3
    <2>6. \A i \in (mirrorFrom + 1)..applied : log'[i] = log[i]
        BY <1>0, <2>1, <2>3
    <2> QED
        BY <1>0, <2>1, <2>2, <2>4, <2>5, <2>6, SMTT(30) DEF MirrorInv
<1>2. CASE DeliverPending
    <2>1. Deliver(Head(pending)) /\ pending # <<>> /\ UNCHANGED <<log, states>>
        BY <1>2 DEF DeliverPending
    <2>2. Len(pending) > 0 /\ Head(pending) = pending[1]
        BY <1>0, <2>1
    <2>3. Head(pending) = applied + 1 /\ applied < Len(log)
        BY <1>0, <2>2 DEF FeedInv
    <2> QED
        BY <2>1, <2>3, DeliverMirror
<1>3. CASE Receive
    <2>1. /\ cur \in DOMAIN str /\ cur = mirrorStr /\ opened /\ pending = <<>>
          /\ str[cur].pos < Len(log)
          /\ Deliver(str[cur].pos + 1)
          /\ UNCHANGED <<log, states>>
        BY <1>3 DEF Receive, HasLine, OwnerInv, FeedInv
    <2>2. str[cur].pos = applied
        BY <1>0, <2>1 DEF FeedInv, NothingLost, TypeOK, StreamRecord
    <2> QED
        BY <2>1, <2>2, DeliverMirror
<1>4. CASE Construct \/ Replace
    <2>1. Adopt /\ UNCHANGED <<log, states>> /\ pc \in {"stop", "replace"}
        BY <1>4 DEF Construct, Replace
    <2>2. bootFrom <= snapshot /\ snapshot <= Len(log)
        BY <2>1 DEF FeedInv
    <2>3. /\ mirror' = states[snapshot + 1] /\ mirrorSnap' = snapshot
          /\ mirrorFrom' = bootFrom /\ applied' = bootFrom
        BY <2>1 DEF Adopt
    <2>4. \A i \in (bootFrom + 1)..bootFrom : FALSE
        BY <1>0
    <2> QED
        BY <1>0, <2>1, <2>2, <2>3, <2>4 DEF MirrorInv
<1>5. CASE UNCHANGED <<log, states, mirrorVars>>
    BY <1>5 DEF MirrorInv
<1> QED
    BY <1>1, <1>2, <1>3, <1>4, <1>5, MirrorFrame

-----------------------------------------------------------------------------
(* The cause of a resync *)

\* The reason a stream ended reaches Session.cause and the resync built from it.
LEMMA StepCause == IInv /\ [Next]_vars => CauseInv'
<1> SUFFICES ASSUME TypeOK, StreamInv, OwnerInv, CauseInv, ToldInv, [Next]_vars
             PROVE  CauseInv'
    BY DEF IInv
<1> USE NamesAssumption
<1>1. ASSUME NEW line \in Lines, Emit(line) PROVE CauseInv'
    BY <1>1 DEF Emit, CauseInv, ResyncCarriesCause, OwnerInv, Bootstrapping,
       Reconnecting
<1>2. ASSUME NEW c \in Callers, OpenSession(c) PROVE CauseInv'
    BY <1>2 DEF OpenSession, CauseInv, ResyncCarriesCause, OwnerInv,
       Bootstrapping, Reconnecting
<1>3. ASSUME NEW c \in Callers, Cancel(c) PROVE CauseInv'
    BY <1>3 DEF Cancel, CauseInv, ResyncCarriesCause, OwnerInv,
       Bootstrapping, Reconnecting
<1>4. ASSUME NEW c \in Callers, CallNext(c) PROVE CauseInv'
    BY <1>4 DEF CallNext, CauseInv, ResyncCarriesCause, OwnerInv,
       Bootstrapping, Reconnecting
<1>5. ASSUME NEW c \in Callers, Lock(c) PROVE CauseInv'
    BY <1>5 DEF Lock, CauseInv, ResyncCarriesCause, OwnerInv, Bootstrapping,
       Reconnecting
<1>6. ASSUME NEW s \in DOMAIN str, NEW why \in {"eof", "lost"}, BreakStream(s, why)
      PROVE  CauseInv'
    <2>1. /\ DOMAIN str' = DOMAIN str
          /\ str'[s].why = why
          /\ \A t \in DOMAIN str : t # s => str'[t] = str[t]
        BY <1>6, BreakFacts
    <2>2. str[s].why = None /\ mirrorEnd' = IF s = mirrorStr THEN why ELSE mirrorEnd
        BY <1>6 DEF BreakStream, StreamInv
    <2>3. UNCHANGED <<resync, prevEnd, mirrorStr, pc, cur, opened, stream, closed, cause>>
        BY <1>6 DEF BreakStream
    <2> QED
        BY <2>1, <2>2, <2>3 DEF CauseInv, ResyncCarriesCause, OwnerInv,
           Bootstrapping, Reconnecting
<1>7. ASSUME NEW err \in {"retryable", "fatal"}, SubscribeFailed(err) PROVE CauseInv'
    BY <1>7 DEF SubscribeFailed, BootstrapFailed, BootstrapOver, Return,
       CauseInv, ResyncCarriesCause, OwnerInv, Bootstrapping, Reconnecting
<1>8. ASSUME NEW err \in {"retryable", "fatal"}, SnapshotFailed(err) PROVE CauseInv'
    <2>1. /\ DOMAIN str' = DOMAIN str \ {boot}
          /\ \A t \in DOMAIN str \ {boot} : str'[t] = str[t]
        BY <1>8, ShutFacts DEF SnapshotFailed
    <2> QED
        BY <1>8, <2>1 DEF SnapshotFailed, BootstrapFailed,
           BootstrapOver, Return, CauseInv, ResyncCarriesCause,
           OwnerInv, Bootstrapping, Reconnecting
<1>9. CASE CloseBegin
    BY <1>9 DEF CloseBegin, CauseInv, ResyncCarriesCause, OwnerInv,
       Bootstrapping, Reconnecting
<1>10. CASE Subscribe
    <2>1. /\ DOMAIN str' = DOMAIN str \cup {made'}
          /\ \A t \in DOMAIN str : str'[t] = str[t]
          /\ made' = made + 1
        BY <1>10, SubscribeFacts
    <2>2. made' # mirrorStr /\ made' # cur
        BY <2>1, SMTT(30) DEF TypeOK, Streams
    <2> QED
        BY <1>10, <2>1, <2>2 DEF Subscribe, CauseInv,
           ResyncCarriesCause, OwnerInv, Bootstrapping, Reconnecting
<1>11. CASE Snapshot
    BY <1>11 DEF Snapshot, CauseInv, ResyncCarriesCause, OwnerInv,
       Bootstrapping, Reconnecting
<1>12. CASE ReturnResync
    BY <1>12 DEF ReturnResync, Return, CauseInv, ResyncCarriesCause,
       OwnerInv, Bootstrapping, Reconnecting
<1>13. CASE DeliverPending
    <2>1. /\ pc = "loop" /\ pc' = "idle"
          /\ UNCHANGED <<str, resync, prevEnd, mirrorStr, mirrorEnd, opened, stream, closed,
                         cause>>
        BY <1>13 DEF DeliverPending, Deliver, Return
    <2> QED
        BY <2>1 DEF CauseInv, ResyncCarriesCause, OwnerInv,
           Bootstrapping, Reconnecting
<1>14. CASE LoadStream
    BY <1>14 DEF LoadStream, CauseInv, ResyncCarriesCause, OwnerInv,
       Bootstrapping, Reconnecting
<1>15. CASE NoStream
    BY <1>15 DEF NoStream, Return, CauseInv, ResyncCarriesCause, OwnerInv,
       Bootstrapping, Reconnecting
<1>16. CASE Receive
    <2>1. /\ DOMAIN str' = DOMAIN str
          /\ \A t \in DOMAIN str : str'[t].why = str[t].why
        BY <1>16, TakeFacts DEF Receive
    <2>2. /\ pc = "recv" /\ pc' = "idle"
          /\ UNCHANGED <<resync, prevEnd, mirrorStr, mirrorEnd, opened, stream, closed, cause>>
        BY <1>16 DEF Receive, Deliver, Return
    <2> QED
        BY <2>1, <2>2 DEF CauseInv, ResyncCarriesCause, OwnerInv,
           Bootstrapping, Reconnecting
<1>17. CASE ReturnCancelled
    BY <1>17 DEF ReturnCancelled, Return, CauseInv, ResyncCarriesCause,
       OwnerInv, Bootstrapping, Reconnecting
<1>18. CASE StreamEnded
    <2>1. cur \in DOMAIN str => str[cur].why # None
        BY <1>18 DEF StreamEnded, AtEnd, StreamInv
    <2> QED
        BY <1>18, <2>1 DEF StreamEnded, CauseInv, ResyncCarriesCause,
           OwnerInv, Bootstrapping, Reconnecting
<1>19. CASE RecordCause
    <2>1. CASE closed
        BY <1>19, <2>1 DEF RecordCause, Return, CauseInv,
           ResyncCarriesCause, OwnerInv, Bootstrapping, Reconnecting
    <2>2. CASE ~closed
        <3>1. cur \in DOMAIN str /\ cur = mirrorStr /\ stream = cur /\ cur # None
            BY <1>19, <2>2 DEF RecordCause, OwnerInv
        <3>2. cause' = mirrorEnd /\ mirrorEnd # None /\ pc' = "drop"
            BY <1>19, <2>2, <3>1 DEF RecordCause, CauseInv
        <3>3. UNCHANGED <<str, resync, prevEnd, mirrorStr, mirrorEnd, opened, stream, closed>>
            BY <1>19 DEF RecordCause
        <3> QED
            BY <3>1, <3>2, <3>3 DEF CauseInv, ResyncCarriesCause,
               OwnerInv, Bootstrapping, Reconnecting
    <2> QED
        BY <2>1, <2>2
<1>20. CASE DropStream
    <2>1. /\ DOMAIN str' = DOMAIN str \ {stream}
          /\ \A t \in DOMAIN str \ {stream} : str'[t] = str[t]
        BY <1>20, ShutFacts DEF DropStream
    <2> QED
        BY <1>20, <2>1 DEF DropStream, CauseInv, ResyncCarriesCause,
           OwnerInv, Bootstrapping, Reconnecting
<1>21. CASE Collect
    <2>1. boot \in DOMAIN str
        BY <1>21 DEF Collect, OwnerInv, Bootstrapping
    <2>2. /\ DOMAIN str' = DOMAIN str
          /\ \A t \in DOMAIN str : str'[t].why = str[t].why
        <3>1. CASE UNCHANGED str
            BY <3>1
        <3>2. CASE str' = Take(boot)
            BY <2>1, <3>2, TakeFacts
        <3> QED
            BY <1>21, <3>1, <3>2 DEF Collect
    <2>3. /\ pc \in {"collect", "stop"}
          /\ UNCHANGED <<resync, prevEnd, mirrorStr, mirrorEnd, pc, cur, opened, stream,
                         closed, cause>>
        BY <1>21 DEF Collect
    <2> QED
        BY <2>2, <2>3 DEF CauseInv, ResyncCarriesCause, OwnerInv,
           Bootstrapping, Reconnecting
<1>22. CASE CollectorFailed
    <2>1. boot \in DOMAIN str
        BY <1>22 DEF CollectorFailed, OwnerInv, Bootstrapping
    <2>2. /\ DOMAIN str' = DOMAIN str
          /\ \A t \in DOMAIN str : str'[t].why = str[t].why
        <3>1. CASE UNCHANGED str
            BY <3>1
        <3>2. CASE str' = Take(boot)
            BY <2>1, <3>2, TakeFacts
        <3> QED
            BY <1>22, <3>1, <3>2 DEF CollectorFailed
    <2>3. /\ pc \in {"collect", "stop"}
          /\ UNCHANGED <<resync, prevEnd, mirrorStr, mirrorEnd, pc, cur, opened, stream,
                         closed, cause>>
        BY <1>22 DEF CollectorFailed
    <2> QED
        BY <2>2, <2>3 DEF CauseInv, ResyncCarriesCause, OwnerInv,
           Bootstrapping, Reconnecting
<1>23. CASE StopFailed
    <2>1. /\ DOMAIN str' = DOMAIN str \ {boot}
          /\ \A t \in DOMAIN str \ {boot} : str'[t] = str[t]
        BY <1>23, ShutFacts DEF StopFailed
    <2> QED
        BY <1>23, <2>1 DEF StopFailed, BootstrapFailed, BootstrapOver,
           Return, CauseInv, ResyncCarriesCause, OwnerInv,
           Bootstrapping, Reconnecting
<1>24. CASE Construct
    <2>1. /\ boot \in DOMAIN str /\ boot # None /\ resync = None
          /\ stream' = boot /\ ~closed /\ pc' = "idle"
          /\ mirrorStr' = boot /\ mirrorEnd' = str[boot].why
          /\ UNCHANGED <<resync, closed, str>>
        BY <1>24 DEF Construct, Adopt, Return, ToldInv, OwnerInv, Bootstrapping
    <2> QED
        BY <2>1 DEF CauseInv, ResyncCarriesCause, Reconnecting
<1>25. CASE InstallRefused
    <2>1. /\ DOMAIN str' = DOMAIN str \ {boot}
          /\ \A t \in DOMAIN str \ {boot} : str'[t] = str[t]
        BY <1>25, ShutFacts DEF InstallRefused
    <2> QED
        BY <1>25, <2>1 DEF InstallRefused, BootstrapOver, Return,
           CauseInv, ResyncCarriesCause, OwnerInv, Bootstrapping,
           Reconnecting
<1>26. CASE Install
    BY <1>26 DEF Install, CauseInv, ResyncCarriesCause, OwnerInv,
       Bootstrapping, Reconnecting
<1>27. CASE Replace
    <2>1. /\ opened /\ cause = mirrorEnd /\ cause # None /\ boot # None
          /\ stream = None => closed
        BY <1>27 DEF Replace, CauseInv, OwnerInv
    <2>2. /\ resync' = cause /\ prevEnd' = mirrorEnd /\ pc' = "loop"
          /\ mirrorStr' = boot
          /\ mirrorEnd' = IF boot \in DOMAIN str THEN str[boot].why ELSE None
          /\ UNCHANGED <<str, opened, stream, closed>>
        BY <1>27, <2>1 DEF Replace, Adopt
    <2> QED
        BY <2>1, <2>2 DEF CauseInv, ResyncCarriesCause, Reconnecting
<1>28. CASE CloseStream
    <2>1. /\ DOMAIN str' = DOMAIN str \ {closing}
          /\ \A t \in DOMAIN str \ {closing} : str'[t] = str[t]
        BY <1>28, ShutFacts DEF CloseStream
    <2> QED
        BY <1>28, <2>1 DEF CloseStream, CauseInv, ResyncCarriesCause,
           OwnerInv, Bootstrapping, Reconnecting
<1>29. CASE WaitBegin \/ BackoffOver \/ WaitClosed
    BY <1>29 DEF WaitBegin, BackoffOver, WaitClosed, Return, CauseInv,
       ResyncCarriesCause, OwnerInv, Bootstrapping, Reconnecting
<1>30. CASE UNCHANGED vars
    BY <1>30 DEF CauseInv, ResyncCarriesCause, OwnerInv, Bootstrapping,
       Reconnecting
<1> QED
    BY <1>1, <1>2, <1>3, <1>4, <1>5, <1>6, <1>7, <1>8, <1>9, <1>10, <1>11,
       <1>12, <1>13, <1>14, <1>15, <1>16, <1>17, <1>18, <1>19, <1>20, <1>21,
       <1>22, <1>23, <1>24, <1>25, <1>26, <1>27, <1>28, <1>29, <1>30
    DEF Next, Environment, Exchanges, ClientSteps

-----------------------------------------------------------------------------
(* What the caller was told *)

\* What the caller was told stays at or behind what the mirror took in.
LEMMA StepTold == IInv /\ [Next]_vars => ToldInv'
<1> SUFFICES ASSUME TypeOK, OwnerInv, FeedInv, ToldInv, [Next]_vars PROVE ToldInv'
    BY DEF IInv
<1> USE NamesAssumption
<1>0. /\ base \in Nat /\ applied \in Nat /\ bootFrom \in Nat /\ mirrorFrom \in Nat
      /\ Len(log) \in Nat /\ applied <= Len(log)
    BY SMTT(30) DEF TypeOK, FeedInv
<1>1. ASSUME NEW line \in Lines, Emit(line) PROVE ToldInv'
    BY <1>1, <1>0 DEF Emit, ToldInv, OwnerInv, Bootstrapping, Reconnecting
<1>2. ASSUME NEW c \in Callers, OpenSession(c) PROVE ToldInv'
    BY <1>2, <1>0 DEF OpenSession, ToldInv, OwnerInv, Bootstrapping,
       Reconnecting
<1>3. ASSUME NEW c \in Callers, Cancel(c) PROVE ToldInv'
    BY <1>3, <1>0 DEF Cancel, ToldInv, OwnerInv, Bootstrapping, Reconnecting
<1>4. ASSUME NEW c \in Callers, CallNext(c) PROVE ToldInv'
    BY <1>4, <1>0 DEF CallNext, ToldInv, OwnerInv, Bootstrapping, Reconnecting
<1>5. ASSUME NEW c \in Callers, Lock(c) PROVE ToldInv'
    BY <1>5, <1>0 DEF Lock, ToldInv, OwnerInv, Bootstrapping, Reconnecting
<1>6. ASSUME NEW s \in DOMAIN str, NEW why \in {"eof", "lost"}, BreakStream(s, why)
      PROVE  ToldInv'
    BY <1>6, <1>0 DEF BreakStream, ToldInv, OwnerInv, Bootstrapping,
       Reconnecting
<1>7. ASSUME NEW err \in {"retryable", "fatal"}, SubscribeFailed(err) PROVE ToldInv'
    BY <1>7, <1>0 DEF SubscribeFailed, BootstrapFailed, BootstrapOver,
       Return, ToldInv, OwnerInv, Bootstrapping, Reconnecting
<1>8. ASSUME NEW err \in {"retryable", "fatal"}, SnapshotFailed(err) PROVE ToldInv'
    BY <1>8, <1>0 DEF SnapshotFailed, BootstrapFailed, BootstrapOver,
       Return, ToldInv, OwnerInv, Bootstrapping, Reconnecting
<1>9. CASE Subscribe
    <2>1. base <= Len(log)
        BY <1>0 DEF ToldInv
    <2> QED
        BY <1>9, <1>0, <2>1 DEF Subscribe, ToldInv, OwnerInv,
           Bootstrapping, Reconnecting
<1>10. CASE ReturnResync
    BY <1>10, <1>0 DEF ReturnResync, Return, ToldInv, OwnerInv,
       Bootstrapping, Reconnecting
<1>11. CASE DeliverPending
    <2>1. /\ pc = "loop" /\ resync = None /\ pc' = "idle"
          /\ applied' = Head(pending) /\ base' = Head(pending) /\ pending # <<>>
          /\ UNCHANGED <<resync, mirrorFrom, boot, bootFrom, opened>>
        BY <1>11, SMTT(30) DEF DeliverPending, Deliver, Return
    <2>2. pending \in Seq(Nat) /\ pending # <<>>
        BY <2>1 DEF TypeOK
    <2>3. Head(pending) \in Nat
        BY <2>2
    <2> QED
        BY <2>1, <2>3 DEF ToldInv, OwnerInv, Bootstrapping, Reconnecting
<1>12. CASE LoadStream
    BY <1>12, <1>0 DEF LoadStream, ToldInv, OwnerInv, Bootstrapping,
       Reconnecting
<1>13. CASE NoStream
    BY <1>13, <1>0 DEF NoStream, Return, ToldInv, OwnerInv, Bootstrapping,
       Reconnecting
<1>14. CASE Receive
    <2>1. /\ pc = "recv" /\ pc' = "idle" /\ str[cur].pos + 1 \in Nat
          /\ applied' = str[cur].pos + 1 /\ base' = str[cur].pos + 1
          /\ UNCHANGED <<resync, mirrorFrom, boot, bootFrom, opened>>
        BY <1>14, SMTT(30) DEF Receive, Deliver, Return, TypeOK, StreamRecord
    <2> QED
        BY <2>1 DEF ToldInv, OwnerInv, Bootstrapping, Reconnecting
<1>15. CASE ReturnCancelled
    BY <1>15, <1>0 DEF ReturnCancelled, Return, ToldInv, OwnerInv,
       Bootstrapping, Reconnecting
<1>16. CASE RecordCause
    BY <1>16, <1>0 DEF RecordCause, Return, ToldInv, OwnerInv,
       Bootstrapping, Reconnecting
<1>17. CASE StopFailed
    BY <1>17, <1>0 DEF StopFailed, BootstrapFailed, BootstrapOver, Return,
       ToldInv, OwnerInv, Bootstrapping, Reconnecting
<1>18. CASE Construct
    <2>1. /\ resync = None /\ pc' = "idle" /\ boot' = None /\ opened'
          /\ applied' = bootFrom /\ base' = bootFrom
          /\ UNCHANGED resync
        BY <1>18 DEF Construct, Adopt, BootstrapOver, Return, ToldInv
    <2> QED
        BY <1>0, <2>1 DEF ToldInv
<1>19. CASE InstallRefused
    BY <1>19, <1>0 DEF InstallRefused, BootstrapOver, Return, ToldInv,
       OwnerInv, Bootstrapping, Reconnecting
<1>20. CASE Replace
    <2>1. /\ resync' # None /\ pc' = "loop" /\ boot' = None /\ opened'
          /\ applied' = bootFrom /\ mirrorFrom' = bootFrom /\ base <= bootFrom
          /\ UNCHANGED base
        BY <1>20 DEF Replace, Adopt, BootstrapOver, ToldInv, OwnerInv,
           Bootstrapping, Reconnecting
    <2> QED
        BY <1>0, <2>1 DEF ToldInv
<1>21. CASE WaitBegin \/ BackoffOver \/ WaitClosed \/ StreamEnded \/ Snapshot \/
            Collect \/ CollectorFailed \/ Install \/ DropStream \/ CloseStream
            \/ CloseBegin
    BY <1>21, <1>0 DEF WaitBegin, BackoffOver, WaitClosed, StreamEnded,
       Snapshot, Collect, CollectorFailed, Install, DropStream, CloseStream,
       CloseBegin, Return, ToldInv, OwnerInv, Bootstrapping, Reconnecting
<1>22. CASE UNCHANGED vars
    BY <1>22, <1>0 DEF ToldInv, OwnerInv, Bootstrapping, Reconnecting
<1> QED
    BY <1>1, <1>2, <1>3, <1>4, <1>5, <1>6, <1>7, <1>8, <1>9, <1>10, <1>11,
       <1>12, <1>13, <1>14, <1>15, <1>16, <1>17, <1>18, <1>19, <1>20, <1>21,
       <1>22
    DEF Next, Environment, Exchanges, ClientSteps

-----------------------------------------------------------------------------
(* The theorems *)

\* The inductive invariant holds before OpenSession.
LEMMA InitInv == Init => IInv
<1> SUFFICES ASSUME Init PROVE IInv
    OBVIOUS
<1>1. /\ DOMAIN str = {} /\ Len(log) = 0 /\ Len(states) = 1
      /\ Len(pending) = 0 /\ Len(buffered) = 0
    BY DEF Init
<1>2. TypeOK
    BY InitType
<1>3. LogInv
    BY <1>1 DEF LogInv, Init
<1>4. StreamInv
    BY <1>1 DEF StreamInv
<1>5. OwnerInv
    BY <1>1 DEF OwnerInv, NoOrphanStream, Bootstrapping, Reconnecting, Init
<1>6. FeedInv
    BY <1>1 DEF FeedInv, NothingLost, Init
<1>7. MirrorInv
    BY <1>1 DEF MirrorInv, Init
<1>8. CauseInv
    BY <1>1 DEF CauseInv, ResyncCarriesCause, Init
<1>9. ToldInv
    BY DEF ToldInv, Init
<1> QED
    BY <1>2, <1>3, <1>4, <1>5, <1>6, <1>7, <1>8, <1>9 DEF IInv

\* The inductive invariant holds in every reachable state of Session.
THEOREM Inductive == Spec => []IInv
<1>1. IInv /\ [Next]_vars => IInv'
    BY StepType, StepLog, StepStream, StepOwner, StepFeed, StepMirror, StepCause,
       StepTold DEF IInv
<1> QED
    BY InitInv, <1>1, PTL DEF Spec

\* Every variable keeps its type (TypeOK), whatever Next, Close, the collector
\* and the server do.
THEOREM TypeCorrect == Spec => []TypeOK
<1>1. IInv => TypeOK
    BY DEF IInv
<1> QED
    BY Inductive, <1>1, PTL

\* Every open connection has an owner that will close it: install refuses a
\* closed Session, a failed bootstrap and Close shut what they hold.
THEOREM EveryStreamOwned == Spec => []NoOrphanStream
<1>1. IInv => NoOrphanStream
    BY DEF IInv, OwnerInv
<1> QED
    BY Inductive, <1>1, PTL

\* No line taken from the mirror's stream is lost, by a cancelled Next or by a
\* collector that stop ended.
THEOREM NoLineLost == Spec => []NothingLost
<1>1. IInv => NothingLost
    BY DEF IInv, FeedInv
<1> QED
    BY Inductive, <1>1, PTL

\* Snapshot and replay converge: once the events applied reach the snapshot's
\* position, the mirror is the server's state at the last event applied.
THEOREM MirrorCorrect == Spec => []MirrorConverges
<1>1. ASSUME IInv, applied >= mirrorSnap PROVE mirror = states[applied + 1]
    <2>1. /\ applied \in Nat /\ mirrorSnap \in Nat /\ mirrorFrom \in Nat /\ Len(log) \in Nat
          /\ mirrorFrom <= mirrorSnap /\ mirrorSnap <= applied
          /\ Len(pending) \in Nat /\ applied + Len(pending) <= Len(log)
        BY <1>1, SMTT(30) DEF IInv, TypeOK, FeedInv, MirrorInv
    <2>2. applied + 1 \in 1..Len(states)
        BY <1>1, <2>1 DEF IInv, LogInv
    <2>3. mirror \in [Keys -> Nat] /\ states[applied + 1] \in [Keys -> Nat]
        BY <1>1, <2>2, SMTT(30) DEF IInv, TypeOK
    <2>4. ASSUME NEW k \in Keys PROVE mirror[k] = states[applied + 1][k]
        <3>1. CASE \E i \in (mirrorFrom + 1)..applied : log[i] = k
            BY <1>1, <3>1 DEF IInv, MirrorInv
        <3>2. CASE ~\E i \in (mirrorFrom + 1)..applied : log[i] = k
            <4>1. mirror[k] = states[mirrorSnap + 1][k]
                BY <1>1, <3>2 DEF IInv, MirrorInv
            <4>2. \A i \in (mirrorSnap + 1)..applied : log[i] # k
                BY <2>1, <3>2
            <4>3. mirrorSnap \in 0..Len(log) /\ applied \in 0..Len(log)
                BY <2>1
            <4>4. states[mirrorSnap + 1][k] = states[applied + 1][k]
                BY <1>1, <2>1, <4>2, <4>3 DEF IInv, LogInv
            <4> QED
                BY <4>1, <4>4
        <3> QED
            BY <3>1, <3>2
    <2> QED
        BY <2>3, <2>4
<1>2. IInv => MirrorConverges
    BY <1>1 DEF MirrorConverges
<1> QED
    BY Inductive, <1>2, PTL

\* The ResyncEvent carries the error that ended the previous stream, however
\* often reconnect was given up and resumed.
THEOREM ResyncCause == Spec => []ResyncCarriesCause
<1>1. IInv => ResyncCarriesCause
    BY DEF IInv, CauseInv
<1> QED
    BY Inductive, <1>1, PTL

\* What Next reports moves along the log by one event, and only a ResyncEvent
\* skips: an action property.
THEOREM NoGap == Spec => NoSilentGap
<1> DEFINE Told == \/ base' = base
                   \/ base' = base + 1
                   \/ ret' \in {"opened", "resync"} /\ base' >= base
<1>1. IInv /\ [Next]_vars => Told
    <2> SUFFICES ASSUME TypeOK, OwnerInv, FeedInv, ToldInv, [Next]_vars PROVE Told
        BY DEF IInv
    <2>0. /\ base \in Nat /\ applied \in Nat /\ mirrorFrom \in Nat /\ bootFrom \in Nat
          /\ pending \in Seq(Nat)
        BY DEF TypeOK
    <2>1. CASE ReturnResync
        <3>1. resync # None /\ base' = mirrorFrom /\ ret' = "resync"
            BY <2>1 DEF ReturnResync, Return
        <3> QED
            BY <2>0, <3>1 DEF ToldInv
    <2>2. CASE DeliverPending
        <3>1. resync = None /\ pending # <<>> /\ base' = Head(pending)
            BY <2>2 DEF DeliverPending, Deliver
        <3>2. Len(pending) > 0 /\ Len(pending) \in Nat /\ Head(pending) = pending[1]
            BY <2>0, <3>1
        <3>3. Head(pending) = applied + 1
            BY <3>2 DEF FeedInv
        <3> QED
            BY <3>1, <3>3 DEF ToldInv
    <2>3. CASE Receive
        <3>1. /\ cur \in DOMAIN str /\ cur = mirrorStr /\ opened /\ pending = <<>>
              /\ base' = str[cur].pos + 1 /\ pc = "recv"
            BY <2>3 DEF Receive, Deliver, OwnerInv, FeedInv
        <3>2. str[cur].pos = applied
            BY <2>0, <3>1 DEF FeedInv, NothingLost, TypeOK, StreamRecord
        <3> QED
            BY <3>1, <3>2 DEF ToldInv
    <2>4. CASE Construct
        <3>1. ret' = "opened" /\ base' = bootFrom /\ base = 0
            BY <2>4 DEF Construct, Return, ToldInv
        <3> QED
            BY <2>0, <3>1
    <2>5. CASE Environment
        BY <2>5 DEF Environment, Emit, BreakStream, OpenSession, Cancel, CallNext,
                    CloseBegin
    <2>6. CASE Exchanges
        BY <2>6 DEF Exchanges, Subscribe, Snapshot, SubscribeFailed, SnapshotFailed
    <2>7. CASE \/ LoadStream \/ NoStream \/ ReturnCancelled \/ StreamEnded
               \/ RecordCause \/ DropStream \/ WaitBegin \/ BackoffOver \/ Collect
               \/ CollectorFailed \/ StopFailed \/ InstallRefused \/ Install
               \/ Replace \/ WaitClosed \/ CloseStream \/ \E c \in Callers : Lock(c)
        BY <2>7 DEF LoadStream, NoStream, ReturnCancelled, StreamEnded, RecordCause,
                    DropStream, WaitBegin, BackoffOver, Collect, CollectorFailed,
                    StopFailed, InstallRefused, Install, Replace, WaitClosed,
                    CloseStream, Lock
    <2>8. CASE UNCHANGED vars
        BY <2>8
    <2> QED
        BY <2>1, <2>2, <2>3, <2>4, <2>5, <2>6, <2>7, <2>8 DEF Next, ClientSteps
<1> QED
    BY Inductive, <1>1, PTL DEF Spec, NoSilentGap

-----------------------------------------------------------------------------
(* Session implements LogReader *)

\* The goroutines in OpenSession or Next: the one that holds nextMu and those
\* that wait for it, of which it is not one.
Inside == waiting \cup ({holder} \ {None})
HolderInv == holder \notin waiting

\* A Next that waits for nextMu is not the one that holds it.
LEMMA StepHolder == IInv /\ HolderInv /\ [Next]_vars => HolderInv'
<1> SUFFICES ASSUME IInv, HolderInv, [Next]_vars PROVE HolderInv'
    OBVIOUS
<1> USE NamesAssumption DEF HolderInv
<1>0. None \notin waiting /\ (~opened => waiting = {})
    BY DEF IInv, TypeOK, OwnerInv
<1>1. ASSUME NEW value, waiting' = waiting, Return(value) PROVE HolderInv'
    BY <1>0, <1>1 DEF Return
<1>2. ASSUME NEW err, BootstrapFailed(err) PROVE HolderInv'
    BY <1>0, <1>2 DEF BootstrapFailed, Return
<1>3. CASE Environment
    <2>1. ASSUME NEW c \in Callers, CallNext(c) PROVE HolderInv'
        BY <2>1 DEF CallNext
    <2>2. ASSUME NEW c \in Callers, OpenSession(c) PROVE HolderInv'
        BY <1>0, <2>2 DEF OpenSession
    <2>3. ASSUME NEW c \in Callers, Cancel(c) PROVE HolderInv'
        BY <2>3 DEF Cancel
    <2>4. ASSUME UNCHANGED <<holder, waiting>> PROVE HolderInv'
        BY <2>4
    <2> QED
        BY <1>3, <2>1, <2>2, <2>3, <2>4 DEF Environment, Emit, BreakStream, CloseBegin
<1>4. CASE Exchanges
    BY <1>2, <1>4 DEF Exchanges, Subscribe, Snapshot, SubscribeFailed, SnapshotFailed
<1>5. CASE Receive \/ DeliverPending
    BY <1>0, <1>5 DEF Receive, DeliverPending, Deliver, Return
<1>6. CASE \/ ReturnResync \/ LoadStream \/ NoStream \/ ReturnCancelled \/ StreamEnded
           \/ RecordCause \/ DropStream \/ WaitBegin \/ BackoffOver \/ Collect
           \/ CollectorFailed \/ Construct \/ InstallRefused \/ Install
           \/ Replace \/ WaitClosed \/ CloseStream
    BY <1>0, <1>6 DEF ReturnResync, LoadStream, NoStream, ReturnCancelled, StreamEnded,
                RecordCause, DropStream, WaitBegin, BackoffOver, Collect,
                CollectorFailed, Construct, InstallRefused, Install, Replace,
                WaitClosed, CloseStream, Return
<1>7. CASE StopFailed
    BY <1>2, <1>7 DEF StopFailed
<1>8. CASE \E c \in Callers : Lock(c)
    BY <1>8 DEF Lock
<1>9. CASE UNCHANGED vars
    BY <1>9 DEF vars
<1> QED
    BY <1>3, <1>4, <1>5, <1>6, <1>7, <1>8, <1>9 DEF Next, ClientSteps

\* A return from Next or OpenSession is one from the reader.
LEMMA Returns ==
    ASSUME IInv, HolderInv, NEW value, pc # "idle", Return(value)
    PROVE  holder \in Callers /\ Promise!Return(holder, value)
BY NamesAssumption DEF IInv, TypeOK, OwnerInv, HolderInv, Return, Promise!Return

\* The mirror is what the reader is promised to see.
LEMMA MirrorReflects ==
    IInv => mirror = Promise!Reflection(mirrorFrom, mirrorSnap, applied)
BY DEF IInv, TypeOK, MirrorInv, Promise!Reflection

\* A failed bootstrap ends the call with an error that the reader may return,
\* or does not end it.
LEMMA FailedBootstrap ==
    ASSUME IInv, HolderInv, NEW err \in {"retryable", "fatal", "lost"},
           pc \in {"subscribe", "collect", "stop"},
           BootstrapFailed(err), UNCHANGED <<log, states, mirrorEnd, opened, closed, base,
               resync, mirrorFrom, mirrorSnap, mirror>>
    PROVE  \/ \E c \in Callers : Promise!Fail(c)
           \/ UNCHANGED Promise!vars
<1> USE DEF Promise!Fail, Promise!server, Promise!sight
<1>1. opened => mirrorEnd # None
    BY DEF IInv, CauseInv, Reconnecting
<1>2. CASE ~opened
    BY <1>2, Returns DEF BootstrapFailed
<1>3. CASE opened /\ err = "retryable"
    BY <1>3 DEF BootstrapFailed, BootstrapOver, Promise!vars, Promise!calls
<1>4. CASE opened /\ err # "retryable"
    BY <1>1, <1>4, Returns DEF BootstrapFailed
<1> QED
    BY <1>2, <1>3, <1>4

\* Applying the next event to the mirror and returning it is what the reader
\* is promised.
LEMMA Delivers ==
    ASSUME IInv, IInv', HolderInv, opened, resync = None, pc # "idle",
           applied < Len(log), Deliver(applied + 1),
           UNCHANGED <<log, states, opened, closed, resync>>
    PROVE  Promise!Deliver(holder)
<1>1. base = applied /\ base' = applied + 1 /\ applied' = base'
    BY DEF IInv, ToldInv, Deliver
<1>2. mirror' = Promise!Reflection(mirrorFrom, mirrorSnap, base')
    BY <1>1 DEF IInv, TypeOK, MirrorInv, Deliver, Promise!Reflection
<1>3. Promise!Return(holder, IF log[applied + 1] \in Keys THEN "event" ELSE "decode")
    BY Returns DEF Deliver
<1> QED
    BY <1>1, <1>2, <1>3 DEF Promise!Deliver, Promise!server, Deliver

\* A step of a Next, of a bootstrap, of a Close or of the server is a step of
\* the reader, or one that it does not see.
LEMMA StepReader ==
    IInv /\ HolderInv /\ [Next]_vars /\ IInv' => [Promise!Next]_(Promise!vars)
<1> SUFFICES ASSUME IInv, HolderInv, [Next]_vars, IInv'
             PROVE  Promise!Next \/ UNCHANGED Promise!vars
    OBVIOUS
<1> USE NamesAssumption DEF Promise!server, Promise!calls, Promise!sight, Promise!vars
<1>1. ASSUME NEW line \in Lines, Emit(line) PROVE Promise!Emit(line)
    BY <1>1 DEF Emit, Promise!Emit
<1>2. ASSUME NEW s \in DOMAIN str, NEW why \in {"eof", "lost"}, BreakStream(s, why)
      PROVE  Promise!Break(why) \/ UNCHANGED Promise!vars
    <2>1. s = mirrorStr => mirrorEnd = None
        BY <1>2 DEF BreakStream, IInv, StreamInv, CauseInv
    <2> QED
        BY <1>2, <2>1 DEF BreakStream, Promise!Break
<1>3. ASSUME NEW c \in Callers, OpenSession(c) PROVE Promise!Call(c)
    BY <1>3 DEF OpenSession, IInv, OwnerInv, Promise!Call
<1>4. ASSUME NEW c \in Callers, Cancel(c) PROVE Promise!Cancel(c)
    BY <1>4 DEF Cancel, Promise!Cancel
<1>5. ASSUME NEW c \in Callers, CallNext(c) PROVE Promise!Call(c)
    BY <1>5 DEF CallNext, Promise!Call
<1>6. ASSUME NEW c \in Callers, Lock(c) PROVE UNCHANGED Promise!vars
    BY <1>6 DEF Lock
<1>7. ASSUME CloseBegin PROVE Promise!Close
    BY <1>7 DEF CloseBegin, Promise!Close
<1>8. ASSUME ReturnResync PROVE Promise!Announce(holder)
    <2>1. Promise!Return(holder, "resync")
        BY <1>8, Returns DEF ReturnResync
    <2> QED
        BY <1>8, <2>1 DEF ReturnResync, Promise!Announce
<1>9. ASSUME DeliverPending PROVE Promise!Deliver(holder)
    <2>1. /\ Len(pending) \in Nat /\ Len(pending) > 0 /\ Head(pending) = pending[1]
          /\ applied \in Nat /\ Len(log) \in Nat
        <3>1. /\ pending \in Seq(Nat) /\ log \in Seq(Lines) /\ applied \in Nat
              /\ pending # <<>>
            BY <1>9 DEF DeliverPending, IInv, TypeOK
        <3> QED
            BY ONLY <3>1
    <2>2. Head(pending) = applied + 1 /\ applied < Len(log)
        BY <2>1 DEF IInv, FeedInv
    <2>3. opened
        BY <1>9 DEF DeliverPending, IInv, OwnerInv
    <2> QED
        BY <1>9, <2>2, <2>3, Delivers DEF DeliverPending
<1>10. ASSUME Receive PROVE Promise!Deliver(holder)
    <2>1. /\ cur \in DOMAIN str /\ cur = mirrorStr /\ opened /\ pending = <<>>
          /\ resync = None /\ pc = "recv"
        BY <1>10 DEF Receive, IInv, OwnerInv, FeedInv, ToldInv
    <2>2. str[cur].pos = applied
        <3>1. applied + Len(pending) = str[cur].pos
            BY <2>1 DEF IInv, FeedInv, NothingLost
        <3>2. Len(pending) = 0 /\ applied \in Nat
            BY <2>1 DEF IInv, TypeOK
        <3> QED
            BY <3>1, <3>2
    <2>3. applied < Len(log)
        BY <1>10, <2>2 DEF Receive, HasLine
    <2> QED
        BY <1>10, <2>1, <2>2, <2>3, Delivers DEF Receive
<1>11. ASSUME ReturnCancelled PROVE Promise!Fail(holder)
    <2>1. Promise!Return(holder, "ctx")
        BY <1>11, Returns DEF ReturnCancelled
    <2> QED
        BY <1>11, <2>1 DEF ReturnCancelled, Promise!Fail
<1>12. ASSUME pc # "idle", closed, Return("closed"),
              UNCHANGED <<log, states, mirrorEnd, opened, closed, base, resync,
                          mirrorFrom, mirrorSnap, mirror>>
       PROVE  holder \in Callers /\ Promise!Fail(holder)
    BY <1>12, Returns DEF Promise!Fail
<1>13. ASSUME NoStream \/ RecordCause \/ InstallRefused \/ WaitClosed
       PROVE  (\E c \in Callers : Promise!Fail(c)) \/ UNCHANGED Promise!vars
    <2>1. CASE closed
        BY <1>12, <1>13, <2>1 DEF NoStream, RecordCause, InstallRefused, WaitClosed
    <2>2. CASE ~closed
        BY <1>13, <2>2 DEF NoStream, RecordCause, InstallRefused, WaitClosed
    <2> QED
        BY <2>1, <2>2
<1>14. ASSUME NEW err \in {"retryable", "fatal"}, SubscribeFailed(err)
       PROVE  (\E c \in Callers : Promise!Fail(c)) \/ UNCHANGED Promise!vars
    BY <1>14, FailedBootstrap DEF SubscribeFailed
<1>15. ASSUME NEW err \in {"retryable", "fatal"}, SnapshotFailed(err)
       PROVE  (\E c \in Callers : Promise!Fail(c)) \/ UNCHANGED Promise!vars
    BY <1>15, FailedBootstrap DEF SnapshotFailed
<1>16. ASSUME StopFailed
       PROVE  (\E c \in Callers : Promise!Fail(c)) \/ UNCHANGED Promise!vars
    <2>1. failure \in {"retryable", "lost"}
        BY <1>16 DEF StopFailed, IInv, TypeOK
    <2> QED
        BY <1>16, <2>1, FailedBootstrap DEF StopFailed
\* What a bootstrap that succeeded brings is what the reader may look at.
<1>17. ASSUME Adopt, pc \in {"stop", "replace"}, base <= bootFrom, UNCHANGED <<log, states, str>>
       PROVE  Promise!Look
    <2>1. bootFrom <= snapshot /\ snapshot <= Len(log)
        BY <1>17 DEF IInv, FeedInv
    <2>2. bootFrom \in base..Len(log) /\ snapshot \in bootFrom..Len(log)
        <3>1. bootFrom \in Nat /\ snapshot \in Nat /\ base \in Nat /\ Len(log) \in Nat
            BY DEF IInv, TypeOK
        <3> QED
            BY <1>17, <2>1, <3>1
    <2>3. mirrorEnd' \in {None, "eof", "lost"}
        BY <1>17 DEF Adopt, IInv, TypeOK, StreamRecord
    <2> QED
        BY <1>17, <2>2, <2>3 DEF Adopt, Promise!Look
<1>18. ASSUME Construct PROVE Promise!Open(holder)
    <2>1. resync = None /\ base = 0 /\ base <= bootFrom
        BY <1>18 DEF Construct, IInv, ToldInv, TypeOK
    <2>2. Promise!Look
        BY <1>17, <1>18, <2>1 DEF Construct
    <2>3. Promise!Return(holder, "opened")
        BY <1>18, Returns DEF Construct
    <2> QED
        BY <1>18, <2>1, <2>2, <2>3 DEF Construct, Adopt, Promise!Open
<1>19. ASSUME Replace PROVE Promise!Rejoin
    <2>1. /\ resync = None /\ holder # None /\ opened /\ boot # None
          /\ cause = mirrorEnd /\ cause # None /\ base <= bootFrom
        BY <1>19 DEF Replace, IInv, OwnerInv, ToldInv, CauseInv, Bootstrapping
    <2>2. Promise!Look
        BY <1>17, <1>19, <2>1 DEF Replace
    <2> QED
        BY <1>19, <2>1, <2>2 DEF Replace, Promise!Rejoin
<1>20. ASSUME \/ LoadStream \/ StreamEnded \/ DropStream \/ WaitBegin \/ BackoffOver
              \/ Collect \/ CollectorFailed \/ Install \/ CloseStream \/ Subscribe
              \/ Snapshot \/ UNCHANGED vars
       PROVE  UNCHANGED Promise!vars
    BY <1>20 DEF LoadStream, StreamEnded, DropStream, WaitBegin, BackoffOver, Collect,
                 CollectorFailed, Install, CloseStream, Subscribe, Snapshot, vars
<1>21. pc # "idle" => holder \in Callers
    BY DEF IInv, TypeOK, OwnerInv
<1> QED
    BY <1>1, <1>2, <1>3, <1>4, <1>5, <1>6, <1>7, <1>8, <1>9, <1>10, <1>11, <1>13,
       <1>14, <1>15, <1>16, <1>18, <1>19, <1>20, <1>21
    DEF Next, Environment, Exchanges, ClientSteps, Lines, Promise!Next, ReturnResync,
        DeliverPending, Receive, ReturnCancelled, Construct

\* A Session is a reader of the server's log: whatever its streams, bootstraps
\* and queues do, the program is told of every event once and in order or of
\* a gap, and sees a snapshot with the events it was told of replayed on it.
THEOREM ReadsTheLog == Spec => ImplementsLogReader
<1>1. Init => HolderInv /\ Promise!Init
    BY NamesAssumption DEF Init, HolderInv, Promise!Init
<1>2. Spec => []HolderInv
    BY Inductive, StepHolder, <1>1, PTL DEF Spec
<1> QED
    BY Inductive, StepReader, <1>1, <1>2, PTL DEF Spec, ImplementsLogReader, Promise!Spec
=============================================================================
