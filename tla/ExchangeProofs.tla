--------------------------- MODULE ExchangeProofs ---------------------------
(***************************************************************************)
(* Theorems about Exchange: whatever the dialer, the context and the       *)
(* server do, the connection has one owner, one Close, and a failed open   *)
(* keeps none.                                                             *)
(***************************************************************************)
EXTENDS Exchange, TLAPS

-----------------------------------------------------------------------------
(* The inductive invariant, in parts. *)

\* The caller has no connection yet; the caller has one and has not returned.
Dialing == pc \in {"encode", "dial", "dialing"}
Exchanging == pc \in {"watch", "write", "read", "stop", "check", "unwind", "unwindClose"}

\* A connection is closed once.  Until dial wraps it in an ownedConnection
\* only dialSocket's goroutine has it.
ConnInv ==
    /\ closes = IF conn = "closed" THEN 1 ELSE 0
    /\ endedBy = "none" <=> conn # "closed"
    /\ once = "fresh" => conn = "open"
    /\ once = "done" => conn = "closed"
    /\ once = "none" => (conn = "open" <=> opener = "sent")

\* What dialSocket's goroutine opened is taken by dial, or drained.
OpenerInv ==
    /\ opener # "none" => dialer = "pipe"
    /\ opener \in {"opening", "sent", "failed"}
          => pc \in {"dialing", "returned"} /\ once = "none" /\ conn # "closed"
    /\ dialer = "pipe" /\ pc = "dialing" => opener \in {"opening", "sent", "failed"}
    /\ pc \in {"encode", "dial"} => opener = "none"

\* Who has the connection while the caller is where it is.
OwnerInv ==
    /\ Dialing => once = "none" /\ conn # "closed"
    /\ Exchanging => once # "none"
    /\ Dialing \/ pc \in {"watch", "write", "read"} => failed = "none"
    /\ pc \in {"unwind", "unwindClose"} => failed # "none"
    /\ handedTo # "none" => pc = "returned" /\ once # "none"
    /\ pc = "returned" => (failed = "none" <=> handedTo # "none")
    /\ pc = "returned" /\ failed # "none" => once # "fresh"

\* The watcher acts on a context that is done, before the stop function
\* returned, and nobody else closes before that.
WatchInv ==
    /\ watch \in {"closing", "finished"} => ctx = "done"
    /\ watch # "none" => once # "none"
    /\ Dialing \/ pc = "watch" => watch = "none"
    /\ pc \in {"check", "unwindClose", "returned"} => watch \notin {"armed", "closing"}
    /\ handedTo # "none" => watch \in {"none", "stopped"} /\ endedBy \in {"none", "owner"}
    /\ Exchanging => endedBy \in {"none", "watcher"}
    /\ endedBy = "watcher" <=> watch = "finished"

IInv ==
    /\ TypeOK
    /\ ConnInv
    /\ OpenerInv
    /\ OwnerInv
    /\ WatchInv

-----------------------------------------------------------------------------
(* The invariant is inductive. *)

USE DEF fixed, connVars, Dialing, Exchanging

\* Nothing is dialed when CallRaw or OpenStream begins.
LEMMA InitInv == Init => IInv
<1> SUFFICES ASSUME Init PROVE IInv
    OBVIOUS
<1>1. TypeOK
    BY DEF Init, TypeOK
<1>2. ConnInv /\ OpenerInv
    BY DEF Init, ConnInv, OpenerInv
<1>3. OwnerInv /\ WatchInv
    BY DEF Init, OwnerInv, WatchInv
<1> QED
    BY <1>1, <1>2, <1>3 DEF IInv

\* No step of the caller, of the watcher, of the goroutine that opens a pipe,
\* or of what is outside breaks it.
LEMMA StepInv == IInv /\ [Next]_vars => IInv'
<1> SUFFICES ASSUME IInv, [Next]_vars PROVE IInv'
    OBVIOUS
<1> USE DEF IInv, TypeOK, ConnInv, OpenerInv, OwnerInv, WatchInv
<1>1. ASSUME CancelContext PROVE IInv'
    BY <1>1 DEF CancelContext
<1>2. ASSUME DialTimeout PROVE IInv'
    BY <1>2 DEF DialTimeout
<1>3. ASSUME Encode PROVE IInv'
    BY <1>3 DEF Encode
<1>4. ASSUME Dial PROVE IInv'
    BY <1>4 DEF Dial, DialDone
<1>5. ASSUME PipeOpened PROVE IInv'
    BY <1>5 DEF PipeOpened
<1>6. ASSUME PipeAbandoned PROVE IInv'
    BY <1>6 DEF PipeAbandoned, DialDone
<1>7. ASSUME PipeDrained PROVE IInv'
    BY <1>7 DEF PipeDrained
<1>8. ASSUME NEW hasConn \in BOOLEAN, NEW hasErr \in BOOLEAN,
            DialerReturned(hasConn, hasErr)
      PROVE IInv'
    BY <1>8 DEF DialerReturned, DialDone
<1>9. ASSUME StartWatch PROVE IInv'
    BY <1>9 DEF StartWatch
<1>10. ASSUME WatchFires PROVE IInv'
    BY <1>10 DEF WatchFires
<1>11. ASSUME WatchCloses PROVE IInv'
    BY <1>11 DEF WatchCloses, Close
<1>12. ASSUME Write PROVE IInv'
    BY <1>12 DEF Write, RequestError
<1>13. ASSUME Read PROVE IInv'
    BY <1>13 DEF Read, RequestError
<1>14. ASSUME StopWatch PROVE IInv'
    BY <1>14 DEF StopWatch, Stopped
<1>15. ASSUME Transfer PROVE IInv'
    BY <1>15 DEF Transfer
<1>16. ASSUME Unwind PROVE IInv'
    BY <1>16 DEF Unwind, Stopped
<1>17. ASSUME UnwindClose PROVE IInv'
    BY <1>17 DEF UnwindClose, Close
<1>18. ASSUME OwnerCloses PROVE IInv'
    BY <1>18 DEF OwnerCloses, Close
<1>19. ASSUME UNCHANGED vars PROVE IInv'
    BY <1>19 DEF vars
<1> QED
    BY <1>1, <1>2, <1>3, <1>4, <1>5, <1>6, <1>7, <1>8, <1>9, <1>10, <1>11, <1>12,
       <1>13, <1>14, <1>15, <1>16, <1>17, <1>18, <1>19
    DEF Next, ClientSteps, Dialer

\* The invariant holds in every reachable state.
THEOREM Inductive == Spec => []IInv
    BY InitInv, StepInv, PTL DEF Spec

-----------------------------------------------------------------------------
(* The theorems *)

\* Every variable keeps its type (TypeOK).
THEOREM TypeCorrect == Spec => []TypeOK
<1>1. IInv => TypeOK
    BY DEF IInv
<1> QED
    BY Inductive, <1>1, PTL

\* open joins its watcher before it hands a connection over, so that only the
\* new owner closes it.
THEOREM HandoverExclusive == Spec => []HandoverIsExclusive
<1>1. IInv => HandoverIsExclusive
    BY DEF IInv, WatchInv, HandoverIsExclusive
<1> QED
    BY Inductive, <1>1, PTL

\* An open that failed keeps no connection, and nothing closes one twice.
THEOREM FailureCloses == Spec => []FailureClosesConnection
<1>1. IInv => FailureClosesConnection
    BY DEF IInv, TypeOK, ConnInv, OpenerInv, OwnerInv, WatchInv, FailureClosesConnection
<1> QED
    BY Inductive, <1>1, PTL

\* requestError names the context when it was the watcher that cut the
\* connection off.
THEOREM CancellationReported == Spec => CancellationIsReported
<1> DEFINE Reported == pc' = "unwind" /\ conn = "closed" => failed' = "ctx"
<1>1. IInv /\ [Next]_vars => [Reported]_vars
    <2> SUFFICES ASSUME IInv, Next, pc' = "unwind", conn = "closed"
                 PROVE  failed' = "ctx"
        OBVIOUS
    <2>1. pc \in {"write", "read", "check", "unwind"}
        BY DEF Next, ClientSteps, Dialer, CancelContext, DialTimeout, Encode, Dial,
               StartWatch, StopWatch, Transfer, Unwind, UnwindClose, PipeDrained,
               PipeOpened, PipeAbandoned, DialerReturned, WatchFires, WatchCloses,
               Write, Read, OwnerCloses
    \* It was the watcher, because the context is done.
    <2>2. watch = "finished" /\ ctx = "done"
        BY <2>1 DEF IInv, TypeOK, ConnInv, WatchInv
    <2>3. Write \/ Read \/ Transfer
        BY <2>1, <2>2
        DEF Next, ClientSteps, Dialer, CancelContext, DialTimeout, Encode, Dial,
            StartWatch, StopWatch, Unwind, UnwindClose, PipeDrained, PipeOpened,
            PipeAbandoned, DialerReturned, WatchFires, WatchCloses, OwnerCloses,
            IInv, OpenerInv
    <2> QED
        BY <2>2, <2>3 DEF Write, Read, Transfer, RequestError
<1> QED
    BY Inductive, <1>1, PTL DEF Spec, CancellationIsReported
=============================================================================
