---------------------------- MODULE StreamProofs ----------------------------
(***************************************************************************)
(* Theorems about Stream, for every set of callers and of closers and for  *)
(* any number of lines: that no line is lost, that Close closes, what a    *)
(* Next may report, and that every step is a step of Feed.                 *)
(***************************************************************************)
EXTENDS Stream, TLAPS

-----------------------------------------------------------------------------
(* The inductive invariant, in parts. *)

\* Every line read was handed over or was blank, but for the one in the
\* reader's hand; a reader that stopped after Close may have kept its line.
HandInv ==
    /\ handed <= taken
    /\ reader = "hand" => taken = handed + 1 /\ sent[taken] # "blank"
    /\ reader \in {"read", "handErr"} => handed = taken
    /\ reader = "handErr" => lineErr # None
    /\ reader = "done" /\ ~closed => handed = taken

\* Only the first Close closes, and none is past the Once before it has.
CloseInv ==
    /\ CloseReturnsClosed
    /\ \A k \in Closers : closer[k] # "idle" => closed
    /\ ~connOpen => closed

\* Where a caller is: one that is in Next has called it, one that received an
\* error is about to record it, and one that called after Close never reaches
\* the select.
CallInv ==
    /\ \A c \in Callers : next[c] # "idle" => c \in used
    /\ \A c \in Callers : next[c] = "set" <=> got[c] # None
    /\ \A c \in late : closed /\ next[c] \in {"enter", "terminal"}

\* Whatever says that the stream is over does so because it is.
EndInv ==
    /\ reader = "handErr" => lineErr \in Promise!Ends
    /\ reader = "done" => Promise!Ends # {}
    /\ \A c \in Callers : got[c] # None => got[c] \in Promise!Ends
    /\ \A c \in Callers : next[c] = "terminal" => Promise!Ends # {}

\* The first end received is recorded, or is about to be, if one caller calls.
SingleInv ==
    /\ used = {} => readErr = None /\ ended = None
    /\ reader = "done" /\ ~closed => ended # None
    /\ \A c \in Callers :
          used = {c} =>
             /\ readErr # None => readErr = ended
             /\ readErr = None => ended = got[c]
             /\ next[c] = "terminal" => closed \/ readErr # None

IInv ==
    /\ TypeOK
    /\ HandInv
    /\ CloseInv
    /\ CallInv
    /\ EndInv
    /\ SingleInv

-----------------------------------------------------------------------------
USE StreamAssumption DEF serverVars, readerVars, closeVars, callVars

\* Every variable has its type before the first step.
LEMMA InitInv == Init => IInv
<1> SUFFICES ASSUME Init PROVE IInv
    OBVIOUS
<1>1. sent \in Seq({"event", "bad", "error", "blank"}) /\ Len(sent) = 0
    BY DEF Init
<1>2. taken \in 0..Len(sent)
    BY <1>1 DEF Init
<1>3. TypeOK
    BY <1>1, <1>2 DEF Init, TypeOK
<1>4. HandInv /\ CloseInv /\ CallInv /\ EndInv /\ SingleInv
    BY DEF Init, HandInv, CloseInv, CloseReturnsClosed, CallInv, EndInv, SingleInv
<1> QED
    BY <1>3, <1>4 DEF IInv

\* No step takes a variable out of its type.
LEMMA StepType == TypeOK /\ [Next]_vars => TypeOK'
<1> SUFFICES ASSUME TypeOK, [Next]_vars PROVE TypeOK'
    OBVIOUS
<1> USE DEF TypeOK
<1>1. ASSUME NEW line \in {"event", "bad", "error", "blank"}, Push(line) PROVE TypeOK'
    <2>1. sent' \in Seq({"event", "bad", "error", "blank"}) /\ Len(sent') = Len(sent) + 1
        BY <1>1 DEF Push
    <2> QED
        BY <1>1, <2>1 DEF Push
<1>2. ASSUME HangUp PROVE TypeOK'
    BY <1>2 DEF HangUp
<1>3. ASSUME ReadLine PROVE TypeOK'
    BY <1>3 DEF ReadLine
<1>4. ASSUME ReadError PROVE TypeOK'
    BY <1>4 DEF ReadError
<1>5. ASSUME ReaderQuits PROVE TypeOK'
    BY <1>5 DEF ReaderQuits
<1>6. ASSUME NEW c \in Callers, CallNext(c) PROVE TypeOK'
    BY <1>6 DEF CallNext
<1>7. ASSUME NEW c \in Callers, Cancel(c) PROVE TypeOK'
    BY <1>7 DEF Cancel
<1>8. ASSUME NEW c \in Callers, Enter(c) PROVE TypeOK'
    BY <1>8 DEF Enter, Return, Goto
<1>9. ASSUME NEW c \in Callers, SelectDone(c) PROVE TypeOK'
    BY <1>9 DEF SelectDone, Return
<1>10. ASSUME NEW c \in Callers, SelectClosed(c) PROVE TypeOK'
    BY <1>10 DEF SelectClosed, Goto
<1>11. ASSUME NEW c \in Callers, SelectLine(c) PROVE TypeOK'
    BY <1>11 DEF SelectLine, Return, Goto
<1>12. ASSUME NEW c \in Callers, SelectErr(c) PROVE TypeOK'
    BY <1>12 DEF SelectErr, Goto
<1>13. ASSUME NEW c \in Callers, SetReadErr(c) PROVE TypeOK'
    BY <1>13 DEF SetReadErr, Goto
<1>14. ASSUME NEW c \in Callers, Terminal(c) PROVE TypeOK'
    BY <1>14 DEF Terminal, Return
<1>15. ASSUME NEW k \in Closers, CallClose(k) PROVE TypeOK'
    <2>1. PICK place \in {"waiting", "closing"} : closer' = [closer EXCEPT ![k] = place]
        BY <1>15 DEF CallClose
    <2>2. closed' \in BOOLEAN
        BY <1>15 DEF CallClose
    <2> QED
        BY <1>15, <2>1, <2>2 DEF CallClose
<1>16. ASSUME NEW k \in Closers, CloseConn(k) PROVE TypeOK'
    BY <1>16 DEF CloseConn
<1>17. ASSUME NEW k \in Closers, OnceDone(k) PROVE TypeOK'
    BY <1>17 DEF OnceDone
<1>18. ASSUME UNCHANGED vars PROVE TypeOK'
    BY <1>18 DEF vars
<1> QED
    BY <1>1, <1>2, <1>3, <1>4, <1>5, <1>6, <1>7, <1>8, <1>9, <1>10, <1>11, <1>12,
       <1>13, <1>14, <1>15, <1>16, <1>17, <1>18
    DEF Next, Reader, Caller

\* No line leaves the reader's hand but to a Next, or to a closed stream.
LEMMA StepHand == TypeOK /\ HandInv /\ [Next]_vars => HandInv'
<1> SUFFICES ASSUME TypeOK, HandInv, [Next]_vars PROVE HandInv'
    OBVIOUS
<1> USE DEF TypeOK, HandInv
<1>1. ASSUME NEW line \in {"event", "bad", "error", "blank"}, Push(line) PROVE HandInv'
    BY <1>1 DEF Push
<1>2. ASSUME HangUp PROVE HandInv'
    BY <1>2 DEF HangUp
<1>3. ASSUME ReadLine PROVE HandInv'
    BY <1>3 DEF ReadLine
<1>4. ASSUME ReadError PROVE HandInv'
    BY <1>4 DEF ReadError
<1>5. ASSUME ReaderQuits PROVE HandInv'
    BY <1>5 DEF ReaderQuits
<1>6. ASSUME NEW c \in Callers, CallNext(c) PROVE HandInv'
    BY <1>6 DEF CallNext
<1>7. ASSUME NEW c \in Callers, Cancel(c) PROVE HandInv'
    BY <1>7 DEF Cancel
<1>8. ASSUME NEW c \in Callers, Enter(c) PROVE HandInv'
    BY <1>8 DEF Enter, Return, Goto
<1>9. ASSUME NEW c \in Callers, SelectDone(c) PROVE HandInv'
    BY <1>9 DEF SelectDone, Return
<1>10. ASSUME NEW c \in Callers, SelectClosed(c) PROVE HandInv'
    BY <1>10 DEF SelectClosed, Goto
<1>11. ASSUME NEW c \in Callers, SelectLine(c) PROVE HandInv'
    BY <1>11 DEF SelectLine, Return, Goto
<1>12. ASSUME NEW c \in Callers, SelectErr(c) PROVE HandInv'
    BY <1>12 DEF SelectErr, Goto
<1>13. ASSUME NEW c \in Callers, SetReadErr(c) PROVE HandInv'
    BY <1>13 DEF SetReadErr, Goto
<1>14. ASSUME NEW c \in Callers, Terminal(c) PROVE HandInv'
    BY <1>14 DEF Terminal, Return
<1>15. ASSUME NEW k \in Closers, CallClose(k) PROVE HandInv'
    BY <1>15 DEF CallClose
<1>16. ASSUME NEW k \in Closers, CloseConn(k) PROVE HandInv'
    BY <1>16 DEF CloseConn
<1>17. ASSUME NEW k \in Closers, OnceDone(k) PROVE HandInv'
    BY <1>17 DEF OnceDone
<1>18. ASSUME UNCHANGED vars PROVE HandInv'
    BY <1>18 DEF vars
<1> QED
    BY <1>1, <1>2, <1>3, <1>4, <1>5, <1>6, <1>7, <1>8, <1>9, <1>10, <1>11, <1>12,
       <1>13, <1>14, <1>15, <1>16, <1>17, <1>18
    DEF Next, Reader, Caller

\* The Once lets nobody past before the first Close has closed the connection.
LEMMA StepClose == TypeOK /\ CloseInv /\ [Next]_vars => CloseInv'
<1> SUFFICES ASSUME TypeOK, CloseInv, [Next]_vars PROVE CloseInv'
    OBVIOUS
<1> USE DEF TypeOK, CloseInv, CloseReturnsClosed
<1>1. ASSUME NEW line \in {"event", "bad", "error", "blank"}, Push(line) PROVE CloseInv'
    BY <1>1 DEF Push
<1>2. ASSUME HangUp PROVE CloseInv'
    BY <1>2 DEF HangUp
<1>3. ASSUME ReadLine PROVE CloseInv'
    BY <1>3 DEF ReadLine
<1>4. ASSUME ReadError PROVE CloseInv'
    BY <1>4 DEF ReadError
<1>5. ASSUME ReaderQuits PROVE CloseInv'
    BY <1>5 DEF ReaderQuits
<1>6. ASSUME NEW c \in Callers, CallNext(c) PROVE CloseInv'
    BY <1>6 DEF CallNext
<1>7. ASSUME NEW c \in Callers, Cancel(c) PROVE CloseInv'
    BY <1>7 DEF Cancel
<1>8. ASSUME NEW c \in Callers, Enter(c) PROVE CloseInv'
    BY <1>8 DEF Enter, Return, Goto
<1>9. ASSUME NEW c \in Callers, SelectDone(c) PROVE CloseInv'
    BY <1>9 DEF SelectDone, Return
<1>10. ASSUME NEW c \in Callers, SelectClosed(c) PROVE CloseInv'
    BY <1>10 DEF SelectClosed, Goto
<1>11. ASSUME NEW c \in Callers, SelectLine(c) PROVE CloseInv'
    BY <1>11 DEF SelectLine, Return, Goto
<1>12. ASSUME NEW c \in Callers, SelectErr(c) PROVE CloseInv'
    BY <1>12 DEF SelectErr, Goto
<1>13. ASSUME NEW c \in Callers, SetReadErr(c) PROVE CloseInv'
    BY <1>13 DEF SetReadErr, Goto
<1>14. ASSUME NEW c \in Callers, Terminal(c) PROVE CloseInv'
    BY <1>14 DEF Terminal, Return
<1>15. ASSUME NEW k \in Closers, CallClose(k) PROVE CloseInv'
    BY <1>15 DEF CallClose
<1>16. ASSUME NEW k \in Closers, CloseConn(k) PROVE CloseInv'
    BY <1>16 DEF CloseConn
<1>17. ASSUME NEW k \in Closers, OnceDone(k) PROVE CloseInv'
    BY <1>17 DEF OnceDone
<1>18. ASSUME UNCHANGED vars PROVE CloseInv'
    BY <1>18 DEF vars
<1> QED
    BY <1>1, <1>2, <1>3, <1>4, <1>5, <1>6, <1>7, <1>8, <1>9, <1>10, <1>11, <1>12,
       <1>13, <1>14, <1>15, <1>16, <1>17, <1>18
    DEF Next, Reader, Caller

\* Every caller stays on the path that Next prescribes.
LEMMA StepCall == TypeOK /\ HandInv /\ CallInv /\ [Next]_vars => CallInv'
<1> SUFFICES ASSUME TypeOK, HandInv, CallInv, [Next]_vars PROVE CallInv'
    OBVIOUS
<1> USE DEF TypeOK, HandInv, CallInv
<1>1. ASSUME NEW line \in {"event", "bad", "error", "blank"}, Push(line) PROVE CallInv'
    BY <1>1 DEF Push
<1>2. ASSUME HangUp PROVE CallInv'
    BY <1>2 DEF HangUp
<1>3. ASSUME ReadLine PROVE CallInv'
    BY <1>3 DEF ReadLine
<1>4. ASSUME ReadError PROVE CallInv'
    BY <1>4 DEF ReadError
<1>5. ASSUME ReaderQuits PROVE CallInv'
    BY <1>5 DEF ReaderQuits
<1>6. ASSUME NEW c \in Callers, CallNext(c) PROVE CallInv'
    BY <1>6 DEF CallNext
<1>7. ASSUME NEW c \in Callers, Cancel(c) PROVE CallInv'
    BY <1>7 DEF Cancel
<1>8. ASSUME NEW c \in Callers, Enter(c) PROVE CallInv'
    BY <1>8 DEF Enter, Return, Goto
<1>9. ASSUME NEW c \in Callers, SelectDone(c) PROVE CallInv'
    BY <1>9 DEF SelectDone, Return
<1>10. ASSUME NEW c \in Callers, SelectClosed(c) PROVE CallInv'
    BY <1>10 DEF SelectClosed, Goto
<1>11. ASSUME NEW c \in Callers, SelectLine(c) PROVE CallInv'
    BY <1>11 DEF SelectLine, Return, Goto
<1>12. ASSUME NEW c \in Callers, SelectErr(c) PROVE CallInv'
    BY <1>12 DEF SelectErr, Goto
<1>13. ASSUME NEW c \in Callers, SetReadErr(c) PROVE CallInv'
    BY <1>13 DEF SetReadErr, Goto
<1>14. ASSUME NEW c \in Callers, Terminal(c) PROVE CallInv'
    BY <1>14 DEF Terminal, Return
<1>15. ASSUME NEW k \in Closers, CallClose(k) PROVE CallInv'
    BY <1>15 DEF CallClose
<1>16. ASSUME NEW k \in Closers, CloseConn(k) PROVE CallInv'
    BY <1>16 DEF CloseConn
<1>17. ASSUME NEW k \in Closers, OnceDone(k) PROVE CallInv'
    BY <1>17 DEF OnceDone
<1>18. ASSUME UNCHANGED vars PROVE CallInv'
    BY <1>18 DEF vars
<1> QED
    BY <1>1, <1>2, <1>3, <1>4, <1>5, <1>6, <1>7, <1>8, <1>9, <1>10, <1>11, <1>12,
       <1>13, <1>14, <1>15, <1>16, <1>17, <1>18
    DEF Next, Reader, Caller

\* What the server sent, what was handed over and a Close stay; nothing
\* comes after the server hung up.
LEMMA Monotone ==
    ASSUME TypeOK, [Next]_vars
    PROVE  /\ closed => closed'
           /\ handed <= handed'
           /\ hungUp => hungUp' /\ sent' = sent
           /\ Len(sent) <= Len(sent')
           /\ \A i \in 1..Len(sent) : sent'[i] = sent[i]
<1> DEFINE Goal == /\ closed => closed'
                   /\ handed <= handed'
                   /\ hungUp => hungUp' /\ sent' = sent
                   /\ Len(sent) <= Len(sent')
                   /\ \A i \in 1..Len(sent) : sent'[i] = sent[i]
<1> SUFFICES Goal
    OBVIOUS
<1> USE DEF TypeOK
<1>1. ASSUME NEW line \in {"event", "bad", "error", "blank"}, Push(line) PROVE Goal
    BY <1>1 DEF Push
<1>2. ASSUME HangUp PROVE Goal
    BY <1>2 DEF HangUp
<1>3. ASSUME ReadLine PROVE Goal
    BY <1>3 DEF ReadLine
<1>4. ASSUME ReadError PROVE Goal
    BY <1>4 DEF ReadError
<1>5. ASSUME ReaderQuits PROVE Goal
    BY <1>5 DEF ReaderQuits
<1>6. ASSUME NEW c \in Callers, CallNext(c) PROVE Goal
    BY <1>6 DEF CallNext
<1>7. ASSUME NEW c \in Callers, Cancel(c) PROVE Goal
    BY <1>7 DEF Cancel
<1>8. ASSUME NEW c \in Callers, Enter(c) PROVE Goal
    BY <1>8 DEF Enter, Return, Goto
<1>9. ASSUME NEW c \in Callers, SelectDone(c) PROVE Goal
    BY <1>9 DEF SelectDone, Return
<1>10. ASSUME NEW c \in Callers, SelectClosed(c) PROVE Goal
    BY <1>10 DEF SelectClosed, Goto
<1>11. ASSUME NEW c \in Callers, SelectLine(c) PROVE Goal
    BY <1>11 DEF SelectLine, Return, Goto
<1>12. ASSUME NEW c \in Callers, SelectErr(c) PROVE Goal
    BY <1>12 DEF SelectErr, Goto
<1>13. ASSUME NEW c \in Callers, SetReadErr(c) PROVE Goal
    BY <1>13 DEF SetReadErr, Goto
<1>14. ASSUME NEW c \in Callers, Terminal(c) PROVE Goal
    BY <1>14 DEF Terminal, Return
<1>15. ASSUME NEW k \in Closers, CallClose(k) PROVE Goal
    BY <1>15 DEF CallClose
<1>16. ASSUME NEW k \in Closers, CloseConn(k) PROVE Goal
    BY <1>16 DEF CloseConn
<1>17. ASSUME NEW k \in Closers, OnceDone(k) PROVE Goal
    BY <1>17 DEF OnceDone
<1>18. ASSUME UNCHANGED vars PROVE Goal
    BY <1>18 DEF vars
<1> QED
    BY <1>1, <1>2, <1>3, <1>4, <1>5, <1>6, <1>7, <1>8, <1>9, <1>10, <1>11, <1>12,
       <1>13, <1>14, <1>15, <1>16, <1>17, <1>18
    DEF Next, Reader, Caller

\* An end that the stream has reached stays one.
LEMMA EndsGrow ==
    ASSUME TypeOK, HandInv, [Next]_vars
    PROVE  Promise!Ends \subseteq (Promise!Ends)'
<1>1. handed \in Nat /\ Len(sent) \in Nat /\ handed <= Len(sent)
    BY DEF TypeOK, HandInv
<1>2. handed' \in Nat /\ Len(sent') \in Nat
    BY StepType DEF TypeOK
<1>3. ASSUME NEW j \in 1..handed, sent[j] = "error"
      PROVE  j \in 1..handed' /\ sent'[j] = "error"
    BY <1>1, <1>2, <1>3, Monotone
<1>4. ASSUME hungUp, ~(handed < Len(sent)) PROVE hungUp' /\ ~(handed' < Len(sent'))
    BY <1>1, <1>2, <1>4, Monotone
<1> QED
    BY <1>3, <1>4, Monotone DEF Promise!Ends, Promise!Ahead

\* What was handed to the callers as an end is one.
LEMMA StepEnd ==
    TypeOK /\ HandInv /\ CloseInv /\ CallInv /\ EndInv /\ [Next]_vars => EndInv'
<1> SUFFICES ASSUME TypeOK, HandInv, CloseInv, CallInv, EndInv,
                    [Next]_vars PROVE EndInv'
    OBVIOUS
<1>0. Promise!Ends \subseteq (Promise!Ends)'
    BY EndsGrow
<1> USE <1>0 DEF TypeOK, EndInv
<1>1. ASSUME NEW line \in {"event", "bad", "error", "blank"}, Push(line) PROVE EndInv'
    BY <1>1 DEF Push
<1>2. ASSUME HangUp PROVE EndInv'
    BY <1>2 DEF HangUp
<1>3. ASSUME ReadLine PROVE EndInv'
    BY <1>3 DEF ReadLine
<1>4. ASSUME ReadError PROVE EndInv'
    <2>1. lineErr' \in Promise!Ends
        BY <1>4 DEF ReadError, HandInv, CloseInv, Promise!Ends, Promise!Ahead
    <2> QED
        BY <1>4, <2>1 DEF ReadError
<1>5. ASSUME ReaderQuits PROVE EndInv'
    <2>1. "local" \in Promise!Ends
        BY <1>5 DEF ReaderQuits, Promise!Ends
    <2> QED
        BY <1>5, <2>1 DEF ReaderQuits
<1>6. ASSUME NEW c \in Callers, CallNext(c) PROVE EndInv'
    BY <1>6 DEF CallNext
<1>7. ASSUME NEW c \in Callers, Cancel(c) PROVE EndInv'
    BY <1>7 DEF Cancel
<1>8. ASSUME NEW c \in Callers, Enter(c) PROVE EndInv'
    <2>1. closed => "local" \in Promise!Ends
        BY DEF Promise!Ends
    <2> QED
        BY <1>8, <2>1 DEF Enter, Return, Goto
<1>9. ASSUME NEW c \in Callers, SelectDone(c) PROVE EndInv'
    BY <1>9 DEF SelectDone, Return
<1>10. ASSUME NEW c \in Callers, SelectClosed(c) PROVE EndInv'
    <2>1. closed => "local" \in Promise!Ends
        BY DEF Promise!Ends
    <2> QED
        BY <1>10, <2>1 DEF SelectClosed, Goto
<1>11. ASSUME NEW c \in Callers, SelectLine(c) PROVE EndInv'
    <2>1. sent[taken] = "error" => "error" \in (Promise!Ends)'
        <3>1. handed' = taken /\ taken \in 1..taken /\ sent' = sent
            BY <1>11 DEF SelectLine, HandInv
        <3> QED
            BY <3>1 DEF Promise!Ends
    <2> QED
        BY <1>11, <2>1 DEF SelectLine, Return, Goto
<1>12. ASSUME NEW c \in Callers, SelectErr(c) PROVE EndInv'
    <2>1. lineErr \in Promise!Ends
        BY <1>12 DEF SelectErr
    <2> QED
        BY <1>12, <2>1 DEF SelectErr, Goto
<1>13. ASSUME NEW c \in Callers, SetReadErr(c) PROVE EndInv'
    BY <1>13 DEF SetReadErr, Goto, CallInv
<1>14. ASSUME NEW c \in Callers, Terminal(c) PROVE EndInv'
    BY <1>14 DEF Terminal, Return
<1>15. ASSUME NEW k \in Closers, CallClose(k) PROVE EndInv'
    BY <1>15 DEF CallClose
<1>16. ASSUME NEW k \in Closers, CloseConn(k) PROVE EndInv'
    BY <1>16 DEF CloseConn
<1>17. ASSUME NEW k \in Closers, OnceDone(k) PROVE EndInv'
    BY <1>17 DEF OnceDone
<1>18. ASSUME UNCHANGED vars PROVE EndInv'
    BY <1>18 DEF vars
<1> QED
    BY <1>1, <1>2, <1>3, <1>4, <1>5, <1>6, <1>7, <1>8, <1>9, <1>10, <1>11, <1>12,
       <1>13, <1>14, <1>15, <1>16, <1>17, <1>18
    DEF Next, Reader, Caller

\* One caller at a time records the first end that it received.
LEMMA StepSingle == TypeOK /\ HandInv /\ CallInv /\ SingleInv /\ [Next]_vars => SingleInv'
<1> SUFFICES ASSUME TypeOK, HandInv, CallInv, SingleInv, [Next]_vars PROVE SingleInv'
    OBVIOUS
<1> USE DEF TypeOK, HandInv, CallInv, SingleInv
<1>1. ASSUME NEW line \in {"event", "bad", "error", "blank"}, Push(line) PROVE SingleInv'
    BY <1>1 DEF Push
<1>2. ASSUME HangUp PROVE SingleInv'
    BY <1>2 DEF HangUp
<1>3. ASSUME ReadLine PROVE SingleInv'
    BY <1>3 DEF ReadLine
<1>4. ASSUME ReadError PROVE SingleInv'
    BY <1>4 DEF ReadError
<1>5. ASSUME ReaderQuits PROVE SingleInv'
    BY <1>5 DEF ReaderQuits
<1>6. ASSUME NEW c \in Callers, CallNext(c) PROVE SingleInv'
    BY <1>6 DEF CallNext
<1>7. ASSUME NEW c \in Callers, Cancel(c) PROVE SingleInv'
    BY <1>7 DEF Cancel
<1>8. ASSUME NEW c \in Callers, Enter(c) PROVE SingleInv'
    BY <1>8 DEF Enter, Return, Goto
<1>9. ASSUME NEW c \in Callers, SelectDone(c) PROVE SingleInv'
    BY <1>9 DEF SelectDone, Return
<1>10. ASSUME NEW c \in Callers, SelectClosed(c) PROVE SingleInv'
    BY <1>10 DEF SelectClosed, Goto
<1>11. ASSUME NEW c \in Callers, SelectLine(c) PROVE SingleInv'
    BY <1>11 DEF SelectLine, Return, Goto
<1>12. ASSUME NEW c \in Callers, SelectErr(c) PROVE SingleInv'
    BY <1>12 DEF SelectErr, Goto
<1>13. ASSUME NEW c \in Callers, SetReadErr(c) PROVE SingleInv'
    BY <1>13 DEF SetReadErr, Goto
<1>14. ASSUME NEW c \in Callers, Terminal(c) PROVE SingleInv'
    BY <1>14 DEF Terminal, Return
<1>15. ASSUME NEW k \in Closers, CallClose(k) PROVE SingleInv'
    BY <1>15 DEF CallClose
<1>16. ASSUME NEW k \in Closers, CloseConn(k) PROVE SingleInv'
    BY <1>16 DEF CloseConn
<1>17. ASSUME NEW k \in Closers, OnceDone(k) PROVE SingleInv'
    BY <1>17 DEF OnceDone
<1>18. ASSUME UNCHANGED vars PROVE SingleInv'
    BY <1>18 DEF vars
<1> QED
    BY <1>1, <1>2, <1>3, <1>4, <1>5, <1>6, <1>7, <1>8, <1>9, <1>10, <1>11, <1>12,
       <1>13, <1>14, <1>15, <1>16, <1>17, <1>18
    DEF Next, Reader, Caller

-----------------------------------------------------------------------------
(* The theorems *)

\* The invariant holds in every reachable state, with any number of callers,
\* of Closes and of lines.
THEOREM Inductive == Spec => []IInv
<1>1. IInv /\ [Next]_vars => IInv'
    BY StepType, StepHand, StepClose, StepCall, StepEnd, StepSingle DEF IInv
<1> QED
    BY InitInv, <1>1, PTL DEF Spec

\* Every variable keeps its type (TypeOK).
THEOREM TypeCorrect == Spec => []TypeOK
<1>1. IInv => TypeOK
    BY DEF IInv
<1> QED
    BY Inductive, <1>1, PTL

\* A Next that gives up leaves the line to the next one: until Close nothing
\* read from the connection is lost.
THEOREM LinesKept == Spec => []NoLineLost
<1>1. IInv => NoLineLost
    BY DEF IInv, TypeOK, HandInv, NoLineLost
<1> QED
    BY Inductive, <1>1, PTL

\* No Close returns before the connection is closed, whoever won the Once.
THEOREM CloseCloses == Spec => []CloseReturnsClosed
<1>1. IInv => CloseReturnsClosed
    BY DEF IInv, CloseInv
<1> QED
    BY Inductive, <1>1, PTL

\* For a single consumer the recorded read error is the first one received.
THEOREM FirstEnd == Spec => []FirstEndReported
<1>1. IInv => FirstEndReported
    BY DEF IInv, SingleInv, FirstEndReported
<1> QED
    BY Inductive, <1>1, PTL

\* A single consumer that is told only that the stream is closed was told so
\* after Close: terminalErr names any other end.
THEOREM EndNamed == Spec => EndHasCause
<1> DEFINE Named == \A c \in Callers :
                       used' = {c} /\ Returns(c) /\ ret'[c] = "closed" => closed
<1>1. IInv /\ [Next]_vars => Named
    <2> SUFFICES ASSUME IInv, [Next]_vars, NEW c \in Callers,
                        used' = {c}, Returns(c), ret'[c] = "closed"
                 PROVE  closed
        OBVIOUS
    <2> USE DEF IInv, TypeOK, Returns
    <2>1. ASSUME NEW d \in Callers, CallNext(d) PROVE closed
        BY <2>1 DEF CallNext
    <2>2. ASSUME NEW d \in Callers, Enter(d) PROVE closed
        BY <2>2 DEF Enter, Return, Goto
    <2>3. ASSUME NEW d \in Callers, SelectDone(d) PROVE closed
        BY <2>3 DEF SelectDone, Return
    <2>4. ASSUME NEW d \in Callers, SelectClosed(d) PROVE closed
        BY <2>4 DEF SelectClosed, Goto
    <2>5. ASSUME NEW d \in Callers, SelectLine(d) PROVE closed
        BY <2>5 DEF SelectLine, Return, Goto
    <2>6. ASSUME NEW d \in Callers, SelectErr(d) PROVE closed
        BY <2>6 DEF SelectErr, Goto
    <2>7. ASSUME NEW d \in Callers, SetReadErr(d) PROVE closed
        BY <2>7 DEF SetReadErr, Goto
    <2>8. ASSUME NEW d \in Callers, Terminal(d) PROVE closed
        <3>1. d = c /\ next[c] = "terminal" /\ used = {c}
            BY <2>8 DEF Terminal, Return
        <3>2. readErr = None
            BY <2>8, <3>1 DEF Terminal, Return
        <3> QED
            BY <3>1, <3>2 DEF SingleInv
    <2>9. CASE UNCHANGED next
        BY <2>9
    <2> QED
        BY <2>1, <2>2, <2>3, <2>4, <2>5, <2>6, <2>7, <2>8, <2>9
        DEF Next, Reader, Caller, Push, HangUp, ReadLine, ReadError, ReaderQuits,
            Cancel, CallClose, CloseConn, OnceDone, vars
<1> QED
    BY Inductive, <1>1, PTL DEF Spec, EndHasCause

-----------------------------------------------------------------------------
(* Stream implements Feed *)

\* A step of the server, of the reading goroutine, of a Next or of a Close is
\* a step of the queue that Feed specifies, or leaves the queue as it is.
LEMMA StepFeed == IInv /\ [Next]_vars => [Promise!Next]_(Promise!vars)
<1> SUFFICES ASSUME IInv, [Next]_vars PROVE Promise!Next \/ UNCHANGED Promise!vars
    OBVIOUS
<1> DEFINE Pending == {c \in Callers : next[c] # "idle"}
<1> USE DEF IInv, TypeOK, Promise!Next, Promise!server, Promise!callers, Promise!vars
<1>1. ASSUME NEW line \in {"event", "bad", "error", "blank"}, Push(line)
      PROVE  Promise!Push(line)
    BY <1>1 DEF Push, Promise!Push
<1>2. ASSUME HangUp PROVE Promise!HangUp
    BY <1>2 DEF HangUp, Promise!HangUp
<1>3. ASSUME ReadLine PROVE Promise!SkipBlank \/ UNCHANGED Promise!vars
    BY <1>3 DEF ReadLine, HandInv, Promise!SkipBlank, Promise!Ahead, Promise!Line
<1>4. ASSUME ReadError \/ ReaderQuits PROVE UNCHANGED Promise!vars
    BY <1>4 DEF ReadError, ReaderQuits
<1>5. ASSUME NEW c \in Callers, CallNext(c) PROVE Promise!CallNext(c)
    BY <1>5 DEF CallNext, Promise!CallNext
<1>6. ASSUME NEW c \in Callers, Cancel(c) PROVE Promise!Cancel(c)
    BY <1>6 DEF Cancel, Promise!Cancel
\* The caller's place changes, not whether it is in Next.
<1>7. ASSUME NEW c \in Callers, NEW label \in {"enter", "select", "set", "terminal"},
             next[c] # "idle", Goto(c, label)
      PROVE  UNCHANGED <<Pending, Promise!callers>>
    BY <1>7 DEF Goto
<1>8. ASSUME NEW c \in Callers, next[c] # "idle", next' = [next EXCEPT ![c] = "idle"]
      PROVE  c \in Pending /\ Pending' = Pending \ {c}
    BY <1>8
<1>9. ASSUME NEW c \in Callers, Enter(c) PROVE Promise!Fail(c) \/ UNCHANGED Promise!vars
    <2>1. UNCHANGED <<sent, hungUp, closed, readErr, handed>> /\ next[c] # "idle"
        BY <1>9 DEF Enter
    <2>2. CASE c \in ctx
        <3>1. Return(c, "ctx")
            BY <1>9, <2>2 DEF Enter
        <3>2. Promise!Return(c, "ctx")
            BY <1>8, <2>1, <3>1 DEF Return, Promise!Return
        <3> QED
            BY <2>1, <2>2, <3>2 DEF Promise!Fail
    <2>3. CASE c \notin ctx
        <3>1. PICK label \in {"select", "terminal"} : Goto(c, label)
            BY <1>9, <2>3 DEF Enter
        <3>2. UNCHANGED <<Pending, Promise!callers>>
            BY <1>7, <2>1, <3>1
        <3> QED
            BY <2>1, <3>2
    <2> QED
        BY <2>2, <2>3
<1>10. ASSUME NEW c \in Callers, SelectDone(c) PROVE Promise!Fail(c)
    <2>1. /\ UNCHANGED <<sent, hungUp, closed, readErr, handed>>
          /\ next[c] # "idle" /\ c \in ctx /\ Return(c, "ctx")
        BY <1>10 DEF SelectDone
    <2>2. Promise!Return(c, "ctx")
        BY <1>8, <2>1 DEF Return, Promise!Return
    <2> QED
        BY <2>1, <2>2 DEF Promise!Fail
<1>11. ASSUME NEW c \in Callers, SelectClosed(c) PROVE UNCHANGED Promise!vars
    BY <1>7, <1>11 DEF SelectClosed
<1>12. ASSUME NEW c \in Callers, SelectLine(c)
       PROVE  Promise!Deliver(c) \/ Promise!TakeError
    <2>1. handed < Len(sent) /\ Promise!Line = sent[taken] /\ handed' = handed + 1
        BY <1>12 DEF SelectLine, HandInv, Promise!Line
    <2>2. c \notin late
        BY <1>12 DEF SelectLine, CallInv
    <2>3. CASE sent[taken] = "event"
        BY <1>12, <2>1, <2>2, <2>3
           DEF SelectLine, Return, Promise!Deliver, Promise!Ahead, Promise!Return
    <2>4. CASE sent[taken] = "bad"
        BY <1>12, <2>1, <2>2, <2>4
           DEF SelectLine, Return, Promise!Deliver, Promise!Ahead, Promise!Return
    <2>5. CASE sent[taken] = "error"
        BY <1>7, <1>12, <2>1, <2>5 DEF SelectLine, Promise!TakeError, Promise!Ahead
    <2> QED
        BY <1>12, <2>3, <2>4, <2>5 DEF SelectLine
<1>13. ASSUME NEW c \in Callers, SelectErr(c) PROVE UNCHANGED Promise!vars
    BY <1>7, <1>13 DEF SelectErr
<1>14. ASSUME NEW c \in Callers, SetReadErr(c)
       PROVE  Promise!RecordEnd \/ UNCHANGED Promise!vars
    <2>1. got[c] \in Promise!Ends
        BY <1>14 DEF SetReadErr, CallInv, EndInv
    <2> QED
        BY <1>7, <1>14, <2>1 DEF SetReadErr, Promise!RecordEnd
<1>15. ASSUME NEW c \in Callers, Terminal(c) PROVE Promise!Fail(c)
    <2>1. Promise!Ends # {}
        BY <1>15 DEF Terminal, EndInv
    <2> QED
        BY <1>15, <2>1 DEF Terminal, Return, Promise!Fail, Promise!Return
<1>16. ASSUME NEW k \in Closers, CallClose(k) PROVE Promise!Close \/ UNCHANGED Promise!vars
    BY <1>16 DEF CallClose, Promise!Close
<1>17. ASSUME NEW k \in Closers, CloseConn(k) \/ OnceDone(k) PROVE UNCHANGED Promise!vars
    BY <1>17 DEF CloseConn, OnceDone
<1>18. ASSUME UNCHANGED vars PROVE UNCHANGED Promise!vars
    BY <1>18 DEF vars
<1> QED
    BY <1>1, <1>2, <1>3, <1>4, <1>5, <1>6, <1>9, <1>10, <1>11, <1>12, <1>13, <1>14,
       <1>15, <1>16, <1>17, <1>18
    DEF Next, Reader, Caller

\* The safety part of ImplementsFeed: Stream, with whatever goroutines call
\* it, is the one queue with one end.
THEOREM ImplementsFeedSafely == Spec => Promise!Safety
<1>1. Init => Promise!Init
    BY DEF Init, Promise!Init
<1> QED
    BY Inductive, StepFeed, <1>1, PTL DEF Spec, Promise!Safety
=============================================================================
