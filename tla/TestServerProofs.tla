-------------------------- MODULE TestServerProofs --------------------------
(***************************************************************************)
(* Theorems about TestServer and Subscription, for every set of            *)
(* connections, of waiters, of closers and of senders: that the            *)
(* subscriptions keep to the server they run on, that Close joins          *)
(* everything, that no wait misses an arrival, and that senders stay out   *)
(* of each other's frames.                                                 *)
(***************************************************************************)
EXTENDS Subscription, TLAPS

-----------------------------------------------------------------------------
(* The inductive invariant of TestServer, in parts. *)

\* A connection that no goroutine serves yet has left no trace but, while it
\* is being registered, its socket; one whose goroutine is over has none.
ConnInv ==
    /\ \A c \in Conns :
          serve[c] = "none" =>
             /\ c \notin cancelled \cup calls \cup subs
             /\ c \in sock => accepted = c
    /\ \A c \in Conns : client[c] = "away" => serve[c] = "none" /\ c \notin sock
    /\ \A c \in Conns : serve[c] = "over" => c \notin sock
    /\ accepted # None <=> acceptor = "register"
    /\ accepted # None => serve[accepted] = "none" /\ client[accepted] # "away"

\* A watcher runs between the request and the end of its connection.
PeerInv ==
    /\ \A c \in Conns : serve[c] \in {"none", "read"} => peer[c] = "none"
    /\ \A c \in Conns : peer[c] = "reading" => serve[c] \notin {"leave", "over"}
    /\ cancelled \cap sock = {}
    /\ \A c \in Conns : serve[c] \in {"acknowledge", "publish"} => c \in calls

\* Once a Close is done nothing is left that could start a goroutine.
DoneInv ==
    (\E k \in Closers : closer[k] = "done") =>
        acceptor = "over" /\ \A c \in Conns : serve[c] \in {"none", "over"}

\* A waiter that blocks waits for something, and it has not arrived.
WaitInv ==
    /\ \A w \in Waiters : changed[w] # "none" => wait[w] # None
    /\ NoLostWakeup

IInv ==
    /\ TypeOK
    /\ ConnInv
    /\ PeerInv
    /\ DoneInv
    /\ WaitInv

-----------------------------------------------------------------------------
(* The inductive invariant of Subscription, in parts. *)

\* It took the token of its subscription and has not put it back.
HasToken(s) ==
    sender[s] \in {"writing", "half", "wrote", "failed", "stopped", "broken"}

\* The gate lets one sender write on a connection at a time.
GateInv ==
    /\ \A s \in Senders : sender[s] # "idle" => target[s] \in subs
    /\ \A s \in Senders : HasToken(s) => target[s] \notin gate
    /\ \A s, t \in Senders :
          HasToken(s) /\ HasToken(t) /\ target[s] = target[t] => s = t

\* A context's function is set up around a write and joined after it.
AfterInv ==
    /\ \A s \in Senders :
          after[s] # "none" <=> sender[s] \in {"writing", "half", "wrote", "failed"}
    /\ \A s \in Senders : after[s] \in {"started", "ran"} => s \in ctxDone
    /\ \A s \in Senders : sender[s] = "idle" => s \notin ctxDone

\* What is on the wire was written on a subscription; a sender that wrote half
\* a frame wrote the last piece.
HalfInv ==
    /\ \A c \in Conns : wire[c] # <<>> => c \in subs
    /\ \A s \in Senders :
          sender[s] = "half" =>
             /\ wire[target[s]] # <<>>
             /\ wire[target[s]][Len(wire[target[s]])] = <<s, "head">>

\* A deadline that passed was set by a sender that will close the connection.
DeadlineInv ==
    /\ deadline \subseteq subs
    /\ OwnDeadline

SubInv ==
    /\ ServerTypeOK
    /\ GateInv
    /\ AfterInv
    /\ HalfInv
    /\ DeadlineInv
    /\ WholeFrames

-----------------------------------------------------------------------------
(* The server alone *)

USE NamesAssumption
    DEF clientVars, acceptVars, connVars, closeVars, recordVars, waitVars, Routes

\* Before the first connection.
LEMMA InitInv == Init => IInv
<1> SUFFICES ASSUME Init PROVE IInv
    OBVIOUS
<1>1. client \in [Conns -> {"away", "here", "sent", "gone"}]
    BY DEF Init
<1>2. TypeOK
    BY <1>1 DEF Init, TypeOK
<1>3. ConnInv /\ PeerInv
    BY DEF Init, ConnInv, PeerInv
<1>4. DoneInv /\ WaitInv
    BY DEF Init, DoneInv, WaitInv, NoLostWakeup
<1> QED
    BY <1>2, <1>3, <1>4 DEF IInv

\* No step takes a variable out of its type.
LEMMA StepType == TypeOK /\ ConnInv /\ PeerInv /\ [Next]_vars => TypeOK'
<1> SUFFICES ASSUME TypeOK, ConnInv, PeerInv, [Next]_vars PROVE TypeOK'
    OBVIOUS
<1> USE DEF TypeOK, ConnInv, PeerInv
<1>1. ASSUME AcceptFails PROVE TypeOK'
    BY <1>1 DEF AcceptFails
<1>2. ASSUME Register PROVE TypeOK'
    BY <1>2 DEF Register
<1>3. ASSUME NEW c \in Conns, Accept(c) PROVE TypeOK'
    BY <1>3 DEF Accept
<1>4. ASSUME NEW c \in Conns, SendRequest(c) PROVE TypeOK'
    BY <1>4 DEF SendRequest
<1>5. ASSUME NEW c \in Conns, Disconnect(c) PROVE TypeOK'
    BY <1>5 DEF Disconnect
<1>6. ASSUME NEW c \in Conns, ReadRequest(c) PROVE TypeOK'
    BY <1>6 DEF ReadRequest
<1>7. ASSUME NEW c \in Conns, Record(c) PROVE TypeOK'
    BY <1>7 DEF Record, Notify
<1>8. ASSUME NEW c \in Conns, Refuse(c) PROVE TypeOK'
    BY <1>8 DEF Refuse, Respond
<1>9. ASSUME NEW c \in Conns, Acknowledge(c) PROVE TypeOK'
    BY <1>9 DEF Acknowledge, Respond
<1>10. ASSUME NEW c \in Conns, Publish(c) PROVE TypeOK'
    BY <1>10 DEF Publish, Notify
<1>11. ASSUME NEW c \in Conns, SubscriptionEnds(c) PROVE TypeOK'
    BY <1>11 DEF SubscriptionEnds
<1>12. ASSUME NEW c \in Conns, Unwind(c) PROVE TypeOK'
    BY <1>12 DEF Unwind
<1>13. ASSUME NEW c \in Conns, JoinPeer(c) PROVE TypeOK'
    BY <1>13 DEF JoinPeer
<1>14. ASSUME NEW c \in Conns, Leave(c) PROVE TypeOK'
    BY <1>14 DEF Leave
<1>15. ASSUME NEW c \in Conns, HandlerReturns(c) PROVE TypeOK'
    BY <1>15 DEF HandlerReturns, Respond
<1>16. ASSUME NEW c \in Conns, PeerGone(c) PROVE TypeOK'
    BY <1>16 DEF PeerGone
<1>17. ASSUME NEW c \in Conns, CloseSubscription(c) PROVE TypeOK'
    BY <1>17 DEF CloseSubscription
<1>18. ASSUME NEW k \in Closers, Close(k) PROVE TypeOK'
    <2>1. closer' \in [Closers -> {"idle", "locked", "joining", "waiting", "done"}]
        BY <1>18 DEF Close
    <2> QED
        BY <1>18, <2>1 DEF Close
<1>19. ASSUME NEW k \in Closers, CloseSockets(k) PROVE TypeOK'
    BY <1>19 DEF CloseSockets
<1>20. ASSUME NEW k \in Closers, CloseReturns(k) PROVE TypeOK'
    BY <1>20 DEF CloseReturns
<1>21. ASSUME NEW w \in Waiters, NEW entry \in Wanted, CallWait(w, entry) PROVE TypeOK'
    BY <1>21 DEF CallWait
<1>22. ASSUME NEW w \in Waiters, WaitLook(w) PROVE TypeOK'
    BY <1>22 DEF WaitLook
<1>23. ASSUME NEW w \in Waiters, WaitWake(w) PROVE TypeOK'
    BY <1>23 DEF WaitWake
<1>24. ASSUME UNCHANGED vars PROVE TypeOK'
    BY <1>24 DEF vars
<1> QED
    BY <1>1, <1>2, <1>3, <1>4, <1>5, <1>6, <1>7, <1>8, <1>9, <1>10, <1>11, <1>12,
       <1>13, <1>14, <1>15, <1>16, <1>17, <1>18, <1>19, <1>20, <1>21, <1>22, <1>23, <1>24
    DEF Next, AcceptSteps, ServeSteps

\* Sockets and records belong to connections that are being served.
LEMMA StepConn == TypeOK /\ ConnInv /\ PeerInv /\ [Next]_vars => ConnInv'
<1> SUFFICES ASSUME TypeOK, ConnInv, PeerInv, [Next]_vars PROVE ConnInv'
    OBVIOUS
<1> USE DEF TypeOK, ConnInv, PeerInv
<1>1. ASSUME AcceptFails PROVE ConnInv'
    BY <1>1 DEF AcceptFails
<1>2. ASSUME Register PROVE ConnInv'
    BY <1>2 DEF Register
<1>3. ASSUME NEW c \in Conns, Accept(c) PROVE ConnInv'
    BY <1>3 DEF Accept
<1>4. ASSUME NEW c \in Conns, SendRequest(c) PROVE ConnInv'
    BY <1>4 DEF SendRequest
<1>5. ASSUME NEW c \in Conns, Disconnect(c) PROVE ConnInv'
    BY <1>5 DEF Disconnect
<1>6. ASSUME NEW c \in Conns, ReadRequest(c) PROVE ConnInv'
    BY <1>6 DEF ReadRequest
<1>7. ASSUME NEW c \in Conns, Record(c) PROVE ConnInv'
    BY <1>7 DEF Record, Notify
<1>8. ASSUME NEW c \in Conns, Refuse(c) PROVE ConnInv'
    BY <1>8 DEF Refuse, Respond
<1>9. ASSUME NEW c \in Conns, Acknowledge(c) PROVE ConnInv'
    BY <1>9 DEF Acknowledge, Respond
<1>10. ASSUME NEW c \in Conns, Publish(c) PROVE ConnInv'
    BY <1>10 DEF Publish, Notify
<1>11. ASSUME NEW c \in Conns, SubscriptionEnds(c) PROVE ConnInv'
    BY <1>11 DEF SubscriptionEnds
<1>12. ASSUME NEW c \in Conns, Unwind(c) PROVE ConnInv'
    BY <1>12 DEF Unwind
<1>13. ASSUME NEW c \in Conns, JoinPeer(c) PROVE ConnInv'
    BY <1>13 DEF JoinPeer
<1>14. ASSUME NEW c \in Conns, Leave(c) PROVE ConnInv'
    BY <1>14 DEF Leave
<1>15. ASSUME NEW c \in Conns, HandlerReturns(c) PROVE ConnInv'
    BY <1>15 DEF HandlerReturns, Respond
<1>16. ASSUME NEW c \in Conns, PeerGone(c) PROVE ConnInv'
    BY <1>16 DEF PeerGone
<1>17. ASSUME NEW c \in Conns, CloseSubscription(c) PROVE ConnInv'
    BY <1>17 DEF CloseSubscription
<1>18. ASSUME NEW k \in Closers, Close(k) PROVE ConnInv'
    BY <1>18 DEF Close
<1>19. ASSUME NEW k \in Closers, CloseSockets(k) PROVE ConnInv'
    BY <1>19 DEF CloseSockets
<1>20. ASSUME NEW k \in Closers, CloseReturns(k) PROVE ConnInv'
    BY <1>20 DEF CloseReturns
<1>21. ASSUME NEW w \in Waiters, NEW entry \in Wanted, CallWait(w, entry) PROVE ConnInv'
    BY <1>21 DEF CallWait
<1>22. ASSUME NEW w \in Waiters, WaitLook(w) PROVE ConnInv'
    BY <1>22 DEF WaitLook
<1>23. ASSUME NEW w \in Waiters, WaitWake(w) PROVE ConnInv'
    BY <1>23 DEF WaitWake
<1>24. ASSUME UNCHANGED vars PROVE ConnInv'
    BY <1>24 DEF vars
<1> QED
    BY <1>1, <1>2, <1>3, <1>4, <1>5, <1>6, <1>7, <1>8, <1>9, <1>10, <1>11, <1>12,
       <1>13, <1>14, <1>15, <1>16, <1>17, <1>18, <1>19, <1>20, <1>21, <1>22, <1>23, <1>24
    DEF Next, AcceptSteps, ServeSteps

\* A watcher lives within the service of its connection.
LEMMA StepPeer == TypeOK /\ ConnInv /\ PeerInv /\ [Next]_vars => PeerInv'
<1> SUFFICES ASSUME TypeOK, ConnInv, PeerInv, [Next]_vars PROVE PeerInv'
    OBVIOUS
<1> USE DEF TypeOK, ConnInv, PeerInv
<1>1. ASSUME AcceptFails PROVE PeerInv'
    BY <1>1 DEF AcceptFails
<1>2. ASSUME Register PROVE PeerInv'
    BY <1>2 DEF Register
<1>3. ASSUME NEW c \in Conns, Accept(c) PROVE PeerInv'
    BY <1>3 DEF Accept
<1>4. ASSUME NEW c \in Conns, SendRequest(c) PROVE PeerInv'
    BY <1>4 DEF SendRequest
<1>5. ASSUME NEW c \in Conns, Disconnect(c) PROVE PeerInv'
    BY <1>5 DEF Disconnect
<1>6. ASSUME NEW c \in Conns, ReadRequest(c) PROVE PeerInv'
    BY <1>6 DEF ReadRequest
<1>7. ASSUME NEW c \in Conns, Record(c) PROVE PeerInv'
    BY <1>7 DEF Record, Notify
<1>8. ASSUME NEW c \in Conns, Refuse(c) PROVE PeerInv'
    BY <1>8 DEF Refuse, Respond
<1>9. ASSUME NEW c \in Conns, Acknowledge(c) PROVE PeerInv'
    BY <1>9 DEF Acknowledge, Respond
<1>10. ASSUME NEW c \in Conns, Publish(c) PROVE PeerInv'
    BY <1>10 DEF Publish, Notify
<1>11. ASSUME NEW c \in Conns, SubscriptionEnds(c) PROVE PeerInv'
    BY <1>11 DEF SubscriptionEnds
<1>12. ASSUME NEW c \in Conns, Unwind(c) PROVE PeerInv'
    BY <1>12 DEF Unwind
<1>13. ASSUME NEW c \in Conns, JoinPeer(c) PROVE PeerInv'
    BY <1>13 DEF JoinPeer
<1>14. ASSUME NEW c \in Conns, Leave(c) PROVE PeerInv'
    BY <1>14 DEF Leave
<1>15. ASSUME NEW c \in Conns, HandlerReturns(c) PROVE PeerInv'
    BY <1>15 DEF HandlerReturns, Respond
<1>16. ASSUME NEW c \in Conns, PeerGone(c) PROVE PeerInv'
    BY <1>16 DEF PeerGone
<1>17. ASSUME NEW c \in Conns, CloseSubscription(c) PROVE PeerInv'
    BY <1>17 DEF CloseSubscription
<1>18. ASSUME NEW k \in Closers, Close(k) PROVE PeerInv'
    BY <1>18 DEF Close
<1>19. ASSUME NEW k \in Closers, CloseSockets(k) PROVE PeerInv'
    BY <1>19 DEF CloseSockets
<1>20. ASSUME NEW k \in Closers, CloseReturns(k) PROVE PeerInv'
    BY <1>20 DEF CloseReturns
<1>21. ASSUME NEW w \in Waiters, NEW entry \in Wanted, CallWait(w, entry) PROVE PeerInv'
    BY <1>21 DEF CallWait
<1>22. ASSUME NEW w \in Waiters, WaitLook(w) PROVE PeerInv'
    BY <1>22 DEF WaitLook
<1>23. ASSUME NEW w \in Waiters, WaitWake(w) PROVE PeerInv'
    BY <1>23 DEF WaitWake
<1>24. ASSUME UNCHANGED vars PROVE PeerInv'
    BY <1>24 DEF vars
<1> QED
    BY <1>1, <1>2, <1>3, <1>4, <1>5, <1>6, <1>7, <1>8, <1>9, <1>10, <1>11, <1>12,
       <1>13, <1>14, <1>15, <1>16, <1>17, <1>18, <1>19, <1>20, <1>21, <1>22, <1>23, <1>24
    DEF Next, AcceptSteps, ServeSteps

\* Nothing starts after a Close is done.
LEMMA StepDone == TypeOK /\ ConnInv /\ DoneInv /\ [Next]_vars => DoneInv'
<1> SUFFICES ASSUME TypeOK, ConnInv, DoneInv, [Next]_vars PROVE DoneInv'
    OBVIOUS
<1> USE DEF TypeOK, ConnInv, DoneInv, Joined
<1>1. ASSUME AcceptFails PROVE DoneInv'
    BY <1>1 DEF AcceptFails
<1>2. ASSUME Register PROVE DoneInv'
    BY <1>2 DEF Register
<1>3. ASSUME NEW c \in Conns, Accept(c) PROVE DoneInv'
    BY <1>3 DEF Accept
<1>4. ASSUME NEW c \in Conns, SendRequest(c) PROVE DoneInv'
    BY <1>4 DEF SendRequest
<1>5. ASSUME NEW c \in Conns, Disconnect(c) PROVE DoneInv'
    BY <1>5 DEF Disconnect
<1>6. ASSUME NEW c \in Conns, ReadRequest(c) PROVE DoneInv'
    BY <1>6 DEF ReadRequest
<1>7. ASSUME NEW c \in Conns, Record(c) PROVE DoneInv'
    BY <1>7 DEF Record, Notify
<1>8. ASSUME NEW c \in Conns, Refuse(c) PROVE DoneInv'
    BY <1>8 DEF Refuse, Respond
<1>9. ASSUME NEW c \in Conns, Acknowledge(c) PROVE DoneInv'
    BY <1>9 DEF Acknowledge, Respond
<1>10. ASSUME NEW c \in Conns, Publish(c) PROVE DoneInv'
    BY <1>10 DEF Publish, Notify
<1>11. ASSUME NEW c \in Conns, SubscriptionEnds(c) PROVE DoneInv'
    BY <1>11 DEF SubscriptionEnds
<1>12. ASSUME NEW c \in Conns, Unwind(c) PROVE DoneInv'
    BY <1>12 DEF Unwind
<1>13. ASSUME NEW c \in Conns, JoinPeer(c) PROVE DoneInv'
    BY <1>13 DEF JoinPeer
<1>14. ASSUME NEW c \in Conns, Leave(c) PROVE DoneInv'
    BY <1>14 DEF Leave
<1>15. ASSUME NEW c \in Conns, HandlerReturns(c) PROVE DoneInv'
    BY <1>15 DEF HandlerReturns, Respond
<1>16. ASSUME NEW c \in Conns, PeerGone(c) PROVE DoneInv'
    BY <1>16 DEF PeerGone
<1>17. ASSUME NEW c \in Conns, CloseSubscription(c) PROVE DoneInv'
    BY <1>17 DEF CloseSubscription
<1>18. ASSUME NEW k \in Closers, Close(k) PROVE DoneInv'
    BY <1>18 DEF Close
<1>19. ASSUME NEW k \in Closers, CloseSockets(k) PROVE DoneInv'
    BY <1>19 DEF CloseSockets
<1>20. ASSUME NEW k \in Closers, CloseReturns(k) PROVE DoneInv'
    BY <1>20 DEF CloseReturns
<1>21. ASSUME NEW w \in Waiters, NEW entry \in Wanted, CallWait(w, entry) PROVE DoneInv'
    BY <1>21 DEF CallWait
<1>22. ASSUME NEW w \in Waiters, WaitLook(w) PROVE DoneInv'
    BY <1>22 DEF WaitLook
<1>23. ASSUME NEW w \in Waiters, WaitWake(w) PROVE DoneInv'
    BY <1>23 DEF WaitWake
<1>24. ASSUME UNCHANGED vars PROVE DoneInv'
    BY <1>24 DEF vars
<1> QED
    BY <1>1, <1>2, <1>3, <1>4, <1>5, <1>6, <1>7, <1>8, <1>9, <1>10, <1>11, <1>12,
       <1>13, <1>14, <1>15, <1>16, <1>17, <1>18, <1>19, <1>20, <1>21, <1>22, <1>23, <1>24
    DEF Next, AcceptSteps, ServeSteps

\* An arrival closes the channel of every waiter that blocks.
LEMMA StepWait == TypeOK /\ WaitInv /\ [Next]_vars => WaitInv'
<1> SUFFICES ASSUME TypeOK, WaitInv, [Next]_vars PROVE WaitInv'
    OBVIOUS
<1> USE DEF TypeOK, WaitInv, NoLostWakeup, Arrived
<1>1. ASSUME AcceptFails PROVE WaitInv'
    BY <1>1 DEF AcceptFails
<1>2. ASSUME Register PROVE WaitInv'
    BY <1>2 DEF Register
<1>3. ASSUME NEW c \in Conns, Accept(c) PROVE WaitInv'
    BY <1>3 DEF Accept
<1>4. ASSUME NEW c \in Conns, SendRequest(c) PROVE WaitInv'
    BY <1>4 DEF SendRequest
<1>5. ASSUME NEW c \in Conns, Disconnect(c) PROVE WaitInv'
    BY <1>5 DEF Disconnect
<1>6. ASSUME NEW c \in Conns, ReadRequest(c) PROVE WaitInv'
    BY <1>6 DEF ReadRequest
<1>7. ASSUME NEW c \in Conns, Record(c) PROVE WaitInv'
    BY <1>7 DEF Record, Notify
<1>8. ASSUME NEW c \in Conns, Refuse(c) PROVE WaitInv'
    BY <1>8 DEF Refuse, Respond
<1>9. ASSUME NEW c \in Conns, Acknowledge(c) PROVE WaitInv'
    BY <1>9 DEF Acknowledge, Respond
<1>10. ASSUME NEW c \in Conns, Publish(c) PROVE WaitInv'
    BY <1>10 DEF Publish, Notify
<1>11. ASSUME NEW c \in Conns, SubscriptionEnds(c) PROVE WaitInv'
    BY <1>11 DEF SubscriptionEnds
<1>12. ASSUME NEW c \in Conns, Unwind(c) PROVE WaitInv'
    BY <1>12 DEF Unwind
<1>13. ASSUME NEW c \in Conns, JoinPeer(c) PROVE WaitInv'
    BY <1>13 DEF JoinPeer
<1>14. ASSUME NEW c \in Conns, Leave(c) PROVE WaitInv'
    BY <1>14 DEF Leave
<1>15. ASSUME NEW c \in Conns, HandlerReturns(c) PROVE WaitInv'
    BY <1>15 DEF HandlerReturns, Respond
<1>16. ASSUME NEW c \in Conns, PeerGone(c) PROVE WaitInv'
    BY <1>16 DEF PeerGone
<1>17. ASSUME NEW c \in Conns, CloseSubscription(c) PROVE WaitInv'
    BY <1>17 DEF CloseSubscription
<1>18. ASSUME NEW k \in Closers, Close(k) PROVE WaitInv'
    BY <1>18 DEF Close
<1>19. ASSUME NEW k \in Closers, CloseSockets(k) PROVE WaitInv'
    BY <1>19 DEF CloseSockets
<1>20. ASSUME NEW k \in Closers, CloseReturns(k) PROVE WaitInv'
    BY <1>20 DEF CloseReturns
<1>21. ASSUME NEW w \in Waiters, NEW entry \in Wanted, CallWait(w, entry) PROVE WaitInv'
    BY <1>21 DEF CallWait
<1>22. ASSUME NEW w \in Waiters, WaitLook(w) PROVE WaitInv'
    BY <1>22 DEF WaitLook
<1>23. ASSUME NEW w \in Waiters, WaitWake(w) PROVE WaitInv'
    BY <1>23 DEF WaitWake
<1>24. ASSUME UNCHANGED vars PROVE WaitInv'
    BY <1>24 DEF vars
<1> QED
    BY <1>1, <1>2, <1>3, <1>4, <1>5, <1>6, <1>7, <1>8, <1>9, <1>10, <1>11, <1>12,
       <1>13, <1>14, <1>15, <1>16, <1>17, <1>18, <1>19, <1>20, <1>21, <1>22, <1>23, <1>24
    DEF Next, AcceptSteps, ServeSteps

\* Every step of the server, its clients or the test keeps all of its parts.
LEMMA StepInv == IInv /\ [Next]_vars => IInv'
    BY StepType, StepConn, StepPeer, StepDone, StepWait DEF IInv

\* The server's goroutines, its registration under the lock and its waiters keep
\* to the invariant whatever clients, handlers and the test do.
THEOREM Inductive == Spec => []IInv
    BY InitInv, StepInv, PTL DEF Spec

\* Once a Close is done, every socket, goroutine and watcher is.
LEMMA InvJoins == IInv => CloseJoins
BY DEF IInv, TypeOK, ConnInv, PeerInv, DoneInv, CloseJoins

-----------------------------------------------------------------------------
(* The server with the subscriptions' senders *)

USE DEF sendVars

\* What the server does to what the senders look at: subscriptions are never
\* taken back and a closed connection is not opened again.
LEMMA ServerFacts ==
    ASSUME IInv, [Next]_vars
    PROVE  subs \subseteq subs' /\ subs \cap sock' \subseteq sock
<1> USE DEF IInv, TypeOK, ConnInv
<1>1. ASSUME NEW c \in Conns, Accept(c)
      PROVE  subs \subseteq subs' /\ subs \cap sock' \subseteq sock
    BY <1>1 DEF Accept
<1>2. CASE UNCHANGED subs /\ sock' \subseteq sock
    BY <1>2
<1>3. ASSUME NEW c \in Conns, Publish(c)
      PROVE  subs \subseteq subs' /\ subs \cap sock' \subseteq sock
    BY <1>3 DEF Publish
<1> QED
    BY <1>1, <1>2, <1>3
    DEF Next, AcceptSteps, AcceptFails, Register, SendRequest, Disconnect, ServeSteps,
        ReadRequest, Record, Refuse, Acknowledge, SubscriptionEnds, Unwind, JoinPeer,
        Leave, HandlerReturns, PeerGone, CloseSubscription, Close, CloseSockets,
        CloseReturns, CallWait, WaitLook, WaitWake, vars

\* To the server a sender is nobody, or a test that closes its subscription:
\* EndWrite after a write that failed or may have been interrupted.
LEMMA StepServer == IInv /\ SubInv /\ [SubscriptionNext]_allVars => [Next]_vars
<1> SUFFICES ASSUME IInv, SubInv, [SubscriptionNext]_allVars
             PROVE  Next \/ UNCHANGED vars
    OBVIOUS
<1>1. ASSUME NEW s \in Senders, EndWrite(s) PROVE Next \/ UNCHANGED vars
    <2>1. target[s] \in subs /\ target[s] \in Conns
        BY <1>1 DEF EndWrite, SubInv, GateInv, IInv, TypeOK
    <2>2. cancelled \cap sock = {}
        BY DEF IInv, PeerInv
    <2>3. CASE (sender[s] = "broken" \/ s \in ctxDone) /\ target[s] \notin cancelled
        <3>1. CloseSubscription(target[s])
            BY <1>1, <2>1, <2>3 DEF EndWrite, CloseSubscription
        <3> QED
            BY <2>1, <3>1 DEF Next
    <2>4. CASE ~(sender[s] = "broken" \/ s \in ctxDone) \/ target[s] \in cancelled
        BY <1>1, <2>2, <2>4 DEF EndWrite, vars
    <2> QED
        BY <2>3, <2>4
<1> QED
    BY <1>1
    DEF SubscriptionNext, SendSteps, SendRaw, CancelSend, AfterFunc, GiveUp, EnterGate,
        Write, WriteFails, StopAfterFunc, allVars

\* No subscription before the first connection.
LEMMA InitSub == SubscriptionInit => IInv /\ SubInv
<1> SUFFICES ASSUME SubscriptionInit PROVE IInv /\ SubInv
    OBVIOUS
<1>1. IInv
    BY InitInv DEF SubscriptionInit
<1>2. ServerTypeOK
    <2>1. wire \in [Conns -> Seq(Senders \X {"head", "tail"})]
        BY DEF SubscriptionInit
    <2> QED
        BY <1>1, <2>1, SendersAssumption DEF SubscriptionInit, ServerTypeOK, IInv
<1>3. GateInv /\ AfterInv
    BY DEF SubscriptionInit, GateInv, AfterInv, HasToken
<1>4. HalfInv /\ DeadlineInv /\ WholeFrames
    <2>1. \A c \in Conns : DOMAIN wire[c] = {}
        BY DEF SubscriptionInit
    <2> QED
        BY <2>1 DEF SubscriptionInit, HalfInv, DeadlineInv, WholeFrames, OwnDeadline
<1> QED
    BY <1>1, <1>2, <1>3, <1>4 DEF SubInv

\* No sender takes a variable out of its type.
LEMMA StepSubType ==
    IInv /\ SubInv /\ [SubscriptionNext]_allVars => ServerTypeOK'
<1>0. IInv /\ SubInv /\ [SubscriptionNext]_allVars => TypeOK'
    BY StepServer, StepInv DEF IInv
<1> SUFFICES ASSUME IInv, ServerTypeOK, GateInv, AfterInv, TypeOK',
                    [SubscriptionNext]_allVars
             PROVE  ServerTypeOK'
    BY <1>0 DEF SubInv
<1> USE SendersAssumption DEF ServerTypeOK, GateInv, IInv, TypeOK, HasToken
<1>1. ASSUME [Next]_vars, UNCHANGED sendVars PROVE ServerTypeOK'
    BY <1>1, ServerFacts
<1>2. ASSUME NEW s \in Senders, NEW c \in Conns, SendRaw(s, c) PROVE ServerTypeOK'
    BY <1>2 DEF SendRaw, Goes, vars
<1>3. ASSUME NEW s \in Senders, CancelSend(s) PROVE ServerTypeOK'
    BY <1>3 DEF CancelSend, vars
<1>4. ASSUME NEW s \in Senders, AfterFunc(s) PROVE ServerTypeOK'
    BY <1>4 DEF AfterFunc, AfterInv, vars
<1>5. ASSUME NEW s \in Senders, GiveUp(s) PROVE ServerTypeOK'
    BY <1>5 DEF GiveUp, Returned, Goes, vars
<1>6. ASSUME NEW s \in Senders, EnterGate(s) PROVE ServerTypeOK'
    BY <1>6 DEF EnterGate, Goes, vars
<1>7. ASSUME NEW s \in Senders, Write(s) PROVE ServerTypeOK'
    <2>1. target[s] \in Conns
        BY <1>7 DEF Write
    <2>2. wire[target[s]] \in Seq(Senders \X {"head", "tail"})
        BY <2>1
    <2>3. PICK end \in {"head", "tail"} :
             wire' = [wire EXCEPT ![target[s]] = Append(@, <<s, end>>)]
        BY <1>7 DEF Write
    <2>4. Append(wire[target[s]], <<s, end>>) \in Seq(Senders \X {"head", "tail"})
        BY <2>2
    <2>5. wire' \in [Conns -> Seq(Senders \X {"head", "tail"})]
        BY <2>3, <2>4
    <2>6. PICK to \in {"half", "wrote"} : sender' = [sender EXCEPT ![s] = to]
        BY <1>7 DEF Write, Goes
    <2> QED
        BY <1>7, <2>5, <2>6 DEF Write, vars
<1>8. ASSUME NEW s \in Senders, WriteFails(s) PROVE ServerTypeOK'
    BY <1>8 DEF WriteFails, Goes, vars
<1>9. ASSUME NEW s \in Senders, StopAfterFunc(s) PROVE ServerTypeOK'
    BY <1>9 DEF StopAfterFunc, Goes, vars
<1>10. ASSUME NEW s \in Senders, EndWrite(s) PROVE ServerTypeOK'
    BY <1>10 DEF EndWrite, Returned, Goes
<1> QED
    BY <1>1, <1>2, <1>3, <1>4, <1>5, <1>6, <1>7, <1>8, <1>9, <1>10
    DEF SubscriptionNext, SendSteps, allVars

\* The token of a subscription is with one sender, or at the gate.
LEMMA StepGate == IInv /\ SubInv /\ [SubscriptionNext]_allVars => GateInv'
<1> SUFFICES ASSUME IInv, ServerTypeOK, GateInv,
                    [SubscriptionNext]_allVars
             PROVE  GateInv'
    BY DEF SubInv
<1> USE DEF ServerTypeOK, GateInv, HasToken
\* A step that leaves the gates alone and gives nobody a token.
<1>0. ASSUME UNCHANGED <<target, gate, subs>>,
             \A s \in Senders : sender'[s] # "idle" => sender[s] # "idle",
             \A s \in Senders : HasToken(s)' => HasToken(s)
      PROVE  GateInv'
    BY <1>0
<1>1. ASSUME [Next]_vars, UNCHANGED sendVars PROVE GateInv'
    BY <1>1, ServerFacts
<1>2. ASSUME NEW s \in Senders, NEW c \in Conns, SendRaw(s, c) PROVE GateInv'
    BY <1>2 DEF SendRaw, Goes, vars
<1>3. ASSUME NEW s \in Senders, CancelSend(s) PROVE GateInv'
    BY <1>3 DEF CancelSend, vars
<1>4. ASSUME NEW s \in Senders, AfterFunc(s) PROVE GateInv'
    BY <1>4 DEF AfterFunc, vars
<1>5. ASSUME NEW s \in Senders, GiveUp(s) PROVE GateInv'
    BY <1>5 DEF GiveUp, Returned, Goes, vars
<1>6. ASSUME NEW s \in Senders, EnterGate(s) PROVE GateInv'
    BY <1>6, SMTT(30) DEF EnterGate, Goes, vars
<1>7. ASSUME NEW s \in Senders, Write(s) PROVE GateInv'
    <2>1. UNCHANGED <<target, gate, subs>>
        BY <1>7 DEF Write, vars
    <2>2. PICK place \in {"half", "wrote"} : sender' = [sender EXCEPT ![s] = place]
        BY <1>7 DEF Write, Goes
    <2> QED
        BY <1>0, <1>7, <2>1, <2>2 DEF Write
<1>8. ASSUME NEW s \in Senders, WriteFails(s) PROVE GateInv'
    <2>1. UNCHANGED <<target, gate, subs>> /\ sender' = [sender EXCEPT ![s] = "failed"]
        BY <1>8 DEF WriteFails, Goes, vars
    <2> QED
        BY <1>0, <1>8, <2>1 DEF WriteFails
<1>9. ASSUME NEW s \in Senders, StopAfterFunc(s) PROVE GateInv'
    <2>1. UNCHANGED <<target, gate, subs>>
        BY <1>9 DEF StopAfterFunc, vars
    <2>2. PICK place \in {"broken", "stopped"} : sender' = [sender EXCEPT ![s] = place]
        BY <1>9 DEF StopAfterFunc, Goes
    <2> QED
        BY <1>0, <1>9, <2>1, <2>2 DEF StopAfterFunc
<1>10. ASSUME NEW s \in Senders, EndWrite(s) PROVE GateInv'
    BY <1>10 DEF EndWrite, Returned, Goes
<1> QED
    BY <1>1, <1>2, <1>3, <1>4, <1>5, <1>6, <1>7, <1>8, <1>9, <1>10
    DEF SubscriptionNext, SendSteps, allVars

\* A function that AfterFunc started is joined before the token goes back.
LEMMA StepAfter == IInv /\ SubInv /\ [SubscriptionNext]_allVars => AfterInv'
<1> SUFFICES ASSUME IInv, ServerTypeOK, AfterInv,
                    [SubscriptionNext]_allVars
             PROVE  AfterInv'
    BY DEF SubInv
<1> USE DEF ServerTypeOK, AfterInv
<1>1. ASSUME [Next]_vars, UNCHANGED sendVars PROVE AfterInv'
    BY <1>1, ServerFacts
<1>2. ASSUME NEW s \in Senders, NEW c \in Conns, SendRaw(s, c) PROVE AfterInv'
    BY <1>2 DEF SendRaw, Goes, vars
<1>3. ASSUME NEW s \in Senders, CancelSend(s) PROVE AfterInv'
    BY <1>3 DEF CancelSend, vars
<1>4. ASSUME NEW s \in Senders, AfterFunc(s) PROVE AfterInv'
    BY <1>4 DEF AfterFunc, vars
<1>5. ASSUME NEW s \in Senders, GiveUp(s) PROVE AfterInv'
    BY <1>5 DEF GiveUp, Returned, Goes, vars
<1>6. ASSUME NEW s \in Senders, EnterGate(s) PROVE AfterInv'
    BY <1>6 DEF EnterGate, Goes, vars
<1>7. ASSUME NEW s \in Senders, Write(s) PROVE AfterInv'
    BY <1>7 DEF Write, Goes, vars
<1>8. ASSUME NEW s \in Senders, WriteFails(s) PROVE AfterInv'
    BY <1>8 DEF WriteFails, Goes, vars
<1>9. ASSUME NEW s \in Senders, StopAfterFunc(s) PROVE AfterInv'
    BY <1>9 DEF StopAfterFunc, Goes, vars
<1>10. ASSUME NEW s \in Senders, EndWrite(s) PROVE AfterInv'
    BY <1>10 DEF EndWrite, Returned, Goes
<1> QED
    BY <1>1, <1>2, <1>3, <1>4, <1>5, <1>6, <1>7, <1>8, <1>9, <1>10
    DEF SubscriptionNext, SendSteps, allVars

\* Only the sender whose turn it is writes, one piece after the other.
LEMMA StepHalf == IInv /\ SubInv /\ [SubscriptionNext]_allVars => HalfInv'
<1> SUFFICES ASSUME IInv, SubInv, [SubscriptionNext]_allVars PROVE HalfInv'
    OBVIOUS
<1> USE DEF SubInv, ServerTypeOK, HalfInv, HasToken
<1>1. ASSUME [Next]_vars, UNCHANGED sendVars PROVE HalfInv'
    BY <1>1, ServerFacts
<1>2. ASSUME NEW s \in Senders, NEW c \in Conns, SendRaw(s, c) PROVE HalfInv'
    BY <1>2 DEF SendRaw, Goes, vars
<1>3. ASSUME NEW s \in Senders, CancelSend(s) PROVE HalfInv'
    BY <1>3 DEF CancelSend, vars
<1>4. ASSUME NEW s \in Senders, AfterFunc(s) PROVE HalfInv'
    BY <1>4 DEF AfterFunc, vars
<1>5. ASSUME NEW s \in Senders, GiveUp(s) PROVE HalfInv'
    BY <1>5 DEF GiveUp, Returned, Goes, vars
<1>6. ASSUME NEW s \in Senders, EnterGate(s) PROVE HalfInv'
    BY <1>6 DEF EnterGate, Goes, vars
<1>7. ASSUME NEW s \in Senders, Write(s) PROVE HalfInv'
    <2>1. /\ target[s] \in Conns
          /\ wire[target[s]] \in Seq(Senders \X {"head", "tail"})
          /\ target[s] \in subs
        BY <1>7 DEF Write, GateInv, TypeOK
    <2>2. PICK end \in {"head", "tail"} :
             /\ wire' = [wire EXCEPT ![target[s]] = Append(@, <<s, end>>)]
             /\ sender' = [sender EXCEPT ![s] = IF end = "head" THEN "half" ELSE "wrote"]
        BY <1>7 DEF Write, Goes
    <2>3. /\ wire'[target[s]] # <<>>
          /\ wire'[target[s]][Len(wire'[target[s]])] = <<s, end>>
        BY <2>1, <2>2
    <2>4. \A t \in Senders : t # s /\ sender[t] = "half" => target[t] # target[s]
        BY <1>7 DEF Write, GateInv
    <2>5. UNCHANGED <<vars, target>>
        BY <1>7 DEF Write
    <2>6. ASSUME NEW t \in Senders, sender'[t] = "half"
          PROVE  /\ wire'[target'[t]] # <<>>
                 /\ wire'[target'[t]][Len(wire'[target'[t]])] = <<t, "head">>
        <3>1. CASE t = s
            BY <2>2, <2>3, <2>5, <2>6, <3>1
        <3>2. CASE t # s
            <4>1. sender[t] = "half"
                BY <2>2, <2>6, <3>2
            <4>2. wire'[target[t]] = wire[target[t]]
                BY <2>2, <2>4, <3>2, <4>1
            <4> QED
                BY <2>5, <4>1, <4>2
        <3> QED
            BY <3>1, <3>2
    <2>7. ASSUME NEW c \in Conns, wire'[c] # <<>> PROVE c \in subs'
        BY <2>1, <2>2, <2>5, <2>7 DEF vars
    <2> QED
        BY <2>6, <2>7
<1>8. ASSUME NEW s \in Senders, WriteFails(s) PROVE HalfInv'
    BY <1>8 DEF WriteFails, Goes, vars
<1>9. ASSUME NEW s \in Senders, StopAfterFunc(s) PROVE HalfInv'
    BY <1>9 DEF StopAfterFunc, Goes, vars
<1>10. ASSUME NEW s \in Senders, EndWrite(s) PROVE HalfInv'
    BY <1>10 DEF EndWrite, Returned, Goes
<1> QED
    BY <1>1, <1>2, <1>3, <1>4, <1>5, <1>6, <1>7, <1>8, <1>9, <1>10
    DEF SubscriptionNext, SendSteps, allVars

\* A deadline passes for the sender that has the token, and that sender closes.
LEMMA StepDeadline == IInv /\ SubInv /\ [SubscriptionNext]_allVars => DeadlineInv'
<1> SUFFICES ASSUME IInv, SubInv, [SubscriptionNext]_allVars PROVE DeadlineInv'
    OBVIOUS
<1> USE DEF SubInv, ServerTypeOK, DeadlineInv, OwnDeadline, HasToken, AfterInv, GateInv
<1>1. ASSUME [Next]_vars, UNCHANGED sendVars PROVE DeadlineInv'
    BY <1>1, ServerFacts
<1>2. ASSUME NEW s \in Senders, NEW c \in Conns, SendRaw(s, c) PROVE DeadlineInv'
    BY <1>2 DEF SendRaw, Goes, vars
<1>3. ASSUME NEW s \in Senders, CancelSend(s) PROVE DeadlineInv'
    BY <1>3 DEF CancelSend, vars
<1>4. ASSUME NEW s \in Senders, AfterFunc(s) PROVE DeadlineInv'
    BY <1>4 DEF AfterFunc, vars
<1>5. ASSUME NEW s \in Senders, GiveUp(s) PROVE DeadlineInv'
    <2>1. UNCHANGED <<vars, deadline>> /\ ctxDone' = ctxDone \ {s}
        BY <1>5 DEF GiveUp, Returned
    <2>2. \A t \in Senders : HasToken(t) =>
             t # s /\ HasToken(t)' /\ target'[t] = target[t]
        BY <1>5 DEF GiveUp, Returned, Goes
    <2>3. ASSUME NEW c \in deadline' \cap sock'
          PROVE  \E t \in ctxDone' : target'[t] = c /\ HasToken(t)'
        <3>1. PICK t \in ctxDone : target[t] = c /\ HasToken(t)
            BY <2>1, <2>3 DEF vars
        <3> QED
            BY <2>1, <2>2, <3>1
    <2> QED
        BY <2>1, <2>3 DEF vars
<1>6. ASSUME NEW s \in Senders, EnterGate(s) PROVE DeadlineInv'
    BY <1>6 DEF EnterGate, Goes, vars
<1>7. ASSUME NEW s \in Senders, Write(s) PROVE DeadlineInv'
    <2>1. UNCHANGED <<vars, deadline, ctxDone, target>>
        BY <1>7 DEF Write
    <2>2. \A t \in Senders : HasToken(t) => HasToken(t)'
        BY <1>7 DEF Write, Goes
    <2> QED
        BY <2>1, <2>2 DEF vars
<1>8. ASSUME NEW s \in Senders, WriteFails(s) PROVE DeadlineInv'
    BY <1>8 DEF WriteFails, Goes, vars
<1>9. ASSUME NEW s \in Senders, StopAfterFunc(s) PROVE DeadlineInv'
    BY <1>9 DEF StopAfterFunc, Goes, vars
<1>10. ASSUME NEW s \in Senders, EndWrite(s) PROVE DeadlineInv'
    BY <1>10 DEF EndWrite, Returned, Goes
<1> QED
    BY <1>1, <1>2, <1>3, <1>4, <1>5, <1>6, <1>7, <1>8, <1>9, <1>10
    DEF SubscriptionNext, SendSteps, allVars

\* On this connection a frame may be cut off: it is closed, or its sender is
\* in the middle of the frame or about to close it.
MayBeCut(c) ==
    c \notin sock \/ \E s \in Senders :
        target[s] = c /\ sender[s] \in {"half", "failed", "broken"}

\* WholeFrames, of one piece: a tail has its head before it, a head its tail
\* behind it unless it may be cut.
PieceOK(c, i) ==
    IF wire[c][i][2] = "tail"
    THEN i > 1 /\ wire[c][i - 1] = <<wire[c][i][1], "head">>
    ELSE \/ i < Len(wire[c]) /\ wire[c][i + 1] = <<wire[c][i][1], "tail">>
         \/ i = Len(wire[c]) /\ MayBeCut(c)

\* writeEnvelope writes an envelope in two pieces: whole frames, piece by piece.
LEMMA Pieces == WholeFrames <=> \A c \in Conns : \A i \in DOMAIN wire[c] : PieceOK(c, i)
BY DEF WholeFrames, PieceOK, MayBeCut

\* Where nothing is written the frames stay whole as long as the cut ones may.
LEMMA FramesKept ==
    ASSUME WholeFrames, UNCHANGED wire,
           \A c \in Conns : wire[c] # <<>> /\ MayBeCut(c) => MayBeCut(c)'
    PROVE  WholeFrames'
BY DEF WholeFrames, MayBeCut

\* No frame is cut but the last of a connection that ends.
LEMMA StepFrames == IInv /\ SubInv /\ [SubscriptionNext]_allVars => WholeFrames'
<1> SUFFICES ASSUME IInv, SubInv, [SubscriptionNext]_allVars PROVE WholeFrames'
    OBVIOUS
<1> USE DEF SubInv, ServerTypeOK, GateInv, HasToken, MayBeCut
<1>1. ASSUME [Next]_vars, UNCHANGED sendVars PROVE WholeFrames'
    BY <1>1, ServerFacts, FramesKept DEF HalfInv
<1>2. ASSUME NEW s \in Senders, NEW c \in Conns, SendRaw(s, c) PROVE WholeFrames'
    BY <1>2, FramesKept DEF SendRaw, Goes, vars
<1>3. ASSUME NEW s \in Senders, CancelSend(s) PROVE WholeFrames'
    BY <1>3, FramesKept DEF CancelSend, vars
<1>4. ASSUME NEW s \in Senders, AfterFunc(s) PROVE WholeFrames'
    BY <1>4, FramesKept DEF AfterFunc, vars
<1>5. ASSUME NEW s \in Senders, GiveUp(s) PROVE WholeFrames'
    BY <1>5, FramesKept DEF GiveUp, Returned, Goes, vars
<1>6. ASSUME NEW s \in Senders, EnterGate(s) PROVE WholeFrames'
    BY <1>6, FramesKept DEF EnterGate, Goes, vars
<1>7. ASSUME NEW s \in Senders, Write(s) PROVE WholeFrames'
    <2>1. PICK c \in Conns : /\ c = target[s] /\ c \in sock
                            /\ wire[c] \in Seq(Senders \X {"head", "tail"})
        BY <1>7 DEF Write, TypeOK
    <2>2. UNCHANGED <<vars, target>>
        BY <1>7 DEF Write
    <2>3. \A d \in Conns : d # c => wire'[d] = wire[d] /\ (MayBeCut(d) => MayBeCut(d)')
        BY <1>7, <2>1 DEF Write, Goes, vars
    \* Nothing was cut off here, for the sender has the token.
    <2>4. ASSUME NEW i \in DOMAIN wire[c], wire[c][i][2] = "head", i = Len(wire[c])
          PROVE  sender[s] = "half"
        <3>1. PICK t \in Senders :
                 target[t] = c /\ sender[t] \in {"half", "failed", "broken"}
            BY <2>1, <2>4 DEF WholeFrames
        <3>2. t = s
            BY <1>7, <2>1, <3>1 DEF Write
        <3> QED
            BY <1>7, <3>1, <3>2 DEF Write
    <2>5. sender[s] = "half" => /\ wire[c] # <<>>
                                /\ wire[c][Len(wire[c])] = <<s, "head">>
        BY <2>1 DEF HalfInv
    <2>6. PICK end \in {"head", "tail"} :
             /\ sender[s] = IF end = "head" THEN "writing" ELSE "half"
             /\ wire' = [wire EXCEPT ![c] = Append(@, <<s, end>>)]
             /\ sender' = [sender EXCEPT ![s] = IF end = "head" THEN "half" ELSE "wrote"]
        BY <1>7, <2>1 DEF Write, Goes
    <2>7. /\ wire'[c] = Append(wire[c], <<s, end>>)
          /\ Len(wire'[c]) = Len(wire[c]) + 1
          /\ wire'[c][Len(wire[c]) + 1] = <<s, end>>
          /\ DOMAIN wire'[c] = 1..(Len(wire[c]) + 1)
          /\ DOMAIN wire[c] = 1..Len(wire[c]) /\ Len(wire[c]) \in Nat
          /\ \A i \in DOMAIN wire[c] : wire'[c][i] = wire[c][i]
        BY <2>1, <2>6
    <2>8. \A i \in DOMAIN wire[c] : wire[c][i] \in Senders \X {"head", "tail"}
        BY <2>1
    <2>9. ASSUME NEW i \in DOMAIN wire'[c], wire'[c][i][2] = "tail"
          PROVE  i > 1 /\ wire'[c][i - 1] = <<wire'[c][i][1], "head">>
        <3>1. CASE i \in DOMAIN wire[c]
            <4>1. wire[c][i][2] = "tail" /\ PieceOK(c, i)
                BY <2>1, <2>7, <2>9, <3>1, Pieces
            <4>2. i > 1 /\ wire[c][i - 1] = <<wire[c][i][1], "head">>
                BY <4>1 DEF PieceOK
            <4>3. i - 1 \in DOMAIN wire[c]
                BY <2>7, <3>1, <4>2
            <4> QED
                BY <2>7, <3>1, <4>2, <4>3
        <3>2. CASE i = Len(wire[c]) + 1
            <4>1. end = "tail" /\ wire'[c][i] = <<s, "tail">>
                BY <2>7, <2>9, <3>2
            <4>2. wire[c] # <<>> /\ wire[c][Len(wire[c])] = <<s, "head">>
                BY <2>5, <2>6, <4>1
            <4>3. Len(wire[c]) > 0
                BY <2>1, <4>2
            <4>4. Len(wire[c]) \in DOMAIN wire[c] /\ i - 1 = Len(wire[c])
                BY <2>7, <3>2, <4>3
            <4> QED
                BY <2>7, <3>2, <4>1, <4>2, <4>3, <4>4
        <3> QED
            BY <2>7, <3>1, <3>2
    <2>10. ASSUME NEW i \in DOMAIN wire'[c], wire'[c][i][2] # "tail"
           PROVE  \/ i < Len(wire'[c]) /\ wire'[c][i + 1] = <<wire'[c][i][1], "tail">>
                  \/ i = Len(wire'[c]) /\ MayBeCut(c)'
        <3>1. CASE i \in DOMAIN wire[c] /\ i < Len(wire[c])
            <4>1. wire[c][i][2] # "tail" /\ PieceOK(c, i)
                BY <2>1, <2>7, <2>10, <3>1, Pieces
            <4>2. wire[c][i + 1] = <<wire[c][i][1], "tail">>
                BY <2>7, <3>1, <4>1 DEF PieceOK
            <4>3. i + 1 \in DOMAIN wire[c] /\ i < Len(wire'[c])
                BY <2>7, <3>1
            <4> QED
                BY <2>7, <3>1, <4>2, <4>3
        <3>2. CASE i \in DOMAIN wire[c] /\ i = Len(wire[c])
            <4>1. wire[c][i][2] = "head"
                BY <2>7, <2>8, <2>10, <3>2
            <4>2. sender[s] = "half" /\ wire[c][i] = <<s, "head">>
                BY <2>4, <2>5, <3>2, <4>1
            <4>3. wire'[c][i + 1] = <<s, "tail">>
                BY <2>6, <2>7, <3>2, <4>2
            <4> QED
                <5>1. i < Len(wire'[c]) /\ wire'[c][i] = wire[c][i]
                    BY <2>7, <3>2
                <5> QED
                    BY <4>2, <4>3, <5>1
        <3>3. CASE i = Len(wire[c]) + 1
            <4>1. sender'[s] = "half" /\ target'[s] = c
                BY <2>1, <2>2, <2>6, <2>7, <2>10, <3>3
            <4> QED
                BY <2>7, <3>3, <4>1
        <3> QED
            BY <2>7, <3>1, <3>2, <3>3
    <2>11. ASSUME NEW d \in Conns, d # c, NEW i \in DOMAIN wire'[d] PROVE PieceOK(d, i)'
        <3>1. PieceOK(d, i)
            BY <2>3, <2>11, Pieces
        <3>2. wire'[d] = wire[d] /\ (MayBeCut(d) => MayBeCut(d)')
            BY <2>3, <2>11
        <3> HIDE DEF MayBeCut
        <3> QED
            BY <3>1, <3>2 DEF PieceOK
    <2>12. ASSUME NEW i \in DOMAIN wire'[c] PROVE PieceOK(c, i)'
        <3> HIDE DEF MayBeCut
        <3> QED
            BY <2>9, <2>10 DEF PieceOK
    <2>13. \A d \in Conns : \A i \in DOMAIN wire'[d] : PieceOK(d, i)'
        BY <2>11, <2>12
    <2> QED
        BY <2>13 DEF WholeFrames, PieceOK
<1>8. ASSUME NEW s \in Senders, WriteFails(s) PROVE WholeFrames'
    BY <1>8, FramesKept DEF WriteFails, Goes, vars
<1>9. ASSUME NEW s \in Senders, StopAfterFunc(s) PROVE WholeFrames'
    BY <1>9, FramesKept DEF StopAfterFunc, Goes, vars
<1>10. ASSUME NEW s \in Senders, EndWrite(s) PROVE WholeFrames'
    BY <1>10, FramesKept DEF EndWrite, Returned, Goes
<1> QED
    BY <1>1, <1>2, <1>3, <1>4, <1>5, <1>6, <1>7, <1>8, <1>9, <1>10
    DEF SubscriptionNext, SendSteps, allVars

-----------------------------------------------------------------------------
(* The theorems *)

\* The invariants hold in every reachable state, with any number of senders.
THEOREM SubInductive == SubscriptionSpec => [](IInv /\ SubInv)
<1>1. IInv /\ SubInv /\ [SubscriptionNext]_allVars => (IInv /\ SubInv)'
    <2>1. IInv /\ SubInv /\ [SubscriptionNext]_allVars => IInv'
        BY StepServer, StepInv
    <2> QED
        BY <2>1, StepSubType, StepGate, StepAfter, StepHalf, StepDeadline, StepFrames
        DEF SubInv
<1> QED
    BY InitSub, <1>1, PTL DEF SubscriptionSpec

\* A test that sends on its subscriptions is, to the server, one that may
\* close them: what TestServer promises holds with senders too.
THEOREM SendersKeepToServer == SubscriptionSpec => Spec
<1>1. SubscriptionInit => Init
    BY DEF SubscriptionInit
<1> QED
    BY SubInductive, StepServer, <1>1, PTL DEF SubscriptionSpec, Spec

\* Every variable of the server keeps its type (TypeOK), and so does every
\* variable of the senders (ServerTypeOK).
THEOREM TypeCorrect == (Spec => []TypeOK) /\ (SubscriptionSpec => []ServerTypeOK)
<1>1. IInv => TypeOK
    BY DEF IInv
<1>2. SubInv => ServerTypeOK
    BY DEF SubInv
<1> QED
    BY Inductive, SubInductive, <1>1, <1>2, PTL

\* Server.Close: when any Close returns, every connection is closed and every
\* goroutine of the server is over.
THEOREM CloseJoinsAll ==
    (Spec => []CloseJoins) /\ (SubscriptionSpec => []CloseJoins)
    BY Inductive, SendersKeepToServer, InvJoins, PTL

\* WaitCall and WaitSubscription: no waiter blocks on a channel that nobody
\* closed after its entry arrived.
THEOREM NoWakeupLost ==
    (Spec => []NoLostWakeup) /\ (SubscriptionSpec => []NoLostWakeup)
<1>1. IInv => NoLostWakeup
    BY DEF IInv, WaitInv
<1> QED
    BY Inductive, SendersKeepToServer, <1>1, PTL

\* SendRaw: frames are whole, and a context interrupts its own write only.
THEOREM FramesWhole == SubscriptionSpec => []SendersKeepApart
<1>1. SubInv => SendersKeepApart
    BY DEF SubInv, DeadlineInv, SendersKeepApart
<1> QED
    BY SubInductive, <1>1, PTL
=============================================================================
