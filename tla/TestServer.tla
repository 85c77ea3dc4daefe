----------------------------- MODULE TestServer -----------------------------
(***************************************************************************)
(* herdrtest.Server on top of testsocket.Server: the scripted server that  *)
(* plugin and client tests talk to (herdrtest/server.go,                   *)
(* internal/testsocket/server.go).                                         *)
(*                                                                         *)
(* Each accepted connection has a goroutine that serves its one request    *)
(* and one that watches the peer.  A test waits for calls and              *)
(* subscriptions, replaces routes and closes the server at any time.  The  *)
(* clients, the handlers and the test are external.  What a test sends on  *)
(* a subscription is in Subscription; that it may close one is here.       *)
(***************************************************************************)
EXTENDS Integers, Sequences, FiniteSets

CONSTANTS
    Conns,     \* connections that clients open
    Waiters,   \* goroutines of the test that wait
    Wanted,    \* what they wait for: <<"call", i>> or <<"sub", i>>, from 1
    Closers,   \* goroutines of the test that close the server
    None

ASSUME NamesAssumption ==
    /\ None \notin Conns
    /\ None \notin Wanted
    /\ Wanted \subseteq {"call", "sub"} \X Nat

VARIABLES
    client,    \* each client: "away", "here", "sent" its request, "gone", which
               \* at first means that it never dials
    answered,  \* the clients whose call was answered
    listening, \* the listener is open
    acceptor,  \* the accept loop: "accept", "register", "over"
    accepted,  \* the connection it has just accepted
    sock,      \* the connections open on the server's side
    conns,     \* testsocket.Server.conns
    serve,     \* the goroutine of each connection
    peer,      \* the watcher of each: "none", "reading", "over"
    cancelled, \* the connections whose context was cancelled
    closed,    \* testsocket.Server.closed and its context
    closer,    \* each Close: "idle", "locked", "joining", "waiting", "done"
    calls,     \* Server.calls: the connections whose call is recorded
    subs,      \* Server.subs, likewise
    wait,      \* each waiter: what it waits for, or None
    changed    \* the Server.changed it blocks on: "none", "open", "closed"

clientVars == <<client, answered>>
acceptVars == <<listening, acceptor, accepted, conns>>
connVars == <<sock, serve, peer, cancelled>>
closeVars == <<closed, closer>>
recordVars == <<calls, subs>>
waitVars == <<wait, changed>>
vars == <<clientVars, acceptVars, connVars, closeVars, recordVars, waitVars>>

Init ==
    /\ client \in [Conns -> {"away", "gone"}]
    /\ answered = {}
    /\ listening = TRUE
    /\ acceptor = "accept"
    /\ accepted = None
    /\ sock = {}
    /\ conns = {}
    /\ serve = [c \in Conns |-> "none"]
    /\ peer = [c \in Conns |-> "none"]
    /\ cancelled = {}
    /\ closed = FALSE
    /\ closer = [k \in Closers |-> "idle"]
    /\ calls = {}
    /\ subs = {}
    /\ wait = [w \in Waiters |-> None]
    /\ changed = [w \in Waiters |-> "none"]

-----------------------------------------------------------------------------
(* Clients: external *)

SendRequest(c) ==
    /\ client[c] = "here"
    /\ serve[c] # "over"
    /\ client' = [client EXCEPT ![c] = "sent"]
    /\ UNCHANGED <<answered, acceptVars, connVars, closeVars,
                   recordVars, waitVars>>

\* It hangs up, or sends more than the one request, which ends it as well.
Disconnect(c) ==
    /\ client[c] \in {"here", "sent"}
    /\ serve[c] # "over"
    /\ client' = [client EXCEPT ![c] = "gone"]
    /\ UNCHANGED <<answered, acceptVars, connVars, closeVars,
                   recordVars, waitVars>>

-----------------------------------------------------------------------------
(* testsocket.Server.serve and Close *)

\* Close holds mu from closed = true until it has closed every socket.
Locked == \E k \in Closers : closer[k] = "locked"

Accept(c) ==
    /\ acceptor = "accept"
    /\ listening
    /\ client[c] = "away"
    /\ client' = [client EXCEPT ![c] = "here"]
    /\ acceptor' = "register"
    /\ accepted' = c
    /\ sock' = sock \cup {c}
    /\ UNCHANGED <<answered, listening, conns, serve, peer, cancelled,
                   closeVars, recordVars, waitVars>>

AcceptFails ==
    /\ acceptor = "accept"
    /\ ~listening
    /\ acceptor' = "over"
    /\ UNCHANGED <<clientVars, listening, accepted, conns, connVars, closeVars,
                   recordVars, waitVars>>

\* Mutant: a connection that was accepted as the server closed is served.
RegisterUnchecked ==
    /\ acceptor = "register"
    /\ ~Locked
    /\ acceptor' = "accept"
    /\ accepted' = None
    /\ conns' = conns \cup {accepted}
    /\ serve' = [serve EXCEPT ![accepted] = "read"]
    /\ UNCHANGED <<clientVars, listening, sock, peer, cancelled,
                   closeVars, recordVars, waitVars>>

\* A connection accepted as the server closed is closed at once; any other
\* is in conns before its goroutine starts, so that Close finds it.
Register ==
    /\ acceptor = "register"
    /\ ~Locked
    /\ accepted' = None
    /\ IF closed
       THEN /\ acceptor' = "over"
            /\ sock' = sock \ {accepted}
            /\ serve' = [serve EXCEPT ![accepted] = "over"]
            /\ UNCHANGED conns
       ELSE /\ acceptor' = "accept"
            /\ conns' = conns \cup {accepted}
            /\ serve' = [serve EXCEPT ![accepted] = "read"]
            /\ UNCHANGED sock
    /\ UNCHANGED <<clientVars, listening, peer, cancelled, closeVars,
                   recordVars, waitVars>>

\* The deferred part of a connection's goroutine, after the handler.
Leave(c) ==
    /\ serve[c] = "leave"
    /\ ~Locked
    /\ sock' = sock \ {c}
    /\ conns' = conns \ {c}
    /\ serve' = [serve EXCEPT ![c] = "over"]
    /\ UNCHANGED <<clientVars, listening, acceptor, accepted, peer,
                   cancelled, closeVars, recordVars, waitVars>>

\* A sync.Once: the first Close does the work, the others wait for it.
Close(k) ==
    /\ closer[k] = "idle"
    /\ IF \E j \in Closers : closer[j] # "idle"
       THEN closer' = [closer EXCEPT ![k] = "waiting"] /\ UNCHANGED closed
       ELSE closer' = [closer EXCEPT ![k] = "locked"] /\ closed' = TRUE
    /\ UNCHANGED <<clientVars, acceptVars, connVars, recordVars, waitVars>>

CloseSockets(k) ==
    /\ closer[k] = "locked"
    /\ closer' = [closer EXCEPT ![k] = "joining"]
    /\ listening' = FALSE
    /\ sock' = sock \ conns
    /\ UNCHANGED <<clientVars, acceptor, accepted, conns, serve, peer,
                   cancelled, closed, recordVars, waitVars>>

\* wg.Wait
Joined == acceptor = "over" /\ \A c \in Conns : serve[c] \in {"none", "over"}

CloseReturns(k) ==
    /\ \/ closer[k] = "joining" /\ Joined
       \/ closer[k] = "waiting" /\ \E j \in Closers : closer[j] = "done"
    /\ closer' = [closer EXCEPT ![k] = "done"]
    /\ UNCHANGED <<clientVars, acceptVars, connVars, closed, recordVars, waitVars>>

-----------------------------------------------------------------------------
(* herdrtest.Server.serveConn *)

\* The connection's context: a child of the server's.
Done(c) == closed \/ c \in cancelled

\* A request arrived; or no whole line did, or one that is not a request,
\* which is refused without being a call.
ReadRequest(c) ==
    /\ serve[c] = "read"
    /\ \/ /\ c \in sock /\ client[c] = "sent"
          /\ serve' = [serve EXCEPT ![c] = "record"]
          /\ peer' = [peer EXCEPT ![c] = "reading"]
       \/ /\ c \notin sock \/ client[c] \in {"sent", "gone"}
          /\ serve' = [serve EXCEPT ![c] = "leave"]
          /\ UNCHANGED peer
    /\ UNCHANGED <<clientVars, acceptVars, sock, cancelled, closeVars,
                   recordVars, waitVars>>

\* The watcher: the peer hung up, or the connection was closed here.
PeerGone(c) ==
    /\ peer[c] = "reading"
    /\ c \notin sock \/ client[c] = "gone"
    /\ peer' = [peer EXCEPT ![c] = "over"]
    /\ cancelled' = cancelled \cup {c}
    /\ sock' = sock \ {c}
    /\ UNCHANGED <<clientVars, acceptVars, serve, closeVars, recordVars,
                   waitVars>>

\* notify closes the channel that every blocked waiter holds.
Notify ==
    changed' = [w \in Waiters |-> IF changed[w] = "open" THEN "closed" ELSE changed[w]]

\* The routes of a call: refused as not scripted, handled, acknowledged as a
\* subscription.  The test may call Handle or AllowSubscriptions at any time.
Routes == {"refuse", "handle", "acknowledge"}

\* The call is recorded and its route looked up in one critical section.
Record(c) ==
    /\ serve[c] = "record"
    /\ calls' = calls \cup {c}
    /\ Notify
    /\ \E r \in Routes : serve' = [serve EXCEPT ![c] = r]
    /\ UNCHANGED <<clientVars, acceptVars, sock, peer, cancelled, closeVars,
                   subs, wait>>

\* A response reaches the client unless the connection has ended.
Respond(c) ==
    answered' = IF c \in sock /\ client[c] = "sent" THEN answered \cup {c}
                                                    ELSE answered

\* No route, or a subscription whose parameters do not hold one.
Refuse(c) ==
    /\ serve[c] \in {"refuse", "acknowledge"}
    /\ Respond(c)
    /\ serve' = [serve EXCEPT ![c] = "unwind"]
    /\ UNCHANGED <<client, acceptVars, sock, peer, cancelled,
                   closeVars, recordVars, waitVars>>

\* The handler returned.  It may block until its context is done.  What it
\* returned is dropped when its context is done.
HandlerReturns(c) ==
    /\ serve[c] = "handle"
    /\ IF Done(c) THEN UNCHANGED answered ELSE Respond(c)
    /\ serve' = [serve EXCEPT ![c] = "unwind"]
    /\ UNCHANGED <<client, acceptVars, sock, peer, cancelled,
                   closeVars, recordVars, waitVars>>

\* serveSubscription: the acknowledgement is written, or fails.
Acknowledge(c) ==
    /\ serve[c] = "acknowledge"
    /\ \/ /\ c \in sock
          /\ Respond(c)
          /\ serve' = [serve EXCEPT ![c] = "publish"]
       \/ /\ c \notin sock \/ client[c] = "gone"
          /\ serve' = [serve EXCEPT ![c] = "unwind"]
          /\ UNCHANGED answered
    /\ UNCHANGED <<client, acceptVars, sock, peer, cancelled,
                   closeVars, recordVars, waitVars>>

\* Mutant: a new subscription wakes nobody.
PublishSilently(c) ==
    /\ serve[c] = "publish"
    /\ subs' = subs \cup {c}
    /\ serve' = [serve EXCEPT ![c] = "subscribed"]
    /\ UNCHANGED <<clientVars, acceptVars, sock, peer, cancelled,
                   closeVars, calls, waitVars>>

Publish(c) ==
    /\ serve[c] = "publish"
    /\ subs' = subs \cup {c}
    /\ Notify
    /\ serve' = [serve EXCEPT ![c] = "subscribed"]
    /\ UNCHANGED <<clientVars, acceptVars, sock, peer, cancelled,
                   closeVars, calls, wait>>

\* Subscription.Close, by the test or after a write that failed.
CloseSubscription(c) ==
    /\ c \in subs
    /\ c \notin cancelled
    /\ sock' = sock \ {c}
    /\ cancelled' = cancelled \cup {c}
    /\ UNCHANGED <<clientVars, acceptVars, serve, peer, closeVars,
                   recordVars, waitVars>>

SubscriptionEnds(c) ==
    /\ serve[c] = "subscribed"
    /\ Done(c)
    /\ serve' = [serve EXCEPT ![c] = "unwind"]
    /\ UNCHANGED <<clientVars, acceptVars, sock, peer, cancelled,
                   closeVars, recordVars, waitVars>>

\* The deferred function: cancel, close the connection ...
Unwind(c) ==
    /\ serve[c] = "unwind"
    /\ cancelled' = cancelled \cup {c}
    /\ sock' = sock \ {c}
    /\ serve' = [serve EXCEPT ![c] = "join"]
    /\ UNCHANGED <<clientVars, acceptVars, peer, closeVars, recordVars,
                   waitVars>>

\* Mutant: the watcher is not joined.
JoinNobody(c) ==
    /\ serve[c] = "join"
    /\ serve' = [serve EXCEPT ![c] = "leave"]
    /\ UNCHANGED <<clientVars, acceptVars, sock, peer, cancelled,
                   closeVars, recordVars, waitVars>>

\* ... and join the watcher.
JoinPeer(c) ==
    /\ serve[c] = "join"
    /\ peer[c] = "over"
    /\ serve' = [serve EXCEPT ![c] = "leave"]
    /\ UNCHANGED <<clientVars, acceptVars, sock, peer, cancelled,
                   closeVars, recordVars, waitVars>>

-----------------------------------------------------------------------------
(* The test: WaitCall and WaitSubscription *)

CallWait(w, entry) ==
    /\ wait[w] = None
    /\ wait' = [wait EXCEPT ![w] = entry]
    /\ UNCHANGED <<clientVars, acceptVars, connVars, closeVars, recordVars,
                   changed>>

Arrived(w) ==
    wait[w][2] <= Cardinality(IF wait[w][1] = "call" THEN calls ELSE subs)

\* The top of the loop, under mu: return what has arrived, or remember the
\* channel that the next arrival closes.  The context may be done.
WaitLook(w) ==
    /\ wait[w] # None
    /\ changed[w] = "none"
    /\ \/ wait' = [wait EXCEPT ![w] = None] /\ UNCHANGED changed
       \/ /\ ~Arrived(w)
          /\ changed' = [changed EXCEPT ![w] = "open"]
          /\ UNCHANGED wait
    /\ UNCHANGED <<clientVars, acceptVars, connVars, closeVars, recordVars>>

\* The select: the context or the server's shutdown, or the channel.
WaitWake(w) ==
    /\ changed[w] # "none"
    /\ changed' = [changed EXCEPT ![w] = "none"]
    /\ \/ wait' = [wait EXCEPT ![w] = None]
       \/ changed[w] = "closed" /\ UNCHANGED wait
    /\ UNCHANGED <<clientVars, acceptVars, connVars, closeVars, recordVars>>

-----------------------------------------------------------------------------
ServeSteps(c) ==
    \/ ReadRequest(c) \/ Record(c) \/ Refuse(c) \/ Acknowledge(c)
    \/ Publish(c) \/ SubscriptionEnds(c) \/ Unwind(c) \/ JoinPeer(c) \/ Leave(c)

AcceptSteps == (\E c \in Conns : Accept(c)) \/ AcceptFails \/ Register

Next ==
    \/ AcceptSteps
    \/ \E c \in Conns :
          \/ SendRequest(c) \/ Disconnect(c)
          \/ ServeSteps(c) \/ HandlerReturns(c) \/ PeerGone(c)
          \/ CloseSubscription(c)
    \/ \E k \in Closers : Close(k) \/ CloseSockets(k) \/ CloseReturns(k)
    \/ \E w \in Waiters :
          \/ \E entry \in Wanted : CallWait(w, entry)
          \/ WaitLook(w) \/ WaitWake(w)

Spec == Init /\ [][Next]_vars

\* Goroutines that can run do run; a handler returns once its context is done,
\* which its contract asks for.  Nothing is assumed of the clients.
Fairness ==
    /\ WF_vars(AcceptSteps)
    /\ \A c \in Conns :
          /\ WF_vars(ServeSteps(c))
          /\ WF_vars(Done(c) /\ HandlerReturns(c))
          /\ WF_vars(PeerGone(c))
    /\ \A k \in Closers : WF_vars(CloseSockets(k)) /\ WF_vars(CloseReturns(k))

LiveSpec == Spec /\ Fairness

-----------------------------------------------------------------------------
(* Properties *)

TypeOK ==
    /\ client \in [Conns -> {"away", "here", "sent", "gone"}]
    /\ answered \subseteq Conns
    /\ listening \in BOOLEAN
    /\ acceptor \in {"accept", "register", "over"}
    /\ accepted \in Conns \cup {None}
    /\ sock \subseteq Conns /\ conns \subseteq Conns
    /\ serve \in [Conns -> {"none", "read", "record", "publish", "subscribed",
                             "unwind", "join", "leave", "over"} \cup Routes]
    /\ peer \in [Conns -> {"none", "reading", "over"}]
    /\ cancelled \subseteq Conns
    /\ closed \in BOOLEAN
    /\ closer \in [Closers -> {"idle", "locked", "joining", "waiting", "done"}]
    /\ calls \subseteq Conns /\ subs \subseteq calls
    /\ wait \in [Waiters -> Wanted \cup {None}]
    /\ changed \in [Waiters -> {"none", "open", "closed"}]

\* Server.Close "closes all connections, cancels handlers and waits for server
\* goroutines to exit", whichever call of Close it is, and also for a
\* connection that was being accepted.
CloseJoins ==
    (\E k \in Closers : closer[k] = "done") =>
        /\ sock = {} /\ acceptor = "over"
        /\ \A c \in Conns : serve[c] \in {"none", "over"} /\ peer[c] # "reading"

\* Close returns, whatever the clients do and wherever the goroutines are.
CloseEnds == \A k \in Closers : (closer[k] # "idle") ~> (closer[k] = "done")

\* WaitCall and WaitSubscription miss no arrival between the look and the
\* wait, and none that comes later: a waiter whose entry is there never blocks
\* on a channel that nobody has closed.
NoLostWakeup ==
    \A w \in Waiters : changed[w] = "open" => ~Arrived(w)
=============================================================================
