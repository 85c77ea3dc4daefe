----------------------------- MODULE Subscription -----------------------------
(***************************************************************************)
(* What a test sends on the subscriptions of a TestServer                  *)
(* (herdrtest/subscription.go SendRaw): goroutines of the test write event *)
(* frames on one connection, each with a context of its own.  They take    *)
(* turns at a gate, and a context that ends interrupts a blocked write     *)
(* through the connection's write deadline.                                *)
(*                                                                         *)
(* A frame goes out in one or two pieces, because the peer may read only   *)
(* part of it before the write is interrupted.                             *)
(***************************************************************************)
EXTENDS TestServer

CONSTANTS
    Senders,   \* goroutines of the test that send
    MaxSends   \* how often each sends

ASSUME SendersAssumption == MaxSends \in Nat

VARIABLES
    sender,    \* each SendRaw: "idle", "called", "writing", "half", "wrote",
               \* "failed", "stopped", "broken"
    target,    \* the subscription it sends on
    ctxDone,   \* the senders whose context is done
    after,     \* each context.AfterFunc: "none", "armed", "started", "ran"
    gate,      \* the subscriptions whose gate holds its token
    deadline,  \* the connections whose write deadline has passed
    wire,      \* the pieces written on each connection
    sends      \* how often each sender has sent

sendVars == <<sender, target, ctxDone, after, gate, deadline, wire, sends>>

SubscriptionInit ==
    /\ Init
    /\ sender = [s \in Senders |-> "idle"]
    /\ target = [s \in Senders |-> None]
    /\ ctxDone = {}
    /\ after = [s \in Senders |-> "none"]
    /\ gate = Conns
    /\ deadline = {}
    /\ wire = [c \in Conns |-> <<>>]
    /\ sends = [s \in Senders |-> 0]

-----------------------------------------------------------------------------
Goes(s, to) == sender' = [sender EXCEPT ![s] = to]

Returned(s) ==
    /\ Goes(s, "idle")
    /\ target' = [target EXCEPT ![s] = None]
    /\ ctxDone' = ctxDone \ {s}

\* The first look at the context is part of the call.
SendRaw(s, c) ==
    /\ sender[s] = "idle" /\ c \in subs /\ sends[s] < MaxSends
    /\ Goes(s, "called")
    /\ target' = [target EXCEPT ![s] = c]
    /\ sends' = [sends EXCEPT ![s] = @ + 1]
    /\ UNCHANGED <<vars, ctxDone, after, gate, deadline, wire>>

\* The context may end at any time; then a function that is armed runs.
CancelSend(s) ==
    /\ sender[s] # "idle" /\ s \notin ctxDone
    /\ ctxDone' = ctxDone \cup {s}
    /\ after' = [after EXCEPT ![s] = IF @ = "armed" THEN "started" ELSE @]
    /\ UNCHANGED <<vars, sender, target, gate, deadline, wire, sends>>

\* Mutant: the context does not interrupt a write.
AfterFuncIdle(s) ==
    /\ after[s] = "started"
    /\ after' = [after EXCEPT ![s] = "ran"]
    /\ UNCHANGED <<vars, sender, target, ctxDone, gate, deadline, wire, sends>>

\* Go starts the function of a context that is done in a goroutine.
AfterFunc(s) ==
    /\ after[s] = "started"
    /\ after' = [after EXCEPT ![s] = "ran"]
    /\ deadline' = deadline \cup {target[s]}
    /\ UNCHANGED <<vars, sender, target, ctxDone, gate, wire, sends>>

\* The select: the context or the end of the subscription.
GiveUp(s) ==
    /\ sender[s] = "called"
    /\ s \in ctxDone \/ Done(target[s])
    /\ Returned(s)
    /\ UNCHANGED <<vars, after, gate, deadline, wire, sends>>

\* Mutant: nobody takes the token.
EnterGateFree(s) ==
    /\ sender[s] = "called" /\ target[s] \in gate
    /\ s \notin ctxDone /\ ~Done(target[s])
    /\ after' = [after EXCEPT ![s] = "armed"]
    /\ Goes(s, "writing")
    /\ UNCHANGED <<vars, target, ctxDone, gate, deadline, wire, sends>>

\* Or it has the token and sees neither end, for it looks again: a select
\* chooses at random among what is ready.  A token taken in vain is GiveUp.
EnterGate(s) ==
    /\ sender[s] = "called" /\ target[s] \in gate
    /\ s \notin ctxDone /\ ~Done(target[s])
    /\ gate' = gate \ {target[s]}
    /\ after' = [after EXCEPT ![s] = "armed"]
    /\ Goes(s, "writing")
    /\ UNCHANGED <<vars, target, ctxDone, deadline, wire, sends>>

\* The connection takes a piece of the frame, or the rest of it.
Write(s) ==
    /\ sender[s] \in {"writing", "half"}
    /\ target[s] \in sock \ deadline
    /\ \/ /\ sender[s] = "writing" /\ Goes(s, "half")
          /\ wire' = [wire EXCEPT ![target[s]] = Append(@, <<s, "head">>)]
       \/ /\ sender[s] = "half" /\ Goes(s, "wrote")
          /\ wire' = [wire EXCEPT ![target[s]] = Append(@, <<s, "tail">>)]
    /\ UNCHANGED <<vars, target, ctxDone, after, gate, deadline, sends>>

WriteFails(s) ==
    /\ sender[s] \in {"writing", "half"}
    /\ target[s] \notin sock \ deadline \/ client[target[s]] = "gone"
    /\ Goes(s, "failed")
    /\ UNCHANGED <<vars, target, ctxDone, after, gate, deadline, wire, sends>>

\* stop, or the end of a function that stop could not prevent.
StopAfterFunc(s) ==
    /\ sender[s] \in {"wrote", "failed"} /\ after[s] \in {"armed", "ran"}
    /\ after' = [after EXCEPT ![s] = "none"]
    /\ Goes(s, IF sender[s] = "failed" THEN "broken" ELSE "stopped")
    /\ UNCHANGED <<vars, target, ctxDone, gate, deadline, wire, sends>>

\* Mutant: a whole frame is taken for a write that was not interrupted.
EndWriteWhole(s) ==
    /\ sender[s] \in {"stopped", "broken"}
    /\ IF sender[s] = "broken"
       THEN sock' = sock \ {target[s]} /\ cancelled' = cancelled \cup {target[s]}
       ELSE UNCHANGED <<sock, cancelled>>
    /\ gate' = gate \cup {target[s]}
    /\ Returned(s)
    /\ UNCHANGED <<clientVars, acceptVars, serve, peer, closeVars, recordVars, waitVars,
                   after, deadline, wire, sends>>

\* A write that failed, or that the context may have interrupted, is the
\* connection's last: Subscription.Close.  Then the token goes back.
EndWrite(s) ==
    /\ sender[s] \in {"stopped", "broken"}
    /\ IF sender[s] = "broken" \/ s \in ctxDone
       THEN sock' = sock \ {target[s]} /\ cancelled' = cancelled \cup {target[s]}
       ELSE UNCHANGED <<sock, cancelled>>
    /\ gate' = gate \cup {target[s]}
    /\ Returned(s)
    /\ UNCHANGED <<clientVars, acceptVars, serve, peer, closeVars, recordVars, waitVars,
                   after, deadline, wire, sends>>

SendSteps(s) ==
    \/ GiveUp(s) \/ EnterGate(s) \/ WriteFails(s)
    \/ StopAfterFunc(s) \/ EndWrite(s)

SubscriptionNext ==
    \/ Next /\ UNCHANGED sendVars
    \/ \E s \in Senders :
          \/ \E c \in Conns : SendRaw(s, c)
          \/ SendSteps(s) \/ Write(s) \/ CancelSend(s) \/ AfterFunc(s)

allVars == <<vars, sendVars>>

\* As in TestServer; nothing is assumed of the peer, so that a write may block.
SubscriptionFairness ==
    /\ WF_allVars(AcceptSteps /\ UNCHANGED sendVars)
    /\ \A c \in Conns :
          /\ WF_allVars(ServeSteps(c) /\ UNCHANGED sendVars)
          /\ WF_allVars(Done(c) /\ HandlerReturns(c) /\ UNCHANGED sendVars)
          /\ WF_allVars(PeerGone(c) /\ UNCHANGED sendVars)
    /\ \A k \in Closers :
          /\ WF_allVars(CloseSockets(k) /\ UNCHANGED sendVars)
          /\ WF_allVars(CloseReturns(k) /\ UNCHANGED sendVars)
    /\ \A s \in Senders : WF_allVars(SendSteps(s)) /\ WF_allVars(AfterFunc(s))

SubscriptionSpec ==
    SubscriptionInit /\ [][SubscriptionNext]_allVars /\ SubscriptionFairness

-----------------------------------------------------------------------------
(* Properties *)

ServerTypeOK ==
    /\ TypeOK
    /\ sender \in [Senders -> {"idle", "called", "writing", "half", "wrote",
                               "failed", "stopped", "broken"}]
    /\ target \in [Senders -> Conns \cup {None}]
    /\ ctxDone \subseteq Senders
    /\ after \in [Senders -> {"none", "armed", "started", "ran"}]
    /\ gate \subseteq Conns /\ deadline \subseteq Conns
    /\ sends \in [Senders -> 0..MaxSends]
    /\ wire \in [Conns -> Seq(Senders \X {"head", "tail"})]

\* The peer reads whole frames, however many goroutines send, and at most the
\* last one is cut: nothing follows half a frame, and half a frame is the end
\* of the connection (SendRaw: "a partial frame cannot safely be resumed").
WholeFrames ==
    \A c \in Conns : \A i \in DOMAIN wire[c] :
        IF wire[c][i][2] = "tail" THEN i > 1 /\ wire[c][i - 1] = <<wire[c][i][1], "head">>
        ELSE \/ i < Len(wire[c]) /\ wire[c][i + 1] = <<wire[c][i][1], "tail">>
             \/ i = Len(wire[c]) /\
                (c \notin sock \/ \E s \in Senders :
                    target[s] = c /\ sender[s] \in {"half", "failed", "broken"})

\* A context that ends does not interrupt the write of another sender: the
\* deadline it sets dies with the connection (SendRaw: "Cancellation while
\* waiting for another writer leaves the connection intact").
OwnDeadline ==
    \A c \in deadline \cap sock : \E s \in ctxDone :
        target[s] = c /\ sender[s] \in {"writing", "half", "wrote", "failed", "stopped", "broken"}

\* Senders on one subscription do not get into each other's frames, neither by
\* what they write nor by what their contexts cut short (SendRaw).
SendersKeepApart == WholeFrames /\ OwnDeadline

\* A SendRaw whose context is done returns, whatever the peer does, and a
\* subscription that has ended keeps no sender (SendRaw).
SendEnds ==
    \A s \in Senders :
        (sender[s] # "idle" /\ (s \in ctxDone \/ Done(target[s]))) ~> sender[s] = "idle"
=============================================================================
