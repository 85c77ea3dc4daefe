---------------------------- MODULE MCTestServer ----------------------------
(* Small instances of Subscription: three tests of a server. *)
EXTENDS Subscription

CONSTANTS
    Absent,    \* the connection that only the test that waits has
    Other      \* the Closer that only the test that closes twice has

VARIABLE test  \* "waits", "closes" or "sends"

\* The second subscription: a wait sees an arrival that is not its own.
MCWanted == {<<"sub", 2>>}

MCInit ==
    /\ test \in {"waits", "closes", "sends"}
    /\ SubscriptionInit
    /\ client[Absent] = IF test = "waits" THEN "away" ELSE "gone"

\* Only what the tests do is restricted, which is under no fairness.
MCNext ==
    /\ SubscriptionNext
    /\ UNCHANGED test
    /\ test # "closes" => closer'[Other] = "idle"
    /\ IF test # "sends" THEN UNCHANGED sendVars
       ELSE \A w \in Waiters : wait'[w] # None => \E k \in Closers : closer[k] = "done"

MCSpec == MCInit /\ [][MCNext]_<<allVars, test>> /\ SubscriptionFairness
=============================================================================
