-------------------------- MODULE ConvergenceProofs --------------------------
(***************************************************************************)
(* Convergence: sessionCache.apply makes of the mirror what an event says  *)
(* (Reduces), so what the mirror differs in stays in the events it has not *)
(* applied; bootstrapSession leaves it so (Presents); and a mirror that    *)
(* applied them all shows what the server has (Converges).                 *)
(***************************************************************************)
EXTENDS MirrorProofs

-----------------------------------------------------------------------------
(* What the reducer makes of an event *)

\* It holds what the event brings, and what it held unless the event drops it.
HoldsAfter(X, c, e, d, h) ==
    \A id : id \in Held(d, X)
              <=> Brings(e, X, id) \/ (id \in Held(c, X) /\ ~Drops(e, X, id, h))
\* It assigns what the event writes and leaves the other fields; a focus change on a
\* pane it does not hold does not tell it which layout is meant.
Assigns(X, c, e, d, h) ==
    \A id \in Held(d, X) : \A f \in Fields(X) :
        /\ Written(e, X, id, f, h) = {}
             => id \in Held(c, X) /\ d[X].entries[id][f] = c[X].entries[id][f]
        /\ \/ \A v \in Written(e, X, id, f, h) : d[X].entries[id][f] = v
           \/ X = "layouts" /\ e.type = "PaneFocused" /\ e.id \notin Held(c, "panes")
\* An agent enters by detection in a pane that is held, or along with a pane that
\* moves; it leaves by detection, or with its pane.
Employs(c, e, d, h) ==
    \A id : id \in Agents0(d)
              <=> \/ Joins(e, id) /\ id \in Held(c, "panes")
                  \/ e.type = "PaneMoved" /\ e.pane.id = id /\ e.previous \in Agents0(c)
                  \/ id \in Agents0(c) /\ ~Leaves(e, id, h)
\* It has the fields it had, or those of its pane.
Repeats(c, e, d, h) ==
    \A id \in Agents0(d) : \A f \in Fields("panes") :
        \/ /\ id \in Agents0(c) /\ AgentWritten(e, id, f, h) = {}
           /\ d.agents.entries[id][f] = c.agents.entries[id][f]
        \/ /\ id \in Mentions(e) /\ id \in Held(d, "panes")
           /\ d.agents.entries[id][f] = d.panes.entries[id][f]
        \/ /\ e.type = "PaneFocused" /\ f = "focused"
           /\ d.agents.entries[id][f] = (id = e.id)
\* A group it lists is in the listed order; the others are as they were, with what is
\* new last.
Places(X, c, e, d, h) ==
    \A x, y :
        x # y /\ Precedes(d[X].ids, x, y) /\ Group(X, x, h) = Group(X, y, h)
          => IF Reorders(e, X, Group(X, x, h)) THEN Precedes(IdsOf(e[X]), x, y)
             ELSE \/ Precedes(c[X].ids, x, y)
                  \/ y \notin Held(c, X) /\ Alone(e, X, y, h)
\* What apply makes of the mirror is what the event says, and no more.
Reduces(c, e, d, h) ==
    /\ Faithful(d, h)
    /\ \A X \in Kinds : HoldsAfter(X, c, e, d, h) /\ Assigns(X, c, e, d, h)
    /\ Employs(c, e, d, h) /\ Repeats(c, e, d, h)
    /\ \A X \in Ordered : Places(X, c, e, d, h)
\* The mirror applies the next event.
Turn(s, l, h, c, d, m, t) ==
    /\ Past(s, l, h, {})
    /\ Awaits(s, l, h, c, m, t)
    /\ m < Len(l)
    /\ Reduces(c, l[m + 1], d, h)

\* The events behind before apply are the one it applies and those behind after.
LEMMA TurnFacts ==
    ASSUME NEW s, NEW l, NEW h, NEW c, NEW d, NEW m, NEW t, Turn(s, l, h, c, d, m, t)
    PROVE  /\ m \in Nat /\ t \in Nat /\ Len(l) \in Nat /\ m + 1 \in 1..Len(l)
           /\ Behind(m, l) = {m + 1} \cup Behind(m + 1, l) /\ m + 1 \notin Behind(m + 1, l)
           /\ Behind(m, l) \subseteq 1..Len(l)
<1>1. IsList(l) /\ m \in Nat /\ t \in Nat /\ m < Len(l)
    BY DEF Turn, Awaits, Past, AllGenuine
<1>2. Len(l) \in Nat
    BY <1>1 DEF IsList
<1> QED
    BY <1>1, <1>2 DEF Behind

\* A closed pane is neither there nor heard of again.
LEMMA TurnCloses ==
    ASSUME NEW s, NEW l, NEW h, NEW c, NEW d, NEW m, NEW t, Turn(s, l, h, c, d, m, t),
           NEW id \in Held(c, "panes"), Drops(l[m + 1], "panes", id, h)
    PROVE  /\ Closes(l[m + 1], "panes", id, h) /\ ~Alive(s, "panes", id)
           /\ \A k \in Behind(m + 1, l) : id \notin Mentions(l[k])
<1>1. Faithful(c, h) /\ ClosedGone(s, l, h) /\ m + 1 \in 1..Len(l)
    BY TurnFacts DEF Turn, Awaits, Past
<1>2. id \in DOMAIN h.pane
  <2>1. "panes" \in Kinds
      BY DEF Kinds
  <2>2. Good("panes", c["panes"].entries[id], h) /\ Key("panes", c["panes"].entries[id]) = id
      BY <1>1, <2>1 DEF Faithful
  <2> QED
      BY <2>2 DEF Good, Key, Ordered
<1>3. Closes(l[m + 1], "panes", id, h)
    BY DEF Drops, Reorders
<1> QED
    BY <1>1, <1>2, <1>3 DEF ClosedGone, Kinds, Made

\* After apply, what the mirror lacks is still to be brought, and what it holds too
\* long still to be dropped.
LEMMA TurnComing ==
    ASSUME NEW s, NEW l, NEW h, NEW c, NEW d, NEW m, NEW t, Turn(s, l, h, c, d, m, t)
    PROVE  Coming(s, l, d, m + 1) /\ Going(s, l, h, d, m + 1)
<1> DEFINE e == l[m + 1]
<1>1. /\ CameStays(s, l, h) /\ WentReturned(s, l, h)
      /\ Coming(s, l, c, m) /\ Going(s, l, h, c, m)
      /\ \A X \in Kinds : HoldsAfter(X, c, e, d, h)
    BY DEF Turn, Awaits, Past, Reduces
<1>2. m + 1 \in 1..Len(l) /\ Behind(m, l) = {m + 1} \cup Behind(m + 1, l)
    BY TurnFacts
<1> HIDE DEF e
<1>3. Coming(s, l, d, m + 1)
  <2> SUFFICES ASSUME NEW X \in Kinds, NEW id, Alive(s, X, id), id \notin Held(d, X)
               PROVE  \E j \in Behind(m + 1, l) : Brings(l[j], X, id)
      BY DEF Coming
  <2>1. CASE id \in Held(c, X)
    <3>1. Drops(l[m + 1], X, id, h)
        BY <1>1, <2>1 DEF HoldsAfter, e
    <3> QED
        BY <1>1, <1>2, <3>1 DEF WentReturned
  <2>2. CASE id \notin Held(c, X)
    <3>1. \E j \in Behind(m, l) : Brings(l[j], X, id)
        BY <1>1, <2>2 DEF Coming
    <3>2. ~Brings(l[m + 1], X, id)
        BY <1>1 DEF HoldsAfter, e
    <3> QED
        BY <1>2, <3>1, <3>2
  <2> QED
      BY <2>1, <2>2
<1>4. Going(s, l, h, d, m + 1)
  <2> SUFFICES ASSUME NEW X \in Kinds, NEW id \in Held(d, X), ~Alive(s, X, id)
               PROVE  \E j \in Behind(m + 1, l) : Drops(l[j], X, id, h)
      BY DEF Going
  <2>1. CASE Brings(l[m + 1], X, id)
      BY <1>1, <1>2, <2>1 DEF CameStays
  <2>2. CASE ~Brings(l[m + 1], X, id)
    <3>1. id \in Held(c, X) /\ ~Drops(l[m + 1], X, id, h)
        BY <1>1, <2>2 DEF HoldsAfter, e
    <3>2. \E j \in Behind(m, l) : Drops(l[j], X, id, h)
        BY <1>1, <3>1 DEF Going
    <3> QED
        BY <1>2, <3>1, <3>2
  <2> QED
      BY <2>1, <2>2
<1> QED
    BY <1>3, <1>4

\* A pane that an event is about and that is there is held, or it is one the event
\* brings.
LEMMA TurnMentions ==
    ASSUME NEW s, NEW l, NEW h, NEW c, NEW d, NEW m, NEW t, Turn(s, l, h, c, d, m, t),
           NEW id \in Mentions(l[m + 1]), Alive(s, "panes", id)
    PROVE  id \in Held(c, "panes") \/ Brings(l[m + 1], "panes", id)
<1> SUFFICES ASSUME id \notin Held(c, "panes") PROVE Brings(l[m + 1], "panes", id)
    OBVIOUS
<1>1. PanesComing(s, l, c, m) /\ m \in Nat
    BY TurnFacts DEF Turn, Awaits
<1>2. PICK j \in Behind(m, l) : First(l, j, id)
    BY <1>1 DEF PanesComing
<1>3. j = m + 1 \/ (j \in Behind(m + 1, l) /\ m + 1 \in 1..(j - 1))
    BY <1>1 DEF Behind
<1> QED
    BY <1>2, <1>3 DEF First

\* After apply, a field no event behind writes is up to date.
LEMMA TurnCurrent ==
    ASSUME NEW s, NEW l, NEW h, NEW c, NEW d, NEW m, NEW t, Turn(s, l, h, c, d, m, t)
    PROVE  Current(s, l, h, d, m + 1)
<1> DEFINE e == l[m + 1]
<1>1. /\ LastWrote(s, l, h) /\ FocusStays(s, l, h, {}) /\ Current(s, l, h, c, m)
      /\ \A X \in Kinds : Assigns(X, c, e, d, h)
    BY DEF Turn, Awaits, Past, Reduces
<1>2. m + 1 \in 1..Len(l) /\ Behind(m, l) = {m + 1} \cup Behind(m + 1, l)
    BY TurnFacts
<1> SUFFICES ASSUME NEW X \in Kinds, NEW r \in Recs(s, X), NEW f \in Fields(X),
                    Key(X, r) \in Held(d, X),
                    \A j \in Behind(m + 1, l) : Written(l[j], X, Key(X, r), f, h) = {}
             PROVE  d[X].entries[Key(X, r)][f] = r[f]
    BY DEF Current
<1> DEFINE id == Key(X, r)
<1>3. CASE Written(e, X, id, f, h) = {}
  <2>1. id \in Held(c, X) /\ d[X].entries[id][f] = c[X].entries[id][f]
      BY <1>1, <1>3 DEF Assigns
  <2>2. \A j \in Behind(m, l) : Written(l[j], X, id, f, h) = {}
      BY <1>2, <1>3
  <2>3. c[X].entries[id][f] = r[f]
      BY <1>1, <2>1, <2>2 DEF Current
  <2> QED
      BY <2>1, <2>3
<1>4. CASE Written(e, X, id, f, h) # {}
  <2>1. PICK v \in Written(e, X, id, f, h) : TRUE
      BY <1>4
  <2>2. r[f] = v
      BY <1>1, <1>2, <2>1 DEF LastWrote
  <2>3. CASE d[X].entries[id][f] = v
      BY <2>2, <2>3
  <2>4. CASE X = "layouts" /\ e.type = "PaneFocused" /\ e.id \notin Held(c, "panes")
    <3>0. Ordered = {"workspaces", "tabs"}
        BY DEF Ordered
    <3>1. h.pane[e.id] = id
      <4>1. Puts(e, "layouts") = {}
          BY <2>4 DEF Puts
      <4> QED
          BY <2>1, <2>4, <4>1 DEF Written
    <3>2. Alive(s, "layouts", id)
        BY <2>4 DEF Alive
    <3>3. \A j \in Behind(m + 1, l) : Written(l[j], "layouts", id, "focusedPane", h) = {}
        BY <2>4, <3>0 DEF Fields
    <3>4. Alive(s, "panes", e.id)
        BY <1>1, <1>2, <2>4, <3>1, <3>2, <3>3 DEF FocusStays
    <3>5. e.id \in Mentions(e) /\ ~Brings(e, "panes", e.id)
        BY <2>4 DEF Mentions, Brings, Puts
    <3> QED
        BY <2>4, <3>4, <3>5, TurnMentions
  <2> QED
      BY <1>1, <2>1, <2>3, <2>4 DEF Assigns
<1> QED
    BY <1>3, <1>4

\* The events up to u are in the snapshot or applied.
Onto(u, m, t) == u = (IF t > m THEN t ELSE m + 1)

\* The events pushed after the snapshot, when one more is applied.
LEMMA OntoFacts ==
    ASSUME NEW s, NEW l, NEW h, NEW c, NEW d, NEW m, NEW t, Turn(s, l, h, c, d, m, t),
           NEW u, Onto(u, m, t)
    PROVE  /\ u \in Nat /\ m + 1 <= u /\ u <= Len(l)
           /\ Behind(u, l) \subseteq Behind(t, l) /\ Behind(u, l) \subseteq Behind(m + 1, l)
           /\ \A j \in Behind(t, l) : j \in Behind(u, l) \/ (j = m + 1 /\ t = m)
<1>1. m \in Nat /\ t \in Nat /\ m <= t /\ t <= Len(l) /\ m < Len(l) /\ Len(l) \in Nat
    BY TurnFacts DEF Turn, Awaits
<1> QED
    BY <1>1 DEF Onto, Behind

\* After apply, a pane the mirror lacks is made behind, and every pane an event is
\* about is held or made before it.
LEMMA TurnPanes ==
    ASSUME NEW s, NEW l, NEW h, NEW c, NEW d, NEW m, NEW t, Turn(s, l, h, c, d, m, t),
           NEW u, Onto(u, m, t)
    PROVE  PanesComing(s, l, d, m + 1) /\ PanesKnown(l, d, m + 1, u)
<1> DEFINE e == l[m + 1]
<1>1. PanesComing(s, l, c, m) /\ PanesKnown(l, c, m, t) /\ HoldsAfter("panes", c, e, d, h)
    BY DEF Turn, Awaits, Reduces, Kinds
<1>2. /\ m \in Nat /\ m + 1 \in 1..Len(l) /\ Behind(m, l) = {m + 1} \cup Behind(m + 1, l)
    BY TurnFacts
<1>3. PanesComing(s, l, d, m + 1)
  <2> SUFFICES ASSUME NEW id, Alive(s, "panes", id), id \notin Held(d, "panes")
               PROVE  \E j \in Behind(m + 1, l) : First(l, j, id)
      BY DEF PanesComing
  <2>1. id \notin Held(c, "panes")
      BY <1>1, TurnCloses DEF HoldsAfter
  <2>2. PICK j \in Behind(m, l) : First(l, j, id)
      BY <1>1, <2>1 DEF PanesComing
  <2>3. j # m + 1
      BY <1>1, <2>2 DEF First, HoldsAfter
  <2> QED
      BY <1>2, <2>2, <2>3
<1>4. PanesKnown(l, d, m + 1, u)
  <2> SUFFICES ASSUME NEW k \in Behind(u, l), NEW id \in Mentions(l[k]),
                      id \notin Held(d, "panes")
               PROVE  \E j \in ((m + 1) + 1)..k : First(l, j, id)
      BY DEF PanesKnown
  <2>0. k \in Behind(t, l) /\ k \in Behind(m + 1, l) /\ k \in Int
      BY OntoFacts, <1>2 DEF Behind
  <2>1. id \notin Held(c, "panes")
      BY <1>1, <2>0, TurnCloses DEF HoldsAfter
  <2>2. PICK j \in (m + 1)..k : First(l, j, id)
      BY <1>1, <2>0, <2>1 DEF PanesKnown
  <2>3. j # m + 1
      BY <1>1, <2>2 DEF First, HoldsAfter
  <2> QED
      BY <1>2, <2>0, <2>2, <2>3
<1> QED
    BY <1>3, <1>4

\* A pane that moves at a move still to come is held, or made behind.
LEMMA TurnMoves ==
    ASSUME NEW s, NEW l, NEW h, NEW c, NEW d, NEW m, NEW t, Turn(s, l, h, c, d, m, t),
           NEW k \in Behind(m + 1, l), l[k].type = "PaneMoved"
    PROVE  /\ l[k].previous \in Mentions(l[k]) /\ l[k].previous \in DOMAIN h.pane
           /\ k \in 1..Len(l) /\ k \in Behind(m, l) /\ k \in Int /\ k > m + 1
           /\ ~Closes(l[m + 1], "panes", l[k].previous, h)
<1>1. m \in Nat /\ Len(l) \in Nat /\ m + 1 \in 1..Len(l)
    BY TurnFacts
<1>2. AllGenuine(l, h) /\ ClosedGone(s, l, h)
    BY DEF Turn, Past
<1>3. k \in 1..Len(l) /\ k \in Behind(m, l) /\ k \in Int /\ k > m + 1
    BY <1>1 DEF Behind
<1>4. Genuine(l[k], h)
    BY <1>2, <1>3 DEF AllGenuine
<1>5. l[k].previous \in Mentions(l[k])
    BY DEF Mentions
<1>6. l[k].previous \in DOMAIN h.pane
    BY <1>4, <1>5 DEF Genuine
<1> QED
    BY <1>1, <1>2, <1>3, <1>5, <1>6 DEF ClosedGone

\* An agent that comes with a pane that moves now was there before.
LEMMA TurnCarries ==
    ASSUME NEW s, NEW l, NEW h, NEW c, NEW d, NEW m, NEW t, Turn(s, l, h, c, d, m, t),
           l[m + 1].type = "PaneMoved"
    PROVE  /\ l[m + 1].pane.agent = Absent => l[m + 1].previous \notin Agents0(c)
           /\ l[m + 1].pane.agent # Absent /\ t = m => l[m + 1].previous \in Agents0(c)
<1>1. BareGoing(l, c, m) /\ CarriedComing(l, c, m, t) /\ m \in Nat
    BY DEF Turn, Awaits
<1>0. m + 1 \in Behind(m, l)
    BY TurnFacts
<1>2. (m + 1)..((m + 1) - 1) = {}
    BY <1>1
<1>3. l[m + 1].pane.agent = Absent => l[m + 1].previous \notin Agents0(c)
    BY <1>0, <1>1, <1>2 DEF BareGoing
<1>4. l[m + 1].pane.agent # Absent /\ t = m => l[m + 1].previous \in Agents0(c)
    BY <1>0, <1>1, <1>2 DEF CarriedComing
<1> QED
    BY <1>3, <1>4

\* After apply, an agent the mirror lacks comes behind, and one it holds too long
\* leaves behind.
LEMMA TurnAgents ==
    ASSUME NEW s, NEW l, NEW h, NEW c, NEW d, NEW m, NEW t, Turn(s, l, h, c, d, m, t),
           NEW u, Onto(u, m, t)
    PROVE  AgentsComing(s, l, d, m + 1, u) /\ AgentsGoing(s, l, h, d, m + 1)
<1> DEFINE e == l[m + 1]
<1>1. /\ AgentsComing(s, l, c, m, t) /\ AgentsGoing(s, l, h, c, m)
      /\ Employs(c, e, d, h) /\ AgentsLogged(s, l, h) /\ ClosedGone(s, l, h)
      /\ Genuine(e, h) /\ Faithful(c, h)
  <2>1. m + 1 \in 1..Len(l)
      BY TurnFacts
  <2> QED
      BY <2>1 DEF Turn, Awaits, Past, Reduces, AllGenuine
<1>2. m + 1 \in 1..Len(l) /\ Behind(m, l) = {m + 1} \cup Behind(m + 1, l)
    BY TurnFacts
<1> HIDE DEF e
<1>3. AgentsComing(s, l, d, m + 1, u)
  <2> SUFFICES ASSUME NEW id, Running(s, id), id \notin Agents0(d)
               PROVE  \/ \E j \in Behind(m + 1, l) : Joins(l[j], id)
                      \/ \E j \in Behind(u, l) : Carries(l[j], id)
      BY DEF AgentsComing
  <2>0. Alive(s, "panes", id)
      BY RunningAlive
  <2>1. CASE id \in Agents0(c)
    <3>1. Leaves(e, id, h)
        BY <1>1, <2>1 DEF Employs
    <3>2. CASE Frees(e, id)
        BY <1>1, <1>2, <3>2 DEF AgentsLogged, e
    <3>3. CASE Closes(e, "panes", id, h)
      <4>1. id \in Held(c, "panes") /\ Drops(e, "panes", id, h)
          BY <1>1, <2>1, <3>3 DEF Faithful, Drops
      <4> QED
          BY <2>0, <4>1, TurnCloses DEF e
    <3> QED
        BY <3>1, <3>2, <3>3 DEF Leaves
  <2>2. CASE \E j \in Behind(m, l) : Joins(l[j], id)
    <3>1. CASE Joins(e, id)
      <4>1. id \notin Held(c, "panes")
          BY <1>1, <3>1 DEF Employs
      <4>2. id \in Mentions(e) /\ ~Brings(e, "panes", id)
          BY <3>1 DEF Joins, Mentions, Brings, Puts
      <4> QED
          BY <2>0, <4>1, <4>2, TurnMentions DEF e
    <3> QED
        BY <1>2, <2>2, <3>1 DEF e
  <2>3. CASE \E j \in Behind(t, l) : Carries(l[j], id)
    <3>1. PICK j \in Behind(t, l) : Carries(l[j], id)
        BY <2>3
    <3>2. CASE j = m + 1 /\ t = m
      <4>1. e.type = "PaneMoved" /\ e.pane.id = id /\ e.pane.agent # Absent
          BY <3>1, <3>2 DEF Carries, e
      <4>2. e.previous \in Agents0(c)
          BY <3>2, <4>1, TurnCarries DEF e
      <4> QED
          BY <1>1, <4>1, <4>2 DEF Employs
    <3> QED
        BY <3>1, <3>2, OntoFacts
  <2> QED
      BY <1>1, <2>1, <2>2, <2>3 DEF AgentsComing
<1>4. AgentsGoing(s, l, h, d, m + 1)
  <2> SUFFICES ASSUME NEW id \in Agents0(d), ~Running(s, id)
               PROVE  \E j \in Behind(m + 1, l) : Leaves(l[j], id, h)
      BY DEF AgentsGoing
  <2>1. CASE id \in Agents0(c) /\ ~Leaves(e, id, h)
      BY <1>1, <1>2, <2>1 DEF AgentsGoing, e
  <2>2. CASE Arrives(e, id)
    <3>1. id \in DOMAIN h.pane
        BY <1>1, <2>2, AboutMentions DEF Genuine
    <3> QED
        BY <1>1, <1>2, <2>2, <3>1 DEF AgentsLogged, e
  <2>3. CASE e.type = "PaneMoved" /\ e.pane.id = id /\ e.previous \in Agents0(c)
    <3>1. e.pane.agent # Absent
        BY <2>3, TurnCarries DEF e
    <3> QED
        BY <2>2, <2>3, <3>1 DEF Arrives, Carries
  <2> QED
      BY <1>1, <2>1, <2>2, <2>3 DEF Employs, Arrives
<1> QED
    BY <1>3, <1>4

\* After apply, a pane still to move takes along the agent it has then.
LEMMA TurnCarried ==
    ASSUME NEW s, NEW l, NEW h, NEW c, NEW d, NEW m, NEW t, Turn(s, l, h, c, d, m, t),
           NEW u, Onto(u, m, t)
    PROVE  CarriedComing(l, d, m + 1, u) /\ BareGoing(l, d, m + 1)
<1> DEFINE e == l[m + 1]
<1>1. /\ CarriedComing(l, c, m, t) /\ BareGoing(l, c, m) /\ PanesKnown(l, c, m, t)
      /\ Employs(c, e, d, h) /\ AgentsLogged(s, l, h) /\ m \in Nat /\ t \in Nat
    BY DEF Turn, Awaits, Past, Reduces
<1>2. m + 1 \in 1..Len(l) /\ Behind(m, l) = {m + 1} \cup Behind(m + 1, l) /\ u \in Nat
    BY TurnFacts, OntoFacts
<1> HIDE DEF e
<1>3. CarriedComing(l, d, m + 1, u)
  <2> SUFFICES ASSUME NEW k \in Behind(u, l), l[k].type = "PaneMoved",
                      l[k].pane.agent # Absent, l[k].previous \notin Agents0(d)
               PROVE  \/ \E j \in ((m + 1) + 1)..(k - 1) : Joins(l[j], l[k].previous)
                      \/ \E j \in (u + 1)..(k - 1) : Carries(l[j], l[k].previous)
      BY DEF CarriedComing
  <2> DEFINE id == l[k].previous
  <2>0. /\ k \in Behind(t, l) /\ k \in Behind(m + 1, l) /\ k \in Behind(m, l)
        /\ k \in Int /\ k > m + 1
        /\ id \in Mentions(l[k]) /\ ~Closes(e, "panes", id, h)
    <3>1. k \in Behind(t, l) /\ k \in Behind(m + 1, l)
        BY OntoFacts
    <3> QED
        BY <3>1, TurnMoves DEF e
  <2> HIDE DEF id
  <2>1. CASE id \in Agents0(c)
    <3>1. Frees(e, id)
        BY <1>1, <2>0, <2>1 DEF Employs, Leaves, id
    <3> QED
        BY <1>1, <1>2, <2>0, <3>1 DEF AgentsLogged, e, id
  <2>2. CASE \E j \in (m + 1)..(k - 1) : Joins(l[j], id)
    <3>1. CASE Joins(e, id)
      <4>1. id \notin Held(c, "panes")
          BY <1>1, <3>1 DEF Employs, id
      <4>2. PICK j \in (m + 1)..k : First(l, j, id)
          BY <1>1, <2>0, <4>1 DEF PanesKnown
      <4>3. id \in Mentions(e) /\ ~Brings(e, "panes", id)
          BY <3>1 DEF Joins, Mentions, Brings, Puts
      <4>4. j = m + 1 \/ m + 1 \in 1..(j - 1)
          BY <1>1, <2>0, <4>2
      <4> QED
          BY <4>2, <4>3, <4>4 DEF First, e
    <3>2. CASE ~Joins(l[m + 1], id)
      <4>1. PICK j \in (m + 1)..(k - 1) : Joins(l[j], id)
          BY <2>2
      <4>2. j \in ((m + 1) + 1)..(k - 1)
          BY <1>1, <2>0, <3>2, <4>1
      <4> QED
          BY <4>1, <4>2 DEF id
    <3> QED
        BY <3>1, <3>2 DEF e
  <2>3. CASE \E j \in (t + 1)..(k - 1) : Carries(l[j], id)
    <3>1. PICK j \in (t + 1)..(k - 1) : Carries(l[j], id)
        BY <2>3
    <3>2. j \in Behind(t, l) /\ j \in Int
        BY <1>1, <2>0, <3>1 DEF Behind
    <3>3. CASE j = m + 1 /\ t = m
      <4>1. e.type = "PaneMoved" /\ e.pane.id = id /\ e.pane.agent # Absent
          BY <3>1, <3>3 DEF Carries, e
      <4>2. e.previous \in Agents0(c)
          BY <3>3, <4>1, TurnCarries DEF e
      <4> QED
          BY <1>1, <4>1, <4>2 DEF Employs, id
    <3>4. CASE j \in Behind(u, l)
      <4>1. j \in (u + 1)..(k - 1)
          BY <1>2, <2>0, <3>1, <3>2, <3>4 DEF Behind
      <4> QED
          BY <3>1, <4>1 DEF id
    <3> QED
        BY <3>2, <3>3, <3>4, OntoFacts
  <2>4. \/ id \in Agents0(c)
        \/ \E j \in (m + 1)..(k - 1) : Joins(l[j], id)
        \/ \E j \in (t + 1)..(k - 1) : Carries(l[j], id)
      BY <1>1, <2>0 DEF CarriedComing, id
  <2> QED
      BY <2>1, <2>2, <2>3, <2>4
<1>4. BareGoing(l, d, m + 1)
  <2> SUFFICES ASSUME NEW k \in Behind(m + 1, l), l[k].type = "PaneMoved",
                      l[k].pane.agent = Absent, l[k].previous \in Agents0(d)
               PROVE  \E j \in ((m + 1) + 1)..(k - 1) : Frees(l[j], l[k].previous)
      BY DEF BareGoing
  <2> DEFINE id == l[k].previous
  <2>0. k \in Behind(m, l) /\ k \in Int /\ k > m + 1
      BY TurnMoves
  <2> HIDE DEF id
  <2>1. CASE id \in Agents0(c) /\ ~Leaves(e, id, h)
    <3>1. PICK j \in (m + 1)..(k - 1) : Frees(l[j], id)
        BY <1>1, <2>0, <2>1 DEF BareGoing, id
    <3>2. j # m + 1
        BY <2>1, <3>1 DEF Leaves, e
    <3>3. j \in ((m + 1) + 1)..(k - 1)
        BY <1>1, <2>0, <3>1, <3>2
    <3> QED
        BY <3>1, <3>3 DEF id
  <2>2. CASE Arrives(e, id)
      BY <1>1, <1>2, <2>2 DEF AgentsLogged, e, id
  <2>3. CASE e.type = "PaneMoved" /\ e.pane.id = id /\ e.previous \in Agents0(c)
    <3>1. e.pane.agent # Absent
        BY <2>3, TurnCarries DEF e
    <3> QED
        BY <2>2, <2>3, <3>1 DEF Arrives, Carries
  <2> QED
      BY <1>1, <2>1, <2>2, <2>3 DEF Employs, Arrives, id
<1> QED
    BY <1>3, <1>4

\* After apply, a field of an agent that no event behind writes is up to date: of a
\* moved pane the entry is rewritten whole.
LEMMA TurnAgentsCurrent ==
    ASSUME NEW s, NEW l, NEW h, NEW c, NEW d, NEW m, NEW t, Turn(s, l, h, c, d, m, t)
    PROVE  AgentsCurrent(s, l, h, d, m + 1)
<1> DEFINE e == l[m + 1]
<1>1. /\ AgentsCurrent(s, l, h, c, m) /\ Current(s, l, h, d, m + 1)
      /\ LastWrote(s, l, h) /\ MovedNew(l) /\ AllGenuine(l, h)
      /\ Repeats(c, e, d, h)
    BY TurnCurrent DEF Turn, Awaits, Past, Reduces
<1>2. /\ m \in Nat /\ Len(l) \in Nat /\ m + 1 \in 1..Len(l)
      /\ Behind(m, l) = {m + 1} \cup Behind(m + 1, l) /\ Behind(m, l) \subseteq 1..Len(l)
    BY TurnFacts
<1> HIDE DEF e
<1> SUFFICES ASSUME NEW p \in s.panes, NEW f \in Fields("panes"), p.id \in Agents0(d),
                    \A j \in Behind(m + 1, l) : AgentWritten(l[j], p.id, f, h) = {}
             PROVE  d.agents.entries[p.id][f] = p[f]
    BY DEF AgentsCurrent
<1> DEFINE id == p.id
<1>3. p \in Recs(s, "panes") /\ Key("panes", p) = id
    BY DEF Recs, Key, Ordered
<1>4. "panes" \in Kinds
    BY DEF Kinds
<1> HIDE DEF id
\* Of the events behind that write the field, all are moves of the pane.
<1>5. ASSUME NEW j \in Behind(m + 1, l), Written(l[j], "panes", id, f, h) # {}
      PROVE  l[j].type = "PaneMoved" /\ l[j].pane.id = id /\ id \notin Mentions(e)
  <2>1. AgentWritten(l[j], id, f, h) = {}
      BY DEF id
  <2>2. l[j].type = "PaneMoved"
      BY <1>5, <2>1 DEF AgentWritten
  <2>3. \E q \in Puts(l[j], "panes") : Key("panes", q) = id
      BY <1>5, <2>2 DEF Written
  <2>4. l[j].pane.id = id
      BY <2>2, <2>3 DEF Puts, Key, Ordered
  <2>5. j \in 1..Len(l) /\ m + 1 \in 1..(j - 1)
      BY <1>2 DEF Behind
  <2>6. l[j].pane.id \notin Mentions(l[m + 1])
      BY <1>1, <2>2, <2>5 DEF MovedNew
  <2> QED
      BY <2>2, <2>4, <2>6 DEF e
<1>6. CASE id \in Agents0(c) /\ AgentWritten(e, id, f, h) = {}
           /\ d.agents.entries[id][f] = c.agents.entries[id][f]
  <2>1. \A j \in Behind(m, l) : AgentWritten(l[j], id, f, h) = {}
      BY <1>2, <1>6 DEF e, id
  <2>2. c.agents.entries[id][f] = p[f]
      BY <1>1, <1>6, <2>1 DEF AgentsCurrent, id
  <2> QED
      BY <1>6, <2>2 DEF id
<1>7. CASE id \in Mentions(e) /\ id \in Held(d, "panes")
           /\ d.agents.entries[id][f] = d.panes.entries[id][f]
  <2>1. \A j \in Behind(m + 1, l) : Written(l[j], "panes", id, f, h) = {}
      BY <1>5, <1>7
  <2>2. d["panes"].entries[id][f] = p[f]
      BY <1>1, <1>3, <1>4, <1>7, <2>1 DEF Current
  <2> QED
      BY <1>7, <2>2 DEF id
<1>8. CASE e.type = "PaneFocused" /\ f = "focused" /\ d.agents.entries[id][f] = (id = e.id)
  <2>1. CASE \E j \in Behind(m + 1, l) : Written(l[j], "panes", id, f, h) # {}
    <3>1. PICK j \in Behind(m + 1, l) : Written(l[j], "panes", id, f, h) # {}
        BY <2>1
    <3>2. l[j].type = "PaneMoved" /\ l[j].pane.id = id /\ id \notin Mentions(e)
        BY <1>5, <3>1
    <3>3. j \in 1..Len(l) /\ j \in Int /\ m + 1 < j
        BY <1>2 DEF Behind
    <3>4. l[j].pane.focused = FALSE
        BY <1>1, <3>2, <3>3 DEF AllGenuine, Genuine
    <3>5. FALSE \in Written(l[j], "panes", id, f, h)
        BY <1>8, <3>2, <3>4 DEF Written, Puts, Key, Ordered
    <3>6. ASSUME NEW k \in Behind(j, l) PROVE Written(l[k], "panes", id, f, h) = {}
      <4>1. k \in Behind(m + 1, l) /\ k \in 1..Len(l) /\ j \in 1..(k - 1)
          BY <1>2, <3>3 DEF Behind
      <4>2. SUFFICES ASSUME Written(l[k], "panes", id, f, h) # {} PROVE FALSE
          OBVIOUS
      <4>3. l[k].type = "PaneMoved" /\ l[k].pane.id = id
          BY <1>5, <4>1, <4>2
      <4>4. id \in Mentions(l[j])
          BY <3>2 DEF Mentions
      <4> QED
          BY <1>1, <4>1, <4>3, <4>4 DEF MovedNew
    <3>7. p[f] = FALSE
        BY <1>1, <1>3, <1>4, <3>3, <3>5, <3>6 DEF LastWrote
    <3>8. id # e.id
        BY <1>8, <3>2 DEF Mentions
    <3> QED
        BY <1>8, <3>7, <3>8 DEF id
  <2>2. CASE \A j \in Behind(m + 1, l) : Written(l[j], "panes", id, f, h) = {}
    <3>1. PICK v : v = (id = e.id)
        OBVIOUS
    <3>2. v \in Written(e, "panes", id, f, h)
        BY <1>8, <3>1 DEF Written
    <3>3. p[f] = v
        BY <1>1, <1>2, <1>3, <1>4, <2>2, <3>2 DEF LastWrote, e
    <3> QED
        BY <1>8, <3>1, <3>3 DEF id
  <2> QED
      BY <2>1, <2>2
<1> QED
    BY <1>1, <1>6, <1>7, <1>8 DEF Repeats, id

\* An event adds one workspace or tab, or lists them.
LEMMA OneAlone ==
    ASSUME NEW X \in Ordered, NEW e, NEW h, NEW x, NEW y, Alone(e, X, x, h), Alone(e, X, y, h),
           Group(X, x, h) = Group(X, y, h), Genuine(e, h)
    PROVE  x = y
<1>1. PICK r \in Puts(e, X), q \in Puts(e, X) : Key(X, r) = x /\ Key(X, q) = y
    BY DEF Alone, Brings
<1>2. CASE X = "workspaces"
  <2>1. e.type # "WorkspaceMoved"
      BY <1>2 DEF Alone, Reorders
  <2> QED
      BY <1>1, <1>2, <2>1 DEF Puts
<1>3. CASE X = "tabs"
  <2>1. CASE e.type = "TabMoved"
    <3>1. r \in Ids(e.tabs)
        BY <1>1, <1>3, <2>1 DEF Puts, EventTabs
    <3>2. r.ws = e.ws /\ Good("tabs", r, h) /\ r.id = x
        BY <1>1, <1>3, <2>1, <3>1 DEF Genuine, Kinds, Key
    <3>3. Group(X, x, h) = e.ws
        BY <1>3, <3>2 DEF Group, Good
    <3> QED
        BY <1>3, <2>1, <3>3 DEF Alone, Reorders
  <2>2. CASE e.type # "TabMoved"
      BY <1>1, <1>3, <2>2 DEF Puts, EventTabs
  <2> QED
      BY <2>1, <2>2
<1> QED
    BY <1>2, <1>3 DEF Ordered

\* After apply, what is held of a group that is not listed again is in the server's
\* order.
LEMMA TurnOrder ==
    ASSUME NEW s, NEW l, NEW h, NEW c, NEW d, NEW m, NEW t, Turn(s, l, h, c, d, m, t)
    PROVE  OrderKept(s, l, h, d, m + 1)
<1> DEFINE e == l[m + 1]
<1>1. /\ OrderKept(s, l, h, c, m) /\ ClosedGone(s, l, h)
      /\ ListedSo(s, l, h) /\ AddedLast(s, l, h) /\ AddedOnce(l, h)
      /\ Coming(s, l, d, m + 1) /\ Lawful(s, h)
      /\ \A X \in Kinds : HoldsAfter(X, c, e, d, h)
      /\ \A X \in Ordered : Places(X, c, e, d, h)
      /\ Genuine(e, h)
  <2>1. m + 1 \in 1..Len(l)
      BY TurnFacts
  <2>2. Coming(s, l, d, m + 1)
      BY TurnComing
  <2> QED
      BY <2>1, <2>2 DEF Turn, Awaits, Past, Reduces, AllGenuine, OrderLogged
<1>2. /\ m \in Nat /\ Len(l) \in Nat /\ m + 1 \in 1..Len(l)
      /\ Behind(m, l) = {m + 1} \cup Behind(m + 1, l)
    BY TurnFacts
<1> HIDE DEF e
<1> SUFFICES ASSUME NEW X \in Ordered, NEW x, NEW y,
                    Pair(s, X, x, y, h), Unmoved(l, m + 1, X, x, h), x \in Held(d, X),
                    y \notin Held(d, X) \/ Precedes(d[X].ids, x, y)
             PROVE  Precedes(IdsOf(s[X]), x, y)
    BY DEF OrderKept
<1>3. X \in Kinds /\ X # "layouts"
    BY DEF Ordered, Kinds
<1>4. x # y /\ Alive(s, X, x) /\ Alive(s, X, y) /\ Group(X, x, h) = Group(X, y, h)
    BY DEF Pair
<1>5. y \in Made(X, h) /\ x \in Made(X, h)
    BY <1>1, <1>3, <1>4, AliveMade
<1>6. CASE Reorders(e, X, Group(X, x, h))
  <2>1. Brings(e, X, x)
    <3>1. ~Brings(e, X, x) => Drops(e, X, x, h)
        BY <1>6 DEF Drops
    <3> QED
        BY <1>1, <1>3, <3>1 DEF HoldsAfter
  <2>2. ~Brings(e, X, y) \/ Precedes(IdsOf(e[X]), x, y)
      BY <1>1, <1>3, <1>4, <1>6 DEF HoldsAfter, Places
  <2>3. Listed(e, X, x, y)
      BY <2>1, <2>2 DEF Listed
  <2> QED
      BY <1>1, <1>2, <1>6, <2>3 DEF ListedSo, e
<1>7. CASE ~Reorders(e, X, Group(X, x, h))
  <2>1. Unmoved(l, m, X, x, h)
      BY <1>2, <1>7 DEF Unmoved, e
  <2>2. ~Drops(e, X, y, h)
    <3>1. ~Closes(e, X, y, h)
        BY <1>1, <1>2, <1>3, <1>4, <1>5 DEF ClosedGone, e
    <3> QED
        BY <1>4, <1>7, <3>1 DEF Drops
  <2>3. CASE x \in Held(c, X) /\ (y \notin Held(c, X) \/ Precedes(c[X].ids, x, y))
      BY <1>1, <2>1, <2>3 DEF OrderKept
  <2>4. CASE y \notin Held(d, X)
    <3>1. y \notin Held(c, X)
        BY <1>1, <1>3, <2>2, <2>4 DEF HoldsAfter
    <3>2. CASE x \notin Held(c, X)
      <4>1. Alone(e, X, x, h)
          BY <1>1, <1>3, <1>7, <3>2 DEF HoldsAfter, Alone
      <4>2. PICK j \in Behind(m + 1, l) : Brings(l[j], X, y)
          BY <1>1, <1>3, <1>4, <2>4 DEF Coming
      <4>3. j \in 1..Len(l) /\ Behind(j, l) \subseteq Behind(m + 1, l)
          BY <1>2 DEF Behind
      <4>4. Alone(l[j], X, y, h) /\ Unmoved(l, j, X, y, h)
          BY <1>4, <4>2, <4>3 DEF Unmoved, Alone
      <4>5. \A i \in Behind(m + 1, l) : ~Alone(l[i], X, x, h)
          BY <1>1, <1>2, <4>1 DEF AddedOnce, e
      <4> QED
          BY <1>1, <4>3, <4>4, <4>5 DEF AddedLast
    <3> QED
        BY <2>3, <3>1, <3>2
  <2>5. CASE Precedes(d[X].ids, x, y)
    <3>1. Precedes(c[X].ids, x, y) \/ (y \notin Held(c, X) /\ Alone(e, X, y, h))
        BY <1>1, <1>4, <1>7, <2>5 DEF Places
    <3>2. CASE Precedes(c[X].ids, x, y)
      <4>1. Sound(c[X])
        <5>1. Faithful(c, h)
            BY DEF Turn, Awaits
        <5> QED
            BY <5>1 DEF Faithful, SoundCache, Ordered
      <4>2. x \in Held(c, X)
          BY <3>2, <4>1, PrecedesLies, PartsOfSound DEF Held
      <4> QED
          BY <2>3, <3>2, <4>2
    <3>3. CASE y \notin Held(c, X) /\ Alone(e, X, y, h)
      <4>1. ~Brings(e, X, x)
          BY <1>1, <1>4, <1>7, <3>3, OneAlone DEF Alone
      <4>2. x \in Held(c, X)
          BY <1>1, <1>3, <4>1 DEF HoldsAfter
      <4> QED
          BY <2>3, <3>3, <4>2
    <3> QED
        BY <3>1, <3>2, <3>3
  <2> QED
      BY <2>4, <2>5
<1> QED
    BY <1>6, <1>7

\* Whatever the mirror still differs in is behind the event it applied.
LEMMA TurnAwaits ==
    ASSUME NEW s, NEW l, NEW h, NEW c, NEW d, NEW m, NEW t, Turn(s, l, h, c, d, m, t),
           NEW u, Onto(u, m, t)
    PROVE  Awaits(s, l, h, d, m + 1, u)
<1>1. m + 1 \in Nat /\ u \in Nat /\ m + 1 <= u /\ u <= Len(l)
    BY TurnFacts, OntoFacts
<1>2. Faithful(d, h)
    BY DEF Turn, Reduces
<1>3. Coming(s, l, d, m + 1) /\ Going(s, l, h, d, m + 1) /\ Current(s, l, h, d, m + 1)
    BY TurnComing, TurnCurrent
<1>4. PanesComing(s, l, d, m + 1) /\ PanesKnown(l, d, m + 1, u)
    BY TurnPanes
<1>5. /\ AgentsComing(s, l, d, m + 1, u) /\ AgentsGoing(s, l, h, d, m + 1)
      /\ CarriedComing(l, d, m + 1, u) /\ BareGoing(l, d, m + 1)
      /\ AgentsCurrent(s, l, h, d, m + 1)
    BY TurnAgents, TurnCarried, TurnAgentsCurrent
<1>6. OrderKept(s, l, h, d, m + 1)
    BY TurnOrder
<1> QED
    BY <1>1, <1>2, <1>3, <1>4, <1>5, <1>6 DEF Awaits

\* Order, read back from what a list became.
LEMMA AmongBack ==
    ASSUME NEW s, NEW set, IsList(s), Distinct(s), NEW x, NEW y, x # y,
           Precedes(Among(s, set), x, y)
    PROVE  Precedes(s, x, y)
<1>1. /\ IsList(Among(s, set)) /\ Distinct(Among(s, set))
      /\ Ids(Among(s, set)) = Ids(s) \cap set
    BY AmongFacts, AmongList DEF IsList
<1>2. x \in Ids(s) \cap set /\ y \in Ids(s) \cap set
    BY <1>1, PrecedesLies
<1>3. Precedes(s, y, x) => Precedes(Among(s, set), y, x)
    BY <1>2, AmongOrder
<1>4. ~Precedes(Among(s, set), y, x)
    BY <1>1, <1>2, PrecedesTotal
<1> QED
    BY <1>2, <1>3, <1>4, PrecedesTotal

\* The order of a list with one more is that of the list, or the new one is last.
LEMMA AppendBack ==
    ASSUME NEW s, NEW z, IsList(s), Distinct(s), z \notin Ids(s), NEW x, NEW y, x # y,
           Precedes(Append(s, z), x, y)
    PROVE  Precedes(s, x, y) \/ y = z
<1> DEFINE D == Ids(s) \cup {z}
<1>1. s \in Seq(D) /\ z \in D
    BY Narrow DEF IsList
<1>2. IsList(Append(s, z)) /\ Ids(Append(s, z)) = Ids(s) \cup {z} /\ Distinct(Append(s, z))
  <2>1. Ids(Append(s, z)) = Ids(s) \cup {z} /\ Distinct(Append(s, z))
      BY <1>1, AppendFacts
  <2> QED
      BY <2>1, AppendList
<1> SUFFICES ASSUME y # z PROVE Precedes(s, x, y)
    OBVIOUS
<1>3. x \in Ids(s) \cup {z} /\ y \in Ids(s)
    BY <1>2, PrecedesLies
<1>4. ~Precedes(Append(s, z), y, x)
    BY <1>2, <1>3, PrecedesTotal
<1>5. x # z
    BY <1>3, <1>4, PrecedesAppend
<1>6. ~Precedes(s, y, x)
    BY <1>4, PrecedesAppend
<1> QED
    BY <1>3, <1>5, <1>6, PrecedesTotal

-----------------------------------------------------------------------------
(* One collection of the mirror, and what it becomes *)

\* One collection of the mirror: its ids are its entries, each filed under its own key.
FaithfulTo(X, o, h) ==
    /\ Sound(o)
    /\ \A id \in DOMAIN o.entries : Good(X, o.entries[id], h) /\ Key(X, o.entries[id]) = id
\* The order of one collection after an event.
PlacesIn(X, o, p, e, h) ==
    \A x, y :
        x # y /\ Precedes(p.ids, x, y) /\ Group(X, x, h) = Group(X, y, h)
          => IF Reorders(e, X, Group(X, x, h)) THEN Precedes(IdsOf(e[X]), x, y)
             ELSE \/ Precedes(o.ids, x, y)
                  \/ y \notin DOMAIN o.entries /\ Alone(e, X, y, h)
\* What one collection becomes is what the event says of its kind.
Part(X, o, p, e, h) ==
    /\ \A id \in DOMAIN p.entries : Good(X, p.entries[id], h) /\ Key(X, p.entries[id]) = id
    /\ \A id : id \in DOMAIN p.entries
                 <=> Brings(e, X, id) \/ (id \in DOMAIN o.entries /\ ~Drops(e, X, id, h))
    /\ \A id \in DOMAIN p.entries : \A f \in Fields(X) :
          /\ Written(e, X, id, f, h) = {}
               => id \in DOMAIN o.entries /\ p.entries[id][f] = o.entries[id][f]
          /\ \A v \in Written(e, X, id, f, h) : p.entries[id][f] = v
    /\ X \in Ordered => PlacesIn(X, o, p, e, h)

\* Nothing is said of the collection.
LEMMA StillPart ==
    ASSUME NEW X, NEW o, NEW e, NEW h, FaithfulTo(X, o, h), Silent(e, X, h)
    PROVE  Part(X, o, o, e, h)
<1>1. \A id : ~Brings(e, X, id) /\ ~Drops(e, X, id, h)
    BY DEF Silent, Brings, Drops
<1> QED
    BY <1>1 DEF Part, PlacesIn, FaithfulTo, Silent

\* Entries are rewritten where they are, if at all.
LEMMA RewritePart ==
    ASSUME NEW X, NEW o, NEW p, NEW e, NEW h, FaithfulTo(X, o, h),
           p.ids = o.ids, DOMAIN p.entries = DOMAIN o.entries,
           \A id \in DOMAIN o.entries : Becomes(e, X, o.entries[id], p.entries[id], h),
           \A id : Brings(e, X, id) => id \in DOMAIN o.entries,
           \A id : ~Closes(e, X, id, h), \A g : ~Reorders(e, X, g)
    PROVE  Part(X, o, p, e, h)
<1>1. \A id : ~Drops(e, X, id, h)
    BY DEF Drops
<1>2. \A id \in DOMAIN o.entries : Key(X, o.entries[id]) = id
    BY DEF FaithfulTo
<1>3. PlacesIn(X, o, p, e, h)
    BY DEF PlacesIn
<1> QED
    BY <1>1, <1>2, <1>3 DEF Part, Becomes

\* A whole record is set.
LEMMA SetPart ==
    ASSUME NEW X, NEW o, NEW e, NEW h, NEW r, NEW id, FaithfulTo(X, o, h),
           Puts(e, X) = {r}, Only(e, X, h), Good(X, r, h), id = Key(X, r)
    PROVE  Part(X, o, Set(o, id, r), e, h)
<1> DEFINE p == Set(o, id, r)
<1>1. /\ DOMAIN p.entries = DOMAIN o.entries \cup {id}
      /\ p.entries[id] = r
      /\ \A x \in DOMAIN o.entries : x # id => p.entries[x] = o.entries[x]
    BY SetHolds
<1>2. p.ids = IF id \in DOMAIN o.entries THEN o.ids ELSE Append(o.ids, id)
    BY DEF Set, Has
<1> HIDE DEF p
<1>3. \A x : Brings(e, X, x) <=> x = id
    BY DEF Brings
<1>4. /\ \A x : ~Drops(e, X, x, h)
      /\ \A g : ~Reorders(e, X, g)
    BY DEF Only, Drops
<1>5. \A x, f : Written(e, X, x, f, h) = IF x = id THEN {r[f]} ELSE {}
  <2> SUFFICES ASSUME NEW x, NEW f
               PROVE  Written(e, X, x, f, h) = IF x = id THEN {r[f]} ELSE {}
      OBVIOUS
  <2>1. Written(e, X, x, f, h) = {z[f] : z \in {q \in {r} : Key(X, q) = x}}
      BY DEF Only
  <2>2. {q \in {r} : Key(X, q) = x} = IF x = id THEN {r} ELSE {}
      OBVIOUS
  <2> QED
      BY <2>1, <2>2
<1>6. PlacesIn(X, o, p, e, h)
  <2> SUFFICES ASSUME NEW x, NEW y, x # y, Precedes(p.ids, x, y)
               PROVE  \/ Precedes(o.ids, x, y)
                      \/ y \notin DOMAIN o.entries /\ Alone(e, X, y, h)
      BY <1>4 DEF PlacesIn
  <2>1. CASE id \in DOMAIN o.entries
      BY <1>2, <2>1
  <2>2. CASE id \notin DOMAIN o.entries
    <3>1. IsList(o.ids) /\ Distinct(o.ids) /\ Ids(o.ids) = DOMAIN o.entries
        BY PartsOfSound DEF FaithfulTo, IsList
    <3>2. p.ids = Append(o.ids, id)
        BY <1>2, <2>2
    <3>3. Precedes(o.ids, x, y) \/ y = id
        BY <2>2, <3>1, <3>2, AppendBack
    <3> QED
        BY <1>3, <1>4, <2>2, <3>3 DEF Alone
  <2> QED
      BY <2>1, <2>2
<1>7. \A x \in DOMAIN o.entries : Good(X, o.entries[x], h) /\ Key(X, o.entries[x]) = x
    BY DEF FaithfulTo
<1> QED
    BY <1>1, <1>3, <1>4, <1>5, <1>6, <1>7 DEF Part, p

\* Entries that an event closes are taken out.
LEMMA KeepPart ==
    ASSUME NEW X, NEW o, NEW e, NEW h, NEW set, FaithfulTo(X, o, h),
           Puts(e, X) = {}, \A g : ~Reorders(e, X, g),
           \A id, f : Written(e, X, id, f, h) = {},
           \A id \in DOMAIN o.entries : id \in set <=> ~Closes(e, X, id, h)
    PROVE  Part(X, o, Keep(o, set), e, h)
<1> DEFINE p == Keep(o, set)
<1>1. /\ DOMAIN p.entries = DOMAIN o.entries \cap set
      /\ \A x \in DOMAIN o.entries \cap set : p.entries[x] = o.entries[x]
    BY KeepHolds
<1>2. p.ids = Among(o.ids, set)
    BY DEF Keep
<1> HIDE DEF p
<1>3. \A id : ~Brings(e, X, id) /\ (Drops(e, X, id, h) <=> Closes(e, X, id, h))
    BY DEF Brings, Drops
<1>4. PlacesIn(X, o, p, e, h)
  <2>1. IsList(o.ids) /\ Distinct(o.ids)
      BY PartsOfSound DEF FaithfulTo, IsList
  <2> QED
      BY <1>2, <2>1, AmongBack DEF PlacesIn
<1> QED
    BY <1>1, <1>3, <1>4 DEF Part, FaithfulTo, p

\* An event the server pushes is one apply has a case for.
LEMMA GenuineDecoded ==
    ASSUME NEW e, NEW h, Genuine(e, h)
    PROVE  Decoded(e)
    BY DEF Genuine, Decoded

\* What happens to the agents.
Staffs(c, e, d, h) ==
    /\ Employs(c, e, d, h) /\ Repeats(c, e, d, h)
    /\ \A id \in Agents0(d) : AgentShaped(d.agents.entries[id], id, h)
\* The layout that a focus change on a pane that is not held would name.
Unnamed(X, c, e, d) ==
    /\ X = "layouts" /\ e.type = "PaneFocused" /\ e.id \notin Held(c, "panes")
    /\ d.layouts = c.layouts

\* The mirror is faithful kind by kind.
LEMMA FaithfulParts ==
    ASSUME NEW c, NEW h, Faithful(c, h), NEW X \in Kinds
    PROVE  FaithfulTo(X, c[X], h)
<1>1. Sound(c[X])
    BY DEF Faithful, SoundCache, Kinds
<1> QED
    BY <1>1 DEF Faithful, FaithfulTo, Held

\* What apply does kind by kind, and to the agents, is what the event says.
LEMMA ReduceParts ==
    ASSUME NEW c, NEW e, NEW d, NEW h, Faithful(c, h), SoundCache(d),
           \A X \in Kinds : Part(X, c[X], d[X], e, h) \/ Unnamed(X, c, e, d),
           Staffs(c, e, d, h)
    PROVE  Reduces(c, e, d, h)
<1>1. ASSUME NEW X \in Kinds
      PROVE  /\ HoldsAfter(X, c, e, d, h) /\ Assigns(X, c, e, d, h)
             /\ \A id \in Held(d, X) : Good(X, d[X].entries[id], h) /\ Key(X, d[X].entries[id]) = id
  <2>1. CASE Part(X, c[X], d[X], e, h)
      BY <2>1 DEF Part, HoldsAfter, Assigns, Held
  <2>2. CASE Unnamed(X, c, e, d)
    <3>1. X = "layouts" /\ e.type = "PaneFocused" /\ e.id \notin Held(c, "panes")
          /\ d["layouts"] = c["layouts"]
        BY <2>2 DEF Unnamed
    <3>2. \A id : ~Brings(e, X, id) /\ ~Drops(e, X, id, h)
        BY <3>1 DEF Brings, Puts, Drops, Closes, Reorders
    <3> QED
        BY <3>1, <3>2 DEF HoldsAfter, Assigns, Held, Faithful
  <2> QED
      BY <2>1, <2>2
<1>2. Agents0(d) \subseteq Held(d, "panes")
  <2> SUFFICES ASSUME NEW id \in Agents0(d) PROVE id \in Held(d, "panes")
      OBVIOUS
  <2>1. "panes" \in Kinds
      BY DEF Kinds
  <2>2. id \in Held(d, "panes")
          <=> Brings(e, "panes", id) \/ (id \in Held(c, "panes") /\ ~Drops(e, "panes", id, h))
      BY <1>1, <2>1 DEF HoldsAfter
  <2>3. Drops(e, "panes", id, h) <=> Closes(e, "panes", id, h)
      BY DEF Drops, Reorders
  <2>4. CASE Joins(e, id) /\ id \in Held(c, "panes")
    <3>1. ~Closes(e, "panes", id, h)
        BY <2>4 DEF Joins, Closes
    <3> QED
        BY <2>2, <2>3, <2>4, <3>1
  <2>5. CASE e.type = "PaneMoved" /\ e.pane.id = id
    <3>1. Brings(e, "panes", id)
        BY <2>5 DEF Brings, Puts, Key, Ordered
    <3> QED
        BY <2>2, <3>1
  <2>6. CASE id \in Agents0(c) /\ ~Leaves(e, id, h)
      BY <2>2, <2>3, <2>6 DEF Leaves, Faithful
  <2> QED
      BY <2>4, <2>5, <2>6 DEF Staffs, Employs
<1>3. \A X \in Ordered : Places(X, c, e, d, h)
  <2> SUFFICES ASSUME NEW X \in Ordered PROVE Places(X, c, e, d, h)
      OBVIOUS
  <2>1. X \in Kinds /\ X # "layouts"
      BY DEF Ordered, Kinds
  <2>2. Part(X, c[X], d[X], e, h)
      BY <2>1 DEF Unnamed
  <2> QED
      BY <2>2 DEF Part, PlacesIn, Places, Held
<1> QED
    BY <1>1, <1>2, <1>3 DEF Reduces, Faithful, Staffs

-----------------------------------------------------------------------------
(* Agents *)

\* mergeAgent gives the entry every field of the pane.
LEMMA MergeShaped ==
    ASSUME NEW agent, NEW p, NEW h, Good("panes", p, h), NEW a, a = mergeAgent(agent, p)
    PROVE  /\ AgentShaped(a, p.id, h)
           /\ \A f \in Fields("panes") : a[f] = p[f]
<1>1. /\ a = [id |-> p.id, tab |-> p.tab, ws |-> p.ws, focused |-> p.focused,
              agent |-> p.agent, display |-> p.display, status |-> p.status,
              rev |-> p.rev, name |-> agent.name]
      /\ p.focused \in BOOLEAN /\ p.tab = h.pane[p.id] /\ p.ws = h.tab[p.tab]
    BY DEF mergeAgent, Good, Ordered
<1>2. Fields("panes") = {"focused", "agent", "display", "status", "rev"}
    BY DEF Fields, Ordered
<1> QED
    BY <1>1, <1>2 DEF AgentShaped

\* No agent comes, leaves or changes.
LEMMA AgentsStill ==
    ASSUME NEW c, NEW e, NEW d, NEW h, Faithful(c, h), d.agents = c.agents,
           e.type # "PaneMoved",
           \A id \in Agents0(c) : /\ ~Leaves(e, id, h)
                                  /\ \A f : Written(e, "panes", id, f, h) = {},
           \A id \in Held(c, "panes") : ~Joins(e, id)
    PROVE  Staffs(c, e, d, h)
<1>1. Employs(c, e, d, h)
    BY DEF Employs, Agents0
<1>2. Repeats(c, e, d, h)
    BY DEF Repeats, Agents0, AgentWritten
<1> QED
    BY <1>1, <1>2 DEF Staffs, Faithful, Agents0

\* Agents leave with their panes.
LEMMA AgentsGone ==
    ASSUME NEW c, NEW e, NEW d, NEW h, NEW set, Faithful(c, h),
           d.agents = Keep(c.agents, set),
           e.type \in {"WorkspaceClosed", "TabClosed", "PaneClosed"},
           \A id \in Agents0(c) : id \in set <=> ~Closes(e, "panes", id, h)
    PROVE  Staffs(c, e, d, h)
<1>1. /\ Agents0(d) = Agents0(c) \cap set
      /\ \A id \in Agents0(d) : d.agents.entries[id] = c.agents.entries[id]
    BY KeepHolds DEF Agents0
<1>2. /\ \A id : ~Joins(e, id) /\ ~Frees(e, id)
      /\ \A id, f : Written(e, "panes", id, f, h) = {}
    BY DEF Joins, Frees, Written, Puts
<1>3. Employs(c, e, d, h)
    BY <1>1, <1>2 DEF Employs, Leaves
<1>4. Repeats(c, e, d, h)
    BY <1>1, <1>2 DEF Repeats, AgentWritten
<1> QED
    BY <1>1, <1>3, <1>4 DEF Staffs, Faithful

\* A pane is assigned, and the agent in it takes its fields.
LEMMA AgentMerges ==
    ASSUME NEW c, NEW e, NEW d, NEW h, NEW p, NEW agent, Faithful(c, h), Good("panes", p, h),
           p.id \in Mentions(e), e.type # "PaneMoved",
           p.id \in Held(d, "panes"), d.panes.entries[p.id] = p,
           \A x : x # p.id => ~Joins(e, x) /\ \A f : Written(e, "panes", x, f, h) = {},
           \A x : ~Leaves(e, x, h),
           Joins(e, p.id) => p.id \in Held(c, "panes"),
           IF p.id \in Agents0(c) \/ Joins(e, p.id)
           THEN d.agents = Set(c.agents, p.id, mergeAgent(agent, p))
           ELSE d.agents = c.agents
    PROVE  Staffs(c, e, d, h)
<1> DEFINE a == mergeAgent(agent, p)
<1>1. AgentShaped(a, p.id, h) /\ \A f \in Fields("panes") : a[f] = p[f]
    BY MergeShaped
<1> HIDE DEF a
<1>2. CASE p.id \in Agents0(c) \/ Joins(e, p.id)
  <2>0. d.agents = Set(c.agents, p.id, a)
      BY <1>2 DEF a
  <2>1. /\ Agents0(d) = Agents0(c) \cup {p.id}
        /\ d.agents.entries[p.id] = a
        /\ \A x \in Agents0(c) : x # p.id => d.agents.entries[x] = c.agents.entries[x]
      BY <2>0, SetHolds DEF Agents0
  <2>2. Employs(c, e, d, h)
      BY <1>2, <2>1 DEF Employs
  <2>3. Repeats(c, e, d, h)
      BY <1>1, <2>1 DEF Repeats, AgentWritten
  <2> QED
      BY <1>1, <2>1, <2>2, <2>3 DEF Staffs, Faithful
<1>3. CASE ~(p.id \in Agents0(c) \/ Joins(e, p.id))
  <2>1. d.agents = c.agents
      BY <1>3
  <2>2. Employs(c, e, d, h)
      BY <1>3, <2>1 DEF Employs, Agents0
  <2>3. Repeats(c, e, d, h)
      BY <1>3, <2>1 DEF Repeats, Agents0, AgentWritten
  <2> QED
      BY <2>1, <2>2, <2>3 DEF Staffs, Faithful, Agents0
<1> QED
    BY <1>2, <1>3

\* An event about one kind, and not about panes.
LEMMA OneReduces ==
    ASSUME NEW c, NEW e, NEW d, NEW h, NEW X \in Kinds \ {"panes"}, Faithful(c, h), SoundCache(d),
           \A Y \in Kinds \ {X} : d[Y] = c[Y] /\ e.type \notin Tells(Y),
           d.agents = c.agents, e.type # "PaneMoved",
           Part(X, c[X], d[X], e, h)
    PROVE  Reduces(c, e, d, h)
<1>1. ASSUME NEW Y \in Kinds PROVE Part(Y, c[Y], d[Y], e, h)
  <2>1. CASE Y = X
      BY <2>1
  <2>2. CASE Y # X
    <3>1. d[Y] = c[Y] /\ Silent(e, Y, h)
        BY <2>2, SilentElse
    <3>2. Part(Y, c[Y], c[Y], e, h)
        BY <3>1, FaithfulParts, StillPart
    <3> QED
        BY <3>1, <3>2
  <2> QED
      BY <2>1, <2>2
<1>2. Staffs(c, e, d, h)
  <2>1. e.type \notin Tells("panes")
      BY DEF Kinds
  <2>2. Silent(e, "panes", h)
      BY <2>1, SilentElse DEF Kinds
  <2>3. \A id : ~Joins(e, id) /\ ~Frees(e, id)
      BY <2>1 DEF Tells, Joins, Frees
  <2> QED
      BY <2>2, <2>3, AgentsStill DEF Silent, Leaves
<1> QED
    BY <1>1, <1>2, ReduceParts

\* The events that say something of each kind.
LEMMA TellsKinds ==
    /\ Tells("workspaces") = {"WorkspaceSet", "WorkspaceRenamed", "WorkspaceMoved",
                              "WorkspaceFocused", "WorkspaceClosed", "PaneMoved"}
    /\ Tells("tabs") = {"TabCreated", "TabRenamed", "TabMoved", "TabFocused", "TabClosed",
                        "WorkspaceClosed", "PaneMoved"}
    /\ Tells("panes") = {"PaneSet", "PaneMoved", "PaneFocused", "PaneClosed", "PaneRevised",
                         "PaneAgentDetected", "PaneAgentStatusChanged", "TabClosed",
                         "WorkspaceClosed"}
    /\ Tells("layouts") = {"LayoutUpdated", "PaneFocused", "PaneMoved", "TabClosed",
                           "WorkspaceClosed"}
    BY DEF Tells

\* One collection is assigned.
LEMMA OneAssigned ==
    ASSUME NEW c, NEW h, Faithful(c, h), NEW X \in Kinds, NEW p, NEW d,
           d = [c EXCEPT ![X] = p]
    PROVE  /\ d[X] = p /\ d.agents = c.agents
           /\ \A Y \in Kinds \ {X} : d[Y] = c[Y]
<1>1. DOMAIN c = {"workspaces", "tabs", "panes", "agents", "layouts"}
    BY DEF Faithful, SoundCache
<1> QED
    BY <1>1 DEF Kinds

\* A workspace or a tab with its label or its flag rewritten.
LEMMA GoodOrdered ==
    ASSUME NEW X \in Ordered, NEW r, NEW h, Good(X, r, h), NEW v
    PROVE  /\ \A q : q = [r EXCEPT !.label = v]
                => Good(X, q, h) /\ Key(X, q) = Key(X, r) /\ q.label = v /\ q.focused = r.focused
           /\ \A q : q = [r EXCEPT !.focused = v] /\ v \in BOOLEAN
                => Good(X, q, h) /\ Key(X, q) = Key(X, r) /\ q.focused = v /\ q.label = r.label
<1>0. X # "layouts"
    BY DEF Ordered
<1>1. CASE X = "workspaces"
    BY <1>0, <1>1 DEF Good, Key
<1>2. CASE X = "tabs"
    BY <1>0, <1>2 DEF Good, Key
<1> QED
    BY <1>1, <1>2 DEF Ordered

\* Relabel and FocusOnly of workspaces and of tabs.
LEMMA RelabelPart ==
    ASSUME NEW X \in Ordered, NEW o, NEW e, NEW h, NEW id, NEW label, FaithfulTo(X, o, h),
           e.type = Renames(X), e.id = id, e.label = label
    PROVE  Part(X, o, Relabel(o, id, label), e, h)
<1> DEFINE p == Relabel(o, id, label)
<1>0. X # "layouts" /\ X # "panes" /\ Fields(X) = {"label", "focused"}
    BY DEF Ordered, Fields
<1>1. /\ Puts(e, X) = {} /\ \A x : ~Brings(e, X, x)
      /\ \A x : ~Closes(e, X, x, h)
      /\ \A g : ~Reorders(e, X, g)
      /\ \A x, f : Written(e, X, x, f, h) = IF x = id /\ f = "label" THEN {label} ELSE {}
  <2>1. CASE X = "workspaces"
      BY <2>1 DEF Renames, Puts, Brings, Closes, Reorders, Written
  <2>2. CASE X = "tabs"
      BY <2>2 DEF Renames, Puts, EventTabs, Brings, Closes, Reorders, Written
  <2> QED
      BY <2>1, <2>2 DEF Ordered
<1>2. p.ids = o.ids /\ DOMAIN p.entries = DOMAIN o.entries
    BY SetHolds DEF Relabel, Set, Has
<1>3. \A x \in DOMAIN o.entries :
         p.entries[x] = IF x = id THEN [o.entries[x] EXCEPT !.label = label] ELSE o.entries[x]
  <2>1. CASE Has(o, id)
      BY <2>1, SetHolds DEF Relabel, Has
  <2>2. CASE ~Has(o, id)
      BY <2>2 DEF Relabel, Has
  <2> QED
      BY <2>1, <2>2
<1> HIDE DEF p
<1>4. ASSUME NEW x \in DOMAIN o.entries
      PROVE  Becomes(e, X, o.entries[x], p.entries[x], h)
  <2> DEFINE r == o.entries[x]
             q == p.entries[x]
  <2>1. Good(X, r, h) /\ Key(X, r) = x
      BY DEF FaithfulTo
  <2>2. q = IF x = id THEN [r EXCEPT !.label = label] ELSE r
      BY <1>3
  <2> HIDE DEF r, q
  <2>3. CASE x = id
    <3>1. Good(X, q, h) /\ Key(X, q) = Key(X, r) /\ q.label = label /\ q.focused = r.focused
        BY <2>1, <2>2, <2>3, GoodOrdered
    <3>2. Becomes(e, X, r, q, h)
        BY <1>0, <1>1, <2>1, <2>3, <3>1 DEF Becomes
    <3> QED
        BY <3>2 DEF r, q
  <2>4. CASE x # id
    <3>2. Becomes(e, X, r, q, h)
        BY <1>0, <1>1, <2>1, <2>2, <2>4 DEF Becomes
    <3> QED
        BY <3>2 DEF r, q
  <2> QED
      BY <2>3, <2>4
<1>5. Part(X, o, p, e, h)
    BY <1>1, <1>2, <1>4, RewritePart
<1> QED
    BY <1>5 DEF p

\* focusWorkspace and focusTab set the flag of one entry and clear the others.
LEMMA FocusPart ==
    ASSUME NEW X \in Ordered, NEW o, NEW e, NEW h, NEW id, FaithfulTo(X, o, h),
           e.type = Focuses(X), e.id = id
    PROVE  Part(X, o, FocusOnly(o, id), e, h)
<1> DEFINE p == FocusOnly(o, id)
<1>0. X # "layouts" /\ X # "panes" /\ Fields(X) = {"label", "focused"}
    BY DEF Ordered, Fields
<1>1. /\ Puts(e, X) = {} /\ \A x : ~Brings(e, X, x)
      /\ \A x : ~Closes(e, X, x, h)
      /\ \A g : ~Reorders(e, X, g)
      /\ \A x, f : Written(e, X, x, f, h) = IF f = "focused" THEN {x = id} ELSE {}
  <2>1. CASE X = "workspaces"
      BY <2>1 DEF Focuses, Puts, Brings, Closes, Reorders, Written
  <2>2. CASE X = "tabs"
      BY <2>2 DEF Focuses, Puts, EventTabs, Brings, Closes, Reorders, Written
  <2> QED
      BY <2>1, <2>2 DEF Ordered
<1>2. p.ids = o.ids /\ DOMAIN p.entries = DOMAIN o.entries
  <2>1. o = [ids |-> o.ids, entries |-> o.entries]
      BY DEF FaithfulTo, Sound
  <2> QED
      BY <2>1 DEF FocusOnly, Update
<1>3. \A x \in DOMAIN o.entries : p.entries[x] = [o.entries[x] EXCEPT !.focused = (x = id)]
  <2>1. o = [ids |-> o.ids, entries |-> o.entries]
      BY DEF FaithfulTo, Sound
  <2> QED
      BY <2>1 DEF FocusOnly, Update
<1> HIDE DEF p
<1>4. ASSUME NEW x \in DOMAIN o.entries
      PROVE  Becomes(e, X, o.entries[x], p.entries[x], h)
  <2> DEFINE r == o.entries[x]
             q == p.entries[x]
  <2>1. Good(X, r, h) /\ Key(X, r) = x
      BY DEF FaithfulTo
  <2>2. PICK v : v = (x = id)
      OBVIOUS
  <2>3. q = [r EXCEPT !.focused = v] /\ v \in BOOLEAN
      BY <1>3, <2>2
  <2> HIDE DEF r, q
  <2>4. Good(X, q, h) /\ Key(X, q) = Key(X, r) /\ q.focused = v /\ q.label = r.label
      BY <2>1, <2>3, GoodOrdered
  <2>5. \A f : Written(e, X, x, f, h) = IF f = "focused" THEN {v} ELSE {}
      BY <1>1, <2>2
  <2>6. Becomes(e, X, r, q, h)
      BY <1>0, <2>1, <2>4, <2>5 DEF Becomes
  <2> QED
      BY <2>6 DEF r, q
<1>5. Part(X, o, p, e, h)
    BY <1>1, <1>2, <1>4, RewritePart
<1> QED
    BY <1>5 DEF p

\* The cache after an event keeps one place for each entry.
LEMMA AppliedSound ==
    ASSUME NEW c, NEW e, NEW h, Faithful(c, h), Genuine(e, h)
    PROVE  SoundCache(apply(c, e))
    BY ApplySound, GenuineDecoded DEF Faithful

\* workspace.created and updated, tab.created, layout.updated: a whole record.
LEMMA RecordReduces ==
    ASSUME NEW c, NEW e, NEW h, Faithful(c, h), Genuine(e, h),
           e.type \in {"WorkspaceSet", "TabCreated", "LayoutUpdated"}
    PROVE  Reduces(c, e, apply(c, e), h)
<1> DEFINE d == apply(c, e)
<1>0. SoundCache(d)
    BY AppliedSound
<1>1. ASSUME NEW X \in {"workspaces", "tabs", "layouts"}, NEW r, NEW id, Puts(e, X) = {r},
             Only(e, X, h), id = Key(X, r), d = [c EXCEPT ![X] = Set(c[X], id, r)],
             \A Y \in Kinds \ {X} : e.type \notin Tells(Y)
      PROVE  Reduces(c, e, d, h)
  <2>1. X \in Kinds \ {"panes"}
      BY DEF Kinds
  <2>2. Good(X, r, h)
      BY <1>1, <2>1 DEF Genuine
  <2>3. FaithfulTo(X, c[X], h)
      BY <2>1, FaithfulParts
  <2>4. Part(X, c[X], Set(c[X], id, r), e, h)
      BY <1>1, <2>2, <2>3, SetPart
  <2> HIDE DEF d
  <2>5. PICK p : p = Set(c[X], id, r)
      OBVIOUS
  <2>6. d[X] = p /\ d.agents = c.agents /\ \A Y \in Kinds \ {X} : d[Y] = c[Y]
      BY <1>1, <2>1, <2>5, OneAssigned
  <2>7. Part(X, c[X], d[X], e, h)
      BY <2>4, <2>5, <2>6
  <2>8. e.type # "PaneMoved"
      OBVIOUS
  <2> QED
      BY <1>0, <1>1, <2>1, <2>6, <2>7, <2>8, OneReduces
<1>2. CASE e.type = "WorkspaceSet"
  <2>1. Puts(e, "workspaces") = {e.workspace} /\ Only(e, "workspaces", h)
      BY <1>2 DEF Puts, Only, Closes, Reorders, Written
  <2>2. d = [c EXCEPT !["workspaces"] = Set(c["workspaces"], e.workspace.id, e.workspace)]
      BY <1>2 DEF apply, Faithful, SoundCache
  <2>3. \A Y \in Kinds \ {"workspaces"} : e.type \notin Tells(Y)
      BY <1>2, TellsKinds DEF Kinds
  <2>4. e.workspace.id = Key("workspaces", e.workspace)
      BY DEF Key
  <2> QED
      BY <1>1, <2>1, <2>2, <2>3, <2>4
<1>3. CASE e.type = "TabCreated"
  <2>1. Puts(e, "tabs") = {e.tab} /\ Only(e, "tabs", h)
      BY <1>3 DEF Puts, EventTabs, Only, Closes, Reorders, Written
  <2>2. d = [c EXCEPT !["tabs"] = Set(c["tabs"], e.tab.id, e.tab)]
      BY <1>3 DEF apply, Faithful, SoundCache
  <2>3. \A Y \in Kinds \ {"tabs"} : e.type \notin Tells(Y)
      BY <1>3, TellsKinds DEF Kinds
  <2>4. e.tab.id = Key("tabs", e.tab)
      BY DEF Key
  <2> QED
      BY <1>1, <2>1, <2>2, <2>3, <2>4
<1>4. CASE e.type = "LayoutUpdated"
  <2>1. Puts(e, "layouts") = {e.layout} /\ Only(e, "layouts", h)
      BY <1>4 DEF Puts, Only, Closes, Reorders, Written
  <2>2. d = [c EXCEPT !["layouts"] = Set(c["layouts"], e.layout.tab, e.layout)]
      BY <1>4 DEF apply, Faithful, SoundCache
  <2>3. \A Y \in Kinds \ {"layouts"} : e.type \notin Tells(Y)
      BY <1>4, TellsKinds DEF Kinds
  <2>4. e.layout.tab = Key("layouts", e.layout)
      BY DEF Key
  <2> QED
      BY <1>1, <2>1, <2>2, <2>3, <2>4
<1> QED
    BY <1>2, <1>3, <1>4

\* The labels and the flags of workspaces and of tabs.
LEMMA FieldReduces ==
    ASSUME NEW c, NEW e, NEW h, Faithful(c, h), Genuine(e, h), NEW X \in Ordered,
           e.type \in {Renames(X), Focuses(X)}
    PROVE  Reduces(c, e, apply(c, e), h)
<1> DEFINE d == apply(c, e)
<1>0. SoundCache(d)
    BY AppliedSound
<1>1. X \in Kinds \ {"panes"} /\ FaithfulTo(X, c[X], h)
    BY FaithfulParts DEF Kinds, Ordered
<1>2. \A Y \in Kinds \ {X} : e.type \notin Tells(Y)
    BY TellsKinds DEF Kinds, Ordered, Renames, Focuses
<1>3. e.type # "PaneMoved"
    BY DEF Ordered, Renames, Focuses
<1>4. ASSUME NEW p, d = [c EXCEPT ![X] = p], Part(X, c[X], p, e, h)
      PROVE  Reduces(c, e, d, h)
  <2> HIDE DEF d
  <2>1. d[X] = p /\ d.agents = c.agents /\ \A Y \in Kinds \ {X} : d[Y] = c[Y]
      BY <1>1, <1>4, OneAssigned, SMTT(40)
  <2>2. Part(X, c[X], d[X], e, h)
      BY <1>4, <2>1
  <2> QED
      BY <1>0, <1>1, <1>2, <1>3, <2>1, <2>2, OneReduces
<1>5. CASE e.type = Renames(X)
  <2>1. d = [c EXCEPT ![X] = Relabel(c[X], e.id, e.label)]
    <3>1. CASE X = "workspaces"
        BY <1>5, <3>1 DEF apply, Renames, Faithful, SoundCache
    <3>2. CASE X = "tabs"
        BY <1>5, <3>2 DEF apply, Renames, Faithful, SoundCache
    <3> QED
        BY <3>1, <3>2 DEF Ordered
  <2>2. Part(X, c[X], Relabel(c[X], e.id, e.label), e, h)
      BY <1>1, <1>5, RelabelPart
  <2> QED
      BY <1>4, <2>1, <2>2
<1>6. CASE e.type = Focuses(X)
  <2>1. d = [c EXCEPT ![X] = FocusOnly(c[X], e.id)]
    <3>1. CASE X = "workspaces"
        BY <1>6, <3>1 DEF apply, Focuses, Faithful, SoundCache
    <3>2. CASE X = "tabs"
        BY <1>6, <3>2 DEF apply, Focuses, Faithful, SoundCache
    <3> QED
        BY <3>1, <3>2 DEF Ordered
  <2>2. Part(X, c[X], FocusOnly(c[X], e.id), e, h)
      BY <1>1, <1>6, FocusPart
  <2> QED
      BY <1>4, <2>1, <2>2
<1> QED
    BY <1>5, <1>6

\* Ids of which none is held and none comes twice are all inserted.
LEMMA FreshAll ==
    ASSUME NEW o, NEW ids, IsList(ids), Distinct(ids), Ids(ids) \cap DOMAIN o.entries = {}
    PROVE  Fresh(o, ids) = ids
<1> DEFINE isFresh(i) == ~Has(o, ids[i]) /\ \A j \in 1..(i - 1) : ids[j] # ids[i]
           idn == [i \in DOMAIN ids |-> i]
           all == {i \in DOMAIN ids : isFresh(i)}
<1>1. Len(ids) \in Nat /\ DOMAIN ids = 1..Len(ids) /\ ids = [i \in 1..Len(ids) |-> ids[i]]
    BY DEF IsList
<1>2. \A i \in DOMAIN ids : isFresh(i)
    BY <1>1 DEF Ids, Distinct, Has
<1>3. all = DOMAIN ids
    BY <1>2
<1>4. idn \in Seq(1..Len(ids)) /\ Len(idn) = Len(ids) /\ DOMAIN idn = DOMAIN ids
    BY <1>1
<1>5. Ids(idn) \subseteq DOMAIN ids
    BY <1>1, <1>4 DEF Ids
<1>6. Among(idn, all) = idn
    BY <1>3, <1>4, <1>5, AmongEnds
<1>7. Fresh(o, ids) = LET order == Among(idn, all) IN [i \in DOMAIN order |-> ids[order[i]]]
    BY DEF Fresh
<1>8. Fresh(o, ids) = [i \in DOMAIN ids |-> ids[i]]
    BY <1>4, <1>6, <1>7
<1> QED
    BY <1>1, <1>8

\* The order of two lists, one after the other.
LEMMA ConcatBack ==
    ASSUME NEW s, NEW t, NEW u, IsList(s), IsList(t), u = s \o t, NEW x, NEW y,
           Precedes(u, x, y)
    PROVE  Precedes(s, x, y) \/ Precedes(t, x, y) \/ (x \in Ids(s) /\ y \in Ids(t))
<1>1. PICK i, j \in 1..Len(u) : i < j /\ u[i] = x /\ u[j] = y
    BY DEF Precedes
<1>2. PICK D : s \in Seq(D) /\ t \in Seq(D)
  <2>1. s \in Seq(Ids(s) \cup Ids(t)) /\ t \in Seq(Ids(s) \cup Ids(t))
      BY DEF IsList
  <2> QED
      BY <2>1
<1>3. /\ Len(u) = Len(s) + Len(t) /\ Len(s) \in Nat /\ Len(t) \in Nat
      /\ \A k \in 1..Len(s) : u[k] = s[k]
      /\ \A k \in 1..Len(t) : u[Len(s) + k] = t[k]
    BY <1>2, Joined
<1>4. CASE j <= Len(s)
    BY <1>1, <1>3, <1>4 DEF Precedes
<1>5. CASE i > Len(s)
  <2>1. PICK a, b : a = i - Len(s) /\ b = j - Len(s)
      OBVIOUS
  <2>2. a \in 1..Len(t) /\ b \in 1..Len(t) /\ a < b /\ t[a] = x /\ t[b] = y
    <3>1. a \in 1..Len(t) /\ b \in 1..Len(t) /\ a < b /\ i = Len(s) + a /\ j = Len(s) + b
        BY <1>1, <1>3, <1>5, <2>1
    <3> QED
        BY <1>1, <1>3, <3>1
  <2> QED
      BY <2>2 DEF Precedes
<1>6. CASE i <= Len(s) /\ j > Len(s)
  <2>1. PICK b : b = j - Len(s)
      OBVIOUS
  <2>2. b \in 1..Len(t) /\ j = Len(s) + b /\ i \in 1..Len(s)
      BY <1>1, <1>3, <1>6, <2>1
  <2>3. t[b] = y /\ s[i] = x
      BY <1>1, <1>3, <2>2
  <2> QED
      BY <2>2, <2>3 DEF Ids
<1> QED
    BY <1>1, <1>3, <1>4, <1>5, <1>6

\* A block put somewhere into a list: both are in their order.
LEMMA SpliceOrder ==
    ASSUME NEW s, NEW t, NEW at \in 0..Len(s), NEW r, IsList(s), IsList(t),
           Distinct(s), Distinct(t), Ids(s) \cap Ids(t) = {}, r = Splice(s, t, at)
    PROVE  /\ IsList(r) /\ Distinct(r) /\ Ids(r) = Ids(s) \cup Ids(t)
           /\ \A x, y : Precedes(s, x, y) \/ Precedes(t, x, y) => Precedes(r, x, y)
<1>1. PICK a, b : a = SubSeq(s, 1, at) /\ b = SubSeq(s, at + 1, Len(s))
    OBVIOUS
<1>2. s \in Seq(Ids(s)) /\ t \in Seq(Ids(t))
    BY DEF IsList
<1>3. a \in Seq(Ids(s)) /\ b \in Seq(Ids(s))
    BY <1>1, <1>2, CutFacts DEF Cut
<1>4. IsList(a) /\ IsList(b)
    BY <1>3, SeqIsList
<1>5. s = a \o b
    BY <1>1, <1>2, TwoParts
<1>6. PICK u : u = a \o t
    OBVIOUS
<1>7. r = u \o b
    BY <1>1, <1>6 DEF Splice
<1>8. /\ IsList(u) /\ Ids(u) = Ids(a) \cup Ids(t)
      /\ \A x, y : Precedes(a, x, y) \/ Precedes(t, x, y) => Precedes(u, x, y)
    BY <1>4, <1>6, ConcatFacts, ZenonT(60)
<1>9. /\ IsList(r)
      /\ \A x, y : Precedes(u, x, y) \/ Precedes(b, x, y) => Precedes(r, x, y)
      /\ \A x \in Ids(u), y \in Ids(b) : Precedes(r, x, y)
    BY <1>4, <1>7, <1>8, ConcatFacts
<1>10. ASSUME NEW x, NEW y, Precedes(s, x, y)
       PROVE  Precedes(r, x, y)
  <2>1. Precedes(a, x, y) \/ Precedes(b, x, y) \/ (x \in Ids(a) /\ y \in Ids(b))
      BY <1>4, <1>5, <1>10, ConcatBack
  <2> QED
      BY <2>1, <1>8, <1>9
<1>11. PICK D : s \in Seq(D) /\ t \in Seq(D)
  <2>1. s \in Seq(Ids(s) \cup Ids(t)) /\ t \in Seq(Ids(s) \cup Ids(t))
      BY <1>2
  <2> QED
      BY <2>1
<1>12. Ids(r) = Ids(s) \cup Ids(t) /\ Distinct(r)
    BY <1>11, SpliceFacts DEF Splice
<1> QED
    BY <1>8, <1>9, <1>10, <1>12

\* What is left of o when the entries outside set are taken out.
Left(o, q, set) ==
    /\ Sound(q) /\ q.ids = Among(o.ids, set)
    /\ DOMAIN q.entries = DOMAIN o.entries \cap set
    /\ \A x \in DOMAIN q.entries : q.entries[x] = o.entries[x]

\* A list of records put into what is left.
LEMMA InsertHolds ==
    ASSUME NEW q, NEW index \in Int, NEW v, NEW p, Sound(q), IsList(v), Distinct(IdsOf(v)),
           Ids(IdsOf(v)) \cap DOMAIN q.entries = {}, p = InsertAt(q, index, IdsOf(v), v)
    PROVE  /\ IsList(p.ids) /\ Distinct(p.ids) /\ Ids(p.ids) = DOMAIN p.entries
           /\ DOMAIN p.entries = DOMAIN q.entries \cup Ids(IdsOf(v))
           /\ \A x \in DOMAIN q.entries : p.entries[x] = q.entries[x]
           /\ \A r \in Ids(v) : p.entries[r.id] = r
           /\ \A x, y : Precedes(q.ids, x, y) \/ Precedes(IdsOf(v), x, y)
                           => Precedes(p.ids, x, y)
<1> DEFINE ids == IdsOf(v)
<1>1. /\ IsList(ids) /\ Len(ids) = Len(v) /\ \A i \in 1..Len(v) : ids[i] = v[i].id
      /\ Ids(ids) = {r.id : r \in Ids(v)}
    BY IdsOfFacts
<1>2. ids \in Seq(Ids(ids))
    BY <1>1 DEF IsList
<1>3. Fresh(q, ids) = ids
    BY <1>1, FreshAll
<1>4. q.ids \in Seq(DOMAIN q.entries) /\ Ids(q.ids) = DOMAIN q.entries /\ Distinct(q.ids)
    BY PartsOfSound
<1>5. IsList(q.ids)
    BY <1>4, SeqIsList
<1> DEFINE at == Place(q, index)
<1>6. at \in 0..Len(q.ids)
    BY <1>4 DEF Place
<1>7. p.ids = Splice(q.ids, ids, at) /\ p.entries = Merged(q, ids, v)
    BY <1>3, InsertParts
<1>8. Holds(Merged(q, ids, v), q, ids, v)
    BY <1>2, MergedFacts
<1> HIDE DEF at
<1>9. /\ IsList(p.ids) /\ Distinct(p.ids) /\ Ids(p.ids) = Ids(q.ids) \cup Ids(ids)
      /\ \A x, y : Precedes(q.ids, x, y) \/ Precedes(ids, x, y) => Precedes(p.ids, x, y)
    BY <1>1, <1>4, <1>5, <1>6, <1>7, SpliceOrder
<1>10. DOMAIN p.entries = DOMAIN q.entries \cup Ids(ids)
    BY <1>7, <1>8 DEF Holds
<1>11. \A x \in DOMAIN q.entries : p.entries[x] = q.entries[x]
    BY <1>7, <1>8 DEF Holds
<1>12. ASSUME NEW r \in Ids(v)
       PROVE  p.entries[r.id] = r
  <2>1. PICK k \in 1..Len(v) : v[k] = r
      BY DEF Ids
  <2>2. r.id \in Ids(ids) /\ ids[k] = r.id
      BY <1>1, <2>1
  <2>3. PICK i \in 1..Len(ids) : ids[i] = r.id /\ p.entries[r.id] = v[i]
      BY <1>7, <1>8, <2>2 DEF Holds
  <2>4. i = k
      BY <1>1, <2>2, <2>3 DEF Distinct
  <2> QED
      BY <2>1, <2>3, <2>4
<1> QED
    BY <1>4, <1>9, <1>10, <1>11, <1>12

\* A group of workspaces or of tabs is listed again.
Lists(X, e, h, v) ==
    /\ IsList(v) /\ Distinct(IdsOf(v)) /\ e[X] = v /\ Puts(e, X) = Ids(v)
    /\ \A r \in Ids(v) : Good(X, r, h) /\ Reorders(e, X, Group(X, r.id, h))
    /\ \A id : ~Closes(e, X, id, h)
    /\ \A id, f : Written(e, X, id, f, h) = {r[f] : r \in {z \in Puts(e, X) : Key(X, z) = id}}
\* InsertAt puts the listed records in, in their order, among what is left.
LEMMA RelistPart ==
    ASSUME NEW X \in Ordered, NEW o, NEW e, NEW h, NEW q, NEW set, NEW index \in Int, NEW v,
           NEW p, FaithfulTo(X, o, h), Left(o, q, set), Lists(X, e, h, v),
           \A id \in DOMAIN o.entries : id \in set <=> ~Reorders(e, X, Group(X, id, h)),
           p = InsertAt(q, index, IdsOf(v), v)
    PROVE  Part(X, o, p, e, h)
<1>0. X # "layouts" /\ X \in Kinds
    BY DEF Ordered, Kinds
<1>1. IsList(v) /\ Ids(IdsOf(v)) = {r.id : r \in Ids(v)} /\ IsList(IdsOf(v))
    BY IdsOfFacts DEF Lists
<1>2. Ids(IdsOf(v)) \cap DOMAIN q.entries = {}
  <2> SUFFICES ASSUME NEW r \in Ids(v), r.id \in DOMAIN q.entries PROVE FALSE
      BY <1>1
  <2>1. r.id \in DOMAIN o.entries /\ r.id \in set
      BY DEF Left
  <2> QED
      BY <2>1 DEF Lists
<1>3. /\ IsList(p.ids) /\ Distinct(p.ids) /\ Ids(p.ids) = DOMAIN p.entries
      /\ DOMAIN p.entries = DOMAIN q.entries \cup Ids(IdsOf(v))
      /\ \A x \in DOMAIN q.entries : p.entries[x] = q.entries[x]
      /\ \A r \in Ids(v) : p.entries[r.id] = r
      /\ \A x, y : Precedes(q.ids, x, y) \/ Precedes(IdsOf(v), x, y) => Precedes(p.ids, x, y)
    BY <1>1, <1>2, InsertHolds DEF Left, Lists
<1>4. \A id : Brings(e, X, id) <=> id \in Ids(IdsOf(v))
    BY <1>0, <1>1 DEF Brings, Lists, Key
<1>5. \A id : Drops(e, X, id, h) <=> Reorders(e, X, Group(X, id, h)) /\ ~Brings(e, X, id)
    BY DEF Drops, Lists
<1>6. ASSUME NEW id \in DOMAIN p.entries
      PROVE  Good(X, p.entries[id], h) /\ Key(X, p.entries[id]) = id
  <2>1. CASE id \in DOMAIN q.entries
    <3>1. id \in DOMAIN o.entries /\ p.entries[id] = o.entries[id]
        BY <1>3, <2>1 DEF Left
    <3> QED
        BY <3>1 DEF FaithfulTo
  <2>2. CASE id \in Ids(IdsOf(v))
    <3>1. PICK r \in Ids(v) : r.id = id
        BY <1>1, <2>2
    <3>2. p.entries[id] = r
        BY <1>3, <3>1
    <3> QED
        BY <1>0, <3>1, <3>2 DEF Lists, Key
  <2> QED
      BY <1>3, <2>1, <2>2
<1>7. \A id : id \in DOMAIN p.entries
                 <=> Brings(e, X, id) \/ (id \in DOMAIN o.entries /\ ~Drops(e, X, id, h))
    BY <1>3, <1>4, <1>5 DEF Left
<1>8. ASSUME NEW id \in DOMAIN p.entries, NEW f \in Fields(X)
      PROVE  /\ Written(e, X, id, f, h) = {}
                  => id \in DOMAIN o.entries /\ p.entries[id][f] = o.entries[id][f]
             /\ \A w \in Written(e, X, id, f, h) : p.entries[id][f] = w
  <2>0. Written(e, X, id, f, h) = {r[f] : r \in {z \in Ids(v) : z.id = id}}
      BY <1>0 DEF Lists, Key
  <2>1. CASE id \in DOMAIN q.entries
    <3>1. id \in DOMAIN o.entries /\ p.entries[id] = o.entries[id]
        BY <1>3, <2>1 DEF Left
    <3>2. Written(e, X, id, f, h) = {}
        BY <1>1, <1>2, <2>0, <2>1
    <3> QED
        BY <3>1, <3>2
  <2>2. CASE id \in Ids(IdsOf(v))
    <3>1. PICK r \in Ids(v) : r.id = id
        BY <1>1, <2>2
    <3>2. \A z \in Ids(v) : z.id = id => z = r
        BY <1>3, <3>1
    <3>3. {z \in Ids(v) : z.id = id} = {r}
        BY <3>1, <3>2
    <3>4. Written(e, X, id, f, h) = {r[f]}
        BY <2>0, <3>3
    <3>5. p.entries[id] = r
        BY <1>3, <3>1
    <3> QED
        BY <3>4, <3>5
  <2> QED
      BY <1>3, <2>1, <2>2
<1>9. PlacesIn(X, o, p, e, h)
  <2> SUFFICES ASSUME NEW x, NEW y, x # y, Precedes(p.ids, x, y), Group(X, x, h) = Group(X, y, h)
               PROVE  IF Reorders(e, X, Group(X, x, h)) THEN Precedes(IdsOf(e[X]), x, y)
                      ELSE Precedes(o.ids, x, y)
      BY DEF PlacesIn
  <2>1. x \in DOMAIN p.entries /\ y \in DOMAIN p.entries /\ ~Precedes(p.ids, y, x)
      BY <1>3, PrecedesLies, PrecedesTotal
  <2>2. CASE Reorders(e, X, Group(X, x, h))
    <3>1. x \in Ids(IdsOf(v)) /\ y \in Ids(IdsOf(v))
        BY <1>3, <2>1, <2>2 DEF Left
    <3>2. ~Precedes(IdsOf(v), y, x)
        BY <1>3, <2>1
    <3>3. Distinct(IdsOf(v)) /\ e[X] = v
        BY DEF Lists
    <3>4. Precedes(IdsOf(v), x, y)
        BY <1>1, <3>1, <3>2, <3>3, PrecedesTotal
    <3> QED
        BY <2>2, <3>3, <3>4
  <2>3. CASE ~Reorders(e, X, Group(X, x, h))
    <3>1. \A r \in Ids(v) : Reorders(e, X, Group(X, r.id, h))
        BY DEF Lists
    <3>2. x \notin Ids(IdsOf(v)) /\ y \notin Ids(IdsOf(v))
        BY <1>1, <2>3, <3>1
    <3>3. x \in DOMAIN q.entries /\ y \in DOMAIN q.entries
        BY <1>3, <2>1, <3>2
    <3>4. q.ids \in Seq(DOMAIN q.entries) /\ Ids(q.ids) = DOMAIN q.entries /\ Distinct(q.ids)
        BY PartsOfSound DEF Left
    <3>5. IsList(q.ids) /\ ~Precedes(q.ids, y, x)
        BY <1>3, <2>1, <3>4, SeqIsList
    <3>6. Precedes(q.ids, x, y)
        BY <3>3, <3>4, <3>5, PrecedesTotal
    <3>7. o.ids \in Seq(DOMAIN o.entries) /\ Distinct(o.ids)
        BY PartsOfSound DEF FaithfulTo
    <3>8. IsList(o.ids) /\ q.ids = Among(o.ids, set)
        BY <3>7, SeqIsList DEF Left
    <3>9. Precedes(Among(o.ids, set), x, y)
        BY <3>6, <3>8
    <3>10. Precedes(o.ids, x, y)
        BY <3>7, <3>8, <3>9, AmongBack
    <3> QED
        BY <2>3, <3>10
  <2> QED
      BY <2>2, <2>3
<1> QED
    BY <1>6, <1>7, <1>8, <1>9 DEF Part

\* workspace.moved and tab.moved, once the collection is what InsertAt makes of what is
\* left.
LEMMA ListReduces ==
    ASSUME NEW c, NEW e, NEW h, Faithful(c, h), Genuine(e, h), NEW X \in Ordered,
           NEW q, NEW set, NEW index \in Int, NEW v, Left(c[X], q, set), Lists(X, e, h, v),
           \A id \in Held(c, X) : id \in set <=> ~Reorders(e, X, Group(X, id, h)),
           apply(c, e) = [c EXCEPT ![X] = InsertAt(q, index, IdsOf(v), v)],
           \A Y \in Kinds \ {X} : e.type \notin Tells(Y)
    PROVE  Reduces(c, e, apply(c, e), h)
<1>1. PICK d : d = apply(c, e)
    OBVIOUS
<1>2. PICK p : p = InsertAt(q, index, IdsOf(v), v)
    OBVIOUS
<1>3. X \in Kinds \ {"panes"} /\ FaithfulTo(X, c[X], h)
    BY FaithfulParts DEF Kinds, Ordered
<1>4. SoundCache(d)
    BY <1>1, AppliedSound
<1>5. Part(X, c[X], p, e, h)
    BY <1>2, <1>3, RelistPart DEF Held
<1>6. d = [c EXCEPT ![X] = p]
    BY <1>1, <1>2
<1>7. d[X] = p /\ d.agents = c.agents /\ \A Y \in Kinds \ {X} : d[Y] = c[Y]
  <2>1. X \in Kinds
      BY <1>3
  <2>2. DOMAIN c = {"workspaces", "tabs", "panes", "agents", "layouts"}
      BY DEF Faithful, SoundCache
  <2> QED
      BY ONLY <1>6, <2>1, <2>2 DEF Kinds
<1>8. Part(X, c[X], d[X], e, h)
    BY <1>5, <1>7
<1>9. e.type # "PaneMoved"
    BY TellsKinds DEF Kinds, Ordered
<1>10. Reduces(c, e, d, h)
    BY <1>3, <1>4, <1>7, <1>8, <1>9, OneReduces
<1> QED
    BY <1>1, <1>10

\* apply of workspace.moved: the workspaces are reset to the listed ones, in their
\* order.
LEMMA WorkspaceMovedReduces ==
    ASSUME NEW c, NEW e, NEW h, Faithful(c, h), Genuine(e, h), e.type = "WorkspaceMoved"
    PROVE  Reduces(c, e, apply(c, e), h)
<1> DEFINE o == c["workspaces"]
           v == e.workspaces
<1>1. "workspaces" \in Ordered /\ "workspaces" \in Kinds
    BY DEF Ordered, Kinds
<1>2. FaithfulTo("workspaces", o, h)
    BY <1>1, FaithfulParts
<1>3. Left(o, Empty, {})
  <2>1. Sound(Empty)
      BY EmptySound
  <2>2. o.ids \in Seq(DOMAIN o.entries)
      BY <1>2, PartsOfSound DEF FaithfulTo
  <2>3. Among(o.ids, {}) = <<>>
      BY <2>2, AmongEnds
  <2> HIDE DEF o
  <2> QED
      BY <2>1, <2>3 DEF Left, Empty
<1>4. Lists("workspaces", e, h, v)
  <2>1. IsList(v) /\ Distinct(IdsOf(v))
      BY DEF Genuine
  <2>2. Puts(e, "workspaces") = Ids(v)
      BY DEF Puts
  <2>3. \A r \in Ids(v) : Good("workspaces", r, h)
      BY <1>1, <2>2 DEF Genuine
  <2>4. \A g : Reorders(e, "workspaces", g)
      BY DEF Reorders
  <2>5. \A id : ~Closes(e, "workspaces", id, h)
      BY DEF Closes
  <2>6. \A id, f : Written(e, "workspaces", id, f, h)
                     = {r[f] : r \in {z \in Puts(e, "workspaces") : Key("workspaces", z) = id}}
      BY DEF Written
  <2>7. e["workspaces"] = v
      OBVIOUS
  <2> HIDE DEF v
  <2> QED
      BY <2>1, <2>2, <2>3, <2>4, <2>5, <2>6, <2>7 DEF Lists
<1>5. \A id : Reorders(e, "workspaces", Group("workspaces", id, h))
    BY DEF Reorders
<1>6. apply(c, e) = [c EXCEPT !["workspaces"] = InsertAt(Empty, 0, IdsOf(v), v)]
    BY DEF apply, Reset
<1>7. \A Y \in Kinds \ {"workspaces"} : e.type \notin Tells(Y)
    BY TellsKinds DEF Kinds
<1> HIDE DEF o, v
<1>8. PICK q, set, index : q = Empty /\ set = {} /\ index = 0
    OBVIOUS
<1>9. Left(c["workspaces"], q, set) /\ index \in Int
    BY <1>3, <1>8 DEF o
<1>10. \A id \in Held(c, "workspaces") :
          id \in set <=> ~Reorders(e, "workspaces", Group("workspaces", id, h))
    BY <1>5, <1>8
<1>11. apply(c, e) = [c EXCEPT !["workspaces"] = InsertAt(q, index, IdsOf(v), v)]
    BY <1>6, <1>8
<1> QED
    BY ONLY <1>1, <1>4, <1>7, <1>9, <1>10, <1>11, ListReduces, Faithful(c, h), Genuine(e, h)

\* apply of tab.moved: the workspace's tabs are taken out and put back in the listed
\* order.
LEMMA TabMovedReduces ==
    ASSUME NEW c, NEW e, NEW h, Faithful(c, h), Genuine(e, h), e.type = "TabMoved"
    PROVE  Reduces(c, e, apply(c, e), h)
<1> DEFINE o == c["tabs"]
           v == e.tabs
           inside == InWorkspace(o, e.ws)
           set == DOMAIN o.entries \ inside
           q == DeleteWhere(o, inside)
           index == FirstMatch(o, inside)
<1>1. "tabs" \in Ordered /\ "tabs" \in Kinds
    BY DEF Ordered, Kinds
<1>2. FaithfulTo("tabs", o, h)
    BY <1>1, FaithfulParts
<1>3. Left(o, q, set)
  <2>1. Sound(q)
      BY <1>2, DeleteSound DEF FaithfulTo
  <2>2. q = Keep(o, set)
      BY DEF DeleteWhere
  <2> HIDE DEF o, q, set
  <2>3. q.ids = Among(o.ids, set)
      BY <2>2 DEF Keep
  <2> QED
      BY <2>1, <2>2, <2>3, KeepHolds DEF Left
<1>4. \A id \in DOMAIN o.entries : id \in set <=> ~Reorders(e, "tabs", Group("tabs", id, h))
  <2> SUFFICES ASSUME NEW id \in DOMAIN o.entries
               PROVE  id \in set <=> ~Reorders(e, "tabs", Group("tabs", id, h))
      OBVIOUS
  <2>1. o.entries[id].ws = h.tab[id]
      BY <1>2 DEF FaithfulTo, Good, Key
  <2>2. id \in set <=> h.tab[id] # e.ws
      BY <2>1 DEF InWorkspace
  <2> QED
      BY <2>2 DEF Reorders, Group
<1>5. Lists("tabs", e, h, v)
  <2>1. IsList(v) /\ Distinct(IdsOf(v))
      BY DEF Genuine
  <2>2. Puts(e, "tabs") = Ids(v)
      BY DEF Puts, EventTabs
  <2>3. \A r \in Ids(v) : Good("tabs", r, h) /\ r.ws = e.ws
      BY <1>1, <2>2 DEF Genuine
  <2>4. \A r \in Ids(v) : Reorders(e, "tabs", Group("tabs", r.id, h))
      BY <2>3 DEF Reorders, Group, Good
  <2>5. \A id : ~Closes(e, "tabs", id, h)
      BY DEF Closes
  <2>6. \A id, f : Written(e, "tabs", id, f, h)
                     = {r[f] : r \in {z \in Puts(e, "tabs") : Key("tabs", z) = id}}
      BY DEF Written
  <2>7. e["tabs"] = v
      OBVIOUS
  <2> HIDE DEF v
  <2> QED
      BY <2>1, <2>2, <2>3, <2>4, <2>5, <2>6, <2>7 DEF Lists
<1>6. index \in Int
  <2>1. Sound(o)
      BY <1>2 DEF FaithfulTo
  <2>2. index \in -1..(Len(o.ids) - 1)
      BY <2>1, FirstMatchFacts
  <2> QED
      BY <2>2
<1>7. apply(c, e) = [c EXCEPT !["tabs"] = InsertAt(q, index, IdsOf(v), v)]
    BY DEF apply, reorderTabs
<1>8. \A Y \in Kinds \ {"tabs"} : e.type \notin Tells(Y)
    BY TellsKinds DEF Kinds
<1>9. \A id \in Held(c, "tabs") : id \in set <=> ~Reorders(e, "tabs", Group("tabs", id, h))
    BY <1>4 DEF Held
<1>10. Left(c["tabs"], q, set)
    BY <1>3
<1> HIDE DEF o, v, q, index, set
<1> QED
    BY <1>1, <1>5, <1>6, <1>7, <1>8, <1>9, <1>10, ListReduces

\* Where the entries are, as they say themselves.
LEMMA HeldHomes ==
    ASSUME NEW c, NEW h, Faithful(c, h)
    PROVE  /\ \A X \in Kinds : Sound(c[X]) /\ Held(c, X) = DOMAIN c[X].entries
           /\ \A x \in DOMAIN c.tabs.entries : c.tabs.entries[x].ws = h.tab[x]
           /\ \A x \in DOMAIN c.layouts.entries : c.layouts.entries[x].ws = h.tab[x]
           /\ \A x \in DOMAIN c.panes.entries :
                 /\ c.panes.entries[x].tab = h.pane[x]
                 /\ c.panes.entries[x].ws = h.tab[h.pane[x]]
           /\ \A x \in DOMAIN c.agents.entries :
                 /\ c.agents.entries[x].tab = h.pane[x]
                 /\ c.agents.entries[x].ws = h.tab[h.pane[x]]
           /\ Sound(c.agents)
<1>1. \A X \in Kinds : Sound(c[X]) /\ Held(c, X) = DOMAIN c[X].entries
    BY FaithfulParts DEF FaithfulTo, Held
<1>2. \A X \in Kinds : \A id \in DOMAIN c[X].entries :
          Good(X, c[X].entries[id], h) /\ Key(X, c[X].entries[id]) = id
    BY <1>1 DEF Faithful
<1>3. \A x \in DOMAIN c.tabs.entries : c.tabs.entries[x].ws = h.tab[x]
  <2>1. \A x \in DOMAIN c["tabs"].entries :
            Good("tabs", c["tabs"].entries[x], h) /\ Key("tabs", c["tabs"].entries[x]) = x
      BY <1>2 DEF Kinds
  <2> QED
      BY <2>1 DEF Good, Key
<1>4. \A x \in DOMAIN c.layouts.entries : c.layouts.entries[x].ws = h.tab[x]
  <2>1. \A x \in DOMAIN c["layouts"].entries :
            Good("layouts", c["layouts"].entries[x], h) /\ Key("layouts", c["layouts"].entries[x]) = x
      BY <1>2 DEF Kinds
  <2> QED
      BY <2>1 DEF Good, Key
<1>5. \A x \in DOMAIN c.panes.entries :
         /\ c.panes.entries[x].tab = h.pane[x]
         /\ c.panes.entries[x].ws = h.tab[h.pane[x]]
  <2>1. \A x \in DOMAIN c["panes"].entries :
            Good("panes", c["panes"].entries[x], h) /\ Key("panes", c["panes"].entries[x]) = x
      BY <1>2 DEF Kinds
  <2>2. ASSUME NEW r, NEW x, Good("panes", r, h), Key("panes", r) = x
        PROVE  r.tab = h.pane[x] /\ r.ws = h.tab[h.pane[x]]
      BY <2>2 DEF Good, Key
  <2> QED
      BY <2>1, <2>2
<1>6. \A x \in DOMAIN c.agents.entries :
         /\ c.agents.entries[x].tab = h.pane[x]
         /\ c.agents.entries[x].ws = h.tab[h.pane[x]]
  <2>1. \A x \in Agents0(c) : AgentShaped(c.agents.entries[x], x, h)
      BY DEF Faithful
  <2>2. ASSUME NEW r, NEW x, AgentShaped(r, x, h)
        PROVE  r.tab = h.pane[x] /\ r.ws = h.tab[h.pane[x]]
      BY <2>2 DEF AgentShaped
  <2> QED
      BY <2>1, <2>2 DEF Agents0
<1>7. Sound(c.agents)
    BY DEF Faithful, SoundCache
<1> QED
    BY <1>1, <1>3, <1>4, <1>5, <1>6, <1>7

\* What a closed container held is taken out.
Leaving(X, c, e, d, h) ==
    \E set : /\ d[X] = Keep(c[X], set)
             /\ \A id \in DOMAIN c[X].entries : id \in set <=> ~Closes(e, X, id, h)
\* The agents of the panes that close leave.
AgentsLeaving(c, e, d, h) ==
    \E set : /\ d.agents = Keep(c.agents, set)
             /\ \A id \in DOMAIN c.agents.entries : id \in set <=> ~Closes(e, "panes", id, h)
\* The events that close something, once each collection keeps what is not closed.
LEMMA ClosedReduces ==
    ASSUME NEW c, NEW e, NEW d, NEW h, Faithful(c, h), SoundCache(d),
           e.type \in {"WorkspaceClosed", "TabClosed", "PaneClosed"},
           \A X \in Kinds : Leaving(X, c, e, d, h), AgentsLeaving(c, e, d, h)
    PROVE  Reduces(c, e, d, h)
<1>1. ASSUME NEW X \in Kinds PROVE Part(X, c[X], d[X], e, h)
  <2>1. PICK set : /\ d[X] = Keep(c[X], set)
                   /\ \A id \in DOMAIN c[X].entries : id \in set <=> ~Closes(e, X, id, h)
      BY DEF Leaving
  <2>2. Puts(e, X) = {} /\ (\A g : ~Reorders(e, X, g)) /\ \A id, f : Written(e, X, id, f, h) = {}
    <3>1. Puts(e, X) = {}
        BY DEF Kinds, Puts, EventTabs
    <3>2. \A g : ~Reorders(e, X, g)
        BY DEF Reorders
    <3>3. \A id, f : Written(e, X, id, f, h) = {}
        BY <3>1 DEF Kinds, Written
    <3> QED
        BY <3>1, <3>2, <3>3
  <2>3. FaithfulTo(X, c[X], h)
      BY FaithfulParts
  <2>4. Part(X, c[X], Keep(c[X], set), e, h)
      BY <2>1, <2>2, <2>3, KeepPart
  <2> QED
      BY <2>1, <2>4
<1>2. Staffs(c, e, d, h)
  <2>1. PICK set : /\ d.agents = Keep(c.agents, set)
                   /\ \A id \in DOMAIN c.agents.entries : id \in set <=> ~Closes(e, "panes", id, h)
      BY DEF AgentsLeaving
  <2> QED
      BY <2>1, AgentsGone DEF Agents0
<1> QED
    BY <1>1, <1>2, ReduceParts

\* Nothing of a kind leaves.
LEMMA NoneLeaving ==
    ASSUME NEW X \in Kinds, NEW c, NEW e, NEW d, NEW h, Faithful(c, h), d[X] = c[X],
           \A id \in DOMAIN c[X].entries : ~Closes(e, X, id, h)
    PROVE  Leaving(X, c, e, d, h)
<1>1. Sound(c[X])
    BY HeldHomes
<1>2. Keep(c[X], DOMAIN c[X].entries) = c[X]
    BY <1>1, KeepAgain
<1> QED
    BY <1>2 DEF Leaving

\* apply of workspace.closed: deleteWhere on tabs, panes, agents and layouts.
LEMMA WorkspaceClosedReduces ==
    ASSUME NEW c, NEW e, NEW h, Faithful(c, h), Genuine(e, h), e.type = "WorkspaceClosed"
    PROVE  Reduces(c, e, apply(c, e), h)
<1> DEFINE d == apply(c, e)
<1>0. SoundCache(d)
    BY AppliedSound
<1>1. d = closeWorkspace(c, e.id)
    BY DEF apply
<1>2. /\ d.workspaces = Keep(c.workspaces, DOMAIN c.workspaces.entries \ {e.id})
      /\ d.tabs = Keep(c.tabs, DOMAIN c.tabs.entries \ InWorkspace(c.tabs, e.id))
      /\ d.panes = Keep(c.panes, DOMAIN c.panes.entries \ InWorkspace(c.panes, e.id))
      /\ d.agents = Keep(c.agents, DOMAIN c.agents.entries \ InWorkspace(c.agents, e.id))
      /\ d.layouts = Keep(c.layouts, DOMAIN c.layouts.entries \ InWorkspace(c.layouts, e.id))
    BY <1>1 DEF closeWorkspace, Delete, DeleteWhere
<1> HIDE DEF d
<1>3. Leaving("workspaces", c, e, d, h)
  <2>1. \A id : Closes(e, "workspaces", id, h) <=> id = e.id
      BY DEF Closes
  <2> QED
      BY <1>2, <2>1 DEF Leaving
<1>4. Leaving("tabs", c, e, d, h)
  <2>1. \A id : Closes(e, "tabs", id, h) <=> h.tab[id] = e.id
      BY DEF Closes
  <2>2. \A id \in DOMAIN c.tabs.entries :
            id \in InWorkspace(c.tabs, e.id) <=> h.tab[id] = e.id
      BY HeldHomes DEF InWorkspace
  <2> QED
      BY <1>2, <2>1, <2>2 DEF Leaving
<1>5. Leaving("layouts", c, e, d, h)
  <2>1. \A id : Closes(e, "layouts", id, h) <=> h.tab[id] = e.id
      BY DEF Closes
  <2>2. \A id \in DOMAIN c.layouts.entries :
            id \in InWorkspace(c.layouts, e.id) <=> h.tab[id] = e.id
      BY HeldHomes DEF InWorkspace
  <2> QED
      BY <1>2, <2>1, <2>2 DEF Leaving
<1>6. \A id : Closes(e, "panes", id, h) <=> h.tab[h.pane[id]] = e.id
    BY DEF Closes
<1>7. Leaving("panes", c, e, d, h)
  <2>2. \A id \in DOMAIN c.panes.entries :
            id \in InWorkspace(c.panes, e.id) <=> h.tab[h.pane[id]] = e.id
      BY HeldHomes DEF InWorkspace
  <2> QED
      BY <1>2, <1>6, <2>2 DEF Leaving
<1>8. AgentsLeaving(c, e, d, h)
  <2>2. \A id \in DOMAIN c.agents.entries :
            id \in InWorkspace(c.agents, e.id) <=> h.tab[h.pane[id]] = e.id
      BY HeldHomes DEF InWorkspace
  <2> QED
      BY <1>2, <1>6, <2>2 DEF AgentsLeaving
<1>9. \A X \in Kinds : Leaving(X, c, e, d, h)
    BY <1>3, <1>4, <1>5, <1>7 DEF Kinds
<1>10. Reduces(c, e, d, h)
    BY <1>0, <1>8, <1>9, ClosedReduces
<1> QED
    BY <1>10 DEF d

\* apply of tab.closed: deleteWhere on panes and agents, and the layout.
LEMMA TabClosedReduces ==
    ASSUME NEW c, NEW e, NEW h, Faithful(c, h), Genuine(e, h), e.type = "TabClosed"
    PROVE  Reduces(c, e, apply(c, e), h)
<1> DEFINE d == apply(c, e)
<1>0. SoundCache(d)
    BY AppliedSound
<1>1. d = closeTab(c, e.id)
    BY DEF apply
<1>2. /\ d.workspaces = c.workspaces
      /\ d.tabs = Keep(c.tabs, DOMAIN c.tabs.entries \ {e.id})
      /\ d.panes = Keep(c.panes, DOMAIN c.panes.entries \ InTab(c.panes, e.id))
      /\ d.agents = Keep(c.agents, DOMAIN c.agents.entries \ InTab(c.agents, e.id))
      /\ d.layouts = Keep(c.layouts, DOMAIN c.layouts.entries \ {e.id})
  <2>1. DOMAIN c = {"workspaces", "tabs", "panes", "agents", "layouts"}
      BY DEF Faithful, SoundCache
  <2> QED
      BY <1>1, <2>1 DEF closeTab, Delete, DeleteWhere
<1> HIDE DEF d
<1>3. Leaving("workspaces", c, e, d, h)
  <2>1. \A id : ~Closes(e, "workspaces", id, h)
      BY DEF Closes
  <2> QED
      BY <1>2, <2>1, NoneLeaving DEF Kinds
<1>4. Leaving("tabs", c, e, d, h)
  <2>1. \A id : Closes(e, "tabs", id, h) <=> id = e.id
      BY DEF Closes
  <2> QED
      BY <1>2, <2>1 DEF Leaving
<1>5. Leaving("layouts", c, e, d, h)
  <2>1. \A id : Closes(e, "layouts", id, h) <=> id = e.id
      BY DEF Closes
  <2> QED
      BY <1>2, <2>1 DEF Leaving
<1>6. \A id : Closes(e, "panes", id, h) <=> h.pane[id] = e.id
    BY DEF Closes
<1>7. Leaving("panes", c, e, d, h)
  <2>2. \A id \in DOMAIN c.panes.entries :
            id \in InTab(c.panes, e.id) <=> h.pane[id] = e.id
      BY HeldHomes DEF InTab
  <2> QED
      BY <1>2, <1>6, <2>2 DEF Leaving
<1>8. AgentsLeaving(c, e, d, h)
  <2>2. \A id \in DOMAIN c.agents.entries :
            id \in InTab(c.agents, e.id) <=> h.pane[id] = e.id
      BY HeldHomes DEF InTab
  <2> QED
      BY <1>2, <1>6, <2>2 DEF AgentsLeaving
<1>9. \A X \in Kinds : Leaving(X, c, e, d, h)
    BY <1>3, <1>4, <1>5, <1>7 DEF Kinds
<1>10. Reduces(c, e, d, h)
    BY <1>0, <1>8, <1>9, ClosedReduces
<1> QED
    BY <1>10 DEF d

\* apply of pane.closed: the pane and its agent are deleted.
LEMMA PaneClosedReduces ==
    ASSUME NEW c, NEW e, NEW h, Faithful(c, h), Genuine(e, h), e.type = "PaneClosed"
    PROVE  Reduces(c, e, apply(c, e), h)
<1> DEFINE d == apply(c, e)
<1>0. SoundCache(d)
    BY AppliedSound
<1>1. d = closePane(c, e.id)
    BY DEF apply
<1>2. /\ d.workspaces = c.workspaces /\ d.tabs = c.tabs /\ d.layouts = c.layouts
      /\ d.panes = Keep(c.panes, DOMAIN c.panes.entries \ {e.id})
      /\ d.agents = Keep(c.agents, DOMAIN c.agents.entries \ {e.id})
  <2>1. DOMAIN c = {"workspaces", "tabs", "panes", "agents", "layouts"}
      BY DEF Faithful, SoundCache
  <2> QED
      BY <1>1, <2>1 DEF closePane, Delete
<1> HIDE DEF d
<1>3. \A X \in Kinds \ {"panes"} : \A id : ~Closes(e, X, id, h)
    BY DEF Closes, Kinds
<1>4. \A X \in Kinds \ {"panes"} : Leaving(X, c, e, d, h)
  <2>1. \A X \in Kinds \ {"panes"} : d[X] = c[X]
      BY <1>2 DEF Kinds
  <2> QED
      BY <1>3, <2>1, NoneLeaving
<1>6. \A id : Closes(e, "panes", id, h) <=> id = e.id
    BY DEF Closes
<1>7. Leaving("panes", c, e, d, h)
    BY <1>2, <1>6 DEF Leaving
<1>8. AgentsLeaving(c, e, d, h)
    BY <1>2, <1>6 DEF AgentsLeaving
<1>9. \A X \in Kinds : Leaving(X, c, e, d, h)
    BY <1>4, <1>7 DEF Kinds
<1>10. Reduces(c, e, d, h)
    BY <1>0, <1>8, <1>9, ClosedReduces
<1> QED
    BY <1>10 DEF d

\* The cache but for panes and agents.
Same(c, d) == d.workspaces = c.workspaces /\ d.tabs = c.tabs /\ d.layouts = c.layouts

\* An event about one pane.
PaneEvents == {"PaneSet", "PaneRevised", "PaneAgentDetected", "PaneAgentStatusChanged"}
\* An event about panes and agents alone.
LEMMA PanesReduce ==
    ASSUME NEW c, NEW e, NEW d, NEW h, Faithful(c, h), SoundCache(d), Same(c, d),
           e.type \in PaneEvents, Part("panes", c.panes, d.panes, e, h), Staffs(c, e, d, h)
    PROVE  Reduces(c, e, d, h)
<1>1. ASSUME NEW X \in Kinds PROVE Part(X, c[X], d[X], e, h)
  <2>1. CASE X = "panes"
    <3>1. c["panes"] = c.panes /\ d["panes"] = d.panes
        OBVIOUS
    <3> QED
        BY <2>1, <3>1
  <2>2. CASE X # "panes"
    <3>1. d[X] = c[X]
        BY <2>2 DEF Kinds, Same
    <3>2. e.type \notin Tells(X)
        BY <2>2, TellsKinds DEF Kinds, PaneEvents
    <3>3. Silent(e, X, h)
        BY <3>2, SilentElse
    <3>4. Part(X, c[X], c[X], e, h)
        BY <3>3, FaithfulParts, StillPart
    <3> QED
        BY <3>1, <3>4
  <2> QED
      BY <2>1, <2>2
<1> QED
    BY <1>1, ReduceParts

\* pane.created and pane.updated.
LEMMA PaneSetReduces ==
    ASSUME NEW c, NEW e, NEW h, Faithful(c, h), Genuine(e, h), e.type = "PaneSet"
    PROVE  Reduces(c, e, apply(c, e), h)
<1> DEFINE d == apply(c, e)
           p == e.pane
<1>0. SoundCache(d)
    BY AppliedSound
<1>1. d = setPane(c, p)
    BY DEF apply
<1>2. /\ Same(c, d) /\ d.panes = Set(c.panes, p.id, p)
      /\ d.agents = IF Has(c.agents, p.id)
                    THEN Set(c.agents, p.id, mergeAgent(c.agents.entries[p.id], p))
                    ELSE c.agents
  <2>1. DOMAIN c = {"workspaces", "tabs", "panes", "agents", "layouts"}
      BY DEF Faithful, SoundCache
  <2> QED
      BY <1>1, <2>1 DEF setPane, Same
<1>3. Puts(e, "panes") = {p} /\ Only(e, "panes", h)
    BY DEF Puts, Only, Closes, Reorders, Written
<1>4. Good("panes", p, h) /\ p.id = Key("panes", p)
    BY <1>3 DEF Genuine, Kinds, Key
<1>5. FaithfulTo("panes", c.panes, h)
    BY FaithfulParts DEF Kinds
<1>6. p.id \in Mentions(e)
    BY DEF Mentions
<1>7. \A x : ~Joins(e, x) /\ ~Leaves(e, x, h)
    BY DEF Joins, Leaves, Frees, Closes
<1>8. \A x : x # p.id => \A f : Written(e, "panes", x, f, h) = {}
    BY DEF Written, Puts, Key
<1> HIDE DEF d, p
<1>9. Part("panes", c.panes, d.panes, e, h)
    BY <1>2, <1>3, <1>4, <1>5, SetPart
<1>10. PICK agent : agent = c.agents.entries[p.id]
    OBVIOUS
<1>11. IF p.id \in Agents0(c) \/ Joins(e, p.id)
       THEN d.agents = Set(c.agents, p.id, mergeAgent(agent, p))
       ELSE d.agents = c.agents
    BY <1>2, <1>7, <1>10 DEF Agents0, Has
<1>12. p.id \in Held(d, "panes") /\ d.panes.entries[p.id] = p
    BY <1>2, SetHolds DEF Held
<1>13. e.type # "PaneMoved"
    OBVIOUS
<1>14. Staffs(c, e, d, h)
    BY ONLY <1>4, <1>6, <1>7, <1>8, <1>11, <1>12, <1>13, AgentMerges, Faithful(c, h)
<1>15. e.type \in PaneEvents
    BY DEF PaneEvents
<1>16. Reduces(c, e, d, h)
    BY <1>0, <1>2, <1>9, <1>14, <1>15, PanesReduce
<1> QED
    BY <1>16 DEF d

\* An event that rewrites one pane, if it is held.
OnePane(c, e, d, new, h) ==
    /\ Same(c, d)
    /\ d.panes = IF Has(c.panes, e.id) THEN Set(c.panes, e.id, new) ELSE c.panes
    /\ Has(c.panes, e.id) => Becomes(e, "panes", c.panes.entries[e.id], new, h)
\* An event about one pane says nothing of others.
LEMMA OnePaneSays ==
    ASSUME NEW e, NEW h, e.type \in PaneEvents \ {"PaneSet"}
    PROVE  /\ \A id, f : id # e.id => Written(e, "panes", id, f, h) = {}
           /\ Puts(e, "panes") = {} /\ \A id : ~Brings(e, "panes", id)
           /\ \A id : ~Closes(e, "panes", id, h)
           /\ \A g : ~Reorders(e, "panes", g)
           /\ Mentions(e) = {e.id} /\ e.type # "PaneMoved"
           /\ \A id : Joins(e, id) => id = e.id
           /\ \A id : Leaves(e, id, h) => id = e.id
    BY DEF PaneEvents, Written, Puts, Brings, Closes, Reorders, Mentions, Joins, Leaves, Frees
\* An event about one pane, once its entry is what the event writes.
LEMMA OnePaneReduces ==
    ASSUME NEW c, NEW e, NEW d, NEW h, NEW new, Faithful(c, h), SoundCache(d),
           e.type \in PaneEvents \ {"PaneSet"}, OnePane(c, e, d, new, h), Staffs(c, e, d, h)
    PROVE  Reduces(c, e, d, h)
<1> DEFINE o == c.panes
           p == d.panes
<1>1. FaithfulTo("panes", o, h)
    BY FaithfulParts DEF Kinds
<1>2. p.ids = o.ids /\ DOMAIN p.entries = DOMAIN o.entries
    BY SetHolds DEF OnePane, Set, Has
<1>3. ASSUME NEW id \in DOMAIN o.entries
      PROVE  Becomes(e, "panes", o.entries[id], p.entries[id], h)
  <2>1. CASE id = e.id
    <3>1. p.entries[id] = new
        BY <2>1, SetHolds DEF OnePane, Has
    <3> QED
        BY <2>1, <3>1 DEF OnePane, Has
  <2>2. CASE id # e.id
    <3>1. p.entries[id] = o.entries[id]
        BY <2>2, SetHolds DEF OnePane, Has
    <3>2. Good("panes", o.entries[id], h) /\ Key("panes", o.entries[id]) = id
        BY <1>1 DEF FaithfulTo
    <3>3. \A f : Written(e, "panes", id, f, h) = {}
        BY <2>2, OnePaneSays
    <3> HIDE DEF o, p
    <3> QED
        BY <3>1, <3>2, <3>3 DEF Becomes
  <2> QED
      BY <2>1, <2>2
<1>4. /\ \A id : ~Brings(e, "panes", id) /\ ~Closes(e, "panes", id, h)
      /\ \A g : ~Reorders(e, "panes", g)
    BY OnePaneSays
<1> HIDE DEF o, p
<1>5. Part("panes", o, p, e, h)
    BY <1>1, <1>2, <1>3, <1>4, RewritePart
<1>6. Part("panes", c.panes, d.panes, e, h)
    BY <1>5 DEF o, p
<1>7. Same(c, d) /\ e.type \in PaneEvents
    BY DEF OnePane
<1> QED
    BY <1>6, <1>7, PanesReduce

\* Nothing is held of the pane: neither an agent.
LEMMA NoPaneStaffs ==
    ASSUME NEW c, NEW e, NEW d, NEW h, Faithful(c, h), e.type \in PaneEvents \ {"PaneSet"},
           ~Has(c.panes, e.id), d.agents = c.agents
    PROVE  Staffs(c, e, d, h)
<1>1. \A id \in Held(c, "panes") : id # e.id
    BY DEF Held, Has
<1>2. \A id \in Agents0(c) : id # e.id
    BY <1>1 DEF Faithful
<1> QED
    BY <1>1, <1>2, OnePaneSays, AgentsStill

\* output changed and scroll changed.
LEMMA PaneRevisedReduces ==
    ASSUME NEW c, NEW e, NEW h, Faithful(c, h), Genuine(e, h), e.type = "PaneRevised"
    PROVE  Reduces(c, e, apply(c, e), h)
<1>1. PICK d : d = apply(c, e)
    OBVIOUS
<1>2. PICK old : old = c.panes.entries[e.id]
    OBVIOUS
<1>3. PICK new : new = [old EXCEPT !.rev = e.rev]
    OBVIOUS
<1>0. SoundCache(d)
    BY <1>1, AppliedSound
<1>4. d = IF Has(c.panes, e.id) THEN setPane(c, new) ELSE c
    BY <1>1, <1>2, <1>3 DEF apply
<1>5. e.type \in PaneEvents \ {"PaneSet"}
    BY DEF PaneEvents
<1>6. DOMAIN c = {"workspaces", "tabs", "panes", "agents", "layouts"}
    BY DEF Faithful, SoundCache
<1>7. CASE ~Has(c.panes, e.id)
  <2>1. d = c
      BY <1>4, <1>7
  <2>2. OnePane(c, e, d, new, h)
      BY <1>7, <2>1 DEF OnePane, Same
  <2>3. Staffs(c, e, d, h)
      BY <1>5, <1>7, <2>1, NoPaneStaffs
  <2>4. Reduces(c, e, d, h)
      BY <1>0, <1>5, <2>2, <2>3, OnePaneReduces
  <2> QED
      BY <1>1, <2>4
<1>8. CASE Has(c.panes, e.id)
  <2>1. Good("panes", old, h) /\ old.id = e.id
      BY <1>2, <1>8, FaithfulParts DEF Kinds, FaithfulTo, Has, Key
  <2>2. /\ Good("panes", new, h) /\ new.id = e.id /\ new.rev = e.rev
        /\ \A f \in Fields("panes") \ {"rev"} : new[f] = old[f]
      BY <1>3, <2>1 DEF Good, Fields, Ordered
  <2>3. /\ d.panes = Set(c.panes, e.id, new) /\ Same(c, d)
        /\ d.agents = IF Has(c.agents, e.id)
                      THEN Set(c.agents, e.id, mergeAgent(c.agents.entries[e.id], new))
                      ELSE c.agents
      BY <1>4, <1>6, <1>8, <2>2 DEF setPane, Same
  <2>4. \A id, f : Written(e, "panes", id, f, h) = IF id = e.id /\ f = "rev" THEN {e.rev} ELSE {}
      BY DEF Written, Puts
  <2>5. Becomes(e, "panes", old, new, h)
    <3>1. \A f \in Fields("panes") : Written(e, "panes", old.id, f, h)
                                     = IF f \in {"rev"} THEN {new[f]} ELSE {}
        BY <2>1, <2>2, <2>4
    <3>2. new.id = old.id
        BY <2>1, <2>2
    <3> QED
        BY ONLY <2>2, <3>1, <3>2, BecomesPane
  <2>6. OnePane(c, e, d, new, h)
      BY <1>2, <1>8, <2>3, <2>5 DEF OnePane
  <2>7. new.id \in Held(d, "panes") /\ d.panes.entries[new.id] = new
      BY <2>2, <2>3, SetHolds DEF Held
  <2>8. PICK agent : agent = c.agents.entries[e.id]
      OBVIOUS
  <2>9. \A x : ~Joins(e, x) /\ ~Leaves(e, x, h)
      BY DEF Joins, Leaves, Frees, Closes
  <2>10. IF new.id \in Agents0(c) \/ Joins(e, new.id)
         THEN d.agents = Set(c.agents, new.id, mergeAgent(agent, new))
         ELSE d.agents = c.agents
      BY <2>2, <2>3, <2>8, <2>9 DEF Agents0, Has
  <2>11. new.id \in Mentions(e) /\ e.type # "PaneMoved"
      BY <2>2 DEF Mentions
  <2>12. \A x : x # new.id => \A f : Written(e, "panes", x, f, h) = {}
      BY <2>2, <2>4
  <2>13. Staffs(c, e, d, h)
      BY ONLY <2>2, <2>7, <2>9, <2>10, <2>11, <2>12, AgentMerges, Faithful(c, h)
  <2>14. Reduces(c, e, d, h)
      BY <1>0, <1>5, <2>6, <2>13, OnePaneReduces
  <2> QED
      BY <1>1, <2>14
<1> QED
    BY <1>7, <1>8

\* Three fields of a pane at once.
ThreeAs(p, x, y, z) == [p EXCEPT !.agent = x, !.display = y, !.status = z]
\* A pane with three fields rewritten has its other fields.
LEMMA PaneThree ==
    ASSUME NEW p, PaneShaped(p), NEW x, NEW y, NEW z, NEW q, q = ThreeAs(p, x, y, z)
    PROVE  /\ PaneShaped(q) /\ q.agent = x /\ q.display = y /\ q.status = z
           /\ q.id = p.id /\ q.tab = p.tab /\ q.ws = p.ws /\ q.focused = p.focused
           /\ q.rev = p.rev
<1>1. PICK a : a = [p EXCEPT !.agent = x]
    OBVIOUS
<1>2. PICK b : b = [a EXCEPT !.display = y]
    OBVIOUS
<1>3. q = [b EXCEPT !.status = z]
    BY <1>1, <1>2 DEF ThreeAs
<1>4. /\ PaneShaped(a) /\ a.agent = x
      /\ a.id = p.id /\ a.tab = p.tab /\ a.ws = p.ws /\ a.focused = p.focused
      /\ a.rev = p.rev
    BY ONLY <1>1, PaneShaped(p), PaneAgent
<1>5. /\ PaneShaped(b) /\ b.agent = x /\ b.display = y
      /\ b.id = p.id /\ b.tab = p.tab /\ b.ws = p.ws /\ b.focused = p.focused
      /\ b.rev = p.rev
    BY ONLY <1>2, <1>4, PaneDisplay
<1> QED
    BY ONLY <1>3, <1>5, PaneStatus
\* Such a pane is where its id was made.
LEMMA GoodThree ==
    ASSUME NEW p, NEW h, Good("panes", p, h), NEW x, NEW y, NEW z, NEW q, q = ThreeAs(p, x, y, z)
    PROVE  /\ Good("panes", q, h) /\ q.agent = x /\ q.display = y /\ q.status = z
           /\ q.id = p.id /\ q.focused = p.focused /\ q.rev = p.rev
<1>1. PaneShaped(p) /\ p.focused \in BOOLEAN /\ p.id \in DOMAIN h.pane
      /\ p.tab = h.pane[p.id] /\ p.ws = h.tab[p.tab]
    BY DEF Good, PaneShaped
<1>2. /\ PaneShaped(q) /\ q.agent = x /\ q.display = y /\ q.status = z
      /\ q.id = p.id /\ q.tab = p.tab /\ q.ws = p.ws /\ q.focused = p.focused
      /\ q.rev = p.rev
    BY ONLY <1>1, PaneThree, q = ThreeAs(p, x, y, z)
<1>3. /\ q.focused \in BOOLEAN
      /\ q.id \in DOMAIN h.pane /\ q.tab = h.pane[q.id] /\ q.ws = h.tab[q.tab]
    BY <1>1, <1>2
<1>4. Good("panes", q, h)
    BY ONLY <1>2, <1>3 DEF Good, PaneShaped
<1> QED
    BY <1>2, <1>4

\* An agent leaves its pane, which stays.
LEMMA ReleaseStaffs ==
    ASSUME NEW c, NEW e, NEW d, NEW h, Faithful(c, h), e.type = "PaneAgentDetected",
           e.released = TRUE, d.agents = Delete(c.agents, e.id)
    PROVE  Staffs(c, e, d, h)
<1>1. /\ Agents0(d) = Agents0(c) \ {e.id}
      /\ \A x \in Agents0(d) : d.agents.entries[x] = c.agents.entries[x]
  <2>1. PICK keep : keep = DOMAIN c.agents.entries \ {e.id}
      OBVIOUS
  <2>2. d.agents = Keep(c.agents, keep)
      BY <2>1 DEF Delete
  <2>3. /\ DOMAIN d.agents.entries = DOMAIN c.agents.entries \cap keep
        /\ \A x \in DOMAIN c.agents.entries \cap keep : d.agents.entries[x] = c.agents.entries[x]
      BY <2>2, KeepHolds
  <2> QED
      BY <2>1, <2>3 DEF Agents0
<1>2. \A x : ~Joins(e, x) /\ (Leaves(e, x, h) <=> x = e.id)
    BY DEF Joins, Leaves, Frees, Closes
<1>3. e.type \in PaneEvents \ {"PaneSet"}
    BY DEF PaneEvents
<1>4. \A x, f : x # e.id => AgentWritten(e, x, f, h) = {}
    BY <1>3, OnePaneSays DEF AgentWritten
<1>5. Employs(c, e, d, h)
    BY <1>1, <1>2 DEF Employs
<1>6. Repeats(c, e, d, h)
    BY <1>1, <1>4 DEF Repeats
<1>7. \A id \in Agents0(d) : AgentShaped(d.agents.entries[id], id, h)
    BY <1>1 DEF Faithful
<1> QED
    BY <1>5, <1>6, <1>7 DEF Staffs

\* pane.agent_detected.
LEMMA DetectedReduces ==
    ASSUME NEW c, NEW e, NEW h, Faithful(c, h), Genuine(e, h), e.type = "PaneAgentDetected"
    PROVE  Reduces(c, e, apply(c, e), h)
<1>1. PICK d : d = apply(c, e)
    OBVIOUS
<1>2. PICK old : old = c.panes.entries[e.id]
    OBVIOUS
<1>0. SoundCache(d)
    BY <1>1, AppliedSound
<1>3. PICK x, y, z : /\ x = (IF e.released THEN Absent ELSE e.agent)
                     /\ y = (IF e.released THEN Absent ELSE old.display)
                     /\ z = (IF e.finalStatus = Absent THEN old.status ELSE e.finalStatus)
    OBVIOUS
<1>4. PICK new : new = ThreeAs(old, x, y, z)
    OBVIOUS
<1>5. PICK agent : agent = AgentAt(c, e.id)
    OBVIOUS
<1>6. d = applyAgentDetected(c, e)
    BY <1>1 DEF apply
<1>7. new = [old EXCEPT
            !.agent = IF e.released THEN Absent ELSE e.agent,
            !.display = IF e.released THEN Absent ELSE @,
            !.status = IF e.finalStatus = Absent THEN @ ELSE e.finalStatus]
    BY <1>3, <1>4 DEF ThreeAs
<1>8. DOMAIN c = {"workspaces", "tabs", "panes", "agents", "layouts"}
    BY DEF Faithful, SoundCache
<1>9. /\ Same(c, d)
      /\ d.panes = IF Has(c.panes, e.id) THEN Set(c.panes, e.id, new) ELSE c.panes
      /\ d.agents = IF e.released THEN Delete(c.agents, e.id)
                    ELSE IF ~Has(c.panes, e.id) THEN c.agents
                    ELSE Set(c.agents, e.id, mergeAgent(agent, new))
    BY <1>2, <1>5, <1>6, <1>7, <1>8 DEF applyAgentDetected, Same
<1>10. e.type \in PaneEvents \ {"PaneSet"}
    BY DEF PaneEvents
<1>11. e.released \in BOOLEAN /\ IF e.released THEN e.agent = Absent /\ e.finalStatus = "unknown"
                                 ELSE e.agent # Absent /\ e.finalStatus = Absent
    BY DEF Genuine
<1>12. "unknown" # Absent
    BY AbsentAssumption
<1>13. ASSUME Has(c.panes, e.id)
       PROVE  /\ Good("panes", new, h) /\ new.id = e.id
              /\ Becomes(e, "panes", old, new, h)
  <2>1. Good("panes", old, h) /\ old.id = e.id
      BY <1>2, <1>13, FaithfulParts DEF Kinds, FaithfulTo, Has, Key
  <2>2. /\ Good("panes", new, h) /\ new.agent = x /\ new.display = y /\ new.status = z
        /\ new.id = old.id /\ new.focused = old.focused /\ new.rev = old.rev
      BY ONLY <2>1, <1>4, GoodThree
  <2>3. Fields("panes") = {"focused", "agent", "display", "status", "rev"}
      BY DEF Fields, Ordered
  <2>4. CASE e.released
    <3>1. x = Absent /\ y = Absent /\ z = "unknown" /\ e.agent = Absent
        BY <1>3, <1>11, <1>12, <2>4
    <3>2. \A f : Written(e, "panes", e.id, f, h)
                   = IF f = "agent" THEN {Absent} ELSE IF f = "display" THEN {Absent}
                     ELSE IF f = "status" THEN {"unknown"} ELSE {}
        BY <2>4, <3>1 DEF Written, Puts
    <3>3. \A f \in Fields("panes") : Written(e, "panes", old.id, f, h)
                   = IF f \in {"agent", "display", "status"} THEN {new[f]} ELSE {}
        BY <2>1, <2>2, <2>3, <3>1, <3>2
    <3>4. \A f \in Fields("panes") \ {"agent", "display", "status"} : new[f] = old[f]
        BY <2>2, <2>3
    <3>5. Becomes(e, "panes", old, new, h)
        BY ONLY <2>2, <3>3, <3>4, BecomesPane
    <3> QED
        BY <2>1, <2>2, <3>5
  <2>5. CASE ~e.released
    <3>1. x = e.agent /\ y = old.display /\ z = old.status
        BY <1>3, <1>11, <2>5
    <3>2. \A f : Written(e, "panes", e.id, f, h) = IF f = "agent" THEN {e.agent} ELSE {}
        BY <2>5 DEF Written, Puts
    <3>3. \A f \in Fields("panes") : Written(e, "panes", old.id, f, h)
                   = IF f \in {"agent"} THEN {new[f]} ELSE {}
        BY <2>1, <2>2, <2>3, <3>1, <3>2
    <3>4. \A f \in Fields("panes") \ {"agent"} : new[f] = old[f]
        BY <2>2, <2>3, <3>1
    <3>5. Becomes(e, "panes", old, new, h)
        BY ONLY <2>2, <3>3, <3>4, BecomesPane
    <3> QED
        BY <2>1, <2>2, <3>5
  <2> QED
      BY <2>4, <2>5
<1>14. OnePane(c, e, d, new, h)
    BY <1>2, <1>9, <1>13 DEF OnePane
<1>15. Staffs(c, e, d, h)
  <2>1. CASE e.released
    <3>1. e.released = TRUE
        BY <1>11, <2>1
    <3> QED
        BY <1>9, <2>1, <3>1, ReleaseStaffs
  <2>2. CASE ~e.released /\ ~Has(c.panes, e.id)
      BY <1>9, <1>10, <2>2, NoPaneStaffs
  <2>3. CASE ~e.released /\ Has(c.panes, e.id)
    <3>1. Good("panes", new, h) /\ new.id = e.id
        BY <1>13, <2>3
    <3>2. new.id \in Mentions(e) /\ e.type # "PaneMoved"
        BY <3>1 DEF Mentions
    <3>3. new.id \in Held(d, "panes") /\ d.panes.entries[new.id] = new
        BY <1>9, <2>3, <3>1, SetHolds DEF Held
    <3>4. \A u : u # new.id => ~Joins(e, u) /\ \A f : Written(e, "panes", u, f, h) = {}
        BY <1>10, <3>1, OnePaneSays
    <3>5. \A u : ~Leaves(e, u, h)
        BY <2>3 DEF Leaves, Frees, Closes
    <3>6. Joins(e, new.id) /\ new.id \in Held(c, "panes")
        BY <2>3, <3>1 DEF Joins, Held, Has
    <3>7. IF new.id \in Agents0(c) \/ Joins(e, new.id)
          THEN d.agents = Set(c.agents, new.id, mergeAgent(agent, new))
          ELSE d.agents = c.agents
        BY <1>9, <2>3, <3>1, <3>6
    <3> QED
        BY ONLY <3>1, <3>2, <3>3, <3>4, <3>5, <3>6, <3>7, AgentMerges, Faithful(c, h)
  <2> QED
      BY <2>1, <2>2, <2>3
<1>16. Reduces(c, e, d, h)
    BY <1>0, <1>10, <1>14, <1>15, OnePaneReduces
<1> QED
    BY <1>1, <1>16

\* pane.agent_status_changed.
LEMMA StatusReduces ==
    ASSUME NEW c, NEW e, NEW h, Faithful(c, h), Genuine(e, h),
           e.type = "PaneAgentStatusChanged"
    PROVE  Reduces(c, e, apply(c, e), h)
<1>1. PICK d : d = apply(c, e)
    OBVIOUS
<1>2. PICK old : old = c.panes.entries[e.id]
    OBVIOUS
<1>0. SoundCache(d)
    BY <1>1, AppliedSound
<1>4. PICK new : new = ThreeAs(old, e.agent, e.display, e.status)
    OBVIOUS
<1>5. PICK agent : agent = c.agents.entries[e.id]
    OBVIOUS
<1>6. d = applyAgentStatus(c, e)
    BY <1>1 DEF apply
<1>3. e.agent # Absent /\ e.display # Absent
    BY DEF Genuine
<1>7. new = [old EXCEPT
            !.status = e.status,
            !.agent = IF e.agent = Absent THEN @ ELSE e.agent,
            !.display = IF e.display = Absent THEN @ ELSE e.display]
    BY <1>3, <1>4 DEF ThreeAs
<1>8. DOMAIN c = {"workspaces", "tabs", "panes", "agents", "layouts"}
    BY DEF Faithful, SoundCache
<1>9. /\ Same(c, d)
      /\ d.panes = IF Has(c.panes, e.id) THEN Set(c.panes, e.id, new) ELSE c.panes
      /\ d.agents = IF ~Has(c.agents, e.id) THEN c.agents
                    ELSE IF Has(c.panes, e.id) THEN Set(c.agents, e.id, mergeAgent(agent, new))
                    ELSE Set(c.agents, e.id, [agent EXCEPT !.status = e.status])
    BY <1>2, <1>5, <1>6, <1>7, <1>8 DEF applyAgentStatus, Same
<1>10. e.type \in PaneEvents \ {"PaneSet"}
    BY DEF PaneEvents
<1>13. ASSUME Has(c.panes, e.id)
       PROVE  /\ Good("panes", new, h) /\ new.id = e.id
              /\ Becomes(e, "panes", old, new, h)
  <2>1. Good("panes", old, h) /\ old.id = e.id
      BY <1>2, <1>13, FaithfulParts DEF Kinds, FaithfulTo, Has, Key
  <2>2. /\ Good("panes", new, h) /\ new.agent = e.agent /\ new.display = e.display
        /\ new.status = e.status
        /\ new.id = old.id /\ new.focused = old.focused /\ new.rev = old.rev
    <3>1. PICK x, y, z : x = e.agent /\ y = e.display /\ z = e.status
        OBVIOUS
    <3>2. new = ThreeAs(old, x, y, z)
        BY <1>4, <3>1
    <3>3. /\ Good("panes", new, h) /\ new.agent = x /\ new.display = y /\ new.status = z
          /\ new.id = old.id /\ new.focused = old.focused /\ new.rev = old.rev
        BY ONLY <2>1, <3>2, GoodThree
    <3> QED
        BY <3>1, <3>3
  <2>3. Fields("panes") = {"focused", "agent", "display", "status", "rev"}
      BY DEF Fields, Ordered
  <2>4. \A f : Written(e, "panes", e.id, f, h)
                 = IF f \in {"agent", "display", "status"} THEN {e[f]} ELSE {}
      BY DEF Written, Puts
  <2>5. \A f \in Fields("panes") : Written(e, "panes", old.id, f, h)
                 = IF f \in {"agent", "display", "status"} THEN {new[f]} ELSE {}
      BY <2>1, <2>2, <2>3, <2>4
  <2>6. \A f \in Fields("panes") \ {"agent", "display", "status"} : new[f] = old[f]
      BY <2>2, <2>3
  <2>7. Becomes(e, "panes", old, new, h)
      BY ONLY <2>2, <2>5, <2>6, BecomesPane
  <2> QED
      BY <2>1, <2>2, <2>7
<1>14. OnePane(c, e, d, new, h)
    BY <1>2, <1>9, <1>13 DEF OnePane
<1>15. Staffs(c, e, d, h)
  <2>1. CASE ~Has(c.panes, e.id)
    <3>1. e.id \notin Agents0(c)
        BY <2>1 DEF Faithful, Held, Has
    <3>2. d.agents = c.agents
        BY <1>9, <3>1 DEF Has, Agents0
    <3> QED
        BY <1>10, <2>1, <3>2, NoPaneStaffs
  <2>3. CASE Has(c.panes, e.id)
    <3>1. Good("panes", new, h) /\ new.id = e.id
        BY <1>13, <2>3
    <3>2. new.id \in Mentions(e) /\ e.type # "PaneMoved"
        BY <3>1 DEF Mentions
    <3>3. new.id \in Held(d, "panes") /\ d.panes.entries[new.id] = new
        BY <1>9, <2>3, <3>1, SetHolds DEF Held
    <3>4. \A u : u # new.id => ~Joins(e, u) /\ \A f : Written(e, "panes", u, f, h) = {}
        BY <1>10, <3>1, OnePaneSays
    <3>5. \A u : ~Leaves(e, u, h) /\ ~Joins(e, u)
        BY DEF Leaves, Frees, Closes, Joins
    <3>6. Joins(e, new.id) => new.id \in Held(c, "panes")
        BY <3>5
    <3>7. IF new.id \in Agents0(c) \/ Joins(e, new.id)
          THEN d.agents = Set(c.agents, new.id, mergeAgent(agent, new))
          ELSE d.agents = c.agents
        BY <1>9, <2>3, <3>1, <3>5 DEF Agents0, Has
    <3> QED
        BY ONLY <3>1, <3>2, <3>3, <3>4, <3>5, <3>6, <3>7, AgentMerges, Faithful(c, h)
  <2> QED
      BY <2>1, <2>3
<1>16. Reduces(c, e, d, h)
    BY <1>0, <1>10, <1>14, <1>15, OnePaneReduces
<1> QED
    BY <1>1, <1>16

\* The focused flag of every pane, or of every agent.
LEMMA FocusOnlyHolds ==
    ASSUME NEW o, NEW id, NEW p, Sound(o), p = FocusOnly(o, id)
    PROVE  /\ p.ids = o.ids /\ DOMAIN p.entries = DOMAIN o.entries
           /\ \A x \in DOMAIN o.entries : p.entries[x] = [o.entries[x] EXCEPT !.focused = (x = id)]
<1>1. o = [ids |-> o.ids, entries |-> o.entries]
    BY DEF Sound
<1> QED
    BY <1>1 DEF FocusOnly, Update

\* A pane with its flag rewritten has its other fields.
LEMMA FocusedPane ==
    ASSUME NEW r, NEW h, NEW v \in BOOLEAN, NEW q, Good("panes", r, h),
           q = [r EXCEPT !.focused = v]
    PROVE  /\ Good("panes", q, h) /\ q.id = r.id /\ q.focused = v
           /\ \A f \in Fields("panes") \ {"focused"} : q[f] = r[f]
    BY DEF Good, Fields, Ordered
\* An agent with its flag rewritten has its other fields.
LEMMA FocusedAgent ==
    ASSUME NEW r, NEW h, NEW id, NEW v \in BOOLEAN, NEW q, AgentShaped(r, id, h),
           q = [r EXCEPT !.focused = v]
    PROVE  /\ AgentShaped(q, id, h) /\ q.focused = v
           /\ \A f \in Fields("panes") \ {"focused"} : q[f] = r[f]
    BY DEF AgentShaped, Fields, Ordered

\* focusPane sets the flag of one pane and clears the others.
LEMMA FocusedPart ==
    ASSUME NEW o, NEW e, NEW h, NEW p, FaithfulTo("panes", o, h), e.type = "PaneFocused",
           p = FocusOnly(o, e.id)
    PROVE  Part("panes", o, p, e, h)
<1>1. /\ p.ids = o.ids /\ DOMAIN p.entries = DOMAIN o.entries
      /\ \A x \in DOMAIN o.entries : p.entries[x] = [o.entries[x] EXCEPT !.focused = (x = e.id)]
    BY FocusOnlyHolds DEF FaithfulTo
<1>2. ASSUME NEW x \in DOMAIN o.entries
      PROVE  Becomes(e, "panes", o.entries[x], p.entries[x], h)
  <2>1. PICK v : v = (x = e.id)
      OBVIOUS
  <2>2. PICK r, q : r = o.entries[x] /\ q = p.entries[x]
      OBVIOUS
  <2>3. Good("panes", r, h) /\ r.id = x
      BY <2>2 DEF FaithfulTo, Key
  <2>4. v \in BOOLEAN /\ q = [r EXCEPT !.focused = v]
      BY <1>1, <2>1, <2>2
  <2>5. /\ Good("panes", q, h) /\ q.id = r.id /\ q.focused = v
        /\ \A f \in Fields("panes") \ {"focused"} : q[f] = r[f]
      BY ONLY <2>3, <2>4, FocusedPane
  <2>6. \A f : Written(e, "panes", x, f, h) = IF f = "focused" THEN {x = e.id} ELSE {}
      BY DEF Written, Puts
  <2>7. \A f : Written(e, "panes", x, f, h) = IF f = "focused" THEN {v} ELSE {}
      BY <2>1, <2>6
  <2>8. \A f \in Fields("panes") : Written(e, "panes", r.id, f, h)
                                     = IF f \in {"focused"} THEN {q[f]} ELSE {}
      BY <2>3, <2>5, <2>7
  <2>9. Becomes(e, "panes", r, q, h)
      BY ONLY <2>5, <2>8, BecomesPane
  <2> QED
      BY <2>2, <2>9
<1>3. \A id : ~Brings(e, "panes", id) /\ ~Closes(e, "panes", id, h)
    BY DEF Brings, Puts, Closes
<1>4. \A g : ~Reorders(e, "panes", g)
    BY DEF Reorders
<1> QED
    BY <1>1, <1>2, <1>3, <1>4, RewritePart

\* The layout of a pane's tab follows, if it is held.
LEMMA NamedPart ==
    ASSUME NEW o, NEW e, NEW h, NEW tab, NEW p, FaithfulTo("layouts", o, h),
           e.type = "PaneFocused", tab = h.pane[e.id],
           p = IF Has(o, tab)
               THEN Set(o, tab, [o.entries[tab] EXCEPT !.focusedPane = e.id]) ELSE o
    PROVE  Part("layouts", o, p, e, h)
<1>1. /\ p.ids = o.ids /\ DOMAIN p.entries = DOMAIN o.entries
      /\ \A x \in DOMAIN o.entries :
            p.entries[x] = IF x = tab THEN [o.entries[x] EXCEPT !.focusedPane = e.id]
                           ELSE o.entries[x]
  <2>1. CASE Has(o, tab)
    <3>1. PICK v : v = [o.entries[tab] EXCEPT !.focusedPane = e.id]
        OBVIOUS
    <3>2. p = Set(o, tab, v)
        BY <2>1, <3>1
    <3>3. p.ids = o.ids
        BY <2>1, <3>2 DEF Set
    <3>4. /\ DOMAIN p.entries = DOMAIN o.entries \cup {tab} /\ p.entries[tab] = v
          /\ \A x \in DOMAIN o.entries : x # tab => p.entries[x] = o.entries[x]
        BY ONLY <3>2, SetHolds
    <3>5. tab \in DOMAIN o.entries
        BY <2>1 DEF Has
    <3>6. DOMAIN p.entries = DOMAIN o.entries
        BY <3>4, <3>5
    <3>7. ASSUME NEW x \in DOMAIN o.entries
          PROVE  p.entries[x] = IF x = tab THEN [o.entries[x] EXCEPT !.focusedPane = e.id]
                                ELSE o.entries[x]
      <4>1. CASE x = tab
          BY <4>1, <3>1, <3>4
      <4>2. CASE x # tab
          BY <4>2, <3>4
      <4> QED
          BY <4>1, <4>2
    <3> QED
        BY <3>3, <3>6, <3>7
  <2>2. CASE ~Has(o, tab)
      BY <2>2 DEF Has
  <2> QED
      BY <2>1, <2>2
<1>2. ASSUME NEW x \in DOMAIN o.entries
      PROVE  Becomes(e, "layouts", o.entries[x], p.entries[x], h)
  <2>1. PICK r, q : r = o.entries[x] /\ q = p.entries[x]
      OBVIOUS
  <2>2. Good("layouts", r, h) /\ r.tab = x
      BY <2>1 DEF FaithfulTo, Key
  <2>3. q = IF x = tab THEN [r EXCEPT !.focusedPane = e.id] ELSE r
      BY <1>1, <2>1
  <2>4. Fields("layouts") = {"focusedPane"}
      BY DEF Fields, Ordered
  <2>5. \A f : Written(e, "layouts", x, f, h) = IF x = tab THEN {e.id} ELSE {}
      BY DEF Written, Puts
  <2>6. Good("layouts", q, h) /\ q.tab = x /\ q.focusedPane = IF x = tab THEN e.id ELSE r.focusedPane
      BY ONLY <2>2, <2>3 DEF Good
  <2>7. Becomes(e, "layouts", r, q, h)
      BY ONLY <2>2, <2>4, <2>5, <2>6 DEF Becomes, Key
  <2> QED
      BY <2>1, <2>7
<1>3. \A id : ~Brings(e, "layouts", id) /\ ~Closes(e, "layouts", id, h)
    BY DEF Brings, Puts, Closes
<1>4. \A g : ~Reorders(e, "layouts", g)
    BY DEF Reorders
<1> QED
    BY <1>1, <1>2, <1>3, <1>4, RewritePart

\* focusPane sets the flag of the agent of that pane and clears the others.
LEMMA FocusedStaffs ==
    ASSUME NEW c, NEW e, NEW d, NEW h, Faithful(c, h), e.type = "PaneFocused",
           d.agents = FocusOnly(c.agents, e.id)
    PROVE  Staffs(c, e, d, h)
<1>1. /\ Agents0(d) = Agents0(c)
      /\ \A x \in Agents0(c) :
            d.agents.entries[x] = [c.agents.entries[x] EXCEPT !.focused = (x = e.id)]
    BY FocusOnlyHolds DEF Agents0, Faithful, SoundCache
<1>2. \A x : ~Joins(e, x) /\ ~Leaves(e, x, h)
    BY DEF Joins, Leaves, Frees, Closes
<1>3. ASSUME NEW x \in Agents0(c)
      PROVE  /\ AgentShaped(d.agents.entries[x], x, h)
             /\ d.agents.entries[x].focused = (x = e.id)
             /\ \A f \in Fields("panes") \ {"focused"} :
                   d.agents.entries[x][f] = c.agents.entries[x][f]
  <2>1. PICK v : v = (x = e.id)
      OBVIOUS
  <2>2. PICK r, q : r = c.agents.entries[x] /\ q = d.agents.entries[x]
      OBVIOUS
  <2>3. AgentShaped(r, x, h)
      BY <2>2 DEF Faithful
  <2>4. v \in BOOLEAN /\ q = [r EXCEPT !.focused = v]
      BY <1>1, <2>1, <2>2
  <2>5. /\ AgentShaped(q, x, h) /\ q.focused = v
        /\ \A f \in Fields("panes") \ {"focused"} : q[f] = r[f]
      BY ONLY <2>3, <2>4, FocusedAgent
  <2> QED
      BY <2>1, <2>2, <2>5
<1>4. Employs(c, e, d, h)
    BY <1>1, <1>2 DEF Employs
<1>5. \A x, f : f # "focused" => AgentWritten(e, x, f, h) = {}
    BY DEF AgentWritten, Written, Puts
<1>6. Repeats(c, e, d, h)
    BY <1>1, <1>3, <1>5 DEF Repeats
<1> QED
    BY <1>1, <1>3, <1>4, <1>6 DEF Staffs

\* pane.focused: the flag everywhere, and the layout of the pane's tab.
LEMMA PaneFocusedReduces ==
    ASSUME NEW c, NEW e, NEW h, Faithful(c, h), Genuine(e, h), e.type = "PaneFocused"
    PROVE  Reduces(c, e, apply(c, e), h)
<1>1. PICK d : d = apply(c, e)
    OBVIOUS
<1>0. SoundCache(d)
    BY <1>1, AppliedSound
<1>2. d = focusPane(c, e.id)
    BY <1>1 DEF apply
<1>3. PICK panes : panes = FocusOnly(c.panes, e.id)
    OBVIOUS
<1>4. PICK tab : tab = panes.entries[e.id].tab
    OBVIOUS
<1>5. DOMAIN c = {"workspaces", "tabs", "panes", "agents", "layouts"}
    BY DEF Faithful, SoundCache
<1>6. /\ d.workspaces = c.workspaces /\ d.tabs = c.tabs /\ d.panes = panes
      /\ d.agents = FocusOnly(c.agents, e.id)
      /\ d.layouts = IF Has(panes, e.id) /\ Has(c.layouts, tab)
                     THEN Set(c.layouts, tab, [c.layouts.entries[tab] EXCEPT !.focusedPane = e.id])
                     ELSE c.layouts
    BY <1>2, <1>3, <1>4, <1>5 DEF focusPane
<1>7. FaithfulTo("panes", c.panes, h) /\ FaithfulTo("layouts", c.layouts, h)
    BY FaithfulParts DEF Kinds
<1>8. Part("panes", c.panes, d.panes, e, h)
    BY <1>3, <1>6, <1>7, FocusedPart
<1>9. Part("layouts", c.layouts, d.layouts, e, h) \/ Unnamed("layouts", c, e, d)
  <2>1. DOMAIN panes.entries = DOMAIN c.panes.entries
      BY <1>3, <1>7, FocusOnlyHolds DEF FaithfulTo
  <2>2. CASE ~Has(panes, e.id)
    <3>1. e.id \notin Held(c, "panes")
        BY <2>1, <2>2 DEF Has, Held
    <3> QED
        BY <1>6, <2>2, <3>1 DEF Unnamed
  <2>3. CASE Has(panes, e.id)
    <3>1. e.id \in DOMAIN c.panes.entries
        BY <2>1, <2>3 DEF Has
    <3>2. Part("panes", c.panes, panes, e, h)
        BY <1>6, <1>8
    <3>3. Good("panes", panes.entries[e.id], h) /\ Key("panes", panes.entries[e.id]) = e.id
        BY <2>1, <3>1, <3>2 DEF Part
    <3>4. \A r : Good("panes", r, h) /\ Key("panes", r) = e.id => r.tab = h.pane[e.id]
        BY DEF Good, Key
    <3>5. tab = h.pane[e.id]
        BY <1>4, <3>3, <3>4
    <3>6. d.layouts = IF Has(c.layouts, tab)
                      THEN Set(c.layouts, tab, [c.layouts.entries[tab] EXCEPT !.focusedPane = e.id])
                      ELSE c.layouts
        BY <1>6, <2>3
    <3> QED
        BY <1>7, <3>5, <3>6, NamedPart
  <2> QED
      BY <2>2, <2>3
<1>10. ASSUME NEW X \in {"workspaces", "tabs"}
       PROVE  Part(X, c[X], d[X], e, h)
  <2>1. d[X] = c[X] /\ X \in Kinds
      BY <1>6 DEF Kinds
  <2>2. Silent(e, X, h)
      BY <2>1, TellsKinds, SilentElse
  <2> QED
      BY <2>1, <2>2, FaithfulParts, StillPart
<1>11. \A X \in Kinds : Part(X, c[X], d[X], e, h) \/ Unnamed(X, c, e, d)
    BY <1>8, <1>9, <1>10 DEF Kinds
<1>12. Staffs(c, e, d, h)
    BY <1>6, FocusedStaffs
<1>13. Reduces(c, e, d, h)
    BY <1>0, <1>11, <1>12, ReduceParts
<1> QED
    BY <1>1, <1>13

\* movePane takes out what is in the tab that closed, if one did.
LEMMA LeaveTabHolds ==
    ASSUME NEW q, NEW tab, NEW p, p = LeaveTab(q, tab)
    PROVE  /\ \A x : x \in DOMAIN p.entries
                 <=> x \in DOMAIN q.entries /\ (tab = Absent \/ q.entries[x].tab # tab)
           /\ \A x \in DOMAIN p.entries : p.entries[x] = q.entries[x]
<1>1. CASE tab = Absent
    BY <1>1 DEF LeaveTab
<1>2. CASE tab # Absent
  <2>1. PICK set : set = DOMAIN q.entries \ InTab(q, tab)
      OBVIOUS
  <2>2. p = Keep(q, set)
      BY <1>2, <2>1 DEF LeaveTab, DeleteWhere
  <2>3. /\ DOMAIN p.entries = DOMAIN q.entries \cap set
        /\ \A x \in DOMAIN q.entries \cap set : p.entries[x] = q.entries[x]
      BY ONLY <2>2, KeepHolds
  <2> QED
      BY <1>2, <2>1, <2>3 DEF InTab
<1> QED
    BY <1>1, <1>2

\* movePane files the entry under the new id, in the place of the old one.
LEMMA RekeyedHolds ==
    ASSUME NEW o, NEW gone, NEW i, NEW v, NEW q, q = Rekeyed(o, gone, i, v)
    PROVE  /\ DOMAIN q.entries = (DOMAIN o.entries \ {gone}) \cup {i}
           /\ q.entries[i] = v
           /\ \A x \in DOMAIN o.entries \ {gone} : x # i => q.entries[x] = o.entries[x]
<1>1. PICK set : set = DOMAIN o.entries \ {gone}
    OBVIOUS
<1>2. PICK r : r = Keep(o, set)
    OBVIOUS
<1>3. q = Set(r, i, v)
    BY <1>1, <1>2 DEF Rekeyed, Delete
<1>4. /\ DOMAIN r.entries = DOMAIN o.entries \cap set
      /\ \A x \in DOMAIN o.entries \cap set : r.entries[x] = o.entries[x]
    BY ONLY <1>2, KeepHolds
<1>5. /\ DOMAIN q.entries = DOMAIN r.entries \cup {i} /\ q.entries[i] = v
      /\ \A x \in DOMAIN r.entries : x # i => q.entries[x] = r.entries[x]
    BY ONLY <1>3, SetHolds
<1> QED
    BY <1>1, <1>4, <1>5

\* What a move says of the panes.
Departs(e, id, h) == e.previous = id \/ (e.closedTab # Absent /\ h.pane[id] = e.closedTab)
\* pane.moved drops the previous id and the panes of the tab that closed, and brings
\* one pane.
LEMMA MovedSays ==
    ASSUME NEW e, NEW h, Genuine(e, h), e.type = "PaneMoved"
    PROVE  /\ Good("panes", e.pane, h)
           /\ e.pane.tab = h.pane[e.pane.id] /\ ~Departs(e, e.pane.id, h)
           /\ \A id : Closes(e, "panes", id, h) <=> Departs(e, id, h)
           /\ \A id : Brings(e, "panes", id) <=> id = e.pane.id
           /\ \A id, f : Written(e, "panes", id, f, h) = IF id = e.pane.id THEN {e.pane[f]} ELSE {}
           /\ \A X, g : ~Reorders(e, X, g)
           /\ e.closedWorkspace = Absent
           /\ e.closedTab # Absent => e.createdTab = Absent
           /\ e.pane.tab # e.closedTab
<1>1. Puts(e, "panes") = {e.pane}
    BY DEF Puts
<1>2. Good("panes", e.pane, h)
    BY <1>1 DEF Genuine, Kinds
<1>3. e.pane.tab = h.pane[e.pane.id]
    BY <1>2 DEF Good
<1>4. /\ e.closedWorkspace = Absent
      /\ e.closedTab # Absent => e.createdTab = Absent
      /\ e.previous # e.pane.id /\ e.pane.tab # e.closedTab
    BY DEF Genuine
<1>5. \A id : Brings(e, "panes", id) <=> id = e.pane.id
    BY <1>1 DEF Brings, Key
<1>6. \A id, f : Written(e, "panes", id, f, h) = IF id = e.pane.id THEN {e.pane[f]} ELSE {}
  <2>1. \A id, f : Written(e, "panes", id, f, h)
                     = {r[f] : r \in {q \in {e.pane} : q.id = id}}
      BY <1>1 DEF Written, Key
  <2> QED
      BY <2>1
<1>7. \A id : Closes(e, "panes", id, h) <=> Departs(e, id, h)
    BY DEF Closes, Departs
<1>8. \A X, g : ~Reorders(e, X, g)
    BY DEF Reorders
<1>9. ~Departs(e, e.pane.id, h)
    BY <1>3, <1>4 DEF Departs
<1> QED
    BY <1>2, <1>3, <1>4, <1>5, <1>6, <1>7, <1>8, <1>9

\* The panes: rekeyed, and without those of a tab that closed.
LEMMA MovedPanes ==
    ASSUME NEW o, NEW e, NEW h, NEW p, FaithfulTo("panes", o, h), Genuine(e, h),
           e.type = "PaneMoved",
           p = LeaveTab(Rekeyed(o, e.previous, e.pane.id, e.pane), e.closedTab)
    PROVE  /\ Part("panes", o, p, e, h)
           /\ e.pane.id \in DOMAIN p.entries /\ p.entries[e.pane.id] = e.pane
<1>1. PICK q : q = Rekeyed(o, e.previous, e.pane.id, e.pane)
    OBVIOUS
<1>2. /\ DOMAIN q.entries = (DOMAIN o.entries \ {e.previous}) \cup {e.pane.id}
      /\ q.entries[e.pane.id] = e.pane
      /\ \A x \in DOMAIN o.entries \ {e.previous} : x # e.pane.id => q.entries[x] = o.entries[x]
    BY ONLY <1>1, RekeyedHolds
<1>3. p = LeaveTab(q, e.closedTab)
    BY <1>1
<1>4. /\ \A x : x \in DOMAIN p.entries
                 <=> x \in DOMAIN q.entries /\ (e.closedTab = Absent \/ q.entries[x].tab # e.closedTab)
      /\ \A x \in DOMAIN p.entries : p.entries[x] = q.entries[x]
    BY ONLY <1>3, LeaveTabHolds
<1>5. \A x \in DOMAIN o.entries : Good("panes", o.entries[x], h) /\ Key("panes", o.entries[x]) = x
    BY DEF FaithfulTo
<1>6. \A r : Good("panes", r, h) => r.tab = h.pane[r.id]
    BY DEF Good
<1>7. \A r : Key("panes", r) = r.id
    BY DEF Key
<1>8. \A x \in DOMAIN q.entries : Good("panes", q.entries[x], h) /\ q.entries[x].id = x
    BY <1>2, <1>5, <1>7, MovedSays
<1>9. \A x \in DOMAIN q.entries : q.entries[x].tab = h.pane[x]
    BY <1>6, <1>8
<1>10. \A x : x \in DOMAIN p.entries
               <=> x = e.pane.id \/ (x \in DOMAIN o.entries /\ ~Departs(e, x, h))
  <2>1. \A x : x \in DOMAIN p.entries
                 <=> x \in DOMAIN q.entries /\ (e.closedTab = Absent \/ h.pane[x] # e.closedTab)
      BY <1>4, <1>9
  <2>2. ~Departs(e, e.pane.id, h)
      BY MovedSays
  <2> QED
      BY <1>2, <2>1, <2>2 DEF Departs
<1>11. e.pane.id \in DOMAIN p.entries /\ p.entries[e.pane.id] = e.pane
    BY <1>2, <1>4, <1>10
<1>12. \A x \in DOMAIN p.entries : x # e.pane.id =>
          x \in DOMAIN o.entries /\ p.entries[x] = o.entries[x]
    BY <1>2, <1>4
<1>13. \A x \in DOMAIN p.entries : Good("panes", p.entries[x], h) /\ Key("panes", p.entries[x]) = x
    BY <1>4, <1>7, <1>8
<1>14. \A x : Drops(e, "panes", x, h) <=> Departs(e, x, h)
    BY MovedSays DEF Drops
<1>15. \A x : x \in DOMAIN p.entries
               <=> Brings(e, "panes", x) \/ (x \in DOMAIN o.entries /\ ~Drops(e, "panes", x, h))
    BY <1>10, <1>14, MovedSays
<1>16. \A x, f : Written(e, "panes", x, f, h) = IF x = e.pane.id THEN {e.pane[f]} ELSE {}
    BY MovedSays
<1>17. ASSUME NEW x \in DOMAIN p.entries, NEW f \in Fields("panes")
       PROVE  /\ Written(e, "panes", x, f, h) = {}
                   => x \in DOMAIN o.entries /\ p.entries[x][f] = o.entries[x][f]
              /\ \A v \in Written(e, "panes", x, f, h) : p.entries[x][f] = v
  <2>1. CASE x = e.pane.id
    <3>1. Written(e, "panes", x, f, h) = {e.pane[f]}
        BY <1>16, <2>1
    <3> QED
        BY <1>11, <2>1, <3>1
  <2>2. CASE x # e.pane.id
    <3>1. Written(e, "panes", x, f, h) = {}
        BY <1>16, <2>2
    <3> QED
        BY <1>12, <2>2, <3>1
  <2> QED
      BY <2>1, <2>2
<1>18. "panes" \notin Ordered
    BY DEF Ordered
<1> QED
    BY <1>11, <1>13, <1>15, <1>17, <1>18 DEF Part

\* The agents: one goes along with its pane, those of a tab that closed leave.
LEMMA MovedStaffs ==
    ASSUME NEW c, NEW e, NEW d, NEW h, Faithful(c, h), Genuine(e, h), e.type = "PaneMoved",
           d.agents = LeaveTab(Follow(c.agents, e), e.closedTab),
           e.pane.id \in Held(d, "panes"), d.panes.entries[e.pane.id] = e.pane
    PROVE  Staffs(c, e, d, h)
<1>1. PICK a : a = mergeAgent(c.agents.entries[e.previous], e.pane)
    OBVIOUS
<1>2. PICK p : p = e.pane
    OBVIOUS
<1>3. Good("panes", p, h) /\ p.tab = h.pane[p.id] /\ p.tab # e.closedTab /\ ~Departs(e, p.id, h)
    BY <1>2, MovedSays
<1>4. /\ AgentShaped(a, p.id, h)
      /\ \A f \in Fields("panes") : a[f] = p[f]
  <2>1. PICK agent : agent = c.agents.entries[e.previous]
      OBVIOUS
  <2>2. a = mergeAgent(agent, p)
      BY <1>1, <1>2, <2>1
  <2> QED
      BY ONLY <1>3, <2>2, MergeShaped
<1>5. PICK q : q = Follow(c.agents, e)
    OBVIOUS
<1>6. \A x : x \in DOMAIN q.entries <=> \/ x \in Agents0(c) /\ x # e.previous
                                        \/ x = p.id /\ e.previous \in Agents0(c)
  <2>1. CASE Has(c.agents, e.previous)
    <3>1. q = Rekeyed(c.agents, e.previous, p.id, a)
        BY <1>1, <1>2, <1>5, <2>1 DEF Follow
    <3>2. DOMAIN q.entries = (DOMAIN c.agents.entries \ {e.previous}) \cup {p.id}
        BY ONLY <3>1, RekeyedHolds
    <3> QED
        BY <2>1, <3>2 DEF Has, Agents0
  <2>2. CASE ~Has(c.agents, e.previous)
    <3>1. PICK set : set = DOMAIN c.agents.entries \ {e.previous}
        OBVIOUS
    <3>2. q = Keep(c.agents, set)
        BY <1>5, <2>2, <3>1 DEF Follow, Delete
    <3>3. DOMAIN q.entries = DOMAIN c.agents.entries \cap set
        BY ONLY <3>2, KeepHolds
    <3> QED
        BY <2>2, <3>1, <3>3 DEF Has, Agents0
  <2> QED
      BY <2>1, <2>2
<1>7. \A x \in DOMAIN q.entries : \/ x \in Agents0(c) /\ q.entries[x] = c.agents.entries[x]
                                  \/ x = p.id /\ q.entries[x] = a
  <2>1. CASE Has(c.agents, e.previous)
    <3>1. q = Rekeyed(c.agents, e.previous, p.id, a)
        BY <1>1, <1>2, <1>5, <2>1 DEF Follow
    <3>2. /\ DOMAIN q.entries = (DOMAIN c.agents.entries \ {e.previous}) \cup {p.id}
          /\ q.entries[p.id] = a
          /\ \A x \in DOMAIN c.agents.entries \ {e.previous} :
                x # p.id => q.entries[x] = c.agents.entries[x]
        BY ONLY <3>1, RekeyedHolds
    <3> QED
        BY <3>2 DEF Agents0
  <2>2. CASE ~Has(c.agents, e.previous)
    <3>1. PICK set : set = DOMAIN c.agents.entries \ {e.previous}
        OBVIOUS
    <3>2. q = Keep(c.agents, set)
        BY <1>5, <2>2, <3>1 DEF Follow, Delete
    <3>3. /\ DOMAIN q.entries = DOMAIN c.agents.entries \cap set
          /\ \A x \in DOMAIN c.agents.entries \cap set : q.entries[x] = c.agents.entries[x]
        BY ONLY <3>2, KeepHolds
    <3> QED
        BY <3>3 DEF Agents0
  <2> QED
      BY <2>1, <2>2
<1>8. \A x \in Agents0(c) : AgentShaped(c.agents.entries[x], x, h)
    BY DEF Faithful
<1>9. \A x \in DOMAIN q.entries : AgentShaped(q.entries[x], x, h)
    BY <1>4, <1>7, <1>8
<1>10. \A x \in DOMAIN q.entries : q.entries[x].tab = h.pane[x]
    BY <1>9 DEF AgentShaped
<1>11. /\ \A x : x \in Agents0(d)
                 <=> x \in DOMAIN q.entries /\ (e.closedTab = Absent \/ q.entries[x].tab # e.closedTab)
       /\ \A x \in Agents0(d) : d.agents.entries[x] = q.entries[x]
  <2>1. PICK z : z = d.agents
      OBVIOUS
  <2>2. z = LeaveTab(q, e.closedTab)
      BY <1>5, <2>1
  <2>3. /\ \A x : x \in DOMAIN z.entries
                 <=> x \in DOMAIN q.entries /\ (e.closedTab = Absent \/ q.entries[x].tab # e.closedTab)
        /\ \A x \in DOMAIN z.entries : z.entries[x] = q.entries[x]
      BY ONLY <2>2, LeaveTabHolds
  <2> QED
      BY <2>1, <2>3 DEF Agents0
<1>12. \A x : Leaves(e, x, h) <=> Departs(e, x, h)
    BY MovedSays DEF Leaves, Frees
<1>13. \A x : ~Joins(e, x)
    BY DEF Joins
<1>14. \A x : x \in Agents0(d) <=> \/ x = p.id /\ e.previous \in Agents0(c)
                                   \/ x \in Agents0(c) /\ ~Departs(e, x, h)
    BY <1>3, <1>6, <1>10, <1>11 DEF Departs
<1>15. Employs(c, e, d, h)
    BY <1>2, <1>12, <1>13, <1>14 DEF Employs
<1>16. p.id \in Mentions(e)
    BY <1>2 DEF Mentions
<1>17. \A x, f : AgentWritten(e, x, f, h) = {}
    BY DEF AgentWritten
<1>18. p.id \in Held(d, "panes") /\ d.panes.entries[p.id] = p
    BY <1>2
<1>19. Repeats(c, e, d, h)
  <2> SUFFICES ASSUME NEW x \in Agents0(d), NEW f \in Fields("panes")
               PROVE  \/ /\ x \in Agents0(c) /\ AgentWritten(e, x, f, h) = {}
                         /\ d.agents.entries[x][f] = c.agents.entries[x][f]
                      \/ /\ x \in Mentions(e) /\ x \in Held(d, "panes")
                         /\ d.agents.entries[x][f] = d.panes.entries[x][f]
      BY DEF Repeats
  <2>1. x \in DOMAIN q.entries /\ d.agents.entries[x] = q.entries[x]
      BY <1>11
  <2>2. CASE x \in Agents0(c) /\ q.entries[x] = c.agents.entries[x]
      BY <1>17, <2>1, <2>2
  <2>3. CASE x = p.id /\ q.entries[x] = a
    <3>1. d.agents.entries[x][f] = d.panes.entries[x][f]
        BY <1>4, <1>18, <2>1, <2>3
    <3> QED
        BY <1>16, <1>18, <2>3, <3>1
  <2> QED
      BY <1>7, <2>1, <2>2, <2>3
<1>20. \A x \in Agents0(d) : AgentShaped(d.agents.entries[x], x, h)
    BY <1>9, <1>11
<1> QED
    BY <1>15, <1>19, <1>20 DEF Staffs

\* The containers a move may make.
LEMMA MayAddPart ==
    ASSUME NEW X \in Ordered, NEW o, NEW e, NEW h, NEW r, NEW p, FaithfulTo(X, o, h),
           Genuine(e, h), e.type = "PaneMoved", Puts(e, X) = {r} \ {Absent},
           \A id : ~Closes(e, X, id, h), p = MayAdd(o, r)
    PROVE  Part(X, o, p, e, h)
<1>1. \A g : ~Reorders(e, X, g)
    BY DEF Reorders
<1>2. \A id, f : Written(e, X, id, f, h) = {q[f] : q \in {z \in Puts(e, X) : Key(X, z) = id}}
    BY DEF Written, Ordered
<1>3. CASE r = Absent
  <2>1. Puts(e, X) = {} /\ p = o
      BY <1>3 DEF MayAdd
  <2>2. \A id, f : Written(e, X, id, f, h) = {}
      BY <1>2, <2>1
  <2>3. Silent(e, X, h)
      BY <1>1, <2>1, <2>2 DEF Silent
  <2> QED
      BY <2>1, <2>3, StillPart
<1>4. CASE r # Absent
  <2>1. Puts(e, X) = {r} /\ p = Set(o, r.id, r)
      BY <1>4 DEF MayAdd
  <2>2. Only(e, X, h)
      BY <1>1, <1>2 DEF Only
  <2>3. Good(X, r, h)
      BY <2>1 DEF Genuine, Kinds, Ordered
  <2>4. r.id = Key(X, r)
      BY DEF Key, Ordered
  <2>5. PICK id : id = r.id
      OBVIOUS
  <2>6. Part(X, o, Set(o, id, r), e, h)
      BY <2>1, <2>2, <2>3, <2>4, <2>5, SetPart
  <2> QED
      BY <2>1, <2>5, <2>6
<1> QED
    BY <1>3, <1>4

\* What is held by the tab that the move closed.
LEMMA LeaveIdPart ==
    ASSUME NEW X \in {"tabs", "layouts"}, NEW o, NEW e, NEW h, NEW p, FaithfulTo(X, o, h),
           Genuine(e, h), e.type = "PaneMoved", Puts(e, X) = {}, p = LeaveId(o, e.closedTab)
    PROVE  Part(X, o, p, e, h)
<1>1. \A g : ~Reorders(e, X, g)
    BY DEF Reorders
<1>2. \A id, f : Written(e, X, id, f, h) = {}
  <2>1. \A id, f : Written(e, X, id, f, h) = {q[f] : q \in {z \in Puts(e, X) : Key(X, z) = id}}
    <3>1. CASE X = "tabs"
        BY <3>1 DEF Written
    <3>2. CASE X = "layouts"
        BY <3>2 DEF Written
    <3> QED
        BY <3>1, <3>2
  <2> QED
      BY <2>1
<1>3. \A id : Closes(e, X, id, h) <=> e.closedTab # Absent /\ e.closedTab = id
    BY DEF Closes
<1>4. CASE e.closedTab = Absent
  <2>1. Silent(e, X, h)
      BY <1>1, <1>2, <1>3, <1>4 DEF Silent
  <2>2. p = o
      BY <1>4 DEF LeaveId
  <2> QED
      BY <2>1, <2>2, StillPart
<1>5. CASE e.closedTab # Absent
  <2>1. PICK set : set = DOMAIN o.entries \ {e.closedTab}
      OBVIOUS
  <2>2. p = Keep(o, set)
      BY <1>5, <2>1 DEF LeaveId, Delete
  <2>3. \A id \in DOMAIN o.entries : id \in set <=> ~Closes(e, X, id, h)
      BY <1>3, <1>5, <2>1
  <2>4. Part(X, o, Keep(o, set), e, h)
      BY <1>1, <1>2, <2>3, KeepPart
  <2> QED
      BY <2>2, <2>4
<1> QED
    BY <1>4, <1>5

\* pane.moved.
LEMMA PaneMovedReduces ==
    ASSUME NEW c, NEW e, NEW h, Faithful(c, h), Genuine(e, h), e.type = "PaneMoved"
    PROVE  Reduces(c, e, apply(c, e), h)
<1>1. PICK d : d = apply(c, e)
    OBVIOUS
<1>2. SoundCache(d)
    BY <1>1, AppliedSound
<1>3. /\ d.workspaces = MayAdd(c.workspaces, e.createdWorkspace)
      /\ d.tabs = LeaveId(MayAdd(c.tabs, e.createdTab), e.closedTab)
      /\ d.panes = LeaveTab(Rekeyed(c.panes, e.previous, e.pane.id, e.pane), e.closedTab)
      /\ d.agents = LeaveTab(Follow(c.agents, e), e.closedTab)
      /\ d.layouts = LeaveId(c.layouts, e.closedTab)
  <2>1. SoundCache(c)
      BY DEF Faithful
  <2>2. Moved(movePane(c, e), c, e)
      BY ONLY <2>1, MovePaneParts
  <2>3. d = movePane(c, e)
      BY <1>1 DEF apply
  <2>4. e.closedWorkspace = Absent
      BY MovedSays
  <2> QED
      BY <2>2, <2>3, <2>4 DEF Moved, LeaveId, LeaveWorkspace
<1>4. /\ FaithfulTo("workspaces", c.workspaces, h) /\ FaithfulTo("tabs", c.tabs, h)
      /\ FaithfulTo("panes", c.panes, h) /\ FaithfulTo("layouts", c.layouts, h)
  <2>1. \A X \in Kinds : FaithfulTo(X, c[X], h)
      BY FaithfulParts
  <2> QED
      BY <2>1 DEF Kinds
<1>5. Part("workspaces", c.workspaces, d.workspaces, e, h)
  <2>1. Puts(e, "workspaces") = {e.createdWorkspace} \ {Absent}
      BY DEF Puts
  <2>2. \A id : ~Closes(e, "workspaces", id, h)
      BY DEF Closes
  <2>3. PICK r : r = e.createdWorkspace
      OBVIOUS
  <2> QED
      BY <1>3, <1>4, <2>1, <2>2, <2>3, MayAddPart DEF Ordered
<1>6. Part("tabs", c.tabs, d.tabs, e, h)
  <2>1. Puts(e, "tabs") = {e.createdTab} \ {Absent}
      BY DEF Puts, EventTabs
  <2>2. CASE e.closedTab = Absent
    <3>1. \A id : ~Closes(e, "tabs", id, h)
        BY <2>2 DEF Closes
    <3>2. d.tabs = MayAdd(c.tabs, e.createdTab)
        BY <1>3, <2>2 DEF LeaveId
    <3>3. PICK r : r = e.createdTab
        OBVIOUS
    <3> QED
        BY <1>4, <2>1, <3>1, <3>2, <3>3, MayAddPart DEF Ordered
  <2>3. CASE e.closedTab # Absent
    <3>1. e.createdTab = Absent
        BY <2>3, MovedSays
    <3>2. Puts(e, "tabs") = {} /\ d.tabs = LeaveId(c.tabs, e.closedTab)
        BY <1>3, <2>1, <3>1 DEF MayAdd
    <3> QED
        BY <1>4, <3>2, LeaveIdPart
  <2> QED
      BY <2>2, <2>3
<1>7. Part("layouts", c.layouts, d.layouts, e, h)
  <2>1. Puts(e, "layouts") = {}
      BY DEF Puts
  <2> QED
      BY <1>3, <1>4, <2>1, LeaveIdPart
<1>8. /\ Part("panes", c.panes, d.panes, e, h)
      /\ e.pane.id \in DOMAIN d.panes.entries /\ d.panes.entries[e.pane.id] = e.pane
    BY <1>3, <1>4, MovedPanes
<1>9. Staffs(c, e, d, h)
  <2>1. e.pane.id \in Held(d, "panes")
      BY <1>8 DEF Held
  <2> QED
      BY <1>3, <1>8, <2>1, MovedStaffs
<1>10. \A X \in Kinds : Part(X, c[X], d[X], e, h)
    BY <1>5, <1>6, <1>7, <1>8 DEF Kinds
<1>11. Reduces(c, e, d, h)
    BY <1>2, <1>9, <1>10, ReduceParts
<1> QED
    BY <1>1, <1>11

\* sessionCache.apply, whatever the event.
LEMMA ApplyReduces ==
    ASSUME NEW c, NEW e, NEW h, Faithful(c, h), Genuine(e, h)
    PROVE  Reduces(c, e, apply(c, e), h)
<1>1. e.type \in EventTypes
    BY DEF Genuine
<1>2. CASE e.type \in {"WorkspaceSet", "TabCreated", "LayoutUpdated"}
    BY <1>2, RecordReduces
<1>3. CASE e.type \in {"WorkspaceRenamed", "WorkspaceFocused"}
  <2>1. e.type \in {Renames("workspaces"), Focuses("workspaces")} /\ "workspaces" \in Ordered
      BY <1>3 DEF Renames, Focuses, Ordered
  <2> QED
      BY <2>1, FieldReduces
<1>4. CASE e.type \in {"TabRenamed", "TabFocused"}
  <2>1. e.type \in {Renames("tabs"), Focuses("tabs")} /\ "tabs" \in Ordered
      BY <1>4 DEF Renames, Focuses, Ordered
  <2> QED
      BY <2>1, FieldReduces
<1>5. CASE e.type = "WorkspaceMoved"
    BY <1>5, WorkspaceMovedReduces
<1>6. CASE e.type = "TabMoved"
    BY <1>6, TabMovedReduces
<1>7. CASE e.type = "WorkspaceClosed"
    BY <1>7, WorkspaceClosedReduces
<1>8. CASE e.type = "TabClosed"
    BY <1>8, TabClosedReduces
<1>9. CASE e.type = "PaneClosed"
    BY <1>9, PaneClosedReduces
<1>10. CASE e.type = "PaneSet"
    BY <1>10, PaneSetReduces
<1>11. CASE e.type = "PaneMoved"
    BY <1>11, PaneMovedReduces
<1>12. CASE e.type = "PaneFocused"
    BY <1>12, PaneFocusedReduces
<1>13. CASE e.type = "PaneRevised"
    BY <1>13, PaneRevisedReduces
<1>14. CASE e.type = "PaneAgentDetected"
    BY <1>14, DetectedReduces
<1>15. CASE e.type = "PaneAgentStatusChanged"
    BY <1>15, StatusReduces
<1> QED
    BY <1>1, <1>2, <1>3, <1>4, <1>5, <1>6, <1>7, <1>8, <1>9, <1>10, <1>11, <1>12, <1>13,
       <1>14, <1>15 DEF EventTypes

\* reset, from a list whose ids are distinct: its records, in its order.
LEMMA ResetHolds ==
    ASSUME NEW ids, NEW v, NEW p, IsList(ids), Distinct(ids), p = Reset(ids, v)
    PROVE  /\ p.ids = ids /\ DOMAIN p.entries = Ids(ids)
           /\ \A i \in 1..Len(ids) : p.entries[ids[i]] = v[i]
<1>1. ids \in Seq(Ids(ids)) /\ Len(ids) \in Nat
    BY DEF IsList
<1>2. PICK q : q = Empty
    OBVIOUS
<1>3. q.ids = <<>> /\ DOMAIN q.entries = {}
    BY <1>2 DEF Empty
<1>4. Fresh(q, ids) = ids
  <2>1. Ids(ids) \cap DOMAIN q.entries = {}
      BY <1>3
  <2> QED
      BY <2>1, FreshAll
<1>5. p = [ids |-> Splice(q.ids, Fresh(q, ids), Place(q, 0)), entries |-> Merged(q, ids, v)]
    BY <1>2, InsertParts DEF Reset
<1>6. Place(q, 0) = 0
    BY <1>3 DEF Place
<1>7. p.ids = Splice(<<>>, ids, 0) /\ p.entries = Merged(q, ids, v)
    BY <1>3, <1>4, <1>5, <1>6
<1>8. Splice(<<>>, ids, 0) = ids
  <2>1. SubSeq(<<>>, 1, 0) = <<>>
      OBVIOUS
  <2>2. PICK e : e = <<>>
      OBVIOUS
  <2>3. Splice(e, ids, 0) = SubSeq(e, 1, 0) \o ids \o SubSeq(e, 0 + 1, Len(e))
      BY ONLY DEF Splice
  <2>4. Len(e) = 0 /\ 0 + 1 = 1 /\ SubSeq(e, 1, 0) = e
      BY <2>1, <2>2
  <2>5. Splice(e, ids, 0) = e \o ids \o e
      BY ONLY <2>3, <2>4
  <2>6. e \o ids = ids /\ ids \o e = ids
      BY <1>1, <2>2
  <2> QED
      BY <2>2, <2>5, <2>6
<1>9. Holds(Merged(q, ids, v), q, ids, v)
    BY <1>1, MergedFacts
<1>10. DOMAIN p.entries = Ids(ids)
    BY <1>3, <1>7, <1>9 DEF Holds
<1>11. ASSUME NEW i \in 1..Len(ids)
       PROVE  p.entries[ids[i]] = v[i]
  <2>1. ids[i] \in Ids(ids)
      BY DEF Ids
  <2>2. PICK k \in 1..Len(ids) : ids[k] = ids[i] /\ p.entries[ids[i]] = v[k]
      BY <1>7, <1>9, <2>1 DEF Holds
  <2>3. k = i
      BY <2>2 DEF Distinct
  <2> QED
      BY <2>2, <2>3
<1> QED
    BY <1>7, <1>8, <1>10, <1>11

\* A list of the records of a set with distinct ids.
LEMMA ListedHolds ==
    ASSUME NEW v, NEW R, NEW p, IsList(v), Ids(v) = R, Distinct(v),
           \A r, q \in R : r.id = q.id => r = q, p = Reset(IdsOf(v), v)
    PROVE  /\ p.ids = IdsOf(v) /\ DOMAIN p.entries = {r.id : r \in R}
           /\ \A r \in R : p.entries[r.id] = r
<1>1. /\ IsList(IdsOf(v)) /\ Len(IdsOf(v)) = Len(v)
      /\ \A i \in 1..Len(v) : IdsOf(v)[i] = v[i].id
      /\ Ids(IdsOf(v)) = {r.id : r \in R}
    BY IdsOfFacts
<1>2. Distinct(IdsOf(v))
  <2>1. \A i \in 1..Len(v) : v[i] \in R
      BY DEF Ids
  <2> QED
      BY <1>1, <2>1 DEF Distinct
<1>3. PICK ids : ids = IdsOf(v)
    OBVIOUS
<1>4. /\ p.ids = ids /\ DOMAIN p.entries = Ids(ids)
      /\ \A i \in 1..Len(ids) : p.entries[ids[i]] = v[i]
    BY <1>1, <1>2, <1>3, ResetHolds
<1>5. \A r \in R : p.entries[r.id] = r
  <2> TAKE r \in R
  <2>1. PICK i \in 1..Len(v) : v[i] = r
      BY DEF Ids
  <2> QED
      BY <1>1, <1>3, <1>4, <2>1
<1> QED
    BY <1>1, <1>3, <1>4, <1>5

\* The layouts, held by their tabs.
LEMMA LayoutsListed ==
    ASSUME NEW v, NEW R, NEW p, IsList(v), Ids(v) = R, Distinct(v),
           \A r, q \in R : r.tab = q.tab => r = q,
           p = Reset([i \in DOMAIN v |-> v[i].tab], v)
    PROVE  /\ DOMAIN p.entries = {r.tab : r \in R}
           /\ \A r \in R : p.entries[r.tab] = r
<1>1. DOMAIN v = 1..Len(v) /\ Len(v) \in Nat
    BY DEF IsList
<1>2. PICK ids : ids = [i \in DOMAIN v |-> v[i].tab]
    OBVIOUS
<1>3. IsList(ids) /\ Len(ids) = Len(v) /\ \A i \in 1..Len(v) : ids[i] = v[i].tab
  <2>1. PICK T : T = {v[i].tab : i \in 1..Len(v)}
      OBVIOUS
  <2>2. ids \in Seq(T) /\ Len(ids) = Len(v) /\ \A i \in 1..Len(v) : ids[i] = v[i].tab
      BY <1>1, <1>2, <2>1
  <2> QED
      BY <2>2, SeqIsList
<1>4. \A i \in 1..Len(v) : v[i] \in R
    BY DEF Ids
<1>5. Distinct(ids)
    BY <1>3, <1>4 DEF Distinct
<1>6. /\ DOMAIN p.entries = Ids(ids) /\ \A i \in 1..Len(ids) : p.entries[ids[i]] = v[i]
  <2>1. p = Reset(ids, v)
      BY <1>2
  <2> QED
      BY ONLY <1>3, <1>5, <2>1, ResetHolds
<1>7. Ids(ids) = {r.tab : r \in R}
    BY <1>3, <1>4 DEF Ids
<1>8. \A r \in R : p.entries[r.tab] = r
  <2> TAKE r \in R
  <2>1. PICK i \in 1..Len(v) : v[i] = r
      BY DEF Ids
  <2> QED
      BY <1>3, <1>6, <2>1
<1> QED
    BY <1>6, <1>7, <1>8

\* A cache that holds what the server has.
Presents(X, c, s) ==
    /\ Held(c, X) = {Key(X, r) : r \in Recs(s, X)}
    /\ \A r \in Recs(s, X) : c[X].entries[Key(X, r)] = r
    /\ X \in Ordered => c[X].ids = IdsOf(s[X])
\* The mirror holds the agents that run, with the fields and the name the snapshot
\* says.
PresentsAgents(c, s) ==
    /\ \A id : id \in Agents0(c) <=> Running(s, id)
    /\ \A p \in s.panes : Running(s, p.id) => c.agents.entries[p.id] = AgentOf(p, s.names)

\* newSessionCache of a snapshot holds what the server has, in its order.
LEMMA SnapshotPresents ==
    ASSUME NEW s, NEW h, NEW c, Lawful(s, h), IsFiniteSet(s.panes), IsFiniteSet(s.layouts),
           IsFiniteSet(AgentsOf(s)), c = newSessionCache(SnapshotOf(s))
    PROVE  /\ \A X \in Kinds : Presents(X, c, s)
           /\ PresentsAgents(c, s) /\ SoundCache(c)
<1>1. PICK vp, va, vl : /\ vp = S!SetToSeq(s.panes) /\ va = S!SetToSeq(AgentsOf(s))
                        /\ vl = S!SetToSeq(s.layouts)
    OBVIOUS
<1>2. /\ IsList(vp) /\ Ids(vp) = s.panes /\ Distinct(vp)
      /\ IsList(va) /\ Ids(va) = AgentsOf(s) /\ Distinct(va)
      /\ IsList(vl) /\ Ids(vl) = s.layouts /\ Distinct(vl)
  <2>1. IsList(vp) /\ Ids(vp) = s.panes /\ Distinct(vp)
      BY <1>1, SetToSeqFacts
  <2>2. IsList(va) /\ Ids(va) = AgentsOf(s) /\ Distinct(va)
    <3>1. PICK A : A = AgentsOf(s)
        OBVIOUS
    <3> QED
        BY <1>1, <3>1, SetToSeqFacts
  <2>3. IsList(vl) /\ Ids(vl) = s.layouts /\ Distinct(vl)
      BY <1>1, SetToSeqFacts
  <2> QED
      BY <2>1, <2>2, <2>3
<1>3. /\ c.workspaces = Reset(IdsOf(s.workspaces), s.workspaces)
      /\ c.tabs = Reset(IdsOf(s.tabs), s.tabs)
      /\ c.panes = Reset(IdsOf(vp), vp) /\ c.agents = Reset(IdsOf(va), va)
      /\ c.layouts = Reset([i \in DOMAIN vl |-> vl[i].tab], vl)
      /\ DOMAIN c = {"workspaces", "tabs", "panes", "agents", "layouts"}
      /\ c = [part \in DOMAIN c |-> c[part]]
    BY <1>1 DEF newSessionCache, SnapshotOf
<1>4. \A X \in Ordered : IsList(s[X]) /\ Distinct(IdsOf(s[X])) /\ Recs(s, X) = Ids(s[X])
    BY DEF Lawful, Recs
<1>5. \A X \in Ordered : Presents(X, c, s)
  <2> TAKE X \in Ordered
  <2>1. PICK v : v = s[X]
      OBVIOUS
  <2>2. PICK ids : ids = IdsOf(v)
      OBVIOUS
  <2>3. /\ IsList(ids) /\ Len(ids) = Len(v) /\ \A i \in 1..Len(v) : ids[i] = v[i].id
        /\ Ids(ids) = {r.id : r \in Ids(v)}
      BY <1>4, <2>1, <2>2, IdsOfFacts
  <2>4. c[X] = Reset(ids, v)
    <3>1. CASE X = "workspaces"
        BY <1>3, <2>1, <2>2, <3>1
    <3>2. CASE X = "tabs"
        BY <1>3, <2>1, <2>2, <3>2
    <3> QED
        BY <3>1, <3>2 DEF Ordered
  <2>5. PICK p : p = c[X]
      OBVIOUS
  <2>6. /\ p.ids = ids /\ DOMAIN p.entries = Ids(ids)
        /\ \A i \in 1..Len(ids) : p.entries[ids[i]] = v[i]
    <3>1. Distinct(ids) /\ p = Reset(ids, v)
        BY <1>4, <2>1, <2>2, <2>4, <2>5
    <3> QED
        BY <2>3, <3>1, ResetHolds
  <2>7. \A r : Key(X, r) = r.id
      BY DEF Key, Ordered
  <2>8. \A r \in Ids(v) : p.entries[r.id] = r
      BY <2>3, <2>6 DEF Ids
  <2>9. Recs(s, X) = Ids(v)
      BY <1>4, <2>1
  <2>10. Held(c, X) = {Key(X, r) : r \in Recs(s, X)}
      BY <2>3, <2>5, <2>6, <2>7, <2>9 DEF Held
  <2> QED
      BY <2>1, <2>2, <2>5, <2>6, <2>7, <2>8, <2>9, <2>10 DEF Presents
<1>6. /\ \A r, q \in s.panes : r.id = q.id => r = q
      /\ \A r, q \in s.layouts : r.tab = q.tab => r = q
  <2>1. \A X \in Kinds : \A r, q \in Recs(s, X) : Key(X, r) = Key(X, q) => r = q
      BY DEF Lawful
  <2>2. /\ Recs(s, "panes") = s.panes /\ Recs(s, "layouts") = s.layouts
        /\ \A r : Key("panes", r) = r.id /\ Key("layouts", r) = r.tab
      BY DEF Recs, Key, Ordered
  <2> QED
      BY <2>1, <2>2 DEF Kinds
<1>7. Presents("panes", c, s)
  <2>1. /\ DOMAIN c.panes.entries = {r.id : r \in s.panes}
        /\ \A r \in s.panes : c.panes.entries[r.id] = r
    <3>1. PICK p : p = c.panes
        OBVIOUS
    <3>2. p = Reset(IdsOf(vp), vp)
        BY <1>3, <3>1
    <3>3. /\ DOMAIN p.entries = {r.id : r \in s.panes}
          /\ \A r \in s.panes : p.entries[r.id] = r
        BY <1>2, <1>6, <3>2, ListedHolds
    <3> QED
        BY <3>1, <3>3
  <2> QED
      BY <2>1 DEF Presents, Held, Key, Recs, Ordered
<1>8. Presents("layouts", c, s)
  <2>1. /\ DOMAIN c.layouts.entries = {r.tab : r \in s.layouts}
        /\ \A r \in s.layouts : c.layouts.entries[r.tab] = r
    <3>1. PICK p : p = c.layouts
        OBVIOUS
    <3>2. p = Reset([i \in DOMAIN vl |-> vl[i].tab], vl)
        BY <1>3, <3>1
    <3>3. /\ DOMAIN p.entries = {r.tab : r \in s.layouts}
          /\ \A r \in s.layouts : p.entries[r.tab] = r
        BY <1>2, <1>6, <3>2, LayoutsListed
    <3> QED
        BY <3>1, <3>3
  <2> QED
      BY <2>1 DEF Presents, Held, Key, Recs, Ordered
<1>9. PresentsAgents(c, s)
  <2>1. \A a \in AgentsOf(s) : \E p \in s.panes :
            p.agent # Absent /\ a = AgentOf(p, s.names) /\ a.id = p.id
      BY DEF AgentsOf, AgentOf
  <2>2. \A p \in s.panes : p.agent # Absent
            => AgentOf(p, s.names) \in AgentsOf(s) /\ AgentOf(p, s.names).id = p.id
      BY DEF AgentsOf, AgentOf
  <2>3. \A a, b \in AgentsOf(s) : a.id = b.id => a = b
    <3> TAKE a, b \in AgentsOf(s)
    <3>1. PICK p \in s.panes : a = AgentOf(p, s.names) /\ a.id = p.id
        BY <2>1
    <3>2. PICK q \in s.panes : b = AgentOf(q, s.names) /\ b.id = q.id
        BY <2>1
    <3> QED
        BY <1>6, <3>1, <3>2
  <2>4. PICK o : o = c.agents
      OBVIOUS
  <2>5. PICK A : A = AgentsOf(s)
      OBVIOUS
  <2>6. DOMAIN o.entries = {a.id : a \in A} /\ \A a \in A : o.entries[a.id] = a
    <3>1. o = Reset(IdsOf(va), va)
        BY <1>3, <2>4
    <3> QED
        BY <1>2, <2>3, <2>5, <3>1, ListedHolds
  <2>7. \A id : id \in Agents0(c) <=> Running(s, id)
    <3> TAKE id
    <3>1. ASSUME id \in Agents0(c) PROVE Running(s, id)
      <4>1. PICK a \in A : id = a.id
          BY <2>4, <2>6, <3>1 DEF Agents0
      <4> QED
          BY <2>1, <2>5, <4>1 DEF Running
    <3>2. ASSUME Running(s, id) PROVE id \in Agents0(c)
      <4>1. PICK p \in s.panes : p.id = id /\ p.agent # Absent
          BY <3>2 DEF Running
      <4>2. AgentOf(p, s.names) \in A /\ AgentOf(p, s.names).id = id
          BY <2>2, <2>5, <4>1
      <4> QED
          BY <2>4, <2>6, <4>2 DEF Agents0
    <3> QED
        BY <3>1, <3>2
  <2>8. ASSUME NEW p \in s.panes, Running(s, p.id)
        PROVE  c.agents.entries[p.id] = AgentOf(p, s.names)
    <3>1. p.agent # Absent
        BY <1>6, <2>8 DEF Running
    <3>2. PICK a : a = AgentOf(p, s.names)
        OBVIOUS
    <3>3. a \in A /\ a.id = p.id
        BY <2>2, <2>5, <3>1, <3>2
    <3> QED
        BY <2>4, <2>6, <3>2, <3>3
  <2> QED
      BY <2>7, <2>8 DEF PresentsAgents
<1>10. SoundCache(c)
  <2>1. \A v : IsList(v) => Sound(Reset(IdsOf(v), v)) /\ Sound(Reset([i \in DOMAIN v |-> v[i].tab], v))
      BY ListReset
  <2>2. IsList(s.workspaces) /\ IsList(s.tabs)
      BY <1>4 DEF Ordered
  <2> QED
      BY <1>2, <1>3, <2>1, <2>2 DEF SoundCache
<1> QED
    BY <1>5, <1>7, <1>8, <1>9, <1>10 DEF Kinds, Ordered

\* bootstrapSession: a cache made from the server's state awaits nothing of it.
LEMMA BootstrapAwaits ==
    ASSUME NEW s, NEW l, NEW h, NEW c, Past(s, l, h, {}),
           IsFiniteSet(s.panes), IsFiniteSet(s.layouts), IsFiniteSet(AgentsOf(s)),
           c = newSessionCache(SnapshotOf(s))
    PROVE  Awaits(s, l, h, c, 0, Len(l))
<1>1. Lawful(s, h) /\ AllGenuine(l, h) /\ ClosedGone(s, l, h) /\ Len(l) \in Nat
    BY DEF Past, AllGenuine, IsList
<1>2. (\A X \in Kinds : Presents(X, c, s)) /\ PresentsAgents(c, s) /\ SoundCache(c)
    BY <1>1, SnapshotPresents
<1>3. /\ \A X \in Kinds : \A r \in Recs(s, X) : Good(X, r, h)
      /\ Homes(h) /\ \A p, q \in s.panes : p.id = q.id => p = q
  <2>1. Recs(s, "panes") = s.panes /\ \A r : Key("panes", r) = r.id
      BY DEF Recs, Key, Ordered
  <2>2. \A X \in Kinds : \A r, q \in Recs(s, X) : Key(X, r) = Key(X, q) => r = q
      BY <1>1 DEF Lawful
  <2> QED
      BY <1>1, <2>1, <2>2 DEF Lawful, Kinds
<1>4. \A X \in Kinds : \A id : id \in Held(c, X) <=> Alive(s, X, id)
    BY <1>2 DEF Presents, Alive
<1>5. /\ \A X \in Kinds : \A r \in Recs(s, X) : c[X].entries[Key(X, r)] = r
      /\ \A X \in Ordered : c[X].ids = IdsOf(s[X])
    BY <1>2 DEF Presents, Kinds, Ordered
<1>6. \A id : Running(s, id) => Alive(s, "panes", id)
    BY DEF Running, Alive, Recs, Key, Ordered
<1>7. \A p \in s.panes : Good("panes", p, h)
    BY <1>3 DEF Recs, Kinds, Ordered
<1>8. ASSUME NEW id \in Agents0(c)
      PROVE  \E p \in s.panes : /\ p.id = id /\ p.agent # Absent /\ Good("panes", p, h)
                                /\ c.agents.entries[id] = AgentOf(p, s.names)
  <2>1. Running(s, id)
      BY <1>2, <1>8 DEF PresentsAgents
  <2>2. PICK p \in s.panes : p.id = id /\ p.agent # Absent
      BY <2>1 DEF Running
  <2>3. c.agents.entries[id] = AgentOf(p, s.names)
      BY <1>2, <2>1, <2>2 DEF PresentsAgents
  <2> QED
      BY <1>7, <2>2, <2>3
<1>9. Faithful(c, h)
  <2>1. ASSUME NEW X \in Kinds, NEW id \in Held(c, X)
        PROVE  Good(X, c[X].entries[id], h) /\ Key(X, c[X].entries[id]) = id
    <3>1. PICK r \in Recs(s, X) : Key(X, r) = id
        BY <1>4, <2>1 DEF Alive
    <3> QED
        BY <1>3, <1>5, <3>1
  <2>2. Agents0(c) \subseteq Held(c, "panes")
      BY <1>2, <1>4, <1>6 DEF PresentsAgents, Kinds
  <2>3. ASSUME NEW id \in Agents0(c)
        PROVE  AgentShaped(c.agents.entries[id], id, h)
    <3>1. PICK p \in s.panes : /\ p.id = id /\ Good("panes", p, h)
                               /\ c.agents.entries[id] = AgentOf(p, s.names)
        BY <1>8, <2>3
    <3>2. p.focused \in BOOLEAN /\ p.tab = h.pane[p.id] /\ p.ws = h.tab[p.tab]
        BY <3>1 DEF Good
    <3>3. PICK a : a = AgentOf(p, s.names)
        OBVIOUS
    <3>4. /\ a.id = p.id /\ a.tab = p.tab /\ a.ws = p.ws /\ a.focused = p.focused
          /\ a = [id |-> a.id, tab |-> a.tab, ws |-> a.ws, focused |-> a.focused,
                  agent |-> a.agent, display |-> a.display, status |-> a.status,
                  rev |-> a.rev, name |-> a.name]
        BY <3>3 DEF AgentOf
    <3>5. AgentShaped(a, id, h)
        BY <3>1, <3>2, <3>4 DEF AgentShaped
    <3> QED
        BY <3>1, <3>3, <3>5
  <2> QED
      BY <1>2, <2>1, <2>2, <2>3 DEF Faithful
<1>10. Coming(s, l, c, 0) /\ Going(s, l, h, c, 0) /\ PanesComing(s, l, c, 0)
    BY <1>4 DEF Coming, Going, PanesComing, Kinds
<1>11. Current(s, l, h, c, 0)
    BY <1>5 DEF Current
<1>12. Behind(Len(l), l) = {}
    BY <1>1 DEF Behind
<1>13. PanesKnown(l, c, 0, Len(l)) /\ CarriedComing(l, c, 0, Len(l))
    BY <1>12 DEF PanesKnown, CarriedComing
<1>14. AgentsComing(s, l, c, 0, Len(l)) /\ AgentsGoing(s, l, h, c, 0)
    BY <1>2 DEF AgentsComing, AgentsGoing, PresentsAgents
<1>15. BareGoing(l, c, 0)
  <2> SUFFICES ASSUME NEW k \in Behind(0, l), l[k].type = "PaneMoved",
                      l[k].previous \in Agents0(c)
               PROVE  FALSE
      BY DEF BareGoing
  <2>1. k \in 1..Len(l)
      BY <1>1 DEF Behind
  <2>2. Closes(l[k], "panes", l[k].previous, h)
      BY DEF Closes
  <2>3. Alive(s, "panes", l[k].previous)
      BY <1>2, <1>6 DEF PresentsAgents
  <2>4. Genuine(l[k], h)
      BY <1>1, <2>1 DEF AllGenuine
  <2>5. l[k].previous \in Made("panes", h)
      BY <2>4 DEF Genuine, Mentions, Made
  <2> QED
      BY <1>1, <2>1, <2>2, <2>3, <2>5 DEF ClosedGone, Kinds
<1>16. AgentsCurrent(s, l, h, c, 0)
  <2> SUFFICES ASSUME NEW p \in s.panes, NEW f \in Fields("panes"), p.id \in Agents0(c)
               PROVE  c.agents.entries[p.id][f] = p[f]
      BY DEF AgentsCurrent
  <2>1. c.agents.entries[p.id] = AgentOf(p, s.names)
      BY <1>3, <1>8
  <2>2. f \in {"focused", "agent", "display", "status", "rev"}
      BY DEF Fields, Ordered
  <2>3. AgentOf(p, s.names)[f] = p[f]
      BY <2>2 DEF AgentOf
  <2> QED
      BY <2>1, <2>3
<1>17. OrderKept(s, l, h, c, 0)
  <2> SUFFICES ASSUME NEW X \in Ordered, NEW x, NEW y, Pair(s, X, x, y, h),
                      y \notin Held(c, X) \/ Precedes(c[X].ids, x, y)
               PROVE  Precedes(IdsOf(s[X]), x, y)
      BY DEF OrderKept
  <2>1. y \in Held(c, X)
      BY <1>4 DEF Pair, Kinds, Ordered
  <2> QED
      BY <1>5, <2>1
<1> QED
    BY <1>1, <1>9, <1>10, <1>11, <1>13, <1>14, <1>15, <1>16, <1>17 DEF Awaits

\* The range of a list is its ids.
LEMMA RangeIsIds ==
    ASSUME NEW s, IsList(s)
    PROVE  S!Range(s) = Ids(s) /\ DOMAIN s = 1..Len(s)
<1>1. DOMAIN s = 1..Len(s)
    BY DEF IsList
<1> QED
    BY <1>1 DEF S!Range, Ids

\* A list with each element once.
LEMMA DistinctList ==
    ASSUME NEW X, NEW s \in Seq(X), \A i, j \in DOMAIN s : s[i] = s[j] => i = j
    PROVE  IsList(s) /\ Distinct(s)
<1>1. DOMAIN s = 1..Len(s)
    OBVIOUS
<1> QED
    BY <1>1, SeqIsList DEF Distinct

\* A list in which each id names one record.
LEMMA UniqueIds ==
    ASSUME NEW s, IsList(s), \A i, j \in DOMAIN s : s[i].id = s[j].id => i = j
    PROVE  /\ Distinct(IdsOf(s))
           /\ \A r, q \in Ids(s) : r.id = q.id => r = q
<1>1. DOMAIN s = 1..Len(s)
    BY DEF IsList
<1>2. Len(IdsOf(s)) = Len(s) /\ \A i \in 1..Len(s) : IdsOf(s)[i] = s[i].id
    BY IdsOfFacts
<1>3. Distinct(IdsOf(s))
    BY <1>1, <1>2 DEF Distinct
<1>4. \A r, q \in Ids(s) : r.id = q.id => r = q
  <2> TAKE r, q \in Ids(s)
  <2>1. PICK i \in 1..Len(s) : s[i] = r
      BY DEF Ids
  <2>2. PICK j \in 1..Len(s) : s[j] = q
      BY DEF Ids
  <2> QED
      BY <1>1, <2>1, <2>2
<1> QED
    BY <1>3, <1>4

\* Where the server's records are to begin with.
HomesOf(s) ==
    [ws |-> {w.id : w \in Ids(s.workspaces)},
     tab |-> [x \in {r.id : r \in Ids(s.tabs)} |-> (CHOOSE r \in Ids(s.tabs) : r.id = x).ws],
     pane |-> [x \in {p.id : p \in s.panes} |-> (CHOOSE p \in s.panes : p.id = x).tab]]

\* What the assumptions on the constants say, in the words of the invariant.
InitialFacts(s) ==
    /\ DOMAIN s = {"workspaces", "tabs", "panes", "names", "layouts",
                   "freshW", "freshT", "freshP"}
    /\ IsList(s.workspaces) /\ IsList(s.tabs)
    /\ Distinct(IdsOf(s.workspaces)) /\ Distinct(IdsOf(s.tabs))
    /\ \A r, q \in Ids(s.workspaces) : r.id = q.id => r = q
    /\ \A r, q \in Ids(s.tabs) : r.id = q.id => r = q
    /\ \A r, q \in s.panes : r.id = q.id => r = q
    /\ \A r, q \in s.layouts : r.tab = q.tab => r = q
\* The records the server starts with, by the assumptions on them.
InitialRecords(s) ==
    /\ \A w \in Ids(s.workspaces) :
          /\ w = [id |-> w.id, label |-> w.label, focused |-> w.focused]
          /\ w.focused \in BOOLEAN
    /\ \A tab \in Ids(s.tabs) :
          /\ tab = [id |-> tab.id, ws |-> tab.ws, label |-> tab.label,
                    focused |-> tab.focused]
          /\ tab.focused \in BOOLEAN
          /\ \E w \in Ids(s.workspaces) : w.id = tab.ws
    /\ \A p \in s.panes :
          /\ p = [id |-> p.id, tab |-> p.tab, ws |-> p.ws, focused |-> p.focused,
                  agent |-> p.agent, display |-> p.display, status |-> p.status,
                  rev |-> p.rev]
          /\ p.focused \in BOOLEAN
          /\ \E tab \in Ids(s.tabs) : tab.id = p.tab /\ tab.ws = p.ws
    /\ \A x \in s.layouts :
          /\ x = [tab |-> x.tab, ws |-> x.ws, focusedPane |-> x.focusedPane]
          /\ \E tab \in Ids(s.tabs) : tab.id = x.tab /\ tab.ws = x.ws

\* The records the server starts with are lists with each id once, and the focus is
\* where one record has it.
LEMMA InitialLists ==
    ASSUME NEW s, s = InitialServer
    PROVE  /\ InitialFacts(s) /\ InitialRecords(s) /\ FocusSole(s)
           /\ S!Range(s.workspaces) = Ids(s.workspaces) /\ S!Range(s.tabs) = Ids(s.tabs)
<1>1. /\ IsList(s.workspaces) /\ IsList(s.tabs)
      /\ DOMAIN s = {"workspaces", "tabs", "panes", "names", "layouts",
                     "freshW", "freshT", "freshP"}
    BY ServerAssumption, SeqIsList
<1>2. S!Range(s.workspaces) = Ids(s.workspaces) /\ S!Range(s.tabs) = Ids(s.tabs)
    BY <1>1, RangeIsIds
<1>3. /\ Distinct(IdsOf(s.workspaces))
      /\ \A r, q \in Ids(s.workspaces) : r.id = q.id => r = q
  <2>1. PICK v : v = s.workspaces
      OBVIOUS
  <2>2. \A i, j \in DOMAIN v : v[i].id = v[j].id => i = j
      BY <2>1, RecordsAssumption
  <2>3. IsList(v)
      BY <1>1, <2>1
  <2>4. Distinct(IdsOf(v)) /\ \A r, q \in Ids(v) : r.id = q.id => r = q
      BY ONLY <2>2, <2>3, UniqueIds
  <2> QED
      BY <2>1, <2>4
<1>4. Distinct(IdsOf(s.tabs)) /\ \A r, q \in Ids(s.tabs) : r.id = q.id => r = q
  <2>1. PICK v : v = s.tabs
      OBVIOUS
  <2>2. \A i, j \in DOMAIN v : v[i].id = v[j].id => i = j
      BY <2>1, TabIdsAssumption
  <2>3. IsList(v)
      BY <1>1, <2>1
  <2>4. Distinct(IdsOf(v)) /\ \A r, q \in Ids(v) : r.id = q.id => r = q
      BY ONLY <2>2, <2>3, UniqueIds
  <2> QED
      BY <2>1, <2>4
<1>5. /\ \A r, q \in s.panes : r.id = q.id => r = q
      /\ \A r, q \in s.layouts : r.tab = q.tab => r = q
    BY RecordsAssumption
<1>6. InitialRecords(s)
    BY <1>2, RecordsAssumption DEF InitialRecords
<1>7. FocusSole(s)
  <2>1. \A R \in {Ids(s.workspaces), Ids(s.tabs), s.panes} :
            \A r, q \in R : r.focused /\ q.focused => r = q
      BY <1>2, RecordsAssumption
  <2> QED
      BY <2>1 DEF FocusSole, Sole
<1> QED
    BY <1>1, <1>2, <1>3, <1>4, <1>5, <1>6, <1>7 DEF InitialFacts

\* The ids the server starts with, and where they were made.
LEMMA InitialHomes ==
    ASSUME NEW s, InitialFacts(s), InitialRecords(s), NEW h, h = HomesOf(s)
    PROVE  /\ h.ws = {w.id : w \in Ids(s.workspaces)}
           /\ DOMAIN h.tab = {r.id : r \in Ids(s.tabs)}
           /\ DOMAIN h.pane = {p.id : p \in s.panes}
           /\ \A r \in Ids(s.tabs) : h.tab[r.id] = r.ws
           /\ \A p \in s.panes : h.pane[p.id] = p.tab
<1>1. /\ h.ws = {w.id : w \in Ids(s.workspaces)}
      /\ DOMAIN h.tab = {r.id : r \in Ids(s.tabs)}
      /\ DOMAIN h.pane = {p.id : p \in s.panes}
    BY DEF HomesOf
<1>2. ASSUME NEW r \in Ids(s.tabs) PROVE h.tab[r.id] = r.ws
  <2>1. PICK q : q = CHOOSE q0 \in Ids(s.tabs) : q0.id = r.id
      OBVIOUS
  <2>2. q \in Ids(s.tabs) /\ q.id = r.id
      BY <2>1
  <2>3. q = r
      BY <2>2 DEF InitialFacts
  <2>4. h.tab[r.id] = (CHOOSE q0 \in Ids(s.tabs) : q0.id = r.id).ws
      BY DEF HomesOf
  <2> QED
      BY <2>1, <2>3, <2>4
<1>3. ASSUME NEW p \in s.panes PROVE h.pane[p.id] = p.tab
  <2>1. PICK q : q = CHOOSE q0 \in s.panes : q0.id = p.id
      OBVIOUS
  <2>2. q \in s.panes /\ q.id = p.id
      BY <2>1
  <2>3. q = p
      BY <2>2 DEF InitialFacts
  <2>4. h.pane[p.id] = (CHOOSE q0 \in s.panes : q0.id = p.id).tab
      BY DEF HomesOf
  <2> QED
      BY <2>1, <2>3, <2>4
<1> QED
    BY <1>1, <1>2, <1>3

\* The records the server starts with are of those ids.
LEMMA InitialLawful ==
    ASSUME NEW s, InitialFacts(s), InitialRecords(s), NEW h, h = HomesOf(s)
    PROVE  Lawful(s, h)
<1>1. /\ h.ws = {w.id : w \in Ids(s.workspaces)}
      /\ DOMAIN h.tab = {r.id : r \in Ids(s.tabs)}
      /\ DOMAIN h.pane = {p.id : p \in s.panes}
      /\ \A r \in Ids(s.tabs) : h.tab[r.id] = r.ws
      /\ \A p \in s.panes : h.pane[p.id] = p.tab
    BY InitialHomes
<1>2. Homes(h)
    BY <1>1 DEF Homes, InitialRecords
<1>3. \A r \in Ids(s.workspaces) : Good("workspaces", r, h)
    BY <1>1 DEF Good, InitialRecords
<1>4. \A r \in Ids(s.tabs) : Good("tabs", r, h)
    BY <1>1 DEF Good, InitialRecords
<1>5. \A r \in s.panes : Good("panes", r, h)
  <2> TAKE r \in s.panes
  <2>1. r.id \in DOMAIN h.pane /\ r.tab = h.pane[r.id] /\ r.ws = h.tab[r.tab]
      BY <1>1 DEF InitialRecords
  <2> QED
      BY <2>1 DEF Good, InitialRecords
<1>6. \A r \in s.layouts : Good("layouts", r, h)
  <2> TAKE r \in s.layouts
  <2>1. r.tab \in DOMAIN h.tab /\ r.ws = h.tab[r.tab]
      BY <1>1 DEF InitialRecords
  <2> QED
      BY <2>1 DEF Good, InitialRecords
<1>7. /\ Recs(s, "workspaces") = Ids(s.workspaces) /\ Recs(s, "tabs") = Ids(s.tabs)
      /\ Recs(s, "panes") = s.panes /\ Recs(s, "layouts") = s.layouts
    BY DEF Recs, Ordered
<1>8. \A X \in Kinds : \A r \in Recs(s, X) : Good(X, r, h)
    BY <1>3, <1>4, <1>5, <1>6, <1>7 DEF Kinds
<1>9. \A X \in Kinds : \A r, q \in Recs(s, X) : Key(X, r) = Key(X, q) => r = q
    BY <1>7 DEF Kinds, Key, InitialFacts
<1>10. \A X \in Ordered : IsList(s[X]) /\ Distinct(IdsOf(s[X]))
    BY DEF Ordered, InitialFacts
<1> QED
    BY <1>2, <1>8, <1>9, <1>10 DEF Lawful

\* An empty log tells the state the server starts with.
LEMMA InitialPast ==
    ASSUME NEW s, NEW h, Lawful(s, h)
    PROVE  Past(s, <<>>, h, {})
<1>1. PICK l : l = <<>>
    OBVIOUS
<1>2. IsList(l) /\ 1..Len(l) = {}
    BY <1>1 DEF IsList, Ids
<1>3. AllGenuine(l, h) /\ CameStays(s, l, h) /\ WentReturned(s, l, h) /\ LastWrote(s, l, h)
    BY <1>2 DEF AllGenuine, CameStays, WentReturned, LastWrote
<1>4. ClosedGone(s, l, h) /\ MovedNew(l) /\ FocusStays(s, l, h, {})
    BY <1>2 DEF ClosedGone, MovedNew, FocusStays
<1>5. AgentsLogged(s, l, h)
    BY <1>2 DEF AgentsLogged
<1>6. OrderLogged(s, l, h)
    BY <1>2 DEF OrderLogged, ListedSo, AddedLast, AddedOnce
<1> QED
    BY <1>1, <1>3, <1>4, <1>5, <1>6 DEF Past

\* The ids the server will give out are new.
LEMMA InitialReady ==
    ASSUME NEW s, s = InitialServer, NEW h, h = HomesOf(s)
    PROVE  Ready(s, h)
<1>1. /\ InitialFacts(s) /\ InitialRecords(s)
      /\ S!Range(s.workspaces) = Ids(s.workspaces) /\ S!Range(s.tabs) = Ids(s.tabs)
    BY InitialLists
<1>2. /\ h.ws = {w.id : w \in Ids(s.workspaces)}
      /\ DOMAIN h.tab = {r.id : r \in Ids(s.tabs)}
      /\ DOMAIN h.pane = {p.id : p \in s.panes}
    BY <1>1, InitialHomes
<1>3. IsList(s.freshW) /\ Distinct(s.freshW)
    BY FreshAssumption, DistinctList
<1>4. IsList(s.freshP) /\ Distinct(s.freshP)
    BY FreshAssumption, DistinctList
<1>5. IsList(s.freshT) /\ Distinct(s.freshT)
    BY TabIdsAssumption, DistinctList
<1>6. /\ S!Range(s.freshW) = Ids(s.freshW) /\ S!Range(s.freshP) = Ids(s.freshP)
      /\ S!Range(s.freshT) = Ids(s.freshT) /\ DOMAIN s.freshT = 1..Len(s.freshT)
    BY <1>3, <1>4, <1>5, RangeIsIds
<1>7. Unused(s.freshW, h.ws)
  <2>1. \A w \in Ids(s.workspaces) : w.id \notin Ids(s.freshW)
      BY <1>1, <1>6, FreshAssumption
  <2> QED
      BY <1>2, <1>3, <2>1 DEF Unused
<1>8. Unused(s.freshP, DOMAIN h.pane)
  <2>1. \A p \in s.panes : p.id \notin Ids(s.freshP)
      BY <1>6, FreshAssumption
  <2> QED
      BY <1>2, <1>4, <2>1 DEF Unused
<1>9. Unused(s.freshT, DOMAIN h.tab)
  <2>1. DOMAIN s.tabs = 1..Len(s.tabs)
      BY <1>1, RangeIsIds DEF InitialFacts
  <2>2. \A r \in Ids(s.tabs) : r.id \notin Ids(s.freshT)
    <3>1. \A i \in DOMAIN s.tabs, j \in DOMAIN s.freshT : s.tabs[i].id # s.freshT[j]
        BY TabIdsAssumption
    <3>2. DOMAIN s.freshT = 1..Len(s.freshT)
        BY <1>6
    <3> SUFFICES ASSUME NEW r \in Ids(s.tabs), r.id \in Ids(s.freshT) PROVE FALSE
        OBVIOUS
    <3>3. PICK i \in 1..Len(s.tabs) : r = s.tabs[i]
        BY DEF Ids
    <3>4. PICK j \in 1..Len(s.freshT) : r.id = s.freshT[j]
        BY DEF Ids
    <3> QED
        BY <2>1, <3>1, <3>2, <3>3, <3>4
  <2> QED
      BY <1>2, <1>5, <2>2 DEF Unused
<1>10. Absent \notin DOMAIN h.tab \cup Ids(s.freshT)
    BY <1>1, <1>2, <1>6, AbsentAssumption
<1>11. \A w \in Ids(s.freshW) :
          /\ NewWorkspace(w) # Absent
          /\ \A t \in Ids(s.freshT) : NewTab(t, w) # Absent
    BY <1>6, AbsentAssumption DEF NewWorkspace, NewTab
<1> QED
    BY <1>1, <1>7, <1>8, <1>9, <1>10, <1>11 DEF Ready, InitialFacts

\* The subscription was just accepted: nothing was pushed yet.
LEMMA InitialStanding ==
    ASSUME Init
    PROVE  (\E h : Standing(server, log, h)) /\ FocusSole(server)
<1>1. PICK s : s = InitialServer
    OBVIOUS
<1>2. server = s /\ log = <<>>
    BY <1>1 DEF Init
<1>3. PICK h : h = HomesOf(s)
    OBVIOUS
<1>4. InitialFacts(s) /\ InitialRecords(s) /\ FocusSole(s)
    BY <1>1, InitialLists
<1>5. Lawful(s, h)
    BY <1>3, <1>4, InitialLawful
<1>6. Past(s, <<>>, h, {})
    BY <1>5, InitialPast
<1>7. Ready(s, h)
    BY <1>1, <1>3, InitialReady
<1> QED
    BY <1>2, <1>4, <1>6, <1>7 DEF Standing

\* The server has no hand in the mirror.
LEMMA ServerAlone ==
    ASSUME ServerStep
    PROVE  UNCHANGED <<cache, applied>>
<1>1. \A state, events : Operate(state, events) => UNCHANGED <<cache, applied>>
    BY DEF Operate
<1>2. CreateWorkspace \/ MoveWorkspace => UNCHANGED <<cache, applied>>
    BY <1>1 DEF CreateWorkspace, MoveWorkspace
<1>3. \A w : /\ CloseWorkspace(w) \/ CreateTab(w) \/ MoveTab(w.id) => UNCHANGED <<cache, applied>>
             /\ \A label : RenameWorkspace(w, label) => UNCHANGED <<cache, applied>>
    BY <1>1 DEF CloseWorkspace, CreateTab, MoveTab, RenameWorkspace
<1>4. \A tab : /\ CloseTab(tab) \/ CreatePane(tab) => UNCHANGED <<cache, applied>>
               /\ \A label : RenameTab(tab, label) => UNCHANGED <<cache, applied>>
    BY <1>1 DEF CloseTab, CreatePane, RenameTab
<1>5. \A pane : /\ UpdatePane(pane) \/ ClosePane(pane) => UNCHANGED <<cache, applied>>
                /\ BreakOutPane(pane) => UNCHANGED <<cache, applied>>
                /\ FocusPane(pane) \/ ReleaseAgent(pane) => UNCHANGED <<cache, applied>>
    BY <1>1 DEF UpdatePane, ChangePane, ClosePane, BreakOutPane, FocusPane, ReleaseAgent
<1>6. \A pane, x : DetectAgent(pane, x) \/ ReportStatus(pane, x) => UNCHANGED <<cache, applied>>
    BY <1>1 DEF DetectAgent, ReportStatus, ChangePane
<1>7. \A tab, pane : MovePane(pane, tab) => UNCHANGED <<cache, applied>>
    BY <1>1, ZenonT(60) DEF MovePane
<1> QED
    BY <1>2, <1>3, <1>4, <1>5, <1>6, <1>7, Zenon DEF ServerStep

\* session.snapshot lists finitely many agents.
LEMMA FiniteAgents ==
    ASSUME NEW s, IsFiniteSet(s.panes)
    PROVE  IsFiniteSet(AgentsOf(s))
<1> DEFINE T == {p \in s.panes : p.agent # Absent}
           R == {AgentOf(p, s.names) : p \in T}
           f == [p \in T |-> AgentOf(p, s.names)]
<1>1. IsFiniteSet(T)
    BY FiniteSteps
<1>2. f \in [T -> R] /\ \A r \in R : \E p \in T : f[p] = r
    OBVIOUS
<1>3. R = AgentsOf(s)
    BY DEF AgentsOf
<1> HIDE DEF T, R, f
<1>4. IsFiniteSet(R)
    BY <1>1, <1>2, ImageFinite
<1> QED
    BY <1>3, <1>4

\* What the log leads to is what the server has, and what the mirror lacks is
\* still to come.
Tracks(h) ==
    /\ Standing(server, log, h)
    /\ cache # Absent => \E t : Awaits(server, log, h, cache, applied, t)
\* What the mirror differs in is in the events it has not applied, and the log tells
\* the state.
Converging == FocusSole(server) /\ \E h : Tracks(h)

\* Before the bootstrap there is no mirror to differ.
LEMMA ConvergingInit == Init => Converging
<1> SUFFICES ASSUME Init PROVE Converging
    OBVIOUS
<1>1. (\E h : Standing(server, log, h)) /\ FocusSole(server)
    BY InitialStanding
<1>2. cache = Absent
    BY DEF Init
<1> QED
    BY <1>1, <1>2 DEF Converging, Tracks

\* Any operation of the server pushes what the mirror then lacks.
LEMMA ConvergingServer ==
    ASSUME Converging, ServerStep
    PROVE  Converging'
<1>1. PICK h : Tracks(h)
    BY DEF Converging
<1>2. Standing(server, log, h) /\ FocusSole(server)
    BY <1>1 DEF Converging, Tracks
<1>3. Onward(server, log, h, server', log') /\ FocusSole(server')
    BY <1>2, ServerStepOnward
<1>4. PICK h2 : Standing(server', log', h2) /\ Lasts(server, log, h, server', log', h2)
    BY <1>3 DEF Onward
<1>5. cache' = cache /\ applied' = applied
    BY ServerAlone
<1>6. ASSUME cache # Absent
      PROVE  \E t : Awaits(server', log', h2, cache', applied', t)
  <2>1. PICK t : Awaits(server, log, h, cache, applied, t)
      BY <1>1, <1>6 DEF Tracks
  <2>2. Awaits(server', log', h2, cache, applied, t)
      BY <1>4, <2>1 DEF Lasts
  <2> QED
      BY <1>5, <2>2
<1>7. Tracks(h2)'
    BY <1>4, <1>5, <1>6 DEF Tracks
<1> QED
    BY <1>3, <1>7 DEF Converging

\* bootstrapSession subscribes before it takes the snapshot, so every event after the
\* snapshot is applied.
LEMMA ConvergingBootstrap ==
    ASSUME IInv, Converging, Bootstrap
    PROVE  Converging'
<1>1. PICK h : Standing(server, log, h)
    BY DEF Converging, Tracks
<1>2. Past(server, log, h, {})
    BY <1>1 DEF Standing
<1>3. IsFiniteSet(server.panes) /\ IsFiniteSet(server.layouts)
    BY DEF IInv, ServerInv
<1>4. IsFiniteSet(AgentsOf(server))
    BY <1>3, FiniteAgents
<1>5. PICK c : c = newSessionCache(SnapshotOf(server))
    OBVIOUS
<1>6. Awaits(server, log, h, c, 0, Len(log))
    BY ONLY <1>2, <1>3, <1>4, <1>5, BootstrapAwaits
<1>7. /\ cache' = c /\ applied' = 0 /\ server' = server /\ log' = log
    BY <1>5 DEF Bootstrap
<1>8. Tracks(h)'
    BY <1>1, <1>6, <1>7 DEF Tracks
<1>9. FocusSole(server')
    BY <1>7 DEF Converging
<1> QED
    BY <1>8, <1>9 DEF Converging

\* apply of the next event leaves the mirror with what is still behind.
LEMMA ConvergingApply ==
    ASSUME Converging, Apply
    PROVE  Converging'
<1>1. PICK h : Tracks(h)
    BY DEF Converging
<1>2. /\ cache # Absent /\ applied < Len(log) /\ applied' = applied + 1
      /\ cache' = apply(cache, log[applied + 1]) /\ server' = server /\ log' = log
    BY DEF Apply
<1>3. PICK t : Awaits(server, log, h, cache, applied, t)
    BY <1>1, <1>2 DEF Tracks
<1>4. Past(server, log, h, {})
    BY <1>1 DEF Tracks, Standing
<1>5. applied \in Nat /\ Faithful(cache, h)
    BY <1>3 DEF Awaits
<1>6. PICK e : e = log[applied + 1]
    OBVIOUS
<1>7. Genuine(e, h)
  <2>1. AllGenuine(log, h)
      BY <1>4 DEF Past
  <2>2. Len(log) \in Nat
      BY <2>1 DEF AllGenuine, IsList
  <2>3. applied + 1 \in 1..Len(log)
      BY <1>2, <1>5, <2>2
  <2> QED
      BY <1>6, <2>1, <2>3 DEF AllGenuine
<1>8. Reduces(cache, e, apply(cache, e), h)
    BY ONLY <1>5, <1>7, ApplyReduces
<1>9. PICK d : d = cache'
    OBVIOUS
<1>10. Turn(server, log, h, cache, d, applied, t)
    BY <1>2, <1>3, <1>4, <1>6, <1>8, <1>9 DEF Turn
<1>11. PICK u : Onto(u, applied, t)
    BY DEF Onto
<1>12. Awaits(server, log, h, d, applied + 1, u)
    BY ONLY <1>10, <1>11, TurnAwaits
<1>13. Tracks(h)'
    BY <1>1, <1>2, <1>9, <1>12 DEF Tracks
<1>14. FocusSole(server')
    BY <1>2 DEF Converging
<1> QED
    BY <1>13, <1>14 DEF Converging

\* At every moment the mirror differs from the server only in what the events it has
\* not applied still say: what bootstrapSession leaves out of the snapshot and the
\* events it repeats do not add up to a drift.
THEOREM AlwaysConverging == Spec => [](IInv /\ Converging)
<1>1. Init => Converging
    BY ConvergingInit
<1>2. IInv /\ Converging /\ [Next]_vars => Converging'
  <2> SUFFICES ASSUME IInv, Converging, [Next]_vars PROVE Converging'
      OBVIOUS
  <2>1. CASE ServerStep
      BY <2>1, ConvergingServer
  <2>2. CASE Bootstrap
      BY <2>2, ConvergingBootstrap
  <2>3. CASE Apply
      BY <2>3, ConvergingApply
  <2>4. CASE UNCHANGED vars
      BY <2>4 DEF vars, Converging, Tracks
  <2> QED
      BY <2>1, <2>2, <2>3, <2>4 DEF Next
<1> QED
    BY Inductive, <1>1, <1>2, PTL DEF Spec

\* Two lists of the same, in the same order, are the same list.
LEMMA SameOrder ==
    ASSUME NEW a, NEW b, IsList(a), IsList(b), Distinct(a), Distinct(b), Ids(a) = Ids(b),
           \A x, y : x # y /\ Precedes(a, x, y) => Precedes(b, x, y)
    PROVE  a = b
<1>1. /\ Len(a) \in Nat /\ Len(b) \in Nat /\ DOMAIN a = 1..Len(a) /\ DOMAIN b = 1..Len(b)
      /\ a = [i \in 1..Len(a) |-> a[i]] /\ b = [i \in 1..Len(b) |-> b[i]]
    BY DEF IsList
<1>2. /\ \A i \in 1..Len(a) : \E k \in 1..Len(b) : b[k] = a[i]
      /\ \A i \in 1..Len(b) : \E k \in 1..Len(a) : a[k] = b[i]
  <2>1. /\ \A i \in 1..Len(a) : a[i] \in Ids(b)
        /\ \A i \in 1..Len(b) : b[i] \in Ids(a)
      BY DEF Ids
  <2> QED
      BY <2>1 DEF Ids
<1>3. PICK T : T = {i \in 1..(Len(a) + Len(b)) :
                        /\ i <= Len(a) \/ i <= Len(b)
                        /\ i > Len(a) \/ i > Len(b) \/ a[i] # b[i]}
    OBVIOUS
<1>4. CASE T = {}
  <2>1. \A i \in 1..Len(a) : i <= Len(b) /\ a[i] = b[i]
      BY <1>1, <1>3, <1>4
  <2>2. \A i \in 1..Len(b) : i <= Len(a)
      BY <1>1, <1>3, <1>4
  <2>3. PICK m, n : m = Len(a) /\ n = Len(b)
      OBVIOUS
  <2>4. m \in Nat /\ n \in Nat
      BY <1>1, <2>3
  <2>5. (m # 0 => m <= n) /\ (n # 0 => n <= m)
    <3>1. m # 0 => m \in 1..Len(a)
        BY ONLY <2>3, <2>4
    <3>2. n # 0 => n \in 1..Len(b)
        BY ONLY <2>3, <2>4
    <3> QED
        BY ONLY <2>1, <2>2, <2>3, <3>1, <3>2
  <2>6. m = n
      BY ONLY <2>4, <2>5
  <2>7. Len(a) = Len(b)
      BY ONLY <2>3, <2>6
  <2> QED
      BY <1>1, <2>1, <2>7
<1>5. CASE T # {}
  <2>1. T \subseteq Nat
      BY <1>1, <1>3
  <2>2. PICK i \in T : \A j \in T : i <= j
      BY <1>5, <2>1, Least
  <2>4. i \in Nat /\ i >= 1
      BY <1>1, <1>3, <2>2
  <2>5. ASSUME NEW j \in 1..(i - 1)
        PROVE  j <= Len(a) /\ j <= Len(b) /\ a[j] = b[j]
    <3>1. j \in Nat /\ j < i /\ j >= 1 /\ j \in 1..(Len(a) + Len(b))
        BY <1>1, <1>3, <2>2, <2>4
    <3>2. j \notin T
        BY <2>2, <2>4, <3>1
    <3>3. j <= Len(a) \/ j <= Len(b)
        BY <1>1, <1>3, <2>2, <3>1
    <3> QED
        BY <1>1, <1>3, <3>1, <3>2, <3>3
  <2>6. CASE i <= Len(a)
    <3>1. i \in 1..Len(a)
        BY <1>1, <2>4, <2>6
    <3>2. PICK k \in 1..Len(b) : b[k] = a[i]
        BY <1>2, <3>1
    <3>3. k >= i
      <4> SUFFICES ASSUME k < i PROVE FALSE
          BY <1>1, <2>4
      <4>1. k \in 1..(i - 1) /\ k \in 1..Len(a) /\ k # i
          BY <1>1, <2>4, <2>6
      <4>2. a[k] = a[i]
          BY <2>5, <3>2, <4>1
      <4> QED
          BY <3>1, <4>1, <4>2 DEF Distinct
    <3>4. i \in 1..Len(b)
        BY <1>1, <2>4, <3>3
    <3>5. a[i] # b[i]
      <4>1. i \in T /\ ~(i > Len(a)) /\ ~(i > Len(b))
          BY <1>1, <2>2, <2>4, <2>6, <3>4
      <4> QED
          BY <1>3, <4>1
    <3>6. k > i
        BY <1>1, <2>4, <3>2, <3>3, <3>5
    <3>7. PICK m \in 1..Len(a) : a[m] = b[i]
        BY <1>2, <3>4
    <3>8. m > i
      <4> SUFFICES ASSUME m < i PROVE FALSE
          BY <1>1, <2>4, <3>5, <3>7
      <4>1. m \in 1..(i - 1) /\ m \in 1..Len(b) /\ m # i
          BY <1>1, <2>4, <3>4
      <4>2. b[m] = b[i]
          BY <2>5, <3>7, <4>1
      <4> QED
          BY <3>4, <4>1, <4>2 DEF Distinct
    <3>9. Precedes(a, a[i], b[i])
        BY <3>1, <3>7, <3>8 DEF Precedes
    <3>10. Precedes(b, a[i], b[i])
        BY <3>5, <3>9
    <3>11. PICK u, v \in 1..Len(b) : u < v /\ b[u] = a[i] /\ b[v] = b[i]
        BY <3>10 DEF Precedes
    <3>12. u = k /\ v = i
        BY <3>2, <3>4, <3>11 DEF Distinct
    <3> QED
        BY <1>1, <3>6, <3>11, <3>12
  <2>7. CASE ~(i <= Len(a)) /\ i <= Len(b)
    <3>1. i \in 1..Len(b)
        BY <1>1, <2>4, <2>7
    <3>2. PICK m \in 1..Len(a) : a[m] = b[i]
        BY <1>2, <3>1
    <3>3. m \in 1..(i - 1) /\ m # i /\ m \in 1..Len(b)
        BY <1>1, <2>4, <2>7
    <3>4. b[m] = b[i]
        BY <2>5, <3>2, <3>3
    <3> QED
        BY <3>1, <3>3, <3>4 DEF Distinct
  <2>8. i <= Len(a) \/ i <= Len(b)
      BY <1>3, <2>2
  <2> QED
      BY <2>6, <2>7, <2>8
<1> QED
    BY <1>4, <1>5

\* Nothing is to come: the mirror holds the records the server has.
LEMMA CaughtUpRecords ==
    ASSUME NEW s, NEW l, NEW h, NEW c, NEW t, Lawful(s, h), Awaits(s, l, h, c, Len(l), t)
    PROVE  /\ \A X \in Kinds : \A id : id \in Held(c, X) <=> Alive(s, X, id)
           /\ \A X \in Kinds : \A r \in Recs(s, X) : c[X].entries[Key(X, r)] = r
<1>1. Len(l) \in Nat /\ Faithful(c, h)
    BY DEF Awaits
<1>2. Behind(Len(l), l) = {}
    BY <1>1 DEF Behind
<1>3. \A X \in Kinds : \A id : id \in Held(c, X) <=> Alive(s, X, id)
    BY <1>2 DEF Awaits, Coming, Going
<1>4. ASSUME NEW X \in Kinds, NEW r \in Recs(s, X)
      PROVE  c[X].entries[Key(X, r)] = r
  <2>1. Key(X, r) \in Held(c, X)
      BY <1>3 DEF Alive
  <2>2. PICK q : q = c[X].entries[Key(X, r)]
      OBVIOUS
  <2>3. Good(X, q, h) /\ Key(X, q) = Key(X, r)
      BY <1>1, <2>1, <2>2 DEF Faithful
  <2>4. Good(X, r, h)
      BY DEF Lawful
  <2>5. \A f \in Fields(X) : q[f] = r[f]
      BY <1>2, <2>1, <2>2 DEF Awaits, Current
  <2>6. q = r
    <3>1. CASE X = "workspaces"
      <4>1. q.id = r.id /\ q.label = r.label /\ q.focused = r.focused
          BY <2>3, <2>5, <3>1 DEF Key, Fields, Ordered
      <4> QED
          BY <2>3, <2>4, <3>1, <4>1 DEF Good
    <3>2. CASE X = "tabs"
      <4>1. q.id = r.id /\ q.label = r.label /\ q.focused = r.focused
          BY <2>3, <2>5, <3>2 DEF Key, Fields, Ordered
      <4>2. q.ws = r.ws
          BY <2>3, <2>4, <3>2, <4>1 DEF Good
      <4> QED
          BY <2>3, <2>4, <3>2, <4>1, <4>2 DEF Good
    <3>3. CASE X = "panes"
      <4>1. /\ q.id = r.id /\ q.focused = r.focused /\ q.agent = r.agent
            /\ q.display = r.display /\ q.status = r.status /\ q.rev = r.rev
          BY <2>3, <2>5, <3>3 DEF Key, Fields, Ordered
      <4>2. q.tab = r.tab /\ q.ws = r.ws
          BY <2>3, <2>4, <3>3, <4>1 DEF Good
      <4>3. /\ q = [id |-> q.id, tab |-> q.tab, ws |-> q.ws, focused |-> q.focused,
                    agent |-> q.agent, display |-> q.display, status |-> q.status,
                    rev |-> q.rev]
            /\ r = [id |-> r.id, tab |-> r.tab, ws |-> r.ws, focused |-> r.focused,
                    agent |-> r.agent, display |-> r.display, status |-> r.status,
                    rev |-> r.rev]
          BY <2>3, <2>4, <3>3 DEF Good
      <4> QED
          BY ONLY <4>1, <4>2, <4>3
    <3>4. CASE X = "layouts"
      <4>1. q.tab = r.tab /\ q.focusedPane = r.focusedPane
          BY <2>3, <2>5, <3>4 DEF Key, Fields, Ordered
      <4>2. q.ws = r.ws
          BY <2>3, <2>4, <3>4, <4>1 DEF Good
      <4> QED
          BY <2>3, <2>4, <3>4, <4>1, <4>2 DEF Good
    <3> QED
        BY <3>1, <3>2, <3>3, <3>4 DEF Kinds
  <2> QED
      BY <2>2, <2>6
<1> QED
    BY <1>3, <1>4

\* list: the records of a collection, in its order.
LEMMA ValuesFacts ==
    ASSUME NEW o, Sound(o), NEW v, v = Values(o)
    PROVE  /\ IsList(v) /\ Len(v) = Len(o.ids) /\ IsList(o.ids) /\ Distinct(o.ids)
           /\ \A i \in 1..Len(v) : v[i] = o.entries[o.ids[i]] /\ o.ids[i] \in DOMAIN o.entries
           /\ Ids(v) = {o.entries[x] : x \in DOMAIN o.entries}
<1>1. o.ids \in Seq(DOMAIN o.entries) /\ Ids(o.ids) = DOMAIN o.entries /\ Distinct(o.ids)
    BY PartsOfSound
<1>2. PICK R : R = {o.entries[x] : x \in DOMAIN o.entries}
    OBVIOUS
<1>3. Len(o.ids) \in Nat /\ \A i \in 1..Len(o.ids) : o.ids[i] \in DOMAIN o.entries
    BY <1>1
<1>4. v = [i \in 1..Len(o.ids) |-> o.entries[o.ids[i]]]
    BY DEF Values
<1>5. v \in Seq(R) /\ Len(v) = Len(o.ids)
  <2>1. v \in [1..Len(o.ids) -> R]
      BY <1>2, <1>3, <1>4
  <2> QED
      BY <1>3, <2>1
<1>6. IsList(v) /\ IsList(o.ids)
    BY <1>1, <1>5, SeqIsList
<1>7. \A i \in 1..Len(v) : v[i] = o.entries[o.ids[i]] /\ o.ids[i] \in DOMAIN o.entries
    BY <1>3, <1>4, <1>5
<1>8. Ids(v) = R
  <2>1. \A x \in DOMAIN o.entries : \E i \in 1..Len(o.ids) : o.ids[i] = x
      BY <1>1 DEF Ids
  <2>2. ASSUME NEW z \in Ids(v) PROVE z \in R
    <3>1. PICK i \in 1..Len(v) : z = v[i]
        BY DEF Ids
    <3> QED
        BY <1>2, <1>7, <3>1
  <2>3. ASSUME NEW z \in R PROVE z \in Ids(v)
    <3>1. PICK x \in DOMAIN o.entries : z = o.entries[x]
        BY <1>2
    <3>2. PICK i \in 1..Len(o.ids) : o.ids[i] = x
        BY <2>1
    <3>3. i \in 1..Len(v) /\ z = v[i]
        BY <1>5, <1>7, <3>1, <3>2
    <3> QED
        BY <3>3 DEF Ids
  <2> QED
      BY <2>2, <2>3
<1> QED
    BY <1>1, <1>2, <1>5, <1>6, <1>7, <1>8

\* The records of the workspaces and of the tabs, and their order.
LEMMA CaughtUpLists ==
    ASSUME NEW s, NEW l, NEW h, NEW c, NEW t, Lawful(s, h), Awaits(s, l, h, c, Len(l), t),
           NEW X \in Ordered, NEW v, v = Values(c[X]), NEW w, w = s[X]
    PROVE  /\ IsList(v) /\ IsList(w) /\ Distinct(v) /\ Distinct(w) /\ Ids(v) = Ids(w)
           /\ \A r, q : r # q /\ Precedes(v, r, q) /\ Group(X, r.id, h) = Group(X, q.id, h)
                            => Precedes(w, r, q)
<1>1. X \in Kinds /\ Len(l) \in Nat /\ Faithful(c, h)
    BY DEF Awaits, Kinds, Ordered
<1>2. /\ \A id : id \in Held(c, X) <=> Alive(s, X, id)
      /\ \A r \in Recs(s, X) : c[X].entries[Key(X, r)] = r
    BY <1>1, CaughtUpRecords
<1>3. PICK o : o = c[X]
    OBVIOUS
<1>4. Sound(o)
  <2>1. FaithfulTo(X, c[X], h)
      BY <1>1, FaithfulParts
  <2> QED
      BY <1>3, <2>1 DEF FaithfulTo
<1>5. /\ IsList(v) /\ Len(v) = Len(o.ids) /\ IsList(o.ids) /\ Distinct(o.ids)
      /\ \A i \in 1..Len(v) : v[i] = o.entries[o.ids[i]] /\ o.ids[i] \in DOMAIN o.entries
      /\ Ids(v) = {o.entries[x] : x \in DOMAIN o.entries}
  <2>1. v = Values(o)
      BY <1>3
  <2> QED
      BY ONLY <1>4, <2>1, ValuesFacts
<1>6. IsList(w) /\ Distinct(IdsOf(w)) /\ Recs(s, X) = Ids(w)
    BY DEF Lawful, Recs
<1>7. Distinct(w) /\ \A r, q \in Ids(w) : r.id = q.id => r = q
    BY <1>6, DistinctIds
<1>8. \A r : Key(X, r) = r.id
    BY DEF Key, Ordered
<1>9. /\ DOMAIN o.entries = {r.id : r \in Ids(w)}
      /\ \A r \in Ids(w) : o.entries[r.id] = r
    BY <1>2, <1>3, <1>6, <1>8 DEF Held, Alive
<1>10. Ids(v) = Ids(w)
    BY <1>5, <1>9
<1>11. \A i \in 1..Len(v) : v[i].id = o.ids[i]
  <2> TAKE i \in 1..Len(v)
  <2>1. PICK r \in Ids(w) : r.id = o.ids[i]
      BY <1>5, <1>9
  <2> QED
      BY <1>5, <1>9, <2>1
<1>12. Distinct(v)
    BY <1>5, <1>11 DEF Distinct
<1>13. ASSUME NEW r, NEW q, r # q, Precedes(v, r, q), Group(X, r.id, h) = Group(X, q.id, h)
       PROVE  Precedes(w, r, q)
  <2>1. PICK i, j \in 1..Len(v) : i < j /\ v[i] = r /\ v[j] = q
      BY <1>13 DEF Precedes
  <2>2. Precedes(o.ids, r.id, q.id)
      BY <1>5, <1>11, <2>1 DEF Precedes
  <2>3. r \in Ids(w) /\ q \in Ids(w)
      BY <1>10, <2>1 DEF Ids
  <2>4. r.id # q.id
      BY <1>7, <1>13, <2>3
  <2>5. Alive(s, X, r.id) /\ Alive(s, X, q.id)
      BY <1>6, <1>8, <2>3 DEF Alive
  <2>6. Pair(s, X, r.id, q.id, h)
      BY <1>13, <2>4, <2>5 DEF Pair
  <2>7. Unmoved(l, Len(l), X, r.id, h)
      BY <1>1 DEF Unmoved, Behind
  <2>8. Precedes(c[X].ids, r.id, q.id) /\ r.id \in Held(c, X)
      BY <1>2, <1>3, <2>2, <2>5
  <2>9. Precedes(IdsOf(s[X]), r.id, q.id)
      BY <2>6, <2>7, <2>8 DEF Awaits, OrderKept
  <2>10. PICK r2, q2 : Precedes(w, r2, q2) /\ r2.id = r.id /\ q2.id = q.id
      BY <1>6, <2>9, PrecedesIds
  <2>11. r2 \in Ids(w) /\ q2 \in Ids(w)
      BY <2>10, PrecedesLies
  <2> QED
      BY <1>7, <2>3, <2>10, <2>11
<1> QED
    BY <1>5, <1>6, <1>7, <1>10, <1>12, <1>13

\* Focus: the first record that has it is the one that has it.
LEMMA FocusedOne ==
    ASSUME NEW v, IsList(v), NEW R, Ids(v) = R, Sole(R)
    PROVE  focusedID(v) = FocusOf(R)
<1>1. DOMAIN v = 1..Len(v) /\ Len(v) \in Nat
    BY DEF IsList
<1>2. PICK F : F = {i \in DOMAIN v : v[i].focused}
    OBVIOUS
<1>3. CASE F = {}
  <2>1. ~ \E r \in R : r.focused
      BY <1>1, <1>2, <1>3 DEF Ids
  <2> QED
      BY <1>2, <1>3, <2>1 DEF focusedID, FocusOf
<1>4. CASE F # {}
  <2>1. F \subseteq Nat
      BY <1>1, <1>2
  <2>2. PICK k : k = CHOOSE i \in F : \A j \in F : i <= j
      OBVIOUS
  <2>3. k \in F
      BY <1>4, <2>1, <2>2, Least
  <2>4. v[k] \in R /\ v[k].focused
      BY <1>1, <1>2, <2>3 DEF Ids
  <2>5. PICK r : r = CHOOSE r0 \in R : r0.focused
      OBVIOUS
  <2>6. r \in R /\ r.focused
      BY <2>4, <2>5
  <2>7. v[k] = r
      BY <2>4, <2>6 DEF Sole
  <2>8. focusedID(v) = v[k].id
      BY <1>2, <1>4, <2>2 DEF focusedID
  <2>9. FocusOf(R) = r.id
      BY <2>4, <2>5 DEF FocusOf
  <2> QED
      BY <2>7, <2>8, <2>9
<1> QED
    BY <1>3, <1>4

\* An agent and its pane, but for the name.
LEMMA NamelessAgent ==
    ASSUME NEW a, NEW p, NEW h, NEW names, AgentShaped(a, p.id, h), Good("panes", p, h),
           \A f \in Fields("panes") : a[f] = p[f]
    PROVE  [a EXCEPT !.name = Absent] = [AgentOf(p, names) EXCEPT !.name = Absent]
<1>1. /\ a.focused = p.focused /\ a.agent = p.agent /\ a.display = p.display
      /\ a.status = p.status /\ a.rev = p.rev
    BY DEF Fields, Ordered
<1>2. a.id = p.id /\ a.tab = p.tab /\ a.ws = p.ws
    BY DEF AgentShaped, Good
<1>3. a = [id |-> a.id, tab |-> a.tab, ws |-> a.ws, focused |-> a.focused,
           agent |-> a.agent, display |-> a.display, status |-> a.status,
           rev |-> a.rev, name |-> a.name]
    BY DEF AgentShaped
<1>4. PICK z : z = [id |-> p.id, tab |-> p.tab, ws |-> p.ws, focused |-> p.focused,
                    agent |-> p.agent, display |-> p.display, status |-> p.status,
                    rev |-> p.rev, name |-> Absent]
    OBVIOUS
<1>5. [a EXCEPT !.name = Absent] = z
    BY ONLY <1>1, <1>2, <1>3, <1>4
<1>6. [AgentOf(p, names) EXCEPT !.name = Absent] = z
    BY ONLY <1>4 DEF AgentOf
<1> QED
    BY <1>5, <1>6

\* The agents of a mirror that caught up.
LEMMA CaughtUpAgents ==
    ASSUME NEW s, NEW l, NEW h, NEW c, NEW t, Lawful(s, h), Awaits(s, l, h, c, Len(l), t)
    PROVE  Nameless(S!Range(Agents(c))) = Nameless(AgentsOf(s))
<1>1. Len(l) \in Nat /\ Faithful(c, h) /\ t = Len(l)
  <2>1. t \in Nat /\ Len(l) \in Nat /\ Len(l) <= t /\ t <= Len(l)
      BY DEF Awaits
  <2> QED
      BY <2>1 DEF Awaits
<1>2. Behind(Len(l), l) = {}
    BY <1>1 DEF Behind
<1>3. PICK o : o = c.agents
    OBVIOUS
<1>4. Sound(o)
    BY <1>1, <1>3 DEF Faithful, SoundCache
<1>5. PICK v : v = Values(o)
    OBVIOUS
<1>6. IsList(v) /\ Ids(v) = {o.entries[x] : x \in DOMAIN o.entries}
    BY ONLY <1>4, <1>5, ValuesFacts
<1>7. S!Range(Agents(c)) = {o.entries[x] : x \in Agents0(c)}
  <2>1. S!Range(v) = Ids(v)
      BY <1>6, RangeIds
  <2> QED
      BY <1>3, <1>5, <1>6, <2>1 DEF Agents, Agents0
<1>8. \A id : id \in Agents0(c) <=> Running(s, id)
  <2>1. \A id : Running(s, id) => id \in Agents0(c)
      BY <1>1, <1>2 DEF Awaits, AgentsComing
  <2>2. \A id \in Agents0(c) : Running(s, id)
      BY <1>2 DEF Awaits, AgentsGoing
  <2> QED
      BY <2>1, <2>2
<1>9. \A p \in s.panes : Good("panes", p, h)
    BY DEF Lawful, Kinds, Recs, Ordered
<1>10. ASSUME NEW p \in s.panes, p.agent # Absent
       PROVE  /\ p.id \in Agents0(c)
              /\ [o.entries[p.id] EXCEPT !.name = Absent]
                   = [AgentOf(p, s.names) EXCEPT !.name = Absent]
  <2>1. p.id \in Agents0(c)
      BY <1>8, <1>10 DEF Running
  <2>2. PICK a : a = o.entries[p.id]
      OBVIOUS
  <2>3. AgentShaped(a, p.id, h)
      BY <1>1, <1>3, <2>1, <2>2 DEF Faithful
  <2>4. \A f \in Fields("panes") : a[f] = p[f]
      BY <1>2, <1>3, <2>1, <2>2 DEF Awaits, AgentsCurrent
  <2>5. PICK names : names = s.names
      OBVIOUS
  <2>6. [a EXCEPT !.name = Absent] = [AgentOf(p, names) EXCEPT !.name = Absent]
      BY <1>9, <2>3, <2>4, NamelessAgent
  <2> QED
      BY <2>1, <2>2, <2>5, <2>6
<1>11. ASSUME NEW x \in Agents0(c)
       PROVE  \E p \in s.panes : p.id = x /\ p.agent # Absent
    BY <1>8, <1>11 DEF Running
<1>12. PICK A, B : /\ A = {[o.entries[x] EXCEPT !.name = Absent] : x \in Agents0(c)}
                   /\ B = {[AgentOf(p, s.names) EXCEPT !.name = Absent] :
                              p \in {q \in s.panes : q.agent # Absent}}
    OBVIOUS
<1>13. A \subseteq B
  <2> SUFFICES ASSUME NEW z \in A PROVE z \in B
      OBVIOUS
  <2>1. PICK x \in Agents0(c) : z = [o.entries[x] EXCEPT !.name = Absent]
      BY <1>12
  <2>2. PICK p \in s.panes : p.id = x /\ p.agent # Absent
      BY <1>11
  <2> QED
      BY <1>10, <1>12, <2>1, <2>2
<1>14. B \subseteq A
  <2> SUFFICES ASSUME NEW z \in B PROVE z \in A
      OBVIOUS
  <2>1. PICK p \in s.panes : p.agent # Absent /\ z = [AgentOf(p, s.names) EXCEPT !.name = Absent]
      BY <1>12
  <2> QED
      BY <1>10, <1>12, <2>1
<1>15. Nameless(S!Range(Agents(c))) = A
    BY <1>7, <1>12 DEF Nameless
<1>16. Nameless(AgentsOf(s)) = B
    BY <1>12 DEF Nameless, AgentsOf
<1> QED
    BY <1>13, <1>14, <1>15, <1>16

\* Panes and layouts, and what a program looks up by its id.
LEMMA CaughtUpSets ==
    ASSUME NEW s, NEW l, NEW h, NEW c, NEW t, Lawful(s, h), Awaits(s, l, h, c, Len(l), t),
           NEW X \in {"panes", "layouts"}, NEW v, v = Values(c[X])
    PROVE  /\ S!Range(v) = s[X] /\ IsList(v) /\ Ids(v) = s[X]
           /\ \A r \in s[X] : Lookup(c[X], Key(X, r)) = r
<1>1. X \in Kinds /\ Faithful(c, h) /\ Recs(s, X) = s[X]
    BY DEF Awaits, Kinds, Recs, Ordered
<1>2. /\ \A id : id \in Held(c, X) <=> Alive(s, X, id)
      /\ \A r \in s[X] : c[X].entries[Key(X, r)] = r
    BY <1>1, CaughtUpRecords
<1>3. PICK o : o = c[X]
    OBVIOUS
<1>4. Sound(o)
  <2>1. FaithfulTo(X, c[X], h)
      BY <1>1, FaithfulParts
  <2> QED
      BY <1>3, <2>1 DEF FaithfulTo
<1>5. IsList(v) /\ Ids(v) = {o.entries[x] : x \in DOMAIN o.entries}
  <2>1. v = Values(o)
      BY <1>3
  <2> QED
      BY ONLY <1>4, <2>1, ValuesFacts
<1>6. /\ DOMAIN o.entries = {Key(X, r) : r \in s[X]}
      /\ \A r \in s[X] : o.entries[Key(X, r)] = r
    BY <1>1, <1>2, <1>3 DEF Held, Alive
<1>7. Ids(v) = s[X]
    BY <1>5, <1>6
<1>8. S!Range(v) = Ids(v)
    BY <1>5, RangeIds
<1>9. \A r \in s[X] : Lookup(c[X], Key(X, r)) = r
    BY <1>3, <1>6 DEF Lookup, Has
<1> QED
    BY <1>5, <1>7, <1>8, <1>9

\* Bootstrap and replay converge.
LEMMA CaughtUpShows ==
    ASSUME Converging, CaughtUp
    PROVE  /\ Shows(Snapshot(cache))
           /\ \A pane \in server.panes : Pane(cache, pane.id) = pane
           /\ \A layout \in server.layouts : Layout(cache, layout.tab) = layout
<1>1. PICK s, l, c : s = server /\ l = log /\ c = cache
    OBVIOUS
<1>2. PICK h : Tracks(h)
    BY DEF Converging
<1>3. PICK t : Awaits(s, l, h, c, Len(l), t)
    BY <1>1, <1>2 DEF Tracks, CaughtUp, Bootstrapped
<1>4. Lawful(s, h)
    BY <1>1, <1>2 DEF Tracks, Standing, Past
<1>5. Sole(Ids(s.workspaces)) /\ Sole(Ids(s.tabs)) /\ Sole(s.panes)
    BY <1>1 DEF Converging, FocusSole
<1>6. PICK vw, vt, vp, vl : /\ vw = Values(c.workspaces) /\ vt = Values(c.tabs)
                            /\ vp = Values(c.panes) /\ vl = Values(c.layouts)
    OBVIOUS
<1>7. PICK w, tabs : w = s.workspaces /\ tabs = s.tabs
    OBVIOUS
<1>8. /\ IsList(vw) /\ IsList(w) /\ Distinct(vw) /\ Distinct(w) /\ Ids(vw) = Ids(w)
      /\ \A r, q : r # q /\ Precedes(vw, r, q)
                     /\ Group("workspaces", r.id, h) = Group("workspaces", q.id, h)
                       => Precedes(w, r, q)
  <2>1. vw = Values(c["workspaces"]) /\ w = s["workspaces"] /\ "workspaces" \in Ordered
      BY <1>6, <1>7 DEF Ordered
  <2> QED
      BY ONLY <1>3, <1>4, <2>1, CaughtUpLists
<1>9. /\ IsList(vt) /\ IsList(tabs) /\ Distinct(vt) /\ Distinct(tabs) /\ Ids(vt) = Ids(tabs)
      /\ \A r, q : r # q /\ Precedes(vt, r, q)
                     /\ Group("tabs", r.id, h) = Group("tabs", q.id, h)
                       => Precedes(tabs, r, q)
  <2>1. vt = Values(c["tabs"]) /\ tabs = s["tabs"] /\ "tabs" \in Ordered
      BY <1>6, <1>7 DEF Ordered
  <2> QED
      BY ONLY <1>3, <1>4, <2>1, CaughtUpLists
<1>10. vw = w
  <2>1. \A r, q : r # q /\ Precedes(vw, r, q) => Precedes(w, r, q)
      BY <1>8 DEF Group
  <2> QED
      BY ONLY <1>8, <2>1, SameOrder
<1>11. ASSUME NEW ws
       PROVE  TabsOf(vt, ws) = TabsOf(tabs, ws)
  <2>1. PICK set : set = {tab \in Ids(tabs) : tab.ws = ws}
      OBVIOUS
  <2>2. TabsOf(vt, ws) = Among(vt, set) /\ TabsOf(tabs, ws) = Among(tabs, set)
    <3>1. S!Range(vt) = Ids(tabs) /\ S!Range(tabs) = Ids(tabs)
        BY <1>9, RangeIds
    <3> QED
        BY <2>1, <3>1 DEF TabsOf
  <2>3. PICK a, b : a = Among(vt, set) /\ b = Among(tabs, set)
      OBVIOUS
  <2>4. IsList(a) /\ Ids(a) = Ids(tabs) \cap set /\ Distinct(a)
      BY <1>9, <2>3, AmongFacts, SeqIsList DEF IsList
  <2>5. IsList(b) /\ Ids(b) = Ids(tabs) \cap set /\ Distinct(b)
      BY <1>9, <2>3, AmongFacts, SeqIsList DEF IsList
  <2>6. \A r \in set : Group("tabs", r.id, h) = ws
    <3>1. \A r \in Ids(tabs) : Good("tabs", r, h)
        BY <1>4, <1>7 DEF Lawful, Kinds, Recs, Ordered
    <3> QED
        BY <2>1, <3>1 DEF Good, Group
  <2>7. ASSUME NEW r, NEW q, r # q, Precedes(a, r, q)
        PROVE  Precedes(b, r, q)
    <3>1. r \in set /\ q \in set
        BY <2>4, <2>7, PrecedesLies
    <3>2. Precedes(vt, r, q)
        BY <1>9, <2>3, <2>7, AmongBack
    <3>3. Precedes(tabs, r, q)
        BY <1>9, <2>6, <2>7, <3>1, <3>2
    <3> QED
        BY <1>9, <2>3, <3>1, <3>3, AmongOrder
  <2>8. a = b
      BY ONLY <2>4, <2>5, <2>7, SameOrder
  <2> QED
      BY <2>2, <2>3, <2>8
<1>12. S!Range(vt) = S!Range(tabs)
    BY <1>9, RangeIds
<1>13. /\ S!Range(vp) = s.panes /\ IsList(vp) /\ Ids(vp) = s.panes
       /\ \A r \in s.panes : Lookup(c.panes, r.id) = r
  <2>1. vp = Values(c["panes"])
      BY <1>6
  <2>2. /\ S!Range(vp) = s["panes"] /\ IsList(vp) /\ Ids(vp) = s["panes"]
        /\ \A r \in s["panes"] : Lookup(c["panes"], Key("panes", r)) = r
      BY ONLY <1>3, <1>4, <2>1, CaughtUpSets
  <2> QED
      BY <2>2 DEF Key
<1>14. /\ S!Range(vl) = s.layouts
       /\ \A r \in s.layouts : Lookup(c.layouts, r.tab) = r
  <2>1. vl = Values(c["layouts"])
      BY <1>6
  <2>2. /\ S!Range(vl) = s["layouts"]
        /\ \A r \in s["layouts"] : Lookup(c["layouts"], Key("layouts", r)) = r
      BY ONLY <1>3, <1>4, <2>1, CaughtUpSets
  <2> QED
      BY <2>2 DEF Key
<1>15. Nameless(S!Range(Agents(c))) = Nameless(AgentsOf(s))
    BY ONLY <1>3, <1>4, CaughtUpAgents
<1>16. focusedID(vw) = FocusOf(Ids(w))
    BY <1>5, <1>7, <1>8, FocusedOne
<1>17. focusedID(vt) = FocusOf(Ids(tabs))
    BY <1>5, <1>7, <1>9, FocusedOne
<1>18. focusedID(vp) = FocusOf(s.panes)
    BY <1>5, <1>13, FocusedOne
<1>19. S!Range(w) = Ids(w) /\ S!Range(tabs) = Ids(tabs)
    BY <1>8, <1>9, RangeIds
<1>20. PICK n : n = Snapshot(c)
    OBVIOUS
<1>21. /\ n.workspaces = vw /\ n.tabs = vt /\ n.panes = vp /\ n.layouts = vl
       /\ n.agents = Agents(c) /\ n.focusedWorkspace = focusedID(vw)
       /\ n.focusedTab = focusedID(vt) /\ n.focusedPane = focusedID(vp)
    BY <1>6, <1>20 DEF Snapshot, Workspaces, Tabs
<1>22. Shows(n)
    BY <1>1, <1>7, <1>10, <1>11, <1>12, <1>13, <1>14, <1>15, <1>16, <1>17, <1>18, <1>19,
       <1>21 DEF Shows
<1> QED
    BY <1>1, <1>13, <1>14, <1>20, <1>22 DEF Pane, Layout

\* A mirror that has applied every event shows what the server has: the records, their
\* order, the agents and the focus, however the events that came before the snapshot
\* overlap with it (bootstrapSession and sessionCache.apply).
THEOREM Converges == Spec => []MirrorMatchesServer
<1>1. Converging => MirrorMatchesServer
    BY CaughtUpShows DEF MirrorMatchesServer
<1> QED
    BY AlwaysConverging, <1>1, PTL
=============================================================================
