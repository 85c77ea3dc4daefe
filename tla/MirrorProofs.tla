---------------------------- MODULE MirrorProofs ----------------------------
(***************************************************************************)
(* Theorems about Mirror, for any session and any number of operations:    *)
(* whatever events arrive, and wherever the snapshot falls among them, the *)
(* collections of the mirror keep one place for each entry, and an event   *)
(* that was applied changes nothing when it is applied again.              *)
(* From there on: the log the server pushes tells the state it led to,     *)
(* whatever operations the server performs (Past), and of what a mirror    *)
(* differs in, the events it has yet to apply tell the rest (Awaits).      *)
(***************************************************************************)
EXTENDS Mirror, ReducerProofs, FiniteSetTheorems

-----------------------------------------------------------------------------
(* Lists and finite sets *)

\* What a sequence is over its own elements: a payload that decodes into a slice
\* is a list, of whatever records.
LEMMA SeqIsList ==
    ASSUME NEW X, NEW s \in Seq(X)
    PROVE  IsList(s)
    BY Narrow DEF IsList

\* deleteWhere leaves a list a list.
LEMMA AmongList ==
    ASSUME NEW s, NEW set, IsList(s)
    PROVE  IsList(Among(s, set))
    BY AmongFacts, SeqIsList DEF IsList

\* append(s, t...): of the log and the events of an operation, of the other tabs
\* and those moved.
LEMMA ConcatList ==
    ASSUME NEW s, NEW t, IsList(s), IsList(t)
    PROVE  IsList(s \o t) /\ Ids(s \o t) \subseteq Ids(s) \cup Ids(t)
<1> DEFINE X == Ids(s) \cup Ids(t)
<1>1. s \in Seq(Ids(s)) /\ t \in Seq(Ids(t))
    BY DEF IsList
<1>2. s \in Seq(X) /\ t \in Seq(X)
  <2>1. Ids(s) \subseteq X /\ Ids(t) \subseteq X
      OBVIOUS
  <2> QED
      BY <1>1, <2>1, Narrow
<1> HIDE DEF X
<1>3. s \o t \in Seq(X)
    BY <1>2
<1>4. Ids(s \o t) \subseteq X
    BY <1>3 DEF Ids
<1> QED
    BY <1>3, <1>4, SeqIsList DEF X

\* A new workspace or tab comes last.
LEMMA AppendList ==
    ASSUME NEW s, NEW x, IsList(s)
    PROVE  IsList(Append(s, x))
<1> DEFINE X == Ids(s) \cup {x}
<1>1. s \in Seq(X) /\ x \in X
  <2>1. s \in Seq(Ids(s)) /\ Ids(s) \subseteq X
      BY DEF IsList
  <2> QED
      BY <2>1, Narrow
<1> HIDE DEF X
<1>2. Append(s, x) \in Seq(X)
    BY <1>1
<1> QED
    BY <1>2, SeqIsList

\* The first workspace, or tab, moves to the end: what WorkspaceMoved and TabMoved
\* then list.
LEMMA RotateList ==
    ASSUME NEW s, IsList(s), Len(s) > 1
    PROVE  IsList(Append(Tail(s), Head(s)))
<1>1. s \in Seq(Ids(s)) /\ s # <<>>
    BY DEF IsList
<1>2. Tail(s) \in Seq(Ids(s))
    BY <1>1
<1> QED
    BY <1>2, SeqIsList, AppendList

\* A rename or a focus change rewrites every record in its place.
LEMMA MapList ==
    ASSUME NEW s, NEW f, IsList(s), f = [i \in DOMAIN s |-> f[i]]
    PROVE  IsList(f)
<1>1. DOMAIN s = 1..Len(s) /\ Len(s) \in Nat
    BY DEF IsList
<1>2. f \in Seq({f[i] : i \in 1..Len(s)})
    BY <1>1
<1> QED
    BY <1>2, SeqIsList

\* The events of one operation.
Reported(events) == IsList(events) /\ \A e \in Ids(events) : Decoded(e)

\* An operation that the server reports in one event.
LEMMA ReportedOne ==
    ASSUME NEW d, Decoded(d)
    PROVE  Reported(<<d>>)
<1>1. <<d>> \in Seq({d})
    OBVIOUS
<1>2. Ids(<<d>>) \subseteq {d}
    BY <1>1 DEF Ids
<1> QED
    BY <1>1, <1>2, SeqIsList DEF Reported

\* Events are pushed behind those pushed before.
LEMMA ReportedMore ==
    ASSUME NEW events, NEW more, Reported(events), Reported(more)
    PROVE  Reported(events \o more)
    BY ConcatList DEF Reported

\* An operation that the server reports in two events, as it does a new pane
\* with the layout.
LEMMA ReportedTwo ==
    ASSUME NEW d, NEW e, Decoded(d), Decoded(e)
    PROVE  Reported(<<d, e>>)
<1>1. <<d, e>> \in Seq({d, e})
    OBVIOUS
<1>2. Ids(<<d, e>>) \subseteq {d, e}
    BY <1>1 DEF Ids
<1> QED
    BY <1>1, <1>2, SeqIsList DEF Reported

\* An operation that the server reports in three events, as it does a change of
\* focus.
LEMMA ReportedThree ==
    ASSUME NEW d, NEW e, NEW f, Decoded(d), Decoded(e), Decoded(f)
    PROVE  Reported(<<d, e, f>>)
<1>1. <<d, e, f>> \in Seq({d, e, f})
    OBVIOUS
<1>2. Ids(<<d, e, f>>) \subseteq {d, e, f}
    BY <1>1 DEF Ids
<1> QED
    BY <1>1, <1>2, SeqIsList DEF Reported

\* What every element of a finite set is turned into: an agent for each pane that
\* runs one, the panes after a focus change.
LEMMA ImageFinite ==
    ASSUME NEW T, NEW f, NEW R, IsFiniteSet(T), f \in [T -> R],
           \A r \in R : \E x \in T : f[x] = r
    PROVE  IsFiniteSet(R)
<1>1. f \in Surjection(T, R)
    BY DEF Surjection
<1> QED
    BY <1>1, FS_Surjection

\* The snapshot lists the panes, agents and layouts in an order of its own.
LEMMA SetToSeqList ==
    ASSUME NEW T, IsFiniteSet(T)
    PROVE  S!SetToSeq(T) \in Seq(T)
<1> DEFINE n == Cardinality(T)
           Lists(f) == f \in [1..n -> T] /\ S!IsInjective(f)
<1>1. n \in Nat /\ ExistsBijection(1..n, T)
    BY FS_CardinalityType
<1> HIDE DEF n
<1>2. PICK f : f \in [1..n -> T] /\ \A a, b \in 1..n : f[a] = f[b] => a = b
    BY <1>1 DEF ExistsBijection, Bijection, Injection, IsInjective
<1>3. S!IsInjective(f)
    BY <1>2 DEF S!IsInjective
<1>4. S!SetToSeq(T) \in [1..n -> T]
  <2>0. S!Cardinality(T) = Cardinality(T)
      BY Zenon DEF S!Cardinality, Cardinality
  <2>1. \E g \in [1..n -> T] : S!IsInjective(g)
      BY <1>2, <1>3
  <2>2. S!SetToSeq(T) = CHOOSE g \in [1..n -> T] : S!IsInjective(g)
      BY <2>0 DEF S!SetToSeq, n
  <2> QED
      BY <2>1, <2>2
<1> QED
    BY <1>1, <1>4

-----------------------------------------------------------------------------
(* The inductive invariant *)

\* What the server holds is finite: a snapshot of it can be listed.
ServerInv(s) ==
    /\ DOMAIN s = {"workspaces", "tabs", "panes", "names", "layouts",
                   "freshW", "freshT", "freshP"}
    /\ IsList(s.workspaces)
    /\ IsList(s.tabs)
    /\ IsFiniteSet(s.panes)
    /\ IsFiniteSet(s.layouts)

\* Every event that was pushed, applied or not, decodes.
LogInv ==
    /\ Reported(log)
    /\ applied \in 0..Len(log)

\* What newSessionCache and apply leave is sound, once there is a mirror.
CacheInv == cache # Absent => SoundCache(cache)

\* The records of tabs that an event carries, and those the mirror holds.
EventTabs(e) ==
    CASE e.type = "TabCreated" -> {e.tab}
      [] e.type = "TabMoved" -> Ids(e.tabs)
      [] e.type = "PaneMoved" -> {e.createdTab} \ {Absent}
      [] OTHER -> {}
\* The tabs the mirror holds.
CacheTabs(c) == IF c = Absent THEN {} ELSE {c.tabs.entries[x] : x \in DOMAIN c.tabs.entries}

\* The tabs some events bring.
Brought(events) == UNION {EventTabs(e) : e \in Ids(events)}

\* All the records of tabs there are.
Known == Ids(server.tabs) \cup Brought(log) \cup CacheTabs(cache)

\* A tab stays in its workspace, and no new id is the id of a tab.
Settled(records, fresh) ==
    /\ \A r \in records : {"id", "ws"} \subseteq DOMAIN r /\ r.id \notin fresh
    /\ \A r, q \in records : r.id = q.id => r.ws = q.ws

\* A reorder lists tabs of one workspace.
Homely(events) ==
    \A e \in Ids(events) : e.type = "TabMoved" => \A r \in Ids(e.tabs) : r.ws = e.ws

\* tabs are held by their id.
Keyed(c) == \A x \in DOMAIN c.tabs.entries : c.tabs.entries[x].id = x

\* Every tab that was reported, is held or is still to be made is in one workspace for
\* good.
HomeInv ==
    /\ IsList(server.freshT) /\ Distinct(server.freshT)
    /\ Settled(Known, Ids(server.freshT))
    /\ Homely(log)
    /\ cache # Absent => Keyed(cache)

\* The event applied last is one that changes nothing any more.
IInv == ServerInv(server) /\ LogInv /\ CacheInv /\ HomeInv /\ ApplyIsIdempotent

\* No snapshot yet, no event: the subscription was just accepted.
LEMMA InitInv == Init => IInv
<1> SUFFICES ASSUME Init PROVE IInv
    OBVIOUS
<1>1. ServerInv(server)
    BY ServerAssumption, SeqIsList DEF Init, ServerInv
<1>2. Reported(<<>>) /\ Ids(<<>>) = {}
    BY DEF Reported, IsList, Ids
<1>3. server = InitialServer /\ log = <<>> /\ cache = Absent /\ applied = 0
    BY DEF Init
<1>4. IsList(server.freshT) /\ Distinct(server.freshT)
  <2>1. IsList(server.freshT)
      BY <1>3, TabIdsAssumption, SeqIsList
  <2>2. DOMAIN server.freshT = 1..Len(server.freshT)
      BY <2>1 DEF IsList
  <2> QED
      BY <1>3, <2>1, <2>2, TabIdsAssumption DEF Distinct
<1>5. Settled(Ids(server.tabs), Ids(server.freshT))
  <2>1. IsList(server.tabs)
      BY <1>1 DEF ServerInv
  <2>2. /\ DOMAIN server.tabs = 1..Len(server.tabs)
        /\ DOMAIN server.freshT = 1..Len(server.freshT)
      BY <1>4, <2>1 DEF IsList
  <2>3. /\ \A r, q \in Ids(server.tabs) : r.id = q.id => r = q
        /\ \A r \in Ids(server.tabs) : {"id", "ws"} \subseteq DOMAIN r
    <3>1. \A r \in Ids(server.tabs) : \E i \in DOMAIN server.tabs : r = server.tabs[i]
        BY <2>2 DEF Ids
    <3> QED
        BY <1>3, <3>1, TabIdsAssumption
  <2>4. \A r \in Ids(server.tabs) : r.id \notin Ids(server.freshT)
    <3> SUFFICES ASSUME NEW r \in Ids(server.tabs), r.id \in Ids(server.freshT) PROVE FALSE
        OBVIOUS
    <3>1. PICK i \in DOMAIN server.tabs : r = server.tabs[i]
        BY <2>2 DEF Ids
    <3>2. PICK j \in DOMAIN server.freshT : r.id = server.freshT[j]
        BY <2>2 DEF Ids
    <3> QED
        BY <1>3, <3>1, <3>2, TabIdsAssumption
  <2> QED
      BY <2>3, <2>4 DEF Settled
<1>6. Known = Ids(server.tabs)
    BY <1>2, <1>3 DEF Known, Brought, CacheTabs
<1>7. HomeInv
    BY <1>2, <1>3, <1>4, <1>5, <1>6 DEF HomeInv, Homely
<1>8. ApplyIsIdempotent
    BY <1>3 DEF ApplyIsIdempotent
<1> QED
    BY <1>1, <1>2, <1>3, <1>7, <1>8 DEF IInv, LogInv, CacheInv

\* Fewer records and fewer new ids.
LEMMA SettledFewer ==
    ASSUME NEW R, NEW F, NEW Q, NEW G, Settled(R, F), Q \subseteq R, G \subseteq F
    PROVE  Settled(Q, G)
    BY DEF Settled

\* An operation of the server appends to the log and leaves the mirror alone: of
\* the tabs it may only know those that were known, and some settled with them.
LEMMA OperateInv ==
    ASSUME NEW state, NEW events, NEW R, IInv, Operate(state, events),
           ServerInv(state), Reported(events),
           IsList(state.freshT), Distinct(state.freshT),
           Settled(Known \cup R, Ids(state.freshT)), Ids(state.tabs) \subseteq Known \cup R,
           \A e \in Ids(events) : EventTabs(e) \subseteq Known \cup R,
           Homely(events)
    PROVE  IInv'
<1>1. log' = log \o events /\ UNCHANGED <<cache, applied>> /\ server' = state
    BY DEF Operate
<1>2. Reported(log')
    BY <1>1, ReportedMore DEF IInv, LogInv
<1>3. /\ Len(log) \in Nat /\ Len(log') \in Nat /\ Len(log) <= Len(log')
      /\ \A i \in 1..Len(log) : log'[i] = log[i]
  <2> DEFINE X == Ids(log)
             Y == Ids(events)
  <2>1. log \in Seq(X) /\ events \in Seq(Y)
      BY DEF IInv, LogInv, Reported, IsList
  <2> HIDE DEF X, Y
  <2>2. Len(log \o events) = Len(log) + Len(events)
      BY <2>1
  <2>3. \A i \in 1..Len(log) : (log \o events)[i] = log[i]
      BY <2>1
  <2> QED
      BY <1>1, <2>1, <2>2, <2>3
<1>4. LogInv'
    BY <1>1, <1>2, <1>3 DEF IInv, LogInv
<1>5. ServerInv(server)'
    BY <1>1
<1>6. Ids(log') \subseteq Ids(log) \cup Ids(events)
    BY <1>1, ConcatList DEF IInv, LogInv, Reported
<1>7. HomeInv'
  <2>1. Known' \subseteq Known \cup R
    <3>1. Brought(log') \subseteq Known \cup R
        BY <1>6 DEF Known, Brought
    <3>2. Known' = Ids(state.tabs) \cup Brought(log') \cup CacheTabs(cache)
        BY <1>1 DEF Known
    <3> QED
        BY <3>1, <3>2 DEF Known
  <2>2. Settled(Known', Ids(state.freshT))
      BY <2>1, SettledFewer
  <2>3. Homely(log')
      BY <1>6 DEF IInv, HomeInv, Homely
  <2> QED
      BY <1>1, <2>2, <2>3 DEF IInv, HomeInv
<1>8. ApplyIsIdempotent'
  <2>1. applied > 0 => log'[applied] = log[applied]
      BY <1>3 DEF IInv, LogInv
  <2> QED
      BY <1>1, <2>1 DEF IInv, ApplyIsIdempotent, Bootstrapped
<1> QED
    BY <1>1, <1>4, <1>5, <1>7, <1>8 DEF IInv, CacheInv

\* A record of the same tab in the same workspace.
Like(r, q) == {"id", "ws"} \subseteq DOMAIN r /\ r.id = q.id /\ r.ws = q.ws

\* More records of the tabs that are known.
LEMMA SettledLike ==
    ASSUME NEW R, NEW F, NEW Q, Settled(R, F), \A r \in Q : \E q \in R : Like(r, q)
    PROVE  Settled(R \cup Q, F)
<1>1. \A r \in R \cup Q : \E q \in R : Like(r, q)
    BY DEF Like, Settled
<1> QED
    BY <1>1 DEF Like, Settled

\* A list of records of tabs the server has, and events that carry none.
Kept(tabs) == \A r \in Ids(tabs) : \E q \in Ids(server.tabs) : Like(r, q)
\* An event that brings no tab.
Quiet(e) == /\ e.type \notin {"TabCreated", "TabMoved"}
            /\ e.type = "PaneMoved" => e.createdTab = Absent
\* Events that bring no tab.
Calm(events) == \A e \in Ids(events) : Quiet(e)

\* An operation that makes no tab and reports none.
LEMMA OperateKept ==
    ASSUME NEW state, NEW events, IInv, Operate(state, events),
           ServerInv(state), Reported(events),
           state.freshT = server.freshT, Kept(state.tabs), Calm(events)
    PROVE  IInv'
<1> DEFINE R == Ids(state.tabs)
<1>1. Settled(Known \cup R, Ids(state.freshT))
  <2>1. \A r \in R : \E q \in Known : Like(r, q)
      BY DEF Kept, Known
  <2> QED
      BY <2>1, SettledLike DEF IInv, HomeInv
<1>2. \A e \in Ids(events) : EventTabs(e) = {} /\ e.type # "TabMoved"
    BY DEF Calm, Quiet, EventTabs
<1>3. IsList(state.freshT) /\ Distinct(state.freshT)
    BY DEF IInv, HomeInv
<1>4. Homely(events) /\ Ids(state.tabs) \subseteq Known \cup R
    BY <1>2 DEF Homely
<1> HIDE DEF R
<1> QED
    BY <1>1, <1>2, <1>3, <1>4, OperateInv

\* The tabs an operation leaves alone, takes some of, or rewrites a label or the
\* flag of, are in their workspaces.
LEMMA KeptTabs ==
    ASSUME IInv
    PROVE  /\ Kept(server.tabs)
           /\ \A set : Kept(Among(server.tabs, set))
           /\ \A id, label : Kept(Relabelled(server.tabs, id, label))
           /\ \A id : Kept(FocusedIn(server.tabs, id))
<1> DEFINE s == server.tabs
<1>1. /\ IsList(s) /\ DOMAIN s = 1..Len(s) /\ Len(s) \in Nat
      /\ \A i \in 1..Len(s) : s[i] \in Ids(s)
    BY DEF IInv, ServerInv, IsList, Ids
<1>2. \A r \in Ids(s) : {"id", "ws"} \subseteq DOMAIN r /\ Like(r, r)
    BY DEF IInv, HomeInv, Settled, Known, Like
<1> HIDE DEF s
<1>3. \A set : Ids(Among(s, set)) \subseteq Ids(s)
    BY <1>1, AmongFacts DEF IsList
<1>4. ASSUME NEW f, f = [i \in 1..Len(s) |-> f[i]],
             \A i \in 1..Len(s) : Like(f[i], s[i])
      PROVE  Kept(f)
  <2>1. Len(f) = Len(s)
      BY <1>1, <1>4
  <2> QED
      BY <1>1, <1>4, <2>1 DEF Kept, Ids, s
<1>5. ASSUME NEW id, NEW label PROVE Kept(Relabelled(s, id, label))
  <2> DEFINE f == Relabelled(s, id, label)
  <2>1. f = [i \in 1..Len(s) |-> IF s[i].id = id THEN [s[i] EXCEPT !.label = label] ELSE s[i]]
      BY <1>1 DEF Relabelled
  <2>2. \A i \in 1..Len(s) : Like([s[i] EXCEPT !.label = label], s[i]) /\ Like(s[i], s[i])
      BY <1>1, <1>2 DEF Like
  <2> HIDE DEF f
  <2>3. f = [i \in 1..Len(s) |-> f[i]] /\ \A i \in 1..Len(s) : Like(f[i], s[i])
      BY <2>1, <2>2
  <2> QED
      BY <1>4, <2>3 DEF f
<1>6. ASSUME NEW id PROVE Kept(FocusedIn(s, id))
  <2> DEFINE f == FocusedIn(s, id)
  <2>1. f = [i \in 1..Len(s) |-> [s[i] EXCEPT !.focused = (s[i].id = id)]]
      BY <1>1 DEF FocusedIn
  <2>2. \A i \in 1..Len(s) : \A v : Like([s[i] EXCEPT !.focused = v], s[i])
      BY <1>1, <1>2 DEF Like
  <2> HIDE DEF f
  <2>3. f = [i \in 1..Len(s) |-> f[i]] /\ \A i \in 1..Len(s) : Like(f[i], s[i])
      BY <2>1, <2>2
  <2> QED
      BY <1>4, <2>3 DEF f
<1> QED
    BY <1>2, <1>3, <1>5, <1>6 DEF Kept, s

\* One, two or three events that carry no tab.
LEMMA CalmTuples ==
    /\ \A d : Quiet(d) => Calm(<<d>>)
    /\ \A d, e : Quiet(d) /\ Quiet(e) => Calm(<<d, e>>)
    /\ \A d, e, f : Quiet(d) /\ Quiet(e) /\ Quiet(f) => Calm(<<d, e, f>>)
    BY DEF Calm, Ids

\* Events of which none lists tabs in order and any that carries one carries tab.
Makes(events, tab) ==
    \A e \in Ids(events) : e.type # "TabMoved" /\ EventTabs(e) \subseteq {tab}

\* An operation that makes one tab: its id is the next of those not given out.
LEMMA OperateMakes ==
    ASSUME NEW state, NEW events, NEW tab, IInv, Operate(state, events),
           ServerInv(state), Reported(events), Makes(events, tab),
           server.freshT # <<>>, tab.id = Head(server.freshT),
           {"id", "ws"} \subseteq DOMAIN tab,
           state.freshT = Tail(server.freshT),
           state.tabs = Append(server.tabs, tab)
    PROVE  IInv'
<1> DEFINE f == server.freshT
           g == Tail(f)
           X == Ids(f)
<1>1. f \in Seq(X) /\ Distinct(f) /\ f # <<>> /\ Settled(Known, X)
    BY DEF IInv, HomeInv, IsList
<1>2. Ids(f) = {f[i] : i \in 1..Len(f)}
    BY DEF Ids
<1> HIDE DEF f, X
<1>3. /\ g \in Seq(X) /\ Len(f) \in Nat /\ Len(f) > 0 /\ Len(g) = Len(f) - 1
      /\ \A i \in 1..Len(g) : g[i] = f[i + 1]
      /\ Head(f) = f[1]
    BY <1>1
<1> HIDE DEF g
<1>4. IsList(g)
    BY <1>3, SeqIsList
<1>5. Distinct(g)
    BY <1>1, <1>3 DEF Distinct
<1>6. Ids(g) \subseteq X
    BY <1>3 DEF Ids
<1>7. Head(f) \notin Ids(g) /\ Head(f) \in X
  <2>1. \A i \in 1..Len(g) : g[i] # f[1]
      BY <1>1, <1>3 DEF Distinct
  <2> QED
      BY <1>2, <1>3, <2>1 DEF Ids, X, f
<1>8. Settled(Known \cup {tab}, Ids(g))
  <2>1. \A r \in Known : {"id", "ws"} \subseteq DOMAIN r /\ r.id \notin X
      BY <1>1 DEF Settled
  <2>2. \A r, q \in Known : r.id = q.id => r.ws = q.ws
      BY <1>1 DEF Settled
  <2>3. tab.id = Head(f)
      BY DEF f
  <2>4. \A r \in Known : r.id # tab.id
      BY <1>7, <2>1, <2>3
  <2> QED
      BY <1>6, <1>7, <2>1, <2>2, <2>3, <2>4 DEF Settled
<1>9. Ids(state.tabs) \subseteq Known \cup {tab}
  <2>1. server.tabs \in Seq(Ids(server.tabs) \cup {tab})
    <3>1. server.tabs \in Seq(Ids(server.tabs))
        BY DEF IInv, ServerInv, IsList
    <3> QED
        BY <3>1, Narrow
  <2>2. Ids(Append(server.tabs, tab)) = Ids(server.tabs) \cup {tab}
      BY <2>1, AppendFacts
  <2> QED
      BY <2>2 DEF Known
<1>10. /\ \A e \in Ids(events) : EventTabs(e) \subseteq Known \cup {tab}
       /\ Homely(events)
    BY DEF Makes, Homely
<1>11. state.freshT = g
    BY DEF f, g
<1> QED
    BY <1>4, <1>5, <1>8, <1>9, <1>10, <1>11, OperateInv

\* The event that brings a tab, and two that bring none.
LEMMA MakesThree ==
    ASSUME NEW d, NEW e, NEW f, NEW tab, Quiet(e), Quiet(f),
           d.type # "TabMoved", EventTabs(d) \subseteq {tab}
    PROVE  Makes(<<d, e, f>>, tab)
<1>1. /\ e.type # "TabMoved" /\ EventTabs(e) = {}
      /\ f.type # "TabMoved" /\ EventTabs(f) = {}
    BY DEF Quiet, EventTabs
<1>2. Ids(<<d, e, f>>) \subseteq {d, e, f}
  <2>1. <<d, e, f>> \in Seq({d, e, f})
      OBVIOUS
  <2> QED
      BY <2>1 DEF Ids
<1> QED
    BY <1>1, <1>2 DEF Makes

\* Panes and layouts stay finite when one is added, taken away or replaced.
LEMMA FiniteSteps ==
    ASSUME NEW T, NEW x, NEW y, IsFiniteSet(T)
    PROVE  /\ IsFiniteSet(T \cup {y})
           /\ IsFiniteSet(T \ {x})
           /\ IsFiniteSet((T \ {x}) \cup {y})
           /\ \A U : U \subseteq T => IsFiniteSet(U) /\ IsFiniteSet(U \cup {y})
    BY FS_AddElement, FS_RemoveElement, FS_Subset

\* What the server says about one pane or one layout decodes.
LEMMA PlainEvents ==
    /\ \A pane : Decoded(PaneSet(pane))
    /\ \A layout : Decoded(LayoutUpdated(layout))
    /\ \A pane : Quiet(PaneSet(pane))
    /\ \A layout : Quiet(LayoutUpdated(layout))
    BY DEF Decoded, Quiet, PaneSet, LayoutUpdated

\* A pane is replaced and an event about it is pushed.
LEMMA ChangePaneInv ==
    ASSUME NEW pane, NEW new, NEW event, IInv, ChangePane(pane, new, <<event>>),
           event.type \notin {"WorkspaceMoved", "TabCreated", "TabMoved", "PaneMoved"}
    PROVE  IInv'
<1> DEFINE state == [server EXCEPT !.panes = (@ \ {pane}) \cup {new}]
<1>1. Operate(state, <<event>>)
    BY DEF ChangePane
<1>2. ServerInv(state)
    BY FiniteSteps DEF IInv, ServerInv
<1>3. Reported(<<event>>)
    BY ReportedOne DEF Decoded
<1>4. state.freshT = server.freshT /\ Kept(state.tabs)
    BY KeptTabs DEF IInv, ServerInv
<1>5. Calm(<<event>>)
    BY CalmTuples DEF Quiet
<1> HIDE DEF state
<1> QED
    BY <1>1, <1>2, <1>3, <1>4, <1>5, OperateKept

\* workspace.created, renamed, moved and closed.
LEMMA WorkspaceSteps ==
    ASSUME IInv, \/ CreateWorkspace \/ MoveWorkspace
                 \/ \E w :
                       \/ \E label \in Labels : RenameWorkspace(w, label)
                       \/ CloseWorkspace(w)
    PROVE  IInv'
<1>1. CASE CreateWorkspace
  <2> DEFINE w == [id |-> Head(server.freshW), label |-> "new", focused |-> FALSE]
             state == [server EXCEPT !.freshW = Tail(@), !.workspaces = Append(@, w)]
             event == [type |-> "WorkspaceSet", workspace |-> w]
  <2>1. Operate(state, <<event>>)
      BY <1>1 DEF CreateWorkspace
  <2>2. ServerInv(state)
      BY AppendList DEF IInv, ServerInv
  <2>3. Reported(<<event>>)
      BY ReportedOne DEF Decoded
  <2>20. state.freshT = server.freshT /\ Kept(state.tabs)
      BY KeptTabs DEF IInv, ServerInv
  <2>21. Calm(<<event>>)
      BY CalmTuples, PlainEvents DEF Quiet
  <2> HIDE DEF state, event
  <2> QED
      BY <2>1, <2>2, <2>3, <2>20, <2>21, OperateKept
<1>2. CASE MoveWorkspace
  <2> DEFINE moved == Append(Tail(server.workspaces), Head(server.workspaces))
             state == [server EXCEPT !.workspaces = moved]
             event == [type |-> "WorkspaceMoved", workspaces |-> moved]
  <2>1. Operate(state, <<event>>) /\ Len(server.workspaces) > 1
      BY <1>2 DEF MoveWorkspace
  <2>2. IsList(moved)
      BY <2>1, RotateList DEF IInv, ServerInv
  <2> HIDE DEF moved
  <2>3. ServerInv(state)
      BY <2>2 DEF IInv, ServerInv
  <2>4. Reported(<<event>>)
      BY <2>2, ReportedOne DEF Decoded
  <2>20. state.freshT = server.freshT /\ Kept(state.tabs)
      BY KeptTabs DEF IInv, ServerInv
  <2>21. Calm(<<event>>)
      BY CalmTuples, PlainEvents DEF Quiet
  <2> HIDE DEF state, event
  <2> QED
      BY <2>1, <2>3, <2>4, <2>20, <2>21, OperateKept
<1>3. ASSUME NEW w, NEW label, RenameWorkspace(w, label) PROVE IInv'
  <2> DEFINE renamed == Relabelled(server.workspaces, w.id, label)
             state == [server EXCEPT !.workspaces = renamed]
             event == [type |-> "WorkspaceRenamed", id |-> w.id, label |-> label]
  <2>1. Operate(state, <<event>>)
      BY <1>3 DEF RenameWorkspace
  <2>2. IsList(renamed)
      BY MapList DEF IInv, ServerInv, Relabelled
  <2> HIDE DEF renamed
  <2>3. ServerInv(state)
      BY <2>2 DEF IInv, ServerInv
  <2>4. Reported(<<event>>)
      BY ReportedOne DEF Decoded
  <2>20. state.freshT = server.freshT /\ Kept(state.tabs)
      BY KeptTabs DEF IInv, ServerInv
  <2>21. Calm(<<event>>)
      BY CalmTuples, PlainEvents DEF Quiet
  <2> HIDE DEF state, event
  <2> QED
      BY <2>1, <2>3, <2>4, <2>20, <2>21, OperateKept
<1>4. ASSUME NEW w, CloseWorkspace(w) PROVE IInv'
  <2> DEFINE inside(r) == r.ws = w.id
             workspaces == SeqWithout(server.workspaces, LAMBDA r : r.id = w.id)
             tabs == SeqWithout(server.tabs, inside)
             panes == Without(server.panes, inside)
             layouts == Without(server.layouts, inside)
             state == [server EXCEPT !.workspaces = workspaces, !.tabs = tabs,
                                     !.panes = panes, !.layouts = layouts]
             event == [type |-> "WorkspaceClosed", id |-> w.id]
  <2>1. Operate(state, <<event>>)
      BY <1>4 DEF CloseWorkspace
  <2>2. IsList(workspaces) /\ IsList(tabs)
      BY AmongList DEF IInv, ServerInv, SeqWithout
  <2>3. panes \subseteq server.panes /\ layouts \subseteq server.layouts
      BY DEF Without
  <2>4. IsFiniteSet(panes) /\ IsFiniteSet(layouts)
      BY <2>3, FiniteSteps DEF IInv, ServerInv
  <2>19. Kept(tabs)
      BY KeptTabs DEF SeqWithout
  <2> HIDE DEF workspaces, tabs, panes, layouts
  <2>5. ServerInv(state)
      BY <2>2, <2>4 DEF IInv, ServerInv
  <2>6. Reported(<<event>>)
      BY ReportedOne DEF Decoded
  <2>20. state.freshT = server.freshT /\ Kept(state.tabs)
      BY <2>19 DEF IInv, ServerInv
  <2>21. Calm(<<event>>)
      BY CalmTuples, PlainEvents DEF Quiet
  <2> HIDE DEF state, event
  <2> QED
      BY <2>1, <2>5, <2>6, <2>20, <2>21, OperateKept
<1> QED
    BY <1>1, <1>2, <1>3, <1>4

\* tab.created, renamed, moved, closed, and a new pane in one.
LEMMA TabSteps ==
    ASSUME IInv, \/ \E w : CreateTab(w) \/ MoveTab(w.id)
                 \/ \E tab : \/ \E label \in Labels : RenameTab(tab, label)
                             \/ CloseTab(tab)
                             \/ CreatePane(tab)
    PROVE  IInv'
<1>1. ASSUME NEW w, CreateTab(w) PROVE IInv'
  <2> DEFINE tab == [id |-> Head(server.freshT), ws |-> w.id, label |-> "new",
                     focused |-> FALSE]
             pane == NewPane(Head(server.freshP), tab.id, w.id)
             layout == [tab |-> tab.id, ws |-> w.id, focusedPane |-> pane.id]
             state == [server EXCEPT !.freshT = Tail(@), !.freshP = Tail(@),
                                     !.tabs = Append(@, tab), !.panes = @ \cup {pane},
                                     !.layouts = @ \cup {layout}]
             event == [type |-> "TabCreated", tab |-> tab]
             events == <<event, PaneSet(pane), LayoutUpdated(layout)>>
  <2>1. Operate(state, events)
      BY <1>1 DEF CreateTab
  <2>5. /\ server.freshT # <<>> /\ tab.id = Head(server.freshT)
        /\ {"id", "ws"} \subseteq DOMAIN tab
      BY <1>1 DEF CreateTab
  <2> HIDE DEF tab, pane, layout
  <2>2. ServerInv(state)
      BY AppendList, FiniteSteps DEF IInv, ServerInv
  <2>3. Decoded(event)
      BY DEF Decoded
  <2>4. Reported(events)
      BY <2>3, PlainEvents, ReportedThree
  <2>6. event.type # "TabMoved" /\ EventTabs(event) \subseteq {tab}
      BY DEF EventTabs
  <2> HIDE DEF event
  <2>7. Makes(events, tab)
      BY <2>6, PlainEvents, MakesThree
  <2>8. state.freshT = Tail(server.freshT) /\ state.tabs = Append(server.tabs, tab)
      BY DEF IInv, ServerInv
  <2> HIDE DEF state, events
  <2> QED
      BY <2>1, <2>2, <2>4, <2>5, <2>7, <2>8, OperateMakes
<1>2. ASSUME NEW ws, MoveTab(ws) PROVE IInv'
  <2> DEFINE inside(tab) == tab.ws = ws
             tabs == SeqWithout(server.tabs, LAMBDA tab : ~inside(tab))
             moved == Append(Tail(tabs), Head(tabs))
             rest == SeqWithout(server.tabs, inside)
             state == [server EXCEPT !.tabs = rest \o moved]
             event == [type |-> "TabMoved", ws |-> ws, tabs |-> moved]
  <2>1. Operate(state, <<event>>) /\ Len(tabs) > 1
      BY <1>2 DEF MoveTab
  <2>2. IsList(tabs) /\ IsList(rest)
      BY AmongList DEF IInv, ServerInv, SeqWithout
  <2>6. /\ Ids(rest) \subseteq Ids(server.tabs)
        /\ Ids(tabs) \subseteq {r \in Ids(server.tabs) : r.ws = ws}
    <3>1. server.tabs \in Seq(Ids(server.tabs))
        BY DEF IInv, ServerInv, IsList
    <3>2. \A set : Ids(Among(server.tabs, set)) = Ids(server.tabs) \cap set
        BY <3>1, AmongFacts
    <3> QED
        BY <3>2 DEF SeqWithout
  <2> HIDE DEF tabs, rest
  <2>3. IsList(moved)
      BY <2>1, <2>2, RotateList
  <2>7. Ids(moved) \subseteq Ids(tabs)
    <3>1. /\ tabs \in Seq(Ids(tabs)) /\ tabs # <<>>
          /\ \A i \in 1..Len(tabs) : tabs[i] \in Ids(tabs)
        BY <2>1, <2>2 DEF IsList, Ids
    <3>2. Tail(tabs) \in Seq(Ids(tabs)) /\ Head(tabs) \in Ids(tabs)
        BY <3>1
    <3>3. moved \in Seq(Ids(tabs))
        BY <3>2
    <3> HIDE DEF moved
    <3> QED
        BY <3>3 DEF Ids
  <2> HIDE DEF moved
  <2>4. ServerInv(state)
      BY <2>2, <2>3, ConcatList DEF IInv, ServerInv
  <2>5. Reported(<<event>>)
      BY <2>3, ReportedOne DEF Decoded
  <2>8. Ids(state.tabs) \subseteq Ids(server.tabs)
    <3>1. state.tabs = rest \o moved
        BY DEF IInv, ServerInv
    <3> QED
        BY <2>2, <2>3, <2>6, <2>7, <3>1, ConcatList
  <2>9. state.freshT = server.freshT
      BY DEF IInv, ServerInv
  <2>10. Ids(<<event>>) \subseteq {event}
      BY DEF Ids
  <2>11. EventTabs(event) = Ids(moved) /\ event.ws = ws /\ event.tabs = moved
      BY DEF EventTabs
  <2> HIDE DEF state, event
  <2>12. \A e \in Ids(<<event>>) : EventTabs(e) \subseteq Known
      BY <2>6, <2>7, <2>10, <2>11 DEF Known
  <2>13. Homely(<<event>>)
      BY <2>6, <2>7, <2>10, <2>11 DEF Homely
  <2>14. /\ IsList(state.freshT) /\ Distinct(state.freshT)
         /\ Settled(Known \cup {}, Ids(state.freshT))
         /\ Ids(state.tabs) \subseteq Known
      BY <2>8, <2>9 DEF IInv, HomeInv, Known
  <2> QED
      BY <2>1, <2>4, <2>5, <2>12, <2>13, <2>14, OperateInv
<1>3. ASSUME NEW tab, NEW label, RenameTab(tab, label) PROVE IInv'
  <2> DEFINE renamed == Relabelled(server.tabs, tab.id, label)
             state == [server EXCEPT !.tabs = renamed]
             event == [type |-> "TabRenamed", id |-> tab.id, label |-> label]
  <2>1. Operate(state, <<event>>)
      BY <1>3 DEF RenameTab
  <2>2. IsList(renamed)
      BY MapList DEF IInv, ServerInv, Relabelled
  <2>19. Kept(renamed)
      BY KeptTabs
  <2> HIDE DEF renamed
  <2>3. ServerInv(state)
      BY <2>2 DEF IInv, ServerInv
  <2>4. Reported(<<event>>)
      BY ReportedOne DEF Decoded
  <2>20. state.freshT = server.freshT /\ Kept(state.tabs)
      BY <2>19 DEF IInv, ServerInv
  <2>21. Calm(<<event>>)
      BY CalmTuples, PlainEvents DEF Quiet
  <2> HIDE DEF state, event
  <2> QED
      BY <2>1, <2>3, <2>4, <2>20, <2>21, OperateKept
<1>4. ASSUME NEW tab, CloseTab(tab) PROVE IInv'
  <2> DEFINE inside(r) == r.tab = tab.id
             tabs == SeqWithout(server.tabs, LAMBDA r : r.id = tab.id)
             panes == Without(server.panes, inside)
             layouts == Without(server.layouts, inside)
             state == [server EXCEPT !.tabs = tabs, !.panes = panes, !.layouts = layouts]
             event == [type |-> "TabClosed", id |-> tab.id]
  <2>1. Operate(state, <<event>>)
      BY <1>4 DEF CloseTab
  <2>2. IsList(tabs)
      BY AmongList DEF IInv, ServerInv, SeqWithout
  <2>3. panes \subseteq server.panes /\ layouts \subseteq server.layouts
      BY DEF Without
  <2>4. IsFiniteSet(panes) /\ IsFiniteSet(layouts)
      BY <2>3, FiniteSteps DEF IInv, ServerInv
  <2>19. Kept(tabs)
      BY KeptTabs DEF SeqWithout
  <2> HIDE DEF tabs, panes, layouts
  <2>5. ServerInv(state)
      BY <2>2, <2>4 DEF IInv, ServerInv
  <2>6. Reported(<<event>>)
      BY ReportedOne DEF Decoded
  <2>20. state.freshT = server.freshT /\ Kept(state.tabs)
      BY <2>19 DEF IInv, ServerInv
  <2>21. Calm(<<event>>)
      BY CalmTuples, PlainEvents DEF Quiet
  <2> HIDE DEF state, event
  <2> QED
      BY <2>1, <2>5, <2>6, <2>20, <2>21, OperateKept
<1>5. ASSUME NEW tab, CreatePane(tab) PROVE IInv'
  <2> DEFINE pane == NewPane(Head(server.freshP), tab.id, tab.ws)
             layout == LayoutFor(tab.id, tab.ws, PanesIn(tab.id) \cup {pane},
                                 FocusedPaneOf(tab.id))
             layouts == ReplaceLayout(server.layouts, layout)
             state == [server EXCEPT !.freshP = Tail(@), !.panes = @ \cup {pane},
                                     !.layouts = layouts]
             events == <<PaneSet(pane), LayoutUpdated(layout)>>
  <2>1. Operate(state, events)
      BY <1>5 DEF CreatePane
  <2> HIDE DEF pane, layout
  <2>2. IsFiniteSet(layouts)
      BY FiniteSteps DEF IInv, ServerInv, ReplaceLayout
  <2> HIDE DEF layouts
  <2>3. ServerInv(state)
      BY <2>2, FiniteSteps DEF IInv, ServerInv
  <2>4. Reported(events)
      BY PlainEvents, ReportedTwo
  <2>20. state.freshT = server.freshT /\ Kept(state.tabs)
      BY KeptTabs DEF IInv, ServerInv
  <2>21. Calm(events)
      BY CalmTuples, PlainEvents DEF Quiet
  <2> HIDE DEF state, events
  <2> QED
      BY <2>1, <2>3, <2>4, <2>20, <2>21, OperateKept
<1> QED
    BY <1>1, <1>2, <1>3, <1>4, <1>5

\* pane.moved: a pane moves to another tab, or to one that is made for it.
LEMMA MovePaneSteps ==
    ASSUME IInv, NEW pane, BreakOutPane(pane) \/ \E tab : MovePane(pane, tab)
    PROVE  IInv'
<1>1. ASSUME NEW tab, MovePane(pane, tab) PROVE IInv'
  <2> DEFINE new == [pane EXCEPT !.id = Head(server.freshP), !.tab = tab.id, !.ws = tab.ws]
             rest == PanesIn(pane.tab) \ {pane}
             closes == rest = {}
             target == LayoutFor(tab.id, tab.ws, PanesIn(tab.id) \cup {new},
                                 FocusedPaneOf(tab.id))
             source == IF closes THEN {}
                       ELSE {LayoutFor(pane.tab, pane.ws, rest, FocusedPaneOf(pane.tab))}
             kept == {l \in server.layouts : l.tab \notin {tab.id, pane.tab}}
             layouts == kept \cup source \cup {target}
             tabs == IF closes THEN SeqWithout(server.tabs, LAMBDA t : t.id = pane.tab)
                     ELSE server.tabs
             state == [server EXCEPT
                   !.freshP = Tail(@),
                   !.panes = (@ \ {pane}) \cup {new},
                   !.names = [@ EXCEPT ![new.id] = server.names[pane.id]],
                   !.tabs = tabs,
                   !.layouts = layouts]
             event == [type |-> "PaneMoved", previous |-> pane.id, pane |-> new,
                       createdWorkspace |-> Absent, createdTab |-> Absent,
                       closedTab |-> IF closes THEN pane.tab ELSE Absent,
                       closedWorkspace |-> Absent]
             updates == {LayoutUpdated(l) : l \in source \cup {target}}
             events == <<event>> \o S!SetToSeq(updates)
  <2>1. Operate(state, events)
      BY <1>1 DEF MovePane
  <2>2. IsList(tabs)
      BY AmongList DEF IInv, ServerInv, SeqWithout
  <2>3. IsFiniteSet(source \cup {target})
      BY FS_EmptySet, FS_Singleton, FS_AddElement
  <2>19. Kept(tabs)
      BY KeptTabs DEF SeqWithout
  <2> HIDE DEF source, target, tabs
  <2>4. IsFiniteSet(kept)
      BY FiniteSteps DEF IInv, ServerInv
  <2> HIDE DEF kept
  <2>5. layouts = kept \cup (source \cup {target})
      OBVIOUS
  <2>6. IsFiniteSet(layouts)
      BY <2>3, <2>4, <2>5, FS_Union
  <2> HIDE DEF layouts
  <2>7. ServerInv(state)
      BY <2>2, <2>6, FiniteSteps DEF IInv, ServerInv
  <2>8. IsFiniteSet(updates)
    <3> DEFINE T == source \cup {target}
               f == [l \in T |-> LayoutUpdated(l)]
    <3>1. f \in [T -> updates] /\ \A r \in updates : \E l \in T : f[l] = r
        OBVIOUS
    <3>2. IsFiniteSet(T)
        BY <2>3
    <3> HIDE DEF f, T, updates
    <3> QED
        BY <3>1, <3>2, ImageFinite
  <2>9. \A e \in updates : Decoded(e) /\ Quiet(e)
      BY PlainEvents
  <2> HIDE DEF updates
  <2>10. S!SetToSeq(updates) \in Seq(updates)
      BY <2>8, SetToSeqList
  <2>11. IsList(S!SetToSeq(updates)) /\ Ids(S!SetToSeq(updates)) \subseteq updates
      BY <2>10, SeqIsList DEF Ids
  <2>12. Reported(<<event>>)
      BY ReportedOne DEF Decoded
  <2>14. Calm(<<event>>)
      BY CalmTuples DEF Quiet
  <2> HIDE DEF event
  <2>13. Reported(events)
      BY <2>9, <2>11, <2>12, ReportedMore DEF Reported
  <2>20. state.freshT = server.freshT /\ Kept(state.tabs)
      BY <2>19 DEF IInv, ServerInv
  <2>21. Calm(events)
    <3>1. IsList(<<event>>)
        BY <2>12 DEF Reported
    <3>2. Ids(events) \subseteq Ids(<<event>>) \cup Ids(S!SetToSeq(updates))
        BY <2>11, <3>1, ConcatList
    <3> QED
        BY <2>9, <2>11, <2>14, <3>2 DEF Calm
  <2> HIDE DEF state, events
  <2> QED
      BY <2>1, <2>7, <2>13, <2>20, <2>21, OperateKept
<1>2. ASSUME BreakOutPane(pane) PROVE IInv'
  <2> DEFINE w == [id |-> Head(server.freshW), label |-> "new", focused |-> FALSE]
             tab == [id |-> Head(server.freshT), ws |-> w.id, label |-> "new",
                     focused |-> FALSE]
             new == [pane EXCEPT !.id = Head(server.freshP), !.tab = tab.id, !.ws = w.id]
             target == [tab |-> tab.id, ws |-> w.id, focusedPane |-> new.id]
             source == LayoutFor(pane.tab, pane.ws, PanesIn(pane.tab) \ {pane},
                                 FocusedPaneOf(pane.tab))
             replaced == ReplaceLayout(server.layouts, source)
             state == [server EXCEPT
                   !.freshP = Tail(@), !.freshT = Tail(@), !.freshW = Tail(@),
                   !.panes = (@ \ {pane}) \cup {new},
                   !.names = [@ EXCEPT ![new.id] = server.names[pane.id]],
                   !.workspaces = Append(@, w), !.tabs = Append(@, tab),
                   !.layouts = replaced \cup {target}]
             event == [type |-> "PaneMoved", previous |-> pane.id, pane |-> new,
                       createdWorkspace |-> w, createdTab |-> tab,
                       closedTab |-> Absent, closedWorkspace |-> Absent]
             events == <<event, LayoutUpdated(source), LayoutUpdated(target)>>
  <2>1. Operate(state, events)
      BY <1>2 DEF BreakOutPane
  <2>6. /\ server.freshT # <<>> /\ tab.id = Head(server.freshT)
        /\ {"id", "ws"} \subseteq DOMAIN tab
      BY <1>2 DEF BreakOutPane
  <2> HIDE DEF w, tab, new, target, source
  <2>2. IsFiniteSet(replaced)
      BY FiniteSteps DEF IInv, ServerInv, ReplaceLayout
  <2> HIDE DEF replaced
  <2>3. ServerInv(state)
      BY <2>2, FiniteSteps, AppendList DEF IInv, ServerInv
  <2>4. Decoded(event)
      BY DEF Decoded
  <2>7. event.type # "TabMoved" /\ EventTabs(event) \subseteq {tab}
      BY DEF EventTabs
  <2> HIDE DEF event
  <2>5. Reported(events)
      BY <2>4, PlainEvents, ReportedThree
  <2>8. Makes(events, tab)
      BY <2>7, PlainEvents, MakesThree
  <2>9. state.freshT = Tail(server.freshT) /\ state.tabs = Append(server.tabs, tab)
      BY DEF IInv, ServerInv
  <2> HIDE DEF state, events
  <2> QED
      BY <2>1, <2>3, <2>5, <2>6, <2>8, <2>9, OperateMakes
<1> QED
    BY <1>1, <1>2

\* The events about one pane and the agent in it.
LEMMA PaneSteps ==
    ASSUME IInv, NEW pane,
           \/ UpdatePane(pane) \/ ClosePane(pane) \/ FocusPane(pane) \/ ReleaseAgent(pane)
           \/ \E agent : DetectAgent(pane, agent)
           \/ \E status : ReportStatus(pane, status)
    PROVE  IInv'
<1>1. CASE UpdatePane(pane)
  <2> DEFINE new == [pane EXCEPT !.rev = @ + 1]
             revised == [type |-> "PaneRevised", id |-> pane.id, rev |-> new.rev]
  <2>1. \/ ChangePane(pane, new, <<PaneSet(new)>>)
        \/ ChangePane(pane, new, <<revised>>)
      BY <1>1 DEF UpdatePane
  <2>2. /\ PaneSet(new).type \notin {"WorkspaceMoved", "TabCreated", "TabMoved", "PaneMoved"}
        /\ revised.type \notin {"WorkspaceMoved", "TabCreated", "TabMoved", "PaneMoved"}
      BY DEF PaneSet
  <2> HIDE DEF new, revised
  <2> QED
      BY <2>1, <2>2, ChangePaneInv
<1>2. CASE ClosePane(pane)
  <2> DEFINE layout == LayoutFor(pane.tab, pane.ws, PanesIn(pane.tab) \ {pane},
                                 FocusedPaneOf(pane.tab))
             layouts == ReplaceLayout(server.layouts, layout)
             state == [server EXCEPT !.panes = @ \ {pane}, !.layouts = layouts]
             event == [type |-> "PaneClosed", id |-> pane.id]
             events == <<event, LayoutUpdated(layout)>>
  <2>1. Operate(state, events)
      BY <1>2 DEF ClosePane
  <2> HIDE DEF layout
  <2>2. IsFiniteSet(layouts)
      BY FiniteSteps DEF IInv, ServerInv, ReplaceLayout
  <2> HIDE DEF layouts
  <2>3. ServerInv(state)
      BY <2>2, FiniteSteps DEF IInv, ServerInv
  <2>4. Decoded(event) /\ Quiet(event)
      BY DEF Decoded, Quiet
  <2> HIDE DEF event
  <2>5. Reported(events)
      BY <2>4, PlainEvents, ReportedTwo
  <2>20. state.freshT = server.freshT /\ Kept(state.tabs)
      BY KeptTabs DEF IInv, ServerInv
  <2>21. Calm(events)
      BY <2>4, CalmTuples, PlainEvents
  <2> HIDE DEF state, events
  <2> QED
      BY <2>1, <2>3, <2>5, <2>20, <2>21, OperateKept
<1>3. CASE FocusPane(pane)
  <2> DEFINE f == [p \in server.panes |-> [p EXCEPT !.focused = (p = pane)]]
             g == [l \in server.layouts |->
                      IF l.tab = pane.tab THEN [l EXCEPT !.focusedPane = pane.id] ELSE l]
             workspaces == FocusedIn(server.workspaces, pane.ws)
             tabs == FocusedIn(server.tabs, pane.tab)
             panes == {[p EXCEPT !.focused = (p = pane)] : p \in server.panes}
             layouts == {IF l.tab = pane.tab THEN [l EXCEPT !.focusedPane = pane.id]
                         ELSE l : l \in server.layouts}
             state == [server EXCEPT !.workspaces = workspaces, !.tabs = tabs,
                                     !.panes = panes, !.layouts = layouts]
             d == [type |-> "WorkspaceFocused", id |-> pane.ws]
             e == [type |-> "TabFocused", id |-> pane.tab]
             k == [type |-> "PaneFocused", id |-> pane.id]
             events == <<d, e, k>>
  <2>1. Operate(state, events)
      BY <1>3 DEF FocusPane
  <2>2. IsList(workspaces) /\ IsList(tabs)
      BY MapList DEF IInv, ServerInv, FocusedIn
  <2>3. f \in [server.panes -> panes] /\ \A r \in panes : \E p \in server.panes : f[p] = r
      OBVIOUS
  <2>4. g \in [server.layouts -> layouts]
        /\ \A r \in layouts : \E l \in server.layouts : g[l] = r
      OBVIOUS
  <2>5. IsFiniteSet(server.panes) /\ IsFiniteSet(server.layouts)
      BY DEF IInv, ServerInv
  <2>19. Kept(tabs)
      BY KeptTabs
  <2> HIDE DEF f, g, workspaces, tabs, panes, layouts
  <2>6. IsFiniteSet(panes) /\ IsFiniteSet(layouts)
      BY <2>3, <2>4, <2>5, ImageFinite
  <2>7. ServerInv(state)
      BY <2>2, <2>6 DEF IInv, ServerInv
  <2>8. /\ Decoded(d) /\ Decoded(e) /\ Decoded(k)
        /\ Quiet(d) /\ Quiet(e) /\ Quiet(k)
      BY DEF Decoded, Quiet
  <2> HIDE DEF d, e, k
  <2>9. Reported(events)
      BY <2>8, ReportedThree
  <2>20. state.freshT = server.freshT /\ Kept(state.tabs)
      BY <2>19 DEF IInv, ServerInv
  <2>21. Calm(events)
      BY <2>8, CalmTuples
  <2> HIDE DEF state, events
  <2> QED
      BY <2>1, <2>7, <2>9, <2>20, <2>21, OperateKept
<1>4. CASE ReleaseAgent(pane)
  <2> DEFINE new == [pane EXCEPT !.agent = Absent, !.display = Absent, !.status = "unknown"]
             state == [server EXCEPT !.panes = (@ \ {pane}) \cup {new},
                                     !.names = [@ EXCEPT ![pane.id] = Absent]]
             event == [type |-> "PaneAgentDetected", id |-> pane.id, agent |-> Absent,
                       released |-> TRUE, finalStatus |-> "unknown"]
  <2>1. Operate(state, <<event>>)
      BY <1>4 DEF ReleaseAgent
  <2> HIDE DEF new
  <2>2. ServerInv(state)
      BY FiniteSteps DEF IInv, ServerInv
  <2>3. Reported(<<event>>)
      BY ReportedOne DEF Decoded
  <2>20. state.freshT = server.freshT /\ Kept(state.tabs)
      BY KeptTabs DEF IInv, ServerInv
  <2>21. Calm(<<event>>)
      BY CalmTuples, PlainEvents DEF Quiet
  <2> HIDE DEF state, event
  <2> QED
      BY <2>1, <2>2, <2>3, <2>20, <2>21, OperateKept
<1>5. ASSUME NEW agent, DetectAgent(pane, agent) PROVE IInv'
  <2> DEFINE new == [pane EXCEPT !.agent = agent]
             event == [type |-> "PaneAgentDetected", id |-> pane.id, agent |-> agent,
                       released |-> FALSE, finalStatus |-> Absent]
  <2>1. ChangePane(pane, new, <<event>>)
      BY <1>5 DEF DetectAgent
  <2>2. event.type \notin {"WorkspaceMoved", "TabCreated", "TabMoved", "PaneMoved"}
      OBVIOUS
  <2> HIDE DEF new, event
  <2> QED
      BY <2>1, <2>2, ChangePaneInv
<1>6. ASSUME NEW status, ReportStatus(pane, status) PROVE IInv'
  <2> DEFINE new == [pane EXCEPT !.status = status, !.display = "shown"]
             event == [type |-> "PaneAgentStatusChanged", id |-> pane.id,
                       status |-> status, agent |-> pane.agent, display |-> "shown"]
  <2>1. ChangePane(pane, new, <<event>>)
      BY <1>6 DEF ReportStatus
  <2>2. event.type \notin {"WorkspaceMoved", "TabCreated", "TabMoved", "PaneMoved"}
      OBVIOUS
  <2> HIDE DEF new, event
  <2> QED
      BY <2>1, <2>2, ChangePaneInv
<1> QED
    BY <1>1, <1>2, <1>3, <1>4, <1>5, <1>6

-----------------------------------------------------------------------------
(* The mirror *)

\* Where the tabs p the mirror holds after an event come from: T, the records the
\* event carries, or o, those it held, of which a record stays of its tab and
\* its workspace.
Traced(o, p, T) ==
    \A x \in DOMAIN p.entries :
        \/ p.entries[x] \in T /\ p.entries[x].id = x
        \/ x \in DOMAIN o.entries /\ Like(p.entries[x], o.entries[x])

\* Every record that is held says its tab and its workspace.
Plain(o) == \A x \in DOMAIN o.entries : {"id", "ws"} \subseteq DOMAIN o.entries[x]

\* set, update and delete, as the handlers of tab events use them.
LEMMA OneTraced ==
    ASSUME NEW o, Sound(o), Plain(o)
    PROVE  /\ Traced(o, o, {})
           /\ \A tab : Traced(o, Set(o, tab.id, tab), {tab})
           /\ \A id, label : Traced(o, Relabel(o, id, label), {})
           /\ \A id : Traced(o, FocusOnly(o, id), {})
           /\ \A set : Traced(o, Keep(o, set), {})
<1>1. \A x \in DOMAIN o.entries : Like(o.entries[x], o.entries[x])
    BY DEF Plain, Like
<1>2. Traced(o, o, {})
    BY <1>1 DEF Traced
<1>3. ASSUME NEW tab PROVE Traced(o, Set(o, tab.id, tab), {tab})
  <2> DEFINE p == Set(o, tab.id, tab)
  <2>1. /\ DOMAIN p.entries = DOMAIN o.entries \cup {tab.id}
        /\ p.entries[tab.id] = tab
        /\ \A x \in DOMAIN o.entries : x # tab.id => p.entries[x] = o.entries[x]
      BY SetHolds
  <2> HIDE DEF p
  <2> QED
      BY <1>1, <2>1 DEF Traced, p
<1>4. ASSUME NEW id, NEW label PROVE Traced(o, Relabel(o, id, label), {})
  <2> DEFINE v == [o.entries[id] EXCEPT !.label = label]
             p == Set(o, id, v)
  <2>1. CASE Has(o, id)
    <3>1. /\ DOMAIN p.entries = DOMAIN o.entries \cup {id}
          /\ p.entries[id] = v
          /\ \A x \in DOMAIN o.entries : x # id => p.entries[x] = o.entries[x]
        BY SetHolds
    <3>2. id \in DOMAIN o.entries /\ Relabel(o, id, label) = p
        BY <2>1 DEF Has, Relabel
    <3>3. Like(v, o.entries[id])
        BY <3>2 DEF Plain, Like
    <3> HIDE DEF p, v
    <3> QED
        BY <1>1, <3>1, <3>2, <3>3 DEF Traced
  <2>2. CASE ~Has(o, id)
      BY <1>2, <2>2 DEF Relabel
  <2> QED
      BY <2>1, <2>2
<1>5. ASSUME NEW id PROVE Traced(o, FocusOnly(o, id), {})
  <2> DEFINE E == [x \in DOMAIN o.entries |-> [o.entries[x] EXCEPT !.focused = (x = id)]]
             p == FocusOnly(o, id)
  <2>1. ASSUME NEW x \in DOMAIN o.entries PROVE Like(E[x], o.entries[x])
      BY DEF Plain, Like
  <2>2. p.entries = E
      BY DEF FocusOnly, Update, Sound
  <2>3. DOMAIN E = DOMAIN o.entries
      OBVIOUS
  <2> HIDE DEF E, p
  <2> QED
      BY <2>1, <2>2, <2>3 DEF Traced, p
<1>6. ASSUME NEW set PROVE Traced(o, Keep(o, set), {})
  <2> DEFINE p == Keep(o, set)
  <2>1. /\ DOMAIN p.entries = DOMAIN o.entries \cap set
        /\ \A x \in DOMAIN o.entries \cap set : p.entries[x] = o.entries[x]
      BY KeepHolds
  <2> HIDE DEF p
  <2> QED
      BY <1>1, <2>1 DEF Traced, p
<1> QED
    BY <1>2, <1>3, <1>4, <1>5, <1>6

\* insertAt, as a reorder and the snapshot use it.
LEMMA InsertTraced ==
    ASSUME NEW o, NEW index, NEW tabs, IsList(tabs), Plain(o)
    PROVE  Traced(o, InsertAt(o, index, IdsOf(tabs), tabs), Ids(tabs))
<1> DEFINE ids == IdsOf(tabs)
           m == Merged(o, ids, tabs)
           p == InsertAt(o, index, ids, tabs)
<1>1. PICK X : ids \in Seq(X)
    BY IdsOfList
<1>2. Len(ids) = Len(tabs) /\ \A i \in 1..Len(tabs) : ids[i] = tabs[i].id
    BY DEF IsList, IdsOf
<1>3. p.entries = m
    BY InsertParts
<1> HIDE DEF ids, p, m
<1>4. Holds(m, o, ids, tabs)
    BY <1>1, MergedFacts DEF m
<1>5. ASSUME NEW x \in Ids(ids) PROVE m[x] \in Ids(tabs) /\ m[x].id = x
  <2>1. PICK i \in 1..Len(ids) : ids[i] = x /\ m[x] = tabs[i]
      BY <1>4 DEF Holds
  <2> QED
      BY <1>2, <2>1 DEF Ids
<1>6. ASSUME NEW x \in DOMAIN m, x \notin Ids(ids)
      PROVE  x \in DOMAIN o.entries /\ Like(m[x], o.entries[x])
    BY <1>4, <1>6 DEF Holds, Plain, Like
<1> QED
    BY <1>3, <1>5, <1>6 DEF Traced, p, ids

\* A record taken away before or after a change leaves no other trace.
LEMMA KeepTraced ==
    ASSUME NEW o, NEW q, NEW p, NEW T, NEW set
    PROVE  /\ Plain(o) => Plain(Keep(o, set))
           /\ Traced(o, q, T) => Traced(o, Keep(q, set), T)
           /\ Traced(Keep(o, set), p, T) => Traced(o, p, T)
<1>1. ASSUME NEW r
      PROVE  /\ DOMAIN Keep(r, set).entries = DOMAIN r.entries \cap set
             /\ \A x \in DOMAIN r.entries \cap set : Keep(r, set).entries[x] = r.entries[x]
    BY KeepHolds
<1> QED
    BY <1>1 DEF Plain, Traced

\* sessionCache.apply: a tab the mirror holds after an event is one the event
\* brought, or one it held before, in the workspace it was in.
LEMMA ApplyTraced ==
    ASSUME NEW c, NEW e, SoundCache(c), Decoded(e), Plain(c.tabs)
    PROVE  Traced(c.tabs, apply(c, e).tabs, EventTabs(e))
<1> DEFINE o == c.tabs
           p == apply(c, e).tabs
<1>1. Sound(o) /\ Plain(o)
    BY DEF SoundCache
<1>2. /\ Traced(o, o, {})
      /\ \A tab : Traced(o, Set(o, tab.id, tab), {tab})
      /\ \A id, label : Traced(o, Relabel(o, id, label), {})
      /\ \A id : Traced(o, FocusOnly(o, id), {})
      /\ \A set : Traced(o, Keep(o, set), {})
    BY <1>1, OneTraced
<1>3. CASE e.type = "TabCreated"
  <2>1. p = Set(o, e.tab.id, e.tab) /\ EventTabs(e) = {e.tab}
      BY <1>3 DEF SoundCache, apply, EventTabs
  <2> QED
      BY <1>2, <2>1
<1>4. CASE e.type = "TabRenamed"
  <2>1. p = Relabel(o, e.id, e.label) /\ EventTabs(e) = {}
      BY <1>4 DEF SoundCache, apply, EventTabs
  <2> QED
      BY <1>2, <2>1
<1>5. CASE e.type = "TabFocused"
  <2>1. p = FocusOnly(o, e.id) /\ EventTabs(e) = {}
      BY <1>5 DEF SoundCache, apply, EventTabs
  <2> QED
      BY <1>2, <2>1
<1>6. CASE e.type = "TabClosed"
  <2>1. p = Delete(o, e.id) /\ EventTabs(e) = {}
      BY <1>6 DEF SoundCache, apply, closeTab, EventTabs
  <2> QED
      BY <1>2, <2>1 DEF Delete
<1>7. CASE e.type = "WorkspaceClosed"
  <2>1. p = DeleteWhere(o, InWorkspace(o, e.id)) /\ EventTabs(e) = {}
      BY <1>7 DEF apply, closeWorkspace, EventTabs
  <2> QED
      BY <1>2, <2>1 DEF DeleteWhere
<1>8. CASE e.type = "TabMoved"
  <2> DEFINE inside == InWorkspace(o, e.ws)
             rest == DeleteWhere(o, inside)
             at == FirstMatch(o, inside)
  <2>1. /\ p = InsertAt(rest, at, IdsOf(e.tabs), e.tabs)
        /\ EventTabs(e) = Ids(e.tabs) /\ IsList(e.tabs)
      BY <1>8 DEF SoundCache, apply, reorderTabs, EventTabs, Decoded
  <2>2. rest = Keep(o, DOMAIN o.entries \ inside)
      BY DEF DeleteWhere
  <2> HIDE DEF rest, at, inside
  <2>3. Plain(rest)
      BY <1>1, <2>2, KeepTraced
  <2>4. Traced(rest, p, Ids(e.tabs))
      BY <2>1, <2>3, InsertTraced
  <2> HIDE DEF o, p
  <2> QED
      BY <2>1, <2>2, <2>4, KeepTraced DEF o, p
<1>9. CASE e.type = "PaneMoved"
  <2> DEFINE q == MayAdd(o, e.createdTab)
             set == OpenTabs(q, e.closedTab, e.closedWorkspace)
  <2>1. p = LeaveWorkspace(LeaveId(q, e.closedTab), e.closedWorkspace)
      BY <1>9, MovePaneParts DEF Moved, apply
  <2>2. EventTabs(e) = {e.createdTab} \ {Absent}
      BY <1>9 DEF EventTabs
  <2>3. Sound(q) /\ Traced(o, q, EventTabs(e))
      BY <1>1, <1>2, <2>2, SetSound DEF MayAdd
  <2> HIDE DEF q
  <2>4. p = Keep(q, set)
      BY <2>1, <2>3, LeaveParts
  <2> HIDE DEF set, p
  <2> QED
      BY <2>3, <2>4, KeepTraced DEF p
<1>10. CASE e.type \notin {"TabCreated", "TabRenamed", "TabMoved", "TabFocused", "TabClosed",
                           "WorkspaceClosed", "PaneMoved"}
  <2>1. p = o
      BY <1>10 DEF SoundCache, apply, setPane, closePane, focusPane, applyAgentDetected,
                   applyAgentStatus
  <2>2. EventTabs(e) = {}
      BY <1>10 DEF EventTabs
  <2> QED
      BY <1>2, <2>1, <2>2
<1> QED
    BY <1>3, <1>4, <1>5, <1>6, <1>7, <1>8, <1>9, <1>10

\* newSessionCache: resetting a collection from any list gives a sound one.
LEMMA ListReset ==
    ASSUME NEW s, IsList(s)
    PROVE  /\ Sound(Reset(IdsOf(s), s))
           /\ Sound(Reset([i \in DOMAIN s |-> s[i].tab], s))
<1>1. DOMAIN s = 1..Len(s) /\ Len(s) \in Nat
    BY DEF IsList
<1> DEFINE keys == [i \in DOMAIN s |-> s[i].tab]
<1>2. keys \in Seq({s[i].tab : i \in 1..Len(s)})
    BY <1>1
<1> HIDE DEF keys
<1>3. Sound(Reset(keys, s))
    BY <1>2, ResetSound
<1>4. Sound(Reset(IdsOf(s), s))
    BY IdsOfList, ResetSound
<1> QED
    BY <1>3, <1>4 DEF keys

\* bootstrapSession: the snapshot of a finite server makes a sound cache.
LEMMA BootstrapInv ==
    ASSUME IInv, Bootstrap
    PROVE  IInv'
<1> DEFINE s == SnapshotOf(server)
<1>1. IsFiniteSet(AgentsOf(server))
  <2> DEFINE T == {p \in server.panes : p.agent # Absent}
             R == {AgentOf(p, server.names) : p \in T}
             f == [p \in T |-> AgentOf(p, server.names)]
  <2>1. IsFiniteSet(T)
      BY FiniteSteps DEF IInv, ServerInv
  <2>2. f \in [T -> R] /\ \A r \in R : \E p \in T : f[p] = r
      OBVIOUS
  <2>3. R = AgentsOf(server)
      BY DEF AgentsOf
  <2> HIDE DEF T, R, f
  <2>4. IsFiniteSet(R)
      BY <2>1, <2>2, ImageFinite
  <2> QED
      BY <2>3, <2>4
<1>2. /\ IsList(S!SetToSeq(server.panes))
      /\ IsList(S!SetToSeq(AgentsOf(server)))
      /\ IsList(S!SetToSeq(server.layouts))
  <2>1. \A T : IsFiniteSet(T) => IsList(S!SetToSeq(T))
      BY SetToSeqList, SeqIsList
  <2> QED
      BY <1>1, <2>1 DEF IInv, ServerInv
<1>3. /\ s.workspaces = server.workspaces /\ s.tabs = server.tabs
      /\ s.panes = S!SetToSeq(server.panes)
      /\ s.agents = S!SetToSeq(AgentsOf(server))
      /\ s.layouts = S!SetToSeq(server.layouts)
    BY DEF SnapshotOf
<1> HIDE DEF s
<1>4. /\ IsList(s.workspaces) /\ IsList(s.tabs) /\ IsList(s.panes)
      /\ IsList(s.agents) /\ IsList(s.layouts)
    BY <1>2, <1>3 DEF IInv, ServerInv
<1>5. SoundCache(newSessionCache(s))
  <2>1. /\ Sound(Reset(IdsOf(s.workspaces), s.workspaces))
        /\ Sound(Reset(IdsOf(s.tabs), s.tabs))
        /\ Sound(Reset(IdsOf(s.panes), s.panes))
        /\ Sound(Reset(IdsOf(s.agents), s.agents))
        /\ Sound(Reset([i \in DOMAIN s.layouts |-> s.layouts[i].tab], s.layouts))
      BY <1>4, ListReset
  <2> QED
      BY <2>1 DEF SoundCache, newSessionCache
<1>6. cache' = newSessionCache(s) /\ UNCHANGED <<server, log, applied>>
    BY DEF Bootstrap, s
<1> DEFINE c == newSessionCache(s)
<1>7. Traced(Empty, c.tabs, Ids(server.tabs))
  <2>1. c.tabs = InsertAt(Empty, 0, IdsOf(s.tabs), s.tabs)
      BY DEF newSessionCache, Reset
  <2>2. Plain(Empty)
      BY DEF Plain, Empty
  <2> HIDE DEF c
  <2> QED
      BY <1>3, <1>4, <2>1, <2>2, InsertTraced
<1>8. Keyed(c) /\ CacheTabs(c) \subseteq Ids(server.tabs)
  <2>1. DOMAIN Empty.entries = {}
      BY DEF Empty
  <2> HIDE DEF c
  <2> QED
      BY <1>7, <2>1 DEF Traced, Keyed, CacheTabs
<1>9. applied' = 0 /\ cache = Absent
    BY <1>6 DEF Bootstrap
<1> HIDE DEF c
<1>10. cache' = c
    BY <1>6 DEF c
<1>11. Known' \subseteq Known
  <2>1. Known' = Ids(server.tabs) \cup Brought(log) \cup CacheTabs(c)
      BY <1>6, <1>10 DEF Known
  <2> QED
      BY <1>8, <2>1 DEF Known
<1>12. HomeInv'
  <2>1. Settled(Known', Ids(server.freshT))
      BY <1>11, SettledFewer DEF IInv, HomeInv
  <2> QED
      BY <1>6, <1>8, <1>10, <2>1 DEF IInv, HomeInv
<1>13. ApplyIsIdempotent'
    BY <1>9 DEF ApplyIsIdempotent
<1> QED
    BY <1>5, <1>6, <1>12, <1>13 DEF IInv, LogInv, CacheInv

\* sessionState.apply: the next event of the log decodes, so the cache stays sound.
LEMMA ApplyInv ==
    ASSUME IInv, Apply
    PROVE  IInv'
<1>1. applied \in 0..Len(log) /\ Len(log) \in Nat /\ applied < Len(log)
    BY DEF Apply, IInv, LogInv, Reported, IsList
<1>2. Decoded(log[applied + 1])
  <2>1. applied + 1 \in 1..Len(log)
      BY <1>1
  <2>2. log[applied + 1] \in Ids(log)
      BY <2>1 DEF Ids
  <2> QED
      BY <2>2 DEF IInv, LogInv, Reported
<1>3. SoundCache(cache)
    BY DEF Apply, IInv, CacheInv
<1>4. SoundCache(apply(cache, log[applied + 1]))
    BY <1>2, <1>3, ApplySound
<1>5. /\ cache' = apply(cache, log[applied + 1])
      /\ applied' = applied + 1
      /\ UNCHANGED <<server, log>>
    BY DEF Apply
<1>6. applied' \in 0..Len(log')
    BY <1>1, <1>5
<1> DEFINE e == log[applied + 1]
           d == apply(cache, e)
<1>7. e \in Ids(log)
  <2>1. applied + 1 \in 1..Len(log)
      BY <1>1
  <2> QED
      BY <2>1 DEF Ids
<1>8. /\ Settled(Known, Ids(server.freshT)) /\ Homely(log) /\ Keyed(cache)
      /\ EventTabs(e) \subseteq Known
      /\ \A x \in DOMAIN cache.tabs.entries : cache.tabs.entries[x] \in Known
  <2>1. cache # Absent
      BY DEF Apply
  <2>2. EventTabs(e) \subseteq Brought(log)
    <3> HIDE DEF e
    <3> QED
        BY <1>7 DEF Brought
  <2>3. \A x \in DOMAIN cache.tabs.entries : cache.tabs.entries[x] \in CacheTabs(cache)
      BY <2>1 DEF CacheTabs
  <2>4. Brought(log) \subseteq Known /\ CacheTabs(cache) \subseteq Known
      BY DEF Known
  <2> QED
      BY <2>1, <2>2, <2>3, <2>4 DEF IInv, HomeInv
<1> HIDE DEF e
<1>9. AtHome(cache, e)
  <2> SUFFICES ASSUME e.type = "TabMoved", NEW i \in 1..Len(e.tabs)
               PROVE  /\ e.tabs[i].ws = e.ws
                      /\ Has(cache.tabs, e.tabs[i].id)
                           => cache.tabs.entries[e.tabs[i].id].ws = e.ws
      BY DEF AtHome
  <2> DEFINE r == e.tabs[i]
             q == cache.tabs.entries[r.id]
  <2>1. r \in Ids(e.tabs)
      BY DEF Ids
  <2>2. r \in Known
      BY <1>8, <2>1 DEF EventTabs
  <2>3. r.ws = e.ws
      BY <1>7, <1>8, <2>1 DEF Homely
  <2>4. Has(cache.tabs, r.id) => q \in Known /\ q.id = r.id
      BY <1>8 DEF Has, Keyed
  <2> HIDE DEF r, q
  <2>5. Has(cache.tabs, r.id) => q.ws = r.ws
      BY <1>8, <2>2, <2>4 DEF Settled
  <2> QED
      BY <2>3, <2>5 DEF r, q
<1>10. Traced(cache.tabs, d.tabs, EventTabs(e))
  <2>1. Plain(cache.tabs)
      BY <1>8 DEF Plain, Settled
  <2> QED
      BY <1>2, <1>3, <2>1, ApplyTraced DEF e
<1>11. apply(d, e) = d
    BY <1>2, <1>3, <1>9, ApplyTwice DEF e
<1>12. SoundCache(d) /\ cache' = d
    BY <1>4, <1>5 DEF e
<1> HIDE DEF d
<1>13. Keyed(d) /\ \A r \in CacheTabs(d) : \E q \in Known : Like(r, q)
  <2> SUFFICES ASSUME NEW x \in DOMAIN d.tabs.entries
               PROVE  /\ d.tabs.entries[x].id = x
                      /\ \E q \in Known : Like(d.tabs.entries[x], q)
      BY DEF Keyed, CacheTabs
  <2>1. CASE d.tabs.entries[x] \in EventTabs(e) /\ d.tabs.entries[x].id = x
      BY <1>8, <2>1 DEF Settled, Like
  <2>2. CASE /\ x \in DOMAIN cache.tabs.entries
             /\ Like(d.tabs.entries[x], cache.tabs.entries[x])
      BY <1>8, <2>2 DEF Keyed, Like
  <2> QED
      BY <1>10, <2>1, <2>2 DEF Traced
<1>14. HomeInv'
  <2>1. Settled(Known \cup CacheTabs(d), Ids(server.freshT))
      BY <1>8, <1>13, SettledLike
  <2>2. Known' = Ids(server.tabs) \cup Brought(log) \cup CacheTabs(d)
      BY <1>5, <1>12 DEF Known
  <2>3. Known' \subseteq Known \cup CacheTabs(d)
      BY <2>2 DEF Known
  <2>4. Settled(Known', Ids(server.freshT))
      BY <2>1, <2>3, SettledFewer
  <2> QED
      BY <1>5, <1>12, <1>13, <2>4 DEF IInv, HomeInv
<1>15. ApplyIsIdempotent'
  <2>1. log'[applied'] = e
      BY <1>5 DEF e
  <2> QED
      BY <1>11, <1>12, <2>1 DEF ApplyIsIdempotent
<1> QED
    BY <1>4, <1>5, <1>6, <1>14, <1>15 DEF IInv, LogInv, CacheInv

\* The invariant holds in every state: of the server's operations, the bootstrap
\* and the replay, none gives the reducer a list that is not one, or a tab in a
\* workspace that is not its own.
THEOREM Inductive == Spec => []IInv
<1>1. IInv /\ [Next]_vars => IInv'
  <2> SUFFICES ASSUME IInv, [Next]_vars PROVE IInv'
      OBVIOUS
  <2>1. CASE ServerStep
    <3>1. CASE CreateWorkspace \/ MoveWorkspace
        BY <3>1, WorkspaceSteps
    <3>2. ASSUME NEW w,
                 \/ \E label \in Labels : RenameWorkspace(w, label)
                 \/ CloseWorkspace(w)
          PROVE  IInv'
        BY <3>2, WorkspaceSteps
    <3>3. ASSUME NEW w, CreateTab(w) \/ MoveTab(w.id)
          PROVE  IInv'
        BY <3>3, TabSteps
    <3>4. ASSUME NEW tab, \/ \E label \in Labels : RenameTab(tab, label)
                          \/ CloseTab(tab)
                          \/ CreatePane(tab)
          PROVE  IInv'
        BY <3>4, TabSteps
    <3>5. ASSUME NEW pane, NEW tab, MovePane(pane, tab)
          PROVE  IInv'
        BY <3>5, MovePaneSteps
    <3>6. ASSUME NEW pane, BreakOutPane(pane)
          PROVE  IInv'
        BY <3>6, MovePaneSteps
    <3>7. ASSUME NEW pane,
                 \/ UpdatePane(pane) \/ ClosePane(pane) \/ FocusPane(pane)
                 \/ ReleaseAgent(pane)
                 \/ \E agent : DetectAgent(pane, agent)
                 \/ \E status : ReportStatus(pane, status)
          PROVE  IInv'
        BY <3>7, PaneSteps
    <3>8. \/ CreateWorkspace \/ MoveWorkspace
          \/ \E w :
                \/ (\E label \in Labels : RenameWorkspace(w, label)) \/ CloseWorkspace(w)
                \/ CreateTab(w) \/ MoveTab(w.id)
          \/ \E tab : \/ (\E label \in Labels : RenameTab(tab, label))
                      \/ CloseTab(tab) \/ CreatePane(tab)
                      \/ \E pane : MovePane(pane, tab)
          \/ \E pane : \/ UpdatePane(pane) \/ ClosePane(pane) \/ BreakOutPane(pane)
                       \/ FocusPane(pane) \/ ReleaseAgent(pane)
                       \/ (\E agent : DetectAgent(pane, agent))
                       \/ (\E status : ReportStatus(pane, status))
        BY <2>1, Zenon DEF ServerStep
    <3> QED
        BY <3>1, <3>2, <3>3, <3>4, <3>5, <3>6, <3>7, <3>8
  <2>2. CASE Bootstrap
      BY <2>2, BootstrapInv
  <2>3. CASE Apply
      BY <2>3, ApplyInv
  <2>4. CASE UNCHANGED vars
      BY <2>4 DEF vars, IInv, LogInv, CacheInv, HomeInv, Known, ApplyIsIdempotent,
                  Bootstrapped
  <2> QED
      BY <2>1, <2>2, <2>3, <2>4 DEF Next
<1> QED
    BY InitInv, <1>1, PTL DEF Spec

\* orderedCollection: after every event, live or replayed, the ids and the
\* entries of every collection of the mirror agree.
THEOREM CollectionsSound == Spec => []CollectionsWellFormed
<1>1. IInv => CollectionsWellFormed
    BY DEF IInv, CacheInv, SoundCache, Sound, CollectionsWellFormed, Bootstrapped
<1> QED
    BY Inductive, <1>1, PTL

\* sessionCache.apply: "Applying the same event twice leaves the same state", of
\* every event in every state the mirror comes to.
THEOREM IdempotentReplay == Spec => []ApplyIsIdempotent
<1>1. IInv => ApplyIsIdempotent
    BY DEF IInv
<1> QED
    BY Inductive, <1>1, PTL

-----------------------------------------------------------------------------
(* Records, and the events that write them *)

\* The lists of records the server and the mirror both hold, by id, and those of
\* which the order counts.
Kinds == {"workspaces", "tabs", "panes", "layouts"}
\* The kinds the server lists in an order of its own.
Ordered == {"workspaces", "tabs"}

\* What an event may change in a record; a record never changes its other fields.
Fields(X) ==
    CASE X \in Ordered -> {"label", "focused"}
      [] X = "panes" -> {"focused", "agent", "display", "status", "rev"}
      [] X = "layouts" -> {"focusedPane"}

\* The id apply files a record under: a layout is filed under its tab.
Key(X, r) == IF X = "layouts" THEN r.tab ELSE r.id
\* The server's records of a kind.
Recs(s, X) == IF X \in Ordered THEN Ids(s[X]) ELSE s[X]
\* The server has a record with that id.
Alive(s, X, id) == \E r \in Recs(s, X) : Key(X, r) = id
\* The ids the mirror holds of a kind.
Held(c, X) == DOMAIN c[X].entries

\* h knows where every id was made: the tab of a pane, the workspace of a tab.
Homes(h) ==
    /\ \A p \in DOMAIN h.pane : h.pane[p] \in DOMAIN h.tab
    /\ \A x \in DOMAIN h.tab : h.tab[x] \in h.ws
\* The ids of a kind that were ever made.
Made(X, h) ==
    CASE X = "workspaces" -> h.ws
      [] X = "panes" -> DOMAIN h.pane
      [] X \in {"tabs", "layouts"} -> DOMAIN h.tab

\* A record of an id that was made, where it was made.
Good(X, r, h) ==
    CASE X = "workspaces" ->
            /\ r = [id |-> r.id, label |-> r.label, focused |-> r.focused]
            /\ r.focused \in BOOLEAN /\ r.id \in h.ws
      [] X = "tabs" ->
            /\ r = [id |-> r.id, ws |-> r.ws, label |-> r.label, focused |-> r.focused]
            /\ r.focused \in BOOLEAN /\ r.id \in DOMAIN h.tab /\ r.ws = h.tab[r.id]
      [] X = "panes" ->
            /\ r = [id |-> r.id, tab |-> r.tab, ws |-> r.ws, focused |-> r.focused,
                    agent |-> r.agent, display |-> r.display, status |-> r.status,
                    rev |-> r.rev]
            /\ r.focused \in BOOLEAN
            /\ r.id \in DOMAIN h.pane /\ r.tab = h.pane[r.id] /\ r.ws = h.tab[r.tab]
      [] X = "layouts" ->
            /\ r = [tab |-> r.tab, ws |-> r.ws, focusedPane |-> r.focusedPane]
            /\ r.tab \in DOMAIN h.tab /\ r.ws = h.tab[r.tab]

\* The whole records an event carries.
Puts(e, X) ==
    CASE X = "workspaces" ->
            IF e.type = "WorkspaceSet" THEN {e.workspace}
            ELSE IF e.type = "WorkspaceMoved" THEN Ids(e.workspaces)
            ELSE IF e.type = "PaneMoved" THEN {e.createdWorkspace} \ {Absent} ELSE {}
      [] X = "tabs" -> EventTabs(e)
      [] X = "panes" -> IF e.type \in {"PaneSet", "PaneMoved"} THEN {e.pane} ELSE {}
      [] X = "layouts" -> IF e.type = "LayoutUpdated" THEN {e.layout} ELSE {}
\* The event carries a whole record with that id.
Brings(e, X, id) == \E r \in Puts(e, X) : Key(X, r) = id

\* An event that says a record is no more.
Closes(e, X, id, h) ==
    CASE X = "workspaces" -> e.type = "WorkspaceClosed" /\ e.id = id
      [] X \in {"tabs", "layouts"} ->
            \/ e.type = "WorkspaceClosed" /\ h.tab[id] = e.id
            \/ e.type = "TabClosed" /\ e.id = id
            \/ e.type = "PaneMoved" /\ e.closedTab # Absent /\ e.closedTab = id
      [] X = "panes" ->
            \/ e.type = "WorkspaceClosed" /\ h.tab[h.pane[id]] = e.id
            \/ e.type = "TabClosed" /\ h.pane[id] = e.id
            \/ e.type = "PaneClosed" /\ e.id = id
            \/ e.type = "PaneMoved" /\ e.previous = id
            \/ e.type = "PaneMoved" /\ e.closedTab # Absent /\ h.pane[id] = e.closedTab

\* An event that lists all workspaces, or all tabs of one, in their order.
Group(X, id, h) == IF X = "workspaces" THEN "all" ELSE h.tab[id]
\* The event lists the whole group g again.
Reorders(e, X, g) ==
    \/ X = "workspaces" /\ e.type = "WorkspaceMoved"
    \/ X = "tabs" /\ e.type = "TabMoved" /\ e.ws = g

\* The event closes the record, or lists its group without it.
Drops(e, X, id, h) ==
    \/ Closes(e, X, id, h)
    \/ Reorders(e, X, Group(X, id, h)) /\ ~Brings(e, X, id)

\* What an event writes into one field: nothing, or one value.
Written(e, X, id, f, h) ==
    {r[f] : r \in {q \in Puts(e, X) : Key(X, q) = id}} \cup
    (CASE X = "workspaces" ->
            IF e.type = "WorkspaceRenamed" /\ e.id = id /\ f = "label" THEN {e.label}
            ELSE IF e.type = "WorkspaceFocused" /\ f = "focused" THEN {id = e.id} ELSE {}
      [] X = "tabs" ->
            IF e.type = "TabRenamed" /\ e.id = id /\ f = "label" THEN {e.label}
            ELSE IF e.type = "TabFocused" /\ f = "focused" THEN {id = e.id} ELSE {}
      [] X = "panes" ->
            IF e.type = "PaneFocused" /\ f = "focused" THEN {id = e.id}
            ELSE IF e.type = "PaneRevised" /\ e.id = id /\ f = "rev" THEN {e.rev}
            ELSE IF e.type = "PaneAgentDetected" /\ e.id = id /\ f = "agent" THEN {e.agent}
            ELSE IF e.type = "PaneAgentDetected" /\ e.id = id /\ e.released
                    /\ f = "display" THEN {Absent}
            ELSE IF e.type = "PaneAgentDetected" /\ e.id = id /\ e.released
                    /\ f = "status" THEN {"unknown"}
            ELSE IF e.type = "PaneAgentStatusChanged" /\ e.id = id
                    /\ f \in {"agent", "display", "status"} THEN {e[f]}
            ELSE {}
      [] X = "layouts" ->
            IF e.type = "PaneFocused" /\ h.pane[e.id] = id THEN {e.id} ELSE {})

\* The panes an event is about.
Mentions(e) ==
    IF e.type = "PaneSet" THEN {e.pane.id}
    ELSE IF e.type = "PaneMoved" THEN {e.previous, e.pane.id}
    ELSE IF e.type \in {"PaneRevised", "PaneAgentDetected", "PaneAgentStatusChanged",
                        "PaneFocused", "PaneClosed"} THEN {e.id}
    ELSE {}

\* The events of events.go that apply has a case for.
EventTypes ==
    {"WorkspaceSet", "WorkspaceRenamed", "WorkspaceMoved", "WorkspaceFocused",
     "WorkspaceClosed", "TabCreated", "TabRenamed", "TabMoved", "TabFocused",
     "TabClosed", "PaneSet", "PaneMoved", "PaneFocused", "PaneClosed",
     "PaneRevised", "PaneAgentDetected", "PaneAgentStatusChanged", "LayoutUpdated"}

\* What the server says, of ids it made.
Genuine(e, h) ==
    /\ e.type \in EventTypes
    /\ \A X \in Kinds : \A r \in Puts(e, X) : Good(X, r, h)
    /\ Mentions(e) \subseteq DOMAIN h.pane
    /\ e.type = "WorkspaceMoved" => IsList(e.workspaces) /\ Distinct(IdsOf(e.workspaces))
    /\ e.type = "TabMoved" => /\ IsList(e.tabs) /\ Distinct(IdsOf(e.tabs))
                              /\ \A r \in Ids(e.tabs) : r.ws = e.ws
    /\ e.type = "WorkspaceClosed" => e.id \in h.ws
    /\ e.type = "TabClosed" => e.id \in DOMAIN h.tab
    /\ e.type = "PaneMoved" =>
          /\ e.closedWorkspace = Absent
          /\ e.closedTab # Absent => e.closedTab \in DOMAIN h.tab /\ e.createdTab = Absent
          /\ e.previous # e.pane.id /\ e.pane.tab # e.closedTab
          /\ e.pane.focused = FALSE
    /\ e.type = "PaneAgentDetected" =>
          /\ e.released \in BOOLEAN
          /\ IF e.released THEN e.agent = Absent /\ e.finalStatus = "unknown"
             ELSE e.agent # Absent /\ e.finalStatus = Absent
    /\ e.type = "PaneAgentStatusChanged" => e.agent # Absent /\ e.display # Absent

-----------------------------------------------------------------------------
(* The log, and the state it led to *)

\* A state of the server, as one event after the other leads to it.
Lawful(s, h) ==
    /\ Homes(h)
    /\ \A X \in Kinds : \A r \in Recs(s, X) : Good(X, r, h)
    /\ \A X \in Kinds : \A r, q \in Recs(s, X) : Key(X, r) = Key(X, q) => r = q
    /\ \A X \in Ordered : IsList(s[X]) /\ Distinct(IdsOf(s[X]))

\* The events of the log after the first i.
Behind(i, l) == (i + 1)..Len(l)

\* Every event of the log is one the server could have pushed.
AllGenuine(l, h) == IsList(l) /\ \A i \in 1..Len(l) : Genuine(l[i], h)

\* What came is there unless it went after, and what went is not unless it came
\* after.
CameStays(s, l, h) ==
    \A X \in Kinds : \A id : \A i \in 1..Len(l) :
        Brings(l[i], X, id) /\ ~Alive(s, X, id)
            => \E j \in Behind(i, l) : Drops(l[j], X, id, h)
\* What an event dropped and is there came back with a later event.
WentReturned(s, l, h) ==
    \A X \in Kinds : \A id : \A i \in 1..Len(l) :
        Drops(l[i], X, id, h) /\ Alive(s, X, id)
            => \E j \in Behind(i, l) : Brings(l[j], X, id)

\* The event that wrote a field last wrote what it is.
LastWrote(s, l, h) ==
    \A X \in Kinds : \A r \in Recs(s, X) : \A f \in Fields(X) : \A i \in 1..Len(l) :
        \A v \in Written(l[i], X, Key(X, r), f, h) :
            (\A j \in Behind(i, l) : Written(l[j], X, Key(X, r), f, h) = {}) => r[f] = v

\* What was closed is gone for good, and a closed pane is not heard of again.
ClosedGone(s, l, h) ==
    /\ \A X \in Kinds \ {"layouts"} : \A id \in Made(X, h) : \A i \in 1..Len(l) :
          Closes(l[i], X, id, h) => ~Alive(s, X, id)
    /\ \A id \in DOMAIN h.pane : \A i \in 1..Len(l) : Closes(l[i], "panes", id, h)
          => \A k \in Behind(i, l) : id \notin Mentions(l[k])

\* No event is about the pane a move makes before it.
MovedNew(l) ==
    \A i \in 1..Len(l) : l[i].type = "PaneMoved" =>
        \A k \in 1..(i - 1) : l[i].pane.id \notin Mentions(l[k])

\* The pane that was focused last in a tab is in it, unless the tab's layout was
\* reported after; tabs in pending have their layout still to be reported.
FocusStays(s, l, h, pending) ==
    \A i \in 1..Len(l) :
        /\ l[i].type = "PaneFocused" /\ h.pane[l[i].id] \notin pending
        /\ Alive(s, "layouts", h.pane[l[i].id])
        /\ \A j \in Behind(i, l) : Written(l[j], "layouts", h.pane[l[i].id], "focusedPane", h) = {}
        => Alive(s, "panes", l[i].id)

\* l2 is l and one more event.
Grown(l, l2, e) ==
    /\ Len(l) \in Nat /\ Len(l2) = Len(l) + 1
    /\ \A i \in 1..Len(l) : l2[i] = l[i]
    /\ l2[Len(l2)] = e

\* A log with one event appended has grown by that event, as the pushes of the server
\* do.
LEMMA AppendGrown ==
    ASSUME NEW l, NEW e, IsList(l)
    PROVE  Grown(l, Append(l, e), e) /\ IsList(Append(l, e))
<1> DEFINE D == Ids(l) \cup {e}
<1>1. l \in Seq(D) /\ e \in D
  <2>1. l \in Seq(Ids(l)) /\ Ids(l) \subseteq D
      BY DEF IsList
  <2> QED
      BY <2>1, Narrow
<1> HIDE DEF D
<1>2. Grown(l, Append(l, e), e)
    BY <1>1 DEF Grown
<1> QED
    BY <1>2, AppendList

\* One event and what it does to the server's state: it brings what is new,
\* drops what is gone, and wrote every field that differs.
Leads(s, e, s2, h) ==
    /\ \A X \in Kinds : \A id :
          /\ Alive(s2, X, id) /\ ~Alive(s, X, id) => Brings(e, X, id)
          /\ Alive(s, X, id) /\ ~Alive(s2, X, id) => Drops(e, X, id, h)
          /\ Brings(e, X, id) => Alive(s2, X, id)
          /\ Drops(e, X, id, h) => ~Alive(s2, X, id)
    /\ \A X \in Kinds : \A r \in Recs(s, X) : \A q \in Recs(s2, X) :
          Key(X, r) = Key(X, q) => \A f \in Fields(X) :
              Written(e, X, Key(X, q), f, h) = {} => q[f] = r[f]
    /\ \A X \in Kinds : \A q \in Recs(s2, X) : \A f \in Fields(X) :
          \A v \in Written(e, X, Key(X, q), f, h) : q[f] = v

\* A new id is one the log knows nothing of, and an event is about panes there are.
Newborn(s, s2, e, l, h) ==
    /\ \A X \in Kinds \ {"layouts"} : \A id : Alive(s2, X, id) /\ ~Alive(s, X, id)
          => \A i \in 1..Len(l) : ~Closes(l[i], X, id, h)
    /\ \A id : Alive(s2, "panes", id) /\ ~Alive(s, "panes", id)
          => \A i \in 1..Len(l) : id \notin Mentions(l[i])
    /\ \A id \in Mentions(e) : Alive(s, "panes", id) \/ Alive(s2, "panes", id)
    /\ e.type = "PaneMoved" => ~Alive(s, "panes", e.pane.id)

\* An event with a whole record, as workspace.updated, writes every field of it.
LEMMA BringsWrites ==
    ASSUME NEW e, NEW X, NEW id, NEW f, NEW h, Brings(e, X, id)
    PROVE  Written(e, X, id, f, h) # {}
    BY DEF Brings, Written

\* One more event keeps what came there and what went away: it says what it brings and
\* what it drops.
LEMMA GrowCame ==
    ASSUME NEW s, NEW s2, NEW e, NEW l, NEW l2, NEW h,
           Grown(l, l2, e), Leads(s, e, s2, h),
           CameStays(s, l, h), WentReturned(s, l, h)
    PROVE  CameStays(s2, l2, h) /\ WentReturned(s2, l2, h)
<1>1. ASSUME NEW X \in Kinds, NEW id, NEW i \in 1..Len(l2), Brings(l2[i], X, id),
             ~Alive(s2, X, id)
      PROVE  \E j \in Behind(i, l2) : Drops(l2[j], X, id, h)
  <2>1. i \in 1..Len(l) /\ l2[i] = l[i]
      BY <1>1 DEF Grown, Leads
  <2>2. CASE Alive(s, X, id)
    <3>1. Drops(l2[Len(l2)], X, id, h)
        BY <1>1, <2>2 DEF Grown, Leads
    <3>2. Len(l2) \in Behind(i, l2)
        BY <2>1 DEF Grown, Behind
    <3> QED
        BY <3>1, <3>2
  <2>3. CASE ~Alive(s, X, id)
    <3>1. PICK j \in Behind(i, l) : Drops(l[j], X, id, h)
        BY <1>1, <2>1, <2>3 DEF CameStays
    <3>2. j \in Behind(i, l2) /\ l2[j] = l[j]
        BY <2>1 DEF Grown, Behind
    <3> QED
        BY <3>1, <3>2
  <2> QED
      BY <2>2, <2>3
<1>2. ASSUME NEW X \in Kinds, NEW id, NEW i \in 1..Len(l2), Drops(l2[i], X, id, h),
             Alive(s2, X, id)
      PROVE  \E j \in Behind(i, l2) : Brings(l2[j], X, id)
  <2>1. i \in 1..Len(l) /\ l2[i] = l[i]
      BY <1>2 DEF Grown, Leads
  <2>2. CASE ~Alive(s, X, id)
    <3>1. Brings(l2[Len(l2)], X, id)
        BY <1>2, <2>2 DEF Grown, Leads
    <3>2. Len(l2) \in Behind(i, l2)
        BY <2>1 DEF Grown, Behind
    <3> QED
        BY <3>1, <3>2
  <2>3. CASE Alive(s, X, id)
    <3>1. PICK j \in Behind(i, l) : Brings(l[j], X, id)
        BY <1>2, <2>1, <2>3 DEF WentReturned
    <3>2. j \in Behind(i, l2) /\ l2[j] = l[j]
        BY <2>1 DEF Grown, Behind
    <3> QED
        BY <3>1, <3>2
  <2> QED
      BY <2>2, <2>3
<1> QED
    BY <1>1, <1>2 DEF CameStays, WentReturned

\* One more event keeps it that the event that wrote a field last wrote what it is.
LEMMA GrowWrote ==
    ASSUME NEW s, NEW s2, NEW e, NEW l, NEW l2, NEW h,
           Grown(l, l2, e), Leads(s, e, s2, h), LastWrote(s, l, h)
    PROVE  LastWrote(s2, l2, h)
<1> SUFFICES ASSUME NEW X \in Kinds, NEW q \in Recs(s2, X), NEW f \in Fields(X),
                    NEW i \in 1..Len(l2), NEW v \in Written(l2[i], X, Key(X, q), f, h),
                    \A j \in Behind(i, l2) : Written(l2[j], X, Key(X, q), f, h) = {}
             PROVE  q[f] = v
    BY DEF LastWrote
<1>1. CASE i = Len(l2)
    BY <1>1 DEF Grown, Leads
<1>2. CASE i # Len(l2)
  <2>1. i \in 1..Len(l) /\ l2[i] = l[i] /\ Len(l2) \in Behind(i, l2)
      BY <1>2 DEF Grown, Behind
  <2>2. Written(e, X, Key(X, q), f, h) = {}
      BY <2>1 DEF Grown
  <2>3. Alive(s2, X, Key(X, q))
      BY DEF Alive
  <2>4. Alive(s, X, Key(X, q))
      BY <2>2, <2>3, BringsWrites DEF Leads
  <2>5. PICK r \in Recs(s, X) : Key(X, r) = Key(X, q)
      BY <2>4 DEF Alive
  <2>6. \A j \in Behind(i, l) : Written(l[j], X, Key(X, r), f, h) = {}
    <3> TAKE j \in Behind(i, l)
    <3>1. j \in Behind(i, l2) /\ l2[j] = l[j]
        BY <2>1 DEF Grown, Behind
    <3> QED
        BY <2>5, <3>1
  <2>7. r[f] = v
      BY <2>1, <2>5, <2>6 DEF LastWrote
  <2> QED
      BY <2>2, <2>5, <2>7 DEF Leads
<1> QED
    BY <1>1, <1>2

\* One more event brings back nothing that was closed, and a move makes an id no event
\* was about.
LEMMA GrowClosed ==
    ASSUME NEW s, NEW s2, NEW e, NEW l, NEW l2, NEW h,
           Grown(l, l2, e), Leads(s, e, s2, h), Newborn(s, s2, e, l, h),
           ClosedGone(s, l, h), MovedNew(l)
    PROVE  ClosedGone(s2, l2, h) /\ MovedNew(l2)
<1>1. ASSUME NEW X \in Kinds \ {"layouts"}, NEW id \in Made(X, h),
             NEW i \in 1..Len(l2), Closes(l2[i], X, id, h), Alive(s2, X, id)
      PROVE  FALSE
  <2>1. CASE i = Len(l2)
      BY <1>1, <2>1 DEF Grown, Leads, Drops
  <2>2. CASE i # Len(l2)
    <3>1. i \in 1..Len(l) /\ l2[i] = l[i]
        BY <2>2 DEF Grown
    <3> QED
        BY <1>1, <3>1 DEF ClosedGone, Newborn
  <2> QED
      BY <2>1, <2>2
<1>2. ASSUME NEW id \in DOMAIN h.pane, NEW i \in 1..Len(l2), Closes(l2[i], "panes", id, h),
             NEW k \in Behind(i, l2), id \in Mentions(l2[k])
      PROVE  FALSE
  <2>1. i \in 1..Len(l) /\ l2[i] = l[i]
      BY DEF Grown, Behind
  <2>2. "panes" \in Kinds \ {"layouts"} /\ id \in Made("panes", h)
      BY DEF Kinds, Made
  <2>3. CASE k = Len(l2)
    <3>1. ~Alive(s, "panes", id)
        BY <1>2, <2>1, <2>2 DEF ClosedGone
    <3>2. Alive(s2, "panes", id)
        BY <1>2, <2>3, <3>1 DEF Newborn, Grown
    <3> QED
        BY <1>2, <2>1, <2>2, <3>1, <3>2 DEF Newborn
  <2>4. CASE k # Len(l2)
    <3>1. k \in Behind(i, l) /\ l2[k] = l[k]
        BY <2>1, <2>4 DEF Grown, Behind
    <3> QED
        BY <1>2, <2>1, <3>1 DEF ClosedGone
  <2> QED
      BY <2>3, <2>4
<1>3. ASSUME NEW i \in 1..Len(l2), l2[i].type = "PaneMoved", NEW k \in 1..(i - 1),
             l2[i].pane.id \in Mentions(l2[k])
      PROVE  FALSE
  <2>1. k \in 1..Len(l) /\ l2[k] = l[k]
      BY DEF Grown
  <2>2. CASE i = Len(l2)
    <3>1. e.type = "PaneMoved" /\ l2[i] = e /\ ~Alive(s, "panes", e.pane.id)
        BY <1>3, <2>2 DEF Grown, Newborn
    <3>2. Brings(e, "panes", e.pane.id)
        BY <3>1 DEF Brings, Puts, Key
    <3>3. Alive(s2, "panes", e.pane.id)
        BY <3>2 DEF Leads, Kinds
    <3> QED
        BY <1>3, <2>1, <3>1, <3>3 DEF Newborn
  <2>3. CASE i # Len(l2)
      BY <1>3, <2>1, <2>3 DEF Grown, MovedNew
  <2> QED
      BY <2>2, <2>3
<1> QED
    BY <1>1, <1>2, <1>3 DEF ClosedGone, MovedNew

\* The panes that left a tab are those of tabs whose layout is still to be
\* reported, or of no tab any more.
LEMMA GrowFocus ==
    ASSUME NEW s, NEW s2, NEW e, NEW l, NEW l2, NEW h, NEW P, NEW Q,
           Grown(l, l2, e), Leads(s, e, s2, h), Newborn(s, s2, e, l, h),
           FocusStays(s, l, h, P),
           \A x \in P : x \in Q \/ Written(e, "layouts", x, "focusedPane", h) # {},
           \A id : Alive(s, "panes", id) /\ ~Alive(s2, "panes", id)
                     => h.pane[id] \in Q \/ ~Alive(s2, "layouts", h.pane[id])
    PROVE  FocusStays(s2, l2, h, Q)
<1> SUFFICES ASSUME NEW i \in 1..Len(l2), l2[i].type = "PaneFocused",
                    h.pane[l2[i].id] \notin Q, Alive(s2, "layouts", h.pane[l2[i].id]),
                    \A j \in Behind(i, l2) :
                       Written(l2[j], "layouts", h.pane[l2[i].id], "focusedPane", h) = {}
             PROVE  Alive(s2, "panes", l2[i].id)
    BY DEF FocusStays
<1>1. CASE i = Len(l2)
  <2>1. e.type = "PaneFocused" /\ l2[i] = e
      BY <1>1 DEF Grown
  <2>2. e.id \in Mentions(e)
      BY <2>1 DEF Mentions
  <2>3. ~Drops(e, "panes", e.id, h)
      BY <2>1 DEF Drops, Closes, Reorders
  <2>4. "panes" \in Kinds
      BY DEF Kinds
  <2> QED
      BY <2>1, <2>2, <2>3, <2>4 DEF Newborn, Leads
<1>2. CASE i # Len(l2)
  <2> DEFINE x == h.pane[l2[i].id]
  <2>1. i \in 1..Len(l) /\ l2[i] = l[i] /\ Len(l2) \in Behind(i, l2)
      BY <1>2 DEF Grown, Behind
  <2>2. Written(e, "layouts", x, "focusedPane", h) = {}
      BY <2>1 DEF Grown
  <2>3. x \notin P
      BY <2>2
  <2>4. Alive(s, "layouts", x)
    <3>1. ~Brings(e, "layouts", x)
        BY <2>2, BringsWrites
    <3>2. Alive(s2, "layouts", x) /\ "layouts" \in Kinds
        BY DEF Kinds
    <3> HIDE DEF x
    <3> QED
        BY <3>1, <3>2 DEF Leads
  <2>5. \A j \in Behind(i, l) : Written(l[j], "layouts", x, "focusedPane", h) = {}
    <3> TAKE j \in Behind(i, l)
    <3>1. j \in Behind(i, l2) /\ l2[j] = l[j]
        BY <2>1 DEF Grown, Behind
    <3> QED
        BY <3>1
  <2>6. Alive(s, "panes", l2[i].id)
      BY <2>1, <2>3, <2>4, <2>5 DEF FocusStays
  <2> QED
      BY <2>6
<1> QED
    BY <1>1, <1>2

-----------------------------------------------------------------------------
(* Agents *)

\* pane.agent_detected with an agent, in that pane.
Joins(e, id) == e.type = "PaneAgentDetected" /\ ~e.released /\ e.id = id
\* pane.agent_detected that releases the agent of that pane.
Frees(e, id) == e.type = "PaneAgentDetected" /\ e.released /\ e.id = id
\* The agent is released, or its pane is closed.
Leaves(e, id, h) == Frees(e, id) \/ Closes(e, "panes", id, h)
\* pane.moved with a pane an agent runs in.
Carries(e, id) == e.type = "PaneMoved" /\ e.pane.id = id /\ e.pane.agent # Absent
\* An agent is detected in that pane, or comes with it.
Arrives(e, id) == Joins(e, id) \/ Carries(e, id)
\* An agent runs in that pane.
Running(s, id) == \E p \in s.panes : p.id = id /\ p.agent # Absent

\* Whether an agent runs in a pane is what the last event said that detected, released,
\* moved or closed it; a pane that moves carries an agent exactly when it had one.
AgentsLogged(s, l, h) ==
    /\ \A i \in 1..Len(l) : \A id : Frees(l[i], id) /\ Running(s, id)
          => \E j \in Behind(i, l) : Joins(l[j], id)
    /\ \A i \in 1..Len(l) : \A id \in DOMAIN h.pane : Arrives(l[i], id) /\ ~Running(s, id)
          => \E j \in Behind(i, l) : Leaves(l[j], id, h)
    /\ \A i \in 1..Len(l) : \A k \in Behind(i, l) :
          l[k].type = "PaneMoved" /\ l[k].pane.agent # Absent /\ Frees(l[i], l[k].previous)
             => \E j \in (i + 1)..(k - 1) : Joins(l[j], l[k].previous)
    /\ \A i \in 1..Len(l) : \A k \in Behind(i, l) :
          l[k].type = "PaneMoved" /\ l[k].pane.agent = Absent /\ Arrives(l[i], l[k].previous)
             => \E j \in (i + 1)..(k - 1) : Frees(l[j], l[k].previous)

\* What an event says of the agents is so.
Hires(s, e, s2, h) ==
    /\ \A id : Running(s2, id) /\ ~Running(s, id)
          => Joins(e, id) \/ (Carries(e, id) /\ ~Alive(s, "panes", id))
    /\ \A id : Running(s, id) /\ ~Running(s2, id) => Leaves(e, id, h)
    /\ \A id : Arrives(e, id) => Running(s2, id)
    /\ \A id : Frees(e, id) => ~Running(s2, id)
    /\ e.type = "PaneMoved" =>
          /\ Alive(s, "panes", e.previous)
          /\ e.pane.agent # Absent <=> Running(s, e.previous)

\* An agent runs in a pane there is: agents are rows of panes.
LEMMA RunningAlive ==
    ASSUME NEW s, NEW id, Running(s, id)
    PROVE  Alive(s, "panes", id)
    BY DEF Running, Alive, Recs, Key, Ordered

\* One more event keeps it that the log tells which panes run an agent.
LEMMA GrowAgents ==
    ASSUME NEW s, NEW s2, NEW e, NEW l, NEW l2, NEW h,
           Grown(l, l2, e), Leads(s, e, s2, h), Newborn(s, s2, e, l, h),
           Hires(s, e, s2, h), Mentions(e) \subseteq DOMAIN h.pane,
           ClosedGone(s, l, h), AgentsLogged(s, l, h)
    PROVE  AgentsLogged(s2, l2, h)
<1>1. ASSUME NEW i \in 1..Len(l2), NEW id, Frees(l2[i], id), Running(s2, id)
      PROVE  \E j \in Behind(i, l2) : Joins(l2[j], id)
  <2>1. i \in 1..Len(l) /\ l2[i] = l[i] /\ Len(l2) \in Behind(i, l2)
      BY <1>1 DEF Grown, Hires, Behind
  <2>2. CASE Running(s, id)
    <3>1. PICK j \in Behind(i, l) : Joins(l[j], id)
        BY <1>1, <2>1, <2>2 DEF AgentsLogged
    <3>2. j \in Behind(i, l2) /\ l2[j] = l[j]
        BY <2>1 DEF Grown, Behind
    <3> QED
        BY <3>1, <3>2
  <2>3. CASE ~Running(s, id)
    <3>1. CASE Joins(e, id)
        BY <2>1, <3>1 DEF Grown
    <3>2. CASE ~Alive(s, "panes", id)
      <4>1. id \in Mentions(l[i])
          BY <1>1, <2>1 DEF Frees, Mentions
      <4> QED
          BY <1>1, <2>1, <3>2, <4>1, RunningAlive DEF Newborn
    <3> QED
        BY <1>1, <2>3, <3>1, <3>2 DEF Hires
  <2> QED
      BY <2>2, <2>3
<1>2. ASSUME NEW i \in 1..Len(l2), NEW id \in DOMAIN h.pane, Arrives(l2[i], id),
             ~Running(s2, id)
      PROVE  \E j \in Behind(i, l2) : Leaves(l2[j], id, h)
  <2>1. i \in 1..Len(l) /\ l2[i] = l[i] /\ Len(l2) \in Behind(i, l2)
      BY <1>2 DEF Grown, Hires, Behind
  <2>2. CASE ~Running(s, id)
    <3>1. PICK j \in Behind(i, l) : Leaves(l[j], id, h)
        BY <1>2, <2>1, <2>2 DEF AgentsLogged
    <3>2. j \in Behind(i, l2) /\ l2[j] = l[j]
        BY <2>1 DEF Grown, Behind
    <3> QED
        BY <3>1, <3>2
  <2>3. CASE Running(s, id)
      BY <1>2, <2>1, <2>3 DEF Hires, Grown
  <2> QED
      BY <2>2, <2>3
<1>3. ASSUME NEW i \in 1..Len(l2), NEW k \in Behind(i, l2), l2[k].type = "PaneMoved",
             l2[k].pane.agent # Absent, Frees(l2[i], l2[k].previous)
      PROVE  \E j \in (i + 1)..(k - 1) : Joins(l2[j], l2[k].previous)
  <2>1. i \in 1..Len(l) /\ l2[i] = l[i]
      BY DEF Grown, Behind
  <2>2. CASE k = Len(l2)
    <3>1. Running(s, e.previous) /\ l2[k] = e
        BY <1>3, <2>2 DEF Hires, Grown
    <3>2. PICK j \in Behind(i, l) : Joins(l[j], e.previous)
        BY <1>3, <2>1, <3>1 DEF AgentsLogged
    <3>3. j \in (i + 1)..(k - 1) /\ l2[j] = l[j]
        BY <2>1, <2>2 DEF Grown, Behind
    <3> QED
        BY <3>1, <3>2, <3>3
  <2>3. CASE k # Len(l2)
    <3>1. k \in Behind(i, l) /\ l2[k] = l[k]
        BY <2>1, <2>3 DEF Grown, Behind
    <3>2. PICK j \in (i + 1)..(k - 1) : Joins(l[j], l[k].previous)
        BY <1>3, <2>1, <3>1 DEF AgentsLogged
    <3>3. l2[j] = l[j]
        BY <2>1, <3>1 DEF Grown, Behind
    <3> QED
        BY <3>1, <3>2, <3>3
  <2> QED
      BY <2>2, <2>3
<1>4. ASSUME NEW i \in 1..Len(l2), NEW k \in Behind(i, l2), l2[k].type = "PaneMoved",
             l2[k].pane.agent = Absent, Arrives(l2[i], l2[k].previous)
      PROVE  \E j \in (i + 1)..(k - 1) : Frees(l2[j], l2[k].previous)
  <2>1. i \in 1..Len(l) /\ l2[i] = l[i]
      BY DEF Grown, Behind
  <2>2. CASE k = Len(l2)
    <3>1. ~Running(s, e.previous) /\ l2[k] = e /\ Alive(s, "panes", e.previous)
          /\ e.previous \in DOMAIN h.pane
        BY <1>4, <2>2 DEF Hires, Grown, Mentions
    <3>2. PICK j \in Behind(i, l) : Leaves(l[j], e.previous, h)
        BY <1>4, <2>1, <3>1 DEF AgentsLogged
    <3>3. j \in (i + 1)..(k - 1) /\ l2[j] = l[j] /\ j \in 1..Len(l)
        BY <2>1, <2>2 DEF Grown, Behind
    <3>4. ~Closes(l[j], "panes", e.previous, h)
        BY <3>1, <3>3 DEF ClosedGone, Kinds, Made
    <3> QED
        BY <3>1, <3>2, <3>3, <3>4 DEF Leaves
  <2>3. CASE k # Len(l2)
    <3>1. k \in Behind(i, l) /\ l2[k] = l[k]
        BY <2>1, <2>3 DEF Grown, Behind
    <3>2. PICK j \in (i + 1)..(k - 1) : Frees(l[j], l[k].previous)
        BY <1>4, <2>1, <3>1 DEF AgentsLogged
    <3>3. l2[j] = l[j]
        BY <2>1, <3>1 DEF Grown, Behind
    <3> QED
        BY <3>1, <3>2, <3>3
  <2> QED
      BY <2>2, <2>3
<1> QED
    BY <1>1, <1>2, <1>3, <1>4 DEF AgentsLogged

-----------------------------------------------------------------------------
(* Order *)

\* x is before y in the list q.
Precedes(q, x, y) == \E i, j \in 1..Len(q) : i < j /\ q[i] = x /\ q[j] = y
\* The event brings the record without listing its group.
Alone(e, X, id, h) == Brings(e, X, id) /\ ~Reorders(e, X, Group(X, id, h))
\* Two records of one group.
Pair(s, X, x, y, h) ==
    x # y /\ Alive(s, X, x) /\ Alive(s, X, y) /\ Group(X, x, h) = Group(X, y, h)
\* No event after the i-th lists the group of x again.
Unmoved(l, i, X, x, h) == \A j \in Behind(i, l) : ~Reorders(l[j], X, Group(X, x, h))

\* A list says that x is before y: y comes after it, or is not in it.
Listed(e, X, x, y) ==
    Brings(e, X, x) /\ (~Brings(e, X, y) \/ Precedes(IdsOf(e[X]), x, y))

\* The order the last list of a group gave is the server's.
ListedSo(s, l, h) ==
    \A X \in Ordered : \A i \in 1..Len(l) : \A x, y :
        /\ Pair(s, X, x, y, h) /\ Unmoved(l, i, X, x, h)
        /\ Reorders(l[i], X, Group(X, x, h)) /\ Listed(l[i], X, x, y)
        => Precedes(IdsOf(s[X]), x, y)
\* What was added to a group since comes after what was there.
AddedLast(s, l, h) ==
    \A X \in Ordered : \A i \in 1..Len(l) : \A x, y :
        Pair(s, X, x, y, h) /\ Unmoved(l, i, X, y, h) /\ Alone(l[i], X, y, h)
        => \/ Precedes(IdsOf(s[X]), x, y)
           \/ \E j \in Behind(i, l) : Alone(l[j], X, x, h)
\* A record is added once.
AddedOnce(l, h) ==
    \A X \in Ordered : \A i \in 1..Len(l) : \A y :
        Alone(l[i], X, y, h) => \A j \in Behind(i, l) : ~Alone(l[j], X, y, h)
\* The log tells the order of the workspaces, and of the tabs of each.
OrderLogged(s, l, h) == ListedSo(s, l, h) /\ AddedLast(s, l, h) /\ AddedOnce(l, h)

\* An event reorders one group, or leaves all as they are and a newcomer last.
Arranges(s, e, s2, h, l) ==
    \A X \in Ordered :
        /\ \A x, y : Pair(s2, X, x, y, h) /\ Reorders(e, X, Group(X, x, h))
              => (Precedes(IdsOf(e[X]), x, y) => Precedes(IdsOf(s2[X]), x, y))
        /\ \A x, y : Pair(s2, X, x, y, h) /\ ~Reorders(e, X, Group(X, x, h)) /\ Alive(s, X, x)
                 /\ (Alive(s, X, y) => Precedes(IdsOf(s[X]), x, y))
              => Precedes(IdsOf(s2[X]), x, y)
        /\ \A x, y : Alone(e, X, x, h) /\ Alone(e, X, y, h) => x = y
        /\ \A x : Alive(s2, X, x) /\ ~Alive(s, X, x)
              => \A i \in 1..Len(l) : ~Brings(l[i], X, x)
        /\ \A x : Alone(e, X, x, h)
              => ~Alive(s, X, x) /\ \A i \in 1..Len(l) : ~Brings(l[i], X, x)

\* One more event keeps it that the log tells the order: workspace.moved and tab.moved
\* list the group, an event with a new record puts it last.
LEMMA GrowOrder ==
    ASSUME NEW s, NEW s2, NEW e, NEW l, NEW l2, NEW h,
           Grown(l, l2, e), Leads(s, e, s2, h), Arranges(s, e, s2, h, l),
           OrderLogged(s, l, h)
    PROVE  OrderLogged(s2, l2, h)
<1>0. \A X \in Ordered : X \in Kinds
    BY DEF Ordered, Kinds
<1>1. ASSUME NEW X \in Ordered, NEW i \in 1..Len(l2), NEW x, NEW y,
             Pair(s2, X, x, y, h), Unmoved(l2, i, X, x, h),
             Reorders(l2[i], X, Group(X, x, h)), Listed(l2[i], X, x, y)
      PROVE  Precedes(IdsOf(s2[X]), x, y)
  <2>1. CASE i = Len(l2)
    <3>1. l2[i] = e
        BY <2>1 DEF Grown
    <3>2. Brings(e, X, y)
        BY <1>0, <1>1, <3>1 DEF Leads, Drops, Pair
    <3> QED
        BY <1>1, <3>1, <3>2 DEF Arranges, Listed
  <2>2. CASE i # Len(l2)
    <3>1. i \in 1..Len(l) /\ l2[i] = l[i] /\ Len(l2) \in Behind(i, l2)
        BY <2>2 DEF Grown, Behind
    <3>2. ~Reorders(e, X, Group(X, x, h))
        BY <1>1, <3>1 DEF Unmoved, Grown
    <3>3. Alive(s, X, x)
        BY <1>1, <3>1 DEF Arranges, Pair, Listed
    <3>4. Unmoved(l, i, X, x, h)
      <4> SUFFICES ASSUME NEW j \in Behind(i, l) PROVE ~Reorders(l[j], X, Group(X, x, h))
          BY DEF Unmoved
      <4>1. j \in Behind(i, l2) /\ l2[j] = l[j]
          BY <3>1 DEF Grown, Behind
      <4> QED
          BY <1>1, <4>1 DEF Unmoved
    <3>5. Alive(s, X, y) => Precedes(IdsOf(s[X]), x, y)
      <4> SUFFICES ASSUME Alive(s, X, y) PROVE Precedes(IdsOf(s[X]), x, y)
          OBVIOUS
      <4>1. Pair(s, X, x, y, h)
          BY <1>1, <3>3 DEF Pair
      <4> QED
          BY <1>1, <3>1, <3>4, <4>1 DEF OrderLogged, ListedSo, AddedLast, AddedOnce
    <3> QED
        BY <1>1, <3>2, <3>3, <3>5 DEF Arranges, Listed
  <2> QED
      BY <2>1, <2>2
<1>2. ASSUME NEW X \in Ordered, NEW i \in 1..Len(l2), NEW x, NEW y,
             Pair(s2, X, x, y, h), Unmoved(l2, i, X, y, h), Alone(l2[i], X, y, h)
      PROVE  \/ Precedes(IdsOf(s2[X]), x, y)
             \/ \E j \in Behind(i, l2) : Alone(l2[j], X, x, h)
  <2>0. Group(X, x, h) = Group(X, y, h) /\ Alive(s2, X, x) /\ Alive(s2, X, y) /\ x # y
      BY <1>2 DEF Pair
  <2>1. CASE i = Len(l2)
    <3>1. l2[i] = e /\ ~Alive(s, X, y) /\ ~Reorders(e, X, Group(X, x, h))
        BY <1>2, <2>0, <2>1 DEF Grown, Arranges, Alone
    <3>2. Alive(s, X, x)
      <4>1. ~Brings(e, X, x)
          BY <1>2, <2>0, <3>1 DEF Arranges, Alone
      <4> QED
          BY <1>0, <2>0, <4>1 DEF Leads
    <3> QED
        BY <1>2, <3>1, <3>2 DEF Arranges, Listed
  <2>2. CASE i # Len(l2)
    <3>1. i \in 1..Len(l) /\ l2[i] = l[i] /\ Len(l2) \in Behind(i, l2)
        BY <2>2 DEF Grown, Behind
    <3>2. ~Reorders(e, X, Group(X, x, h))
        BY <1>2, <2>0, <3>1 DEF Unmoved, Grown
    <3>3. Alive(s, X, y)
        BY <1>2, <2>0, <3>1 DEF Arranges, Alone
    <3>4. Unmoved(l, i, X, y, h)
      <4> SUFFICES ASSUME NEW j \in Behind(i, l) PROVE ~Reorders(l[j], X, Group(X, y, h))
          BY DEF Unmoved
      <4>1. j \in Behind(i, l2) /\ l2[j] = l[j]
          BY <3>1 DEF Grown, Behind
      <4> QED
          BY <1>2, <4>1 DEF Unmoved
    <3>5. CASE Alive(s, X, x)
      <4>1. Pair(s, X, x, y, h)
          BY <2>0, <3>3, <3>5 DEF Pair
      <4>2. CASE Precedes(IdsOf(s[X]), x, y)
          BY <1>2, <3>2, <3>5, <4>2 DEF Arranges, Listed
      <4>3. ASSUME NEW j \in Behind(i, l), Alone(l[j], X, x, h)
            PROVE  \E k \in Behind(i, l2) : Alone(l2[k], X, x, h)
        <5>1. j \in Behind(i, l2) /\ l2[j] = l[j]
            BY <3>1 DEF Grown, Behind
        <5> QED
            BY <4>3, <5>1
      <4> QED
          BY <1>2, <3>1, <3>4, <4>1, <4>2, <4>3 DEF OrderLogged, ListedSo, AddedLast, AddedOnce
    <3>6. CASE ~Alive(s, X, x)
      <4>1. Alone(e, X, x, h)
          BY <1>0, <2>0, <3>2, <3>6 DEF Leads, Alone
      <4> QED
          BY <3>1, <4>1 DEF Grown
    <3> QED
        BY <3>5, <3>6
  <2> QED
      BY <2>1, <2>2
<1>3. ASSUME NEW X \in Ordered, NEW i \in 1..Len(l2), NEW y, Alone(l2[i], X, y, h),
             NEW j \in Behind(i, l2), Alone(l2[j], X, y, h)
      PROVE  FALSE
  <2>1. i \in 1..Len(l) /\ l2[i] = l[i]
      BY DEF Grown, Behind
  <2>2. CASE j = Len(l2)
      BY <1>3, <2>1, <2>2 DEF Grown, Arranges, Alone
  <2>3. CASE j # Len(l2)
    <3>1. j \in Behind(i, l) /\ l2[j] = l[j]
        BY <2>1, <2>3 DEF Grown, Behind
    <3> QED
        BY <1>3, <2>1, <3>1 DEF OrderLogged, ListedSo, AddedLast, AddedOnce
  <2> QED
      BY <2>2, <2>3
<1> QED
    BY <1>1, <1>2, <1>3 DEF OrderLogged, ListedSo, AddedLast, AddedOnce

-----------------------------------------------------------------------------
(* What the mirror lacks is still to come *)

\* Of the events behind m, which the mirror c has not applied: they bring what it
\* lacks, drop what it should not hold and write what is out of date.
Coming(s, l, c, m) ==
    \A X \in Kinds : \A id : Alive(s, X, id) /\ id \notin Held(c, X)
        => \E j \in Behind(m, l) : Brings(l[j], X, id)
\* What the mirror holds and the server has no more is dropped by an event behind.
Going(s, l, h, c, m) ==
    \A X \in Kinds : \A id \in Held(c, X) : ~Alive(s, X, id)
        => \E j \in Behind(m, l) : Drops(l[j], X, id, h)
\* A field that no event behind writes is in the mirror what it is at the server.
Current(s, l, h, c, m) ==
    \A X \in Kinds : \A r \in Recs(s, X) : \A f \in Fields(X) :
        /\ Key(X, r) \in Held(c, X)
        /\ \A j \in Behind(m, l) : Written(l[j], X, Key(X, r), f, h) = {}
        => c[X].entries[Key(X, r)][f] = r[f]

\* A pane the mirror lacks was made behind m: no event before is about it.
First(l, j, id) ==
    Brings(l[j], "panes", id) /\ \A k \in 1..(j - 1) : id \notin Mentions(l[k])
\* A pane the mirror lacks is brought behind m, by an event that is the first about it.
PanesComing(s, l, c, m) ==
    \A id : Alive(s, "panes", id) /\ id \notin Held(c, "panes")
        => \E j \in Behind(m, l) : First(l, j, id)

\* So was one that an event pushed after the snapshot, at t, is about.
PanesKnown(l, c, m, t) ==
    \A k \in Behind(t, l) : \A id \in Mentions(l[k]) : id \notin Held(c, "panes")
        => \E j \in (m + 1)..k : First(l, j, id)

\* The panes whose agent the mirror holds.
Agents0(c) == DOMAIN c.agents.entries
\* What apply writes into the agent's entry: the fields of the pane, but a move
\* rewrites it whole.
AgentWritten(e, id, f, h) == IF e.type = "PaneMoved" THEN {} ELSE Written(e, "panes", id, f, h)

\* An agent that runs is held, or is detected behind m, or comes with a pane that
\* moved after the snapshot; one that is held and does not run leaves behind m.
AgentsComing(s, l, c, m, t) ==
    \A id : Running(s, id) =>
        \/ id \in Agents0(c)
        \/ \E j \in Behind(m, l) : Joins(l[j], id)
        \/ \E j \in Behind(t, l) : Carries(l[j], id)
\* An agent the mirror holds and that runs no more leaves behind m.
AgentsGoing(s, l, h, c, m) ==
    \A id \in Agents0(c) : ~Running(s, id) => \E j \in Behind(m, l) : Leaves(l[j], id, h)
\* The same of the panes that move, at their move.
CarriedComing(l, c, m, t) ==
    \A k \in Behind(t, l) : l[k].type = "PaneMoved" /\ l[k].pane.agent # Absent =>
        \/ l[k].previous \in Agents0(c)
        \/ \E j \in (m + 1)..(k - 1) : Joins(l[j], l[k].previous)
        \/ \E j \in (t + 1)..(k - 1) : Carries(l[j], l[k].previous)
\* A pane that moves without an agent lost it behind m, if the mirror holds one.
BareGoing(l, c, m) ==
    \A k \in Behind(m, l) :
        l[k].type = "PaneMoved" /\ l[k].pane.agent = Absent /\ l[k].previous \in Agents0(c)
          => \E j \in (m + 1)..(k - 1) : Frees(l[j], l[k].previous)
\* A field of an agent that no event behind writes is what it is at the server.
AgentsCurrent(s, l, h, c, m) ==
    \A p \in s.panes : \A f \in Fields("panes") :
        /\ p.id \in Agents0(c)
        /\ \A j \in Behind(m, l) : AgentWritten(l[j], p.id, f, h) = {}
        => c.agents.entries[p.id][f] = p[f]

\* Two records of a group that is not listed again are in the server's order, and
\* those to come are last.
OrderKept(s, l, h, c, m) ==
    \A X \in Ordered : \A x, y :
        /\ Pair(s, X, x, y, h) /\ Unmoved(l, m, X, x, h) /\ x \in Held(c, X)
        /\ y \notin Held(c, X) \/ Precedes(c[X].ids, x, y)
        => Precedes(IdsOf(s[X]), x, y)

\* What the mirror lacks, holds too long or has out of date is still behind when the
\* server pushes one more event.
LEMMA GrowComing ==
    ASSUME NEW s, NEW s2, NEW e, NEW l, NEW l2, NEW h, NEW c, NEW m \in Nat,
           Grown(l, l2, e), Leads(s, e, s2, h), m <= Len(l),
           Coming(s, l, c, m), Going(s, l, h, c, m), Current(s, l, h, c, m)
    PROVE  /\ Coming(s2, l2, c, m) /\ Going(s2, l2, h, c, m)
           /\ Current(s2, l2, h, c, m)
<1>0. /\ Len(l2) \in Behind(m, l2) /\ l2[Len(l2)] = e
      /\ \A j \in Behind(m, l) : j \in Behind(m, l2) /\ l2[j] = l[j]
    BY DEF Grown, Behind
<1>1. Coming(s2, l2, c, m)
  <2> SUFFICES ASSUME NEW X \in Kinds, NEW id, Alive(s2, X, id), id \notin Held(c, X)
               PROVE  \E j \in Behind(m, l2) : Brings(l2[j], X, id)
      BY DEF Coming
  <2>1. CASE Alive(s, X, id)
    <3>1. PICK j \in Behind(m, l) : Brings(l[j], X, id)
        BY <2>1 DEF Coming
    <3> QED
        BY <1>0, <3>1
  <2>2. CASE ~Alive(s, X, id)
      BY <1>0, <2>2 DEF Leads
  <2> QED
      BY <2>1, <2>2
<1>2. Going(s2, l2, h, c, m)
  <2> SUFFICES ASSUME NEW X \in Kinds, NEW id \in Held(c, X), ~Alive(s2, X, id)
               PROVE  \E j \in Behind(m, l2) : Drops(l2[j], X, id, h)
      BY DEF Going
  <2>1. CASE ~Alive(s, X, id)
    <3>1. PICK j \in Behind(m, l) : Drops(l[j], X, id, h)
        BY <2>1 DEF Going
    <3> QED
        BY <1>0, <3>1
  <2>2. CASE Alive(s, X, id)
      BY <1>0, <2>2 DEF Leads
  <2> QED
      BY <2>1, <2>2
<1>3. Current(s2, l2, h, c, m)
  <2> SUFFICES ASSUME NEW X \in Kinds, NEW q \in Recs(s2, X), NEW f \in Fields(X),
                      Key(X, q) \in Held(c, X),
                      \A j \in Behind(m, l2) : Written(l2[j], X, Key(X, q), f, h) = {}
               PROVE  c[X].entries[Key(X, q)][f] = q[f]
      BY DEF Current
  <2>1. Written(e, X, Key(X, q), f, h) = {}
      BY <1>0
  <2>2. Alive(s, X, Key(X, q))
    <3>1. Alive(s2, X, Key(X, q)) /\ ~Brings(e, X, Key(X, q))
        BY <2>1, BringsWrites DEF Alive
    <3> QED
        BY <3>1 DEF Leads
  <2>3. PICK r \in Recs(s, X) : Key(X, r) = Key(X, q)
      BY <2>2 DEF Alive
  <2>4. \A j \in Behind(m, l) : Written(l[j], X, Key(X, r), f, h) = {}
      BY <1>0, <2>3
  <2>5. c[X].entries[Key(X, r)][f] = r[f]
      BY <2>3, <2>4 DEF Current
  <2> QED
      BY <2>1, <2>3, <2>5 DEF Leads
<1> QED
    BY <1>1, <1>2, <1>3

\* The same of the panes: the event that makes one is the first about it.
LEMMA GrowPanes ==
    ASSUME NEW s, NEW s2, NEW e, NEW l, NEW l2, NEW h, NEW c, NEW m \in Nat, NEW t \in Nat,
           Grown(l, l2, e), Leads(s, e, s2, h), Newborn(s, s2, e, l, h),
           m <= Len(l), m <= t, t <= Len(l),
           PanesComing(s, l, c, m), PanesKnown(l, c, m, t)
    PROVE  PanesComing(s2, l2, c, m) /\ PanesKnown(l2, c, m, t)
<1>0. /\ Len(l2) \in Behind(m, l2) /\ l2[Len(l2)] = e /\ Len(l2) = Len(l) + 1
      /\ \A j \in Behind(m, l) : j \in Behind(m, l2) /\ l2[j] = l[j]
    BY DEF Grown, Behind
<1>1. \A j \in 1..Len(l) : \A id : First(l, j, id) => First(l2, j, id)
    BY DEF First, Grown
<1>2. ASSUME NEW id, Alive(s2, "panes", id), ~Alive(s, "panes", id)
      PROVE  First(l2, Len(l2), id)
  <2>1. Brings(e, "panes", id)
      BY <1>2 DEF Leads, Kinds
  <2>2. \A k \in 1..(Len(l2) - 1) : id \notin Mentions(l2[k])
      BY <1>0, <1>2 DEF Newborn, Grown
  <2> QED
      BY <1>0, <2>1, <2>2 DEF First
<1>3. ASSUME NEW id, Alive(s, "panes", id), id \notin Held(c, "panes")
      PROVE  \E j \in (m + 1)..Len(l) : First(l2, j, id)
  <2>1. PICK j \in Behind(m, l) : First(l, j, id)
      BY <1>3 DEF PanesComing
  <2>2. j \in 1..Len(l) /\ j \in (m + 1)..Len(l)
      BY DEF Behind
  <2> QED
      BY <1>1, <2>1, <2>2
<1>4. PanesComing(s2, l2, c, m)
  <2> SUFFICES ASSUME NEW id, Alive(s2, "panes", id), id \notin Held(c, "panes")
               PROVE  \E j \in Behind(m, l2) : First(l2, j, id)
      BY DEF PanesComing
  <2>1. CASE Alive(s, "panes", id)
    <3>1. PICK j \in (m + 1)..Len(l) : First(l2, j, id)
        BY <1>3, <2>1
    <3>2. j \in Behind(m, l2)
        BY <1>0 DEF Behind, Grown
    <3> QED
        BY <3>1, <3>2
  <2> QED
      BY <1>0, <1>2, <2>1
<1>5. PanesKnown(l2, c, m, t)
  <2> SUFFICES ASSUME NEW k \in Behind(t, l2), NEW id \in Mentions(l2[k]),
                      id \notin Held(c, "panes")
               PROVE  \E j \in (m + 1)..k : First(l2, j, id)
      BY DEF PanesKnown
  <2>1. CASE k = Len(l2)
    <3>1. CASE Alive(s, "panes", id)
      <4>1. PICK j \in (m + 1)..Len(l) : First(l2, j, id)
          BY <1>3, <3>1
      <4>2. j \in (m + 1)..k
          BY <1>0, <2>1 DEF Grown
      <4> QED
          BY <4>1, <4>2
    <3>2. CASE ~Alive(s, "panes", id)
      <4>1. First(l2, k, id)
          BY <1>0, <1>2, <2>1, <3>2 DEF Newborn
      <4>2. k \in (m + 1)..k
          BY <1>0, <2>1 DEF Grown
      <4> QED
          BY <4>1, <4>2
    <3> QED
        BY <3>1, <3>2
  <2>2. CASE k # Len(l2)
    <3>1. k \in Behind(t, l) /\ l2[k] = l[k]
        BY <2>2 DEF Grown, Behind
    <3>2. PICK j \in (m + 1)..k : First(l, j, id)
        BY <3>1 DEF PanesKnown
    <3>3. j \in 1..Len(l)
        BY <3>1 DEF Behind, Grown
    <3> QED
        BY <1>1, <3>2, <3>3
  <2> QED
      BY <2>1, <2>2
<1> QED
    BY <1>4, <1>5

\* The same of the agents and of the panes that carry them.
LEMMA GrowAgentsKept ==
    ASSUME NEW s, NEW s2, NEW e, NEW l, NEW l2, NEW h, NEW c, NEW m \in Nat, NEW t \in Nat,
           Grown(l, l2, e), Leads(s, e, s2, h), Newborn(s, s2, e, l, h),
           Hires(s, e, s2, h), Mentions(e) \subseteq DOMAIN h.pane,
           ClosedGone(s, l, h), Going(s, l, h, c, m), Agents0(c) \subseteq Held(c, "panes"),
           m <= Len(l), m <= t, t <= Len(l),
           AgentsComing(s, l, c, m, t), AgentsGoing(s, l, h, c, m),
           CarriedComing(l, c, m, t), BareGoing(l, c, m), AgentsCurrent(s, l, h, c, m)
    PROVE  /\ AgentsComing(s2, l2, c, m, t) /\ AgentsGoing(s2, l2, h, c, m)
           /\ CarriedComing(l2, c, m, t) /\ BareGoing(l2, c, m)
           /\ AgentsCurrent(s2, l2, h, c, m)
<1>0. /\ Len(l2) \in Behind(m, l2) /\ Len(l2) \in Behind(t, l2)
      /\ l2[Len(l2)] = e /\ Len(l2) = Len(l) + 1 /\ Len(l) \in Nat
      /\ \A j \in Behind(m, l) : j \in Behind(m, l2) /\ l2[j] = l[j]
      /\ \A j \in Behind(t, l) : j \in Behind(t, l2) /\ l2[j] = l[j]
    BY DEF Grown, Behind
<1>1. AgentsComing(s2, l2, c, m, t)
  <2> SUFFICES ASSUME NEW id, Running(s2, id), id \notin Agents0(c)
               PROVE  \/ \E j \in Behind(m, l2) : Joins(l2[j], id)
                      \/ \E j \in Behind(t, l2) : Carries(l2[j], id)
      BY DEF AgentsComing
  <2>1. CASE Running(s, id)
    <3>1. CASE \E j \in Behind(m, l) : Joins(l[j], id)
        BY <1>0, <3>1
    <3>2. CASE \E j \in Behind(t, l) : Carries(l[j], id)
        BY <1>0, <3>2
    <3> QED
        BY <2>1, <3>1, <3>2 DEF AgentsComing
  <2>2. CASE ~Running(s, id)
      BY <1>0, <2>2 DEF Hires
  <2> QED
      BY <2>1, <2>2
<1>2. AgentsGoing(s2, l2, h, c, m)
  <2> SUFFICES ASSUME NEW id \in Agents0(c), ~Running(s2, id)
               PROVE  \E j \in Behind(m, l2) : Leaves(l2[j], id, h)
      BY DEF AgentsGoing
  <2>1. CASE ~Running(s, id)
    <3>1. PICK j \in Behind(m, l) : Leaves(l[j], id, h)
        BY <2>1 DEF AgentsGoing
    <3> QED
        BY <1>0, <3>1
  <2>2. CASE Running(s, id)
      BY <1>0, <2>2 DEF Hires
  <2> QED
      BY <2>1, <2>2
<1>3. CarriedComing(l2, c, m, t)
  <2> SUFFICES ASSUME NEW k \in Behind(t, l2), l2[k].type = "PaneMoved",
                      l2[k].pane.agent # Absent, l2[k].previous \notin Agents0(c)
               PROVE  \/ \E j \in (m + 1)..(k - 1) : Joins(l2[j], l2[k].previous)
                      \/ \E j \in (t + 1)..(k - 1) : Carries(l2[j], l2[k].previous)
      BY DEF CarriedComing
  <2>1. CASE k = Len(l2)
    <3>1. Running(s, e.previous) /\ l2[k] = e
        BY <1>0, <2>1 DEF Hires
    <3>2. ASSUME NEW j \in Behind(m, l), Joins(l[j], e.previous)
          PROVE  \E i \in (m + 1)..(k - 1) : Joins(l2[i], e.previous)
      <4>1. j \in (m + 1)..(k - 1) /\ l2[j] = l[j]
          BY <1>0, <2>1 DEF Behind
      <4> QED
          BY <3>2, <4>1
    <3>3. ASSUME NEW j \in Behind(t, l), Carries(l[j], e.previous)
          PROVE  \E i \in (t + 1)..(k - 1) : Carries(l2[i], e.previous)
      <4>1. j \in (t + 1)..(k - 1) /\ l2[j] = l[j]
          BY <1>0, <2>1 DEF Behind
      <4> QED
          BY <3>3, <4>1
    <3> QED
        BY <3>1, <3>2, <3>3 DEF AgentsComing
  <2>2. CASE k # Len(l2)
    <3>1. k \in Behind(t, l) /\ l2[k] = l[k]
        BY <2>2 DEF Grown, Behind
    <3>2. \A j \in 1..(k - 1) : l2[j] = l[j]
        BY <3>1 DEF Grown, Behind
    <3>3. (m + 1)..(k - 1) \subseteq 1..(k - 1) /\ (t + 1)..(k - 1) \subseteq 1..(k - 1)
        BY <3>1 DEF Behind
    <3>4. CASE \E j \in (m + 1)..(k - 1) : Joins(l[j], l[k].previous)
        BY <3>1, <3>2, <3>3, <3>4
    <3>5. CASE \E j \in (t + 1)..(k - 1) : Carries(l[j], l[k].previous)
        BY <3>1, <3>2, <3>3, <3>5
    <3> QED
        BY <3>1, <3>4, <3>5 DEF CarriedComing
  <2> QED
      BY <2>1, <2>2
<1>4. BareGoing(l2, c, m)
  <2> SUFFICES ASSUME NEW k \in Behind(m, l2), l2[k].type = "PaneMoved",
                      l2[k].pane.agent = Absent, l2[k].previous \in Agents0(c)
               PROVE  \E j \in (m + 1)..(k - 1) : Frees(l2[j], l2[k].previous)
      BY DEF BareGoing
  <2>1. CASE k = Len(l2)
    <3>1. ~Running(s, e.previous) /\ l2[k] = e /\ Alive(s, "panes", e.previous)
          /\ e.previous \in DOMAIN h.pane
        BY <1>0, <2>1 DEF Hires, Mentions
    <3>2. PICK j \in Behind(m, l) : Leaves(l[j], e.previous, h)
        BY <3>1 DEF AgentsGoing
    <3>3. j \in (m + 1)..(k - 1) /\ l2[j] = l[j] /\ j \in 1..Len(l)
        BY <1>0, <2>1 DEF Behind
    <3>4. ~Closes(l[j], "panes", e.previous, h)
        BY <3>1, <3>3 DEF ClosedGone, Kinds, Made
    <3> QED
        BY <3>1, <3>2, <3>3, <3>4 DEF Leaves
  <2>2. CASE k # Len(l2)
    <3>1. k \in Behind(m, l) /\ l2[k] = l[k]
        BY <2>2 DEF Grown, Behind
    <3>2. PICK j \in (m + 1)..(k - 1) : Frees(l[j], l[k].previous)
        BY <3>1 DEF BareGoing
    <3>3. l2[j] = l[j]
        BY <3>1 DEF Grown, Behind
    <3> QED
        BY <3>1, <3>2, <3>3
  <2> QED
      BY <2>1, <2>2
<1>5. AgentsCurrent(s2, l2, h, c, m)
  <2> SUFFICES ASSUME NEW q \in s2.panes, NEW f \in Fields("panes"), q.id \in Agents0(c),
                      \A j \in Behind(m, l2) : AgentWritten(l2[j], q.id, f, h) = {}
               PROVE  c.agents.entries[q.id][f] = q[f]
      BY DEF AgentsCurrent
  <2>1. "panes" \in Kinds /\ q \in Recs(s2, "panes") /\ Key("panes", q) = q.id
        /\ Alive(s2, "panes", q.id) /\ s.panes = Recs(s, "panes")
        /\ \A r : Key("panes", r) = r.id
      BY DEF Kinds, Recs, Key, Alive, Ordered
  <2>2. Alive(s, "panes", q.id)
    <3> SUFFICES ASSUME ~Alive(s, "panes", q.id) PROVE FALSE
        OBVIOUS
    <3>1. PICK j \in Behind(m, l) : Drops(l[j], "panes", q.id, h)
        BY <2>1 DEF Going
    <3>2. j \in 1..Len(l)
        BY DEF Behind
    <3>3. Closes(l[j], "panes", q.id, h)
        BY <3>1 DEF Drops, Reorders
    <3> QED
        BY <2>1, <3>2, <3>3 DEF Newborn
  <2>3. PICK p \in s.panes : p.id = q.id
      BY <2>1, <2>2 DEF Alive
  <2>4. Written(e, "panes", q.id, f, h) = {}
    <3>1. AgentWritten(e, q.id, f, h) = {}
        BY <1>0
    <3>2. CASE e.type # "PaneMoved"
        BY <3>1, <3>2 DEF AgentWritten
    <3>3. CASE e.type = "PaneMoved"
      <4>1. e.pane.id # q.id
          BY <2>2, <3>3 DEF Newborn
      <4> QED
          BY <3>3, <4>1 DEF Written, Puts, Key
    <3> QED
        BY <3>2, <3>3
  <2>5. c.agents.entries[p.id][f] = p[f]
      BY <1>0, <2>3 DEF AgentsCurrent
  <2> QED
      BY <2>1, <2>3, <2>4, <2>5 DEF Leads
<1> QED
    BY <1>1, <1>2, <1>3, <1>4, <1>5

\* The same of the order of workspaces and tabs.
LEMMA GrowOrderKept ==
    ASSUME NEW s, NEW s2, NEW e, NEW l, NEW l2, NEW h, NEW c, NEW m \in Nat,
           Grown(l, l2, e), Leads(s, e, s2, h), Newborn(s, s2, e, l, h),
           Arranges(s, e, s2, h, l), m <= Len(l),
           Going(s, l, h, c, m), OrderKept(s, l, h, c, m)
    PROVE  OrderKept(s2, l2, h, c, m)
<1> SUFFICES ASSUME NEW X \in Ordered, NEW x, NEW y,
                    Pair(s2, X, x, y, h), Unmoved(l2, m, X, x, h), x \in Held(c, X),
                    y \notin Held(c, X) \/ Precedes(c[X].ids, x, y)
             PROVE  Precedes(IdsOf(s2[X]), x, y)
    BY DEF OrderKept
<1>0. /\ Len(l2) \in Behind(m, l2) /\ l2[Len(l2)] = e
      /\ \A j \in Behind(m, l) : j \in Behind(m, l2) /\ l2[j] = l[j]
      /\ X \in Kinds /\ X # "layouts"
    BY DEF Grown, Behind, Ordered, Kinds
<1>1. Unmoved(l, m, X, x, h) /\ ~Reorders(e, X, Group(X, x, h))
    BY <1>0 DEF Unmoved
<1>2. Alive(s, X, x)
  <2> SUFFICES ASSUME ~Alive(s, X, x) PROVE FALSE
      OBVIOUS
  <2>1. PICK j \in Behind(m, l) : Drops(l[j], X, x, h)
      BY <1>0 DEF Going
  <2>2. j \in 1..Len(l)
      BY DEF Behind
  <2>3. Closes(l[j], X, x, h)
      BY <1>1, <2>1 DEF Drops, Unmoved
  <2> QED
      BY <1>0, <2>2, <2>3 DEF Newborn, Pair
<1>3. Alive(s, X, y) => Precedes(IdsOf(s[X]), x, y)
  <2> SUFFICES ASSUME Alive(s, X, y) PROVE Precedes(IdsOf(s[X]), x, y)
      OBVIOUS
  <2>1. Pair(s, X, x, y, h)
      BY <1>2 DEF Pair
  <2> QED
      BY <1>1, <2>1 DEF OrderKept
<1> QED
    BY <1>1, <1>2, <1>3 DEF Arranges

\* What the log says of the server's state s, by one event after the other.
Past(s, l, h, P) ==
    /\ Lawful(s, h)
    /\ AllGenuine(l, h)
    /\ CameStays(s, l, h) /\ WentReturned(s, l, h) /\ LastWrote(s, l, h)
    /\ ClosedGone(s, l, h) /\ MovedNew(l)
    /\ FocusStays(s, l, h, P)
    /\ AgentsLogged(s, l, h)
    /\ OrderLogged(s, l, h)

\* An agent's entry: the fields of the pane it runs in, and its name.
AgentShaped(r, id, h) ==
    /\ r = [id |-> r.id, tab |-> r.tab, ws |-> r.ws, focused |-> r.focused,
            agent |-> r.agent, display |-> r.display, status |-> r.status,
            rev |-> r.rev, name |-> r.name]
    /\ r.focused \in BOOLEAN
    /\ r.id = id /\ r.tab = h.pane[id] /\ r.ws = h.tab[r.tab]

\* The mirror holds records of ids that were made, where they were made.
Faithful(c, h) ==
    /\ SoundCache(c)
    /\ \A X \in Kinds : \A id \in Held(c, X) :
          Good(X, c[X].entries[id], h) /\ Key(X, c[X].entries[id]) = id
    /\ Agents0(c) \subseteq Held(c, "panes")
    /\ \A id \in Agents0(c) : AgentShaped(c.agents.entries[id], id, h)

\* What the mirror c, which applied m events and whose snapshot was taken when t
\* were pushed, still differs in is behind m.
Awaits(s, l, h, c, m, t) ==
    /\ m \in Nat /\ t \in Nat /\ m <= t /\ t <= Len(l)
    /\ Faithful(c, h)
    /\ Coming(s, l, c, m) /\ Going(s, l, h, c, m) /\ Current(s, l, h, c, m)
    /\ PanesComing(s, l, c, m) /\ PanesKnown(l, c, m, t)
    /\ AgentsComing(s, l, c, m, t) /\ AgentsGoing(s, l, h, c, m)
    /\ CarriedComing(l, c, m, t) /\ BareGoing(l, c, m) /\ AgentsCurrent(s, l, h, c, m)
    /\ OrderKept(s, l, h, c, m)

\* One event the server pushes, and the state it leads to.
Reports(s, e, s2, l, h) ==
    /\ Genuine(e, h)
    /\ Lawful(s2, h)
    /\ Leads(s, e, s2, h)
    /\ Newborn(s, s2, e, l, h)
    /\ Hires(s, e, s2, h)
    /\ Arranges(s, e, s2, h, l)

\* The tabs whose layout is still to be reported, before and after an event.
Pending(s, e, s2, h, P, Q) ==
    /\ \A x \in P : x \in Q \/ Written(e, "layouts", x, "focusedPane", h) # {}
    /\ \A id : Alive(s, "panes", id) /\ ~Alive(s2, "panes", id)
                 => h.pane[id] \in Q \/ ~Alive(s2, "layouts", h.pane[id])

\* Whatever the mirror differs in stays behind, for every mirror and every snapshot.
Lasts(s, l, h, s2, l2, h2) ==
    \A c, m, t : Awaits(s, l, h, c, m, t) => Awaits(s2, l2, h2, c, m, t)

\* One event the server pushes leaves a log that tells its state, and what a mirror
\* lacks still behind.
LEMMA OneReport ==
    ASSUME NEW s, NEW e, NEW s2, NEW l, NEW h, NEW P, NEW Q,
           Past(s, l, h, P), Reports(s, e, s2, l, h), Pending(s, e, s2, h, P, Q)
    PROVE  Past(s2, Append(l, e), h, Q) /\ Lasts(s, l, h, s2, Append(l, e), h)
<1> DEFINE l2 == Append(l, e)
<1>1. IsList(l) /\ Grown(l, l2, e) /\ IsList(l2)
    BY AppendGrown DEF Past, AllGenuine
<1> HIDE DEF l2
<1>2. AllGenuine(l2, h)
    BY <1>1 DEF Past, AllGenuine, Grown, Reports
<1>3. CameStays(s2, l2, h) /\ WentReturned(s2, l2, h)
    BY <1>1, GrowCame DEF Past, Reports
<1>4. LastWrote(s2, l2, h)
    BY <1>1, GrowWrote DEF Past, Reports
<1>5. ClosedGone(s2, l2, h) /\ MovedNew(l2)
    BY <1>1, GrowClosed DEF Past, Reports
<1>6. FocusStays(s2, l2, h, Q)
    BY <1>1, GrowFocus DEF Past, Reports, Pending
<1>7. AgentsLogged(s2, l2, h)
    BY <1>1, GrowAgents DEF Past, Reports, Genuine
<1>8. OrderLogged(s2, l2, h)
    BY <1>1, GrowOrder DEF Past, Reports
<1>9. ASSUME NEW c, NEW m, NEW t, Awaits(s, l, h, c, m, t)
      PROVE  Awaits(s2, l2, h, c, m, t)
  <2>1. m \in Nat /\ t \in Nat /\ m <= t /\ t <= Len(l) /\ Len(l) \in Nat /\ m <= Len(l)
        /\ Len(l2) = Len(l) + 1
      BY <1>1, <1>9 DEF Awaits, Grown
  <2>2. Coming(s2, l2, c, m) /\ Going(s2, l2, h, c, m) /\ Current(s2, l2, h, c, m)
      BY <1>1, <1>9, <2>1, GrowComing DEF Awaits, Reports
  <2>3. PanesComing(s2, l2, c, m) /\ PanesKnown(l2, c, m, t)
      BY <1>1, <1>9, <2>1, GrowPanes DEF Awaits, Reports
  <2>4. /\ AgentsComing(s2, l2, c, m, t) /\ AgentsGoing(s2, l2, h, c, m)
        /\ CarriedComing(l2, c, m, t) /\ BareGoing(l2, c, m)
        /\ AgentsCurrent(s2, l2, h, c, m)
    <3>1. Mentions(e) \subseteq DOMAIN h.pane /\ Agents0(c) \subseteq Held(c, "panes")
        BY <1>9 DEF Awaits, Reports, Genuine, Faithful
    <3>2. /\ Leads(s, e, s2, h) /\ Newborn(s, s2, e, l, h) /\ Hires(s, e, s2, h)
          /\ ClosedGone(s, l, h) /\ Going(s, l, h, c, m)
          /\ AgentsComing(s, l, c, m, t) /\ AgentsGoing(s, l, h, c, m)
          /\ CarriedComing(l, c, m, t) /\ BareGoing(l, c, m) /\ AgentsCurrent(s, l, h, c, m)
        BY <1>9 DEF Awaits, Reports, Past
    <3> QED
        BY <1>1, <2>1, <3>1, <3>2, GrowAgentsKept
  <2>5. OrderKept(s2, l2, h, c, m)
      BY <1>1, <1>9, <2>1, GrowOrderKept DEF Awaits, Reports
  <2> QED
      BY <1>9, <2>1, <2>2, <2>3, <2>4, <2>5 DEF Awaits
<1> QED
    BY <1>2, <1>3, <1>4, <1>5, <1>6, <1>7, <1>8, <1>9 DEF Past, Reports, Lasts, l2

-----------------------------------------------------------------------------
(* New ids *)

\* h2 knows what h does, and more.
Extends(h, h2) ==
    /\ h.ws \subseteq h2.ws
    /\ DOMAIN h.tab \subseteq DOMAIN h2.tab
    /\ DOMAIN h.pane \subseteq DOMAIN h2.pane
    /\ \A x \in DOMAIN h.tab : h2.tab[x] = h.tab[x]
    /\ \A x \in DOMAIN h.pane : h2.pane[x] = h.pane[x]

\* A new tab is made in a workspace there is, or a new one; so is a new pane.
Opens(s, h, h2) ==
    /\ \A x \in DOMAIN h2.tab \ DOMAIN h.tab :
          h2.tab[x] \in h.ws => Alive(s, "workspaces", h2.tab[x])
    /\ \A x \in DOMAIN h2.pane \ DOMAIN h.pane :
          h2.pane[x] \in DOMAIN h.tab => Alive(s, "tabs", h2.pane[x])

\* A record of an id made before is as good when more ids are made.
LEMMA SameGood ==
    ASSUME NEW h, NEW h2, Extends(h, h2), Homes(h), NEW X \in Kinds, NEW r, Good(X, r, h)
    PROVE  Good(X, r, h2) /\ Key(X, r) \in Made(X, h)
<1>1. CASE X = "workspaces"
    BY <1>1 DEF Good, Extends, Key, Made
<1>2. CASE X = "tabs"
    BY <1>2 DEF Good, Extends, Key, Made
<1>3. CASE X = "panes"
  <2>1. r.id \in DOMAIN h.pane /\ r.tab = h.pane[r.id] /\ r.tab \in DOMAIN h.tab
      BY <1>3 DEF Good, Homes
  <2> QED
      BY <1>3, <2>1 DEF Good, Extends, Key, Made
<1>4. CASE X = "layouts"
    BY <1>4 DEF Good, Extends, Key, Made
<1> QED
    BY <1>1, <1>2, <1>3, <1>4 DEF Kinds

\* An event means the same when more ids are made: it closes, lists and writes the same
\* records.
LEMMA SameMeaning ==
    ASSUME NEW h, NEW h2, Extends(h, h2), Homes(h), NEW e, Genuine(e, h),
           NEW X \in Kinds, NEW id \in Made(X, h)
    PROVE  /\ Closes(e, X, id, h2) <=> Closes(e, X, id, h)
           /\ X \in Ordered => Group(X, id, h2) = Group(X, id, h)
           /\ Drops(e, X, id, h2) <=> Drops(e, X, id, h)
           /\ \A f : Written(e, X, id, f, h2) = Written(e, X, id, f, h)
           /\ Alone(e, X, id, h2) <=> Alone(e, X, id, h)
<1>1. Closes(e, X, id, h2) <=> Closes(e, X, id, h)
  <2>1. CASE X = "workspaces"
      BY <2>1 DEF Closes
  <2>2. CASE X = "tabs" \/ X = "layouts"
    <3>1. h2.tab[id] = h.tab[id]
        BY <2>2 DEF Made, Extends
    <3> QED
        BY <2>2, <3>1 DEF Closes
  <2>3. CASE X = "panes"
    <3>1. h2.pane[id] = h.pane[id] /\ h2.tab[h.pane[id]] = h.tab[h.pane[id]]
        BY <2>3 DEF Made, Extends, Homes
    <3> QED
        BY <2>3, <3>1 DEF Closes
  <2> QED
      BY <2>1, <2>2, <2>3 DEF Kinds
<1>2. X \in Ordered => Group(X, id, h2) = Group(X, id, h)
    BY DEF Group, Made, Extends, Ordered
<1>3. X \notin Ordered => \A g : ~Reorders(e, X, g)
    BY DEF Reorders, Ordered
<1>5. \A f : Written(e, X, id, f, h2) = Written(e, X, id, f, h)
  <2>1. CASE X # "layouts"
      BY <2>1 DEF Written, Kinds
  <2>2. CASE X = "layouts"
    <3>1. e.type = "PaneFocused" => h2.pane[e.id] = h.pane[e.id]
        BY DEF Genuine, Mentions, Extends
    <3> QED
        BY <2>2, <3>1 DEF Written
  <2> QED
      BY <2>1, <2>2
<1> QED
    BY <1>1, <1>2, <1>3, <1>5 DEF Drops, Alone

\* The server has records of ids it made.
LEMMA AliveMade ==
    ASSUME NEW s, NEW h, Lawful(s, h), NEW X \in Kinds, NEW id, Alive(s, X, id)
    PROVE  id \in Made(X, h)
<1>1. PICK r \in Recs(s, X) : Key(X, r) = id
    BY DEF Alive
<1>2. Good(X, r, h) /\ Homes(h)
    BY DEF Lawful
<1> QED
    BY <1>1, <1>2, SameGood DEF Extends

\* An event brings records of ids that were made.
LEMMA BroughtMade ==
    ASSUME NEW e, NEW h, Homes(h), Genuine(e, h), NEW X \in Kinds, NEW id, Brings(e, X, id)
    PROVE  id \in Made(X, h)
<1>1. PICK r \in Puts(e, X) : Key(X, r) = id
    BY DEF Brings
<1>2. Good(X, r, h)
    BY DEF Genuine
<1> QED
    BY <1>1, <1>2, SameGood DEF Extends

\* pane.agent_detected and pane.moved are about the pane they name.
LEMMA AboutMentions ==
    ASSUME NEW e, NEW id, Arrives(e, id) \/ Frees(e, id)
    PROVE  id \in Mentions(e)
    BY DEF Arrives, Joins, Carries, Frees, Mentions

\* An event the server could push before more ids are made, it could push after.
LEMMA SameGenuine ==
    ASSUME NEW h, NEW h2, Extends(h, h2), Homes(h), NEW e, Genuine(e, h)
    PROVE  Genuine(e, h2)
<1>1. \A X \in Kinds : \A r \in Puts(e, X) : Good(X, r, h2)
    BY SameGood DEF Genuine
<1>2. Mentions(e) \subseteq DOMAIN h2.pane
    BY DEF Genuine, Extends
<1>3. /\ e.type = "WorkspaceClosed" => e.id \in h2.ws
      /\ e.type = "TabClosed" => e.id \in DOMAIN h2.tab
      /\ e.type = "PaneMoved" /\ e.closedTab # Absent => e.closedTab \in DOMAIN h2.tab
    BY DEF Genuine, Extends
<1> QED
    BY <1>1, <1>2, <1>3 DEF Genuine

\* The log tells the state just as well when a new id is made that it says nothing of.
LEMMA ExtendPast ==
    ASSUME NEW s, NEW l, NEW h, NEW h2, NEW P,
           Past(s, l, h, P), Extends(h, h2), Homes(h2)
    PROVE  Past(s, l, h2, P)
<1>0. /\ Lawful(s, h) /\ Homes(h) /\ AllGenuine(l, h)
      /\ \A X \in Kinds : \A id : Alive(s, X, id) => id \in Made(X, h)
    BY AliveMade DEF Past, Lawful
<1>1. ASSUME NEW i \in 1..Len(l)
      PROVE  Genuine(l[i], h)
    BY <1>0 DEF AllGenuine
<1>2. ASSUME NEW i \in 1..Len(l), NEW X \in Kinds, NEW id, Brings(l[i], X, id)
      PROVE  id \in Made(X, h)
    BY <1>0, <1>1, <1>2, BroughtMade
<1>3. Lawful(s, h2)
    BY <1>0, SameGood DEF Lawful
<1>4. AllGenuine(l, h2)
    BY <1>0, SameGenuine DEF AllGenuine
<1>5. ASSUME NEW i \in 1..Len(l), NEW X \in Kinds, NEW id \in Made(X, h)
      PROVE  /\ Closes(l[i], X, id, h2) <=> Closes(l[i], X, id, h)
             /\ X \in Ordered => Group(X, id, h2) = Group(X, id, h)
             /\ Drops(l[i], X, id, h2) <=> Drops(l[i], X, id, h)
             /\ \A f : Written(l[i], X, id, f, h2) = Written(l[i], X, id, f, h)
             /\ Alone(l[i], X, id, h2) <=> Alone(l[i], X, id, h)
    BY <1>0, <1>1, SameMeaning
<1>6. \A i \in 1..Len(l) : Behind(i, l) \subseteq 1..Len(l)
    BY DEF Behind
<1>7. CameStays(s, l, h2)
  <2> SUFFICES ASSUME NEW X \in Kinds, NEW id, NEW i \in 1..Len(l),
                      Brings(l[i], X, id), ~Alive(s, X, id)
               PROVE  \E j \in Behind(i, l) : Drops(l[j], X, id, h2)
      BY DEF CameStays
  <2>1. PICK j \in Behind(i, l) : Drops(l[j], X, id, h)
      BY DEF Past, CameStays
  <2> QED
      BY <2>1, <1>2, <1>5, <1>6
<1>8. WentReturned(s, l, h2)
    BY <1>0, <1>5 DEF Past, WentReturned
<1>9. LastWrote(s, l, h2)
  <2> SUFFICES ASSUME NEW X \in Kinds, NEW r \in Recs(s, X), NEW f \in Fields(X),
                      NEW i \in 1..Len(l), NEW v \in Written(l[i], X, Key(X, r), f, h2),
                      \A j \in Behind(i, l) : Written(l[j], X, Key(X, r), f, h2) = {}
               PROVE  r[f] = v
      BY DEF LastWrote
  <2>1. Key(X, r) \in Made(X, h)
      BY <1>0 DEF Alive
  <2>2. v \in Written(l[i], X, Key(X, r), f, h)
      BY <2>1, <1>5
  <2>3. \A j \in Behind(i, l) : Written(l[j], X, Key(X, r), f, h) = {}
      BY <2>1, <1>5, <1>6
  <2> QED
      BY <2>2, <2>3 DEF Past, LastWrote
<1>10. ClosedGone(s, l, h2)
  <2>1. ASSUME NEW X \in Kinds \ {"layouts"}, NEW id, NEW i \in 1..Len(l),
               Closes(l[i], X, id, h2), Alive(s, X, id)
        PROVE  FALSE
    <3>1. id \in Made(X, h)
        BY <1>0, <2>1
    <3> QED
        BY <2>1, <3>1, <1>5 DEF Past, ClosedGone
  <2>2. ASSUME NEW id, NEW i \in 1..Len(l), Closes(l[i], "panes", id, h2),
               NEW k \in Behind(i, l), id \in Mentions(l[k])
        PROVE  FALSE
    <3>1. id \in DOMAIN h.pane
        BY <1>1, <1>6, <2>2 DEF Genuine
    <3>2. "panes" \in Kinds /\ Made("panes", h) = DOMAIN h.pane
        BY DEF Kinds, Made
    <3>3. Closes(l[i], "panes", id, h)
        BY <2>2, <3>1, <3>2, <1>5
    <3> QED
        BY <2>2, <3>1, <3>3 DEF Past, ClosedGone
  <2> QED
      BY <2>1, <2>2 DEF ClosedGone
<1>11. FocusStays(s, l, h2, P)
  <2> SUFFICES ASSUME NEW i \in 1..Len(l), l[i].type = "PaneFocused",
                      h2.pane[l[i].id] \notin P, Alive(s, "layouts", h2.pane[l[i].id]),
                      \A j \in Behind(i, l) :
                          Written(l[j], "layouts", h2.pane[l[i].id], "focusedPane", h2) = {}
               PROVE  Alive(s, "panes", l[i].id)
      BY DEF FocusStays
  <2>1. l[i].id \in DOMAIN h.pane
      BY <1>1 DEF Genuine, Mentions
  <2>2. h2.pane[l[i].id] = h.pane[l[i].id] /\ h.pane[l[i].id] \in Made("layouts", h)
        /\ "layouts" \in Kinds
      BY <2>1, <1>0 DEF Extends, Homes, Made, Kinds
  <2>3. \A j \in Behind(i, l) :
            Written(l[j], "layouts", h.pane[l[i].id], "focusedPane", h) = {}
      BY <2>2, <1>5, <1>6, ZenonT(60)
  <2> QED
      BY <2>2, <2>3 DEF Past, FocusStays
<1>12. AgentsLogged(s, l, h2)
  <2>1. ASSUME NEW i \in 1..Len(l), NEW id, Arrives(l[i], id), ~Running(s, id)
        PROVE  \E j \in Behind(i, l) : Leaves(l[j], id, h2)
    <3>1. id \in DOMAIN h.pane /\ "panes" \in Kinds /\ Made("panes", h) = DOMAIN h.pane
        BY <1>1, <2>1, AboutMentions DEF Genuine, Kinds, Made
    <3>2. PICK j \in Behind(i, l) : Leaves(l[j], id, h)
        BY <2>1, <3>1 DEF Past, AgentsLogged
    <3> QED
        BY <3>1, <3>2, <1>5, <1>6 DEF Leaves
  <2> QED
      BY <2>1 DEF Past, AgentsLogged
<1>13. OrderLogged(s, l, h2)
  <2>0. Ordered \subseteq Kinds
      BY DEF Ordered, Kinds
  <2>1. ASSUME NEW X \in Ordered, NEW x, NEW y, Pair(s, X, x, y, h2)
        PROVE  /\ Pair(s, X, x, y, h)
               /\ x \in Made(X, h) /\ y \in Made(X, h)
               /\ Group(X, x, h2) = Group(X, x, h) /\ Group(X, y, h2) = Group(X, y, h)
    <3>1. x \in Made(X, h) /\ y \in Made(X, h)
        BY <1>0, <2>0, <2>1 DEF Pair
    <3>2. Group(X, x, h2) = Group(X, x, h) /\ Group(X, y, h2) = Group(X, y, h)
        BY <3>1 DEF Group, Ordered, Made, Extends
    <3> QED
        BY <2>1, <3>1, <3>2 DEF Pair
  <2>2. ListedSo(s, l, h2)
    <3> SUFFICES ASSUME NEW X \in Ordered, NEW i \in 1..Len(l), NEW x, NEW y,
                        Pair(s, X, x, y, h2), Unmoved(l, i, X, x, h2),
                        Reorders(l[i], X, Group(X, x, h2)), Listed(l[i], X, x, y)
                 PROVE  Precedes(IdsOf(s[X]), x, y)
        BY DEF ListedSo
    <3>1. Pair(s, X, x, y, h) /\ Group(X, x, h2) = Group(X, x, h)
        BY <2>1
    <3>2. Unmoved(l, i, X, x, h)
        BY <3>1 DEF Unmoved
    <3> QED
        BY <3>1, <3>2 DEF Past, OrderLogged, ListedSo
  <2>3. AddedLast(s, l, h2)
    <3> SUFFICES ASSUME NEW X \in Ordered, NEW i \in 1..Len(l), NEW x, NEW y,
                        Pair(s, X, x, y, h2), Unmoved(l, i, X, y, h2),
                        Alone(l[i], X, y, h2)
                 PROVE  \/ Precedes(IdsOf(s[X]), x, y)
                        \/ \E j \in Behind(i, l) : Alone(l[j], X, x, h2)
        BY DEF AddedLast
    <3>1. /\ Pair(s, X, x, y, h) /\ Group(X, y, h2) = Group(X, y, h)
          /\ x \in Made(X, h) /\ y \in Made(X, h)
        BY <2>1
    <3>2. Unmoved(l, i, X, y, h) /\ Alone(l[i], X, y, h)
        BY <3>1, <2>0, <1>5 DEF Unmoved
    <3>3. \/ Precedes(IdsOf(s[X]), x, y)
          \/ \E j \in Behind(i, l) : Alone(l[j], X, x, h)
        BY <3>1, <3>2 DEF Past, OrderLogged, AddedLast
    <3> QED
        BY <3>1, <3>3, <2>0, <1>5, <1>6
  <2>4. AddedOnce(l, h2)
    <3> SUFFICES ASSUME NEW X \in Ordered, NEW i \in 1..Len(l), NEW y,
                        Alone(l[i], X, y, h2), NEW j \in Behind(i, l), Alone(l[j], X, y, h2)
                 PROVE  FALSE
        BY DEF AddedOnce
    <3>1. y \in Made(X, h)
        BY <1>2, <2>0 DEF Alone
    <3>2. Alone(l[i], X, y, h) /\ Alone(l[j], X, y, h)
        BY <3>1, <2>0, <1>5, <1>6
    <3> QED
        BY <3>2 DEF Past, OrderLogged, AddedOnce
  <2> QED
      BY <2>2, <2>3, <2>4 DEF OrderLogged
<1> QED
    BY <1>3, <1>4, <1>7, <1>8, <1>9, <1>10, <1>11, <1>12, <1>13 DEF Past

\* What a mirror lacks stays behind when a new id is made.
LEMMA ExtendAwaits ==
    ASSUME NEW s, NEW l, NEW h, NEW h2, NEW P,
           Past(s, l, h, P), Extends(h, h2), Homes(h2)
    PROVE  Lasts(s, l, h, s, l, h2)
<1> SUFFICES ASSUME NEW c, NEW m, NEW t, Awaits(s, l, h, c, m, t)
             PROVE  Awaits(s, l, h2, c, m, t)
    BY DEF Lasts
<1>0. /\ Lawful(s, h) /\ Homes(h) /\ AllGenuine(l, h)
      /\ \A X \in Kinds : \A id : Alive(s, X, id) => id \in Made(X, h)
    BY AliveMade DEF Past, Lawful
<1>1. /\ \A i \in Behind(m, l) : i \in 1..Len(l)
      /\ Faithful(c, h)
    BY DEF Awaits, Behind
<1>2. \A X \in Kinds : Held(c, X) \subseteq Made(X, h)
    BY <1>0, <1>1, SameGood DEF Faithful, Extends
<1>3. ASSUME NEW i \in 1..Len(l), NEW X \in Kinds, NEW id \in Made(X, h)
      PROVE  /\ Closes(l[i], X, id, h2) <=> Closes(l[i], X, id, h)
             /\ Drops(l[i], X, id, h2) <=> Drops(l[i], X, id, h)
             /\ \A f : Written(l[i], X, id, f, h2) = Written(l[i], X, id, f, h)
    BY <1>0, SameMeaning DEF AllGenuine
<1>4. "panes" \in Kinds /\ Made("panes", h) = DOMAIN h.pane
      /\ Agents0(c) \subseteq DOMAIN h.pane
    BY <1>1, <1>2 DEF Kinds, Made, Faithful
<1>5. Faithful(c, h2)
  <2>1. \A id \in Agents0(c) : AgentShaped(c.agents.entries[id], id, h2)
      BY <1>0, <1>1, <1>4 DEF Faithful, AgentShaped, Extends, Homes
  <2>2. \A X \in Kinds : \A id \in Held(c, X) :
            Good(X, c[X].entries[id], h2) /\ Key(X, c[X].entries[id]) = id
      BY <1>0, <1>1, SameGood DEF Faithful
  <2> QED
      BY <1>1, <2>1, <2>2 DEF Faithful
<1>6. Going(s, l, h2, c, m)
  <2> SUFFICES ASSUME NEW X \in Kinds, NEW id \in Held(c, X), ~Alive(s, X, id)
               PROVE  \E j \in Behind(m, l) : Drops(l[j], X, id, h2)
      BY DEF Going
  <2>1. PICK j \in Behind(m, l) : Drops(l[j], X, id, h)
      BY DEF Awaits, Going
  <2> QED
      BY <2>1, <1>1, <1>2, <1>3
<1>7. Current(s, l, h2, c, m)
  <2> SUFFICES ASSUME NEW X \in Kinds, NEW r \in Recs(s, X), NEW f \in Fields(X),
                      Key(X, r) \in Held(c, X),
                      \A j \in Behind(m, l) : Written(l[j], X, Key(X, r), f, h2) = {}
               PROVE  c[X].entries[Key(X, r)][f] = r[f]
      BY DEF Current
  <2>1. \A j \in Behind(m, l) : Written(l[j], X, Key(X, r), f, h) = {}
      BY <1>1, <1>2, <1>3
  <2> QED
      BY <2>1 DEF Awaits, Current
<1>8. AgentsGoing(s, l, h2, c, m)
  <2> SUFFICES ASSUME NEW id \in Agents0(c), ~Running(s, id)
               PROVE  \E j \in Behind(m, l) : Leaves(l[j], id, h2)
      BY DEF AgentsGoing
  <2>1. PICK j \in Behind(m, l) : Leaves(l[j], id, h)
      BY DEF Awaits, AgentsGoing
  <2> QED
      BY <2>1, <1>1, <1>3, <1>4 DEF Leaves
<1>9. AgentsCurrent(s, l, h2, c, m)
  <2> SUFFICES ASSUME NEW p \in s.panes, NEW f \in Fields("panes"), p.id \in Agents0(c),
                      \A j \in Behind(m, l) : AgentWritten(l[j], p.id, f, h2) = {}
               PROVE  c.agents.entries[p.id][f] = p[f]
      BY DEF AgentsCurrent
  <2>1. \A j \in Behind(m, l) : AgentWritten(l[j], p.id, f, h) = {}
      BY <1>1, <1>3, <1>4 DEF AgentWritten
  <2> QED
      BY <2>1 DEF Awaits, AgentsCurrent
<1>10. OrderKept(s, l, h2, c, m)
  <2> SUFFICES ASSUME NEW X \in Ordered, NEW x, NEW y,
                      Pair(s, X, x, y, h2), Unmoved(l, m, X, x, h2), x \in Held(c, X),
                      y \notin Held(c, X) \/ Precedes(c[X].ids, x, y)
               PROVE  Precedes(IdsOf(s[X]), x, y)
      BY DEF OrderKept
  <2>0. X \in Kinds
      BY DEF Ordered, Kinds
  <2>1. x \in Made(X, h) /\ y \in Made(X, h)
      BY <1>0, <2>0 DEF Pair
  <2>2. Group(X, x, h2) = Group(X, x, h) /\ Group(X, y, h2) = Group(X, y, h)
      BY <2>1 DEF Group, Ordered, Made, Extends
  <2>3. Pair(s, X, x, y, h) /\ Unmoved(l, m, X, x, h)
      BY <2>2 DEF Pair, Unmoved
  <2> QED
      BY <2>3 DEF Awaits, OrderKept
<1> QED
    BY <1>5, <1>6, <1>7, <1>8, <1>9, <1>10 DEF Awaits

\* The log knows nothing of an id that is new.
Unheard(s, l, h, h2) ==
    /\ \A X \in Kinds : \A id \in Made(X, h2) \ Made(X, h) :
          /\ ~Alive(s, X, id)
          /\ \A i \in 1..Len(l) : ~Brings(l[i], X, id)
          /\ X # "layouts" => \A i \in 1..Len(l) : ~Closes(l[i], X, id, h2)
    /\ \A id \in DOMAIN h2.pane \ DOMAIN h.pane : \A i \in 1..Len(l) :
          id \notin Mentions(l[i])

\* No event of the log is about an id that is made now: workspace.create, tab.create
\* and pane.split give out new ones.
LEMMA NewUnheard ==
    ASSUME NEW s, NEW l, NEW h, NEW h2, NEW P,
           Past(s, l, h, P), Extends(h, h2), Homes(h2), Opens(s, h, h2)
    PROVE  Unheard(s, l, h, h2)
<1>0. /\ Lawful(s, h) /\ Homes(h) /\ AllGenuine(l, h)
      /\ \A X \in Kinds : \A id : Alive(s, X, id) => id \in Made(X, h)
    BY AliveMade DEF Past, Lawful
<1>1. ASSUME NEW i \in 1..Len(l)
      PROVE  Genuine(l[i], h)
    BY <1>0 DEF AllGenuine
<1>2. ASSUME NEW X \in Kinds, NEW id \in Made(X, h2) \ Made(X, h)
      PROVE  ~Alive(s, X, id) /\ \A i \in 1..Len(l) : ~Brings(l[i], X, id)
    BY <1>0, <1>1, BroughtMade
<1>3. \A id \in DOMAIN h2.pane \ DOMAIN h.pane : \A i \in 1..Len(l) : id \notin Mentions(l[i])
    BY <1>1 DEF Genuine
<1>4. ASSUME NEW w, Alive(s, "workspaces", w), NEW i \in 1..Len(l),
             l[i].type = "WorkspaceClosed", l[i].id = w
      PROVE  FALSE
  <2>1. w \in Made("workspaces", h) /\ "workspaces" \in Kinds \ {"layouts"}
        /\ Closes(l[i], "workspaces", w, h)
      BY <1>0, <1>4 DEF Kinds, Closes
  <2> QED
      BY <1>4, <2>1 DEF Past, ClosedGone
<1>5. ASSUME NEW x, Alive(s, "tabs", x), NEW i \in 1..Len(l), Closes(l[i], "tabs", x, h)
      PROVE  FALSE
  <2>1. x \in Made("tabs", h) /\ "tabs" \in Kinds \ {"layouts"}
      BY <1>0, <1>5 DEF Kinds
  <2> QED
      BY <1>5, <2>1 DEF Past, ClosedGone
<1>6. ASSUME NEW id \in h2.ws \ h.ws, NEW i \in 1..Len(l), Closes(l[i], "workspaces", id, h2)
      PROVE  FALSE
    BY <1>1, <1>6 DEF Closes, Genuine
<1>7. ASSUME NEW id \in DOMAIN h2.tab \ DOMAIN h.tab, NEW i \in 1..Len(l),
             Closes(l[i], "tabs", id, h2)
      PROVE  FALSE
  <2>1. CASE l[i].type = "WorkspaceClosed" /\ h2.tab[id] = l[i].id
    <3>1. h2.tab[id] \in h.ws
        BY <1>1, <2>1 DEF Genuine
    <3>2. Alive(s, "workspaces", h2.tab[id])
        BY <3>1 DEF Opens
    <3> QED
        BY <1>4, <2>1, <3>2
  <2>2. CASE l[i].type = "TabClosed" /\ l[i].id = id
      BY <1>1, <2>2 DEF Genuine
  <2>3. CASE l[i].type = "PaneMoved" /\ l[i].closedTab # Absent /\ l[i].closedTab = id
      BY <1>1, <2>3 DEF Genuine
  <2> QED
      BY <1>7, <2>1, <2>2, <2>3 DEF Closes
<1>8. ASSUME NEW id \in DOMAIN h2.pane \ DOMAIN h.pane, NEW i \in 1..Len(l),
             Closes(l[i], "panes", id, h2)
      PROVE  FALSE
  <2> DEFINE x == h2.pane[id]
  <2>0. x \in DOMAIN h2.tab
      BY DEF Homes
  <2>1. Closes(l[i], "tabs", x, h2) \/ id \in Mentions(l[i])
      BY <1>8 DEF Closes, Mentions
  <2>2. Closes(l[i], "tabs", x, h2)
      BY <2>1, <1>3
  <2>3. x \in DOMAIN h.tab
      BY <2>0, <2>2, <1>7
  <2>4. Alive(s, "tabs", x)
      BY <2>3 DEF Opens
  <2>5. Closes(l[i], "tabs", x, h)
    <3>1. "tabs" \in Kinds /\ x \in Made("tabs", h)
        BY <2>3 DEF Kinds, Made
    <3> QED
        BY <3>1, <2>2, <1>0, <1>1, SameMeaning
  <2> QED
      BY <2>4, <2>5, <1>5
<1>9. ASSUME NEW X \in Kinds, NEW id \in Made(X, h2) \ Made(X, h), X # "layouts",
             NEW i \in 1..Len(l), Closes(l[i], X, id, h2)
      PROVE  FALSE
  <2>1. CASE X = "workspaces"
      BY <2>1, <1>6, <1>9 DEF Made
  <2>2. CASE X = "tabs"
      BY <2>2, <1>7, <1>9 DEF Made
  <2>3. CASE X = "panes"
      BY <2>3, <1>8, <1>9 DEF Made
  <2> QED
      BY <1>9, <2>1, <2>2, <2>3 DEF Kinds
<1> QED
    BY <1>2, <1>3, <1>9 DEF Unheard

\* The ids of a list are its range.
LEMMA RangeIds ==
    ASSUME NEW s, IsList(s)
    PROVE  S!Range(s) = Ids(s)
    BY DEF S!Range, IsList, Ids

\* Of two elements of a list one is first, not both.
LEMMA PrecedesTotal ==
    ASSUME NEW s, IsList(s), Distinct(s), NEW x \in Ids(s), NEW y \in Ids(s), x # y
    PROVE  Precedes(s, x, y) <=> ~Precedes(s, y, x)
<1>1. PICK i \in 1..Len(s), j \in 1..Len(s) : s[i] = x /\ s[j] = y
    BY DEF Ids
<1>2. Len(s) \in Nat
    BY DEF IsList
<1>3. i < j \/ j < i
    BY <1>1, <1>2
<1>4. ASSUME Precedes(s, x, y), Precedes(s, y, x) PROVE FALSE
  <2>1. PICK a \in 1..Len(s), b \in 1..Len(s) : a < b /\ s[a] = x /\ s[b] = y
      BY <1>4 DEF Precedes
  <2>2. PICK c \in 1..Len(s), d \in 1..Len(s) : c < d /\ s[c] = y /\ s[d] = x
      BY <1>4 DEF Precedes
  <2>3. a = d /\ b = c
      BY <2>1, <2>2 DEF Distinct
  <2> QED
      BY <2>1, <2>2, <2>3, <1>2
<1> QED
    BY <1>1, <1>3, <1>4 DEF Precedes

\* The ids of a list of records, in its order.
LEMMA IdsOfFacts ==
    ASSUME NEW s, IsList(s)
    PROVE  /\ IsList(IdsOf(s)) /\ Len(IdsOf(s)) = Len(s)
           /\ \A i \in 1..Len(s) : IdsOf(s)[i] = s[i].id
           /\ Ids(IdsOf(s)) = {r.id : r \in Ids(s)}
<1>1. s \in Seq(Ids(s)) /\ DOMAIN s = 1..Len(s) /\ Len(s) \in Nat
    BY DEF IsList
<1>2. \A i \in 1..Len(s) : IdsOf(s)[i] = s[i].id
    BY <1>1 DEF IdsOf
<1>3. DOMAIN IdsOf(s) = 1..Len(s)
    BY <1>1 DEF IdsOf
<1> DEFINE D == {r.id : r \in Ids(s)}
<1>4. IdsOf(s) \in Seq(D)
  <2>1. \A i \in 1..Len(s) : s[i].id \in D
      BY DEF Ids
  <2>2. IdsOf(s) = [i \in 1..Len(s) |-> s[i].id]
      BY <1>1 DEF IdsOf
  <2> HIDE DEF D
  <2>3. [i \in 1..Len(s) |-> s[i].id] \in [1..Len(s) -> D]
      BY <2>1
  <2> QED
      BY <1>1, <2>2, <2>3
<1>5. Len(IdsOf(s)) = Len(s)
    BY <1>1, <1>3, <1>4
<1>6. Ids(IdsOf(s)) = D
    BY <1>2, <1>5 DEF Ids
<1> QED
    BY <1>2, <1>4, <1>5, <1>6, SeqIsList

\* An id is before another where its record is.
LEMMA PrecedesIds ==
    ASSUME NEW s, IsList(s), NEW x, NEW y
    PROVE  Precedes(IdsOf(s), x, y)
             <=> \E r, q : Precedes(s, r, q) /\ r.id = x /\ q.id = y
    BY IdsOfFacts DEF Precedes

\* What is in an order is in the list.
LEMMA PrecedesLies ==
    ASSUME NEW s, NEW x, NEW y, Precedes(s, x, y)
    PROVE  x \in Ids(s) /\ y \in Ids(s)
    BY DEF Precedes, Ids

\* In a list with one more, what was in order is, and the new one is last.
LEMMA PrecedesAppend ==
    ASSUME NEW s, NEW z, IsList(s)
    PROVE  /\ \A x, y : Precedes(s, x, y) => Precedes(Append(s, z), x, y)
           /\ \A x \in Ids(s) : Precedes(Append(s, z), x, z)
<1>1. Grown(s, Append(s, z), z)
    BY AppendGrown
<1> DEFINE t == Append(s, z)
<1> HIDE DEF t
<1>2. Grown(s, t, z)
    BY <1>1 DEF t
<1>3. \A x, y : Precedes(s, x, y) => Precedes(t, x, y)
    BY <1>2 DEF Precedes, Grown
<1>4. \A x \in Ids(s) : Precedes(t, x, z)
  <2> TAKE x \in Ids(s)
  <2>1. PICK i \in 1..Len(s) : s[i] = x
      BY DEF Ids
  <2>2. i \in 1..Len(t) /\ Len(t) \in 1..Len(t) /\ i < Len(t) /\ t[i] = x /\ t[Len(t)] = z
      BY <1>2, <2>1 DEF Grown
  <2> QED
      BY <2>2 DEF Precedes
<1> QED
    BY <1>3, <1>4 DEF t

\* What a list has of a set is in the list's order.
LEMMA AmongOrder ==
    ASSUME NEW s, IsList(s), NEW set
    PROVE  \A x, y \in set : Precedes(s, x, y) => Precedes(Among(s, set), x, y)
<1>1. s \in Seq(Ids(s)) /\ Len(s) \in Nat
    BY DEF IsList
<1>2. PICK f : /\ f[0] = <<>>
               /\ \A k \in 0..(Len(s) - 1) :
                     f[k + 1] = IF s[k + 1] \in set THEN Append(f[k], s[k + 1]) ELSE f[k]
               /\ Among(s, set) = f[Len(s)]
    BY <1>1, AmongSteps
<1> DEFINE Before(k) ==
              /\ IsList(f[k])
              /\ \A i \in 1..k : s[i] \in set => s[i] \in Ids(f[k])
              /\ \A i, j \in 1..k : i < j /\ s[i] \in set /\ s[j] \in set
                    => Precedes(f[k], s[i], s[j])
           T == {k \in 0..Len(s) : Before(k)}
<1>3. 0 \in T
  <2>1. <<>> \in Seq(Ids(s))
      OBVIOUS
  <2>2. IsList(f[0])
      BY <1>2, <2>1, SeqIsList
  <2>3. 1..0 = {} /\ 0 \in 0..Len(s)
      BY <1>1
  <2>4. Before(0)
      BY <2>2, <2>3
  <2> QED
      BY <2>3, <2>4
<1>4. ASSUME NEW k \in 0..(Len(s) - 1), k \in T PROVE k + 1 \in T
  <2>0. k \in Nat /\ k + 1 \in 1..Len(s) /\ k + 1 \in 0..Len(s) /\ Before(k)
        /\ 1..(k + 1) = (1..k) \cup {k + 1}
      BY <1>1, <1>4
  <2>1. CASE s[k + 1] \notin set
    <3>1. f[k + 1] = f[k]
        BY <1>2, <1>4, <2>1
    <3>2. Before(k + 1)
        BY <2>0, <2>1, <3>1
    <3> QED
        BY <2>0, <3>2
  <2>2. CASE s[k + 1] \in set
    <3>1. f[k + 1] = Append(f[k], s[k + 1])
        BY <1>2, <1>4, <2>2
    <3>2. /\ \A x, y : Precedes(f[k], x, y) => Precedes(f[k + 1], x, y)
          /\ \A x \in Ids(f[k]) : Precedes(f[k + 1], x, s[k + 1])
        BY <2>0, <3>1, PrecedesAppend
    <3>3. IsList(f[k + 1])
        BY <2>0, <3>1, AppendList
    <3>4. Ids(f[k + 1]) = Ids(f[k]) \cup {s[k + 1]}
      <4>1. f[k] \in Seq(Ids(f[k]) \cup {s[k + 1]})
          BY <2>0, Narrow DEF IsList
      <4> QED
          BY <3>1, <4>1, AppendFacts, <2>0
    <3>5. ASSUME NEW i \in 1..(k + 1), NEW j \in 1..(k + 1), i < j,
                 s[i] \in set, s[j] \in set
          PROVE  Precedes(f[k + 1], s[i], s[j])
      <4>1. i \in 1..k
          BY <2>0, <3>5
      <4>2. CASE j = k + 1
          BY <2>0, <3>2, <3>5, <4>1, <4>2
      <4>3. CASE j # k + 1
          BY <2>0, <3>2, <3>5, <4>1, <4>3
      <4> QED
          BY <4>2, <4>3
    <3>6. Before(k + 1)
        BY <2>0, <3>3, <3>4, <3>5
    <3> QED
        BY <2>0, <3>6
  <2> QED
      BY <2>1, <2>2
<1>5. \A k \in 0..Len(s) : k \in T
  <2>1. T \subseteq 0..Len(s)
      OBVIOUS
  <2> HIDE DEF T
  <2> QED
      BY <1>1, <1>3, <1>4, <2>1, Positions
<1>6. Before(Len(s))
    BY <1>1, <1>5
<1> QED
    BY <1>2, <1>6, SMTT(40) DEF Precedes

\* The server's records of one kind are of ids that were made, one for each.
LawfulIn(X, s, h) ==
    /\ \A r \in Recs(s, X) : Good(X, r, h)
    /\ \A r, q \in Recs(s, X) : Key(X, r) = Key(X, q) => r = q
    /\ X \in Ordered => IsList(s[X]) /\ Distinct(IdsOf(s[X]))
\* The event brings, drops and writes, of one kind, what the state then differs in.
LeadsIn(X, s, e, s2, h) ==
    /\ \A id :
          /\ Alive(s2, X, id) /\ ~Alive(s, X, id) => Brings(e, X, id)
          /\ Alive(s, X, id) /\ ~Alive(s2, X, id) => Drops(e, X, id, h)
          /\ Brings(e, X, id) => Alive(s2, X, id)
          /\ Drops(e, X, id, h) => ~Alive(s2, X, id)
    /\ \A r \in Recs(s, X) : \A q \in Recs(s2, X) :
          Key(X, r) = Key(X, q) => \A f \in Fields(X) :
              Written(e, X, Key(X, q), f, h) = {} => q[f] = r[f]
    /\ \A q \in Recs(s2, X) : \A f \in Fields(X) :
          \A v \in Written(e, X, Key(X, q), f, h) : q[f] = v
\* A record that is new was never closed.
BornIn(X, s, s2, l, h) ==
    X # "layouts" => \A id : Alive(s2, X, id) /\ ~Alive(s, X, id)
                        => \A i \in 1..Len(l) : ~Closes(l[i], X, id, h)
\* The event says the order of one kind, or leaves it and puts the new record last.
ArrangesIn(X, s, e, s2, h, l) ==
    /\ \A x, y : Pair(s2, X, x, y, h) /\ Reorders(e, X, Group(X, x, h))
          => (Precedes(IdsOf(e[X]), x, y) => Precedes(IdsOf(s2[X]), x, y))
    /\ \A x, y : Pair(s2, X, x, y, h) /\ ~Reorders(e, X, Group(X, x, h)) /\ Alive(s, X, x)
             /\ (Alive(s, X, y) => Precedes(IdsOf(s[X]), x, y))
          => Precedes(IdsOf(s2[X]), x, y)
    /\ \A x, y : Alone(e, X, x, h) /\ Alone(e, X, y, h) => x = y
    /\ \A x : Alive(s2, X, x) /\ ~Alive(s, X, x)
          => \A i \in 1..Len(l) : ~Brings(l[i], X, x)
    /\ \A x : Alone(e, X, x, h)
          => ~Alive(s, X, x) /\ \A i \in 1..Len(l) : ~Brings(l[i], X, x)

\* What an event does to the records of one kind.
Does(X, s, e, s2, l, h) ==
    /\ LawfulIn(X, s2, h)
    /\ LeadsIn(X, s, e, s2, h)
    /\ BornIn(X, s, s2, l, h)
    /\ X \in Ordered => ArrangesIn(X, s, e, s2, h, l)

\* An event is about panes there are.
Regards(s, e, s2, l, h) ==
    /\ \A id : Alive(s2, "panes", id) /\ ~Alive(s, "panes", id)
          => \A i \in 1..Len(l) : id \notin Mentions(l[i])
    /\ \A id \in Mentions(e) : Alive(s, "panes", id) \/ Alive(s2, "panes", id)
    /\ e.type = "PaneMoved" => ~Alive(s, "panes", e.pane.id)

\* What an event does to each of the kinds, to the agents and to the panes it is about,
\* is what the server reports.
LEMMA Assemble ==
    ASSUME NEW s, NEW e, NEW s2, NEW l, NEW h,
           \A X \in Kinds : Does(X, s, e, s2, l, h),
           Homes(h), Genuine(e, h), Regards(s, e, s2, l, h), Hires(s, e, s2, h)
    PROVE  Reports(s, e, s2, l, h)
<1>0. Ordered \subseteq Kinds
    BY DEF Ordered, Kinds
<1>1. Lawful(s2, h)
    BY <1>0 DEF Does, LawfulIn, Lawful
<1>2. Leads(s, e, s2, h)
    BY DEF Does, LeadsIn, Leads
<1>3. Newborn(s, s2, e, l, h)
    BY DEF Does, BornIn, Newborn, Regards
<1>4. Arranges(s, e, s2, h, l)
  <2>1. \A X \in Ordered : ArrangesIn(X, s, e, s2, h, l)
      BY <1>0 DEF Does
  <2> QED
      BY <2>1 DEF ArrangesIn, Arranges
<1> QED
    BY <1>1, <1>2, <1>3, <1>4 DEF Reports

\* The server's records are lawful kind by kind.
LEMMA LawfulParts ==
    ASSUME NEW s, NEW h, Lawful(s, h), NEW X \in Kinds
    PROVE  LawfulIn(X, s, h)
    BY DEF Lawful, LawfulIn

\* An event that says nothing of a kind.
Silent(e, X, h) ==
    /\ Puts(e, X) = {}
    /\ \A id : ~Closes(e, X, id, h)
    /\ \A g : ~Reorders(e, X, g)
    /\ \A id, f : Written(e, X, id, f, h) = {}

\* A kind that the operation leaves and the event says nothing of.
LEMMA StillDoes ==
    ASSUME NEW X, NEW s, NEW e, NEW s2, NEW l, NEW h,
           LawfulIn(X, s, h), s2[X] = s[X], Silent(e, X, h)
    PROVE  Does(X, s, e, s2, l, h)
<1>1. Recs(s2, X) = Recs(s, X) /\ \A id : Alive(s2, X, id) <=> Alive(s, X, id)
    BY DEF Recs, Alive
<1>2. \A id : ~Brings(e, X, id) /\ ~Drops(e, X, id, h)
    BY DEF Silent, Brings, Drops
<1>3. LawfulIn(X, s2, h)
    BY <1>1 DEF LawfulIn
<1>4. LeadsIn(X, s, e, s2, h)
    BY <1>1, <1>2 DEF LeadsIn, Silent, LawfulIn
<1>5. BornIn(X, s, s2, l, h)
    BY <1>1 DEF BornIn
<1>6. ArrangesIn(X, s, e, s2, h, l)
    BY <1>1, <1>2 DEF ArrangesIn, Silent, Alone, Pair
<1> QED
    BY <1>3, <1>4, <1>5, <1>6 DEF Does

\* A new record, and at the end where the order counts.
Grows(X, s, e, s2, r) ==
    /\ Puts(e, X) = {r}
    /\ Recs(s2, X) = Recs(s, X) \cup {r}
    /\ ~Alive(s, X, Key(X, r))
    /\ X \in Ordered => s2[X] = Append(s[X], r)

\* The event says nothing of a kind but by the records it carries.
Only(e, X, h) ==
    /\ \A id : ~Closes(e, X, id, h)
    /\ \A g : ~Reorders(e, X, g)
    /\ \A id, f : Written(e, X, id, f, h) = {r[f] : r \in {q \in Puts(e, X) : Key(X, q) = id}}

\* A record the operation adds and the event carries: workspace.created, tab.created,
\* pane.created, layout.updated.
LEMMA AddDoes ==
    ASSUME NEW X, NEW s, NEW e, NEW s2, NEW l, NEW h, NEW r,
           LawfulIn(X, s, h), Grows(X, s, e, s2, r), Only(e, X, h), Good(X, r, h),
           X \in Ordered => \A i \in 1..Len(l) : ~Brings(l[i], X, Key(X, r)),
           X # "layouts" => \A i \in 1..Len(l) : ~Closes(l[i], X, Key(X, r), h)
    PROVE  Does(X, s, e, s2, l, h)
<1>1. \A id : Alive(s2, X, id) <=> Alive(s, X, id) \/ id = Key(X, r)
    BY DEF Grows, Alive
<1>2. \A id : (Brings(e, X, id) <=> id = Key(X, r)) /\ ~Drops(e, X, id, h)
    BY DEF Only, Grows, Brings, Drops
<1>3. \A q \in Recs(s, X) : Key(X, q) # Key(X, r)
    BY DEF Grows, Alive
<1>4. LawfulIn(X, s2, h)
  <2>1. \A q \in Recs(s2, X) : Good(X, q, h)
      BY DEF Grows, LawfulIn
  <2>2. \A p, q \in Recs(s2, X) : Key(X, p) = Key(X, q) => p = q
      BY <1>3 DEF Grows, LawfulIn
  <2>3. CASE X \in Ordered
    <3>1. IsList(s[X]) /\ Distinct(IdsOf(s[X])) /\ s2[X] = Append(s[X], r)
          /\ Recs(s, X) = Ids(s[X]) /\ \A q : Key(X, q) = q.id
        BY <2>3 DEF LawfulIn, Grows, Recs, Key, Ordered
    <3>2. Grown(s[X], s2[X], r) /\ IsList(s2[X])
        BY <3>1, AppendGrown
    <3>3. \A i \in 1..Len(s[X]) : s[X][i].id # r.id
        BY <3>1, <1>3 DEF Ids
    <3>4. Distinct(IdsOf(s2[X]))
      <4>1. /\ Len(IdsOf(s[X])) = Len(s[X]) /\ Len(IdsOf(s2[X])) = Len(s2[X])
            /\ \A i \in 1..Len(s[X]) : IdsOf(s[X])[i] = s[X][i].id
            /\ \A i \in 1..Len(s2[X]) : IdsOf(s2[X])[i] = s2[X][i].id
          BY <3>1, <3>2, IdsOfFacts
      <4>2. \A i \in 1..Len(s2[X]) : i \in 1..Len(s[X]) \/ i = Len(s2[X])
          BY <3>2 DEF Grown
      <4> QED
          BY <3>1, <3>2, <3>3, <4>1, <4>2 DEF Grown, Distinct
    <3> QED
        BY <2>1, <2>2, <3>2, <3>4 DEF LawfulIn
  <2> QED
      BY <2>1, <2>2, <2>3 DEF LawfulIn
<1>5. LeadsIn(X, s, e, s2, h)
  <2>1. \A p \in Recs(s, X) : \A q \in Recs(s2, X) : Key(X, p) = Key(X, q) => p = q
      BY <1>3 DEF Grows, LawfulIn
  <2>2. \A q \in Recs(s2, X) : \A f \in Fields(X) :
            \A v \in Written(e, X, Key(X, q), f, h) : q[f] = v
    <3> SUFFICES ASSUME NEW q \in Recs(s2, X), NEW f, NEW v \in Written(e, X, Key(X, q), f, h)
                 PROVE  q[f] = v
        OBVIOUS
    <3>1. Key(X, q) = Key(X, r) /\ v = r[f]
        BY DEF Only, Grows
    <3>2. q = r
        BY <3>1, <1>3 DEF Grows
    <3> QED
        BY <3>1, <3>2
  <2> QED
      BY <1>1, <1>2, <2>1, <2>2 DEF LeadsIn
<1>6. BornIn(X, s, s2, l, h)
    BY <1>1 DEF BornIn
<1>7. X \in Ordered => ArrangesIn(X, s, e, s2, h, l)
  <2> SUFFICES ASSUME X \in Ordered PROVE ArrangesIn(X, s, e, s2, h, l)
      OBVIOUS
  <2>1. IsList(s[X]) /\ s2[X] = Append(s[X], r)
        /\ Recs(s, X) = Ids(s[X]) /\ \A q : Key(X, q) = q.id
      BY DEF LawfulIn, Grows, Recs, Key, Ordered
  <2>2. ASSUME NEW x, NEW y, Pair(s2, X, x, y, h), Alive(s, X, x),
               Alive(s, X, y) => Precedes(IdsOf(s[X]), x, y)
        PROVE  Precedes(IdsOf(s2[X]), x, y)
    <3>0. IsList(s2[X])
        BY <2>1, AppendList
    <3>1. CASE Alive(s, X, y)
      <4>1. PICK p, q : Precedes(s[X], p, q) /\ p.id = x /\ q.id = y
          BY <2>1, <2>2, <3>1, PrecedesIds
      <4>2. Precedes(s2[X], p, q)
          BY <2>1, <4>1, PrecedesAppend
      <4> QED
          BY <3>0, <4>1, <4>2, PrecedesIds
    <3>2. CASE ~Alive(s, X, y)
      <4>1. y = r.id
          BY <1>1, <2>1, <2>2, <3>2 DEF Pair
      <4>2. PICK p \in Ids(s[X]) : p.id = x
          BY <2>1, <2>2 DEF Alive
      <4>3. Precedes(s2[X], p, r)
          BY <2>1, <4>2, PrecedesAppend
      <4> QED
          BY <3>0, <4>1, <4>2, <4>3, PrecedesIds
    <3> QED
        BY <3>1, <3>2
  <2>3. \A x : Alone(e, X, x, h) => x = Key(X, r)
      BY <1>2 DEF Alone
  <2>4. \A g : ~Reorders(e, X, g)
      BY DEF Only
  <2>5. ~Alive(s, X, Key(X, r))
      BY DEF Grows
  <2> QED
      BY <1>1, <2>2, <2>3, <2>4, <2>5 DEF ArrangesIn
<1> QED
    BY <1>4, <1>5, <1>6, <1>7 DEF Does

\* Records keep their place, and those an event is about get its values.
Rewrites(X, s, e, s2, h) ==
    /\ \A id : Alive(s2, X, id) <=> Alive(s, X, id)
    /\ \A id : Brings(e, X, id) => Alive(s, X, id)
    /\ \A id : ~Closes(e, X, id, h)
    /\ \A g : ~Reorders(e, X, g)
    /\ \A r \in Recs(s, X) : \A q \in Recs(s2, X) :
          Key(X, r) = Key(X, q) => \A f \in Fields(X) :
              Written(e, X, Key(X, q), f, h) = {} => q[f] = r[f]
    /\ \A q \in Recs(s2, X) : \A f \in Fields(X) :
          \A v \in Written(e, X, Key(X, q), f, h) : q[f] = v
    /\ X \in Ordered => IdsOf(s2[X]) = IdsOf(s[X]) /\ Puts(e, X) = {}

\* Records the operation rewrites and the event writes: renames, focus, status.
LEMMA RewriteDoes ==
    ASSUME NEW X, NEW s, NEW e, NEW s2, NEW l, NEW h,
           LawfulIn(X, s2, h), Rewrites(X, s, e, s2, h)
    PROVE  Does(X, s, e, s2, l, h)
<1>1. \A id : ~Drops(e, X, id, h)
    BY DEF Rewrites, Drops
<1>2. LeadsIn(X, s, e, s2, h)
    BY <1>1 DEF LeadsIn, Rewrites
<1>3. BornIn(X, s, s2, l, h)
    BY DEF BornIn, Rewrites
<1>4. X \in Ordered => ArrangesIn(X, s, e, s2, h, l)
  <2> SUFFICES ASSUME X \in Ordered PROVE ArrangesIn(X, s, e, s2, h, l)
      OBVIOUS
  <2>1. /\ \A id : Alive(s2, X, id) <=> Alive(s, X, id)
        /\ \A g : ~Reorders(e, X, g)
        /\ IdsOf(s2[X]) = IdsOf(s[X]) /\ Puts(e, X) = {}
      BY DEF Rewrites
  <2>2. \A id : ~Alone(e, X, id, h)
      BY <2>1 DEF Alone, Brings
  <2> QED
      BY <2>1, <2>2 DEF ArrangesIn, Pair
<1> QED
    BY <1>2, <1>3, <1>4 DEF Does

\* Records that an event closes are taken out.
Removes(X, s, e, s2, h) ==
    /\ Puts(e, X) = {}
    /\ \A g : ~Reorders(e, X, g)
    /\ \A id, f : Written(e, X, id, f, h) = {}
    /\ Recs(s2, X) = {r \in Recs(s, X) : ~Closes(e, X, Key(X, r), h)}
    /\ X \in Ordered => s2[X] = Among(s[X], Recs(s2, X))

\* Records the operation takes out and the event closes: a workspace with its tabs,
\* panes and layouts.
LEMMA RemoveDoes ==
    ASSUME NEW X, NEW s, NEW e, NEW s2, NEW l, NEW h,
           LawfulIn(X, s, h), Removes(X, s, e, s2, h)
    PROVE  Does(X, s, e, s2, l, h)
<1>1. \A id : ~Brings(e, X, id) /\ (Drops(e, X, id, h) <=> Closes(e, X, id, h))
    BY DEF Removes, Drops, Brings
<1>2. Recs(s2, X) = {r \in Recs(s, X) : ~Closes(e, X, Key(X, r), h)}
    BY DEF Removes
<1>3. \A id : Alive(s2, X, id) <=> Alive(s, X, id) /\ ~Closes(e, X, id, h)
    BY <1>2 DEF Alive
<1>4. ASSUME X \in Ordered
      PROVE  /\ IsList(s[X]) /\ Distinct(IdsOf(s[X]))
             /\ IsList(s2[X]) /\ Distinct(IdsOf(s2[X]))
             /\ \A r, q \in Recs(s2, X) :
                   Precedes(s[X], r, q) => Precedes(s2[X], r, q)
  <2>1. IsList(s[X]) /\ Distinct(IdsOf(s[X])) /\ s2[X] = Among(s[X], Recs(s2, X))
        /\ Recs(s, X) = Ids(s[X]) /\ (\A q : Key(X, q) = q.id)
        /\ \A r, q \in Recs(s, X) : Key(X, r) = Key(X, q) => r = q
      BY <1>4 DEF LawfulIn, Removes, Recs, Key, Ordered
  <2>2. IsList(s2[X])
      BY <2>1, AmongList
  <2>3. \A r, q \in Recs(s2, X) : Precedes(s[X], r, q) => Precedes(s2[X], r, q)
      BY <2>1, AmongOrder
  <2>4. /\ Len(IdsOf(s[X])) = Len(s[X]) /\ Len(IdsOf(s2[X])) = Len(s2[X])
        /\ \A i \in 1..Len(s[X]) : IdsOf(s[X])[i] = s[X][i].id
        /\ \A i \in 1..Len(s2[X]) : IdsOf(s2[X])[i] = s2[X][i].id
      BY <2>1, <2>2, IdsOfFacts
  <2>5. Distinct(s[X])
      BY <2>1, <2>4 DEF Distinct
  <2>6. Distinct(s2[X]) /\ Ids(s2[X]) \subseteq Ids(s[X])
      BY <2>1, <2>5, AmongFacts DEF IsList
  <2>7. \A i \in 1..Len(s2[X]) : s2[X][i] \in Recs(s, X)
      BY <2>1, <2>6 DEF Ids
  <2>8. Distinct(IdsOf(s2[X]))
      BY <2>1, <2>4, <2>6, <2>7 DEF Distinct
  <2> QED
      BY <2>1, <2>2, <2>3, <2>8
<1>5. LawfulIn(X, s2, h)
    BY <1>2, <1>4 DEF LawfulIn
<1>6. LeadsIn(X, s, e, s2, h)
  <2>1. \A r \in Recs(s, X) : \A q \in Recs(s2, X) : Key(X, r) = Key(X, q) => r = q
      BY <1>2 DEF LawfulIn
  <2>2. \A id, f : Written(e, X, id, f, h) = {}
      BY DEF Removes
  <2> QED
      BY <1>1, <1>3, <2>1, <2>2 DEF LeadsIn
<1>7. BornIn(X, s, s2, l, h)
    BY <1>3 DEF BornIn
<1>8. X \in Ordered => ArrangesIn(X, s, e, s2, h, l)
  <2> SUFFICES ASSUME X \in Ordered PROVE ArrangesIn(X, s, e, s2, h, l)
      OBVIOUS
  <2>1. ASSUME NEW x, NEW y, Pair(s2, X, x, y, h), Precedes(IdsOf(s[X]), x, y)
        PROVE  Precedes(IdsOf(s2[X]), x, y)
    <3>1. PICK p, q : Precedes(s[X], p, q) /\ p.id = x /\ q.id = y
        BY <1>4, <2>1, PrecedesIds
    <3>2. p \in Recs(s, X) /\ q \in Recs(s, X)
        BY <3>1, PrecedesLies DEF Recs
    <3>3. p \in Recs(s2, X) /\ q \in Recs(s2, X)
      <4>1. Key(X, p) = x /\ Key(X, q) = y
          BY <3>1 DEF Key, Ordered
      <4> QED
          BY <4>1, <3>2, <1>2, <1>3, <2>1 DEF Pair
    <3> QED
        BY <3>1, <3>3, <1>4, PrecedesIds
  <2>2. \A g : ~Reorders(e, X, g)
      BY DEF Removes
  <2>3. \A id : ~Alone(e, X, id, h)
      BY <1>1 DEF Alone
  <2> QED
      BY <1>3, <2>1, <2>2, <2>3 DEF ArrangesIn, Pair
<1> QED
    BY <1>5, <1>6, <1>7, <1>8 DEF Does

\* The events that say something of a kind.
Tells(X) ==
    CASE X = "workspaces" -> {"WorkspaceSet", "WorkspaceRenamed", "WorkspaceMoved",
                              "WorkspaceFocused", "WorkspaceClosed", "PaneMoved"}
      [] X = "tabs" -> {"TabCreated", "TabRenamed", "TabMoved", "TabFocused", "TabClosed",
                        "WorkspaceClosed", "PaneMoved"}
      [] X = "panes" -> {"PaneSet", "PaneMoved", "PaneFocused", "PaneClosed", "PaneRevised",
                         "PaneAgentDetected", "PaneAgentStatusChanged", "TabClosed",
                         "WorkspaceClosed"}
      [] X = "layouts" -> {"LayoutUpdated", "PaneFocused", "PaneMoved", "TabClosed",
                           "WorkspaceClosed"}

\* An event says nothing of a kind that its type does not name.
LEMMA SilentElse ==
    ASSUME NEW X \in Kinds, NEW e, NEW h, e.type \notin Tells(X)
    PROVE  Silent(e, X, h)
<1>1. CASE X = "workspaces"
    BY <1>1 DEF Tells, Silent, Puts, Closes, Reorders, Written
<1>2. CASE X = "tabs"
    BY <1>2 DEF Tells, Silent, Puts, EventTabs, Closes, Reorders, Written
<1>3. CASE X = "panes"
    BY <1>3 DEF Tells, Silent, Puts, Closes, Reorders, Written
<1>4. CASE X = "layouts"
    BY <1>4 DEF Tells, Silent, Puts, Closes, Reorders, Written
<1> QED
    BY <1>1, <1>2, <1>3, <1>4 DEF Kinds

\* s2 has the same records of every kind but one, and the event is about that one.
LEMMA OneKind ==
    ASSUME NEW X \in Kinds, NEW s, NEW e, NEW s2, NEW l, NEW h, Lawful(s, h),
           Does(X, s, e, s2, l, h),
           \A Y \in Kinds \ {X} : s2[Y] = s[Y] /\ e.type \notin Tells(Y)
    PROVE  \A Y \in Kinds : Does(Y, s, e, s2, l, h)
<1> SUFFICES ASSUME NEW Y \in Kinds, Y # X PROVE Does(Y, s, e, s2, l, h)
    OBVIOUS
<1> QED
    BY LawfulParts, SilentElse, StillDoes

\* A record and what an event makes of it.
Becomes(e, X, r, q, h) ==
    /\ Good(X, q, h) /\ Key(X, q) = Key(X, r)
    /\ \A f \in Fields(X) :
          /\ Written(e, X, Key(X, r), f, h) = {} => q[f] = r[f]
          /\ \A v \in Written(e, X, Key(X, r), f, h) : q[f] = v
\* Each record of a list becomes what the event makes of it, in its place.
Maps(X, s, e, s2, h) ==
    /\ s2[X] = [i \in DOMAIN s[X] |-> s2[X][i]]
    /\ \A i \in 1..Len(s[X]) : Becomes(e, X, s[X][i], s2[X][i], h)

\* The places of a list, rewritten.
LEMMA MapDoes ==
    ASSUME NEW X \in Ordered, NEW s, NEW e, NEW s2, NEW l, NEW h, LawfulIn(X, s, h),
           Maps(X, s, e, s2, h),
           Puts(e, X) = {}, \A id : ~Closes(e, X, id, h), \A g : ~Reorders(e, X, g)
    PROVE  Does(X, s, e, s2, l, h)
<1>0. X \in Kinds /\ (\A q : Key(X, q) = q.id)
      /\ Recs(s, X) = Ids(s[X]) /\ Recs(s2, X) = Ids(s2[X])
    BY DEF Ordered, Kinds, Key, Recs
<1>1. IsList(s[X]) /\ Distinct(IdsOf(s[X]))
    BY DEF LawfulIn
<1>2. IsList(s2[X])
    BY <1>1, MapList DEF Maps
<1>10. \A i \in 1..Len(s[X]) : s2[X][i].id = s[X][i].id /\ Good(X, s2[X][i], h)
    BY <1>0 DEF Maps, Becomes
<1>11. \A i \in 1..Len(s[X]) : Becomes(e, X, s[X][i], s2[X][i], h)
    BY DEF Maps
<1>3. Len(s2[X]) = Len(s[X]) /\ DOMAIN s[X] = 1..Len(s[X]) /\ DOMAIN s2[X] = 1..Len(s2[X])
  <2>1. DOMAIN s[X] = 1..Len(s[X]) /\ DOMAIN s2[X] = 1..Len(s2[X])
        /\ Len(s[X]) \in Nat /\ Len(s2[X]) \in Nat
      BY <1>1, <1>2 DEF IsList
  <2>2. DOMAIN s2[X] = DOMAIN s[X]
      BY DEF Maps
  <2> QED
      BY <2>1, <2>2
<1>4. IdsOf(s2[X]) = IdsOf(s[X])
    BY <1>3, <1>10 DEF IdsOf
<1>5. /\ \A q \in Recs(s2, X) : \E i \in 1..Len(s[X]) : q = s2[X][i]
      /\ \A r \in Recs(s, X) : \E i \in 1..Len(s[X]) : r = s[X][i]
      /\ \A i, j \in 1..Len(s[X]) : s[X][i].id = s[X][j].id => i = j
  <2>1. \A i, j \in 1..Len(s[X]) : s[X][i].id = s[X][j].id => i = j
      BY <1>1, IdsOfFacts DEF Distinct
  <2> QED
      BY <1>0, <1>3, <2>1 DEF Ids
<1>6. LawfulIn(X, s2, h)
  <2>1. \A r \in Recs(s2, X) : Good(X, r, h)
      BY <1>5, <1>10
  <2>2. \A r, q \in Recs(s2, X) : Key(X, r) = Key(X, q) => r = q
    <3> SUFFICES ASSUME NEW r \in Recs(s2, X), NEW q \in Recs(s2, X), Key(X, r) = Key(X, q)
                 PROVE  r = q
        OBVIOUS
    <3>1. PICK i \in 1..Len(s[X]) : r = s2[X][i]
        BY <1>5
    <3>2. PICK j \in 1..Len(s[X]) : q = s2[X][j]
        BY <1>5
    <3>3. s[X][i].id = s[X][j].id
        BY <1>0, <1>10, <3>1, <3>2
    <3> QED
        BY <1>5, <3>1, <3>2, <3>3
  <2> QED
      BY <1>1, <1>2, <1>4, <2>1, <2>2 DEF LawfulIn
<1>7. \A id : Alive(s2, X, id) <=> Alive(s, X, id)
  <2>1. ASSUME NEW id, Alive(s2, X, id) PROVE Alive(s, X, id)
    <3>1. PICK q \in Recs(s2, X) : q.id = id
        BY <2>1, <1>0 DEF Alive
    <3>2. PICK i \in 1..Len(s[X]) : q = s2[X][i]
        BY <1>5, <3>1
    <3>3. s[X][i] \in Recs(s, X) /\ s[X][i].id = id
        BY <1>0, <1>10, <3>1, <3>2 DEF Ids
    <3> QED
        BY <1>0, <3>3 DEF Alive
  <2>2. ASSUME NEW id, Alive(s, X, id) PROVE Alive(s2, X, id)
    <3>1. PICK r \in Recs(s, X) : r.id = id
        BY <2>2, <1>0 DEF Alive
    <3>2. PICK i \in 1..Len(s[X]) : r = s[X][i]
        BY <1>5, <3>1
    <3>3. s2[X][i] \in Recs(s2, X) /\ s2[X][i].id = id
        BY <1>0, <1>3, <1>10, <3>1, <3>2 DEF Ids
    <3> QED
        BY <1>0, <3>3 DEF Alive
  <2> QED
      BY <2>1, <2>2
<1>8. /\ \A r \in Recs(s, X) : \A q \in Recs(s2, X) :
            Key(X, r) = Key(X, q) => \A f \in Fields(X) :
              Written(e, X, Key(X, q), f, h) = {} => q[f] = r[f]
      /\ \A q \in Recs(s2, X) : \A f \in Fields(X) :
            \A v \in Written(e, X, Key(X, q), f, h) : q[f] = v
  <2>1. ASSUME NEW r \in Recs(s, X), NEW q \in Recs(s2, X), Key(X, r) = Key(X, q),
               NEW f \in Fields(X), Written(e, X, Key(X, q), f, h) = {}
        PROVE  q[f] = r[f]
    <3>1. PICK i \in 1..Len(s[X]) : q = s2[X][i]
        BY <1>5
    <3>2. PICK j \in 1..Len(s[X]) : r = s[X][j]
        BY <1>5
    <3>3. s2[X][i].id = s[X][j].id /\ s2[X][i].id = s[X][i].id
        BY <3>1, <3>2, <2>1, <1>0, <1>10
    <3>4. i = j
        BY <3>3, <1>5
    <3>5. Written(e, X, Key(X, s[X][i]), f, h) = {}
        BY <3>1, <3>3, <2>1, <1>0
    <3> QED
        BY <3>1, <3>2, <3>4, <3>5, <1>11 DEF Becomes
  <2>2. ASSUME NEW q \in Recs(s2, X), NEW f \in Fields(X),
               NEW v \in Written(e, X, Key(X, q), f, h)
        PROVE  q[f] = v
    <3>1. PICK i \in 1..Len(s[X]) : q = s2[X][i]
        BY <1>5
    <3>2. Key(X, q) = Key(X, s[X][i])
        BY <3>1, <1>0, <1>10
    <3> QED
        BY <3>1, <3>2, <2>2, <1>11 DEF Becomes
  <2> QED
      BY <2>1, <2>2
<1>9. Rewrites(X, s, e, s2, h)
    BY <1>4, <1>7, <1>8 DEF Rewrites, Brings
<1> QED
    BY <1>6, <1>9, RewriteDoes

\* One record of a set, rewritten.
LEMMA SwapDoes ==
    ASSUME NEW X \in Kinds \ Ordered, NEW s, NEW e, NEW s2, NEW l, NEW h, LawfulIn(X, s, h),
           NEW old \in Recs(s, X), NEW new,
           Recs(s2, X) = (Recs(s, X) \ {old}) \cup {new},
           Becomes(e, X, old, new, h),
           \A id, f : id # Key(X, new) => Written(e, X, id, f, h) = {},
           Puts(e, X) \subseteq {new}, \A id : ~Closes(e, X, id, h)
    PROVE  Does(X, s, e, s2, l, h)
<1>0. X \notin Ordered /\ X \in Kinds /\ \A g : ~Reorders(e, X, g)
    BY DEF Ordered, Reorders
<1>8. /\ Good(X, new, h) /\ Key(X, new) = Key(X, old)
      /\ \A f \in Fields(X) :
            /\ Written(e, X, Key(X, new), f, h) = {} => new[f] = old[f]
            /\ \A v \in Written(e, X, Key(X, new), f, h) : new[f] = v
    BY DEF Becomes
<1>1. \A r \in Recs(s, X) : Key(X, r) = Key(X, new) <=> r = old
    BY <1>8 DEF LawfulIn
<1>2. LawfulIn(X, s2, h)
    BY <1>0, <1>1, <1>8 DEF LawfulIn
<1>3. \A id : Alive(s2, X, id) <=> Alive(s, X, id)
    BY <1>8 DEF Alive
<1>4. \A id : Brings(e, X, id) => Alive(s, X, id)
    BY <1>8 DEF Alive, Brings
<1>5. \A r \in Recs(s, X) : \A q \in Recs(s2, X) :
            Key(X, r) = Key(X, q) => \A f \in Fields(X) :
              Written(e, X, Key(X, q), f, h) = {} => q[f] = r[f]
    BY <1>1, <1>8 DEF LawfulIn
<1>6. \A q \in Recs(s2, X) : \A f \in Fields(X) :
            \A v \in Written(e, X, Key(X, q), f, h) : q[f] = v
    BY <1>1, <1>8
<1>7. Rewrites(X, s, e, s2, h)
    BY <1>0, <1>3, <1>4, <1>5, <1>6 DEF Rewrites
<1> QED
    BY <1>2, <1>7, RewriteDoes

\* Events that say nothing of agents.
LEMMA PlainHires ==
    ASSUME NEW s, NEW e, NEW s2, NEW h,
           e.type \notin {"PaneAgentDetected", "PaneMoved"},
           \A id : Running(s2, id) => Running(s, id),
           \A id : Running(s, id) /\ ~Running(s2, id) => Closes(e, "panes", id, h)
    PROVE  Hires(s, e, s2, h)
    BY DEF Hires, Arrives, Joins, Frees, Carries, Leaves

\* Events that are about no pane and make none.
LEMMA NoPane ==
    ASSUME NEW s, NEW e, NEW s2, NEW l, Mentions(e) = {}, e.type # "PaneMoved",
           \A id : Alive(s2, "panes", id) => Alive(s, "panes", id)
    PROVE  Regards(s, e, s2, l, l)
    BY DEF Regards

\* The other kinds are as they were.
Elsewhere(s, s2, X) == \A Y \in Kinds \ {X} : s2[Y] = s[Y]

\* An operation that leaves the panes leaves who runs in them.
LEMMA PanesAlive ==
    ASSUME NEW s, NEW s2, s2.panes = s.panes
    PROVE  /\ \A id : Alive(s2, "panes", id) <=> Alive(s, "panes", id)
           /\ \A id : Running(s2, id) <=> Running(s, id)
    BY DEF Alive, Recs, Ordered, Running

\* An event about workspaces, tabs or layouts alone is reported once it does to that
\* kind what it says.
LEMMA OffPanes ==
    ASSUME NEW X \in Kinds \ {"panes"}, NEW s, NEW e, NEW s2, NEW l, NEW h,
           Lawful(s, h), Elsewhere(s, s2, X), Genuine(e, h),
           \A Y \in Kinds \ {X} : e.type \notin Tells(Y), Does(X, s, e, s2, l, h)
    PROVE  Reports(s, e, s2, l, h)
<1>1. s2.panes = s.panes /\ e.type \notin Tells("panes")
    BY DEF Elsewhere, Kinds
<1>2. Mentions(e) = {} /\ e.type \notin {"PaneAgentDetected", "PaneMoved"}
    BY <1>1 DEF Tells, Mentions
<1>3. Regards(s, e, s2, l, h)
    BY <1>1, <1>2, PanesAlive DEF Regards
<1>4. Hires(s, e, s2, h)
    BY <1>1, <1>2, PanesAlive, PlainHires
<1>5. \A Y \in Kinds : Does(Y, s, e, s2, l, h)
    BY OneKind DEF Elsewhere
<1> QED
    BY <1>3, <1>4, <1>5, Assemble DEF Lawful

\* The log knows nothing of a record.
Unknown(s, l, h, X, id) ==
    /\ ~Alive(s, X, id)
    /\ \A i \in 1..Len(l) : ~Brings(l[i], X, id)
    /\ X # "layouts" => \A i \in 1..Len(l) : ~Closes(l[i], X, id, h)
    /\ X = "panes" => \A i \in 1..Len(l) : id \notin Mentions(l[i])

\* A list with one more has one more id.
LEMMA AppendIds ==
    ASSUME NEW s, NEW z, IsList(s)
    PROVE  Ids(Append(s, z)) = Ids(s) \cup {z}
<1> DEFINE D == Ids(s) \cup {z}
<1>1. s \in Seq(D) /\ z \in D
  <2>1. s \in Seq(Ids(s)) /\ Ids(s) \subseteq D
      BY DEF IsList
  <2> QED
      BY <2>1, Narrow
<1> QED
    BY <1>1, AppendFacts

\* workspace.created reports a new workspace at the end.
LEMMA WorkspaceSetReports ==
    ASSUME NEW s, NEW e, NEW s2, NEW l, NEW h, NEW w, Lawful(s, h),
           e = [type |-> "WorkspaceSet", workspace |-> w],
           s2.workspaces = Append(s.workspaces, w), Elsewhere(s, s2, "workspaces"),
           Good("workspaces", w, h), Unknown(s, l, h, "workspaces", w.id)
    PROVE  Reports(s, e, s2, l, h)
<1> DEFINE X == "workspaces"
<1>1. X \in Kinds /\ X \in Ordered /\ \A r : Key(X, r) = r.id
    BY DEF Kinds, Ordered, Key
<1>2. LawfulIn(X, s, h)
    BY <1>1, LawfulParts
<1>3. \A Y \in Kinds \ {X} : e.type \notin Tells(Y) /\ Puts(e, Y) = {}
    BY DEF Kinds, Tells, Puts, EventTabs
<1>4. Puts(e, X) = {w} /\ Only(e, X, h)
    BY DEF Puts, Only, Closes, Reorders, Written
<1>5. Genuine(e, h)
    BY <1>3, <1>4 DEF Genuine, EventTypes, Mentions
<1>6. Recs(s2, X) = Recs(s, X) \cup {w}
  <2>1. IsList(s[X])
      BY <1>1, <1>2 DEF LawfulIn
  <2>2. Ids(s2[X]) = Ids(s[X]) \cup {w}
      BY <2>1, AppendIds
  <2> QED
      BY <2>2 DEF Recs, Ordered
<1>7. Grows(X, s, e, s2, w)
    BY <1>1, <1>4, <1>6 DEF Grows, Unknown
<1>8. Does(X, s, e, s2, l, h)
    BY <1>1, <1>2, <1>4, <1>7, AddDoes DEF Unknown
<1> QED
    BY <1>1, <1>3, <1>5, <1>8, OffPanes

\* tab.created reports a new tab at the end of its workspace.
LEMMA TabCreatedReports ==
    ASSUME NEW s, NEW e, NEW s2, NEW l, NEW h, NEW tab, Lawful(s, h),
           e = [type |-> "TabCreated", tab |-> tab],
           s2.tabs = Append(s.tabs, tab), Elsewhere(s, s2, "tabs"),
           Good("tabs", tab, h), Unknown(s, l, h, "tabs", tab.id)
    PROVE  Reports(s, e, s2, l, h)
<1> DEFINE X == "tabs"
<1>1. X \in Kinds /\ X \in Ordered /\ \A r : Key(X, r) = r.id
    BY DEF Kinds, Ordered, Key
<1>2. LawfulIn(X, s, h)
    BY <1>1, LawfulParts
<1>3. \A Y \in Kinds \ {X} : e.type \notin Tells(Y) /\ Puts(e, Y) = {}
    BY DEF Kinds, Tells, Puts, EventTabs
<1>4. Puts(e, X) = {tab} /\ Only(e, X, h)
    BY DEF Puts, EventTabs, Only, Closes, Reorders, Written
<1>5. Genuine(e, h)
    BY <1>3, <1>4 DEF Genuine, EventTypes, Mentions
<1>6. Recs(s2, X) = Recs(s, X) \cup {tab}
  <2>1. IsList(s[X])
      BY <1>1, <1>2 DEF LawfulIn
  <2>2. Ids(s2[X]) = Ids(s[X]) \cup {tab}
      BY <2>1, AppendIds
  <2> QED
      BY <2>2 DEF Recs, Ordered
<1>7. Grows(X, s, e, s2, tab)
    BY <1>1, <1>4, <1>6 DEF Grows, Unknown
<1>8. Does(X, s, e, s2, l, h)
    BY <1>1, <1>2, <1>4, <1>7, AddDoes DEF Unknown
<1> QED
    BY <1>1, <1>3, <1>5, <1>8, OffPanes

\* The kind that a rename or a focus event of a workspace or a tab is about.
Renames(X) == IF X = "workspaces" THEN "WorkspaceRenamed" ELSE "TabRenamed"
\* The focus event of workspaces, and that of tabs.
Focuses(X) == IF X = "workspaces" THEN "WorkspaceFocused" ELSE "TabFocused"

\* workspace.renamed and tab.renamed report a label.
LEMMA RenamedReports ==
    ASSUME NEW X \in Ordered, NEW s, NEW e, NEW s2, NEW l, NEW h, NEW id, NEW label,
           Lawful(s, h), e = [type |-> Renames(X), id |-> id, label |-> label],
           s2[X] = Relabelled(s[X], id, label), Elsewhere(s, s2, X)
    PROVE  Reports(s, e, s2, l, h)
<1>1. X \in Kinds /\ X # "panes" /\ \A r : Key(X, r) = r.id
    BY DEF Kinds, Ordered, Key
<1>2. LawfulIn(X, s, h)
    BY <1>1, LawfulParts
<1>3. \A Y \in Kinds \ {X} : e.type \notin Tells(Y) /\ Puts(e, Y) = {}
    BY DEF Kinds, Ordered, Tells, Puts, EventTabs, Renames
<1>4. /\ Puts(e, X) = {} /\ (\A g : ~Reorders(e, X, g)) /\ \A x : ~Closes(e, X, x, h)
      /\ \A x, f : Written(e, X, x, f, h) = IF x = id /\ f = "label" THEN {label} ELSE {}
  <2>1. CASE X = "workspaces"
      BY <2>1 DEF Puts, Reorders, Closes, Written, Renames
  <2>2. CASE X = "tabs"
      BY <2>2 DEF Puts, EventTabs, Reorders, Closes, Written, Renames
  <2> QED
      BY <2>1, <2>2 DEF Ordered
<1>5. Genuine(e, h)
    BY <1>3, <1>4 DEF Genuine, EventTypes, Mentions, Renames, Ordered
<1>6. Maps(X, s, e, s2, h)
  <2>1. s2[X] = [i \in DOMAIN s[X] |-> s2[X][i]]
      BY DEF Relabelled
  <2>2. ASSUME NEW i \in 1..Len(s[X])
        PROVE  Becomes(e, X, s[X][i], s2[X][i], h)
    <3>1. i \in DOMAIN s[X] /\ s[X][i] \in Recs(s, X)
        BY <1>2 DEF LawfulIn, IsList, Recs, Ids
    <3> DEFINE r == s[X][i]
               q == s2[X][i]
    <3>2. q = IF r.id = id THEN [r EXCEPT !.label = label] ELSE r
        BY <3>1 DEF Relabelled
    <3>3. Good(X, r, h)
        BY <1>2, <3>1 DEF LawfulIn
    <3> HIDE DEF r, q
    <3>4. Good(X, q, h) /\ q.id = r.id /\ q.focused = r.focused
          /\ q.label = IF r.id = id THEN label ELSE r.label
      <4>1. CASE X = "workspaces"
          BY <3>2, <3>3, <4>1 DEF Good
      <4>2. CASE X = "tabs"
          BY <3>2, <3>3, <4>2 DEF Good
      <4> QED
          BY <4>1, <4>2 DEF Ordered
    <3>5. Fields(X) = {"label", "focused"}
        BY DEF Fields, Ordered
    <3>6. ASSUME NEW f \in Fields(X)
          PROVE  /\ Written(e, X, Key(X, r), f, h) = {} => q[f] = r[f]
                 /\ \A v \in Written(e, X, Key(X, r), f, h) : q[f] = v
      <4>1. CASE f = "label"
          BY <4>1, <1>1, <1>4, <3>4
      <4>2. CASE f = "focused"
          BY <4>2, <1>1, <1>4, <3>4
      <4> QED
          BY <3>5, <4>1, <4>2
    <3>7. Becomes(e, X, r, q, h)
        BY <1>1, <3>4, <3>6 DEF Becomes
    <3> QED
        BY <3>7 DEF r, q
  <2> QED
      BY <2>1, <2>2 DEF Maps
<1>7. Does(X, s, e, s2, l, h)
    BY <1>2, <1>4, <1>6, MapDoes
<1> QED
    BY <1>1, <1>3, <1>5, <1>7, OffPanes

\* workspace.focused and tab.focused report the focus, which the others lose.
LEMMA FocusedReports ==
    ASSUME NEW X \in Ordered, NEW s, NEW e, NEW s2, NEW l, NEW h, NEW id,
           Lawful(s, h), e = [type |-> Focuses(X), id |-> id],
           s2[X] = FocusedIn(s[X], id), Elsewhere(s, s2, X)
    PROVE  Reports(s, e, s2, l, h)
<1>1. X \in Kinds /\ X # "panes" /\ \A r : Key(X, r) = r.id
    BY DEF Kinds, Ordered, Key
<1>2. LawfulIn(X, s, h)
    BY <1>1, LawfulParts
<1>3. \A Y \in Kinds \ {X} : e.type \notin Tells(Y) /\ Puts(e, Y) = {}
    BY DEF Kinds, Ordered, Tells, Puts, EventTabs, Focuses
<1>4. /\ Puts(e, X) = {} /\ (\A g : ~Reorders(e, X, g)) /\ \A x : ~Closes(e, X, x, h)
      /\ \A x, f : Written(e, X, x, f, h) = IF f = "focused" THEN {x = id} ELSE {}
  <2>1. CASE X = "workspaces"
      BY <2>1 DEF Puts, Reorders, Closes, Written, Focuses
  <2>2. CASE X = "tabs"
      BY <2>2 DEF Puts, EventTabs, Reorders, Closes, Written, Focuses
  <2> QED
      BY <2>1, <2>2 DEF Ordered
<1>5. Genuine(e, h)
    BY <1>3, <1>4 DEF Genuine, EventTypes, Mentions, Focuses, Ordered
<1>6. Maps(X, s, e, s2, h)
  <2>1. s2[X] = [i \in DOMAIN s[X] |-> s2[X][i]]
      BY DEF FocusedIn
  <2>2. ASSUME NEW i \in 1..Len(s[X])
        PROVE  Becomes(e, X, s[X][i], s2[X][i], h)
    <3>1. i \in DOMAIN s[X] /\ s[X][i] \in Recs(s, X)
        BY <1>2 DEF LawfulIn, IsList, Recs, Ids
    <3> DEFINE r == s[X][i]
               q == s2[X][i]
    <3>2. q = [r EXCEPT !.focused = (r.id = id)]
        BY <3>1 DEF FocusedIn
    <3>3. Good(X, r, h)
        BY <1>2, <3>1 DEF LawfulIn
    <3> HIDE DEF r, q
    <3>4. Good(X, q, h) /\ q.id = r.id /\ q.label = r.label /\ q.focused = (r.id = id)
      <4>1. CASE X = "workspaces"
          BY <3>2, <3>3, <4>1 DEF Good
      <4>2. CASE X = "tabs"
          BY <3>2, <3>3, <4>2 DEF Good
      <4> QED
          BY <4>1, <4>2 DEF Ordered
    <3>5. Fields(X) = {"label", "focused"}
        BY DEF Fields, Ordered
    <3>6. ASSUME NEW f \in Fields(X)
          PROVE  /\ Written(e, X, Key(X, r), f, h) = {} => q[f] = r[f]
                 /\ \A v \in Written(e, X, Key(X, r), f, h) : q[f] = v
      <4>1. CASE f = "label"
          BY <4>1, <1>1, <1>4, <3>4
      <4>2. CASE f = "focused"
          BY <4>2, <1>1, <1>4, <3>4, ZenonT(60)
      <4> QED
          BY <3>5, <4>1, <4>2
    <3>7. Becomes(e, X, r, q, h)
        BY <1>1, <3>4, <3>6 DEF Becomes
    <3> QED
        BY <3>7 DEF r, q
  <2> QED
      BY <2>1, <2>2 DEF Maps
<1>7. Does(X, s, e, s2, l, h)
    BY <1>2, <1>4, <1>6, MapDoes
<1> QED
    BY <1>1, <1>3, <1>5, <1>7, OffPanes

\* A list has each id once exactly if it has each record once and no two records share
\* one.
LEMMA DistinctIds ==
    ASSUME NEW s, IsList(s)
    PROVE  Distinct(IdsOf(s))
             <=> Distinct(s) /\ \A r, q \in Ids(s) : r.id = q.id => r = q
<1>1. /\ Len(IdsOf(s)) = Len(s)
      /\ \A i \in 1..Len(s) : IdsOf(s)[i] = s[i].id
    BY IdsOfFacts
<1>2. ASSUME Distinct(IdsOf(s))
      PROVE  Distinct(s) /\ \A r, q \in Ids(s) : r.id = q.id => r = q
  <2>1. \A i, j \in 1..Len(s) : s[i].id = s[j].id => i = j
      BY <1>1, <1>2 DEF Distinct
  <2> QED
      BY <2>1 DEF Distinct, Ids
<1>3. ASSUME Distinct(s), \A r, q \in Ids(s) : r.id = q.id => r = q
      PROVE  Distinct(IdsOf(s))
  <2>1. \A i \in 1..Len(s) : s[i] \in Ids(s)
      BY DEF Ids
  <2>2. \A i, j \in 1..Len(s) : s[i].id = s[j].id => i = j
      BY <2>1, <1>3 DEF Distinct
  <2> QED
      BY <1>1, <2>2 DEF Distinct
<1> QED
    BY <1>2, <1>3

\* One list after another.
LEMMA ConcatFacts ==
    ASSUME NEW s, NEW t, NEW u, IsList(s), IsList(t), u = s \o t
    PROVE  /\ IsList(u) /\ Ids(u) = Ids(s) \cup Ids(t)
           /\ \A x, y : Precedes(s, x, y) \/ Precedes(t, x, y) => Precedes(u, x, y)
           /\ \A x \in Ids(s), y \in Ids(t) : Precedes(u, x, y)
           /\ Distinct(s) /\ Distinct(t) /\ Ids(s) \cap Ids(t) = {} => Distinct(u)
<1> DEFINE D == Ids(s) \cup Ids(t)
<1>1. s \in Seq(D) /\ t \in Seq(D)
  <2>1. s \in Seq(Ids(s)) /\ t \in Seq(Ids(t)) /\ Ids(s) \subseteq D /\ Ids(t) \subseteq D
      BY DEF IsList
  <2> QED
      BY <2>1, Narrow
<1> HIDE DEF D
<1>2. /\ u \in Seq(D) /\ Len(u) = Len(s) + Len(t)
      /\ \A i \in 1..Len(s) : u[i] = s[i]
      /\ \A i \in 1..Len(t) : u[Len(s) + i] = t[i]
      /\ Len(s) \in Nat /\ Len(t) \in Nat
    BY <1>1, Joined
<1>3. IsList(u)
    BY <1>2, SeqIsList
<1>4. ASSUME NEW k \in 1..Len(u)
      PROVE  \/ k \in 1..Len(s) /\ u[k] = s[k]
             \/ k > Len(s) /\ k - Len(s) \in 1..Len(t) /\ u[k] = t[k - Len(s)]
  <2>1. CASE k <= Len(s)
      BY <1>2, <2>1
  <2>2. CASE ~(k <= Len(s))
    <3>1. k - Len(s) \in 1..Len(t) /\ k = Len(s) + (k - Len(s)) /\ k > Len(s)
        BY <1>2, <2>2
    <3> QED
        BY <1>2, <3>1
  <2> QED
      BY <2>1, <2>2
<1>5. /\ \A i \in 1..Len(s) : i \in 1..Len(u)
      /\ \A i \in 1..Len(t) : Len(s) + i \in 1..Len(u) /\ Len(s) + i > Len(s)
    BY <1>2
<1>6. Ids(u) = Ids(s) \cup Ids(t)
  <2>1. ASSUME NEW z \in Ids(u) PROVE z \in Ids(s) \cup Ids(t)
    <3>1. PICK k \in 1..Len(u) : z = u[k]
        BY DEF Ids
    <3> QED
        BY <1>4, <3>1 DEF Ids
  <2>2. ASSUME NEW z \in Ids(s) PROVE z \in Ids(u)
    <3>1. PICK i \in 1..Len(s) : z = s[i]
        BY DEF Ids
    <3> QED
        BY <1>2, <1>5, <3>1 DEF Ids
  <2>3. ASSUME NEW z \in Ids(t) PROVE z \in Ids(u)
    <3>1. PICK i \in 1..Len(t) : z = t[i]
        BY DEF Ids
    <3> QED
        BY <1>2, <1>5, <3>1 DEF Ids
  <2> QED
      BY <2>1, <2>2, <2>3
<1>7. \A x, y : Precedes(s, x, y) => Precedes(u, x, y)
    BY <1>2, <1>5 DEF Precedes
<1>8. \A x, y : Precedes(t, x, y) => Precedes(u, x, y)
  <2> SUFFICES ASSUME NEW x, NEW y, Precedes(t, x, y) PROVE Precedes(u, x, y)
      OBVIOUS
  <2>1. PICK i \in 1..Len(t), j \in 1..Len(t) : i < j /\ t[i] = x /\ t[j] = y
      BY DEF Precedes
  <2>2. /\ Len(s) + i \in 1..Len(u) /\ Len(s) + j \in 1..Len(u) /\ Len(s) + i < Len(s) + j
        /\ u[Len(s) + i] = x /\ u[Len(s) + j] = y
      BY <1>2, <1>5, <2>1
  <2> QED
      BY <2>2 DEF Precedes
<1>9. \A x \in Ids(s), y \in Ids(t) : Precedes(u, x, y)
  <2> SUFFICES ASSUME NEW x \in Ids(s), NEW y \in Ids(t) PROVE Precedes(u, x, y)
      OBVIOUS
  <2>1. PICK i \in 1..Len(s), j \in 1..Len(t) : s[i] = x /\ t[j] = y
      BY DEF Ids
  <2>2. i \in 1..Len(u) /\ Len(s) + j \in 1..Len(u) /\ i < Len(s) + j
        /\ u[i] = x /\ u[Len(s) + j] = y
      BY <1>2, <1>5, <2>1
  <2> QED
      BY <2>2 DEF Precedes
<1>10. ASSUME Distinct(s), Distinct(t), Ids(s) \cap Ids(t) = {} PROVE Distinct(u)
  <2> SUFFICES ASSUME NEW i \in 1..Len(u), NEW j \in 1..Len(u), u[i] = u[j] PROVE i = j
      BY DEF Distinct
  <2>1. CASE i \in 1..Len(s) /\ u[i] = s[i] /\ j \in 1..Len(s) /\ u[j] = s[j]
      BY <2>1, <1>10 DEF Distinct
  <2>2. CASE /\ i \in 1..Len(s) /\ u[i] = s[i]
             /\ j - Len(s) \in 1..Len(t) /\ u[j] = t[j - Len(s)]
      BY <2>2, <1>10 DEF Ids
  <2>3. CASE /\ j \in 1..Len(s) /\ u[j] = s[j]
             /\ i - Len(s) \in 1..Len(t) /\ u[i] = t[i - Len(s)]
      BY <2>3, <1>10 DEF Ids
  <2>4. CASE /\ i - Len(s) \in 1..Len(t) /\ u[i] = t[i - Len(s)]
             /\ j - Len(s) \in 1..Len(t) /\ u[j] = t[j - Len(s)]
    <3>1. i - Len(s) = j - Len(s)
        BY <2>4, <1>10 DEF Distinct
    <3> QED
        BY <3>1, <1>2
  <2> QED
      BY <1>4, <2>1, <2>2, <2>3, <2>4
<1> QED
    BY <1>3, <1>6, <1>7, <1>8, <1>9, <1>10

\* The first of a list becomes its last.
LEMMA RotateFacts ==
    ASSUME NEW s, NEW t, IsList(s), Len(s) > 1, t = Append(Tail(s), Head(s))
    PROVE  IsList(t) /\ Ids(t) = Ids(s) /\ (Distinct(s) => Distinct(t))
<1>1. s \in Seq(Ids(s)) /\ Len(s) \in Nat /\ Len(s) > 1
    BY DEF IsList
<1>2. /\ Tail(s) \in Seq(Ids(s)) /\ Len(Tail(s)) = Len(s) - 1 /\ Head(s) = s[1]
      /\ \A i \in 1..(Len(s) - 1) : Tail(s)[i] = s[i + 1]
    BY <1>1
<1>3. IsList(Tail(s))
    BY <1>2, SeqIsList
<1>4. Ids(Tail(s)) \cup {Head(s)} = Ids(s)
  <2>1. \A i \in 1..(Len(s) - 1) : i + 1 \in 1..Len(s)
      BY <1>1
  <2>2. \A i \in 1..Len(s) : i = 1 \/ (i - 1 \in 1..(Len(s) - 1) /\ (i - 1) + 1 = i)
      BY <1>1
  <2>3. 1 \in 1..Len(s)
      BY <1>1
  <2> QED
      BY <1>2, <2>1, <2>2, <2>3 DEF Ids
<1>5. IsList(t) /\ Ids(t) = Ids(s)
    BY <1>3, <1>4, AppendList, AppendIds
<1>6. ASSUME Distinct(s) PROVE Distinct(t)
  <2>1. Distinct(Tail(s))
      BY <1>1, <1>2, <1>6 DEF Distinct
  <2>2. Head(s) \notin Ids(Tail(s))
      BY <1>1, <1>2, <1>6 DEF Distinct, Ids
  <2>3. Head(s) \in Ids(s)
      BY <1>1, <1>2 DEF Ids
  <2> QED
      BY <1>2, <2>1, <2>2, <2>3, AppendFacts
<1> QED
    BY <1>5, <1>6

\* The records an event lists come in its order, the others as they were.
Relists(X, s, e, s2, h) ==
    /\ IsList(s2[X]) /\ Distinct(s2[X]) /\ Ids(s2[X]) = Ids(s[X])
    /\ IsList(e[X]) /\ Puts(e, X) = Ids(e[X]) /\ Ids(e[X]) \subseteq Ids(s[X])
    /\ \A r \in Ids(s[X]) : Reorders(e, X, Group(X, r.id, h)) <=> r \in Ids(e[X])
    /\ \A r, q : Precedes(e[X], r, q) => Precedes(s2[X], r, q)
    /\ \A r, q \in Ids(s[X]) \ Ids(e[X]) : Precedes(s[X], r, q) => Precedes(s2[X], r, q)
    /\ \A id : ~Closes(e, X, id, h)
    /\ \A id, f : Written(e, X, id, f, h) = {r[f] : r \in {q \in Puts(e, X) : Key(X, q) = id}}

\* An event that lists a group in a new order reports that order.
LEMMA RelistDoes ==
    ASSUME NEW X \in Ordered, NEW s, NEW e, NEW s2, NEW l, NEW h, LawfulIn(X, s, h),
           Relists(X, s, e, s2, h)
    PROVE  Does(X, s, e, s2, l, h)
<1>0. X \in Kinds /\ (\A q : Key(X, q) = q.id)
      /\ Recs(s, X) = Ids(s[X]) /\ Recs(s2, X) = Ids(s2[X])
    BY DEF Ordered, Kinds, Key, Recs
<1>1. /\ IsList(s2[X]) /\ Distinct(s2[X]) /\ Ids(s2[X]) = Ids(s[X])
      /\ IsList(e[X]) /\ Puts(e, X) = Ids(e[X]) /\ Ids(e[X]) \subseteq Ids(s[X])
      /\ \A r \in Ids(s[X]) : Reorders(e, X, Group(X, r.id, h)) <=> r \in Ids(e[X])
      /\ \A id : ~Closes(e, X, id, h)
    BY DEF Relists
<1>2. IsList(s[X]) /\ Distinct(IdsOf(s[X])) /\ \A r \in Ids(s[X]) : Good(X, r, h)
    BY <1>0 DEF LawfulIn
<1>3. \A r, q \in Ids(s[X]) : r.id = q.id => r = q
    BY <1>2, DistinctIds
<1>4. Distinct(IdsOf(s2[X]))
    BY <1>1, <1>3, DistinctIds
<1>5. LawfulIn(X, s2, h)
    BY <1>0, <1>1, <1>2, <1>3, <1>4 DEF LawfulIn
<1>6. \A id : Alive(s2, X, id) <=> Alive(s, X, id)
    BY <1>0, <1>1 DEF Alive
<1>7. \A id : Alive(s, X, id) => (Reorders(e, X, Group(X, id, h)) <=> Brings(e, X, id))
  <2> SUFFICES ASSUME NEW id, Alive(s, X, id)
               PROVE  Reorders(e, X, Group(X, id, h)) <=> Brings(e, X, id)
      OBVIOUS
  <2>1. PICK r \in Ids(s[X]) : r.id = id
      BY <1>0 DEF Alive
  <2>2. Brings(e, X, id) <=> r \in Ids(e[X])
      BY <1>0, <1>1, <1>3, <2>1 DEF Brings
  <2> QED
      BY <1>1, <2>1, <2>2
<1>8. \A id : Brings(e, X, id) => Alive(s, X, id)
    BY <1>0, <1>1 DEF Brings, Alive
<1>9. \A id : Drops(e, X, id, h) => ~Alive(s, X, id)
    BY <1>1, <1>7 DEF Drops
<1>10. LeadsIn(X, s, e, s2, h)
  <2>1. \A r \in Recs(s, X) : \A q \in Recs(s2, X) : Key(X, r) = Key(X, q) => q = r
      BY <1>0, <1>1, <1>3
  <2>2. ASSUME NEW q \in Recs(s2, X), NEW f, NEW v \in Written(e, X, Key(X, q), f, h)
        PROVE  q[f] = v
    <3>1. PICK r \in Ids(e[X]) : Key(X, r) = Key(X, q) /\ v = r[f]
        BY <1>1, <2>2 DEF Relists
    <3>2. r = q
        BY <1>0, <1>1, <1>3, <3>1
    <3> QED
        BY <3>1, <3>2
  <2> QED
      BY <1>6, <1>8, <1>9, <2>1, <2>2 DEF LeadsIn
<1>11. BornIn(X, s, s2, l, h)
    BY <1>6 DEF BornIn
<1>12. ASSUME NEW x, NEW y, Pair(s2, X, x, y, h), Reorders(e, X, Group(X, x, h)),
              Precedes(IdsOf(e[X]), x, y)
       PROVE  Precedes(IdsOf(s2[X]), x, y)
  <2>1. PICK r, q : Precedes(e[X], r, q) /\ r.id = x /\ q.id = y
      BY <1>1, <1>12, PrecedesIds
  <2>2. Precedes(s2[X], r, q)
      BY <2>1 DEF Relists
  <2> QED
      BY <1>1, <2>1, <2>2, PrecedesIds
<1>13. ASSUME NEW x, NEW y, Pair(s2, X, x, y, h), ~Reorders(e, X, Group(X, x, h)),
              Precedes(IdsOf(s[X]), x, y)
       PROVE  Precedes(IdsOf(s2[X]), x, y)
  <2>1. PICK r, q : Precedes(s[X], r, q) /\ r.id = x /\ q.id = y
      BY <1>2, <1>13, PrecedesIds
  <2>2. r \in Ids(s[X]) /\ q \in Ids(s[X])
      BY <2>1, PrecedesLies
  <2>3. r \notin Ids(e[X]) /\ q \notin Ids(e[X])
    <3>1. ~Reorders(e, X, Group(X, y, h))
        BY <1>13 DEF Pair
    <3> QED
        BY <1>1, <1>13, <2>1, <2>2, <3>1
  <2>4. Precedes(s2[X], r, q)
      BY <2>1, <2>2, <2>3 DEF Relists
  <2> QED
      BY <1>1, <2>1, <2>4, PrecedesIds
<1>14. \A id : ~Alone(e, X, id, h)
    BY <1>7, <1>8 DEF Alone
<1>15. ArrangesIn(X, s, e, s2, h, l)
    BY <1>6, <1>12, <1>13, <1>14 DEF ArrangesIn, Pair
<1> QED
    BY <1>5, <1>10, <1>11, <1>15 DEF Does

\* workspace.moved reports the workspaces in their new order.
LEMMA WorkspaceMovedReports ==
    ASSUME NEW s, NEW e, NEW s2, NEW l, NEW h, NEW moved, Lawful(s, h),
           e = [type |-> "WorkspaceMoved", workspaces |-> moved],
           Len(s.workspaces) > 1,
           moved = Append(Tail(s.workspaces), Head(s.workspaces)),
           s2.workspaces = moved, Elsewhere(s, s2, "workspaces")
    PROVE  Reports(s, e, s2, l, h)
<1> DEFINE X == "workspaces"
<1>1. X \in Kinds /\ X \in Ordered /\ \A r : Key(X, r) = r.id
    BY DEF Kinds, Ordered, Key
<1>2. LawfulIn(X, s, h)
    BY <1>1, LawfulParts
<1>3. \A Y \in Kinds \ {X} : e.type \notin Tells(Y) /\ Puts(e, Y) = {}
    BY DEF Kinds, Tells, Puts, EventTabs
<1>4. IsList(s[X]) /\ Distinct(IdsOf(s[X])) /\ \A r \in Ids(s[X]) : Good(X, r, h)
    BY <1>1, <1>2 DEF LawfulIn, Recs
<1>5. Distinct(s[X]) /\ \A r, q \in Ids(s[X]) : r.id = q.id => r = q
    BY <1>4, DistinctIds
<1>6. IsList(moved) /\ Ids(moved) = Ids(s[X]) /\ Distinct(moved)
    BY <1>4, <1>5, RotateFacts
<1>7. Distinct(IdsOf(moved))
    BY <1>5, <1>6, DistinctIds
<1>8. Puts(e, X) = Ids(moved)
    BY DEF Puts
<1>9. Genuine(e, h)
    BY <1>1, <1>3, <1>4, <1>6, <1>7, <1>8 DEF Genuine, EventTypes, Mentions
<1>10. e[X] = moved /\ s2[X] = moved
    OBVIOUS
<1>11. /\ \A id : ~Closes(e, X, id, h)
       /\ \A id, f : Written(e, X, id, f, h)
                       = {r[f] : r \in {q \in Puts(e, X) : Key(X, q) = id}}
       /\ \A g : Reorders(e, X, g)
    BY DEF Closes, Written, Reorders
<1>12. Relists(X, s, e, s2, h)
    BY <1>6, <1>8, <1>10, <1>11 DEF Relists
<1>13. Does(X, s, e, s2, l, h)
    BY <1>1, <1>2, <1>12, RelistDoes
<1> QED
    BY <1>1, <1>3, <1>9, <1>13, OffPanes

\* tab.moved reports the tabs of one workspace in their new order.
LEMMA TabMovedReports ==
    ASSUME NEW s, NEW e, NEW s2, NEW l, NEW h, NEW w, NEW rest, NEW inside, NEW moved,
           Lawful(s, h),
           rest = Among(s.tabs, {r \in Ids(s.tabs) : r.ws # w}),
           inside = Among(s.tabs, {r \in Ids(s.tabs) : r.ws = w}),
           Len(inside) > 1, moved = Append(Tail(inside), Head(inside)),
           e = [type |-> "TabMoved", ws |-> w, tabs |-> moved],
           s2.tabs = rest \o moved, Elsewhere(s, s2, "tabs")
    PROVE  Reports(s, e, s2, l, h)
<1> DEFINE X == "tabs"
<1>1. X \in Kinds /\ X \in Ordered /\ \A r : Key(X, r) = r.id
    BY DEF Kinds, Ordered, Key
<1>2. LawfulIn(X, s, h)
    BY <1>1, LawfulParts
<1>3. \A Y \in Kinds \ {X} : e.type \notin Tells(Y) /\ Puts(e, Y) = {}
    BY DEF Kinds, Tells, Puts, EventTabs
<1>4. IsList(s[X]) /\ Distinct(IdsOf(s[X])) /\ \A r \in Ids(s[X]) : Good(X, r, h)
    BY <1>1, <1>2 DEF LawfulIn, Recs
<1>5. Distinct(s[X]) /\ \A r, q \in Ids(s[X]) : r.id = q.id => r = q
    BY <1>4, DistinctIds
<1>6. /\ IsList(inside) /\ Distinct(inside) /\ Ids(inside) = {r \in Ids(s[X]) : r.ws = w}
      /\ IsList(rest) /\ Distinct(rest) /\ Ids(rest) = {r \in Ids(s[X]) : r.ws # w}
  <2>1. s.tabs \in Seq(Ids(s.tabs))
      BY <1>4 DEF IsList
  <2> QED
      BY <1>4, <1>5, <2>1, AmongList, AmongFacts
<1>7. IsList(moved) /\ Ids(moved) = Ids(inside) /\ Distinct(moved)
    BY <1>6, RotateFacts
<1>8. /\ IsList(s2[X]) /\ Ids(s2[X]) = Ids(rest) \cup Ids(moved)
      /\ \A x, y : Precedes(rest, x, y) \/ Precedes(moved, x, y) => Precedes(s2[X], x, y)
      /\ Ids(rest) \cap Ids(moved) = {} => Distinct(s2[X])
  <2>1. s2[X] = rest \o moved
      OBVIOUS
  <2>2. /\ IsList(rest) /\ IsList(moved)
        /\ Distinct(rest) /\ Distinct(moved)
      BY <1>6, <1>7
  <2> QED
      BY ONLY <2>1, <2>2, ConcatFacts
<1>9. Distinct(IdsOf(moved))
    BY <1>5, <1>6, <1>7, DistinctIds
<1>10. Puts(e, X) = Ids(moved)
    BY DEF Puts, EventTabs
<1>11. Genuine(e, h)
    BY <1>1, <1>3, <1>4, <1>6, <1>7, <1>9, <1>10 DEF Genuine, EventTypes, Mentions
<1>12. /\ \A id : ~Closes(e, X, id, h)
       /\ \A id, f : Written(e, X, id, f, h)
                       = {r[f] : r \in {q \in Puts(e, X) : Key(X, q) = id}}
       /\ \A g : Reorders(e, X, g) <=> g = w
    BY DEF Closes, Written, Reorders
<1>13. \A r \in Ids(s[X]) : Group(X, r.id, h) = r.ws
    BY <1>4 DEF Group, Good
<1>14. \A r, q \in Ids(s[X]) \ Ids(moved) : Precedes(s[X], r, q) => Precedes(s2[X], r, q)
  <2> SUFFICES ASSUME NEW r \in Ids(s[X]) \ Ids(moved), NEW q \in Ids(s[X]) \ Ids(moved),
                      Precedes(s[X], r, q)
               PROVE  Precedes(s2[X], r, q)
      OBVIOUS
  <2>1. r.ws # w /\ q.ws # w
      BY <1>6, <1>7
  <2>2. Precedes(rest, r, q)
      BY <2>1, <1>4, AmongOrder
  <2> QED
      BY <2>2, <1>8
<1>15. e[X] = moved
    OBVIOUS
<1>16. Relists(X, s, e, s2, h)
    BY <1>6, <1>7, <1>8, <1>10, <1>12, <1>13, <1>14, <1>15 DEF Relists
<1>17. Does(X, s, e, s2, l, h)
    BY <1>1, <1>2, <1>16, RelistDoes
<1> QED
    BY <1>1, <1>3, <1>11, <1>17, OffPanes

\* Nothing of a pane is running that was not, but for those the event closes.
LEMMA FewerRunning ==
    ASSUME NEW s, NEW s2, NEW e, NEW h, Lawful(s, h),
           s2.panes = {p \in s.panes : ~Closes(e, "panes", p.id, h)}
    PROVE  /\ \A id : Running(s2, id) => Running(s, id)
           /\ \A id : Running(s, id) /\ ~Running(s2, id) => Closes(e, "panes", id, h)
           /\ \A id : Alive(s2, "panes", id) => Alive(s, "panes", id)
    BY DEF Running, Alive, Recs, Key, Ordered

\* When panes close, their agents leave and no other does.
LEMMA FewerHires ==
    ASSUME NEW s, NEW s2, NEW e, NEW h, Lawful(s, h),
           s2.panes = {p \in s.panes : ~Closes(e, "panes", p.id, h)},
           e.type \notin {"PaneAgentDetected", "PaneMoved"}
    PROVE  Hires(s, e, s2, h)
<1>1. /\ \A id : Running(s2, id) => Running(s, id)
      /\ \A id : Running(s, id) /\ ~Running(s2, id) => Closes(e, "panes", id, h)
    BY FewerRunning
<1> QED
    BY ONLY <1>1, e.type \notin {"PaneAgentDetected", "PaneMoved"}, PlainHires

\* workspace.closed and tab.closed report what they take along.
LEMMA RemovedReports ==
    ASSUME NEW s, NEW e, NEW s2, NEW l, NEW h, Lawful(s, h), Genuine(e, h),
           e.type \in {"WorkspaceClosed", "TabClosed"},
           \A X \in Kinds : Removes(X, s, e, s2, h)
    PROVE  Reports(s, e, s2, l, h)
<1>1. \A X \in Kinds : Does(X, s, e, s2, l, h)
    BY LawfulParts, RemoveDoes
<1>2. s2.panes = {p \in s.panes : ~Closes(e, "panes", p.id, h)}
  <2>1. Removes("panes", s, e, s2, h)
      BY DEF Kinds
  <2> QED
      BY <2>1 DEF Removes, Recs, Key, Ordered
<1>3. Mentions(e) = {} /\ e.type \notin {"PaneAgentDetected", "PaneMoved"}
    BY DEF Mentions
<1>4. Regards(s, e, s2, l, h)
    BY <1>2, <1>3, FewerRunning DEF Regards
<1>5. Hires(s, e, s2, h)
    BY <1>2, <1>3, FewerHires
<1> QED
    BY <1>1, <1>4, <1>5, Assemble DEF Lawful

\* The records of an ordered kind without some of them.
LEMMA RemovesList ==
    ASSUME NEW X \in Ordered, NEW s, NEW e, NEW s2, NEW h, LawfulIn(X, s, h), NEW set,
           set = {r \in Ids(s[X]) : ~Closes(e, X, r.id, h)}, s2[X] = Among(s[X], set),
           Puts(e, X) = {}, \A g : ~Reorders(e, X, g),
           \A id, f : Written(e, X, id, f, h) = {}
    PROVE  Removes(X, s, e, s2, h)
<1>1. \A r : Key(X, r) = r.id
    BY DEF Ordered, Key
<1>2. s[X] \in Seq(Ids(s[X]))
    BY DEF LawfulIn, IsList
<1>3. Ids(s2[X]) = set
    BY <1>2, AmongFacts
<1> QED
    BY <1>1, <1>3 DEF Removes, Recs

\* workspace.closed reports the workspace with its tabs, panes and layouts.
LEMMA WorkspaceClosedReports ==
    ASSUME NEW s, NEW e, NEW s2, NEW l, NEW h, NEW w, Lawful(s, h),
           e = [type |-> "WorkspaceClosed", id |-> w], w \in h.ws,
           s2.workspaces = Among(s.workspaces, {r \in Ids(s.workspaces) : r.id # w}),
           s2.tabs = Among(s.tabs, {r \in Ids(s.tabs) : r.ws # w}),
           s2.panes = {p \in s.panes : p.ws # w},
           s2.layouts = {x \in s.layouts : x.ws # w}
    PROVE  Reports(s, e, s2, l, h)
<1>1. \A X \in Kinds : LawfulIn(X, s, h)
    BY LawfulParts
<1>2. \A X \in Kinds : /\ Puts(e, X) = {} /\ (\A g : ~Reorders(e, X, g))
                       /\ \A id, f : Written(e, X, id, f, h) = {}
    BY DEF Kinds, Puts, EventTabs, Reorders, Written
<1>3. /\ \A id : Closes(e, "workspaces", id, h) <=> id = w
      /\ \A X \in {"tabs", "layouts"} : \A id : Closes(e, X, id, h) <=> h.tab[id] = w
      /\ \A id : Closes(e, "panes", id, h) <=> h.tab[h.pane[id]] = w
    BY DEF Closes
<1>4. Removes("workspaces", s, e, s2, h)
  <2>1. {r \in Ids(s.workspaces) : r.id # w}
          = {r \in Ids(s["workspaces"]) : ~Closes(e, "workspaces", r.id, h)}
      BY <1>3
  <2> QED
      BY <1>1, <1>2, <2>1, RemovesList DEF Kinds, Ordered
<1>5. Removes("tabs", s, e, s2, h)
  <2>1. \A r \in Ids(s.tabs) : h.tab[r.id] = r.ws
      BY <1>1 DEF Kinds, LawfulIn, Recs, Ordered, Good
  <2>2. {r \in Ids(s.tabs) : r.ws # w}
          = {r \in Ids(s["tabs"]) : ~Closes(e, "tabs", r.id, h)}
      BY <1>3, <2>1
  <2> QED
      BY <1>1, <1>2, <2>2, RemovesList DEF Kinds, Ordered
<1>6. Removes("panes", s, e, s2, h)
  <2>1. \A p \in s.panes : h.tab[h.pane[p.id]] = p.ws
      BY <1>1 DEF Kinds, LawfulIn, Recs, Ordered, Good
  <2> QED
      BY <1>2, <1>3, <2>1 DEF Removes, Kinds, Recs, Ordered, Key
<1>7. Removes("layouts", s, e, s2, h)
  <2>1. \A x \in s.layouts : h.tab[x.tab] = x.ws
      BY <1>1 DEF Kinds, LawfulIn, Recs, Ordered, Good
  <2> QED
      BY <1>2, <1>3, <2>1 DEF Removes, Kinds, Recs, Ordered, Key
<1>8. Genuine(e, h)
    BY <1>2 DEF Genuine, EventTypes, Mentions
<1>9. \A X \in Kinds : Removes(X, s, e, s2, h)
    BY <1>4, <1>5, <1>6, <1>7 DEF Kinds
<1> QED
    BY <1>8, <1>9, RemovedReports

\* tab.closed reports the tab with its panes and its layout.
LEMMA TabClosedReports ==
    ASSUME NEW s, NEW e, NEW s2, NEW l, NEW h, NEW t, Lawful(s, h),
           e = [type |-> "TabClosed", id |-> t], t \in DOMAIN h.tab,
           s2.workspaces = s.workspaces,
           s2.tabs = Among(s.tabs, {r \in Ids(s.tabs) : r.id # t}),
           s2.panes = {p \in s.panes : p.tab # t},
           s2.layouts = {x \in s.layouts : x.tab # t}
    PROVE  Reports(s, e, s2, l, h)
<1>1. \A X \in Kinds : LawfulIn(X, s, h)
    BY LawfulParts
<1>2. \A X \in Kinds : /\ Puts(e, X) = {} /\ (\A g : ~Reorders(e, X, g))
                       /\ \A id, f : Written(e, X, id, f, h) = {}
    BY DEF Kinds, Puts, EventTabs, Reorders, Written
<1>3. /\ \A id : ~Closes(e, "workspaces", id, h)
      /\ \A X \in {"tabs", "layouts"} : \A id : Closes(e, X, id, h) <=> id = t
      /\ \A id : Closes(e, "panes", id, h) <=> h.pane[id] = t
    BY DEF Closes
<1>4. Does("workspaces", s, e, s2, l, h)
    BY <1>1, <1>2, <1>3, StillDoes DEF Silent, Kinds
<1>5. Removes("tabs", s, e, s2, h)
  <2>1. {r \in Ids(s.tabs) : r.id # t}
          = {r \in Ids(s["tabs"]) : ~Closes(e, "tabs", r.id, h)}
      BY <1>3
  <2> QED
      BY <1>1, <1>2, <2>1, RemovesList DEF Kinds, Ordered
<1>6. Removes("panes", s, e, s2, h)
  <2>1. \A p \in s.panes : h.pane[p.id] = p.tab
      BY <1>1 DEF Kinds, LawfulIn, Recs, Ordered, Good
  <2> QED
      BY <1>2, <1>3, <2>1 DEF Removes, Kinds, Recs, Ordered, Key
<1>7. Removes("layouts", s, e, s2, h)
    BY <1>2, <1>3 DEF Removes, Kinds, Recs, Ordered, Key
<1>8. Genuine(e, h)
    BY <1>2 DEF Genuine, EventTypes, Mentions
<1>9. \A X \in Kinds : Does(X, s, e, s2, l, h)
    BY <1>1, <1>4, <1>5, <1>6, <1>7, RemoveDoes DEF Kinds
<1>10. s2.panes = {p \in s.panes : ~Closes(e, "panes", p.id, h)}
    BY <1>6 DEF Removes, Recs, Key, Ordered
<1>11. Mentions(e) = {} /\ e.type \notin {"PaneAgentDetected", "PaneMoved"}
    BY DEF Mentions
<1>12. Regards(s, e, s2, l, h)
    BY <1>10, <1>11, FewerRunning DEF Regards
<1>13. Hires(s, e, s2, h)
    BY <1>10, <1>11, FewerHires
<1> QED
    BY <1>8, <1>9, <1>12, <1>13, Assemble DEF Lawful

\* pane.closed reports the pane and its agent.
LEMMA PaneClosedReports ==
    ASSUME NEW s, NEW e, NEW s2, NEW l, NEW h, NEW pane, Lawful(s, h),
           pane \in s.panes, e = [type |-> "PaneClosed", id |-> pane.id],
           s2.panes = s.panes \ {pane}, Elsewhere(s, s2, "panes")
    PROVE  Reports(s, e, s2, l, h)
<1>1. LawfulIn("panes", s, h) /\ Recs(s, "panes") = s.panes /\ Recs(s2, "panes") = s2.panes
      /\ \A p : Key("panes", p) = p.id
    BY LawfulParts DEF Kinds, Recs, Ordered, Key
<1>2. /\ Puts(e, "panes") = {} /\ (\A g : ~Reorders(e, "panes", g))
      /\ (\A id, f : Written(e, "panes", id, f, h) = {})
      /\ \A id : Closes(e, "panes", id, h) <=> id = pane.id
    BY DEF Puts, Reorders, Written, Closes
<1>3. \A Y \in Kinds \ {"panes"} : e.type \notin Tells(Y) /\ Puts(e, Y) = {}
    BY DEF Kinds, Tells, Puts, EventTabs
<1>4. \A p \in s.panes : p.id = pane.id => p = pane
    BY <1>1 DEF LawfulIn
<1>5. s2.panes = {p \in s.panes : ~Closes(e, "panes", p.id, h)}
    BY <1>2, <1>4
<1>6. Does("panes", s, e, s2, l, h)
    BY <1>1, <1>2, <1>5, RemoveDoes DEF Removes, Ordered
<1>7. \A X \in Kinds : Does(X, s, e, s2, l, h)
  <2>1. "panes" \in Kinds
      BY DEF Kinds
  <2> QED
      BY <1>3, <1>6, <2>1, OneKind DEF Elsewhere
<1>8. Mentions(e) = {pane.id} /\ e.type \notin {"PaneAgentDetected", "PaneMoved"}
    BY DEF Mentions
<1>9. Alive(s, "panes", pane.id) /\ pane.id \in DOMAIN h.pane
    BY <1>1 DEF Alive, LawfulIn, Good
<1>10. Genuine(e, h)
    BY <1>2, <1>3, <1>8, <1>9 DEF Genuine, EventTypes
<1>11. Regards(s, e, s2, l, h)
    BY <1>5, <1>8, <1>9, FewerRunning, SMTT(40) DEF Regards
<1>12. Hires(s, e, s2, h)
    BY <1>5, <1>8, FewerHires
<1> QED
    BY <1>7, <1>10, <1>11, <1>12, Assemble DEF Lawful

\* pane.created reports a new pane, in which no agent runs.
LEMMA NewPaneReports ==
    ASSUME NEW s, NEW e, NEW s2, NEW l, NEW h, NEW pane, Lawful(s, h),
           e = [type |-> "PaneSet", pane |-> pane],
           s2.panes = s.panes \cup {pane}, Elsewhere(s, s2, "panes"),
           Good("panes", pane, h), Unknown(s, l, h, "panes", pane.id), pane.agent = Absent
    PROVE  Reports(s, e, s2, l, h)
<1>1. LawfulIn("panes", s, h) /\ Recs(s, "panes") = s.panes /\ Recs(s2, "panes") = s2.panes
      /\ (\A p : Key("panes", p) = p.id) /\ "panes" \in Kinds /\ "panes" \notin Ordered
    BY LawfulParts DEF Kinds, Recs, Ordered, Key
<1>2. Puts(e, "panes") = {pane} /\ Only(e, "panes", h)
    BY DEF Puts, Only, Reorders, Written, Closes
<1>3. \A Y \in Kinds \ {"panes"} : e.type \notin Tells(Y) /\ Puts(e, Y) = {}
    BY DEF Kinds, Tells, Puts, EventTabs
<1>4. Grows("panes", s, e, s2, pane)
    BY <1>1, <1>2 DEF Grows, Unknown
<1>5. Does("panes", s, e, s2, l, h)
    BY <1>1, <1>2, <1>4, AddDoes DEF Unknown
<1>6. \A X \in Kinds : Does(X, s, e, s2, l, h)
    BY <1>1, <1>3, <1>5, OneKind DEF Elsewhere
<1>7. Mentions(e) = {pane.id} /\ e.type \notin {"PaneAgentDetected", "PaneMoved"}
    BY DEF Mentions
<1>8. pane.id \in DOMAIN h.pane
    BY DEF Good
<1>9. Genuine(e, h)
    BY <1>2, <1>3, <1>7, <1>8 DEF Genuine, EventTypes
<1>10. \A id : Alive(s2, "panes", id) <=> Alive(s, "panes", id) \/ id = pane.id
    BY <1>1 DEF Alive
<1>11. Regards(s, e, s2, l, h)
    BY <1>7, <1>10 DEF Regards, Unknown
<1>12. \A id : Running(s2, id) <=> Running(s, id)
    BY DEF Running
<1>13. Hires(s, e, s2, h)
    BY <1>7, <1>12, PlainHires
<1> QED
    BY <1>6, <1>9, <1>11, <1>13, Assemble DEF Lawful

\* The event rewrites one pane.
LEMMA SwapReports ==
    ASSUME NEW s, NEW e, NEW s2, NEW l, NEW h, NEW old, NEW new, Lawful(s, h),
           old \in s.panes, s2.panes = (s.panes \ {old}) \cup {new},
           Elsewhere(s, s2, "panes"),
           e.type \in {"PaneSet", "PaneRevised", "PaneAgentDetected", "PaneAgentStatusChanged"},
           Becomes(e, "panes", old, new, h), Mentions(e) = {old.id},
           Puts(e, "panes") \subseteq {new}, Genuine(e, h),
           \A id, f : id # old.id => Written(e, "panes", id, f, h) = {},
           Hires(s, e, s2, h)
    PROVE  Reports(s, e, s2, l, h)
<1>1. LawfulIn("panes", s, h) /\ Recs(s, "panes") = s.panes /\ Recs(s2, "panes") = s2.panes
      /\ (\A p : Key("panes", p) = p.id) /\ "panes" \in Kinds /\ "panes" \notin Ordered
    BY LawfulParts DEF Kinds, Recs, Ordered, Key
<1>2. \A id : ~Closes(e, "panes", id, h)
    BY DEF Closes
<1>3. new.id = old.id
    BY <1>1 DEF Becomes
<1>4. \A Y \in Kinds \ {"panes"} : e.type \notin Tells(Y)
    BY DEF Kinds, Tells
<1>5. Does("panes", s, e, s2, l, h)
    BY <1>1, <1>2, <1>3, SwapDoes
<1>6. \A X \in Kinds : Does(X, s, e, s2, l, h)
    BY <1>1, <1>4, <1>5, OneKind DEF Elsewhere
<1>7. \A id : Alive(s2, "panes", id) <=> Alive(s, "panes", id)
    BY <1>1, <1>3 DEF Alive
<1>8. Alive(s, "panes", old.id)
    BY <1>1 DEF Alive
<1>9. Regards(s, e, s2, l, h)
    BY <1>7, <1>8 DEF Regards
<1> QED
    BY <1>6, <1>9, Assemble DEF Lawful

\* A pane rewritten in place changes only whether an agent runs in it.
LEMMA SwapRunning ==
    ASSUME NEW s, NEW s2, NEW h, NEW old, NEW new, Lawful(s, h),
           old \in s.panes, s2.panes = (s.panes \ {old}) \cup {new}, new.id = old.id
    PROVE  /\ \A id : id # old.id => (Running(s2, id) <=> Running(s, id))
           /\ Running(s2, old.id) <=> new.agent # Absent
           /\ Running(s, old.id) <=> old.agent # Absent
<1>1. LawfulIn("panes", s, h) /\ Recs(s, "panes") = s.panes /\ \A p : Key("panes", p) = p.id
    BY LawfulParts DEF Kinds, Recs, Ordered, Key
<1>2. \A p \in s.panes : p.id = old.id => p = old
    BY <1>1 DEF LawfulIn
<1> QED
    BY <1>2 DEF Running

\* A pane rewritten in place with its agent hires and releases none.
LEMMA SwapHires ==
    ASSUME NEW s, NEW e, NEW s2, NEW h, NEW old, NEW new, Lawful(s, h),
           old \in s.panes, s2.panes = (s.panes \ {old}) \cup {new}, new.id = old.id,
           e.type \notin {"PaneAgentDetected", "PaneMoved"},
           new.agent = Absent <=> old.agent = Absent
    PROVE  Hires(s, e, s2, h)
<1>1. \A id : Running(s2, id) <=> Running(s, id)
  <2>1. /\ \A id : id # old.id => (Running(s2, id) <=> Running(s, id))
        /\ Running(s2, old.id) <=> new.agent # Absent
        /\ Running(s, old.id) <=> old.agent # Absent
      BY SwapRunning
  <2> QED
      BY <2>1
<1> QED
    BY ONLY <1>1, PlainHires, e.type \notin {"PaneAgentDetected", "PaneMoved"}

\* What a pane has but what an event may write.
LEMMA GoodPane ==
    ASSUME NEW h, NEW old, NEW new, Good("panes", old, h), new.focused \in BOOLEAN,
           new = [old EXCEPT !.focused = new.focused, !.agent = new.agent,
                             !.display = new.display, !.status = new.status,
                             !.rev = new.rev]
    PROVE  Good("panes", new, h) /\ new.id = old.id
    BY DEF Good

\* pane.updated reports the pane whole.
LEMMA PaneSetReports ==
    ASSUME NEW s, NEW e, NEW s2, NEW l, NEW h, NEW old, NEW new, Lawful(s, h),
           old \in s.panes, s2.panes = (s.panes \ {old}) \cup {new},
           Elsewhere(s, s2, "panes"), e = [type |-> "PaneSet", pane |-> new],
           Good("panes", new, h), new.id = old.id, new.agent = Absent <=> old.agent = Absent
    PROVE  Reports(s, e, s2, l, h)
<1>1. /\ Puts(e, "panes") = {new} /\ Mentions(e) = {old.id}
      /\ \A id, f : Written(e, "panes", id, f, h) = IF id = old.id THEN {new[f]} ELSE {}
      /\ \A p : Key("panes", p) = p.id
    BY DEF Puts, Mentions, Written, Key
<1>2. Becomes(e, "panes", old, new, h)
  <2>1. \A f : Written(e, "panes", Key("panes", old), f, h) = {new[f]}
      BY <1>1
  <2> QED
      BY <1>1, <2>1 DEF Becomes
<1>3. Hires(s, e, s2, h)
    BY SwapHires
<1>4. \A Y \in Kinds \ {"panes"} : Puts(e, Y) = {}
    BY DEF Kinds, Puts, EventTabs
<1>5. old.id \in DOMAIN h.pane
    BY DEF Good
<1>6. Genuine(e, h)
    BY <1>1, <1>4, <1>5 DEF Genuine, EventTypes
<1> QED
    BY <1>1, <1>2, <1>3, <1>6, SwapReports

\* Five fields of a pane, of which an event writes some.
LEMMA BecomesPane ==
    ASSUME NEW e, NEW h, NEW old, NEW new, NEW w,
           Good("panes", new, h), new.id = old.id,
           \A f \in Fields("panes") : Written(e, "panes", old.id, f, h) = IF f \in w THEN {new[f]} ELSE {},
           \A f \in Fields("panes") \ w : new[f] = old[f]
    PROVE  Becomes(e, "panes", old, new, h)
    BY DEF Becomes, Key

\* pane.output_changed and pane.scroll_changed report the revision.
LEMMA PaneRevisedReports ==
    ASSUME NEW s, NEW e, NEW s2, NEW l, NEW h, NEW old, NEW rev, Lawful(s, h),
           old \in s.panes, s2.panes = (s.panes \ {old}) \cup {[old EXCEPT !.rev = rev]},
           Elsewhere(s, s2, "panes"), e = [type |-> "PaneRevised", id |-> old.id, rev |-> rev]
    PROVE  Reports(s, e, s2, l, h)
<1> DEFINE new == [old EXCEPT !.rev = rev]
<1>1. Good("panes", old, h)
    BY DEF Lawful, Kinds, Recs, Ordered
<1>2. /\ Good("panes", new, h) /\ new.id = old.id
      /\ new.rev = rev /\ \A f \in Fields("panes") \ {"rev"} : new[f] = old[f]
    BY <1>1 DEF Good, Fields, Ordered
<1>3. new.agent = old.agent
    BY <1>2 DEF Fields, Ordered
<1> HIDE DEF new
<1>4. /\ Puts(e, "panes") = {} /\ Mentions(e) = {old.id}
      /\ \A id, f : Written(e, "panes", id, f, h) = IF id = old.id /\ f = "rev" THEN {rev} ELSE {}
    BY DEF Puts, Mentions, Written
<1>5. Becomes(e, "panes", old, new, h)
  <2>1. \A f \in Fields("panes") : Written(e, "panes", old.id, f, h)
                                     = IF f \in {"rev"} THEN {new[f]} ELSE {}
      BY <1>2, <1>4
  <2> QED
      BY <1>2, <2>1, BecomesPane
<1>6. s2.panes = (s.panes \ {old}) \cup {new}
    BY DEF new
<1>7. Hires(s, e, s2, h)
    BY <1>2, <1>3, <1>6, SwapHires
<1>8. \A Y \in Kinds \ {"panes"} : Puts(e, Y) = {}
    BY DEF Kinds, Puts, EventTabs
<1>9. old.id \in DOMAIN h.pane
    BY <1>1 DEF Good
<1>10. Genuine(e, h)
    BY <1>4, <1>8, <1>9 DEF Genuine, EventTypes
<1> QED
    BY <1>4, <1>5, <1>6, <1>7, <1>10, SwapReports

\* A pane with one field rewritten.
PaneShaped(p) ==
    p = [id |-> p.id, tab |-> p.tab, ws |-> p.ws, focused |-> p.focused,
         agent |-> p.agent, display |-> p.display, status |-> p.status, rev |-> p.rev]

\* A pane with another agent has its other fields.
LEMMA PaneAgent ==
    ASSUME NEW p, NEW x, PaneShaped(p), NEW q, q = [p EXCEPT !.agent = x]
    PROVE  /\ PaneShaped(q) /\ q.agent = x
           /\ q.id = p.id /\ q.tab = p.tab /\ q.ws = p.ws /\ q.focused = p.focused
           /\ q.display = p.display /\ q.status = p.status /\ q.rev = p.rev
    BY DEF PaneShaped

\* A pane with another display name has its other fields.
LEMMA PaneDisplay ==
    ASSUME NEW p, NEW x, PaneShaped(p), NEW q, q = [p EXCEPT !.display = x]
    PROVE  /\ PaneShaped(q) /\ q.display = x
           /\ q.id = p.id /\ q.tab = p.tab /\ q.ws = p.ws /\ q.focused = p.focused
           /\ q.agent = p.agent /\ q.status = p.status /\ q.rev = p.rev
    BY DEF PaneShaped

\* A pane with another agent status has its other fields.
LEMMA PaneStatus ==
    ASSUME NEW p, NEW x, PaneShaped(p), NEW q, q = [p EXCEPT !.status = x]
    PROVE  /\ PaneShaped(q) /\ q.status = x
           /\ q.id = p.id /\ q.tab = p.tab /\ q.ws = p.ws /\ q.focused = p.focused
           /\ q.agent = p.agent /\ q.display = p.display /\ q.rev = p.rev
    BY DEF PaneShaped

\* The pane when its agent is released.
ReleasedAs(p) == [p EXCEPT !.agent = Absent, !.display = Absent, !.status = "unknown"]
\* The pane when its agent reports a status and a display name.
ShownAs(p, status, shown) == [p EXCEPT !.status = status, !.display = shown]

\* A pane whose agent is released has its other fields.
LEMMA PaneReleased ==
    ASSUME NEW p, PaneShaped(p), NEW q, q = ReleasedAs(p)
    PROVE  /\ PaneShaped(q) /\ q.agent = Absent /\ q.display = Absent /\ q.status = "unknown"
           /\ q.id = p.id /\ q.tab = p.tab /\ q.ws = p.ws /\ q.focused = p.focused
           /\ q.rev = p.rev
<1>1. PICK a : a = [p EXCEPT !.agent = Absent]
    OBVIOUS
<1>2. PICK b : b = [a EXCEPT !.display = Absent]
    OBVIOUS
<1>3. q = [b EXCEPT !.status = "unknown"]
    BY <1>1, <1>2 DEF ReleasedAs
<1>4. /\ PaneShaped(a) /\ a.agent = Absent
      /\ a.id = p.id /\ a.tab = p.tab /\ a.ws = p.ws /\ a.focused = p.focused
      /\ a.rev = p.rev
    BY ONLY <1>1, PaneShaped(p), PaneAgent
<1>5. /\ PaneShaped(b) /\ b.agent = Absent /\ b.display = Absent
      /\ b.id = p.id /\ b.tab = p.tab /\ b.ws = p.ws /\ b.focused = p.focused
      /\ b.rev = p.rev
    BY ONLY <1>2, <1>4, PaneDisplay
<1> QED
    BY ONLY <1>3, <1>5, PaneStatus

\* A pane whose agent reports has its other fields.
LEMMA PaneShown ==
    ASSUME NEW p, PaneShaped(p), NEW q, NEW y, NEW z,
           q = ShownAs(p, z, y)
    PROVE  /\ PaneShaped(q) /\ q.agent = p.agent /\ q.display = y /\ q.status = z
           /\ q.id = p.id /\ q.tab = p.tab /\ q.ws = p.ws /\ q.focused = p.focused
           /\ q.rev = p.rev
<1>1. PICK a : a = [p EXCEPT !.status = z]
    OBVIOUS
<1>2. q = [a EXCEPT !.display = y]
    BY <1>1 DEF ShownAs
<1>3. /\ PaneShaped(a) /\ a.status = z /\ a.agent = p.agent
      /\ a.id = p.id /\ a.tab = p.tab /\ a.ws = p.ws /\ a.focused = p.focused
      /\ a.rev = p.rev
    BY ONLY <1>1, PaneShaped(p), PaneStatus
<1> QED
    BY ONLY <1>2, <1>3, PaneDisplay

\* pane.agent_detected reports the agent.
LEMMA DetectedReports ==
    ASSUME NEW s, NEW e, NEW s2, NEW l, NEW h, NEW old, NEW agent, Lawful(s, h),
           old \in s.panes, s2.panes = (s.panes \ {old}) \cup {[old EXCEPT !.agent = agent]},
           Elsewhere(s, s2, "panes"), agent # Absent,
           e = [type |-> "PaneAgentDetected", id |-> old.id, agent |-> agent,
                released |-> FALSE, finalStatus |-> Absent]
    PROVE  Reports(s, e, s2, l, h)
<1> DEFINE new == [old EXCEPT !.agent = agent]
<1>1. Good("panes", old, h)
    BY DEF Lawful, Kinds, Recs, Ordered
<1>2. /\ Good("panes", new, h) /\ new.id = old.id
      /\ new.agent = agent /\ \A f \in Fields("panes") \ {"agent"} : new[f] = old[f]
    BY <1>1 DEF Good, Fields, Ordered
<1> HIDE DEF new
<1>4. /\ Puts(e, "panes") = {} /\ Mentions(e) = {old.id}
      /\ \A id, f : Written(e, "panes", id, f, h) = IF id = old.id /\ f = "agent" THEN {agent} ELSE {}
    BY DEF Puts, Mentions, Written
<1>5. Becomes(e, "panes", old, new, h)
  <2>1. \A f \in Fields("panes") : Written(e, "panes", old.id, f, h)
                                     = IF f \in {"agent"} THEN {new[f]} ELSE {}
      BY <1>2, <1>4
  <2> QED
      BY <1>2, <2>1, BecomesPane
<1>6. s2.panes = (s.panes \ {old}) \cup {new}
    BY DEF new
<1>7. Hires(s, e, s2, h)
  <2>1. /\ \A id : Joins(e, id) <=> id = old.id
        /\ \A id : ~Frees(e, id) /\ ~Carries(e, id)
      BY DEF Joins, Frees, Carries
  <2>2. /\ \A id : id # old.id => (Running(s2, id) <=> Running(s, id))
        /\ Running(s2, old.id) <=> new.agent # Absent
        /\ Running(s, old.id) <=> old.agent # Absent
    <3>1. new.id = old.id
        BY <1>2
    <3> QED
        BY ONLY <1>6, <3>1, Lawful(s, h), old \in s.panes, SwapRunning
  <2>3. Running(s2, old.id) /\ e.type # "PaneMoved"
      BY <1>2, <2>2
  <2>4. \A id : Running(s2, id) /\ ~Running(s, id) => Joins(e, id)
      BY <2>1, <2>2
  <2>5. \A id : Running(s, id) => Running(s2, id)
      BY <2>2, <2>3
  <2> QED
      BY ONLY <2>1, <2>3, <2>4, <2>5 DEF Hires, Arrives
<1>8. \A Y \in Kinds \ {"panes"} : Puts(e, Y) = {}
    BY DEF Kinds, Puts, EventTabs
<1>9. old.id \in DOMAIN h.pane
    BY <1>1 DEF Good
<1>10. Genuine(e, h)
    BY <1>4, <1>8, <1>9 DEF Genuine, EventTypes
<1> QED
    BY <1>4, <1>5, <1>6, <1>7, <1>10, SwapReports

\* pane.agent_detected with released reports that the agent is gone, and the fields
\* apply clears.
LEMMA ReleasedReports ==
    ASSUME NEW s, NEW e, NEW s2, NEW l, NEW h, NEW old, Lawful(s, h),
           old \in s.panes,
           s2.panes = (s.panes \ {old}) \cup {[old EXCEPT !.agent = Absent,
                                                 !.display = Absent, !.status = "unknown"]},
           Elsewhere(s, s2, "panes"),
           e = [type |-> "PaneAgentDetected", id |-> old.id, agent |-> Absent,
                released |-> TRUE, finalStatus |-> "unknown"]
    PROVE  Reports(s, e, s2, l, h)
<1>0. PICK new : new = ReleasedAs(old)
    OBVIOUS
<1>1. Good("panes", old, h)
    BY DEF Lawful, Kinds, Recs, Ordered
<1>2. /\ Good("panes", new, h) /\ new.id = old.id
      /\ new.agent = Absent /\ new.display = Absent /\ new.status = "unknown"
      /\ \A f \in Fields("panes") \ {"agent", "display", "status"} : new[f] = old[f]
  <2>1. PaneShaped(old)
      BY <1>1 DEF Good, PaneShaped
  <2>2. /\ PaneShaped(new)
        /\ new.id = old.id /\ new.tab = old.tab /\ new.ws = old.ws
        /\ new.focused = old.focused /\ new.rev = old.rev
        /\ new.agent = Absent /\ new.display = Absent /\ new.status = "unknown"
      BY ONLY <1>0, <2>1, PaneReleased
  <2>3. Good("panes", new, h)
      BY <1>1, <2>2 DEF Good, PaneShaped
  <2>4. Fields("panes") = {"focused", "agent", "display", "status", "rev"}
      BY DEF Fields, Ordered
  <2> QED
      BY <2>2, <2>3, <2>4
<1>4. /\ Puts(e, "panes") = {} /\ Mentions(e) = {old.id}
      /\ \A id, f : id # old.id => Written(e, "panes", id, f, h) = {}
      /\ Written(e, "panes", old.id, "agent", h) = {Absent}
      /\ Written(e, "panes", old.id, "display", h) = {Absent}
      /\ Written(e, "panes", old.id, "status", h) = {"unknown"}
      /\ \A f : f \notin {"agent", "display", "status"}
                   => Written(e, "panes", old.id, f, h) = {}
    BY DEF Puts, Mentions, Written
<1>5. Becomes(e, "panes", old, new, h)
  <2>1. \A f \in Fields("panes") : Written(e, "panes", old.id, f, h)
                       = IF f \in {"agent", "display", "status"} THEN {new[f]} ELSE {}
      BY <1>2, <1>4
  <2> QED
      BY <1>2, <2>1, BecomesPane
<1>6. s2.panes = (s.panes \ {old}) \cup {new}
    BY <1>0 DEF ReleasedAs
<1>7. Hires(s, e, s2, h)
  <2>1. /\ \A id : Frees(e, id) <=> id = old.id
        /\ \A id : ~Joins(e, id) /\ ~Carries(e, id)
      BY DEF Joins, Frees, Carries
  <2>2. /\ \A id : id # old.id => (Running(s2, id) <=> Running(s, id))
        /\ Running(s2, old.id) <=> new.agent # Absent
        /\ Running(s, old.id) <=> old.agent # Absent
    <3>1. new.id = old.id
        BY <1>2
    <3> QED
        BY ONLY <1>6, <3>1, Lawful(s, h), old \in s.panes, SwapRunning
  <2>3. ~Running(s2, old.id) /\ e.type # "PaneMoved"
      BY <1>2, <2>2
  <2>4. \A id : Running(s, id) /\ ~Running(s2, id) => Frees(e, id)
      BY <2>1, <2>2
  <2>5. \A id : Running(s2, id) => Running(s, id)
      BY <2>2, <2>3
  <2> QED
      BY ONLY <2>1, <2>3, <2>4, <2>5 DEF Hires, Arrives, Leaves
<1>8. \A Y \in Kinds \ {"panes"} : Puts(e, Y) = {}
    BY DEF Kinds, Puts, EventTabs
<1>9. old.id \in DOMAIN h.pane
    BY <1>1 DEF Good
<1>10. Genuine(e, h)
    BY <1>4, <1>8, <1>9 DEF Genuine, EventTypes
<1> QED
    BY <1>4, <1>5, <1>6, <1>7, <1>10, SwapReports

\* pane.agent_status_changed reports the status and the display name of an agent that
\* runs.
LEMMA StatusReports ==
    ASSUME NEW s, NEW e, NEW s2, NEW l, NEW h, NEW old, NEW status, NEW shown, Lawful(s, h),
           old \in s.panes,
           s2.panes = (s.panes \ {old}) \cup {[old EXCEPT !.status = status, !.display = shown]},
           Elsewhere(s, s2, "panes"), old.agent # Absent, shown # Absent,
           e = [type |-> "PaneAgentStatusChanged", id |-> old.id, status |-> status,
                agent |-> old.agent, display |-> shown]
    PROVE  Reports(s, e, s2, l, h)
<1>0. PICK new : new = ShownAs(old, status, shown)
    OBVIOUS
<1>1. Good("panes", old, h)
    BY DEF Lawful, Kinds, Recs, Ordered
<1>2. /\ Good("panes", new, h) /\ new.id = old.id
      /\ new.agent = old.agent /\ new.display = shown /\ new.status = status
      /\ \A f \in Fields("panes") \ {"agent", "display", "status"} : new[f] = old[f]
  <2>1. PaneShaped(old)
      BY <1>1 DEF Good, PaneShaped
  <2>2. /\ PaneShaped(new)
        /\ new.id = old.id /\ new.tab = old.tab /\ new.ws = old.ws
        /\ new.focused = old.focused /\ new.rev = old.rev
        /\ new.agent = old.agent /\ new.display = shown /\ new.status = status
      BY ONLY <1>0, <2>1, PaneShown
  <2>3. Good("panes", new, h)
      BY <1>1, <2>2 DEF Good, PaneShaped
  <2>4. Fields("panes") = {"focused", "agent", "display", "status", "rev"}
      BY DEF Fields, Ordered
  <2> QED
      BY <2>2, <2>3, <2>4
<1>4. /\ Puts(e, "panes") = {} /\ Mentions(e) = {old.id}
      /\ \A id, f : id # old.id => Written(e, "panes", id, f, h) = {}
      /\ Written(e, "panes", old.id, "agent", h) = {old.agent}
      /\ Written(e, "panes", old.id, "display", h) = {shown}
      /\ Written(e, "panes", old.id, "status", h) = {status}
      /\ \A f : f \notin {"agent", "display", "status"}
                   => Written(e, "panes", old.id, f, h) = {}
    BY DEF Puts, Mentions, Written
<1>5. Becomes(e, "panes", old, new, h)
  <2>1. \A f \in Fields("panes") : Written(e, "panes", old.id, f, h)
                       = IF f \in {"agent", "display", "status"} THEN {new[f]} ELSE {}
      BY <1>2, <1>4
  <2> QED
      BY <1>2, <2>1, BecomesPane
<1>6. s2.panes = (s.panes \ {old}) \cup {new}
    BY <1>0 DEF ShownAs
<1>7. Hires(s, e, s2, h)
    BY <1>2, <1>6, SwapHires
<1>8. \A Y \in Kinds \ {"panes"} : Puts(e, Y) = {}
    BY DEF Kinds, Puts, EventTabs
<1>9. old.id \in DOMAIN h.pane
    BY <1>1 DEF Good
<1>10. Genuine(e, h)
    BY <1>4, <1>8, <1>9 DEF Genuine, EventTypes
<1> QED
    BY <1>4, <1>5, <1>6, <1>7, <1>10, SwapReports

\* layout.updated reports the layout whole.
LEMMA LayoutReports ==
    ASSUME NEW s, NEW e, NEW s2, NEW l, NEW h, NEW layout, Lawful(s, h),
           e = [type |-> "LayoutUpdated", layout |-> layout], Good("layouts", layout, h),
           s2.layouts = {x \in s.layouts : x.tab # layout.tab} \cup {layout},
           Elsewhere(s, s2, "layouts")
    PROVE  Reports(s, e, s2, l, h)
<1> DEFINE X == "layouts"
<1>1. LawfulIn(X, s, h) /\ Recs(s, X) = s.layouts /\ Recs(s2, X) = s2.layouts
      /\ (\A p : Key(X, p) = p.tab) /\ X \in Kinds /\ X \notin Ordered
    BY LawfulParts DEF Kinds, Recs, Ordered, Key
<1>2. Puts(e, X) = {layout} /\ Only(e, X, h)
    BY DEF Puts, Only, Reorders, Written, Closes
<1>3. \A Y \in Kinds \ {X} : e.type \notin Tells(Y) /\ Puts(e, Y) = {}
    BY DEF Kinds, Tells, Puts, EventTabs
<1>4. Genuine(e, h)
    BY <1>2, <1>3 DEF Genuine, EventTypes, Mentions
<1>5. Does(X, s, e, s2, l, h)
  <2>1. CASE Alive(s, X, layout.tab)
    <3>1. PICK old \in s.layouts : old.tab = layout.tab
        BY <1>1, <2>1 DEF Alive
    <3>2. \A x \in s.layouts : x.tab = layout.tab => x = old
        BY <1>1, <3>1 DEF LawfulIn
    <3>3. Recs(s2, X) = (Recs(s, X) \ {old}) \cup {layout}
        BY <1>1, <3>1, <3>2
    <3>4. /\ \A id, f : Written(e, X, id, f, h) = IF id = layout.tab THEN {layout[f]} ELSE {}
          /\ \A id : ~Closes(e, X, id, h)
      <4>1. /\ \A id : ~Closes(e, X, id, h)
            /\ \A id, f : Written(e, X, id, f, h) = {r[f] : r \in {q \in Puts(e, X) : Key(X, q) = id}}
          BY <1>2 DEF Only
      <4>2. \A id : {q \in Puts(e, X) : Key(X, q) = id}
                       = IF id = layout.tab THEN {layout} ELSE {}
          BY <1>1, <1>2
      <4>3. ASSUME NEW id, NEW f
            PROVE  Written(e, X, id, f, h) = IF id = layout.tab THEN {layout[f]} ELSE {}
        <5>1. PICK B : B = {q \in Puts(e, X) : Key(X, q) = id}
            OBVIOUS
        <5>2. Written(e, X, id, f, h) = {r[f] : r \in B}
            BY <4>1, <5>1
        <5>3. B = IF id = layout.tab THEN {layout} ELSE {}
            BY <4>2, <5>1
        <5>4. CASE id = layout.tab
            BY ONLY <5>2, <5>3, <5>4
        <5>5. CASE id # layout.tab
            BY ONLY <5>2, <5>3, <5>5
        <5> QED
            BY <5>4, <5>5
      <4> QED
          BY <4>1, <4>3
    <3>5. Becomes(e, X, old, layout, h)
      <4>1. \A f : Written(e, X, Key(X, old), f, h) = {layout[f]}
          BY <1>1, <3>1, <3>4
      <4> QED
          BY <1>1, <3>1, <4>1 DEF Becomes
    <3>6. old \in Recs(s, X) /\ X \in Kinds \ Ordered /\ Puts(e, X) \subseteq {layout}
        BY <1>1, <1>2, <3>1
    <3>7. \A id, f : id # Key(X, layout) => Written(e, X, id, f, h) = {}
        BY <1>1, <3>4
    <3> QED
        BY <1>1, <3>3, <3>4, <3>5, <3>6, <3>7, SwapDoes
  <2>2. CASE ~Alive(s, X, layout.tab)
    <3>1. \A x \in s.layouts : x.tab # layout.tab
        BY <1>1, <2>2 DEF Alive
    <3>2. Grows(X, s, e, s2, layout)
        BY <1>1, <1>2, <2>2, <3>1 DEF Grows
    <3> QED
        BY <1>1, <1>2, <3>2, AddDoes
  <2> QED
      BY <2>1, <2>2
<1> QED
    BY <1>1, <1>3, <1>4, <1>5, OffPanes

\* A set of records, each as it is after an event.
MapsSet(X, s, e, s2, h) ==
    /\ \A r \in s[X] : \E q \in s2[X] : Becomes(e, X, r, q, h)
    /\ \A q \in s2[X] : \E r \in s[X] : Becomes(e, X, r, q, h)

\* Panes or layouts each rewritten as the event says.
LEMMA MapSetDoes ==
    ASSUME NEW X \in Kinds \ Ordered, NEW s, NEW e, NEW s2, NEW l, NEW h, LawfulIn(X, s, h),
           MapsSet(X, s, e, s2, h), \A q, q2 \in s2[X] : Key(X, q) = Key(X, q2) => q = q2,
           Puts(e, X) = {}, \A id : ~Closes(e, X, id, h)
    PROVE  Does(X, s, e, s2, l, h)
<1>1. Recs(s, X) = s[X] /\ Recs(s2, X) = s2[X]
    BY DEF Recs
<1>2. LawfulIn(X, s2, h)
    BY <1>1 DEF LawfulIn, MapsSet, Becomes
<1>3. \A id : Alive(s2, X, id) <=> Alive(s, X, id)
    BY <1>1 DEF Alive, MapsSet, Becomes
<1>4. \A g : ~Reorders(e, X, g)
    BY DEF Reorders, Ordered
<1>5. ASSUME NEW q \in s2[X]
      PROVE  \E r \in s[X] : /\ Becomes(e, X, r, q, h)
                             /\ \A x \in s[X] : Key(X, x) = Key(X, q) => x = r
    BY <1>1 DEF MapsSet, LawfulIn, Becomes
<1>6. \A r \in Recs(s, X) : \A q \in Recs(s2, X) :
          Key(X, r) = Key(X, q) => \A f \in Fields(X) :
              Written(e, X, Key(X, q), f, h) = {} => q[f] = r[f]
    BY <1>1, <1>5 DEF Becomes
<1>7. \A q \in Recs(s2, X) : \A f \in Fields(X) :
          \A v \in Written(e, X, Key(X, q), f, h) : q[f] = v
    BY <1>1, <1>5 DEF Becomes
<1>8. Rewrites(X, s, e, s2, h)
    BY <1>3, <1>4, <1>6, <1>7 DEF Rewrites, Brings
<1> QED
    BY <1>2, <1>8, RewriteDoes

\* pane.focused reports the flag of every pane and the focused pane of its tab's
\* layout.
LEMMA PaneFocusedReports ==
    ASSUME NEW s, NEW e, NEW s2, NEW l, NEW h, NEW pane, Lawful(s, h), pane \in s.panes,
           e = [type |-> "PaneFocused", id |-> pane.id],
           s2.workspaces = s.workspaces, s2.tabs = s.tabs,
           s2.panes = {[p EXCEPT !.focused = (p.id = pane.id)] : p \in s.panes},
           s2.layouts = {IF x.tab = pane.tab THEN [x EXCEPT !.focusedPane = pane.id] ELSE x :
                         x \in s.layouts}
    PROVE  Reports(s, e, s2, l, h)
<1>1. \A X \in Kinds : LawfulIn(X, s, h)
    BY LawfulParts
<1>2. /\ Recs(s, "panes") = s.panes /\ Recs(s2, "panes") = s2.panes
      /\ \A p : Key("panes", p) = p.id
      /\ Recs(s, "layouts") = s.layouts /\ Recs(s2, "layouts") = s2.layouts
      /\ \A x : Key("layouts", x) = x.tab
      /\ "panes" \in Kinds \ Ordered /\ "layouts" \in Kinds \ Ordered
    BY DEF Kinds, Recs, Ordered, Key
<1>3. /\ \A X \in Kinds : Puts(e, X) = {} /\ \A id : ~Closes(e, X, id, h)
      /\ Mentions(e) = {pane.id}
    BY DEF Kinds, Puts, EventTabs, Closes, Mentions
<1>4. /\ \A id, f : Written(e, "panes", id, f, h)
                      = IF f = "focused" THEN {id = pane.id} ELSE {}
      /\ \A id, f : Written(e, "layouts", id, f, h)
                      = IF h.pane[pane.id] = id THEN {pane.id} ELSE {}
    BY DEF Puts, Written
<1>5. Good("panes", pane, h)
    BY <1>1, <1>2 DEF LawfulIn
<1>6. pane.id \in DOMAIN h.pane /\ h.pane[pane.id] = pane.tab
    BY <1>5 DEF Good
<1>7. ASSUME NEW p \in s.panes
      PROVE  /\ Becomes(e, "panes", p, [p EXCEPT !.focused = (p.id = pane.id)], h)
             /\ [p EXCEPT !.focused = (p.id = pane.id)].id = p.id
             /\ [p EXCEPT !.focused = (p.id = pane.id)].agent = p.agent
  <2> DEFINE q == [p EXCEPT !.focused = (p.id = pane.id)]
  <2>1. Good("panes", p, h)
      BY <1>1, <1>2 DEF LawfulIn
  <2>2. /\ Good("panes", q, h) /\ q.id = p.id
        /\ q.focused = (p.id = pane.id) /\ \A f \in Fields("panes") \ {"focused"} : q[f] = p[f]
        /\ q.agent = p.agent
      BY <2>1 DEF Good, Fields, Ordered
  <2> HIDE DEF q
  <2>3. \A f \in Fields("panes") : Written(e, "panes", p.id, f, h)
                       = IF f \in {"focused"} THEN {q[f]} ELSE {}
    <3>1. Written(e, "panes", p.id, "focused", h) = {q["focused"]}
      <4>1. q["focused"] = (p.id = pane.id)
          BY <2>2
      <4>2. Written(e, "panes", p.id, "focused", h) = {p.id = pane.id}
          BY <1>4
      <4> QED
          BY ONLY <4>1, <4>2
    <3>2. \A f : f # "focused" => Written(e, "panes", p.id, f, h) = {}
        BY <1>4
    <3> QED
        BY <3>1, <3>2
  <2>4. Becomes(e, "panes", p, q, h)
      BY <2>2, <2>3, BecomesPane
  <2> QED
      BY <2>2, <2>4 DEF q
<1>8. ASSUME NEW x \in s.layouts, NEW q,
             q = IF x.tab = pane.tab THEN [x EXCEPT !.focusedPane = pane.id] ELSE x
      PROVE  Becomes(e, "layouts", x, q, h) /\ q.tab = x.tab
  <2>1. Good("layouts", x, h)
      BY <1>1, <1>2 DEF LawfulIn
  <2>2. Good("layouts", q, h) /\ q.tab = x.tab
        /\ q.focusedPane = IF x.tab = pane.tab THEN pane.id ELSE x.focusedPane
      BY <1>8, <2>1 DEF Good
  <2>3. Fields("layouts") = {"focusedPane"}
      BY DEF Fields, Ordered
  <2>4. \A f : Written(e, "layouts", x.tab, f, h)
                 = IF x.tab = pane.tab THEN {pane.id} ELSE {}
      BY <1>4, <1>6
  <2>5. \A f \in Fields("layouts") :
          /\ Written(e, "layouts", x.tab, f, h) = {} => q[f] = x[f]
          /\ \A v \in Written(e, "layouts", x.tab, f, h) : q[f] = v
      BY <2>2, <2>3, <2>4
  <2> QED
      BY <1>2, <2>2, <2>5 DEF Becomes
<1>9. MapsSet("panes", s, e, s2, h)
    BY <1>7, ZenonT(60) DEF MapsSet
<1>10. MapsSet("layouts", s, e, s2, h)
    BY <1>8 DEF MapsSet
<1>11. Does("panes", s, e, s2, l, h)
  <2>1. \A q, q2 \in s2.panes : q.id = q2.id => q = q2
    <3> SUFFICES ASSUME NEW q \in s2.panes, NEW q2 \in s2.panes, q.id = q2.id
                 PROVE  q = q2
        OBVIOUS
    <3>1. PICK p \in s.panes : q = [p EXCEPT !.focused = (p.id = pane.id)]
        OBVIOUS
    <3>2. PICK p2 \in s.panes : q2 = [p2 EXCEPT !.focused = (p2.id = pane.id)]
        OBVIOUS
    <3>3. p.id = p2.id
        BY <1>7, <3>1, <3>2
    <3>4. p = p2
        BY <1>1, <1>2, <3>3 DEF LawfulIn
    <3> QED
        BY <3>1, <3>2, <3>4
  <2> QED
      BY <1>1, <1>2, <1>3, <1>9, <2>1, MapSetDoes
<1>12. Does("layouts", s, e, s2, l, h)
  <2>1. \A q, q2 \in s2.layouts : q.tab = q2.tab => q = q2
    <3> SUFFICES ASSUME NEW q \in s2.layouts, NEW q2 \in s2.layouts, q.tab = q2.tab
                 PROVE  q = q2
        OBVIOUS
    <3>1. PICK x \in s.layouts : q = IF x.tab = pane.tab THEN [x EXCEPT !.focusedPane = pane.id] ELSE x
        OBVIOUS
    <3>2. PICK y \in s.layouts : q2 = IF y.tab = pane.tab THEN [y EXCEPT !.focusedPane = pane.id] ELSE y
        OBVIOUS
    <3>3. x.tab = y.tab
        BY <1>8, <3>1, <3>2
    <3>4. x = y
        BY <1>1, <1>2, <3>3 DEF LawfulIn
    <3> QED
        BY <3>1, <3>2, <3>4
  <2> QED
      BY <1>1, <1>2, <1>3, <1>10, <2>1, MapSetDoes
<1>13. \A X \in Ordered : Does(X, s, e, s2, l, h)
  <2>1. \A X \in Ordered : X \in Kinds /\ e.type \notin Tells(X) /\ s2[X] = s[X]
      BY DEF Ordered, Kinds, Tells
  <2> QED
      BY <1>1, <2>1, SilentElse, StillDoes
<1>14. \A X \in Kinds : Does(X, s, e, s2, l, h)
    BY <1>11, <1>12, <1>13 DEF Kinds, Ordered
<1>15. Genuine(e, h)
    BY <1>3, <1>6 DEF Genuine, EventTypes
<1>16. \A id : Alive(s2, "panes", id) <=> Alive(s, "panes", id)
  <2>1. ASSUME NEW q \in s2.panes PROVE \E p \in s.panes : q.id = p.id
    <3>1. PICK p \in s.panes : q = [p EXCEPT !.focused = (p.id = pane.id)]
        OBVIOUS
    <3> QED
        BY <1>7, <3>1
  <2>2. \A p \in s.panes : \E q \in s2.panes : q.id = p.id
      BY <1>7
  <2> QED
      BY ONLY <1>2, <2>1, <2>2 DEF Alive
<1>17. Alive(s, "panes", pane.id)
    BY <1>2 DEF Alive
<1>18. Regards(s, e, s2, l, h)
    BY <1>3, <1>16, <1>17 DEF Regards
<1>19. \A id : Running(s2, id) <=> Running(s, id)
  <2>1. ASSUME NEW q \in s2.panes PROVE \E p \in s.panes : q.id = p.id /\ q.agent = p.agent
    <3>1. PICK p \in s.panes : q = [p EXCEPT !.focused = (p.id = pane.id)]
        OBVIOUS
    <3> QED
        BY <1>7, <3>1
  <2>2. \A p \in s.panes : \E q \in s2.panes : q.id = p.id /\ q.agent = p.agent
      BY <1>7
  <2> QED
      BY ONLY <2>1, <2>2 DEF Running
<1>20. Hires(s, e, s2, h)
    BY <1>19, PlainHires
<1> QED
    BY <1>14, <1>15, <1>18, <1>20, Assemble DEF Lawful

\* A record the event adds to an ordered kind.
Gains(X, s, e, s2, l, h, r) ==
    /\ Puts(e, X) = {r} /\ Only(e, X, h) /\ s2[X] = Append(s[X], r)
    /\ Good(X, r, h) /\ Unknown(s, l, h, X, r.id)

\* A workspace or a tab that a move makes is reported with the move.
LEMMA GainsDoes ==
    ASSUME NEW X \in Ordered, NEW s, NEW e, NEW s2, NEW l, NEW h, NEW r,
           LawfulIn(X, s, h), Gains(X, s, e, s2, l, h, r)
    PROVE  Does(X, s, e, s2, l, h)
<1>1. Key(X, r) = r.id
    BY DEF Ordered, Key
<1>2. Recs(s2, X) = Recs(s, X) \cup {r}
  <2>1. IsList(s[X])
      BY DEF LawfulIn
  <2> QED
      BY <2>1, AppendIds DEF Recs, Gains
<1>3. Grows(X, s, e, s2, r)
    BY <1>1, <1>2 DEF Grows, Unknown, Gains
<1>4. /\ Only(e, X, h) /\ Good(X, r, h)
      /\ \A i \in 1..Len(l) : ~Brings(l[i], X, Key(X, r))
      /\ \A i \in 1..Len(l) : ~Closes(l[i], X, Key(X, r), h)
    BY <1>1 DEF Gains, Unknown, Ordered
<1> QED
    BY ONLY <1>3, <1>4, LawfulIn(X, s, h), AddDoes

\* A pane gets a new id where it moves to; its tab closes if that was its last one.
Moves(s, e, s2, l, h, pane, new) ==
    /\ pane \in s.panes
    /\ e.type = "PaneMoved" /\ e.previous = pane.id /\ e.pane = new
    /\ e.closedWorkspace = Absent
    /\ Good("panes", new, h) /\ Unknown(s, l, h, "panes", new.id)
    /\ new.agent = pane.agent /\ new.focused = FALSE
    /\ new.tab # e.closedTab
    /\ s2.panes = (s.panes \ {pane}) \cup {new}
    /\ \A p \in s.panes : p.tab = e.closedTab => p = pane
    /\ e.closedTab # Absent => e.closedTab \in DOMAIN h.tab /\ e.createdTab = Absent
    /\ s2.layouts = {x \in s.layouts : e.closedTab = Absent \/ x.tab # e.closedTab}

\* pane.moved drops the old id, brings the new one and takes the agent along.
LEMMA MovesPanes ==
    ASSUME NEW s, NEW e, NEW s2, NEW l, NEW h, NEW pane, NEW new, Lawful(s, h),
           Moves(s, e, s2, l, h, pane, new)
    PROVE  /\ Does("panes", s, e, s2, l, h)
           /\ Regards(s, e, s2, l, h)
           /\ Hires(s, e, s2, h)
<1> DEFINE X == "panes"
<1>1. LawfulIn(X, s, h) /\ Recs(s, X) = s.panes /\ Recs(s2, X) = s2.panes
      /\ (\A p : Key(X, p) = p.id) /\ X \in Kinds /\ X \notin Ordered
    BY LawfulParts DEF Kinds, Recs, Ordered, Key
<1>2. /\ pane \in s.panes /\ e.type = "PaneMoved" /\ e.previous = pane.id /\ e.pane = new
      /\ new.agent = pane.agent /\ new.tab # e.closedTab
      /\ s2.panes = (s.panes \ {pane}) \cup {new}
      /\ \A p \in s.panes : p.tab = e.closedTab => p = pane
      /\ Good("panes", new, h) /\ Unknown(s, l, h, "panes", new.id)
    BY DEF Moves
<1>3. /\ Puts(e, X) = {new} /\ Mentions(e) = {pane.id, new.id}
      /\ \A g : ~Reorders(e, X, g)
      /\ \A id : Closes(e, X, id, h) <=> \/ id = pane.id
                                         \/ e.closedTab # Absent /\ h.pane[id] = e.closedTab
    BY <1>2 DEF Puts, Mentions, Reorders, Closes
<1>4. \A id : Brings(e, X, id) <=> id = new.id
    BY <1>1, <1>3 DEF Brings
<1>5. \A id : Drops(e, X, id, h) <=> Closes(e, X, id, h)
    BY <1>3 DEF Drops
<1>6. /\ \A p, q \in s.panes : p.id = q.id => p = q
      /\ \A p \in s.panes : Good("panes", p, h)
      /\ \A p \in s.panes : p.id # new.id
    BY <1>1, <1>2 DEF LawfulIn, Unknown, Alive
<1>7. /\ \A p \in s.panes : h.pane[p.id] = p.tab
      /\ h.pane[new.id] = new.tab
    BY <1>2, <1>6 DEF Good
<1>8. \A id : Alive(s2, X, id) <=> (Alive(s, X, id) /\ id # pane.id) \/ id = new.id
    BY <1>1, <1>2, <1>6 DEF Alive
<1>9. LawfulIn(X, s2, h)
    BY <1>1, <1>2, <1>6 DEF LawfulIn
<1>10. \A id : Alive(s, X, id) /\ id # pane.id => ~Closes(e, X, id, h)
  <2> SUFFICES ASSUME NEW p \in s.panes, p.id # pane.id PROVE ~Closes(e, X, p.id, h)
      BY <1>1 DEF Alive
  <2> QED
      BY <1>2, <1>3, <1>7
<1>11. pane.id # new.id /\ ~Closes(e, X, new.id, h) /\ Closes(e, X, pane.id, h)
    BY <1>2, <1>3, <1>6, <1>7
<1>12. \A id : /\ Alive(s2, X, id) /\ ~Alive(s, X, id) => Brings(e, X, id)
               /\ Alive(s, X, id) /\ ~Alive(s2, X, id) => Drops(e, X, id, h)
               /\ Brings(e, X, id) => Alive(s2, X, id)
               /\ Drops(e, X, id, h) => ~Alive(s2, X, id)
    BY <1>4, <1>5, <1>8, <1>10, <1>11
<1>13. \A id, f : Written(e, X, id, f, h) = IF id = new.id THEN {new[f]} ELSE {}
  <2> TAKE id, f
  <2>1. Written(e, X, id, f, h) = {r[f] : r \in {q \in {new} : q.id = id}}
      BY <1>1, <1>2, <1>3 DEF Written
  <2>2. CASE id = new.id
    <3>1. {q \in {new} : q.id = id} = {new}
        BY <2>2
    <3> QED
        BY <2>1, <2>2, <3>1
  <2>3. CASE id # new.id
    <3>1. {q \in {new} : q.id = id} = {}
        BY <2>3
    <3> QED
        BY <2>1, <2>3, <3>1
  <2> QED
      BY <2>2, <2>3
<1>14. \A r \in s.panes : \A q \in s2.panes : r.id = q.id => q = r
    BY <1>2, <1>6
<1>15. \A q \in s2.panes : \A f : \A v \in Written(e, X, q.id, f, h) : q[f] = v
    BY <1>2, <1>6, <1>13
<1>16. LeadsIn(X, s, e, s2, h)
  <2>1. \A r \in Recs(s, X) : \A q \in Recs(s2, X) : Key(X, r) = Key(X, q) => q = r
      BY <1>1, <1>14
  <2>2. \A q \in Recs(s2, X) : \A f : \A v \in Written(e, X, Key(X, q), f, h) : q[f] = v
      BY <1>1, <1>15
  <2> QED
      BY ONLY <1>12, <2>1, <2>2 DEF LeadsIn
<1>17. BornIn(X, s, s2, l, h)
    BY <1>2, <1>8 DEF BornIn, Unknown
<1>18. Does(X, s, e, s2, l, h)
    BY <1>1, <1>9, <1>16, <1>17 DEF Does
<1>19. Alive(s, X, pane.id) /\ Alive(s2, X, new.id) /\ ~Alive(s, X, new.id)
    BY <1>1, <1>2, <1>8 DEF Alive, Unknown
<1>20. Regards(s, e, s2, l, h)
    BY <1>2, <1>3, <1>8, <1>19 DEF Regards, Unknown
<1>21. /\ \A id : Running(s2, id) <=> \/ Running(s, id) /\ id # pane.id
                                      \/ id = new.id /\ new.agent # Absent
       /\ Running(s, pane.id) <=> pane.agent # Absent
       /\ ~Running(s, new.id)
    BY <1>2, <1>6 DEF Running
<1>22. /\ \A id : ~Joins(e, id) /\ ~Frees(e, id)
       /\ \A id : Carries(e, id) <=> id = new.id /\ new.agent # Absent
    BY <1>2 DEF Joins, Frees, Carries
<1>23. Hires(s, e, s2, h)
    BY <1>2, <1>11, <1>19, <1>21, <1>22 DEF Hires, Arrives, Leaves
<1> QED
    BY <1>18, <1>20, <1>23

\* pane.moved reports the pane, and the containers it makes and closes.
LEMMA PaneMovedReports ==
    ASSUME NEW s, NEW e, NEW s2, NEW l, NEW h, NEW pane, NEW new, Lawful(s, h),
           Moves(s, e, s2, l, h, pane, new),
           Does("workspaces", s, e, s2, l, h), Does("tabs", s, e, s2, l, h),
           \A r \in Puts(e, "workspaces") : Good("workspaces", r, h),
           \A r \in Puts(e, "tabs") : Good("tabs", r, h)
    PROVE  Reports(s, e, s2, l, h)
<1>1. Does("panes", s, e, s2, l, h) /\ Regards(s, e, s2, l, h) /\ Hires(s, e, s2, h)
    BY MovesPanes
<1>2. LawfulIn("layouts", s, h)
    BY LawfulParts DEF Kinds
<1>3. /\ Puts(e, "layouts") = {} /\ \A g : ~Reorders(e, "layouts", g)
      /\ \A id, f : Written(e, "layouts", id, f, h) = {}
      /\ \A id : Closes(e, "layouts", id, h) <=> e.closedTab # Absent /\ e.closedTab = id
    BY DEF Moves, Puts, Reorders, Written, Closes
<1>4. Recs(s2, "layouts") = {r \in Recs(s, "layouts") : ~Closes(e, "layouts", Key("layouts", r), h)}
    BY <1>3 DEF Moves, Recs, Ordered, Key
<1>5. Does("layouts", s, e, s2, l, h)
    BY <1>2, <1>3, <1>4, RemoveDoes DEF Removes, Ordered
<1>6. \A X \in Kinds : Does(X, s, e, s2, l, h)
    BY <1>1, <1>5 DEF Kinds
<1>7. pane.id \in DOMAIN h.pane /\ new.id \in DOMAIN h.pane /\ new.id # pane.id
  <2>1. LawfulIn("panes", s, h) /\ Recs(s, "panes") = s.panes
        /\ (\A p : Key("panes", p) = p.id)
      BY LawfulParts DEF Kinds, Recs, Ordered, Key
  <2>2. Good("panes", pane, h) /\ Good("panes", new, h)
      BY <2>1 DEF Moves, LawfulIn
  <2>3. Alive(s, "panes", pane.id) /\ ~Alive(s, "panes", new.id)
      BY <2>1 DEF Moves, Alive, Unknown
  <2> QED
      BY <2>2, <2>3 DEF Good
<1>8. \A X \in Kinds : \A r \in Puts(e, X) : Good(X, r, h)
  <2>1. \A r \in Puts(e, "panes") : Good("panes", r, h)
      BY DEF Puts, Moves
  <2> QED
      BY <1>3, <2>1 DEF Kinds
<1>9. Mentions(e) = {pane.id, new.id} /\ e.type = "PaneMoved"
    BY DEF Moves, Mentions
<1>10. Genuine(e, h)
    BY <1>7, <1>8, <1>9 DEF Genuine, EventTypes, Moves
<1> QED
    BY <1>1, <1>6, <1>10, Assemble DEF Lawful

\* The ids to come are new, and none of what they make is Absent.
Unused(fresh, ids) == IsList(fresh) /\ Distinct(fresh) /\ Ids(fresh) \cap ids = {}
\* The workspace workspace.create makes.
NewWorkspace(w) == [id |-> w, label |-> "new", focused |-> FALSE]
\* The tab tab.create makes.
NewTab(t, w) == [id |-> t, ws |-> w, label |-> "new", focused |-> FALSE]
\* The ids the server will give out are new, and none of what it makes of them is
\* Absent.
Ready(s, h) ==
    /\ DOMAIN s = {"workspaces", "tabs", "panes", "names", "layouts",
                   "freshW", "freshT", "freshP"}
    /\ Unused(s.freshW, h.ws) /\ Unused(s.freshT, DOMAIN h.tab)
    /\ Unused(s.freshP, DOMAIN h.pane)
    /\ Absent \notin DOMAIN h.tab \cup Ids(s.freshT)
    /\ \A w \in Ids(s.freshW) :
          /\ NewWorkspace(w) # Absent
          /\ \A t \in Ids(s.freshT) : NewTab(t, w) # Absent

\* The log tells the server's state, with no layout still to be reported.
Standing(s, l, h) == Ready(s, h) /\ Past(s, l, h, {})
\* An operation leaves a log that tells the state, and what a mirror lacks behind.
Onward(s, l, h, s2, l2) == \E h2 : Standing(s2, l2, h2) /\ Lasts(s, l, h, s2, l2, h2)

\* What stays behind over two events stays behind.
LEMMA LastsTwice ==
    ASSUME NEW s, NEW l, NEW h, NEW s1, NEW l1, NEW h1, NEW s2, NEW l2, NEW h2,
           Lasts(s, l, h, s1, l1, h1), Lasts(s1, l1, h1, s2, l2, h2)
    PROVE  Lasts(s, l, h, s2, l2, h2)
    BY DEF Lasts

\* The server gives out an id that is new, once.
LEMMA TakeFresh ==
    ASSUME NEW q, NEW ids, Unused(q, ids), q # <<>>
    PROVE  /\ Head(q) \in Ids(q) /\ Head(q) \notin ids
           /\ Unused(Tail(q), ids \cup {Head(q)}) /\ Ids(Tail(q)) \subseteq Ids(q)
<1>1. q \in Seq(Ids(q)) /\ Len(q) \in Nat /\ Len(q) > 0
    BY DEF Unused, IsList
<1>2. /\ Tail(q) \in Seq(Ids(q)) /\ Len(Tail(q)) = Len(q) - 1 /\ Head(q) = q[1]
      /\ \A i \in 1..(Len(q) - 1) : Tail(q)[i] = q[i + 1]
    BY <1>1
<1>3. IsList(Tail(q))
    BY <1>2, SeqIsList
<1>4. Ids(Tail(q)) \subseteq Ids(q)
    BY <1>1, <1>2 DEF Ids
<1>5. Head(q) \in Ids(q)
    BY <1>1, <1>2 DEF Ids
<1>6. \A i, j \in 1..Len(q) : q[i] = q[j] => i = j
    BY DEF Unused, Distinct
<1>7. Distinct(Tail(q)) /\ Head(q) \notin Ids(Tail(q))
    BY <1>1, <1>2, <1>6 DEF Distinct, Ids
<1> QED
    BY <1>3, <1>4, <1>5, <1>7 DEF Unused

\* The log and one more event.
LEMMA Longer ==
    ASSUME NEW l, NEW e, IsList(l)
    PROVE  l \o <<e>> = Append(l, e) /\ IsList(Append(l, e))
<1> DEFINE D == Ids(l) \cup {e}
<1>1. l \in Seq(D) /\ e \in D
  <2>1. l \in Seq(Ids(l)) /\ Ids(l) \subseteq D
      BY DEF IsList
  <2> QED
      BY <2>1, Narrow
<1> HIDE DEF D
<1>2. l \o <<e>> = Append(l, e)
    BY <1>1
<1> QED
    BY <1>2, AppendList

\* Two events pushed at once are two events pushed.
LEMMA LongerTwice ==
    ASSUME NEW l, NEW a, NEW b, IsList(l)
    PROVE  l \o <<a, b>> = Append(Append(l, a), b)
<1> DEFINE D == Ids(l) \cup {a, b}
<1>1. l \in Seq(D) /\ a \in D /\ b \in D
  <2>1. l \in Seq(Ids(l)) /\ Ids(l) \subseteq D
      BY DEF IsList
  <2> QED
      BY <2>1, Narrow
<1> HIDE DEF D
<1> QED
    BY <1>1

\* Three events pushed at once are three events pushed.
LEMMA LongerThrice ==
    ASSUME NEW l, NEW a, NEW b, NEW c, IsList(l)
    PROVE  l \o <<a, b, c>> = Append(Append(Append(l, a), b), c)
<1> DEFINE D == Ids(l) \cup {a, b, c}
<1>1. l \in Seq(D) /\ a \in D /\ b \in D /\ c \in D
  <2>1. l \in Seq(Ids(l)) /\ Ids(l) \subseteq D
      BY DEF IsList
  <2> QED
      BY <2>1, Narrow
<1> HIDE DEF D
<1> QED
    BY <1>1

\* The log of a state that stands is a list, and its records are lawful.
LEMMA StandingLog ==
    ASSUME NEW s, NEW l, NEW h, Standing(s, l, h)
    PROVE  IsList(l) /\ Lawful(s, h) /\ Homes(h) /\ Past(s, l, h, {})
    BY DEF Standing, Past, AllGenuine, Lawful

\* An operation of one event that makes no id.
LEMMA OneEvent ==
    ASSUME NEW s, NEW l, NEW h, NEW s2, NEW e, Standing(s, l, h), Ready(s2, h),
           Reports(s, e, s2, l, h), Pending(s, e, s2, h, {}, {})
    PROVE  Onward(s, l, h, s2, l \o <<e>>)
<1>1. Past(s2, Append(l, e), h, {}) /\ Lasts(s, l, h, s2, Append(l, e), h)
    BY StandingLog, OneReport
<1>2. l \o <<e>> = Append(l, e)
    BY StandingLog, Longer
<1> QED
    BY <1>1, <1>2 DEF Onward, Standing

\* An operation on an extended history.
LEMMA OnwardExtended ==
    ASSUME NEW s, NEW l, NEW h, NEW h2, NEW s2, NEW l2,
           Standing(s, l, h), Extends(h, h2), Homes(h2),
           Past(s2, l2, h2, {}), Lasts(s, l, h2, s2, l2, h2), Ready(s2, h2)
    PROVE  Onward(s, l, h, s2, l2)
<1>1. Lasts(s, l, h, s, l, h2)
    BY StandingLog, ExtendAwaits
<1>2. Lasts(s, l, h, s2, l2, h2)
    BY <1>1, LastsTwice
<1> QED
    BY <1>2 DEF Onward, Standing

\* An event that takes no pane away leaves no layout to be reported.
LEMMA SamePending ==
    ASSUME NEW s, NEW e, NEW s2, NEW h, NEW P,
           \A id : Alive(s, "panes", id) => Alive(s2, "panes", id)
    PROVE  Pending(s, e, s2, h, P, P)
    BY DEF Pending

\* An operation that makes no id leaves those to come.
LEMMA SameReady ==
    ASSUME NEW s, NEW s2, NEW h, Ready(s, h), DOMAIN s2 = DOMAIN s,
           s2.freshW = s.freshW, s2.freshT = s.freshT, s2.freshP = s.freshP
    PROVE  Ready(s2, h)
    BY DEF Ready

\* A new id is one the log knows nothing of, in every kind.
LEMMA UnheardUnknown ==
    ASSUME NEW s, NEW l, NEW h, NEW h2, Standing(s, l, h),
           Extends(h, h2), Homes(h2), Opens(s, h, h2)
    PROVE  \A X \in Kinds : \A id \in Made(X, h2) \ Made(X, h) : Unknown(s, l, h2, X, id)
<1>1. Unheard(s, l, h, h2)
    BY StandingLog, NewUnheard
<1>2. Made("panes", h2) = DOMAIN h2.pane /\ Made("panes", h) = DOMAIN h.pane
    BY DEF Made
<1> QED
    BY <1>1, <1>2 DEF Unheard, Unknown

\* The records of a state that stands, as lists and as sets.
LEMMA ListsLawful ==
    ASSUME NEW s, NEW h, Lawful(s, h)
    PROVE  /\ IsList(s.workspaces) /\ IsList(s.tabs)
           /\ S!Range(s.workspaces) = Ids(s.workspaces) /\ S!Range(s.tabs) = Ids(s.tabs)
           /\ \A r \in Ids(s.workspaces) : Good("workspaces", r, h) /\ Alive(s, "workspaces", r.id)
           /\ \A r \in Ids(s.tabs) : Good("tabs", r, h) /\ Alive(s, "tabs", r.id)
           /\ \A p \in s.panes : Good("panes", p, h) /\ Alive(s, "panes", p.id)
           /\ \A x \in s.layouts : Good("layouts", x, h)
           /\ \A p, q \in s.panes : p.id = q.id => p = q
<1>1. IsList(s["workspaces"]) /\ IsList(s["tabs"])
    BY DEF Lawful, Ordered
<1>2. S!Range(s.workspaces) = Ids(s.workspaces) /\ S!Range(s.tabs) = Ids(s.tabs)
    BY <1>1, RangeIds
<1>3. /\ \A r \in Ids(s.workspaces) : Good("workspaces", r, h) /\ Alive(s, "workspaces", r.id)
      /\ \A r \in Ids(s.tabs) : Good("tabs", r, h) /\ Alive(s, "tabs", r.id)
    BY DEF Lawful, Kinds, Ordered, Recs, Alive, Key
<1>4. \A p \in s.panes : Good("panes", p, h) /\ Alive(s, "panes", p.id)
    BY DEF Lawful, Kinds, Ordered, Recs, Alive, Key
<1>5. \A x \in s.layouts : Good("layouts", x, h)
    BY DEF Lawful, Kinds, Ordered, Recs
<1>6. \A p, q \in s.panes : p.id = q.id => p = q
    BY DEF Lawful, Kinds, Ordered, Recs, Key
<1> QED
    BY <1>1, <1>2, <1>3, <1>4, <1>5, <1>6

\* Nothing but one kind differs.
LEMMA OneDiffers ==
    ASSUME NEW s, NEW s2, NEW X \in Kinds,
           "workspaces" # X => s2.workspaces = s.workspaces,
           "tabs" # X => s2.tabs = s.tabs, "panes" # X => s2.panes = s.panes,
           "layouts" # X => s2.layouts = s.layouts
    PROVE  Elsewhere(s, s2, X)
    BY DEF Elsewhere, Kinds

\* workspace.create and the workspace.created it pushes.
LEMMA CreateWorkspaceOnward ==
    ASSUME NEW h, Standing(server, log, h), CreateWorkspace
    PROVE  Onward(server, log, h, server', log')
<1> DEFINE id == Head(server.freshW)
           w == NewWorkspace(id)
           e == [type |-> "WorkspaceSet", workspace |-> w]
           h2 == [ws |-> h.ws \cup {id}, tab |-> h.tab, pane |-> h.pane]
<1>1. /\ server.freshW # <<>> /\ log' = log \o <<e>>
      /\ server' = [server EXCEPT !.freshW = Tail(@), !.workspaces = Append(@, w)]
    BY DEF CreateWorkspace, Operate, NewWorkspace
<1>2. Ready(server, h) /\ Lawful(server, h) /\ Homes(h) /\ Past(server, log, h, {})
    BY StandingLog DEF Standing
<1>3. DOMAIN server = {"workspaces", "tabs", "panes", "names", "layouts",
                       "freshW", "freshT", "freshP"}
    BY <1>2 DEF Ready
<1>4. /\ server'.workspaces = Append(server.workspaces, w)
      /\ server'.tabs = server.tabs /\ server'.panes = server.panes
      /\ server'.layouts = server.layouts
      /\ server'.freshW = Tail(server.freshW) /\ server'.freshT = server.freshT
      /\ server'.freshP = server.freshP /\ DOMAIN server' = DOMAIN server
    BY <1>1, <1>3
<1>5. /\ id \in Ids(server.freshW) /\ id \notin h.ws
      /\ Unused(Tail(server.freshW), h.ws \cup {id})
      /\ Ids(Tail(server.freshW)) \subseteq Ids(server.freshW)
    BY <1>1, <1>2, TakeFresh DEF Ready
<1>6. Extends(h, h2) /\ Homes(h2) /\ Opens(server, h, h2)
    BY <1>2 DEF Extends, Homes, Opens
<1>7. id \in Made("workspaces", h2) \ Made("workspaces", h)
    BY <1>5 DEF Made
<1>8. Unknown(server, log, h2, "workspaces", id)
    BY <1>6, <1>7, UnheardUnknown DEF Kinds
<1>9. Good("workspaces", w, h2) /\ w.id = id
    BY DEF Good, NewWorkspace
<1>10. Past(server, log, h2, {})
    BY <1>2, <1>6, ExtendPast
<1>11. Lawful(server, h2)
    BY <1>10 DEF Past
<1>12. Elsewhere(server, server', "workspaces")
    BY <1>4 DEF Elsewhere, Kinds
<1>13. Ready(server', h2)
    BY <1>2, <1>4, <1>5 DEF Ready
<1> HIDE DEF e, w, h2, id
<1>14. Reports(server, e, server', log, h2)
    BY <1>4, <1>8, <1>9, <1>11, <1>12, WorkspaceSetReports DEF e
<1>15. Pending(server, e, server', h2, {}, {})
    BY <1>4, PanesAlive, SamePending
<1>16. Past(server', Append(log, e), h2, {}) /\ Lasts(server, log, h2, server', Append(log, e), h2)
    BY <1>10, <1>14, <1>15, OneReport
<1>17. log' = Append(log, e)
    BY <1>1, StandingLog, Longer
<1> QED
    BY <1>6, <1>13, <1>16, <1>17, OnwardExtended

\* workspace.rename and the workspace.renamed it pushes.
LEMMA RenameWorkspaceOnward ==
    ASSUME NEW h, Standing(server, log, h), NEW w, NEW label, RenameWorkspace(w, label)
    PROVE  Onward(server, log, h, server', log')
<1> DEFINE e == [type |-> "WorkspaceRenamed", id |-> w.id, label |-> label]
<1>1. /\ log' = log \o <<e>>
      /\ server' = [server EXCEPT !.workspaces = Relabelled(@, w.id, label)]
    BY DEF RenameWorkspace, Operate
<1>2. Ready(server, h) /\ Lawful(server, h)
    BY StandingLog DEF Standing
<1>3. DOMAIN server = {"workspaces", "tabs", "panes", "names", "layouts",
                       "freshW", "freshT", "freshP"}
    BY <1>2 DEF Ready
<1>4. /\ server'["workspaces"] = Relabelled(server["workspaces"], w.id, label)
      /\ server'.tabs = server.tabs /\ server'.panes = server.panes
      /\ server'.layouts = server.layouts
      /\ server'.freshW = server.freshW /\ server'.freshT = server.freshT
      /\ server'.freshP = server.freshP /\ DOMAIN server' = DOMAIN server
    BY <1>1, <1>3
<1>5. Elsewhere(server, server', "workspaces")
    BY <1>4 DEF Elsewhere, Kinds
<1>6. Ready(server', h)
    BY <1>2, <1>4, SameReady
<1>7. e = [type |-> Renames("workspaces"), id |-> w.id, label |-> label] /\ "workspaces" \in Ordered
    BY DEF Renames, Ordered
<1> HIDE DEF e
<1>8. Reports(server, e, server', log, h)
    BY <1>2, <1>4, <1>5, <1>7, RenamedReports
<1>9. Pending(server, e, server', h, {}, {})
    BY <1>4, PanesAlive, SamePending
<1> QED
    BY <1>1, <1>6, <1>8, <1>9, OneEvent

\* tab.rename and the tab.renamed it pushes.
LEMMA RenameTabOnward ==
    ASSUME NEW h, Standing(server, log, h), NEW tab, NEW label, RenameTab(tab, label)
    PROVE  Onward(server, log, h, server', log')
<1> DEFINE e == [type |-> "TabRenamed", id |-> tab.id, label |-> label]
<1>1. /\ log' = log \o <<e>>
      /\ server' = [server EXCEPT !.tabs = Relabelled(@, tab.id, label)]
    BY DEF RenameTab, Operate
<1>2. Ready(server, h) /\ Lawful(server, h)
    BY StandingLog DEF Standing
<1>3. DOMAIN server = {"workspaces", "tabs", "panes", "names", "layouts",
                       "freshW", "freshT", "freshP"}
    BY <1>2 DEF Ready
<1>4. /\ server'["tabs"] = Relabelled(server["tabs"], tab.id, label)
      /\ server'.workspaces = server.workspaces /\ server'.panes = server.panes
      /\ server'.layouts = server.layouts
      /\ server'.freshW = server.freshW /\ server'.freshT = server.freshT
      /\ server'.freshP = server.freshP /\ DOMAIN server' = DOMAIN server
    BY <1>1, <1>3
<1>5. Elsewhere(server, server', "tabs")
    BY <1>4 DEF Elsewhere, Kinds
<1>6. Ready(server', h)
    BY <1>2, <1>4, SameReady
<1>7. e = [type |-> Renames("tabs"), id |-> tab.id, label |-> label] /\ "tabs" \in Ordered
    BY DEF Renames, Ordered
<1> HIDE DEF e
<1>8. Reports(server, e, server', log, h)
    BY <1>2, <1>4, <1>5, <1>7, RenamedReports
<1>9. Pending(server, e, server', h, {}, {})
    BY <1>4, PanesAlive, SamePending
<1> QED
    BY <1>1, <1>6, <1>8, <1>9, OneEvent

\* workspace.move and the workspace.moved it pushes.
LEMMA MoveWorkspaceOnward ==
    ASSUME NEW h, Standing(server, log, h), MoveWorkspace
    PROVE  Onward(server, log, h, server', log')
<1> DEFINE moved == Append(Tail(server.workspaces), Head(server.workspaces))
           e == [type |-> "WorkspaceMoved", workspaces |-> moved]
<1>1. /\ Len(server.workspaces) > 1 /\ log' = log \o <<e>>
      /\ server' = [server EXCEPT !.workspaces = moved]
    BY DEF MoveWorkspace, Operate
<1>2. Ready(server, h) /\ Lawful(server, h)
    BY StandingLog DEF Standing
<1>3. DOMAIN server = {"workspaces", "tabs", "panes", "names", "layouts",
                       "freshW", "freshT", "freshP"}
    BY <1>2 DEF Ready
<1>4. /\ server'.workspaces = moved
      /\ server'.tabs = server.tabs /\ server'.panes = server.panes
      /\ server'.layouts = server.layouts
      /\ server'.freshW = server.freshW /\ server'.freshT = server.freshT
      /\ server'.freshP = server.freshP /\ DOMAIN server' = DOMAIN server
    BY <1>1, <1>3
<1>5. Elsewhere(server, server', "workspaces")
    BY <1>4 DEF Elsewhere, Kinds
<1>6. Ready(server', h)
    BY <1>2, <1>4, SameReady
<1>8. Reports(server, e, server', log, h)
    BY <1>1, <1>2, <1>4, <1>5, WorkspaceMovedReports
<1>9. Pending(server, e, server', h, {}, {})
    BY <1>4, PanesAlive, SamePending
<1> HIDE DEF e
<1> QED
    BY <1>1, <1>6, <1>8, <1>9, OneEvent

\* tab.move and the tab.moved it pushes.
LEMMA MoveTabOnward ==
    ASSUME NEW h, Standing(server, log, h), NEW w, MoveTab(w)
    PROVE  Onward(server, log, h, server', log')
<1> DEFINE inside == Among(server.tabs, {r \in Ids(server.tabs) : r.ws = w})
           rest == Among(server.tabs, {r \in Ids(server.tabs) : r.ws # w})
           moved == Append(Tail(inside), Head(inside))
           e == [type |-> "TabMoved", ws |-> w, tabs |-> moved]
<1>2. Ready(server, h) /\ Lawful(server, h)
    BY StandingLog DEF Standing
<1>3. DOMAIN server = {"workspaces", "tabs", "panes", "names", "layouts",
                       "freshW", "freshT", "freshP"}
    BY <1>2 DEF Ready
<1>0. S!Range(server.tabs) = Ids(server.tabs)
    BY <1>2, ListsLawful
<1>1. /\ Len(inside) > 1 /\ log' = log \o <<e>>
      /\ server' = [server EXCEPT !.tabs = rest \o moved]
  <2>1. SeqWithout(server.tabs, LAMBDA tab : ~(tab.ws = w))
          = Among(server.tabs, {r \in S!Range(server.tabs) : ~~(r.ws = w)})
      BY DEF SeqWithout
  <2>2. {r \in S!Range(server.tabs) : ~~(r.ws = w)} = {r \in Ids(server.tabs) : r.ws = w}
      BY <1>0
  <2>3. SeqWithout(server.tabs, LAMBDA tab : ~(tab.ws = w)) = inside
      BY <2>1, <2>2
  <2>4. SeqWithout(server.tabs, LAMBDA tab : tab.ws = w)
          = Among(server.tabs, {r \in S!Range(server.tabs) : ~(r.ws = w)})
      BY DEF SeqWithout
  <2>5. {r \in S!Range(server.tabs) : ~(r.ws = w)} = {r \in Ids(server.tabs) : r.ws # w}
      BY <1>0
  <2>6. SeqWithout(server.tabs, LAMBDA tab : tab.ws = w) = rest
      BY <2>4, <2>5
  <2> HIDE DEF inside, rest
  <2> QED
      BY <2>3, <2>6 DEF MoveTab, Operate
<1>4. /\ server'.tabs = rest \o moved
      /\ server'.workspaces = server.workspaces /\ server'.panes = server.panes
      /\ server'.layouts = server.layouts
      /\ server'.freshW = server.freshW /\ server'.freshT = server.freshT
      /\ server'.freshP = server.freshP /\ DOMAIN server' = DOMAIN server
    BY <1>1, <1>3
<1>5. Elsewhere(server, server', "tabs")
    BY <1>4 DEF Elsewhere, Kinds
<1>6. Ready(server', h)
    BY <1>2, <1>4, SameReady
<1>8. Reports(server, e, server', log, h)
    BY <1>1, <1>2, <1>4, <1>5, TabMovedReports
<1>9. Pending(server, e, server', h, {}, {})
    BY <1>4, PanesAlive, SamePending
<1> HIDE DEF e
<1> QED
    BY <1>1, <1>6, <1>8, <1>9, OneEvent

\* workspace.close and the workspace.closed it pushes.
LEMMA CloseWorkspaceOnward ==
    ASSUME NEW h, Standing(server, log, h), NEW w \in S!Range(server.workspaces),
           CloseWorkspace(w)
    PROVE  Onward(server, log, h, server', log')
<1> DEFINE id == w.id
           W == Among(server.workspaces, {r \in Ids(server.workspaces) : r.id # id})
           T == Among(server.tabs, {r \in Ids(server.tabs) : r.ws # id})
           P == {p \in server.panes : p.ws # id}
           L == {x \in server.layouts : x.ws # id}
           e == [type |-> "WorkspaceClosed", id |-> id]
<1>2. Ready(server, h) /\ Lawful(server, h)
    BY StandingLog DEF Standing
<1>3. DOMAIN server = {"workspaces", "tabs", "panes", "names", "layouts",
                       "freshW", "freshT", "freshP"}
    BY <1>2 DEF Ready
<1>0. S!Range(server.tabs) = Ids(server.tabs) /\ S!Range(server.workspaces) = Ids(server.workspaces)
    BY <1>2, ListsLawful
<1>1. /\ log' = log \o <<e>>
      /\ server' = [server EXCEPT !.workspaces = W, !.tabs = T, !.panes = P, !.layouts = L]
  <2>1. SeqWithout(server.workspaces, LAMBDA r : r.id = w.id)
          = Among(server.workspaces, {r \in S!Range(server.workspaces) : ~(r.id = w.id)})
      BY DEF SeqWithout
  <2>2. SeqWithout(server.workspaces, LAMBDA r : r.id = w.id) = W
      BY <1>0, <2>1
  <2>3. SeqWithout(server.tabs, LAMBDA r : r.ws = w.id)
          = Among(server.tabs, {r \in S!Range(server.tabs) : ~(r.ws = w.id)})
      BY DEF SeqWithout
  <2>4. SeqWithout(server.tabs, LAMBDA r : r.ws = w.id) = T
      BY <1>0, <2>3
  <2>5. /\ Without(server.panes, LAMBDA r : r.ws = w.id) = P
        /\ Without(server.layouts, LAMBDA r : r.ws = w.id) = L
      BY DEF Without
  <2> HIDE DEF W, T, P, L
  <2> QED
      BY <2>2, <2>4, <2>5 DEF CloseWorkspace, Operate
<1> HIDE DEF W, T, P, L
<1>4. /\ server'.workspaces = W /\ server'.tabs = T /\ server'.panes = P
      /\ server'.layouts = L
      /\ server'.freshW = server.freshW /\ server'.freshT = server.freshT
      /\ server'.freshP = server.freshP /\ DOMAIN server' = DOMAIN server
    BY <1>1, <1>3
<1>6. Ready(server', h)
    BY <1>2, <1>4, SameReady
<1>7. id \in h.ws
    BY <1>0, <1>2, ListsLawful DEF Good
<1>8. Reports(server, e, server', log, h)
    BY <1>2, <1>4, <1>7, WorkspaceClosedReports DEF W, T, P, L
<1>9. Pending(server, e, server', h, {}, {})
  <2> SUFFICES ASSUME NEW p, Alive(server, "panes", p), ~Alive(server', "panes", p)
               PROVE  ~Alive(server', "layouts", h.pane[p])
      BY DEF Pending
  <2>1. PICK r \in server.panes : r.id = p
      BY DEF Alive, Recs, Ordered, Key
  <2>2. r.ws = id
      BY <1>4, <2>1 DEF P, Alive, Recs, Ordered, Key
  <2>3. h.tab[h.pane[p]] = id
      BY <1>2, <2>1, <2>2, ListsLawful DEF Good
  <2>4. \A x \in server'.layouts : h.tab[x.tab] # id
      BY <1>2, <1>4, ListsLawful DEF Good, L
  <2> QED
      BY <2>3, <2>4 DEF Alive, Recs, Ordered, Key
<1> HIDE DEF e
<1> QED
    BY <1>1, <1>6, <1>8, <1>9, OneEvent

\* tab.close and the tab.closed it pushes.
LEMMA CloseTabOnward ==
    ASSUME NEW h, Standing(server, log, h), NEW tab \in S!Range(server.tabs),
           CloseTab(tab)
    PROVE  Onward(server, log, h, server', log')
<1> DEFINE id == tab.id
           T == Among(server.tabs, {r \in Ids(server.tabs) : r.id # id})
           P == {p \in server.panes : p.tab # id}
           L == {x \in server.layouts : x.tab # id}
           e == [type |-> "TabClosed", id |-> id]
<1>2. Ready(server, h) /\ Lawful(server, h)
    BY StandingLog DEF Standing
<1>3. DOMAIN server = {"workspaces", "tabs", "panes", "names", "layouts",
                       "freshW", "freshT", "freshP"}
    BY <1>2 DEF Ready
<1>0. S!Range(server.tabs) = Ids(server.tabs)
    BY <1>2, ListsLawful
<1>1. /\ log' = log \o <<e>>
      /\ server' = [server EXCEPT !.tabs = T, !.panes = P, !.layouts = L]
  <2>3. SeqWithout(server.tabs, LAMBDA r : r.id = tab.id)
          = Among(server.tabs, {r \in S!Range(server.tabs) : ~(r.id = tab.id)})
      BY DEF SeqWithout
  <2>4. SeqWithout(server.tabs, LAMBDA r : r.id = tab.id) = T
      BY <1>0, <2>3
  <2>5. /\ Without(server.panes, LAMBDA r : r.tab = tab.id) = P
        /\ Without(server.layouts, LAMBDA r : r.tab = tab.id) = L
      BY DEF Without
  <2> HIDE DEF T, P, L
  <2> QED
      BY <2>4, <2>5 DEF CloseTab, Operate
<1> HIDE DEF T, P, L
<1>4. /\ server'.workspaces = server.workspaces /\ server'.tabs = T /\ server'.panes = P
      /\ server'.layouts = L
      /\ server'.freshW = server.freshW /\ server'.freshT = server.freshT
      /\ server'.freshP = server.freshP /\ DOMAIN server' = DOMAIN server
    BY <1>1, <1>3
<1>6. Ready(server', h)
    BY <1>2, <1>4, SameReady
<1>7. id \in DOMAIN h.tab
    BY <1>0, <1>2, ListsLawful DEF Good
<1>8. Reports(server, e, server', log, h)
    BY <1>2, <1>4, <1>7, TabClosedReports DEF T, P, L
<1>9. Pending(server, e, server', h, {}, {})
  <2> SUFFICES ASSUME NEW p, Alive(server, "panes", p), ~Alive(server', "panes", p)
               PROVE  ~Alive(server', "layouts", h.pane[p])
      BY DEF Pending
  <2>1. PICK r \in server.panes : r.id = p
      BY DEF Alive, Recs, Ordered, Key
  <2>2. r.tab = id
      BY <1>4, <2>1 DEF P, Alive, Recs, Ordered, Key
  <2>3. h.pane[p] = id
      BY <1>2, <2>1, <2>2, ListsLawful DEF Good
  <2>4. \A x \in server'.layouts : x.tab # id
      BY <1>4 DEF L
  <2> QED
      BY <2>3, <2>4 DEF Alive, Recs, Ordered, Key
<1> HIDE DEF e
<1> QED
    BY <1>1, <1>6, <1>8, <1>9, OneEvent

\* One pane differs, and perhaps a name.
LEMMA PaneChange ==
    ASSUME NEW h, Standing(server, log, h), NEW pane \in server.panes, NEW new, NEW N,
           new.id = pane.id,
           \/ server' = [server EXCEPT !.panes = (@ \ {pane}) \cup {new}]
           \/ server' = [server EXCEPT !.panes = (@ \ {pane}) \cup {new}, !.names = N]
    PROVE  /\ server'.panes = (server.panes \ {pane}) \cup {new}
           /\ Elsewhere(server, server', "panes")
           /\ Ready(server', h) /\ Lawful(server, h)
           /\ \A e : Pending(server, e, server', h, {}, {})
<1>2. Ready(server, h) /\ Lawful(server, h)
    BY StandingLog DEF Standing
<1>3. DOMAIN server = {"workspaces", "tabs", "panes", "names", "layouts",
                       "freshW", "freshT", "freshP"}
    BY <1>2 DEF Ready
<1>4. /\ server'.panes = (server.panes \ {pane}) \cup {new}
      /\ server'.workspaces = server.workspaces /\ server'.tabs = server.tabs
      /\ server'.layouts = server.layouts
      /\ server'.freshW = server.freshW /\ server'.freshT = server.freshT
      /\ server'.freshP = server.freshP /\ DOMAIN server' = DOMAIN server
    BY <1>3
<1>5. Elsewhere(server, server', "panes")
    BY <1>4 DEF Elsewhere, Kinds
<1>6. Ready(server', h)
    BY <1>2, <1>4, SameReady
<1>7. \A id : Alive(server, "panes", id) => Alive(server', "panes", id)
    BY <1>4 DEF Alive, Recs, Ordered, Key
<1>8. \A e : Pending(server, e, server', h, {}, {})
    BY <1>7, SamePending
<1> QED
    BY <1>2, <1>4, <1>5, <1>6, <1>8

\* A pane whose output changes, and the event it pushes.
LEMMA UpdatePaneOnward ==
    ASSUME NEW h, Standing(server, log, h), NEW pane \in server.panes, UpdatePane(pane)
    PROVE  Onward(server, log, h, server', log')
<1> DEFINE rev == pane.rev + 1
           new == [pane EXCEPT !.rev = rev]
           whole == [type |-> "PaneSet", pane |-> new]
           part == [type |-> "PaneRevised", id |-> pane.id, rev |-> rev]
<1>0. Good("panes", pane, h)
    BY StandingLog, ListsLawful
<1>1. Good("panes", new, h) /\ new.id = pane.id /\ new.agent = pane.agent /\ new.rev = rev
    BY <1>0 DEF Good
<1>2. /\ server' = [server EXCEPT !.panes = (@ \ {pane}) \cup {new}]
      /\ log' = log \o <<whole>> \/ log' = log \o <<part>>
  <2>1. new.rev = rev
      BY <1>1
  <2>2. \/ ChangePane(pane, new, <<PaneSet(new)>>)
        \/ ChangePane(pane, new, <<[type |-> "PaneRevised", id |-> pane.id, rev |-> new.rev]>>)
      BY DEF UpdatePane
  <2> HIDE DEF new
  <2> QED
      BY <2>1, <2>2 DEF ChangePane, Operate, PaneSet
<1>3. /\ server'.panes = (server.panes \ {pane}) \cup {new}
      /\ Elsewhere(server, server', "panes")
      /\ Ready(server', h) /\ Lawful(server, h)
      /\ \A e : Pending(server, e, server', h, {}, {})
  <2> HIDE DEF new
  <2> QED
      BY <1>1, <1>2, PaneChange
<1>4. Reports(server, whole, server', log, h)
  <2> HIDE DEF new
  <2> QED
      BY <1>1, <1>3, PaneSetReports
<1>5. Reports(server, part, server', log, h)
    BY <1>3, PaneRevisedReports
<1>6. Pending(server, whole, server', h, {}, {}) /\ Pending(server, part, server', h, {}, {})
    BY <1>3
<1> HIDE DEF whole, part, new, rev
<1>7. CASE log' = log \o <<whole>>
    BY <1>3, <1>4, <1>6, <1>7, OneEvent
<1>8. CASE log' = log \o <<part>>
    BY <1>3, <1>5, <1>6, <1>8, OneEvent
<1> QED
    BY <1>2, <1>7, <1>8

\* An agent is detected, and the pane.agent_detected it pushes.
LEMMA DetectAgentOnward ==
    ASSUME NEW h, Standing(server, log, h), NEW pane \in server.panes, NEW agent,
           agent # Absent, DetectAgent(pane, agent)
    PROVE  Onward(server, log, h, server', log')
<1> DEFINE new == [pane EXCEPT !.agent = agent]
           e == [type |-> "PaneAgentDetected", id |-> pane.id, agent |-> agent,
                 released |-> FALSE, finalStatus |-> Absent]
<1>0. Good("panes", pane, h)
    BY StandingLog, ListsLawful
<1>1. new.id = pane.id
    BY <1>0 DEF Good
<1>2. /\ server' = [server EXCEPT !.panes = (@ \ {pane}) \cup {new}]
      /\ log' = log \o <<e>>
    BY DEF DetectAgent, ChangePane, Operate
<1>3. /\ server'.panes = (server.panes \ {pane}) \cup {new}
      /\ Elsewhere(server, server', "panes")
      /\ Ready(server', h) /\ Lawful(server, h)
      /\ Pending(server, e, server', h, {}, {})
  <2> HIDE DEF new, e
  <2> QED
      BY <1>1, <1>2, PaneChange
<1>4. Reports(server, e, server', log, h)
    BY <1>3, DetectedReports
<1> HIDE DEF e
<1> QED
    BY <1>2, <1>3, <1>4, OneEvent

\* An agent is released, and the pane.agent_detected it pushes.
LEMMA ReleaseAgentOnward ==
    ASSUME NEW h, Standing(server, log, h), NEW pane \in server.panes, ReleaseAgent(pane)
    PROVE  Onward(server, log, h, server', log')
<1> DEFINE e == [type |-> "PaneAgentDetected", id |-> pane.id, agent |-> Absent,
                 released |-> TRUE, finalStatus |-> "unknown"]
<1>0. Good("panes", pane, h)
    BY StandingLog, ListsLawful
<1>1. PICK new : new = [pane EXCEPT !.agent = Absent, !.display = Absent, !.status = "unknown"]
    OBVIOUS
<1>2. new.id = pane.id
  <2>1. PaneShaped(pane) /\ new = ReleasedAs(pane)
      BY <1>0, <1>1 DEF Good, PaneShaped, ReleasedAs
  <2> QED
      BY ONLY <2>1, PaneReleased
<1>3. PICK N : /\ server' = [server EXCEPT !.panes = (@ \ {pane}) \cup {new}, !.names = N]
               /\ log' = log \o <<e>>
    BY <1>1 DEF ReleaseAgent, Operate
<1>4. /\ server'.panes = (server.panes \ {pane}) \cup {new}
      /\ Elsewhere(server, server', "panes")
      /\ Ready(server', h) /\ Lawful(server, h)
      /\ Pending(server, e, server', h, {}, {})
  <2> HIDE DEF e
  <2> QED
      BY <1>2, <1>3, PaneChange
<1>5. Reports(server, e, server', log, h)
    BY <1>1, <1>4, ReleasedReports
<1> HIDE DEF e
<1> QED
    BY <1>3, <1>4, <1>5, OneEvent

\* An agent reports its status, and the pane.agent_status_changed it pushes.
LEMMA ReportStatusOnward ==
    ASSUME NEW h, Standing(server, log, h), NEW pane \in server.panes, NEW status,
           "shown" # Absent, ReportStatus(pane, status)
    PROVE  Onward(server, log, h, server', log')
<1> DEFINE e == [type |-> "PaneAgentStatusChanged", id |-> pane.id,
                 status |-> status, agent |-> pane.agent, display |-> "shown"]
<1>0. Good("panes", pane, h)
    BY StandingLog, ListsLawful
<1>1. PICK new : new = [pane EXCEPT !.status = status, !.display = "shown"]
    OBVIOUS
<1>2. new.id = pane.id
  <2>1. PaneShaped(pane) /\ new = ShownAs(pane, status, "shown")
      BY <1>0, <1>1 DEF Good, PaneShaped, ShownAs
  <2> QED
      BY ONLY <2>1, PaneShown
<1>3. /\ server' = [server EXCEPT !.panes = (@ \ {pane}) \cup {new}]
      /\ log' = log \o <<e>> /\ pane.agent # Absent
    BY <1>1 DEF ReportStatus, ChangePane, Operate
<1>4. /\ server'.panes = (server.panes \ {pane}) \cup {new}
      /\ Elsewhere(server, server', "panes")
      /\ Ready(server', h) /\ Lawful(server, h)
      /\ Pending(server, e, server', h, {}, {})
  <2> HIDE DEF e
  <2> QED
      BY <1>2, <1>3, PaneChange
<1>5. Reports(server, e, server', log, h)
    BY <1>1, <1>3, <1>4, StatusReports
<1> HIDE DEF e
<1> QED
    BY <1>3, <1>4, <1>5, OneEvent

\* An operation of two events, and of three.
LEMMA TwoEvents ==
    ASSUME NEW s, NEW l, NEW h, NEW a, NEW s1, NEW b, NEW s2, NEW Q, NEW l2,
           IsList(l), Past(s, l, h, {}), l2 = l \o <<a, b>>,
           Reports(s, a, s1, l, h), Pending(s, a, s1, h, {}, Q),
           Reports(s1, b, s2, Append(l, a), h), Pending(s1, b, s2, h, Q, {})
    PROVE  Past(s2, l2, h, {}) /\ Lasts(s, l, h, s2, l2, h)
<1>1. Past(s1, Append(l, a), h, Q) /\ Lasts(s, l, h, s1, Append(l, a), h)
    BY OneReport
<1>2. /\ Past(s2, Append(Append(l, a), b), h, {})
      /\ Lasts(s1, Append(l, a), h, s2, Append(Append(l, a), b), h)
    BY <1>1, OneReport
<1>3. Lasts(s, l, h, s2, Append(Append(l, a), b), h)
    BY <1>1, <1>2, LastsTwice
<1>4. l2 = Append(Append(l, a), b)
    BY LongerTwice
<1> QED
    BY ONLY <1>2, <1>3, <1>4

\* An operation of three events, of which the layouts may be reported last.
LEMMA ThreeEvents ==
    ASSUME NEW s, NEW l, NEW h, NEW a, NEW s1, NEW b, NEW s2, NEW c, NEW s3, NEW Q, NEW R, NEW l2,
           IsList(l), Past(s, l, h, {}), l2 = l \o <<a, b, c>>,
           Reports(s, a, s1, l, h), Pending(s, a, s1, h, {}, Q),
           Reports(s1, b, s2, Append(l, a), h), Pending(s1, b, s2, h, Q, R),
           Reports(s2, c, s3, Append(Append(l, a), b), h), Pending(s2, c, s3, h, R, {})
    PROVE  Past(s3, l2, h, {}) /\ Lasts(s, l, h, s3, l2, h)
<1>1. Past(s1, Append(l, a), h, Q) /\ Lasts(s, l, h, s1, Append(l, a), h)
    BY OneReport
<1>2. /\ Past(s2, Append(Append(l, a), b), h, R)
      /\ Lasts(s1, Append(l, a), h, s2, Append(Append(l, a), b), h)
    BY <1>1, OneReport
<1>3. /\ Past(s3, Append(Append(Append(l, a), b), c), h, {})
      /\ Lasts(s2, Append(Append(l, a), b), h, s3, Append(Append(Append(l, a), b), c), h)
    BY <1>2, OneReport
<1>4. Lasts(s, l, h, s2, Append(Append(l, a), b), h)
    BY <1>1, <1>2, LastsTwice
<1>5. Lasts(s, l, h, s3, Append(Append(Append(l, a), b), c), h)
    BY <1>3, <1>4, LastsTwice
<1>6. l2 = Append(Append(Append(l, a), b), c)
    BY LongerThrice
<1> QED
    BY ONLY <1>3, <1>5, <1>6

\* pane.focus and the three focus events it pushes.
LEMMA FocusPaneOnward ==
    ASSUME NEW h, Standing(server, log, h), NEW pane \in server.panes, FocusPane(pane)
    PROVE  Onward(server, log, h, server', log')
<1> DEFINE W == FocusedIn(server.workspaces, pane.ws)
           T == FocusedIn(server.tabs, pane.tab)
           P == {[p EXCEPT !.focused = (p = pane)] : p \in server.panes}
           L == {IF x.tab = pane.tab THEN [x EXCEPT !.focusedPane = pane.id] ELSE x :
                    x \in server.layouts}
           a == [type |-> "WorkspaceFocused", id |-> pane.ws]
           b == [type |-> "TabFocused", id |-> pane.tab]
           c == [type |-> "PaneFocused", id |-> pane.id]
           s1 == [workspaces |-> W, tabs |-> server.tabs, panes |-> server.panes,
                  layouts |-> server.layouts]
           s2 == [workspaces |-> W, tabs |-> T, panes |-> server.panes,
                  layouts |-> server.layouts]
<1>1. Ready(server, h) /\ Lawful(server, h) /\ IsList(log) /\ Past(server, log, h, {})
    BY StandingLog DEF Standing
<1>2. DOMAIN server = {"workspaces", "tabs", "panes", "names", "layouts",
                       "freshW", "freshT", "freshP"}
    BY <1>1 DEF Ready
<1>3. /\ server' = [server EXCEPT !.workspaces = W, !.tabs = T, !.panes = P, !.layouts = L]
      /\ log' = log \o <<a, b, c>>
    BY DEF FocusPane, Operate
<1>4. P = {[p EXCEPT !.focused = (p.id = pane.id)] : p \in server.panes}
  <2>1. \A p \in server.panes : (p = pane) <=> (p.id = pane.id)
      BY <1>1, ListsLawful
  <2> QED
      BY <2>1
<1>w. W = FocusedIn(server.workspaces, pane.ws) /\ T = FocusedIn(server.tabs, pane.tab)
    OBVIOUS
<1> HIDE DEF W, T, P
<1>5. /\ server'.workspaces = W /\ server'.tabs = T /\ server'.panes = P
      /\ server'.layouts = L
      /\ server'.freshW = server.freshW /\ server'.freshT = server.freshT
      /\ server'.freshP = server.freshP /\ DOMAIN server' = DOMAIN server
    BY <1>2, <1>3
<1>6. Ready(server', h)
    BY <1>1, <1>5, SameReady
<1>7. /\ s1.workspaces = W /\ s1.tabs = server.tabs /\ s1.panes = server.panes
      /\ s1.layouts = server.layouts
      /\ s2.workspaces = W /\ s2.tabs = T /\ s2.panes = server.panes
      /\ s2.layouts = server.layouts
    OBVIOUS
<1> HIDE DEF s1, s2, L
<1>8. Reports(server, a, s1, log, h)
  <2>1. Elsewhere(server, s1, "workspaces")
      BY <1>7, OneDiffers DEF Kinds
  <2>2. Focuses("workspaces") = "WorkspaceFocused" /\ "workspaces" \in Ordered
      BY DEF Focuses, Ordered
  <2> QED
      BY <1>1, <1>w, <1>7, <2>1, <2>2, FocusedReports
<1>9. Lawful(s1, h)
    BY <1>8 DEF Reports
<1>10. Reports(s1, b, s2, Append(log, a), h)
  <2>1. Elsewhere(s1, s2, "tabs")
      BY <1>7, OneDiffers DEF Kinds
  <2>2. Focuses("tabs") = "TabFocused" /\ "tabs" \in Ordered
      BY DEF Focuses, Ordered
  <2> QED
      BY <1>9, <1>w, <1>7, <2>1, <2>2, FocusedReports
<1>11. Lawful(s2, h)
    BY <1>10 DEF Reports
<1>12. Reports(s2, c, server', Append(Append(log, a), b), h)
    BY <1>11, <1>7, <1>5, <1>4, PaneFocusedReports DEF L
<1>13. /\ Pending(server, a, s1, h, {}, {}) /\ Pending(s1, b, s2, h, {}, {})
       /\ Pending(s2, c, server', h, {}, {})
  <2>1. \A id : Alive(server, "panes", id) => Alive(s1, "panes", id)
      BY <1>7 DEF Alive, Recs, Ordered
  <2>2. \A id : Alive(s1, "panes", id) => Alive(s2, "panes", id)
      BY <1>7 DEF Alive, Recs, Ordered
  <2>3. \A id : Alive(s2, "panes", id) => Alive(server', "panes", id)
    <3> SUFFICES ASSUME NEW p \in server.panes PROVE Alive(server', "panes", p.id)
        BY <1>7 DEF Alive, Recs, Ordered, Key
    <3>1. Good("panes", p, h)
        BY <1>1, ListsLawful
    <3>2. [p EXCEPT !.focused = (p = pane)] \in P
        BY DEF P
    <3>3. [p EXCEPT !.focused = (p = pane)].id = p.id
        BY <3>1 DEF Good
    <3> QED
        BY <1>5, <3>2, <3>3 DEF Alive, Recs, Ordered, Key
  <2> QED
      BY <2>1, <2>2, <2>3, SamePending
<1> HIDE DEF a, b, c
<1>e. log' = log \o <<a, b, c>> /\ IsList(log) /\ Past(server, log, h, {})
    BY <1>1, <1>3
<1>14. Past(server', log', h, {})
  <2>1. Past(s1, Append(log, a), h, {})
      BY ONLY <1>e, <1>8, <1>13, OneReport
  <2>2. Past(s2, Append(Append(log, a), b), h, {})
      BY ONLY <2>1, <1>10, <1>13, OneReport
  <2>3. Past(server', Append(Append(Append(log, a), b), c), h, {})
      BY ONLY <2>2, <1>12, <1>13, OneReport
  <2>4. log' = Append(Append(Append(log, a), b), c)
      BY ONLY <1>e, LongerThrice
  <2> QED
      BY ONLY <2>3, <2>4
<1>15. Lasts(server, log, h, server', log', h)
    BY ONLY <1>e, <1>8, <1>10, <1>12, <1>13, ThreeEvents
<1> QED
    BY <1>6, <1>14, <1>15 DEF Onward, Standing

\* layout.updated reports a layout that was still to be reported.
LEMMA PendingLayout ==
    ASSUME NEW s, NEW e, NEW s2, NEW h, NEW layout, NEW Q, NEW R,
           e = [type |-> "LayoutUpdated", layout |-> layout],
           s2.panes = s.panes, Q \subseteq R \cup {layout.tab}
    PROVE  Pending(s, e, s2, h, Q, R)
<1>1. Brings(e, "layouts", layout.tab)
    BY DEF Brings, Puts, Key, Ordered
<1>2. Written(e, "layouts", layout.tab, "focusedPane", h) # {}
    BY <1>1, BringsWrites
<1>3. \A id : Alive(s2, "panes", id) <=> Alive(s, "panes", id)
    BY DEF Alive, Recs, Ordered
<1> QED
    BY <1>2, <1>3 DEF Pending

\* pane.close: a pane.closed, and the layout of the tab the pane was in.
LEMMA ClosePaneOnward ==
    ASSUME NEW h, Standing(server, log, h), NEW pane \in server.panes, ClosePane(pane)
    PROVE  Onward(server, log, h, server', log')
<1> DEFINE layout == LayoutFor(pane.tab, pane.ws, PanesIn(pane.tab) \ {pane},
                               FocusedPaneOf(pane.tab))
           L == {x \in server.layouts : x.tab # layout.tab} \cup {layout}
           a == [type |-> "PaneClosed", id |-> pane.id]
           b == [type |-> "LayoutUpdated", layout |-> layout]
           s1 == [workspaces |-> server.workspaces, tabs |-> server.tabs,
                  panes |-> server.panes \ {pane}, layouts |-> server.layouts]
<1>1. Ready(server, h) /\ Lawful(server, h) /\ IsList(log) /\ Past(server, log, h, {})
      /\ Homes(h)
    BY StandingLog DEF Standing
<1>2. DOMAIN server = {"workspaces", "tabs", "panes", "names", "layouts",
                       "freshW", "freshT", "freshP"}
    BY <1>1 DEF Ready
<1>3. /\ server' = [server EXCEPT !.panes = @ \ {pane}, !.layouts = L]
      /\ log' = log \o <<a, b>>
  <2>1. L = ReplaceLayout(server.layouts, layout)
      BY DEF ReplaceLayout
  <2>2. b = LayoutUpdated(layout)
      BY DEF LayoutUpdated
  <2>3. /\ server' = [server EXCEPT !.panes = @ \ {pane},
                                    !.layouts = ReplaceLayout(@, layout)]
        /\ log' = log \o <<a, LayoutUpdated(layout)>>
      BY DEF ClosePane, Operate
  <2> HIDE DEF L, b, a, layout
  <2> QED
      BY <2>1, <2>2, <2>3
<1>g. Good("panes", pane, h)
    BY <1>1, ListsLawful
<1>l. Good("layouts", layout, h) /\ layout.tab = pane.tab
  <2>1. pane.tab \in DOMAIN h.tab /\ pane.ws = h.tab[pane.tab] /\ pane.tab = h.pane[pane.id]
      BY <1>1, <1>g DEF Good, Homes
  <2>2. PICK Q, o : layout = LayoutFor(pane.tab, pane.ws, Q, o)
      OBVIOUS
  <2> HIDE DEF layout
  <2> QED
      BY <2>1, <2>2 DEF LayoutFor, Good, Ordered
<1> HIDE DEF layout
<1>5. /\ server'.workspaces = server.workspaces /\ server'.tabs = server.tabs
      /\ server'.panes = server.panes \ {pane} /\ server'.layouts = L
      /\ server'.freshW = server.freshW /\ server'.freshT = server.freshT
      /\ server'.freshP = server.freshP /\ DOMAIN server' = DOMAIN server
    BY <1>2, <1>3
<1>6. Ready(server', h)
    BY <1>1, <1>5, SameReady
<1>7. /\ s1.workspaces = server.workspaces /\ s1.tabs = server.tabs
      /\ s1.panes = server.panes \ {pane} /\ s1.layouts = server.layouts
    OBVIOUS
<1> HIDE DEF s1
<1>8. Reports(server, a, s1, log, h)
  <2>1. Elsewhere(server, s1, "panes")
      BY <1>7, OneDiffers DEF Kinds
  <2> QED
      BY <1>1, <1>7, <2>1, PaneClosedReports
<1>9. Lawful(s1, h)
    BY <1>8 DEF Reports
<1>10. Reports(s1, b, server', Append(log, a), h)
  <2>1. Elsewhere(s1, server', "layouts")
      BY <1>5, <1>7, OneDiffers DEF Kinds
  <2> QED
      BY <1>9, <1>l, <1>5, <1>7, <2>1, LayoutReports
<1>11. Pending(server, a, s1, h, {}, {pane.tab})
  <2> SUFFICES ASSUME NEW p, Alive(server, "panes", p), ~Alive(s1, "panes", p)
               PROVE  h.pane[p] = pane.tab
      BY DEF Pending
  <2>1. PICK r \in server.panes : r.id = p
      BY DEF Alive, Recs, Ordered, Key
  <2>2. r = pane
      BY <1>7, <2>1 DEF Alive, Recs, Ordered, Key
  <2> QED
      BY <2>1, <2>2, <1>g DEF Good
<1>12. Pending(s1, b, server', h, {pane.tab}, {})
    BY <1>5, <1>7, <1>l, PendingLayout
<1> HIDE DEF a, b
<1>e. log' = log \o <<a, b>> /\ IsList(log) /\ Past(server, log, h, {})
    BY <1>1, <1>3
<1>13. /\ Past(server', log', h, {})
       /\ Lasts(server, log, h, server', log', h)
    BY ONLY <1>e, <1>8, <1>10, <1>11, <1>12, TwoEvents
<1> QED
    BY <1>6, <1>13 DEF Onward, Standing

\* A history with a new workspace, a new tab, a new pane.
WithWorkspace(h, w) == [ws |-> h.ws \cup {w}, tab |-> h.tab, pane |-> h.pane]
\* The ids with a new tab.
WithTab(h, t, w) ==
    [ws |-> h.ws, pane |-> h.pane,
     tab |-> [x \in DOMAIN h.tab \cup {t} |-> IF x = t THEN w ELSE h.tab[x]]]
\* The ids with a new pane.
WithPane(h, p, t) ==
    [ws |-> h.ws, tab |-> h.tab,
     pane |-> [x \in DOMAIN h.pane \cup {p} |-> IF x = p THEN t ELSE h.pane[x]]]

\* A new workspace leaves where every id was made.
LEMMA WithWorkspaceExtends ==
    ASSUME NEW h, NEW w, Homes(h), NEW h2, h2 = WithWorkspace(h, w)
    PROVE  /\ Extends(h, h2) /\ Homes(h2)
           /\ h2.ws = h.ws \cup {w} /\ h2.tab = h.tab /\ h2.pane = h.pane
    BY DEF WithWorkspace, Extends, Homes

\* A new tab leaves where every id was made.
LEMMA WithTabExtends ==
    ASSUME NEW h, NEW t, NEW w, Homes(h), t \notin DOMAIN h.tab, w \in h.ws,
           NEW h2, h2 = WithTab(h, t, w)
    PROVE  /\ Extends(h, h2) /\ Homes(h2)
           /\ h2.ws = h.ws /\ h2.pane = h.pane /\ h2.tab[t] = w
           /\ DOMAIN h2.tab = DOMAIN h.tab \cup {t}
<1>1. /\ h2.ws = h.ws /\ h2.pane = h.pane
      /\ DOMAIN h2.tab = DOMAIN h.tab \cup {t}
      /\ h2.tab[t] = w /\ \A x \in DOMAIN h.tab : h2.tab[x] = h.tab[x]
    BY DEF WithTab
<1> QED
    BY <1>1 DEF Extends, Homes

\* A new pane leaves where every id was made.
LEMMA WithPaneExtends ==
    ASSUME NEW h, NEW p, NEW t, Homes(h), p \notin DOMAIN h.pane, t \in DOMAIN h.tab,
           NEW h2, h2 = WithPane(h, p, t)
    PROVE  /\ Extends(h, h2) /\ Homes(h2)
           /\ h2.ws = h.ws /\ h2.tab = h.tab /\ h2.pane[p] = t
           /\ DOMAIN h2.pane = DOMAIN h.pane \cup {p}
<1>1. /\ h2.ws = h.ws /\ h2.tab = h.tab
      /\ DOMAIN h2.pane = DOMAIN h.pane \cup {p}
      /\ h2.pane[p] = t /\ \A x \in DOMAIN h.pane : h2.pane[x] = h.pane[x]
    BY DEF WithPane
<1> QED
    BY <1>1 DEF Extends, Homes

\* More ids made twice are more ids made.
LEMMA ExtendsTwice ==
    ASSUME NEW h, NEW h1, NEW h2, Extends(h, h1), Extends(h1, h2)
    PROVE  Extends(h, h2)
    BY DEF Extends

\* What the log knows nothing of, it still knows nothing of after an event that is
\* not about it.
LEMMA UnknownStill ==
    ASSUME NEW s, NEW s2, NEW l, NEW e, NEW h, NEW X \in Kinds, NEW id, IsList(l),
           Unknown(s, l, h, X, id), Recs(s2, X) = Recs(s, X), Silent(e, X, h),
           id \notin Mentions(e)
    PROVE  Unknown(s2, Append(l, e), h, X, id)
<1>1. Grown(l, Append(l, e), e)
    BY AppendGrown
<1> DEFINE l2 == Append(l, e)
<1> HIDE DEF l2
<1>2. \A i \in 1..Len(l2) : l2[i] = e \/ \E j \in 1..Len(l) : l2[i] = l[j]
  <2> TAKE i \in 1..Len(l2)
  <2>1. CASE i = Len(l2)
      BY <1>1, <2>1 DEF Grown, l2
  <2>2. CASE i # Len(l2)
    <3>1. i \in 1..Len(l)
        BY <1>1, <2>2 DEF Grown, l2
    <3> QED
        BY <1>1, <3>1 DEF Grown, l2
  <2> QED
      BY <2>1, <2>2
<1>3. /\ ~Brings(e, X, id) /\ ~Closes(e, X, id, h) /\ id \notin Mentions(e)
    BY DEF Silent, Brings
<1>4. ~Alive(s2, X, id)
    BY DEF Unknown, Alive
<1>5. \A i \in 1..Len(l2) : ~Brings(l2[i], X, id)
    BY <1>2, <1>3 DEF Unknown
<1>6. X # "layouts" => \A i \in 1..Len(l2) : ~Closes(l2[i], X, id, h)
    BY <1>2, <1>3 DEF Unknown
<1>7. X = "panes" => \A i \in 1..Len(l2) : id \notin Mentions(l2[i])
    BY <1>2, <1>3 DEF Unknown
<1> QED
    BY <1>4, <1>5, <1>6, <1>7 DEF Unknown, l2

\* A new pane is where its id was made, and runs no agent.
LEMMA NewPaneGood ==
    ASSUME NEW h, NEW p, NEW t, NEW w, NEW pane, pane = NewPane(p, t, w),
           p \in DOMAIN h.pane, t = h.pane[p], w = h.tab[t]
    PROVE  Good("panes", pane, h) /\ pane.id = p /\ pane.agent = Absent
    BY DEF NewPane, Good, Ordered

\* pane.split: a pane.created and the tab's layout.updated.
LEMMA CreatePaneOnward ==
    ASSUME NEW h, Standing(server, log, h), NEW tab \in S!Range(server.tabs), CreatePane(tab)
    PROVE  Onward(server, log, h, server', log')
<1>1. Ready(server, h) /\ Lawful(server, h) /\ IsList(log) /\ Past(server, log, h, {})
      /\ Homes(h)
    BY StandingLog DEF Standing
<1>2. DOMAIN server = {"workspaces", "tabs", "panes", "names", "layouts",
                       "freshW", "freshT", "freshP"}
    BY <1>1 DEF Ready
<1> DEFINE p == Head(server.freshP)
           pane == NewPane(p, tab.id, tab.ws)
           layout == LayoutFor(tab.id, tab.ws, PanesIn(tab.id) \cup {pane},
                               FocusedPaneOf(tab.id))
           L == {x \in server.layouts : x.tab # layout.tab} \cup {layout}
           P == server.panes \cup {pane}
           h2 == WithPane(h, p, tab.id)
           a == [type |-> "PaneSet", pane |-> pane]
           b == [type |-> "LayoutUpdated", layout |-> layout]
           s1 == [workspaces |-> server.workspaces, tabs |-> server.tabs,
                  panes |-> P, layouts |-> server.layouts]
<1>f. /\ p \in Ids(server.freshP) /\ p \notin DOMAIN h.pane
      /\ Unused(Tail(server.freshP), DOMAIN h.pane \cup {p})
    BY <1>1, TakeFresh DEF Ready, CreatePane
<1>g. Good("tabs", tab, h) /\ Alive(server, "tabs", tab.id)
    BY <1>1, ListsLawful
<1>t. tab.id \in DOMAIN h.tab /\ tab.ws = h.tab[tab.id]
    BY <1>g DEF Good
<1>h. /\ Extends(h, h2) /\ Homes(h2)
      /\ h2.ws = h.ws /\ h2.tab = h.tab /\ h2.pane[p] = tab.id
      /\ DOMAIN h2.pane = DOMAIN h.pane \cup {p}
  <2> HIDE DEF p, h2
  <2> QED
      BY <1>1, <1>f, <1>t, WithPaneExtends DEF h2
<1>3. /\ server' = [server EXCEPT !.freshP = Tail(server.freshP), !.panes = P, !.layouts = L]
      /\ log' = log \o <<a, b>>
  <2>1. L = ReplaceLayout(server.layouts, layout)
      BY DEF ReplaceLayout
  <2>2. a = PaneSet(pane) /\ b = LayoutUpdated(layout)
      BY DEF LayoutUpdated, PaneSet
  <2>3. /\ server' = [server EXCEPT !.freshP = Tail(@), !.panes = @ \cup {pane},
                                    !.layouts = ReplaceLayout(@, layout)]
        /\ log' = log \o <<PaneSet(pane), LayoutUpdated(layout)>>
      BY DEF CreatePane, Operate
  <2> HIDE DEF L, b, a, layout, pane
  <2> QED
      BY <2>1, <2>2, <2>3
<1>l. Good("layouts", layout, h2) /\ layout.tab = tab.id
  <2>2. PICK Q, o : layout = LayoutFor(tab.id, tab.ws, Q, o)
      OBVIOUS
  <2> HIDE DEF layout, h2
  <2> QED
      BY <1>t, <1>h, <2>2 DEF LayoutFor, Good, Ordered
<1> HIDE DEF layout
<1>p. Good("panes", pane, h2) /\ pane.id = p /\ pane.agent = Absent
  <2> HIDE DEF h2, p, pane
  <2>1. pane = NewPane(p, tab.id, tab.ws)
      BY DEF pane
  <2>2. p \in DOMAIN h2.pane /\ tab.id = h2.pane[p] /\ tab.ws = h2.tab[tab.id]
      BY <1>t, <1>h
  <2> QED
      BY <2>1, <2>2, NewPaneGood
<1> HIDE DEF pane, h2, p
<1>u. Unknown(server, log, h2, "panes", p)
  <2>1. Opens(server, h, h2)
      BY <1>g, <1>h DEF Opens
  <2>2. p \in Made("panes", h2) \ Made("panes", h) /\ "panes" \in Kinds
      BY <1>f, <1>h DEF Made, Kinds
  <2> QED
      BY <1>h, <2>1, <2>2, UnheardUnknown
<1>5. /\ server'.workspaces = server.workspaces /\ server'.tabs = server.tabs
      /\ server'.panes = P /\ server'.layouts = L
      /\ server'.freshW = server.freshW /\ server'.freshT = server.freshT
      /\ server'.freshP = Tail(server.freshP) /\ DOMAIN server' = DOMAIN server
    BY <1>2, <1>3
<1>6. Ready(server', h2)
    BY <1>1, <1>5, <1>f, <1>h DEF Ready
<1>7. /\ s1.workspaces = server.workspaces /\ s1.tabs = server.tabs
      /\ s1.panes = P /\ s1.layouts = server.layouts
    OBVIOUS
<1> HIDE DEF s1
<1>e. log' = log \o <<a, b>> /\ IsList(log) /\ Past(server, log, h2, {})
  <2>1. Past(server, log, h2, {})
      BY <1>1, <1>h, ExtendPast
  <2> QED
      BY <1>1, <1>3, <2>1
<1>m. Lawful(server, h2)
    BY <1>e DEF Past
<1>8. Reports(server, a, s1, log, h2)
  <2>1. Elsewhere(server, s1, "panes")
      BY <1>7, OneDiffers DEF Kinds
  <2> QED
      BY <1>m, <1>7, <1>p, <1>u, <2>1, NewPaneReports DEF P
<1>9. Lawful(s1, h2)
    BY <1>8 DEF Reports
<1>10. Reports(s1, b, server', Append(log, a), h2)
  <2>1. Elsewhere(s1, server', "layouts")
      BY <1>5, <1>7, OneDiffers DEF Kinds
  <2> QED
      BY <1>9, <1>l, <1>5, <1>7, <2>1, LayoutReports
<1>11. Pending(server, a, s1, h2, {}, {})
  <2>1. \A id : Alive(server, "panes", id) => Alive(s1, "panes", id)
      BY <1>7 DEF P, Alive, Recs, Ordered, Key
  <2> QED
      BY <2>1, SamePending
<1>12. Pending(s1, b, server', h2, {}, {})
    BY <1>5, <1>7, <1>l, PendingLayout
<1> HIDE DEF a, b
<1>13. /\ Past(server', log', h2, {})
       /\ Lasts(server, log, h2, server', log', h2)
    BY ONLY <1>e, <1>8, <1>10, <1>11, <1>12, TwoEvents
<1> QED
    BY <1>6, <1>13, <1>h, OnwardExtended

\* tab.create: the tab, its first pane and its layout.
LEMMA CreateTabOnward ==
    ASSUME NEW h, Standing(server, log, h), NEW w \in S!Range(server.workspaces), CreateTab(w)
    PROVE  Onward(server, log, h, server', log')
<1>1. Ready(server, h) /\ Lawful(server, h) /\ IsList(log) /\ Past(server, log, h, {})
      /\ Homes(h)
    BY StandingLog DEF Standing
<1>2. DOMAIN server = {"workspaces", "tabs", "panes", "names", "layouts",
                       "freshW", "freshT", "freshP"}
    BY <1>1 DEF Ready
<1> DEFINE p == Head(server.freshP)
           t == Head(server.freshT)
           tab == [id |-> t, ws |-> w.id, label |-> "new", focused |-> FALSE]
           pane == NewPane(p, t, w.id)
           layout == [tab |-> t, ws |-> w.id, focusedPane |-> p]
           L == {x \in server.layouts : x.tab # layout.tab} \cup {layout}
           P == server.panes \cup {pane}
           T == Append(server.tabs, tab)
           h1 == WithTab(h, t, w.id)
           h2 == WithPane(h1, p, t)
           a == [type |-> "TabCreated", tab |-> tab]
           b == [type |-> "PaneSet", pane |-> pane]
           c == [type |-> "LayoutUpdated", layout |-> layout]
           s1 == [workspaces |-> server.workspaces, tabs |-> T,
                  panes |-> server.panes, layouts |-> server.layouts]
           s2 == [workspaces |-> server.workspaces, tabs |-> T,
                  panes |-> P, layouts |-> server.layouts]
<1>f. /\ p \in Ids(server.freshP) /\ p \notin DOMAIN h.pane
      /\ Unused(Tail(server.freshP), DOMAIN h.pane \cup {p})
    BY <1>1, TakeFresh DEF Ready, CreateTab
<1>f2. /\ t \in Ids(server.freshT) /\ t \notin DOMAIN h.tab
       /\ Unused(Tail(server.freshT), DOMAIN h.tab \cup {t})
       /\ Ids(Tail(server.freshT)) \subseteq Ids(server.freshT)
    BY <1>1, TakeFresh DEF Ready, CreateTab
<1>g. w.id \in h.ws /\ Alive(server, "workspaces", w.id)
  <2>1. Good("workspaces", w, h) /\ Alive(server, "workspaces", w.id)
      BY <1>1, ListsLawful
  <2> QED
      BY <2>1 DEF Good
<1>h1. /\ Extends(h, h1) /\ Homes(h1)
       /\ h1.ws = h.ws /\ h1.pane = h.pane /\ h1.tab[t] = w.id
       /\ DOMAIN h1.tab = DOMAIN h.tab \cup {t}
  <2> HIDE DEF t, h1
  <2> QED
      BY <1>1, <1>f2, <1>g, WithTabExtends DEF h1
<1>h. /\ Extends(h, h2) /\ Homes(h2)
      /\ h2.ws = h.ws /\ h2.tab = h1.tab /\ h2.pane[p] = t
      /\ DOMAIN h2.pane = DOMAIN h.pane \cup {p}
  <2> HIDE DEF p, t, h1, h2
  <2>1. /\ Extends(h1, h2) /\ Homes(h2)
        /\ h2.ws = h1.ws /\ h2.tab = h1.tab /\ h2.pane[p] = t
        /\ DOMAIN h2.pane = DOMAIN h1.pane \cup {p}
      BY <1>f, <1>h1, WithPaneExtends DEF h2
  <2> QED
      BY <1>h1, <2>1, ExtendsTwice
<1>n. \A x \in server.layouts : x.tab # t
  <2>1. \A x \in server.layouts : x.tab \in DOMAIN h.tab
      BY <1>1, ListsLawful DEF Good
  <2> QED
      BY <2>1, <1>f2
<1>3. /\ server' = [server EXCEPT !.freshT = Tail(server.freshT), !.freshP = Tail(server.freshP),
                                  !.tabs = T, !.panes = P, !.layouts = L]
      /\ log' = log \o <<a, b, c>>
  <2>0. NewPane(p, tab.id, w.id) = pane /\ pane.id = p /\ tab.id = t
      BY DEF NewPane
  <2>1. L = server.layouts \cup {layout}
      BY <1>n
  <2>2. b = PaneSet(pane) /\ c = LayoutUpdated(layout)
      BY DEF LayoutUpdated, PaneSet
  <2>3. layout = [tab |-> tab.id, ws |-> w.id, focusedPane |-> NewPane(p, tab.id, w.id).id]
      BY <2>0
  <2>4. /\ server' = [server EXCEPT !.freshT = Tail(@), !.freshP = Tail(@),
                          !.tabs = Append(@, tab), !.panes = @ \cup {NewPane(p, tab.id, w.id)},
                          !.layouts = @ \cup {[tab |-> tab.id, ws |-> w.id,
                                        focusedPane |-> NewPane(p, tab.id, w.id).id]}]
        /\ log' = log \o <<a, PaneSet(NewPane(p, tab.id, w.id)),
                           LayoutUpdated([tab |-> tab.id, ws |-> w.id,
                                        focusedPane |-> NewPane(p, tab.id, w.id).id])>>
      BY DEF CreateTab, Operate
  <2> HIDE DEF L, b, c, a, layout, pane, tab, p, t
  <2> QED
      BY <2>0, <2>1, <2>2, <2>3, <2>4
<1>l. Good("layouts", layout, h2) /\ layout.tab = t
  <2> HIDE DEF h2, h1, p, t
  <2> QED
      BY <1>h1, <1>h DEF Good, Ordered
<1>t. Good("tabs", tab, h2) /\ tab.id = t
  <2> HIDE DEF h2, h1, p, t
  <2> QED
      BY <1>h1, <1>h DEF Good, Ordered
<1> HIDE DEF layout, tab
<1>p. Good("panes", pane, h2) /\ pane.id = p /\ pane.agent = Absent
  <2> HIDE DEF h2, h1, p, t, pane
  <2>1. pane = NewPane(p, t, w.id)
      BY DEF pane
  <2>2. p \in DOMAIN h2.pane /\ t = h2.pane[p] /\ w.id = h2.tab[t]
      BY <1>h1, <1>h
  <2> QED
      BY <2>1, <2>2, NewPaneGood
<1> HIDE DEF pane, h1, h2, p, t
<1>u. Unknown(server, log, h2, "panes", p) /\ Unknown(server, log, h2, "tabs", t)
  <2>1. Opens(server, h, h2)
      BY <1>f2, <1>g, <1>h1, <1>h DEF Opens
  <2>2. p \in Made("panes", h2) \ Made("panes", h) /\ "panes" \in Kinds
      BY <1>f, <1>h DEF Made, Kinds
  <2>3. t \in Made("tabs", h2) \ Made("tabs", h) /\ "tabs" \in Kinds
      BY <1>f2, <1>h1, <1>h DEF Made, Kinds
  <2> QED
      BY <1>h, <2>1, <2>2, <2>3, UnheardUnknown
<1>5. /\ server'.workspaces = server.workspaces /\ server'.tabs = T
      /\ server'.panes = P /\ server'.layouts = L
      /\ server'.freshW = server.freshW /\ server'.freshT = Tail(server.freshT)
      /\ server'.freshP = Tail(server.freshP) /\ DOMAIN server' = DOMAIN server
    BY <1>2, <1>3
<1>6. Ready(server', h2)
    BY <1>1, <1>5, <1>f, <1>f2, <1>h1, <1>h DEF Ready
<1>7. /\ s1.workspaces = server.workspaces /\ s1.tabs = T
      /\ s1.panes = server.panes /\ s1.layouts = server.layouts
      /\ s2.workspaces = server.workspaces /\ s2.tabs = T
      /\ s2.panes = P /\ s2.layouts = server.layouts
    OBVIOUS
<1> HIDE DEF s1, s2
<1>e. log' = log \o <<a, b, c>> /\ IsList(log) /\ Past(server, log, h2, {})
  <2>1. Past(server, log, h2, {})
      BY <1>1, <1>h, ExtendPast
  <2> QED
      BY <1>1, <1>3, <2>1
<1>m. Lawful(server, h2)
    BY <1>e DEF Past
<1>8. Reports(server, a, s1, log, h2)
  <2>1. Elsewhere(server, s1, "tabs")
      BY <1>7, OneDiffers DEF Kinds
  <2> QED
      BY <1>m, <1>7, <1>t, <1>u, <2>1, TabCreatedReports DEF T
<1>9. Lawful(s1, h2)
    BY <1>8 DEF Reports
<1>u2. Unknown(s1, Append(log, a), h2, "panes", p)
  <2>1. Recs(s1, "panes") = Recs(server, "panes")
      BY <1>7 DEF Recs, Ordered
  <2>2. "panes" \in Kinds /\ a.type \notin Tells("panes") /\ Mentions(a) = {}
      BY DEF Kinds, Tells, Mentions
  <2>3. Silent(a, "panes", h2)
      BY <2>2, SilentElse
  <2> QED
      BY <1>e, <1>u, <2>1, <2>2, <2>3, UnknownStill
<1>10. Reports(s1, b, s2, Append(log, a), h2)
  <2>1. Elsewhere(s1, s2, "panes")
      BY <1>7, OneDiffers DEF Kinds
  <2> QED
      BY <1>9, <1>7, <1>p, <1>u2, <2>1, NewPaneReports DEF P
<1>11. Lawful(s2, h2)
    BY <1>10 DEF Reports
<1>12. Reports(s2, c, server', Append(Append(log, a), b), h2)
  <2>1. Elsewhere(s2, server', "layouts")
      BY <1>5, <1>7, OneDiffers DEF Kinds
  <2> QED
      BY <1>11, <1>l, <1>5, <1>7, <2>1, LayoutReports
<1>13. /\ Pending(server, a, s1, h2, {}, {}) /\ Pending(s1, b, s2, h2, {}, {})
       /\ Pending(s2, c, server', h2, {}, {})
  <2>1. \A id : Alive(server, "panes", id) => Alive(s1, "panes", id)
      BY <1>7 DEF P, Alive, Recs, Ordered, Key
  <2>2. \A id : Alive(s1, "panes", id) => Alive(s2, "panes", id)
      BY <1>7 DEF P, Alive, Recs, Ordered, Key
  <2>3. \A id : Alive(s2, "panes", id) => Alive(server', "panes", id)
      BY <1>5, <1>7 DEF P, Alive, Recs, Ordered, Key
  <2> QED
      BY <2>1, <2>2, <2>3, SamePending
<1> HIDE DEF a, b, c
<1>14. Past(server', log', h2, {})
  <2>1. Past(s1, Append(log, a), h2, {})
      BY ONLY <1>e, <1>8, <1>13, OneReport
  <2>2. Past(s2, Append(Append(log, a), b), h2, {})
      BY ONLY <2>1, <1>10, <1>13, OneReport
  <2>3. Past(server', Append(Append(Append(log, a), b), c), h2, {})
      BY ONLY <2>2, <1>12, <1>13, OneReport
  <2>4. log' = Append(Append(Append(log, a), b), c)
      BY ONLY <1>e, LongerThrice
  <2> QED
      BY ONLY <2>3, <2>4
<1>15. Lasts(server, log, h2, server', log', h2)
    BY ONLY <1>e, <1>8, <1>10, <1>12, <1>13, ThreeEvents
<1> QED
    BY <1>6, <1>14, <1>15, <1>h, OnwardExtended

\* A pane with another id, somewhere else.
MovedAs(p, id, tab, ws) == [p EXCEPT !.id = id, !.tab = tab, !.ws = ws]

\* A pane that moves has its other fields.
LEMMA PaneMovedAs ==
    ASSUME NEW p, NEW id, NEW tab, NEW ws, PaneShaped(p), NEW q, q = MovedAs(p, id, tab, ws)
    PROVE  /\ PaneShaped(q) /\ q.id = id /\ q.tab = tab /\ q.ws = ws
           /\ q.focused = p.focused /\ q.agent = p.agent
           /\ q.display = p.display /\ q.status = p.status /\ q.rev = p.rev
<1>1. PICK a : a = [p EXCEPT !.id = id]
    OBVIOUS
<1>2. /\ PaneShaped(a) /\ a.id = id
      /\ a.focused = p.focused /\ a.agent = p.agent
      /\ a.display = p.display /\ a.status = p.status /\ a.rev = p.rev
    BY <1>1 DEF PaneShaped
<1>3. PICK b : b = [a EXCEPT !.tab = tab]
    OBVIOUS
<1>4. /\ PaneShaped(b) /\ b.id = id /\ b.tab = tab
      /\ b.focused = p.focused /\ b.agent = p.agent
      /\ b.display = p.display /\ b.status = p.status /\ b.rev = p.rev
    BY ONLY <1>2, <1>3 DEF PaneShaped
<1>5. q = [b EXCEPT !.ws = ws]
    BY <1>1, <1>3 DEF MovedAs
<1> QED
    BY ONLY <1>4, <1>5 DEF PaneShaped

\* A pane that moves is where its new id was made.
LEMMA GoodMovedPane ==
    ASSUME NEW h, NEW h2, NEW pane, NEW id, NEW tab, NEW ws, NEW new,
           Good("panes", pane, h), new = MovedAs(pane, id, tab, ws),
           id \in DOMAIN h2.pane, h2.pane[id] = tab, h2.tab[tab] = ws
    PROVE  /\ Good("panes", new, h2) /\ new.id = id /\ new.tab = tab /\ new.ws = ws
           /\ new.focused = pane.focused /\ new.agent = pane.agent
<1>1. PaneShaped(pane) /\ pane.focused \in BOOLEAN
    BY DEF Good, PaneShaped, Ordered
<1>2. /\ PaneShaped(new) /\ new.id = id /\ new.tab = tab /\ new.ws = ws
      /\ new.focused = pane.focused /\ new.agent = pane.agent
    BY <1>1, PaneMovedAs
<1> QED
    BY <1>1, <1>2 DEF Good, PaneShaped, Ordered

\* pane.move to a new tab of a new workspace, with all it pushes.
LEMMA BreakOutPaneOnward ==
    ASSUME NEW h, Standing(server, log, h), NEW pane \in server.panes, BreakOutPane(pane)
    PROVE  Onward(server, log, h, server', log')
<1>1. Ready(server, h) /\ Lawful(server, h) /\ IsList(log) /\ Past(server, log, h, {})
      /\ Homes(h)
    BY StandingLog DEF Standing
<1>2. DOMAIN server = {"workspaces", "tabs", "panes", "names", "layouts",
                       "freshW", "freshT", "freshP"}
    BY <1>1 DEF Ready
<1> DEFINE p == Head(server.freshP)
           t == Head(server.freshT)
           u == Head(server.freshW)
           w == NewWorkspace(u)
           tab == NewTab(t, u)
           new == MovedAs(pane, p, t, u)
           target == [tab |-> t, ws |-> u, focusedPane |-> p]
           source == LayoutFor(pane.tab, pane.ws, PanesIn(pane.tab) \ {pane},
                               FocusedPaneOf(pane.tab))
           L2 == {x \in server.layouts : x.tab # source.tab} \cup {source}
           L == {x \in L2 : x.tab # target.tab} \cup {target}
           P == (server.panes \ {pane}) \cup {new}
           W == Append(server.workspaces, w)
           T == Append(server.tabs, tab)
           h0 == WithWorkspace(h, u)
           h1 == WithTab(h0, t, u)
           h2 == WithPane(h1, p, t)
           a == [type |-> "PaneMoved", previous |-> pane.id, pane |-> new,
                 createdWorkspace |-> w, createdTab |-> tab,
                 closedTab |-> Absent, closedWorkspace |-> Absent]
           b == [type |-> "LayoutUpdated", layout |-> source]
           c == [type |-> "LayoutUpdated", layout |-> target]
           s1 == [workspaces |-> W, tabs |-> T, panes |-> P, layouts |-> server.layouts]
           s2 == [workspaces |-> W, tabs |-> T, panes |-> P, layouts |-> L2]
<1>f. /\ p \in Ids(server.freshP) /\ p \notin DOMAIN h.pane
      /\ Unused(Tail(server.freshP), DOMAIN h.pane \cup {p})
    BY <1>1, TakeFresh DEF Ready, BreakOutPane
<1>f2. /\ t \in Ids(server.freshT) /\ t \notin DOMAIN h.tab
       /\ Unused(Tail(server.freshT), DOMAIN h.tab \cup {t})
       /\ Ids(Tail(server.freshT)) \subseteq Ids(server.freshT)
    BY <1>1, TakeFresh DEF Ready, BreakOutPane
<1>f3. /\ u \in Ids(server.freshW) /\ u \notin h.ws
       /\ Unused(Tail(server.freshW), h.ws \cup {u})
       /\ Ids(Tail(server.freshW)) \subseteq Ids(server.freshW)
    BY <1>1, TakeFresh DEF Ready, BreakOutPane
<1>x. /\ w # Absent /\ tab # Absent /\ t # Absent /\ Absent \notin DOMAIN h.tab
  <2> HIDE DEF u, t
  <2> QED
      BY <1>1, <1>f2, <1>f3 DEF Ready
<1>g. Good("panes", pane, h) /\ pane.focused = FALSE
  <2>1. Good("panes", pane, h)
      BY <1>1, ListsLawful
  <2> QED
      BY <2>1 DEF Good, Ordered, BreakOutPane
<1>k. /\ pane.tab = h.pane[pane.id] /\ pane.id \in DOMAIN h.pane
      /\ pane.tab \in DOMAIN h.tab /\ pane.ws = h.tab[pane.tab]
    BY <1>1, <1>g DEF Good, Ordered, Homes
<1>h0. /\ Extends(h, h0) /\ Homes(h0)
       /\ h0.ws = h.ws \cup {u} /\ h0.tab = h.tab /\ h0.pane = h.pane
  <2> HIDE DEF u, h0
  <2> QED
      BY <1>1, WithWorkspaceExtends DEF h0
<1>h1. /\ Extends(h, h1) /\ Homes(h1)
       /\ h1.ws = h0.ws /\ h1.pane = h.pane /\ h1.tab[t] = u
       /\ DOMAIN h1.tab = DOMAIN h.tab \cup {t}
  <2> HIDE DEF t, u, h1, h0
  <2>1. /\ Extends(h0, h1) /\ Homes(h1)
        /\ h1.ws = h0.ws /\ h1.pane = h0.pane /\ h1.tab[t] = u
        /\ DOMAIN h1.tab = DOMAIN h0.tab \cup {t}
      BY <1>h0, <1>f2, WithTabExtends DEF h1
  <2> QED
      BY <1>h0, <2>1, ExtendsTwice
<1>h. /\ Extends(h, h2) /\ Homes(h2)
      /\ h2.ws = h0.ws /\ h2.tab = h1.tab /\ h2.pane[p] = t
      /\ DOMAIN h2.pane = DOMAIN h.pane \cup {p}
  <2> HIDE DEF p, t, h1, h2
  <2>1. /\ Extends(h1, h2) /\ Homes(h2)
        /\ h2.ws = h1.ws /\ h2.tab = h1.tab /\ h2.pane[p] = t
        /\ DOMAIN h2.pane = DOMAIN h1.pane \cup {p}
      BY <1>f, <1>h1, WithPaneExtends DEF h2
  <2> QED
      BY <1>h1, <2>1, ExtendsTwice
<1>h3. h2.tab[pane.tab] = pane.ws /\ h2.pane[pane.id] = pane.tab /\ pane.tab \in DOMAIN h2.tab
  <2> HIDE DEF h2
  <2> QED
      BY <1>h, <1>k DEF Extends
<1>l. Good("layouts", source, h2) /\ source.tab = pane.tab
  <2>2. PICK Q, o : source = LayoutFor(pane.tab, pane.ws, Q, o)
      OBVIOUS
  <2> HIDE DEF source, h2
  <2> QED
      BY <1>h3, <2>2 DEF LayoutFor, Good, Ordered
<1>l2. Good("layouts", target, h2) /\ target.tab = t
  <2> HIDE DEF h2, h1, p, t, u
  <2> QED
      BY <1>h1, <1>h DEF Good, Ordered
<1>n. \A x \in L2 : x.tab # t
  <2>1. \A x \in server.layouts : x.tab \in DOMAIN h.tab
      BY <1>1, ListsLawful DEF Good
  <2> HIDE DEF t, source
  <2> QED
      BY <2>1, <1>f2, <1>l, <1>k
<1>3. /\ server' = [server EXCEPT !.freshP = Tail(server.freshP), !.freshT = Tail(server.freshT),
                                  !.freshW = Tail(server.freshW), !.panes = P,
                                  !.names = server'.names,
                                  !.workspaces = W, !.tabs = T, !.layouts = L]
      /\ log' = log \o <<a, b, c>>
  <2>w. [id |-> u, label |-> "new", focused |-> FALSE] = w /\ w.id = u
      BY DEF NewWorkspace
  <2>t. [id |-> t, ws |-> w.id, label |-> "new", focused |-> FALSE] = tab /\ tab.id = t
      BY <2>w DEF NewTab
  <2>p. [pane EXCEPT !.id = p, !.tab = tab.id, !.ws = w.id] = new
      BY <2>w, <2>t DEF MovedAs
  <2>k. new.id = p
    <3>1. PaneShaped(pane)
        BY <1>g DEF Good, PaneShaped, Ordered
    <3> HIDE DEF p, t, u
    <3> QED
        BY <3>1, PaneMovedAs
  <2>g. target = [tab |-> tab.id, ws |-> w.id, focusedPane |-> new.id]
      BY <2>w, <2>t, <2>k
  <2>1. L = L2 \cup {target} /\ L2 = ReplaceLayout(server.layouts, source)
      BY <1>n DEF ReplaceLayout
  <2>2. b = LayoutUpdated(source) /\ c = LayoutUpdated(target)
      BY DEF LayoutUpdated
  <2>3. PICK w0, tab0, new0, target0 :
          /\ w0 = [id |-> Head(server.freshW), label |-> "new", focused |-> FALSE]
          /\ tab0 = [id |-> Head(server.freshT), ws |-> w0.id, label |-> "new", focused |-> FALSE]
          /\ new0 = [pane EXCEPT !.id = Head(server.freshP), !.tab = tab0.id, !.ws = w0.id]
          /\ target0 = [tab |-> tab0.id, ws |-> w0.id, focusedPane |-> new0.id]
          /\ server' = [server EXCEPT
                   !.freshP = Tail(@), !.freshT = Tail(@), !.freshW = Tail(@),
                   !.panes = (@ \ {pane}) \cup {new0},
                   !.names = [@ EXCEPT ![new0.id] = server.names[pane.id]],
                   !.workspaces = Append(@, w0), !.tabs = Append(@, tab0),
                   !.layouts = ReplaceLayout(@, source) \cup {target0}]
          /\ log' = log \o
               <<[type |-> "PaneMoved", previous |-> pane.id, pane |-> new0,
                  createdWorkspace |-> w0, createdTab |-> tab0,
                  closedTab |-> Absent, closedWorkspace |-> Absent],
                 LayoutUpdated(source), LayoutUpdated(target0)>>
    <3> HIDE DEF source
    <3>1. source = LayoutFor(pane.tab, pane.ws, PanesIn(pane.tab) \ {pane},
                               FocusedPaneOf(pane.tab))
        BY DEF source
    <3> QED
        BY <3>1 DEF BreakOutPane, Operate
  <2>4. w0 = w /\ tab0 = tab /\ new0 = new /\ target0 = target
    <3>1. w0 = w
        BY <2>3, <2>w
    <3>2. tab0 = tab
        BY <3>1, <2>3, <2>t
    <3>3. new0 = new
        BY <3>1, <3>2, <2>3, <2>p
    <3> HIDE DEF w, tab, new, target
    <3> QED
        BY <3>1, <3>2, <3>3, <2>3, <2>g
  <2> HIDE DEF L, L2, b, c, w, tab, new, target, source, p, t, u
  <2>5. PICK N : server' = [server EXCEPT
                   !.freshP = Tail(@), !.freshT = Tail(@), !.freshW = Tail(@),
                   !.panes = P, !.names = N,
                   !.workspaces = W, !.tabs = T, !.layouts = L]
      BY <2>3, <2>4, <2>1
  <2>6. server'.names = N
      BY <2>5, <1>2
  <2>7. log' = log \o <<a, b, c>>
      BY <2>3, <2>4, <2>2
  <2> QED
      BY <2>5, <2>6, <2>7
<1>t. Good("tabs", tab, h2) /\ tab.id = t
  <2> HIDE DEF h2, h1, p, t, u
  <2> QED
      BY <1>h1, <1>h DEF Good, Ordered, NewTab
<1>w. Good("workspaces", w, h2) /\ w.id = u
  <2> HIDE DEF h2, h1, h0, p, t, u
  <2> QED
      BY <1>h0, <1>h DEF Good, Ordered, NewWorkspace
<1> HIDE DEF target, source, tab, w
<1>p. Good("panes", new, h2) /\ new.id = p /\ new.agent = pane.agent /\ new.focused = FALSE
      /\ new.tab = t
  <2> HIDE DEF h2, h1, p, t, u, new
  <2>1. new = MovedAs(pane, p, t, u)
      BY DEF new
  <2>2. p \in DOMAIN h2.pane /\ t = h2.pane[p] /\ u = h2.tab[t]
      BY <1>h1, <1>h
  <2>3. p \in DOMAIN h2.pane /\ h2.pane[p] = t /\ h2.tab[t] = u /\ Good("panes", pane, h)
      BY <1>g, <2>2
  <2>4. /\ Good("panes", new, h2) /\ new.id = p /\ new.tab = t
        /\ new.focused = pane.focused /\ new.agent = pane.agent
      BY ONLY <2>1, <2>3, GoodMovedPane
  <2> QED
      BY <1>g, <2>4
<1> HIDE DEF new, h0, h1, h2, p, t, u
<1>u. /\ Unknown(server, log, h2, "panes", p) /\ Unknown(server, log, h2, "tabs", t)
      /\ Unknown(server, log, h2, "workspaces", u)
  <2>1. Opens(server, h, h2)
      BY <1>f2, <1>f3, <1>h0, <1>h1, <1>h DEF Opens
  <2>2. p \in Made("panes", h2) \ Made("panes", h) /\ "panes" \in Kinds
      BY <1>f, <1>h DEF Made, Kinds
  <2>3. t \in Made("tabs", h2) \ Made("tabs", h) /\ "tabs" \in Kinds
      BY <1>f2, <1>h1, <1>h DEF Made, Kinds
  <2>4. u \in Made("workspaces", h2) \ Made("workspaces", h) /\ "workspaces" \in Kinds
      BY <1>f3, <1>h0, <1>h DEF Made, Kinds
  <2> QED
      BY <1>h, <2>1, <2>2, <2>3, <2>4, UnheardUnknown
<1>5. /\ server'.workspaces = W /\ server'.tabs = T
      /\ server'.panes = P /\ server'.layouts = L
      /\ server'.freshW = Tail(server.freshW) /\ server'.freshT = Tail(server.freshT)
      /\ server'.freshP = Tail(server.freshP) /\ DOMAIN server' = DOMAIN server
    BY <1>2, <1>3
<1>6. Ready(server', h2)
    BY <1>1, <1>5, <1>f, <1>f2, <1>f3, <1>h0, <1>h1, <1>h DEF Ready
<1>7. /\ s1.workspaces = W /\ s1.tabs = T /\ s1.panes = P /\ s1.layouts = server.layouts
      /\ s2.workspaces = W /\ s2.tabs = T /\ s2.panes = P /\ s2.layouts = L2
    OBVIOUS
<1> HIDE DEF s1, s2
<1>e. log' = log \o <<a, b, c>> /\ IsList(log) /\ Past(server, log, h2, {})
  <2>1. Past(server, log, h2, {})
      BY <1>1, <1>h, ExtendPast
  <2> QED
      BY <1>1, <1>3, <2>1
<1>m. Lawful(server, h2)
    BY <1>e DEF Past
<1>a. /\ a.type = "PaneMoved" /\ a.previous = pane.id /\ a.pane = new
      /\ a.createdWorkspace = w /\ a.createdTab = tab
      /\ a.closedTab = Absent /\ a.closedWorkspace = Absent
    OBVIOUS
<1> HIDE DEF a
<1>8. Reports(server, a, s1, log, h2)
  <2>1. Puts(a, "workspaces") = {w} /\ Puts(a, "tabs") = {tab}
      BY <1>a, <1>x DEF Puts, EventTabs
  <2>2. Only(a, "workspaces", h2) /\ Only(a, "tabs", h2)
    <3>1. Only(a, "workspaces", h2)
        BY <1>a DEF Only, Closes, Reorders, Written
    <3>2. Only(a, "tabs", h2)
        BY <1>a DEF Only, Closes, Reorders, Written
    <3> QED
        BY <3>1, <3>2
  <2>3. /\ Gains("workspaces", server, a, s1, log, h2, w)
        /\ Gains("tabs", server, a, s1, log, h2, tab)
      BY <1>t, <1>w, <1>u, <1>7, <2>1, <2>2 DEF Gains
  <2>4. /\ Does("workspaces", server, a, s1, log, h2)
        /\ Does("tabs", server, a, s1, log, h2)
    <3>1. "workspaces" \in Ordered /\ "tabs" \in Ordered
          /\ "workspaces" \in Kinds /\ "tabs" \in Kinds
        BY DEF Ordered, Kinds
    <3>2. LawfulIn("workspaces", server, h2) /\ LawfulIn("tabs", server, h2)
        BY <1>m, <3>1, LawfulParts
    <3> QED
        BY <2>3, <3>1, <3>2, GainsDoes
  <2>5. Moves(server, a, s1, log, h2, pane, new)
    <3>1. \A r \in server.panes : r.tab # Absent
      <4>1. \A r \in server.panes : r.tab \in DOMAIN h.tab
          BY <1>1, ListsLawful DEF Good, Ordered, Homes
      <4> QED
          BY <4>1, <1>x
    <3>2. /\ s1.panes = (server.panes \ {pane}) \cup {new}
          /\ s1.layouts = {x \in server.layouts : a.closedTab = Absent \/ x.tab # a.closedTab}
        BY <1>7, <1>a
    <3> QED
        BY <1>a, <1>p, <1>u, <1>x, <3>1, <3>2 DEF Moves
  <2> QED
      BY <1>m, <1>t, <1>w, <2>1, <2>4, <2>5, PaneMovedReports
<1>9. Lawful(s1, h2)
    BY <1>8 DEF Reports
<1>10. Reports(s1, b, s2, Append(log, a), h2)
  <2>1. Elsewhere(s1, s2, "layouts")
      BY <1>7, OneDiffers DEF Kinds
  <2> QED
      BY <1>9, <1>7, <1>l, <2>1, LayoutReports
<1>11. Lawful(s2, h2)
    BY <1>10 DEF Reports
<1>12. Reports(s2, c, server', Append(Append(log, a), b), h2)
  <2>1. Elsewhere(s2, server', "layouts")
      BY <1>5, <1>7, OneDiffers DEF Kinds
  <2> QED
      BY <1>11, <1>l2, <1>5, <1>7, <2>1, LayoutReports
<1>13. /\ Pending(server, a, s1, h2, {}, {pane.tab})
       /\ Pending(s1, b, s2, h2, {pane.tab}, {})
       /\ Pending(s2, c, server', h2, {}, {})
  <2>1. Pending(server, a, s1, h2, {}, {pane.tab})
    <3> SUFFICES ASSUME NEW q, Alive(server, "panes", q), ~Alive(s1, "panes", q)
                 PROVE  h2.pane[q] = pane.tab
        BY DEF Pending
    <3>1. PICK r \in server.panes : r.id = q
        BY DEF Alive, Recs, Ordered, Key
    <3>2. r = pane
        BY <1>7, <3>1 DEF P, Alive, Recs, Ordered, Key
    <3> QED
        BY <3>1, <3>2, <1>h3
  <2>2. Pending(s1, b, s2, h2, {pane.tab}, {})
      BY <1>7, <1>l, PendingLayout
  <2>3. Pending(s2, c, server', h2, {}, {})
      BY <1>5, <1>7, PendingLayout
  <2> QED
      BY <2>1, <2>2, <2>3
<1> HIDE DEF b, c
<1>14. Past(server', log', h2, {})
  <2>1. Past(s1, Append(log, a), h2, {pane.tab})
      BY ONLY <1>e, <1>8, <1>13, OneReport
  <2>2. Past(s2, Append(Append(log, a), b), h2, {})
      BY ONLY <2>1, <1>10, <1>13, OneReport
  <2>3. Past(server', Append(Append(Append(log, a), b), c), h2, {})
      BY ONLY <2>2, <1>12, <1>13, OneReport
  <2>4. log' = Append(Append(Append(log, a), b), c)
      BY ONLY <1>e, LongerThrice
  <2> QED
      BY ONLY <2>3, <2>4
<1>15. Lasts(server, log, h2, server', log', h2)
    BY ONLY <1>e, <1>8, <1>10, <1>12, <1>13, ThreeEvents
<1> QED
    BY <1>6, <1>14, <1>15, <1>h, OnwardExtended

\* A finite set as a list has each element in one place.
LEMMA SetToSeqFacts ==
    ASSUME NEW T, IsFiniteSet(T), NEW q, q = S!SetToSeq(T)
    PROVE  /\ IsList(q) /\ Ids(q) = T /\ Distinct(q) /\ Len(q) = Cardinality(T)
           /\ DOMAIN q = 1..Len(q)
<1> DEFINE n == Cardinality(T)
<1>1. n \in Nat /\ ExistsBijection(1..n, T)
    BY FS_CardinalityType
<1> HIDE DEF n
<1>2. PICK f : f \in [1..n -> T] /\ \A a, b \in 1..n : f[a] = f[b] => a = b
    BY <1>1 DEF ExistsBijection, Bijection, Injection, IsInjective
<1>3. S!IsInjective(f)
    BY <1>2 DEF S!IsInjective
<1>4. q \in [1..n -> T] /\ S!IsInjective(q)
  <2>0. S!Cardinality(T) = Cardinality(T)
      BY Zenon DEF S!Cardinality, Cardinality
  <2>1. \E g \in [1..n -> T] : S!IsInjective(g)
      BY <1>2, <1>3
  <2>2. S!SetToSeq(T) = CHOOSE g \in [1..n -> T] : S!IsInjective(g)
      BY <2>0 DEF S!SetToSeq, n
  <2> QED
      BY <2>1, <2>2
<1>5. \A a, b \in 1..n : q[a] = q[b] => a = b
    BY <1>4 DEF S!IsInjective
<1>6. q \in Injection(1..n, T)
    BY <1>4, <1>5 DEF Injection, IsInjective
<1>7. Cardinality(1..n) = n /\ IsFiniteSet(1..n)
    BY <1>1, FS_Interval
<1>8. q \in Surjection(1..n, T)
    BY <1>6, <1>7, FS_Injection DEF n
<1>9. \A t \in T : \E i \in 1..n : q[i] = t
    BY <1>8 DEF Surjection
<1>10. q \in Seq(T) /\ Len(q) = n /\ DOMAIN q = 1..Len(q)
    BY <1>1, <1>4
<1>11. IsList(q)
    BY <1>10, SeqIsList
<1>12. Ids(q) = T
    BY <1>4, <1>9, <1>10 DEF Ids
<1>13. Distinct(q)
    BY <1>5, <1>10 DEF Distinct
<1> QED
    BY <1>10, <1>11, <1>12, <1>13 DEF n

\* Of one element there is one list, of two there are two.
LEMMA OneListed ==
    ASSUME NEW x, NEW q, q = S!SetToSeq({x})
    PROVE  q = <<x>>
<1>1. IsFiniteSet({x}) /\ Cardinality({x}) = 1
    BY FS_Singleton
<1>2. /\ IsList(q) /\ Ids(q) = {x} /\ Len(q) = 1
    BY <1>1, SetToSeqFacts
<1>3. q \in Seq({x})
    BY <1>2 DEF IsList
<1>4. q[1] = x
    BY <1>2, <1>3
<1> QED
    BY <1>2, <1>3, <1>4

\* Two layouts are reported in one order or the other.
LEMMA TwoListed ==
    ASSUME NEW x, NEW y, x # y, NEW q, q = S!SetToSeq({x, y})
    PROVE  q = <<x, y>> \/ q = <<y, x>>
<1>1. IsFiniteSet({x}) /\ Cardinality({x}) = 1
    BY FS_Singleton
<1>2. IsFiniteSet({x, y}) /\ Cardinality({x, y}) = 2
  <2>1. {x, y} = {x} \cup {y} /\ y \notin {x}
      OBVIOUS
  <2> QED
      BY <1>1, <2>1, FS_AddElement
<1>3. /\ IsList(q) /\ Ids(q) = {x, y} /\ Len(q) = 2 /\ Distinct(q)
    BY <1>2, SetToSeqFacts
<1>4. q \in Seq({x, y})
    BY <1>3 DEF IsList
<1>5. q[1] \in {x, y} /\ q[2] \in {x, y}
    BY <1>3, <1>4
<1>6. q[1] # q[2]
  <2>1. Len(q) = 2 /\ \A i, j \in 1..Len(q) : q[i] = q[j] => i = j
      BY <1>3 DEF Distinct
  <2> QED
      BY ONLY <2>1
<1> QED
    BY <1>3, <1>4, <1>5, <1>6

\* The one layout still to be reported is, by layout.updated.
LEMMA OneLayout ==
    ASSUME NEW s, NEW s2, NEW l, NEW l2, NEW h, NEW Q, NEW x, NEW e,
           Past(s, l, h, Q), Q \subseteq {x.tab}, Good("layouts", x, h),
           e = LayoutUpdated(x), l2 = Append(l, e),
           s2.workspaces = s.workspaces, s2.tabs = s.tabs, s2.panes = s.panes,
           s2.layouts = {z \in s.layouts : z.tab # x.tab} \cup {x}
    PROVE  Past(s2, l2, h, {}) /\ Lasts(s, l, h, s2, l2, h)
<1>1. Elsewhere(s, s2, "layouts")
    BY OneDiffers DEF Kinds
<1>2. e = [type |-> "LayoutUpdated", layout |-> x]
    BY DEF LayoutUpdated
<1>3. Reports(s, e, s2, l, h)
    BY <1>1, <1>2, LayoutReports DEF Past
<1>4. Pending(s, e, s2, h, Q, {})
    BY <1>2, PendingLayout
<1> HIDE DEF LayoutUpdated
<1> QED
    BY <1>3, <1>4, OneReport

\* Two layouts still to be reported are, by one layout.updated after the other.
LEMMA TwoLayouts ==
    ASSUME NEW s, NEW s2, NEW l, NEW l2, NEW h, NEW Q, NEW x, NEW y, NEW a, NEW b,
           Past(s, l, h, Q), Q \subseteq {x.tab, y.tab}, x.tab # y.tab,
           Good("layouts", x, h), Good("layouts", y, h),
           a = LayoutUpdated(x), b = LayoutUpdated(y), l2 = Append(Append(l, a), b),
           s2.workspaces = s.workspaces, s2.tabs = s.tabs, s2.panes = s.panes,
           s2.layouts = {z \in s.layouts : z.tab \notin {x.tab, y.tab}} \cup {x, y}
    PROVE  Past(s2, l2, h, {}) /\ Lasts(s, l, h, s2, l2, h)
<1> DEFINE L == {z \in s.layouts : z.tab # x.tab} \cup {x}
<1>1. PICK s1 : /\ s1.workspaces = s.workspaces /\ s1.tabs = s.tabs
                /\ s1.panes = s.panes /\ s1.layouts = L
  <2> DEFINE r == [workspaces |-> s.workspaces, tabs |-> s.tabs, panes |-> s.panes,
                   layouts |-> L]
  <2>1. /\ r.workspaces = s.workspaces /\ r.tabs = s.tabs
        /\ r.panes = s.panes /\ r.layouts = L
      OBVIOUS
  <2> HIDE DEF r
  <2> QED
      BY <2>1
<1>2. Elsewhere(s, s1, "layouts")
    BY <1>1, OneDiffers DEF Kinds
<1>3. a = [type |-> "LayoutUpdated", layout |-> x]
    BY DEF LayoutUpdated
<1>4. Reports(s, a, s1, l, h)
    BY <1>1, <1>2, <1>3, LayoutReports DEF Past
<1>5. Pending(s, a, s1, h, Q, {y.tab})
    BY <1>1, <1>3, PendingLayout
<1> PICK l1 : l1 = Append(l, a)
    OBVIOUS
<1>6. Past(s1, l1, h, {y.tab}) /\ Lasts(s, l, h, s1, l1, h)
    BY <1>4, <1>5, OneReport
<1>7. s2.layouts = {z \in s1.layouts : z.tab # y.tab} \cup {y}
    BY <1>1
<1>8. l2 = Append(l1, b)
    OBVIOUS
<1>9. Past(s2, l2, h, {}) /\ Lasts(s1, l1, h, s2, l2, h)
  <2>1. /\ Past(s1, l1, h, {y.tab}) /\ {y.tab} \subseteq {y.tab} /\ Good("layouts", y, h)
        /\ b = LayoutUpdated(y) /\ l2 = Append(l1, b)
        /\ s2.workspaces = s1.workspaces /\ s2.tabs = s1.tabs /\ s2.panes = s1.panes
      BY <1>1, <1>6, <1>8
  <2> QED
      BY ONLY <2>1, <1>7, OneLayout
<1> QED
    BY <1>6, <1>9, LastsTwice

\* pane.moved to a tab there is, and what it does but to the layouts of the two tabs.
MovedTo(s, s1, a, pane, new, closed, tabs) ==
    /\ a = [type |-> "PaneMoved", previous |-> pane.id, pane |-> new,
            createdWorkspace |-> Absent, createdTab |-> Absent,
            closedTab |-> closed, closedWorkspace |-> Absent]
    /\ s1.workspaces = s.workspaces /\ s1.tabs = tabs
    /\ s1.panes = (s.panes \ {pane}) \cup {new}
    /\ s1.layouts = {x \in s.layouts : closed = Absent \/ x.tab # closed}

\* pane.moved to a tab there is reports the pane, and the tab it leaves when it was its
\* last one.
LEMMA MovedToReports ==
    ASSUME NEW s, NEW s1, NEW a, NEW l, NEW h, NEW pane, NEW new, NEW closed, NEW tabs,
           MovedTo(s, s1, a, pane, new, closed, tabs), Lawful(s, h), pane \in s.panes,
           Good("panes", new, h), Unknown(s, l, h, "panes", new.id),
           new.agent = pane.agent, new.focused = FALSE, new.tab # closed,
           Absent \notin DOMAIN h.tab,
           \/ closed = Absent /\ tabs = s.tabs
           \/ /\ closed = pane.tab /\ \A p \in s.panes : p.tab = closed => p = pane
              /\ tabs = Among(s.tabs, {r \in Ids(s.tabs) : r.id # closed})
    PROVE  Reports(s, a, s1, l, h)
<1>1. /\ a.type = "PaneMoved" /\ a.previous = pane.id /\ a.pane = new
      /\ a.createdWorkspace = Absent /\ a.createdTab = Absent
      /\ a.closedTab = closed /\ a.closedWorkspace = Absent
    BY DEF MovedTo
<1>2. /\ s1.workspaces = s.workspaces /\ s1.tabs = tabs
      /\ s1.panes = (s.panes \ {pane}) \cup {new}
      /\ s1.layouts = {x \in s.layouts : a.closedTab = Absent \/ x.tab # a.closedTab}
    BY <1>1 DEF MovedTo
<1>3. Puts(a, "workspaces") = {} /\ Puts(a, "tabs") = {}
    BY <1>1 DEF Puts, EventTabs
<1>4. /\ "workspaces" \in Ordered /\ "tabs" \in Ordered
      /\ "workspaces" \in Kinds /\ "tabs" \in Kinds
    BY DEF Ordered, Kinds
<1>5. LawfulIn("workspaces", s, h) /\ LawfulIn("tabs", s, h)
    BY <1>4, LawfulParts
<1>6. /\ \A g : ~Reorders(a, "workspaces", g) /\ ~Reorders(a, "tabs", g)
      /\ \A id, f : Written(a, "workspaces", id, f, h) = {} /\ Written(a, "tabs", id, f, h) = {}
      /\ \A id : ~Closes(a, "workspaces", id, h)
      /\ \A id : Closes(a, "tabs", id, h) <=> closed # Absent /\ closed = id
  <2>1. \A g : ~Reorders(a, "workspaces", g) /\ ~Reorders(a, "tabs", g)
      BY <1>1 DEF Reorders
  <2>2. \A id, f : Written(a, "workspaces", id, f, h) = {} /\ Written(a, "tabs", id, f, h) = {}
      BY <1>1, <1>3 DEF Written
  <2>3. /\ \A id : ~Closes(a, "workspaces", id, h)
        /\ \A id : Closes(a, "tabs", id, h) <=> closed # Absent /\ closed = id
      BY <1>1 DEF Closes
  <2> QED
      BY <2>1, <2>2, <2>3
<1>7. Does("workspaces", s, a, s1, l, h)
  <2>1. Silent(a, "workspaces", h)
      BY <1>3, <1>6 DEF Silent
  <2>2. s1["workspaces"] = s["workspaces"]
      BY <1>2
  <2> QED
      BY <1>5, <2>1, <2>2, StillDoes
<1>8. Good("panes", pane, h) /\ pane.tab \in DOMAIN h.tab
  <2>1. Good("panes", pane, h) /\ Homes(h)
      BY ListsLawful DEF Lawful
  <2> QED
      BY <2>1 DEF Good, Ordered, Homes
<1>9. Does("tabs", s, a, s1, l, h)
  <2>1. CASE closed = Absent /\ tabs = s.tabs
    <3>1. Silent(a, "tabs", h)
        BY <1>3, <1>6, <2>1 DEF Silent
    <3>2. s1["tabs"] = s["tabs"]
        BY <1>2, <2>1
    <3> QED
        BY <1>5, <3>1, <3>2, StillDoes
  <2>2. CASE /\ closed = pane.tab
             /\ tabs = Among(s.tabs, {r \in Ids(s.tabs) : r.id # closed})
    <3>1. PICK set : set = {r \in Ids(s.tabs) : ~Closes(a, "tabs", r.id, h)}
        OBVIOUS
    <3>2. set = {r \in Ids(s.tabs) : r.id # closed}
        BY <3>1, <2>2, <1>6, <1>8
    <3>3. s1["tabs"] = Among(s["tabs"], set) /\ set = {r \in Ids(s["tabs"]) : ~Closes(a, "tabs", r.id, h)}
        BY <1>2, <2>2, <3>1, <3>2
    <3>4. Removes("tabs", s, a, s1, h)
        BY <1>3, <1>4, <1>5, <1>6, <3>3, RemovesList
    <3> QED
        BY <1>5, <3>4, RemoveDoes
  <2> QED
      BY <2>1, <2>2
<1>10. Moves(s, a, s1, l, h, pane, new)
  <2>1. \A r \in s.panes : r.tab # Absent
    <3>1. ASSUME NEW r \in s.panes PROVE r.tab \in DOMAIN h.tab
      <4>1. Good("panes", r, h) /\ Homes(h)
          BY ListsLawful DEF Lawful
      <4> QED
          BY <4>1 DEF Good, Ordered, Homes
    <3> QED
        BY <3>1
  <2>2. \A p \in s.panes : p.tab = closed => p = pane
      BY <2>1
  <2>3. closed # Absent => closed \in DOMAIN h.tab
      BY <1>8
  <2> QED
      BY <1>1, <1>2, <2>2, <2>3 DEF Moves
<1> QED
    BY <1>3, <1>7, <1>9, <1>10, PaneMovedReports

\* Of the pane that left, the layout is still to be reported, or gone.
LEMMA MovedToPending ==
    ASSUME NEW s, NEW s1, NEW a, NEW h, NEW pane, NEW new, NEW closed, NEW tabs, NEW Q,
           MovedTo(s, s1, a, pane, new, closed, tabs), pane \in s.panes,
           h.pane[pane.id] = pane.tab, pane.tab # Absent,
           closed = pane.tab \/ pane.tab \in Q
    PROVE  Pending(s, a, s1, h, {}, Q)
<1> SUFFICES ASSUME NEW q, Alive(s, "panes", q), ~Alive(s1, "panes", q)
             PROVE  h.pane[q] \in Q \/ ~Alive(s1, "layouts", h.pane[q])
    BY DEF Pending
<1>0. s1.panes = (s.panes \ {pane}) \cup {new}
      /\ s1.layouts = {x \in s.layouts : closed = Absent \/ x.tab # closed}
    BY DEF MovedTo
<1>1. PICK r \in s.panes : r.id = q
    BY DEF Alive, Recs, Ordered, Key
<1>2. r = pane
    BY <1>0, <1>1 DEF Alive, Recs, Ordered, Key
<1>3. h.pane[q] = pane.tab
    BY <1>1, <1>2
<1>4. CASE pane.tab \in Q
    BY <1>3, <1>4
<1>5. CASE closed = pane.tab
    BY <1>0, <1>3, <1>5 DEF Alive, Recs, Ordered, Key
<1> QED
    BY <1>4, <1>5

\* What MovePane does: in parts.
MovePaneDoes(pane, tab, new, closes, rest, target, source, seq) ==
    /\ new = MovedAs(pane, Head(server.freshP), tab.id, tab.ws)
    /\ rest = PanesIn(pane.tab) \ {pane}
    /\ closes <=> rest = {}
    /\ \E Q, o : target = LayoutFor(tab.id, tab.ws, Q, o)
    /\ IF closes THEN source = {}
       ELSE \E o : source = {LayoutFor(pane.tab, pane.ws, rest, o)}
    /\ seq = S!SetToSeq({LayoutUpdated(x) : x \in source \cup {target}})
    /\ \E N : server' = [server EXCEPT
                   !.freshP = Tail(@),
                   !.panes = (@ \ {pane}) \cup {new}, !.names = N,
                   !.tabs = IF closes THEN Among(@, {r \in S!Range(@) : r.id # pane.tab}) ELSE @,
                   !.layouts = {x \in @ : x.tab \notin {tab.id, pane.tab}}
                                  \cup source \cup {target}]
    /\ log' = log \o (<<[type |-> "PaneMoved", previous |-> pane.id, pane |-> new,
                  createdWorkspace |-> Absent, createdTab |-> Absent,
                  closedTab |-> IF closes THEN pane.tab ELSE Absent,
                  closedWorkspace |-> Absent]>> \o seq)

\* pane.move to a tab there is, in its parts.
LEMMA MovePaneUnfolds ==
    ASSUME NEW pane, NEW tab, MovePane(pane, tab)
    PROVE  \E new, rest, target, source, seq : \E closes \in BOOLEAN :
               MovePaneDoes(pane, tab, new, closes, rest, target, source, seq)
<1> DEFINE new == [pane EXCEPT !.id = Head(server.freshP), !.tab = tab.id, !.ws = tab.ws]
           rest == PanesIn(pane.tab) \ {pane}
           closes == rest = {}
           target == LayoutFor(tab.id, tab.ws, PanesIn(tab.id) \cup {new},
                               FocusedPaneOf(tab.id))
           source == IF closes THEN {}
                     ELSE {LayoutFor(pane.tab, pane.ws, rest, FocusedPaneOf(pane.tab))}
           layouts == {l \in server.layouts : l.tab \notin {tab.id, pane.tab}}
                         \cup source \cup {target}
           seq == S!SetToSeq({LayoutUpdated(x) : x \in source \cup {target}})
           N == [server.names EXCEPT ![new.id] = server.names[pane.id]]
<1>1. /\ server' = [server EXCEPT
                   !.freshP = Tail(@),
                   !.panes = (@ \ {pane}) \cup {new},
                   !.names = N,
                   !.tabs = IF closes THEN SeqWithout(@, LAMBDA t : t.id = pane.tab) ELSE @,
                   !.layouts = layouts]
      /\ log' = log \o (<<[type |-> "PaneMoved", previous |-> pane.id, pane |-> new,
                  createdWorkspace |-> Absent, createdTab |-> Absent,
                  closedTab |-> IF closes THEN pane.tab ELSE Absent,
                  closedWorkspace |-> Absent]>> \o seq)
    BY DEF MovePane, Operate
<1>2. SeqWithout(server.tabs, LAMBDA t : t.id = pane.tab)
        = Among(server.tabs, {r \in S!Range(server.tabs) : r.id # pane.tab})
  <2>1. SeqWithout(server.tabs, LAMBDA t : t.id = pane.tab)
          = Among(server.tabs, {r \in S!Range(server.tabs) : ~(r.id = pane.tab)})
      BY DEF SeqWithout
  <2> QED
      BY <2>1
<1>3. new = MovedAs(pane, Head(server.freshP), tab.id, tab.ws)
    BY DEF MovedAs
<1>4. \E Q, o : target = LayoutFor(tab.id, tab.ws, Q, o)
    OBVIOUS
<1>5. IF closes THEN source = {}
      ELSE \E o : source = {LayoutFor(pane.tab, pane.ws, rest, o)}
    OBVIOUS
<1>6. closes \in BOOLEAN /\ (closes <=> rest = {})
    OBVIOUS
<1>7. rest = PanesIn(pane.tab) \ {pane}
    OBVIOUS
<1>8. seq = S!SetToSeq({LayoutUpdated(x) : x \in source \cup {target}})
    OBVIOUS
<1>9. layouts = {x \in server.layouts : x.tab \notin {tab.id, pane.tab}} \cup source \cup {target}
    OBVIOUS
<1> HIDE DEF new, rest, closes, target, source, layouts, seq, N
<1>10. server' = [server EXCEPT
                   !.freshP = Tail(@),
                   !.panes = (@ \ {pane}) \cup {new}, !.names = N,
                   !.tabs = IF closes THEN Among(@, {r \in S!Range(@) : r.id # pane.tab}) ELSE @,
                   !.layouts = {x \in @ : x.tab \notin {tab.id, pane.tab}}
                                  \cup source \cup {target}]
    BY <1>1, <1>2, <1>9
<1>11. MovePaneDoes(pane, tab, new, closes, rest, target, source, seq)
    BY <1>1, <1>3, <1>4, <1>5, <1>6, <1>7, <1>8, <1>10 DEF MovePaneDoes
<1> QED
    BY <1>6, <1>11

\* One event before others.
LEMMA ThenMore ==
    ASSUME NEW a, NEW b, NEW c
    PROVE  <<a>> \o <<b>> = <<a, b>> /\ <<a>> \o <<b, c>> = <<a, b, c>>
<1> DEFINE D == {a, b, c}
<1>1. a \in D /\ b \in D /\ c \in D
    OBVIOUS
<1> HIDE DEF D
<1>2. <<a>> \in Seq(D) /\ <<b>> \in Seq(D) /\ <<b, c>> \in Seq(D)
    BY <1>1
<1>3. IsList(<<a>>)
    BY <1>2, SeqIsList
<1>4. <<a>> \o <<b>> = Append(<<a>>, b) /\ <<a>> \o <<b, c>> = Append(Append(<<a>>, b), c)
    BY <1>3, Longer, LongerTwice
<1>5. Append(<<a>>, b) = <<a, b>>
  <2>1. PICK s : s = Append(<<a>>, b)
      OBVIOUS
  <2>2. s \in Seq(D) /\ Len(s) = 2 /\ s[1] = a /\ s[2] = b
      BY <1>1, <1>2, <2>1
  <2>3. s = <<a, b>>
      BY ONLY <2>2
  <2> QED
      BY ONLY <2>1, <2>3
<1>6. Append(<<a, b>>, c) = <<a, b, c>>
  <2>1. PICK s : s = Append(<<a, b>>, c)
      OBVIOUS
  <2>0. <<a, b>> \in Seq(D)
      BY <1>1
  <2>2. s \in Seq(D) /\ Len(s) = 3 /\ s[1] = a /\ s[2] = b /\ s[3] = c
      BY <1>1, <2>0, <2>1
  <2>3. s = <<a, b, c>>
      BY ONLY <2>2
  <2> QED
      BY ONLY <2>1, <2>3
<1> QED
    BY ONLY <1>4, <1>5, <1>6

\* pane.move to a tab there is: the pane.moved and the layouts of the two tabs.
LEMMA MovePaneOnward ==
    ASSUME NEW h, Standing(server, log, h), NEW pane \in server.panes,
           NEW tab \in S!Range(server.tabs), MovePane(pane, tab)
    PROVE  Onward(server, log, h, server', log')
<1>1. Ready(server, h) /\ Lawful(server, h) /\ IsList(log) /\ Past(server, log, h, {})
      /\ Homes(h)
    BY StandingLog DEF Standing
<1>2. DOMAIN server = {"workspaces", "tabs", "panes", "names", "layouts",
                       "freshW", "freshT", "freshP"}
    BY <1>1 DEF Ready
<1>0. server.freshP # <<>> /\ ~pane.focused /\ tab.id # pane.tab
    BY DEF MovePane
<1>3. PICK new, rest, target, source, seq : \E closes \in BOOLEAN :
          MovePaneDoes(pane, tab, new, closes, rest, target, source, seq)
    BY MovePaneUnfolds
<1>4. PICK closes \in BOOLEAN : MovePaneDoes(pane, tab, new, closes, rest, target, source, seq)
    BY <1>3
<1> DEFINE p == Head(server.freshP)
           h2 == WithPane(h, p, tab.id)
           closed == IF closes THEN pane.tab ELSE Absent
           T == IF closes THEN Among(server.tabs, {r \in Ids(server.tabs) : r.id # pane.tab})
                ELSE server.tabs
           P == (server.panes \ {pane}) \cup {new}
           L == {x \in server.layouts : x.tab \notin {tab.id, pane.tab}}
                    \cup source \cup {target}
           a == [type |-> "PaneMoved", previous |-> pane.id, pane |-> new,
                 createdWorkspace |-> Absent, createdTab |-> Absent,
                 closedTab |-> closed, closedWorkspace |-> Absent]
           s1 == [workspaces |-> server.workspaces, tabs |-> T, panes |-> P,
                  layouts |-> {x \in server.layouts : closed = Absent \/ x.tab # closed}]
<1>f. /\ p \in Ids(server.freshP) /\ p \notin DOMAIN h.pane
      /\ Unused(Tail(server.freshP), DOMAIN h.pane \cup {p})
    BY <1>0, <1>1, TakeFresh DEF Ready
<1>g. /\ Good("panes", pane, h) /\ pane.focused = FALSE
      /\ Good("tabs", tab, h) /\ Alive(server, "tabs", tab.id)
  <2>1. Good("panes", pane, h) /\ Good("tabs", tab, h) /\ Alive(server, "tabs", tab.id)
      BY <1>1, ListsLawful
  <2>2. pane.focused \in BOOLEAN
      BY <2>1 DEF Good, Ordered
  <2> QED
      BY <2>1, <2>2, <1>0
<1>k. /\ pane.tab = h.pane[pane.id] /\ pane.id \in DOMAIN h.pane
      /\ pane.tab \in DOMAIN h.tab /\ pane.ws = h.tab[pane.tab]
      /\ tab.id \in DOMAIN h.tab /\ tab.ws = h.tab[tab.id]
      /\ Absent \notin DOMAIN h.tab
  <2>1. tab.id \in DOMAIN h.tab /\ tab.ws = h.tab[tab.id]
      BY <1>g DEF Good, Ordered
  <2>2. /\ pane.tab = h.pane[pane.id] /\ pane.id \in DOMAIN h.pane
        /\ pane.tab \in DOMAIN h.tab /\ pane.ws = h.tab[pane.tab]
      BY <1>1, <1>g DEF Good, Ordered, Homes
  <2> QED
      BY <1>1, <2>1, <2>2 DEF Ready
<1>h. /\ Extends(h, h2) /\ Homes(h2)
      /\ h2.ws = h.ws /\ h2.tab = h.tab /\ h2.pane[p] = tab.id
      /\ DOMAIN h2.pane = DOMAIN h.pane \cup {p}
  <2> HIDE DEF p, h2
  <2> QED
      BY <1>1, <1>f, <1>k, WithPaneExtends DEF h2
<1>h3. h2.pane[pane.id] = pane.tab
  <2> HIDE DEF h2
  <2> QED
      BY <1>h, <1>k DEF Extends
<1>5. PICK N : server' = [server EXCEPT !.freshP = Tail(server.freshP), !.panes = P, !.names = N,
                                        !.tabs = T, !.layouts = L]
  <2>1. S!Range(server.tabs) = Ids(server.tabs)
      BY <1>1, ListsLawful
  <2>2. PICK N : server' = [server EXCEPT
                   !.freshP = Tail(@),
                   !.panes = (@ \ {pane}) \cup {new}, !.names = N,
                   !.tabs = IF closes THEN Among(@, {r \in S!Range(@) : r.id # pane.tab}) ELSE @,
                   !.layouts = {x \in @ : x.tab \notin {tab.id, pane.tab}}
                                  \cup source \cup {target}]
      BY <1>4 DEF MovePaneDoes
  <2>3. (IF closes THEN Among(server.tabs, {r \in S!Range(server.tabs) : r.id # pane.tab})
         ELSE server.tabs) = T
      BY <2>1
  <2> HIDE DEF T
  <2> QED
      BY <2>2, <2>3
<1>6. log' = log \o (<<a>> \o seq) /\ seq = S!SetToSeq({LayoutUpdated(x) : x \in source \cup {target}})
    BY <1>4 DEF MovePaneDoes
<1>7. /\ rest = {q \in server.panes : q.tab = pane.tab} \ {pane} /\ (closes <=> rest = {})
      /\ new = MovedAs(pane, p, tab.id, tab.ws)
    BY <1>4 DEF MovePaneDoes, PanesIn
<1> HIDE DEF h2, p
<1>p. Good("panes", new, h2) /\ new.id = p /\ new.tab = tab.id
      /\ new.agent = pane.agent /\ new.focused = FALSE
  <2>3. p \in DOMAIN h2.pane /\ h2.pane[p] = tab.id /\ h2.tab[tab.id] = tab.ws
        /\ Good("panes", pane, h)
      BY <1>g, <1>h, <1>k
  <2>4. /\ Good("panes", new, h2) /\ new.id = p /\ new.tab = tab.id
        /\ new.focused = pane.focused /\ new.agent = pane.agent
    <3>1. new = MovedAs(pane, p, tab.id, tab.ws)
        BY <1>7
    <3>2. PICK t, w : t = tab.id /\ w = tab.ws
        OBVIOUS
    <3>3. new = MovedAs(pane, p, t, w)
        BY ONLY <3>1, <3>2
    <3>4. p \in DOMAIN h2.pane /\ h2.pane[p] = t /\ h2.tab[t] = w
        BY ONLY <2>3, <3>2
    <3>5. /\ Good("panes", new, h2) /\ new.id = p /\ new.tab = t
          /\ new.focused = pane.focused /\ new.agent = pane.agent
        BY ONLY <3>3, <3>4, <2>3, GoodMovedPane
    <3> QED
        BY ONLY <3>5, <3>2
  <2> QED
      BY <1>g, <2>4
<1>t. Good("layouts", target, h2) /\ target.tab = tab.id
  <2>1. PICK Q, o : target = LayoutFor(tab.id, tab.ws, Q, o)
      BY <1>4 DEF MovePaneDoes
  <2> QED
      BY <1>h, <1>k, <2>1 DEF LayoutFor, Good, Ordered
<1>s. IF closes THEN source = {}
      ELSE \E x : source = {x} /\ Good("layouts", x, h2) /\ x.tab = pane.tab
  <2>1. CASE closes
      BY <1>4, <2>1 DEF MovePaneDoes
  <2>2. CASE ~closes
    <3>1. PICK o : source = {LayoutFor(pane.tab, pane.ws, rest, o)}
        BY <1>4, <2>2 DEF MovePaneDoes
    <3>2. PICK x : x = LayoutFor(pane.tab, pane.ws, rest, o)
        OBVIOUS
    <3>3. Good("layouts", x, h2) /\ x.tab = pane.tab
        BY <1>h, <1>k, <3>2 DEF LayoutFor, Good, Ordered
    <3> QED
        BY <2>2, <3>1, <3>2, <3>3
  <2> QED
      BY <2>1, <2>2
<1>u. Unknown(server, log, h2, "panes", new.id)
  <2>1. Opens(server, h, h2)
      BY <1>g, <1>h DEF Opens
  <2>2. p \in Made("panes", h2) \ Made("panes", h) /\ "panes" \in Kinds
      BY <1>f, <1>h DEF Made, Kinds
  <2> QED
      BY <1>h, <1>p, <2>1, <2>2, UnheardUnknown
<1>e. Past(server, log, h2, {})
    BY <1>1, <1>h, ExtendPast
<1>m. Lawful(server, h2)
    BY <1>e DEF Past
<1>8. /\ server'.workspaces = server.workspaces /\ server'.tabs = T
      /\ server'.panes = P /\ server'.layouts = L
      /\ server'.freshW = server.freshW /\ server'.freshT = server.freshT
      /\ server'.freshP = Tail(server.freshP) /\ DOMAIN server' = DOMAIN server
  <2> HIDE DEF T, P, L
  <2> QED
      BY <1>2, <1>5
<1>9. Ready(server', h2)
    BY <1>1, <1>8, <1>f, <1>h DEF Ready
<1>10. /\ s1.workspaces = server.workspaces /\ s1.tabs = T /\ s1.panes = P
       /\ s1.layouts = {x \in server.layouts : closed = Absent \/ x.tab # closed}
    OBVIOUS
<1> HIDE DEF s1
<1>11. MovedTo(server, s1, a, pane, new, closed, T)
    BY <1>10 DEF MovedTo
<1>c. /\ closed = Absent \/ closed = pane.tab
      /\ closed = Absent <=> ~closes
      /\ closes <=> closed = pane.tab
    BY <1>k
<1>12. Reports(server, a, s1, log, h2)
  <2>1. new.tab # closed
      BY <1>c, <1>0, <1>p, <1>k
  <2>2. \/ closed = Absent /\ T = server.tabs
        \/ /\ closed = pane.tab /\ \A q \in server.panes : q.tab = closed => q = pane
           /\ T = Among(server.tabs, {r \in Ids(server.tabs) : r.id # closed})
    <3>1. CASE closes
      <4>1. closed = pane.tab /\ T = Among(server.tabs, {r \in Ids(server.tabs) : r.id # closed})
          BY <3>1
      <4>2. \A q \in server.panes : q.tab = closed => q = pane
          BY <3>1, <4>1, <1>7
      <4> QED
          BY <4>1, <4>2
    <3>2. CASE ~closes
        BY <3>2
    <3> QED
        BY <3>1, <3>2
  <2>3. Absent \notin DOMAIN h2.tab
      BY <1>h, <1>k
  <2> HIDE DEF T, closed, a
  <2> QED
      BY <1>11, <1>m, <1>p, <1>u, <2>1, <2>2, <2>3, MovedToReports
<1>13. \A Q : closes \/ pane.tab \in Q => Pending(server, a, s1, h2, {}, Q)
  <2> TAKE Q
  <2> HAVE closes \/ pane.tab \in Q
  <2>1. closed = pane.tab \/ pane.tab \in Q
      BY <1>c
  <2>2. pane.tab # Absent
      BY <1>k
  <2> HIDE DEF T, closed, a
  <2> QED
      BY <1>11, <1>h3, <2>1, <2>2, MovedToPending
<1> PICK l1 : l1 = Append(log, a)
    OBVIOUS
<1>14. \A Q : closes \/ pane.tab \in Q =>
          Past(s1, l1, h2, Q) /\ Lasts(server, log, h2, s1, l1, h2)
  <2> TAKE Q
  <2> HAVE closes \/ pane.tab \in Q
  <2>1. Pending(server, a, s1, h2, {}, Q)
      BY <1>13
  <2> HIDE DEF a
  <2> QED
      BY <1>e, <1>12, <2>1, OneReport
<1>l. /\ server'.workspaces = s1.workspaces /\ server'.tabs = s1.tabs
      /\ server'.panes = s1.panes
    BY <1>8, <1>10
<1>15. Past(server', log', h2, {}) /\ Lasts(s1, l1, h2, server', log', h2)
  <2>1. CASE closes
    <3>1. source = {}
        BY <1>s, <2>1
    <3>2. {LayoutUpdated(x) : x \in source \cup {target}} = {LayoutUpdated(target)}
        BY <3>1
    <3> PICK b : b = LayoutUpdated(target)
        OBVIOUS
    <3>3. seq = <<b>>
        BY <1>6, <3>2, OneListed
    <3>4. log' = Append(l1, b)
      <4>1. log' = log \o <<a, b>>
        <5> HIDE DEF a
        <5>1. <<a>> \o <<b>> = <<a, b>>
            BY ThenMore
        <5> QED
            BY <1>6, <3>3, <5>1
      <4> HIDE DEF a
      <4>2. log \o <<a, b>> = Append(Append(log, a), b)
          BY <1>1, LongerTwice
      <4> QED
          BY ONLY <4>1, <4>2, l1 = Append(log, a)
    <3>5. server'.layouts = {z \in s1.layouts : z.tab # target.tab} \cup {target}
      <4>1. closed = pane.tab /\ closed # Absent
          BY <2>1, <1>c
      <4>2. s1.layouts = {x \in server.layouts : x.tab # pane.tab}
          BY <1>10, <4>1
      <4>3. server'.layouts = {x \in server.layouts : x.tab \notin {tab.id, pane.tab}}
                                 \cup {target}
          BY <1>8, <3>1
      <4> QED
          BY <4>2, <4>3, <1>t
    <3>6. Past(s1, l1, h2, {}) /\ {} \subseteq {target.tab}
        BY <1>14, <2>1
    <3>7. b = LayoutUpdated(target)
        OBVIOUS
    <3> QED
        BY ONLY <1>l, <1>t, <3>4, <3>5, <3>6, <3>7, OneLayout
  <2>2. CASE ~closes
    <3>1. PICK x : source = {x} /\ Good("layouts", x, h2) /\ x.tab = pane.tab
        BY <1>s, <2>2
    <3> PICK b, c : b = LayoutUpdated(x) /\ c = LayoutUpdated(target)
        OBVIOUS
    <3>2. {LayoutUpdated(z) : z \in source \cup {target}} = {b, c}
        BY <3>1
    <3>b. b # c
      <4>1. b.layout = x /\ c.layout = target
          BY DEF LayoutUpdated
      <4> QED
          BY <4>1, <3>1, <1>t, <1>0
    <3>3. seq = <<b, c>> \/ seq = <<c, b>>
        BY <1>6, <3>2, <3>b, TwoListed
    <3>4. log' = Append(Append(l1, b), c) \/ log' = Append(Append(l1, c), b)
      <4> HIDE DEF a
      <4>1. <<a>> \o <<b, c>> = <<a, b, c>> /\ <<a>> \o <<c, b>> = <<a, c, b>>
          BY ThenMore
      <4>2. log' = log \o <<a, b, c>> \/ log' = log \o <<a, c, b>>
          BY <1>6, <3>3, <4>1
      <4>3. log \o <<a, b, c>> = Append(Append(Append(log, a), b), c)
          BY <1>1, LongerThrice
      <4>4. log \o <<a, c, b>> = Append(Append(Append(log, a), c), b)
          BY <1>1, LongerThrice
      <4> QED
          BY ONLY <4>2, <4>3, <4>4, l1 = Append(log, a)
    <3>5. server'.layouts = {z \in s1.layouts : z.tab \notin {x.tab, target.tab}} \cup {x, target}
      <4>1. s1.layouts = server.layouts
          BY <2>2, <1>c, <1>10
      <4>2. server'.layouts = {z \in server.layouts : z.tab \notin {tab.id, pane.tab}}
                                 \cup {x} \cup {target}
          BY <1>8, <3>1
      <4> QED
          BY <4>1, <4>2, <1>t, <3>1
    <3>6. /\ Past(s1, l1, h2, {pane.tab})
          /\ {pane.tab} \subseteq {x.tab, target.tab} /\ x.tab # target.tab
        BY <1>14, <1>t, <1>0, <3>1
    <3>7. CASE log' = Append(Append(l1, b), c)
      <4>1. b = LayoutUpdated(x) /\ c = LayoutUpdated(target)
          OBVIOUS
      <4> QED
          BY ONLY <1>l, <1>t, <3>1, <3>5, <3>6, <3>7, <4>1, TwoLayouts
    <3>8. CASE log' = Append(Append(l1, c), b)
      <4>1. b = LayoutUpdated(x) /\ c = LayoutUpdated(target)
          OBVIOUS
      <4>2. server'.layouts = {z \in s1.layouts : z.tab \notin {target.tab, x.tab}}
                                 \cup {target, x}
          BY <3>5
      <4>3. {pane.tab} \subseteq {target.tab, x.tab} /\ target.tab # x.tab
          BY <3>6
      <4> QED
          BY ONLY <1>l, <1>t, <3>1, <4>2, <3>6, <4>3, <3>8, <4>1, TwoLayouts
    <3> QED
        BY <3>4, <3>7, <3>8
  <2> QED
      BY <2>1, <2>2
<1>16. Lasts(server, log, h2, s1, l1, h2)
    BY <1>14
<1>17. Lasts(server, log, h2, server', log', h2)
    BY <1>15, <1>16, LastsTwice
<1> QED
    BY <1>9, <1>15, <1>17, <1>h, OnwardExtended

(* One workspace, one tab and one pane have the focus *)

\* One record at most has the focus.
Sole(R) == \A r, q \in R : r.focused /\ q.focused => r = q
\* One workspace, one tab and one pane at most have the focus.
FocusSole(s) == Sole(Ids(s.workspaces)) /\ Sole(Ids(s.tabs)) /\ Sole(s.panes)

\* Only what had the focus has it, or only what it is moved to.
Steady(R, R2) ==
    \/ \A r \in R2 : r.focused => \E q \in R : q.focused /\ q.id = r.id
    \/ \E id : \A r \in R2 : r.focused => r.id = id
\* An operation gives the focus to one record of a kind at most, which takes it from
\* the others.
FocusMoves(s, s2) ==
    /\ Steady(Ids(s.workspaces), Ids(s2.workspaces))
    /\ Steady(Ids(s.tabs), Ids(s2.tabs))
    /\ Steady(s.panes, s2.panes)

\* Where the focus is only moved, one record at most has it.
LEMMA SteadySole ==
    ASSUME NEW R, NEW R2, Sole(R), Steady(R, R2), \A r, q \in R2 : r.id = q.id => r = q
    PROVE  Sole(R2)
    BY DEF Sole, Steady

\* Where the focus is only moved, one workspace, one tab and one pane at most have it.
LEMMA FocusMovesSole ==
    ASSUME NEW s, NEW s2, NEW l2, NEW h2, FocusSole(s), FocusMoves(s, s2), Standing(s2, l2, h2)
    PROVE  FocusSole(s2)
<1>1. Lawful(s2, h2)
    BY StandingLog
<1>2. /\ \A r, q \in Ids(s2.workspaces) : r.id = q.id => r = q
      /\ \A r, q \in Ids(s2.tabs) : r.id = q.id => r = q
      /\ \A r, q \in s2.panes : r.id = q.id => r = q
  <2>1. \A X \in Kinds : \A r, q \in Recs(s2, X) : Key(X, r) = Key(X, q) => r = q
      BY <1>1 DEF Lawful
  <2>2. /\ \A r, q \in Recs(s2, "workspaces") : Key("workspaces", r) = Key("workspaces", q) => r = q
        /\ \A r, q \in Recs(s2, "tabs") : Key("tabs", r) = Key("tabs", q) => r = q
        /\ \A r, q \in Recs(s2, "panes") : Key("panes", r) = Key("panes", q) => r = q
      BY <2>1 DEF Kinds
  <2> QED
      BY <2>2 DEF Recs, Key, Ordered
<1> QED
    BY <1>2, SteadySole DEF FocusSole, FocusMoves

\* What is taken away, or comes without the focus, or is as it was.
LEMMA SteadySame ==
    ASSUME NEW R
    PROVE  /\ \A R2 : R2 \subseteq R => Steady(R, R2)
           /\ \A x : x.focused = FALSE => Steady(R, R \cup {x})
           /\ \A x : x.focused = FALSE => \A y : Steady(R, (R \ {y}) \cup {x})
           /\ \A x, y : x.focused = y.focused /\ x.id = y.id /\ y \in R
                 => Steady(R, (R \ {y}) \cup {x})
<1>1. \A R2 : R2 \subseteq R => Steady(R, R2)
    BY DEF Steady
<1>2. \A x : x.focused = FALSE => Steady(R, R \cup {x})
  <2> TAKE x
  <2> HAVE x.focused = FALSE
  <2>1. \A r \in R \cup {x} : r.focused => r \in R
      OBVIOUS
  <2> QED
      BY <2>1 DEF Steady
<1>3. \A x : x.focused = FALSE => \A y : Steady(R, (R \ {y}) \cup {x})
  <2> SUFFICES ASSUME NEW x, x.focused = FALSE, NEW y PROVE Steady(R, (R \ {y}) \cup {x})
      OBVIOUS
  <2>1. \A r \in (R \ {y}) \cup {x} : r.focused => r \in R
      OBVIOUS
  <2> QED
      BY <2>1 DEF Steady
<1>4. \A x, y : x.focused = y.focused /\ x.id = y.id /\ y \in R
                 => Steady(R, (R \ {y}) \cup {x})
  <2> SUFFICES ASSUME NEW x, NEW y, x.focused = y.focused, x.id = y.id, y \in R
               PROVE Steady(R, (R \ {y}) \cup {x})
      OBVIOUS
  <2>1. \A r \in (R \ {y}) \cup {x} : r.focused => r \in R \/ r = x
      OBVIOUS
  <2>2. \A r \in (R \ {y}) \cup {x} : r.focused => \E q \in R : q.focused /\ q.id = r.id
      BY <2>1
  <2> QED
      BY <2>2 DEF Steady
<1> QED
    BY <1>1, <1>2, <1>3, <1>4

\* Renaming, focusing, taking out and adding last only move the focus.
LEMMA SteadyLists ==
    ASSUME NEW s, IsList(s), \A r \in Ids(s) : r = [r EXCEPT !.focused = r.focused] /\ "id" \in DOMAIN r
                                /\ "focused" \in DOMAIN r
    PROVE  /\ \A id, label : Steady(Ids(s), Ids(Relabelled(s, id, label)))
           /\ \A id : Steady(Ids(s), Ids(FocusedIn(s, id)))
           /\ \A set : Steady(Ids(s), Ids(Among(s, set)))
           /\ \A x : x.focused = FALSE => Steady(Ids(s), Ids(Append(s, x)))
<1>0. DOMAIN s = 1..Len(s) /\ Len(s) \in Nat /\ \A i \in 1..Len(s) : s[i] \in Ids(s)
    BY DEF IsList, Ids
<1>1. ASSUME NEW id, NEW label PROVE Steady(Ids(s), Ids(Relabelled(s, id, label)))
  <2> DEFINE f == Relabelled(s, id, label)
  <2>1. f = [i \in 1..Len(s) |-> IF s[i].id = id THEN [s[i] EXCEPT !.label = label] ELSE s[i]]
      BY <1>0 DEF Relabelled
  <2>2. Len(f) = Len(s)
      BY <1>0, <2>1
  <2>3. \A i \in 1..Len(s) : f[i].id = s[i].id /\ f[i].focused = s[i].focused
      BY <1>0, <2>1
  <2> HIDE DEF f
  <2>4. \A r \in Ids(f) : \E i \in 1..Len(s) : r = f[i]
      BY <2>2 DEF Ids
  <2> QED
      BY <1>0, <2>3, <2>4 DEF Steady, f
<1>2. ASSUME NEW id PROVE Steady(Ids(s), Ids(FocusedIn(s, id)))
  <2> DEFINE f == FocusedIn(s, id)
  <2>1. f = [i \in 1..Len(s) |-> [s[i] EXCEPT !.focused = (s[i].id = id)]]
      BY <1>0 DEF FocusedIn
  <2>2. Len(f) = Len(s)
      BY <1>0, <2>1
  <2>3. \A i \in 1..Len(s) : f[i].id = s[i].id /\ f[i].focused = (s[i].id = id)
      BY <1>0, <2>1
  <2> HIDE DEF f
  <2>4. \A r \in Ids(f) : \E i \in 1..Len(s) : r = f[i]
      BY <2>2 DEF Ids
  <2>5. ASSUME NEW r \in Ids(f), r.focused PROVE r.id = id
    <3>1. PICK i \in 1..Len(s) : r = f[i]
        BY <2>4
    <3> QED
        BY <2>3, <2>5, <3>1
  <2> QED
      BY <2>5 DEF Steady, f
<1>3. ASSUME NEW set PROVE Steady(Ids(s), Ids(Among(s, set)))
  <2>1. Ids(Among(s, set)) \subseteq Ids(s)
      BY AmongFacts DEF IsList
  <2> QED
      BY <2>1, SteadySame
<1>4. ASSUME NEW x, x.focused = FALSE PROVE Steady(Ids(s), Ids(Append(s, x)))
  <2>1. Ids(Append(s, x)) = Ids(s) \cup {x}
      BY AppendIds
  <2>2. Steady(Ids(s), Ids(s) \cup {x})
      BY <1>4, SteadySame
  <2> QED
      BY ONLY <2>1, <2>2
<1> QED
    BY <1>1, <1>2, <1>3, <1>4

\* The records of a state that stands have an id and a flag.
LEMMA StandingLists ==
    ASSUME NEW s, NEW l, NEW h, Standing(s, l, h)
    PROVE  /\ DOMAIN s = {"workspaces", "tabs", "panes", "names", "layouts",
                          "freshW", "freshT", "freshP"}
           /\ IsList(s.workspaces) /\ IsList(s.tabs)
           /\ S!Range(s.workspaces) = Ids(s.workspaces) /\ S!Range(s.tabs) = Ids(s.tabs)
           /\ \A r \in Ids(s.workspaces) \cup Ids(s.tabs) :
                 /\ r = [r EXCEPT !.focused = r.focused]
                 /\ "id" \in DOMAIN r /\ "focused" \in DOMAIN r
           /\ \A p \in s.panes : PaneShaped(p) /\ p.focused \in BOOLEAN
<1>1. Ready(s, h) /\ Lawful(s, h)
    BY StandingLog DEF Standing
<1>2. /\ \A r \in Ids(s.workspaces) : Good("workspaces", r, h)
      /\ \A r \in Ids(s.tabs) : Good("tabs", r, h)
      /\ \A p \in s.panes : Good("panes", p, h)
      /\ IsList(s.workspaces) /\ IsList(s.tabs)
      /\ S!Range(s.workspaces) = Ids(s.workspaces) /\ S!Range(s.tabs) = Ids(s.tabs)
    BY <1>1, ListsLawful
<1>3. \A p \in s.panes : PaneShaped(p) /\ p.focused \in BOOLEAN
    BY <1>2 DEF Good, PaneShaped, Ordered
<1>4. \A r : r = [id |-> r.id, label |-> r.label, focused |-> r.focused]
             => /\ r = [r EXCEPT !.focused = r.focused]
                /\ "id" \in DOMAIN r /\ "focused" \in DOMAIN r
    OBVIOUS
<1>5. \A r : r = [id |-> r.id, ws |-> r.ws, label |-> r.label, focused |-> r.focused]
             => /\ r = [r EXCEPT !.focused = r.focused]
                /\ "id" \in DOMAIN r /\ "focused" \in DOMAIN r
    OBVIOUS
<1>6. \A r \in Ids(s.workspaces) : r = [id |-> r.id, label |-> r.label, focused |-> r.focused]
    BY <1>2 DEF Good
<1>7. \A r \in Ids(s.tabs) : r = [id |-> r.id, ws |-> r.ws, label |-> r.label, focused |-> r.focused]
    BY <1>2 DEF Good
<1> QED
    BY <1>1, <1>2, <1>3, <1>4, <1>5, <1>6, <1>7 DEF Ready

\* The lists an operation leaves, and the panes.
LEMMA FocusRests ==
    ASSUME NEW s, NEW s2
    PROVE  /\ s2.workspaces = s.workspaces => Steady(Ids(s.workspaces), Ids(s2.workspaces))
           /\ s2.tabs = s.tabs => Steady(Ids(s.tabs), Ids(s2.tabs))
           /\ s2.panes \subseteq s.panes => Steady(s.panes, s2.panes)
    BY SteadySame

\* The operations on workspaces only move the focus.
LEMMA WorkspacesFocus ==
    ASSUME NEW h, Standing(server, log, h),
           \/ CreateWorkspace \/ MoveWorkspace
           \/ \E w : \/ \E label : RenameWorkspace(w, label)
                     \/ CloseWorkspace(w)
    PROVE  FocusMoves(server, server')
<1>1. DOMAIN server = {"workspaces", "tabs", "panes", "names", "layouts",
                       "freshW", "freshT", "freshP"}
    BY StandingLists
<1>2. /\ \A id, label : Steady(Ids(server.workspaces), Ids(Relabelled(server.workspaces, id, label)))
      /\ \A set : Steady(Ids(server.workspaces), Ids(Among(server.workspaces, set)))
      /\ \A x : x.focused = FALSE => Steady(Ids(server.workspaces), Ids(Append(server.workspaces, x)))
      /\ \A set : Steady(Ids(server.tabs), Ids(Among(server.tabs, set)))
  <2>1. /\ IsList(server.workspaces)
        /\ \A r \in Ids(server.workspaces) :
              /\ r = [r EXCEPT !.focused = r.focused]
              /\ "id" \in DOMAIN r /\ "focused" \in DOMAIN r
      BY StandingLists
  <2>2. /\ IsList(server.tabs)
        /\ \A r \in Ids(server.tabs) :
              /\ r = [r EXCEPT !.focused = r.focused]
              /\ "id" \in DOMAIN r /\ "focused" \in DOMAIN r
      BY StandingLists
  <2> QED
      BY <2>1, <2>2, SteadyLists
<1>3. CASE CreateWorkspace
  <2>1. PICK w, q : /\ server' = [server EXCEPT !.freshW = q, !.workspaces = Append(@, w)]
                    /\ w.focused = FALSE
    <3> DEFINE w == [id |-> Head(server.freshW), label |-> "new", focused |-> FALSE]
    <3>1. w.focused = FALSE
        OBVIOUS
    <3>2. server' = [server EXCEPT !.freshW = Tail(@), !.workspaces = Append(@, w)]
        BY <1>3 DEF CreateWorkspace, Operate
    <3> HIDE DEF w
    <3> QED
        BY <3>1, <3>2
  <2>2. /\ server'.workspaces = Append(server.workspaces, w)
        /\ server'.tabs = server.tabs /\ server'.panes = server.panes
      BY <1>1, <2>1
  <2>3. Steady(Ids(server.workspaces), Ids(server'.workspaces))
      BY <1>2, <2>1, <2>2
  <2> QED
      BY <2>2, <2>3, FocusRests DEF FocusMoves
<1>4. CASE MoveWorkspace
  <2>1. PICK t : /\ t = Append(Tail(server.workspaces), Head(server.workspaces))
                 /\ Len(server.workspaces) > 1
                 /\ server' = [server EXCEPT !.workspaces = t]
      BY <1>4 DEF MoveWorkspace, Operate
  <2>2. /\ server'.workspaces = t /\ server'.tabs = server.tabs /\ server'.panes = server.panes
      BY <1>1, <2>1
  <2>3. Ids(t) = Ids(server.workspaces)
      BY <2>1, StandingLists, RotateFacts
  <2>4. Steady(Ids(server.workspaces), Ids(server'.workspaces))
      BY <2>2, <2>3, SteadySame
  <2> QED
      BY <2>2, <2>4, FocusRests DEF FocusMoves
<1>5. ASSUME NEW w, NEW label, RenameWorkspace(w, label) PROVE FocusMoves(server, server')
  <2>1. PICK t : /\ t = Relabelled(server.workspaces, w.id, label)
                 /\ server' = [server EXCEPT !.workspaces = t]
      BY <1>5 DEF RenameWorkspace, Operate
  <2>2. /\ server'.workspaces = t /\ server'.tabs = server.tabs /\ server'.panes = server.panes
      BY <1>1, <2>1
  <2>4. Steady(Ids(server.workspaces), Ids(server'.workspaces))
      BY <1>2, <2>1, <2>2
  <2> QED
      BY <2>2, <2>4, FocusRests DEF FocusMoves
<1>6. ASSUME NEW w, CloseWorkspace(w) PROVE FocusMoves(server, server')
  <2> DEFINE t == SeqWithout(server.workspaces, LAMBDA r : r.id = w.id)
             u == SeqWithout(server.tabs, LAMBDA r : r.ws = w.id)
             p == Without(server.panes, LAMBDA r : r.ws = w.id)
             x == Without(server.layouts, LAMBDA r : r.ws = w.id)
  <2>0. /\ \E set : t = Among(server.workspaces, set)
        /\ \E set : u = Among(server.tabs, set)
        /\ p \subseteq server.panes
      BY DEF SeqWithout, Without
  <2>1. server' = [server EXCEPT !.workspaces = t, !.tabs = u, !.panes = p, !.layouts = x]
      BY <1>6 DEF CloseWorkspace, Operate
  <2> HIDE DEF t, u, p, x
  <2>2. /\ server'.workspaces = t /\ server'.tabs = u /\ server'.panes = p
      BY <1>1, <2>1
  <2>4. Steady(Ids(server.workspaces), Ids(server'.workspaces))
      BY <1>2, <2>0, <2>2
  <2>5. Steady(Ids(server.tabs), Ids(server'.tabs))
      BY <1>2, <2>0, <2>2
  <2> QED
      BY <2>0, <2>2, <2>4, <2>5, FocusRests DEF FocusMoves
<1> QED
    BY <1>3, <1>4, <1>5, <1>6

\* A pane more, or another in the place of one, that has no focus to bring.
LEMMA SteadyPanes ==
    ASSUME NEW R, NEW R2, NEW x, x.focused = FALSE,
           R2 = R \cup {x} \/ \E y : R2 = (R \ {y}) \cup {x}
    PROVE  Steady(R, R2)
<1>1. /\ Steady(R, R \cup {x})
      /\ \A y : Steady(R, (R \ {y}) \cup {x})
    BY SteadySame
<1> QED
    BY <1>1

\* A pane rewritten in place keeps its flag.
LEMMA SteadyPane ==
    ASSUME NEW R, NEW R2, NEW y \in R, NEW x, x.focused = y.focused, x.id = y.id,
           R2 = (R \ {y}) \cup {x}
    PROVE  Steady(R, R2)
<1>1. Steady(R, (R \ {y}) \cup {x})
    BY SteadySame
<1> QED
    BY <1>1

\* Renaming, focusing, taking out and adding last only move the focus of tabs and of
\* workspaces.
LEMMA TabLists ==
    ASSUME NEW h, Standing(server, log, h)
    PROVE  /\ \A id, label : Steady(Ids(server.tabs), Ids(Relabelled(server.tabs, id, label)))
           /\ \A id : Steady(Ids(server.tabs), Ids(FocusedIn(server.tabs, id)))
           /\ \A set : Steady(Ids(server.tabs), Ids(Among(server.tabs, set)))
           /\ \A x : x.focused = FALSE => Steady(Ids(server.tabs), Ids(Append(server.tabs, x)))
           /\ \A id : Steady(Ids(server.workspaces), Ids(FocusedIn(server.workspaces, id)))
           /\ \A x : x.focused = FALSE
                 => Steady(Ids(server.workspaces), Ids(Append(server.workspaces, x)))
<1>1. /\ IsList(server.workspaces)
      /\ \A r \in Ids(server.workspaces) :
              /\ r = [r EXCEPT !.focused = r.focused]
              /\ "id" \in DOMAIN r /\ "focused" \in DOMAIN r
    BY StandingLists
<1>2. /\ IsList(server.tabs)
      /\ \A r \in Ids(server.tabs) :
              /\ r = [r EXCEPT !.focused = r.focused]
              /\ "id" \in DOMAIN r /\ "focused" \in DOMAIN r
    BY StandingLists
<1> QED
    BY <1>1, <1>2, SteadyLists

\* The operations on tabs, and pane.split, only move the focus.
LEMMA TabsFocus ==
    ASSUME NEW h, Standing(server, log, h),
           \/ \E w : CreateTab(w) \/ MoveTab(w.id)
           \/ \E tab : \/ \E label : RenameTab(tab, label)
                       \/ CloseTab(tab)
                       \/ CreatePane(tab)
    PROVE  FocusMoves(server, server')
<1>1. DOMAIN server = {"workspaces", "tabs", "panes", "names", "layouts",
                       "freshW", "freshT", "freshP"}
    BY StandingLists
<1>2. /\ \A id, label : Steady(Ids(server.tabs), Ids(Relabelled(server.tabs, id, label)))
      /\ \A set : Steady(Ids(server.tabs), Ids(Among(server.tabs, set)))
      /\ \A x : x.focused = FALSE => Steady(Ids(server.tabs), Ids(Append(server.tabs, x)))
    BY TabLists
<1>3. ASSUME NEW w, CreateTab(w) PROVE FocusMoves(server, server')
  <2> DEFINE tab == [id |-> Head(server.freshT), ws |-> w.id, label |-> "new",
                     focused |-> FALSE]
             pane == NewPane(Head(server.freshP), tab.id, w.id)
             layout == [tab |-> tab.id, ws |-> w.id, focusedPane |-> pane.id]
  <2>1. tab.focused = FALSE /\ pane.focused = FALSE
      BY DEF NewPane
  <2>2. server' = [server EXCEPT !.freshT = Tail(@), !.freshP = Tail(@),
                              !.tabs = Append(@, tab), !.panes = @ \cup {pane},
                              !.layouts = @ \cup {layout}]
      BY <1>3 DEF CreateTab, Operate
  <2> HIDE DEF tab, pane, layout
  <2>3. /\ server'.workspaces = server.workspaces
        /\ server'.tabs = Append(server.tabs, tab)
        /\ server'.panes = server.panes \cup {pane}
      BY <1>1, <2>2
  <2>4. Steady(Ids(server.tabs), Ids(server'.tabs))
      BY <1>2, <2>1, <2>3
  <2>5. Steady(server.panes, server'.panes)
      BY <2>1, <2>3, SteadyPanes
  <2> QED
      BY <2>3, <2>4, <2>5, FocusRests DEF FocusMoves
<1>4. ASSUME NEW w, MoveTab(w) PROVE FocusMoves(server, server')
  <2> DEFINE inside == SeqWithout(server.tabs, LAMBDA tab : ~(tab.ws = w))
             rest == SeqWithout(server.tabs, LAMBDA tab : tab.ws = w)
             moved == Append(Tail(inside), Head(inside))
  <2>0. IsList(server.tabs)
      BY StandingLists
  <2>1. /\ IsList(inside) /\ Ids(inside) \subseteq Ids(server.tabs)
        /\ IsList(rest) /\ Ids(rest) \subseteq Ids(server.tabs)
    <3>1. \A set : IsList(Among(server.tabs, set)) /\ Ids(Among(server.tabs, set)) \subseteq Ids(server.tabs)
        BY <2>0, AmongFacts, AmongList DEF IsList
    <3> QED
        BY <3>1 DEF SeqWithout
  <2>2. /\ Len(inside) > 1
        /\ server' = [server EXCEPT !.tabs = rest \o moved]
      BY <1>4 DEF MoveTab, Operate
  <2> HIDE DEF inside, rest
  <2>3. Ids(moved) = Ids(inside) /\ IsList(moved)
      BY <2>1, <2>2, RotateFacts
  <2> HIDE DEF moved
  <2>4. PICK t : t = rest \o moved
      OBVIOUS
  <2>5. Ids(t) \subseteq Ids(server.tabs)
    <3>1. Ids(rest \o moved) = Ids(rest) \cup Ids(moved)
        BY <2>1, <2>3, ConcatFacts
    <3> QED
        BY ONLY <2>1, <2>3, <2>4, <3>1
  <2>6. /\ server'.workspaces = server.workspaces /\ server'.tabs = t
        /\ server'.panes = server.panes
      BY <1>1, <2>2, <2>4
  <2>7. Steady(Ids(server.tabs), Ids(server'.tabs))
      BY <2>5, <2>6, SteadySame
  <2> QED
      BY <2>6, <2>7, FocusRests DEF FocusMoves
<1>5. ASSUME NEW tab, NEW label, RenameTab(tab, label) PROVE FocusMoves(server, server')
  <2>1. PICK t : /\ t = Relabelled(server.tabs, tab.id, label)
                 /\ server' = [server EXCEPT !.tabs = t]
      BY <1>5 DEF RenameTab, Operate
  <2>2. /\ server'.workspaces = server.workspaces /\ server'.tabs = t /\ server'.panes = server.panes
      BY <1>1, <2>1
  <2>4. Steady(Ids(server.tabs), Ids(server'.tabs))
      BY <1>2, <2>1, <2>2
  <2> QED
      BY <2>2, <2>4, FocusRests DEF FocusMoves
<1>6. ASSUME NEW tab, CloseTab(tab) PROVE FocusMoves(server, server')
  <2> DEFINE u == SeqWithout(server.tabs, LAMBDA r : r.id = tab.id)
             p == Without(server.panes, LAMBDA r : r.tab = tab.id)
             x == Without(server.layouts, LAMBDA r : r.tab = tab.id)
  <2>0. /\ \E set : u = Among(server.tabs, set)
        /\ p \subseteq server.panes
      BY DEF SeqWithout, Without
  <2>1. server' = [server EXCEPT !.tabs = u, !.panes = p, !.layouts = x]
      BY <1>6 DEF CloseTab, Operate
  <2> HIDE DEF u, p, x
  <2>2. /\ server'.workspaces = server.workspaces /\ server'.tabs = u /\ server'.panes = p
      BY <1>1, <2>1
  <2>5. Steady(Ids(server.tabs), Ids(server'.tabs))
      BY <1>2, <2>0, <2>2
  <2> QED
      BY <2>0, <2>2, <2>5, FocusRests DEF FocusMoves
<1>7. ASSUME NEW tab, CreatePane(tab) PROVE FocusMoves(server, server')
  <2> DEFINE pane == NewPane(Head(server.freshP), tab.id, tab.ws)
             layout == LayoutFor(tab.id, tab.ws, PanesIn(tab.id) \cup {pane},
                               FocusedPaneOf(tab.id))
             x == ReplaceLayout(server.layouts, layout)
  <2>1. pane.focused = FALSE
      BY DEF NewPane
  <2>2. server' = [server EXCEPT !.freshP = Tail(@), !.panes = @ \cup {pane}, !.layouts = x]
      BY <1>7 DEF CreatePane, Operate
  <2> HIDE DEF x, layout, pane
  <2>3. /\ server'.workspaces = server.workspaces /\ server'.tabs = server.tabs
        /\ server'.panes = server.panes \cup {pane}
      BY <1>1, <2>2
  <2>5. Steady(server.panes, server'.panes)
      BY <2>1, <2>3, SteadyPanes
  <2> QED
      BY <2>3, <2>5, FocusRests DEF FocusMoves
<1> QED
    BY <1>3, <1>4, <1>5, <1>6, <1>7

\* The operations on panes only move the focus.
LEMMA PanesFocus ==
    ASSUME NEW h, Standing(server, log, h), NEW pane \in server.panes,
           \/ UpdatePane(pane) \/ ClosePane(pane) \/ BreakOutPane(pane)
           \/ FocusPane(pane) \/ ReleaseAgent(pane)
           \/ \E tab : MovePane(pane, tab)
           \/ \E agent : DetectAgent(pane, agent)
           \/ \E status : ReportStatus(pane, status)
    PROVE  FocusMoves(server, server')
<1>1. DOMAIN server = {"workspaces", "tabs", "panes", "names", "layouts",
                       "freshW", "freshT", "freshP"}
    BY StandingLists
<1>2. PaneShaped(pane) /\ pane.focused \in BOOLEAN
    BY StandingLists
<1>3. ASSUME NEW new, NEW N, new.id = pane.id, new.focused = pane.focused,
             \/ server' = [server EXCEPT !.panes = (@ \ {pane}) \cup {new}]
             \/ server' = [server EXCEPT !.panes = (@ \ {pane}) \cup {new}, !.names = N]
      PROVE  FocusMoves(server, server')
  <2>1. /\ server'.workspaces = server.workspaces /\ server'.tabs = server.tabs
        /\ server'.panes = (server.panes \ {pane}) \cup {new}
      BY <1>1, <1>3
  <2>2. Steady(server.panes, server'.panes)
      BY <1>3, <2>1, SteadyPane
  <2> QED
      BY <2>1, <2>2, FocusRests DEF FocusMoves
<1>4. CASE UpdatePane(pane)
  <2>1. PICK new : new = [pane EXCEPT !.rev = @ + 1] /\ server' = [server EXCEPT !.panes = (@ \ {pane}) \cup {new}]
      BY <1>4 DEF UpdatePane, ChangePane, Operate
  <2>2. new.id = pane.id /\ new.focused = pane.focused
      BY <1>2, <2>1 DEF PaneShaped
  <2> QED
      BY <1>3, <2>1, <2>2
<1>5. ASSUME NEW agent, DetectAgent(pane, agent) PROVE FocusMoves(server, server')
  <2>1. PICK new : new = [pane EXCEPT !.agent = agent] /\ server' = [server EXCEPT !.panes = (@ \ {pane}) \cup {new}]
      BY <1>5 DEF DetectAgent, ChangePane, Operate
  <2>2. new.id = pane.id /\ new.focused = pane.focused
      BY <1>2, <2>1 DEF PaneShaped
  <2> QED
      BY <1>3, <2>1, <2>2
<1>6. ASSUME NEW status, ReportStatus(pane, status) PROVE FocusMoves(server, server')
  <2>1. PICK new : new = ShownAs(pane, status, "shown") /\ server' = [server EXCEPT !.panes = (@ \ {pane}) \cup {new}]
      BY <1>6 DEF ReportStatus, ChangePane, Operate, ShownAs
  <2>2. new.id = pane.id /\ new.focused = pane.focused
      BY <1>2, <2>1, PaneShown
  <2> QED
      BY <1>3, <2>1, <2>2
<1>7. CASE ReleaseAgent(pane)
  <2>1. PICK new, N : new = ReleasedAs(pane)
                      /\ server' = [server EXCEPT !.panes = (@ \ {pane}) \cup {new}, !.names = N]
      BY <1>7 DEF ReleaseAgent, Operate, ReleasedAs
  <2>2. new.id = pane.id /\ new.focused = pane.focused
      BY <1>2, <2>1, PaneReleased
  <2> QED
      BY <1>3, <2>1, <2>2
<1>8. CASE ClosePane(pane)
  <2>1. PICK x : server' = [server EXCEPT !.panes = @ \ {pane}, !.layouts = x]
      BY <1>8 DEF ClosePane, Operate
  <2>2. /\ server'.workspaces = server.workspaces /\ server'.tabs = server.tabs
        /\ server'.panes = server.panes \ {pane}
      BY <1>1, <2>1
  <2> QED
      BY <2>2, FocusRests DEF FocusMoves
<1>9. CASE FocusPane(pane)
  <2> DEFINE W == FocusedIn(server.workspaces, pane.ws)
             T == FocusedIn(server.tabs, pane.tab)
             P == {[p EXCEPT !.focused = (p = pane)] : p \in server.panes}
  <2>1. PICK L : server' = [server EXCEPT !.workspaces = W, !.tabs = T, !.panes = P, !.layouts = L]
      BY <1>9 DEF FocusPane, Operate
  <2>2. \A r \in P : r.focused => r.id = pane.id
    <3> SUFFICES ASSUME NEW q \in P, q.focused
                 PROVE  q.id = pane.id
        OBVIOUS
    <3>2. PICK p \in server.panes : q = [p EXCEPT !.focused = (p = pane)]
        OBVIOUS
    <3>1. PaneShaped(p)
        BY StandingLists
    <3>3. q.focused = (p = pane) /\ q.id = p.id
        BY <3>1, <3>2 DEF PaneShaped
    <3> QED
        BY <3>3
  <2> HIDE DEF W, T, P
  <2>3. server'.workspaces = W /\ server'.tabs = T /\ server'.panes = P
      BY <1>1, <2>1
  <2>4. Steady(Ids(server.workspaces), Ids(W)) /\ Steady(Ids(server.tabs), Ids(T))
      BY TabLists DEF W, T
  <2>5. Steady(server.panes, P)
      BY <2>2 DEF Steady
  <2> QED
      BY <2>3, <2>4, <2>5 DEF FocusMoves
<1>10. CASE BreakOutPane(pane)
  <2>0. pane.focused = FALSE
      BY <1>2, <1>10 DEF BreakOutPane
  <2>1. PICK w, tab, new :
          /\ w = [id |-> Head(server.freshW), label |-> "new", focused |-> FALSE]
          /\ tab = [id |-> Head(server.freshT), ws |-> w.id, label |-> "new", focused |-> FALSE]
          /\ new = [pane EXCEPT !.id = Head(server.freshP), !.tab = tab.id, !.ws = w.id]
          /\ \E x, N : server' = [server EXCEPT
                   !.freshP = Tail(@), !.freshT = Tail(@), !.freshW = Tail(@),
                   !.panes = (@ \ {pane}) \cup {new}, !.names = N,
                   !.workspaces = Append(@, w), !.tabs = Append(@, tab),
                   !.layouts = x]
      BY <1>10 DEF BreakOutPane, Operate
  <2>2. w.focused = FALSE /\ tab.focused = FALSE
      BY <2>1
  <2>3. new.focused = FALSE
    <3>1. new = MovedAs(pane, Head(server.freshP), tab.id, w.id)
        BY <2>1 DEF MovedAs
    <3> QED
        BY <1>2, <2>0, <3>1, PaneMovedAs
  <2>4. /\ server'.panes = (server.panes \ {pane}) \cup {new}
        /\ server'.workspaces = Append(server.workspaces, w)
        /\ server'.tabs = Append(server.tabs, tab)
      BY <1>1, <2>1
  <2>5. Steady(server.panes, server'.panes)
      BY <2>3, <2>4, SteadyPanes
  <2>6. Steady(Ids(server.workspaces), Ids(server'.workspaces))
      BY <2>2, <2>4, TabLists
  <2>7. Steady(Ids(server.tabs), Ids(server'.tabs))
      BY <2>2, <2>4, TabLists
  <2> QED
      BY <2>5, <2>6, <2>7 DEF FocusMoves
<1>11. ASSUME NEW tab, MovePane(pane, tab) PROVE FocusMoves(server, server')
  <2>0. pane.focused = FALSE
      BY <1>2, <1>11 DEF MovePane
  <2>1. PICK new, rest, target, source, seq : \E closes \in BOOLEAN :
          MovePaneDoes(pane, tab, new, closes, rest, target, source, seq)
      BY <1>11, MovePaneUnfolds
  <2>2. PICK closes \in BOOLEAN : MovePaneDoes(pane, tab, new, closes, rest, target, source, seq)
      BY <2>1
  <2>3. new.focused = FALSE
    <3>1. new = MovedAs(pane, Head(server.freshP), tab.id, tab.ws)
        BY <2>2 DEF MovePaneDoes
    <3> QED
        BY <1>2, <2>0, <3>1, PaneMovedAs
  <2> DEFINE T == IF closes THEN Among(server.tabs, {r \in S!Range(server.tabs) : r.id # pane.tab})
                  ELSE server.tabs
             L == {x \in server.layouts : x.tab \notin {tab.id, pane.tab}}
                      \cup source \cup {target}
  <2>4. PICK N : server' = [server EXCEPT !.freshP = Tail(@),
                            !.panes = (@ \ {pane}) \cup {new}, !.names = N,
                            !.tabs = T, !.layouts = L]
      BY <2>2 DEF MovePaneDoes
  <2>9. T = server.tabs \/ \E set : T = Among(server.tabs, set)
      OBVIOUS
  <2> HIDE DEF T, L
  <2>5. /\ server'.panes = (server.panes \ {pane}) \cup {new}
        /\ server'.workspaces = server.workspaces /\ server'.tabs = T
      BY <1>1, <2>4
  <2>6. Steady(server.panes, server'.panes)
      BY <2>3, <2>5, SteadyPanes
  <2>7. Steady(Ids(server.tabs), Ids(server'.tabs))
    <3>1. CASE T = server.tabs
        BY <3>1, <2>5, FocusRests
    <3>2. CASE \E set : T = Among(server.tabs, set)
        BY <3>2, <2>5, TabLists
    <3> QED
        BY <2>9, <3>1, <3>2
  <2> QED
      BY <2>5, <2>6, <2>7, FocusRests DEF FocusMoves
<1> QED
    BY <1>4, <1>5, <1>6, <1>7, <1>8, <1>9, <1>10, <1>11

\* Any operation of the server.
LEMMA ServerStepOnward ==
    ASSUME NEW h, Standing(server, log, h), FocusSole(server), ServerStep
    PROVE  /\ Onward(server, log, h, server', log')
           /\ FocusSole(server')
<1>1. Absent \notin Programs /\ "shown" # Absent
    BY AbsentAssumption
<1>2. Onward(server, log, h, server', log') /\ FocusMoves(server, server')
  <2>1. CASE CreateWorkspace
      BY <2>1, CreateWorkspaceOnward, WorkspacesFocus
  <2>2. CASE MoveWorkspace
      BY <2>2, MoveWorkspaceOnward, WorkspacesFocus
  <2>3. ASSUME NEW w \in S!Range(server.workspaces),
               \/ \E label \in Labels : RenameWorkspace(w, label)
               \/ CloseWorkspace(w)
        PROVE  Onward(server, log, h, server', log') /\ FocusMoves(server, server')
      BY <2>3, RenameWorkspaceOnward, CloseWorkspaceOnward, WorkspacesFocus
  <2>4. ASSUME NEW w \in S!Range(server.workspaces), CreateTab(w) \/ MoveTab(w.id)
        PROVE  Onward(server, log, h, server', log') /\ FocusMoves(server, server')
      BY <2>4, CreateTabOnward, MoveTabOnward, TabsFocus
  <2>5. ASSUME NEW tab \in S!Range(server.tabs),
               \/ \E label \in Labels : RenameTab(tab, label)
               \/ CloseTab(tab)
               \/ CreatePane(tab)
        PROVE  Onward(server, log, h, server', log') /\ FocusMoves(server, server')
      BY <2>5, RenameTabOnward, CloseTabOnward, CreatePaneOnward, TabsFocus
  <2>6. ASSUME NEW tab \in S!Range(server.tabs), NEW pane \in server.panes,
               MovePane(pane, tab)
        PROVE  Onward(server, log, h, server', log') /\ FocusMoves(server, server')
      BY <2>6, MovePaneOnward, PanesFocus
  <2>7. ASSUME NEW pane \in server.panes,
               \/ UpdatePane(pane) \/ ClosePane(pane) \/ BreakOutPane(pane)
               \/ FocusPane(pane) \/ ReleaseAgent(pane)
        PROVE  Onward(server, log, h, server', log') /\ FocusMoves(server, server')
      BY <2>7, UpdatePaneOnward, ClosePaneOnward, BreakOutPaneOnward, FocusPaneOnward,
         ReleaseAgentOnward, PanesFocus
  <2>8. ASSUME NEW pane \in server.panes,
               \/ \E agent \in Programs : DetectAgent(pane, agent)
               \/ \E status \in Statuses : ReportStatus(pane, status)
        PROVE  Onward(server, log, h, server', log') /\ FocusMoves(server, server')
      BY <1>1, <2>8, DetectAgentOnward, ReportStatusOnward, PanesFocus
  <2> QED
      BY <2>1, <2>2, <2>3, <2>4, <2>5, <2>6, <2>7, <2>8 DEF ServerStep
<1>3. PICK h2 : Standing(server', log', h2)
    BY <1>2 DEF Onward
<1> QED
    BY <1>2, <1>3, FocusMovesSole
=============================================================================
