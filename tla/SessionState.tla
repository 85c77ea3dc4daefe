---------------------------- MODULE SessionState ----------------------------
(***************************************************************************)
(* What a program reads of the mirror (session_state.go): the accessors    *)
(* and the Snapshot of a Session.  Each holds the read lock throughout, so *)
(* it sees the cache as one event left it; the copies they return are the  *)
(* business of module Values.                                              *)
(***************************************************************************)
EXTENDS SessionCache

Workspaces(c) == Values(c.workspaces)
Tabs(c) == Values(c.tabs)
Agents(c) == Values(c.agents)

\* Get of a collection, or Absent.
Lookup(o, id) == IF Has(o, id) THEN o.entries[id] ELSE Absent

Pane(c, id) == Lookup(c.panes, id)
Layout(c, tab) == Lookup(c.layouts, tab)

\* The first focused value; the server keeps the flag exclusive.
focusedID(values) ==
    LET focused == {i \in DOMAIN values : values[i].focused}
    IN IF focused = {} THEN Absent
       ELSE values[CHOOSE i \in focused : \A j \in focused : i <= j].id

Snapshot(c) ==
    [workspaces |-> Workspaces(c), tabs |-> Tabs(c), panes |-> Values(c.panes),
     agents |-> Agents(c), layouts |-> Values(c.layouts),
     focusedWorkspace |-> focusedID(Workspaces(c)),
     focusedTab |-> focusedID(Tabs(c)),
     focusedPane |-> focusedID(Values(c.panes))]
=============================================================================
