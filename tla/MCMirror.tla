------------------------------ MODULE MCMirror ------------------------------
(* A small session: two workspaces, three tabs, four panes, one agent. *)
EXTENDS Mirror

Workspace(id, focused) == [id |-> id, label |-> "old", focused |-> focused]
Tab(id, ws, focused) == [id |-> id, ws |-> ws, label |-> "old", focused |-> focused]

MCInitialServer ==
    [workspaces |-> <<Workspace("w1", TRUE), Workspace("w2", FALSE)>>,
     tabs |-> <<Tab("t1", "w1", TRUE), Tab("t2", "w2", FALSE), Tab("t3", "w1", FALSE)>>,
     panes |-> {[NewPane("p1", "t1", "w1") EXCEPT !.focused = TRUE],
                [NewPane("p2", "t1", "w1") EXCEPT !.agent = "a1"],
                NewPane("p3", "t2", "w2"),
                NewPane("p4", "t3", "w1")},
     names |-> [p \in {"p1", "p2", "p3", "p4", "p5", "p6", "p7"} |->
                   IF p = "p2" THEN "named" ELSE Absent],
     layouts |-> {[tab |-> "t1", ws |-> "w1", focusedPane |-> "p1"],
                  [tab |-> "t2", ws |-> "w2", focusedPane |-> "p3"],
                  [tab |-> "t3", ws |-> "w1", focusedPane |-> "p4"]},
     freshW |-> <<"w3", "w4">>,
     freshT |-> <<"t4", "t5">>,
     freshP |-> <<"p5", "p6", "p7">>]
=============================================================================
