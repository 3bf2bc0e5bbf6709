---------------------------- MODULE MCTaskGraph ----------------------------
(***************************************************************************)
(* Instances of TaskGraph for TLC: four small graphs in which children end *)
(* together, containers settle into containers, a contingency, a withheld  *)
(* child and a gated task change what they wait for, and a container is    *)
(* left to the sweep.                                                      *)
(***************************************************************************)
EXTENDS TaskGraph, TLC

CONSTANTS c, d, f, v, g1

\* The last two children of a container end, and v fans in over it.
LastChildren ==
    [edges |-> {Edge(d, "parent-child", c), Edge(f, "parent-child", c), Edge(v, "waits-for", c)},
     status |-> c :> "IN_PROGRESS" @@ d :> "IN_PROGRESS" @@ f :> "IN_PROGRESS" @@ v :> "DEFINED",
     container |-> {c}, attached |-> {}]

\* Containers in containers, and v after the inner one.
Nested ==
    [edges |-> {Edge(d, "parent-child", c), Edge(f, "parent-child", d), Edge(v, "blocks", d)},
     status |-> c :> "IN_PROGRESS" @@ d :> "IN_PROGRESS" @@ f :> "IN_PROGRESS" @@ v :> "READY",
     container |-> {c, d}, attached |-> {}]

\* A contingency, a child of a container that is not promoted, and a gate.
Contingency ==
    [edges |-> {Edge(f, "conditional-blocks", d), Edge(v, "parent-child", c)},
     status |-> c :> "DEFINED" @@ d :> "IN_PROGRESS" @@ f :> "READY" @@ v :> "READY",
     container |-> {c}, attached |-> {<<d, g1>>}]

\* A container whose only child is completed, which f waits for, to be released.
Releasable ==
    [edges |-> {Edge(d, "parent-child", c), Edge(f, "blocks", d)},
     status |-> c :> "READY" @@ d :> "COMPLETED" @@ f :> "READY" @@ v :> "READY",
     container |-> {c}, attached |-> {}]

MCStarts == {LastChildren, Nested, Contingency, Releasable}
=============================================================================
