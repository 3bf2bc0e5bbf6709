--------------------------- MODULE TaskGraphState ---------------------------
(***************************************************************************)
(* The work graph as the database holds it (typed dependency edges, task   *)
(* statuses, the projection is_blocked, container flags, gates) and the    *)
(* transactions that change it.                                            *)
(*                                                                         *)
(* A transaction is READ COMMITTED: each of its statements reads what is   *)
(* committed at that moment and its own writes, which nobody else sees     *)
(* before it commits.  It locks the task rows it updates until its end.    *)
(* is_blocked is never authored: a transaction that changes something the  *)
(* predicate reads collects the tasks that can be affected, locks their    *)
(* rows and evaluates the predicate for them before it commits.            *)
(***************************************************************************)
EXTENDS Integers, FiniteSets

CONSTANTS
    Tasks,
    Gates,
    Writers,     \* database connections with at most one transaction each
    Starts,      \* graphs to start from: [edges, status, container, attached]
    AllStrict,   \* every reparent refuses live parents, as the operators' do
    MaxOps,      \* bound: operations begun
    MaxFaults    \* bound: transactions that fail for another reason than a deadlock

ASSUME BoundAssumption == MaxOps \in Nat /\ MaxFaults \in Nat /\ AllStrict \in BOOLEAN

Statuses == {"DEFINED", "READY", "IN_PROGRESS", "COMPLETED", "BLOCKED"}
Types == {"blocks", "conditional-blocks", "waits-for", "parent-child"}
Edges == [task : Tasks, on : Tasks, type : Types]
Links == Tasks \X Gates

VARIABLES
    edges,       \* task_dependencies
    status,      \* tasks.status
    blocked,     \* tasks with is_blocked = 1
    container,   \* tasks with the container flag
    attached,    \* task_gates
    resolved,    \* gates that are resolved
    tx,          \* the transaction of each writer
    ops,         \* operations begun so far
    faults       \* faults so far

data == <<edges, status, blocked, container, attached, resolved>>
vars == <<data, tx, ops, faults>>

----------------------------------------------------------------------------
\* What task t waits for, given edges E, statuses S and open links L.
Unmet(e, S) ==
    \/ e.type = "blocks" /\ S[e.on] # "COMPLETED"
    \/ e.type = "conditional-blocks" /\ S[e.on] # "BLOCKED"
    \/ e.type = "parent-child" /\ S[e.on] = "DEFINED"

Prerequisite(E, S, t) == \E e \in E : e.task = t /\ Unmet(e, S)

ChildOf(e, c) == e.type = "parent-child" /\ e.on = c

\* A fan-in waits for every child its container has.
FanIn(E, S, t) ==
    \E e \in E : /\ e.task = t /\ e.type = "waits-for"
                 /\ \E c \in E : ChildOf(c, e.on) /\ S[c.task] # "COMPLETED"

Gated(L, t) == \E l \in L : l[1] = t

IsBlocked(E, S, L, t) == Prerequisite(E, S, t) \/ FanIn(E, S, t) \/ Gated(L, t)

\* Mutant: leaves out who depends on a seed over an edge of its own.
AffectedShort(E, seeds) ==
    seeds \cup {e.task : e \in {f \in E : f.type = "waits-for" /\
                                    \E c \in E : ChildOf(c, f.on) /\ c.task \in seeds}}

\* The rows whose projection a change to the seeds can reach: the seeds, what
\* depends on them, and who fans in over the containers they are children of.
Affected(E, seeds) ==
    seeds \cup {e.task : e \in {f \in E : f.on \in seeds}}
          \cup {e.task : e \in {f \in E : f.type = "waits-for" /\
                                    \E c \in E : ChildOf(c, f.on) /\ c.task \in seeds}}

Membership(E) == {e \in E : e.type = "parent-child"}
Parents(E, t) == {e.on : e \in {f \in E : f.task = t /\ f.type = "parent-child"}}

\* b is reached from a: every set with a that is closed under E has b.
Reaches(E, a, b) ==
    \A S \in SUBSET Tasks : a \in S /\ (\A e \in E : e.task \in S => e.on \in S) => b \in S

\* No set of tasks, each waiting for another one of the set.
Acyclic(E) ==
    \A S \in SUBSET Tasks : S # {} => \E t \in S : \A e \in E : e.task = t => e.on \notin S

----------------------------------------------------------------------------
\* Nothing begun.  edge and plan are what a command has decided from what it
\* read before; adds, dels, wrote, links, passes and flags are its writes;
\* rows and lock what it has locked (task rows, and the project's hierarchy
\* lock); fresh the rows it has evaluated, held those of them it found blocked;
\* pend the rows it has collected and still has to evaluate; todo the
\* containers it has yet to settle.
Idle ==
    [phase |-> "idle", edge |-> {}, plan |-> {}, adds |-> {}, dels |-> {},
     wrote |-> [t \in Tasks |-> "kept"], links |-> {}, passes |-> {}, flags |-> {},
     rows |-> {}, lock |-> FALSE, fresh |-> {}, held |-> {}, pend |-> {}, todo |-> {}]

Transactions ==
    [phase : {"idle", "checked", "open"}, edge : SUBSET Edges,
     plan : SUBSET [task : Tasks, new : Statuses], adds : SUBSET Edges, dels : SUBSET Edges,
     wrote : [Tasks -> Statuses \cup {"kept"}], links : SUBSET Links, passes : SUBSET Gates,
     flags : SUBSET Tasks, rows : SUBSET Tasks, lock : BOOLEAN, fresh : SUBSET Tasks,
     held : SUBSET Tasks, pend : SUBSET Tasks, todo : SUBSET Tasks]

\* The graph as writer w's next statement reads it.
EdgesOf(w) == (edges \ tx[w].dels) \cup tx[w].adds
StatusOf(w) == [t \in Tasks |-> IF tx[w].wrote[t] = "kept" THEN status[t] ELSE tx[w].wrote[t]]
OpenLinks == {l \in attached : l[2] \notin resolved}
OpenLinksOf(w) == {l \in attached \cup tx[w].links : l[2] \notin resolved \cup tx[w].passes}

\* No other transaction has locked a row of R, or holds the hierarchy lock.
Free(w, R) == \A x \in Writers \ {w} : tx[x].rows \cap R = {}
HierarchyFree(w) == \A x \in Writers \ {w} : ~tx[x].lock

\* An operation begins: a write of its transaction, with what it collects.
Begin(w) == tx[w].phase = "idle" /\ ops < MaxOps /\ ops' = ops + 1
Become(w, t) == tx' = [tx EXCEPT ![w] = t]

\* A graph to start from is well-formed, and its hierarchy a forest.
ASSUME StartAssumption ==
    \A s \in Starts :
        /\ s.edges \subseteq Edges /\ s.status \in [Tasks -> Statuses]
        /\ s.container \subseteq Tasks /\ s.attached \subseteq Links
        /\ Acyclic(Membership(s.edges))
        /\ \A e, f \in Membership(s.edges) : e.task = f.task => e = f

Start ==
    \E s \in Starts :
        /\ edges = s.edges /\ status = s.status /\ container = s.container
        /\ attached = s.attached
        /\ blocked = {t \in Tasks : IsBlocked(s.edges, s.status, s.attached, t)}

Init ==
    /\ Start
    /\ resolved = {}
    /\ tx = [w \in Writers |-> Idle]
    /\ ops = 0 /\ faults = 0

TypeOK ==
    /\ edges \subseteq Edges /\ status \in [Tasks -> Statuses]
    /\ blocked \subseteq Tasks /\ container \subseteq Tasks
    /\ attached \subseteq Links /\ resolved \subseteq Gates
    /\ tx \in [Writers -> Transactions]
    /\ ops \in Nat /\ faults \in Nat
=============================================================================
