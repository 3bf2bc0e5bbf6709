------------------------------ MODULE TaskGraph ------------------------------
(***************************************************************************)
(* The operations on the work graph: dependency commands, reparenting,     *)
(* gates, task transitions, and the settlement of containers whose         *)
(* children are done.  Each is a transaction of several statements; the    *)
(* statements of different transactions interleave.                        *)
(***************************************************************************)
EXTENDS TaskGraphState

Edge(t, type, u) == [task |-> t, on |-> u, type |-> type]

\* No other transaction has inserted or deleted the same row.
Unique(w, e) == \A x \in Writers \ {w} : e \notin tx[x].adds \cup tx[x].dels

\* _cmd_add_dependency reads the graph and validates the new edge in
\* transactions of their own, before the one that inserts it.
CheckEdge(w, e) ==
    /\ Begin(w)
    /\ e.type # "parent-child" /\ e.task # e.on /\ e \notin edges
    /\ Acyclic(edges \cup {e})
    /\ e.type = "waits-for" => ~Reaches(Membership(edges), e.task, e.on)
    /\ Become(w, [Idle EXCEPT !.phase = "checked", !.edge = {e}])
    /\ UNCHANGED <<data, faults>>

\* Mutant: collects what the graph without the new edge shows.
InsertEdgeLate(w) ==
    /\ tx[w].phase = "checked"
    /\ \E e \in tx[w].edge :
        /\ Unique(w, e)
        /\ Become(w, [Idle EXCEPT !.phase = "open", !.adds = {e}, !.pend = Affected(edges, {e.on})])
    /\ UNCHANGED <<data, ops, faults>>

InsertEdge(w) ==
    /\ tx[w].phase = "checked"
    /\ \E e \in tx[w].edge :
        /\ Unique(w, e)
        /\ Become(w, [Idle EXCEPT !.phase = "open", !.adds = {e},
                                  !.pend = Affected(edges \cup {e}, {e.task, e.on})])
    /\ UNCHANGED <<data, ops, faults>>

RemoveEdge(w, e) ==
    /\ Begin(w)
    /\ e \in edges /\ e.type # "parent-child" /\ Unique(w, e)
    /\ Become(w, [Idle EXCEPT !.phase = "open", !.dels = {e},
                              !.pend = Affected(edges \ {e}, {e.task, e.on})])
    /\ UNCHANGED <<data, faults>>

\* A task of the moved subtree is gated on the new parent or its ancestors.
GatedOnAncestor(d, p) ==
    \E e \in edges \ Membership(edges) :
        Reaches(Membership(edges), e.task, d) /\ Reaches(Membership(edges), p, e.on)

\* No agent works on the parent, and nothing that moves waits for it.
MayTakeOn(d, p) ==
    /\ status[p] = "IN_PROGRESS" => p \in container
    /\ ~GatedOnAncestor(d, p)

\* Mutant: looks one level up for a cycle.
MayPlaceShallow(w, d, p, strict) ==
    /\ p # d /\ status[p] # "COMPLETED"
    /\ d \notin Parents(edges, p)
    /\ strict => Free(w, {p}) /\ (p \in Parents(edges, d) \/ MayTakeOn(d, p))

\* Mutant: the new parent's row is not locked.
MayPlaceUnlocked(w, d, p, strict) ==
    /\ p # d /\ status[p] # "COMPLETED"
    /\ ~Reaches(edges, p, d)
    /\ strict => p \in Parents(edges, d) \/ MayTakeOn(d, p)

\* set_parent validates a parent under the hierarchy lock.  A strict one locks
\* its row first.
MayPlace(w, d, p, strict) ==
    /\ p # d /\ status[p] # "COMPLETED"
    /\ ~Reaches(edges, p, d)
    /\ strict => Free(w, {p}) /\ (p \in Parents(edges, d) \/ MayTakeOn(d, p))

\* The parent of d becomes the one in P, or none.
SetParent(w, d, P, strict) ==
    /\ Begin(w)
    /\ HierarchyFree(w) /\ Free(w, {d})
    /\ \A p \in P : MayPlace(w, d, p, strict)
    /\ LET old == Parents(edges, d)
           adds == {Edge(d, "parent-child", p) : p \in P}
           dels == {Edge(d, "parent-child", p) : p \in old}
           after == (edges \ dels) \cup adds
           seeds == Affected(edges, {d}) \cup old \cup P \cup Affected(after, {d})
       IN Become(w, [Idle EXCEPT !.phase = "open", !.lock = TRUE,
                                 !.rows = IF strict THEN {d} \cup P ELSE {d},
                                 !.adds = adds, !.dels = dels, !.flags = P,
                                 !.pend = Affected(after, seeds), !.todo = old \cup P])
    /\ UNCHANGED <<data, faults>>

Reparent(w, d, p) ==
    \E strict \in BOOLEAN : (AllStrict => strict) /\ SetParent(w, d, {p}, strict)
Detach(w, d) == Parents(edges, d) # {} /\ SetParent(w, d, {}, FALSE)

AttachGate(w, t, g) ==
    /\ Begin(w)
    /\ g \notin resolved /\ \A x \in Writers \ {w} : <<t, g>> \notin tx[x].links
    /\ Become(w, [Idle EXCEPT !.phase = "open", !.links = {<<t, g>>},
                              !.pend = Affected(edges, {t})])
    /\ UNCHANGED <<data, faults>>

\* resolve_gate evaluates the waiters it finds, if any.
ResolveGate(w, g) ==
    /\ Begin(w)
    /\ g \notin resolved /\ \A x \in Writers \ {w} : g \notin tx[x].passes
    /\ LET waiters == {t \in Tasks : <<t, g>> \in attached} IN
        Become(w, [Idle EXCEPT !.phase = "open", !.passes = {g},
                               !.pend = IF waiters = {} THEN {} ELSE Affected(edges, waiters)])
    /\ UNCHANGED <<data, faults>>

----------------------------------------------------------------------------
\* Statuses the predicate does not tell apart.
Neutral == {"READY", "IN_PROGRESS"}

\* _apply_transition: the write, the rows it can affect unless it only moves
\* between neutral statuses, and the parent of what is completed.
Transact(w, t, new, stable) ==
    /\ Free(w, {t})
    /\ Become(w, [Idle EXCEPT !.phase = "open", !.rows = {t}, !.wrote[t] = new,
                              !.pend = IF stable THEN {} ELSE Affected(edges, {t}),
                              !.todo = IF new = "COMPLETED" THEN Parents(edges, t) ELSE {}])
    /\ UNCHANGED <<data, faults>>

\* Its guard is part of the write.
Write(w, t, new, stable) == Begin(w) /\ Transact(w, t, new, stable)

\* Promotion repeats what it has read in the guard of its write.
Promote(w, t) == status[t] = "DEFINED" /\ t \notin blocked /\ Write(w, t, "READY", FALSE)

\* Mutant: the claim's guard trusts the frontier it was offered.
ClaimUnfenced(w, t) ==
    /\ status[t] = "READY" /\ t \notin container
    /\ Write(w, t, "IN_PROGRESS", TRUE)

Claim(w, t) ==
    /\ status[t] = "READY" /\ t \notin blocked /\ t \notin container
    /\ Write(w, t, "IN_PROGRESS", TRUE)
Yield(w, t) ==
    /\ status[t] = "IN_PROGRESS" /\ t \notin container
    /\ Write(w, t, "READY", TRUE)
Fail(w, t) ==
    /\ status[t] = "IN_PROGRESS" /\ t \notin container
    /\ Write(w, t, "BLOCKED", FALSE)

\* Nothing is completed over an open child.
ChildrenDone(E, S, c) == \A e \in E : ChildOf(e, c) => S[e.task] = "COMPLETED"

Complete(w, t) ==
    /\ status[t] = "IN_PROGRESS" /\ ChildrenDone(edges, status, t)
    /\ Write(w, t, "COMPLETED", FALSE)

\* A command or a sweep decides on what it reads, before the transaction that
\* writes.
Plan(w, t, new) ==
    /\ Begin(w)
    /\ Become(w, [Idle EXCEPT !.phase = "checked", !.plan = {[task |-> t, new |-> new]}])
    /\ UNCHANGED <<data, faults>>

\* A promoted container goes on without an agent.
PlanRelease(w, t) == status[t] = "READY" /\ t \in container /\ Plan(w, t, "IN_PROGRESS")

PlanRestart(w, t) == status[t] # "IN_PROGRESS" /\ Plan(w, t, "READY")

\* A contingency that can no longer be needed is closed: one of its
\* conditions is completed and nothing else holds it.
PlanSkip(w, t) ==
    /\ status[t] \in {"DEFINED", "READY"}
    /\ \E e \in edges : /\ e.task = t /\ e.type = "conditional-blocks"
                        /\ status[e.on] = "COMPLETED"
    /\ ~IsBlocked({e \in edges : e.type # "conditional-blocks"}, status, OpenLinks, t)
    /\ Plan(w, t, "COMPLETED")

\* The write has no guard: it replaces whatever status the task has by then.
Carry(w) ==
    /\ tx[w].phase = "checked"
    /\ \E p \in tx[w].plan :
        LET due == /\ status[p.task] # p.new
                   /\ p.new = "COMPLETED" => ChildrenDone(edges, status, p.task)
        IN \/ due /\ Transact(w, p.task, p.new, FALSE)
           \/ ~due /\ Free(w, {p.task}) /\ Become(w, Idle) /\ UNCHANGED <<data, faults>>
    /\ UNCHANGED ops

----------------------------------------------------------------------------
\* Mutant: the collected rows are evaluated without their locks.
RefreshUnlocked(w) ==
    /\ tx[w].phase = "open" /\ tx[w].pend # {}
    /\ LET now == {t \in tx[w].pend : IsBlocked(EdgesOf(w), StatusOf(w), OpenLinksOf(w), t)}
       IN Become(w, [tx[w] EXCEPT !.rows = @ \cup tx[w].pend, !.fresh = @ \cup tx[w].pend,
                                  !.held = (@ \ tx[w].pend) \cup now, !.pend = {}])
    /\ UNCHANGED <<data, ops, faults>>

\* recompute_blocked locks the collected rows and evaluates the predicate.
Refresh(w) ==
    /\ tx[w].phase = "open" /\ tx[w].pend # {} /\ Free(w, tx[w].pend)
    /\ LET now == {t \in tx[w].pend : IsBlocked(EdgesOf(w), StatusOf(w), OpenLinksOf(w), t)}
       IN Become(w, [tx[w] EXCEPT !.rows = @ \cup tx[w].pend, !.fresh = @ \cup tx[w].pend,
                                  !.held = (@ \ tx[w].pend) \cup now, !.pend = {}])
    /\ UNCHANGED <<data, ops, faults>>

\* A released container all of whose children are done.
Settles(w, c) ==
    /\ c \in container \cup tx[w].flags /\ StatusOf(w)[c] = "IN_PROGRESS"
    /\ ChildrenDone(EdgesOf(w), StatusOf(w), c)

\* settle_containers: one of the seeds is completed and its parent seeded in
\* its turn, or none of them is due.
Settle(w) ==
    /\ tx[w].phase = "open" /\ tx[w].pend = {} /\ tx[w].todo # {}
    /\ LET due == {c \in tx[w].todo : Settles(w, c)} IN
        \/ due = {} /\ Become(w, [tx[w] EXCEPT !.todo = {}])
        \/ \E c \in due :
            /\ Free(w, {c})
            /\ Become(w, [tx[w] EXCEPT !.rows = @ \cup {c}, !.wrote[c] = "COMPLETED",
                                       !.pend = Affected(EdgesOf(w), {c}),
                                       !.todo = (due \ {c}) \cup Parents(EdgesOf(w), c)])
    /\ UNCHANGED <<data, ops, faults>>

\* Everything the transaction wrote becomes visible and its locks are free.
Commit(w) ==
    /\ tx[w].phase = "open" /\ tx[w].pend = {} /\ tx[w].todo = {}
    /\ edges' = EdgesOf(w) /\ status' = StatusOf(w)
    /\ blocked' = (blocked \ tx[w].fresh) \cup tx[w].held
    /\ container' = container \cup tx[w].flags
    /\ attached' = attached \cup tx[w].links
    /\ resolved' = resolved \cup tx[w].passes
    /\ Become(w, Idle)
    /\ UNCHANGED <<ops, faults>>

\* The rows the next statement has to lock.
Wanted(w) ==
    IF tx[w].pend # {} THEN tx[w].pend ELSE {c \in tx[w].todo : Settles(w, c)}

\* The database ends one of several transactions that wait for each other.
Victim(w) ==
    /\ \E C \in SUBSET Writers :
        /\ w \in C
        /\ \A x \in C : \E y \in C \ {x} : Wanted(x) \cap tx[y].rows # {}
    /\ Become(w, Idle)
    /\ UNCHANGED <<data, ops, faults>>

\* A statement fails, the command is cancelled or the daemon dies.
Rollback(w) ==
    /\ tx[w].phase # "idle" /\ faults < MaxFaults
    /\ faults' = faults + 1
    /\ Become(w, Idle)
    /\ UNCHANGED <<data, ops>>

\* The backstop seeds every container that is due.
Due(c) == c \in container /\ status[c] = "IN_PROGRESS" /\ ChildrenDone(edges, status, c)

\* Mutant: the backstop's query joins the parent and so misses the roots.
SweepJoined(w) ==
    LET due == {c \in Tasks : Due(c) /\ Parents(edges, c) # {}} IN
        /\ tx[w].phase = "idle" /\ due # {}
        /\ Become(w, [Idle EXCEPT !.phase = "open", !.todo = due])
        /\ UNCHANGED <<data, ops, faults>>

Sweep(w) ==
    /\ tx[w].phase = "idle" /\ \E c \in Tasks : Due(c)
    /\ Become(w, [Idle EXCEPT !.phase = "open", !.todo = {c \in Tasks : Due(c)}])
    /\ UNCHANGED <<data, ops, faults>>

----------------------------------------------------------------------------
EdgeCommand(w) ==
    \/ \E e \in Edges : CheckEdge(w, e) \/ RemoveEdge(w, e)
    \/ InsertEdge(w)
    \/ \E d \in Tasks : Detach(w, d) \/ \E p \in Tasks : Reparent(w, d, p)

GateCommand(w) == \E g \in Gates : ResolveGate(w, g) \/ \E t \in Tasks : AttachGate(w, t, g)

Transition(w) ==
    \/ \E t \in Tasks :
        \/ Promote(w, t) \/ Claim(w, t) \/ Yield(w, t) \/ Fail(w, t) \/ Complete(w, t)
        \/ PlanRelease(w, t) \/ PlanRestart(w, t) \/ PlanSkip(w, t)
    \/ Carry(w)

Finish(w) == Refresh(w) \/ Settle(w) \/ Commit(w) \/ Victim(w)

Next ==
    \E w \in Writers :
        EdgeCommand(w) \/ GateCommand(w) \/ Transition(w) \/ Finish(w) \/ Rollback(w) \/ Sweep(w)

Spec == Init /\ [][Next]_vars

\* A command goes on after its validation, a transaction comes to its end, and
\* the sweep is repeated.  Nobody has to issue an operation.
Fairness ==
    /\ \A w \in Writers : WF_vars(InsertEdge(w) \/ Carry(w) \/ Finish(w))
    /\ WF_vars(\E w \in Writers : Sweep(w))
FairSpec == Spec /\ Fairness

----------------------------------------------------------------------------
\* A task that is_blocked lets go has no unmet prerequisite and no open gate,
\* whatever edges, statuses and gates changed at the same time.
ReleasedRight ==
    \A t \in Tasks \ blocked :
        ~Prerequisite(edges, status, t) /\ ~Gated(OpenLinks, t)

Simple(E, A, t) ==
    /\ \A e \in E : e.task = t => e.type # "waits-for"
    /\ \A l \in A : l[1] # t

\* A task that is_blocked holds has an unmet prerequisite: nobody waits for
\* ever for what is done.  Tasks that fan in or have a gate are left out.
HeldRight ==
    \A t \in blocked : Simple(edges, attached, t) => Prerequisite(edges, status, t)

\* The projection is the predicate, for every task.
ProjectionExact ==
    \A t \in Tasks : t \in blocked <=> IsBlocked(edges, status, OpenLinks, t)

\* Blocking edges close no cycle.
BlockingIsDag == Acyclic(edges)

\* A task has one parent, and no task is below itself.
Forest(E) == Acyclic(Membership(E)) /\ \A e, f \in Membership(E) : e.task = f.task => e = f
HierarchyIsForest == Forest(edges)

\* A worker's task starts with its prerequisites met.
StartsUnblocked ==
    [][\A t \in Tasks \ container :
        status[t] = "READY" /\ status'[t] = "IN_PROGRESS"
            => ~Prerequisite(edges, status, t) /\ ~Gated(OpenLinks, t)]_vars

\* No child is placed under a container that is closed by then.
PlacedUnderOpen ==
    [][\A e \in edges' \ edges : e.type = "parent-child" => status[e.on] # "COMPLETED"]_vars

\* A container whose children are done is completed, or gets an open child.
SettledEventually == \A c \in Tasks : Due(c) ~> ~Due(c)
----------------------------------------------------------------------------
\* Its endpoints and waiters: the rows a transaction's graph writes are about.
Touched(w) ==
    {e.task : e \in tx[w].adds \cup tx[w].dels} \cup {e.on : e \in tx[w].adds \cup tx[w].dels}
        \cup {l[1] : l \in tx[w].links}

\* The predicate of a dependent can read the change of t's status.
Moved(w, t) ==
    /\ tx[w].wrote[t] # "kept"
    /\ ~(status[t] \in Neutral /\ tx[w].wrote[t] \in Neutral)

\* A transaction writes rows it has locked, and what has been decided before it
\* is no membership, and releases only containers.
Locking(w) ==
    /\ tx[w].fresh \subseteq tx[w].rows /\ tx[w].held \subseteq tx[w].fresh
    /\ \A t \in Tasks : tx[w].wrote[t] # "kept" => t \in tx[w].rows
    /\ \A e \in tx[w].edge : e.type # "parent-child"
    /\ \A p \in tx[w].plan : p.new = "IN_PROGRESS" => p.task \in container

\* It evaluates, at once, every row that its graph writes are about, and every
\* row whose predicate reads a status it changes.
Collecting(w) ==
    /\ Touched(w) \subseteq IF tx[w].fresh = {} THEN tx[w].pend ELSE tx[w].fresh
    /\ \A t \in Tasks : Moved(w, t) =>
        \A u \in {t} \cup {e.task : e \in {f \in edges : f.on = t}} :
            u \in tx[w].fresh \cup tx[w].pend

\* What it has evaluated stays true until it commits.
Evaluated(w) ==
    \A t \in tx[w].fresh \ tx[w].pend :
        /\ Prerequisite(EdgesOf(w), StatusOf(w), t) \/ Gated(OpenLinksOf(w), t)
               => t \in tx[w].held
        /\ t \in tx[w].held /\ Simple(EdgesOf(w), attached \cup tx[w].links, t)
               => Prerequisite(EdgesOf(w), StatusOf(w), t)

\* A claim that has not committed holds a task that nothing blocks.
Claiming(w) ==
    \A t \in Tasks \ container :
        tx[w].wrote[t] = "IN_PROGRESS" /\ status[t] = "READY" => t \notin blocked

\* Only the holder of the hierarchy lock changes it, and to a forest.
Placing(w) ==
    /\ ~tx[w].lock => Membership(tx[w].adds \cup tx[w].dels) = {}
    /\ tx[w].lock => HierarchyFree(w) /\ Forest(EdgesOf(w))
    /\ AllStrict => \A e \in Membership(tx[w].adds) :
                       e.on \in tx[w].rows /\ status[e.on] # "COMPLETED"

\* The inductive invariant.
GraphInv ==
    /\ TypeOK /\ ReleasedRight /\ HeldRight /\ HierarchyIsForest
    /\ \A w \in Writers :
        /\ Free(w, tx[w].rows) /\ Locking(w) /\ Collecting(w) /\ Evaluated(w)
        /\ Claiming(w) /\ Placing(w)

=============================================================================
