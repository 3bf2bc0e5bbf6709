---------------------------- MODULE GraphProofs ----------------------------
(***************************************************************************)
(* Theorems about TaskGraph.                                               *)
(***************************************************************************)
EXTENDS TaskGraph, TLAPS

----------------------------------------------------------------------------
\* What the predicate reads.

LEMMA UnmetSame ==
    ASSUME NEW e, NEW S, NEW R,
           S[e.on] = R[e.on] \/ (S[e.on] \in Neutral /\ R[e.on] \in Neutral)
    PROVE  Unmet(e, S) <=> Unmet(e, R)
BY DEF Unmet, Neutral

LEMMA AffectedHas ==
    ASSUME NEW E, NEW seeds
    PROVE  /\ seeds \subseteq Affected(E, seeds)
           /\ \A e \in E : e.on \in seeds => e.task \in Affected(E, seeds)
BY DEF Affected

LEMMA AffectedType ==
    ASSUME NEW E \in SUBSET Edges, NEW seeds \in SUBSET Tasks
    PROVE  Affected(E, seeds) \in SUBSET Tasks
BY DEF Affected, Edges

LEMMA IdleType ==
    /\ Idle \in Transactions
    /\ Idle.phase = "idle" /\ Idle.edge = {} /\ Idle.plan = {}
    /\ Idle.adds = {} /\ Idle.dels = {} /\ Idle.wrote = [t \in Tasks |-> "kept"]
    /\ Idle.links = {} /\ Idle.passes = {} /\ Idle.flags = {} /\ Idle.rows = {}
    /\ Idle.lock = FALSE /\ Idle.fresh = {} /\ Idle.held = {} /\ Idle.pend = {} /\ Idle.todo = {}
BY DEF Idle, Transactions

LEMMA ViewType ==
    ASSUME TypeOK, NEW w \in Writers
    PROVE  /\ EdgesOf(w) \in SUBSET Edges
           /\ StatusOf(w) \in [Tasks -> Statuses]
           /\ tx[w] \in Transactions
BY DEF TypeOK, EdgesOf, StatusOf, Transactions

LEMMA BecomeType ==
    ASSUME TypeOK, NEW w \in Writers, NEW n \in Transactions, Become(w, n)
    PROVE  /\ tx' \in [Writers -> Transactions]
           /\ tx'[w] = n
           /\ \A x \in Writers \ {w} : tx'[x] = tx[x]
BY DEF TypeOK, Become

----------------------------------------------------------------------------
\* What a step of one transaction that is not a commit leaves to the others.

\* A step counts what it begins and what fails.
Counted == ops \in Nat /\ faults \in Nat

\* The own part of the invariant.
Own(w) ==
    /\ Free(w, tx[w].rows) /\ Locking(w) /\ Collecting(w) /\ Evaluated(w)
    /\ Claiming(w) /\ Placing(w)

LEMMA InvParts ==
    GraphInv <=> /\ TypeOK /\ ReleasedRight /\ HeldRight /\ HierarchyIsForest
                 /\ \A w \in Writers : Own(w)
BY DEF GraphInv, Own

LEMMA SameView ==
    ASSUME UNCHANGED data, NEW x \in Writers, tx'[x] = tx[x]
    PROVE  /\ EdgesOf(x)' = EdgesOf(x) /\ StatusOf(x)' = StatusOf(x)
           /\ OpenLinksOf(x)' = OpenLinksOf(x) /\ Touched(x)' = Touched(x)
           /\ \A t \in Tasks : Moved(x, t)' <=> Moved(x, t)
BY DEF data, EdgesOf, StatusOf, OpenLinksOf, Touched, Moved

\* A step that writes nothing leaves the invariant of the others as it is,
\* unless it locks what they have locked.
LEMMA Local ==
    ASSUME GraphInv, Counted', UNCHANGED data, NEW w \in Writers,
           NEW n \in Transactions, Become(w, n),
           Locking(w)', Collecting(w)', Evaluated(w)', Claiming(w)', Placing(w)',
           Free(w, n.rows), n.lock => HierarchyFree(w)
    PROVE  GraphInv'
<1>1. tx'[w] = n /\ \A x \in Writers \ {w} : tx'[x] = tx[x]
  BY BecomeType DEF GraphInv
<1>2. ReleasedRight' /\ HeldRight' /\ HierarchyIsForest'
  BY DEF GraphInv, data, ReleasedRight, HeldRight, HierarchyIsForest, OpenLinks
<1>3. Free(w, tx[w].rows)'
  BY <1>1 DEF Free
<1>4. ASSUME NEW x \in Writers \ {w} PROVE Own(x)'
  <2>1. Own(x) /\ tx'[x] = tx[x]
    BY <1>1, InvParts
  <2>2. /\ EdgesOf(x)' = EdgesOf(x) /\ StatusOf(x)' = StatusOf(x)
        /\ OpenLinksOf(x)' = OpenLinksOf(x) /\ Touched(x)' = Touched(x)
        /\ \A t \in Tasks : Moved(x, t)' <=> Moved(x, t)
    BY <2>1, SameView
  <2>3. Free(x, tx[x].rows)'
    BY <1>1, <2>1 DEF Own, Free
  <2>4. Locking(x)'
    BY <2>1 DEF Own, Locking, data
  <2>5. Collecting(x)'
    BY <2>1, <2>2 DEF Own, Collecting, data
  <2>6. Evaluated(x)'
    BY <2>1, <2>2 DEF Own, Evaluated, data
  <2>7. Claiming(x)'
    BY <2>1 DEF Own, Claiming, data
  <2>8. Placing(x)'
    <3>1. tx[x].lock => ~n.lock
      BY DEF HierarchyFree
    <3>2. tx[x].lock => HierarchyFree(x)'
      BY <1>1, <2>1, <3>1 DEF Own, Placing, HierarchyFree
    <3>3. QED
      BY <2>1, <2>2, <3>2 DEF Own, Placing, data
  <2>9. QED
    BY <2>3, <2>4, <2>5, <2>6, <2>7, <2>8 DEF Own
<1>5. Own(w)'
  BY <1>3 DEF Own
<1>6. TypeOK'
  BY BecomeType DEF GraphInv, TypeOK, Counted, data
<1>7. QED
  BY <1>2, <1>4, <1>5, <1>6 DEF GraphInv, Own

----------------------------------------------------------------------------
\* Steps after which the transaction is not open: nothing is locked or written.

LEMMA Quiet ==
    ASSUME GraphInv, Counted', UNCHANGED data, NEW w \in Writers,
           NEW n \in Transactions, Become(w, n),
           n.adds = {}, n.dels = {}, n.wrote = [t \in Tasks |-> "kept"], n.links = {},
           n.rows = {}, n.lock = FALSE, n.fresh = {}, n.held = {},
           \A e \in n.edge : e.type # "parent-child",
           \A p \in n.plan : p.new = "IN_PROGRESS" => p.task \in container
    PROVE  GraphInv'
<1>1. tx'[w] = n
  BY BecomeType DEF GraphInv
<1>2. Locking(w)'
  BY <1>1 DEF Locking, data
<1>3. Touched(w)' = {}
  BY <1>1 DEF Touched
<1>4. Collecting(w)'
  BY <1>1, <1>3 DEF Collecting, Moved
<1>5. Evaluated(w)'
  BY <1>1 DEF Evaluated
<1>6. Claiming(w)'
  BY <1>1 DEF Claiming
<1>7. Placing(w)'
  BY <1>1 DEF Placing, Membership
<1>8. Free(w, n.rows)
  BY DEF Free
<1>9. QED
  BY <1>2, <1>4, <1>5, <1>6, <1>7, <1>8, Local

\* A transaction begins: its first writes, and the rows it has collected.
LEMMA Opening ==
    ASSUME GraphInv, Counted', UNCHANGED data, NEW w \in Writers,
           NEW n \in Transactions, Become(w, n),
           n.edge = {}, n.plan = {}, n.fresh = {}, n.held = {}, Free(w, n.rows),
           \A t \in Tasks : n.wrote[t] # "kept" => t \in n.rows,
           \A e \in n.adds \cup n.dels : e.task \in n.pend /\ e.on \in n.pend,
           \A l \in n.links : l[1] \in n.pend,
           \A t \in Tasks :
               n.wrote[t] # "kept" /\ ~(status[t] \in Neutral /\ n.wrote[t] \in Neutral)
                   => /\ t \in n.pend
                      /\ \A e \in edges : e.on = t => e.task \in n.pend,
           \A t \in Tasks \ container :
               n.wrote[t] = "IN_PROGRESS" /\ status[t] = "READY" => t \notin blocked,
           Membership(n.adds \cup n.dels) # {} => n.lock,
           n.lock => HierarchyFree(w) /\ Forest((edges \ n.dels) \cup n.adds),
           AllStrict => \A e \in Membership(n.adds) :
                            e.on \in n.rows /\ status[e.on] # "COMPLETED"
    PROVE  GraphInv'
<1>1. tx'[w] = n /\ \A x \in Writers \ {w} : tx'[x] = tx[x]
  BY BecomeType DEF GraphInv
<1>2. Locking(w)'
  BY <1>1 DEF Locking
<1>3. Touched(w)' \subseteq n.pend
  BY <1>1 DEF Touched
<1>4. \A t \in Tasks : Moved(w, t)' => t \in n.pend /\ \A e \in edges : e.on = t => e.task \in n.pend
  BY <1>1 DEF Moved, data
<1>5. Collecting(w)'
  BY <1>1, <1>3, <1>4 DEF Collecting, data
<1>6. Evaluated(w)'
  BY <1>1 DEF Evaluated
<1>7. Claiming(w)'
  BY <1>1 DEF Claiming, data
<1>8. Placing(w)'
  <2>1. EdgesOf(w)' = (edges \ n.dels) \cup n.adds
    BY <1>1 DEF EdgesOf, data
  <2>2. n.lock => HierarchyFree(w)'
    BY <1>1 DEF HierarchyFree
  <2>3. QED
    BY <1>1, <2>1, <2>2 DEF Placing, data
<1>9. QED
  BY <1>2, <1>5, <1>6, <1>7, <1>8, Local

----------------------------------------------------------------------------
\* The hierarchy.

\* A set closed under the edges that has the new parent and not the task itself
\* shows that the move closes no cycle.
LEMMA Replanted ==
    ASSUME NEW E \in SUBSET Edges, Forest(E), NEW d \in Tasks, NEW P \in SUBSET Tasks,
           \A p, q \in P : p = q, \A p \in P : ~Reaches(E, p, d)
    PROVE  Forest((E \ {Edge(d, "parent-child", p) : p \in Parents(E, d)})
                     \cup {Edge(d, "parent-child", p) : p \in P})
<1> DEFINE D == {Edge(d, "parent-child", p) : p \in Parents(E, d)}
           A == {Edge(d, "parent-child", p) : p \in P}
           M == (Membership(E) \ D) \cup A
<1>1. Membership((E \ D) \cup A) = M
  <2>1. Membership(A) = A
    BY DEF Membership, Edge
  <2> HIDE DEF D, A
  <2>2. Membership((E \ D) \cup A) = (Membership(E) \ D) \cup Membership(A)
    BY DEF Membership
  <2>3. QED
    BY <2>1, <2>2
<1>2. \A e \in M : e.task = d => e \in A
  <2> SUFFICES ASSUME NEW e \in Membership(E), e.task = d PROVE e \in D
    OBVIOUS
  <2>1. e \in Edges /\ e.type = "parent-child" /\ e \in E
    BY DEF Membership
  <2>2. e.on \in Parents(E, d)
    BY <2>1 DEF Parents
  <2>3. e = Edge(d, "parent-child", e.on)
    BY <2>1 DEF Edges, Edge
  <2>4. QED
    BY <2>2, <2>3
<1>3. \A e \in M : e.task # d => e \in Membership(E)
  BY DEF Edge
<1>4. \A e, f \in M : e.task = f.task => e = f
  BY <1>2, <1>3 DEF Forest, Edge
<1>5. ASSUME NEW T \in SUBSET Tasks, T # {}
      PROVE  \E t \in T : \A e \in M : e.task = t => e.on \notin T
  <2>1. PICK t \in T : \A e \in Membership(E) : e.task = t => e.on \notin T
    BY <1>5 DEF Forest, Acyclic
  <2>2. CASE t # d
    BY <1>3, <2>1, <2>2
  <2>3. CASE t = d /\ P \cap T = {}
    BY <1>2, <2>3 DEF Edge
  <2>4. CASE P \cap T # {}
    <3>1. PICK p \in P : p \in T
      BY <2>4
    <3>2. PICK S \in SUBSET Tasks : p \in S /\ d \notin S /\ \A e \in E : e.task \in S => e.on \in S
      BY DEF Reaches
    <3>3. S \cap T # {} /\ S \cap T \in SUBSET Tasks
      BY <3>1, <3>2
    <3>4. PICK u \in S \cap T : \A e \in Membership(E) : e.task = u => e.on \notin S \cap T
      BY <3>3 DEF Forest, Acyclic
    <3>5. ASSUME NEW e \in M, e.task = u PROVE e.on \notin T
      <4>1. e \in Membership(E) /\ e \in E
        BY <1>3, <3>2, <3>5 DEF Membership
      <4>2. e.on \in S
        BY <3>2, <3>5, <4>1
      <4>3. QED
        BY <3>4, <3>5, <4>1, <4>2
    <3>6. QED
      BY <3>5
  <2>5. QED
    BY <2>2, <2>3, <2>4
<1>6. Acyclic(M)
  BY <1>5 DEF Acyclic
<1>7. QED
  BY <1>1, <1>4, <1>6 DEF Forest

----------------------------------------------------------------------------
\* The steps that begin a transaction, and the decisions before it.

LEMMA CheckStep ==
    ASSUME GraphInv, Counted', NEW w \in Writers, NEW e \in Edges, CheckEdge(w, e)
    PROVE  GraphInv'
<1> DEFINE n == [Idle EXCEPT !.phase = "checked", !.edge = {e}]
<1>1. /\ n \in Transactions /\ n.edge = {e} /\ n.plan = {} /\ n.adds = {} /\ n.dels = {}
      /\ n.wrote = [t \in Tasks |-> "kept"] /\ n.links = {} /\ n.rows = {} /\ n.lock = FALSE
      /\ n.fresh = {} /\ n.held = {}
  BY DEF Idle, Transactions
<1>2. Become(w, n) /\ UNCHANGED data /\ e.type # "parent-child"
  BY DEF CheckEdge
<1>3. QED
  BY <1>1, <1>2, Quiet

LEMMA PlanStep ==
    ASSUME GraphInv, Counted', NEW w \in Writers, NEW t \in Tasks, NEW new \in Statuses,
           Plan(w, t, new), new = "IN_PROGRESS" => t \in container
    PROVE  GraphInv'
<1> DEFINE d == [task |-> t, new |-> new]
           n == [Idle EXCEPT !.phase = "checked", !.plan = {d}]
<1>2. Become(w, n) /\ UNCHANGED data
  BY DEF Plan
<1>0. d \in [task : Tasks, new : Statuses] /\ d.task = t /\ d.new = new
  OBVIOUS
<1> HIDE DEF d
<1>1. /\ n \in Transactions /\ n.edge = {} /\ n.plan = {d}
      /\ n.adds = {} /\ n.dels = {}
      /\ n.wrote = [u \in Tasks |-> "kept"] /\ n.links = {} /\ n.rows = {} /\ n.lock = FALSE
      /\ n.fresh = {} /\ n.held = {}
  BY <1>0 DEF Idle, Transactions
<1> HIDE DEF n
<1>3. QED
  BY <1>0, <1>1, <1>2, Quiet

LEMMA EndStep ==
    ASSUME GraphInv, Counted', NEW w \in Writers, Become(w, Idle), UNCHANGED data
    PROVE  GraphInv'
BY Quiet, IdleType

LEMMA InsertStep ==
    ASSUME GraphInv, Counted', NEW w \in Writers, NEW e \in tx[w].edge,
           Become(w, [Idle EXCEPT !.phase = "open", !.adds = {e},
                                  !.pend = Affected(edges \cup {e}, {e.task, e.on})]),
           UNCHANGED data
    PROVE  GraphInv'
<1> DEFINE p == Affected(edges \cup {e}, {e.task, e.on})
           n == [Idle EXCEPT !.phase = "open", !.adds = {e}, !.pend = p]
<1>1. e \in Edges /\ e.type # "parent-child"
  BY ViewType DEF GraphInv, Locking, Transactions
<1>2. e.task \in Tasks /\ e.on \in Tasks
  BY <1>1 DEF Edges
<1>3. p \in SUBSET Tasks /\ e.task \in p /\ e.on \in p
  BY <1>1, <1>2, AffectedType, AffectedHas DEF GraphInv, TypeOK
<1>4. /\ n \in Transactions /\ n.edge = {} /\ n.plan = {} /\ n.adds = {e} /\ n.dels = {}
      /\ n.wrote = [t \in Tasks |-> "kept"] /\ n.links = {} /\ n.rows = {} /\ n.lock = FALSE
      /\ n.fresh = {} /\ n.held = {} /\ n.pend = p
  BY <1>1, <1>3 DEF Idle, Transactions
<1>5. Membership({e}) = {}
  BY <1>1 DEF Membership
<1>6. Membership({e} \cup {}) = {}
  BY <1>5
<1>7. Free(w, n.rows)
  BY <1>4 DEF Free
<1>8. Become(w, n)
  OBVIOUS
<1> HIDE DEF n, p
<1>9. /\ \A t \in Tasks : n.wrote[t] = "kept"
      /\ \A f \in n.adds \cup n.dels : f.task \in n.pend /\ f.on \in n.pend
      /\ Membership(n.adds \cup n.dels) = {} /\ Membership(n.adds) = {}
  BY <1>3, <1>4, <1>5, <1>6
<1>10. QED
  BY <1>4, <1>7, <1>8, <1>9, Opening

LEMMA RemoveStep ==
    ASSUME GraphInv, Counted', NEW w \in Writers, NEW e \in Edges, RemoveEdge(w, e)
    PROVE  GraphInv'
<1> DEFINE p == Affected(edges \ {e}, {e.task, e.on})
           n == [Idle EXCEPT !.phase = "open", !.dels = {e}, !.pend = p]
<1>1. e.task \in Tasks /\ e.on \in Tasks
  BY DEF Edges
<1>2. p \in SUBSET Tasks /\ e.task \in p /\ e.on \in p
  BY <1>1, AffectedType, AffectedHas DEF GraphInv, TypeOK
<1>3. /\ n \in Transactions /\ n.edge = {} /\ n.plan = {} /\ n.adds = {} /\ n.dels = {e}
      /\ n.wrote = [t \in Tasks |-> "kept"] /\ n.links = {} /\ n.rows = {} /\ n.lock = FALSE
      /\ n.fresh = {} /\ n.held = {} /\ n.pend = p
  BY <1>2 DEF Idle, Transactions
<1>4. Become(w, n) /\ UNCHANGED data /\ e.type # "parent-child"
  BY DEF RemoveEdge
<1> HIDE DEF n, p
<1>5. /\ \A t \in Tasks : n.wrote[t] = "kept"
      /\ \A f \in n.adds \cup n.dels : f.task \in n.pend /\ f.on \in n.pend
      /\ Membership(n.adds \cup n.dels) = {} /\ Membership(n.adds) = {}
  BY <1>2, <1>3, <1>4 DEF Membership
<1>6. Free(w, n.rows)
  BY <1>3 DEF Free
<1>7. QED
  BY <1>3, <1>4, <1>5, <1>6, Opening

LEMMA LinkStep ==
    ASSUME GraphInv, Counted', NEW w \in Writers, NEW n \in Transactions, Become(w, n),
           n.edge = {}, n.plan = {}, n.adds = {}, n.dels = {},
           n.wrote = [t \in Tasks |-> "kept"], n.rows = {}, n.lock = FALSE,
           n.fresh = {}, n.held = {}, \A l \in n.links : l[1] \in n.pend,
           UNCHANGED data
    PROVE  GraphInv'
<1>1. /\ \A t \in Tasks : n.wrote[t] = "kept"
      /\ Membership(n.adds \cup n.dels) = {} /\ Membership(n.adds) = {}
  BY DEF Membership
<1>2. Free(w, n.rows)
  BY DEF Free
<1>3. QED
  BY <1>1, <1>2, Opening

LEMMA AttachStep ==
    ASSUME GraphInv, Counted', NEW w \in Writers, NEW t \in Tasks, NEW g \in Gates,
           AttachGate(w, t, g)
    PROVE  GraphInv'
<1> DEFINE p == Affected(edges, {t})
           L == {<<t, g>>}
           n == [Idle EXCEPT !.phase = "open", !.links = L, !.pend = p]
<1>1. L \in SUBSET Links /\ p \in SUBSET Tasks /\ \A l \in L : l[1] \in p
  BY AffectedType, AffectedHas DEF GraphInv, TypeOK, Links
<1>2. Become(w, n) /\ UNCHANGED data
  BY DEF AttachGate
<1> HIDE DEF p, L
<1>3. /\ n \in Transactions /\ n.edge = {} /\ n.plan = {} /\ n.adds = {} /\ n.dels = {}
      /\ n.wrote = [u \in Tasks |-> "kept"] /\ n.links = L /\ n.rows = {} /\ n.lock = FALSE
      /\ n.fresh = {} /\ n.held = {} /\ n.pend = p
  BY <1>1 DEF Idle, Transactions
<1> HIDE DEF n
<1>4. QED
  BY <1>1, <1>2, <1>3, LinkStep

LEMMA ResolveStep ==
    ASSUME GraphInv, Counted', NEW w \in Writers, NEW g \in Gates, ResolveGate(w, g)
    PROVE  GraphInv'
<1> DEFINE waiters == {t \in Tasks : <<t, g>> \in attached}
           p == IF waiters = {} THEN {} ELSE Affected(edges, waiters)
           n == [Idle EXCEPT !.phase = "open", !.passes = {g}, !.pend = p]
<1>1. p \in SUBSET Tasks
  BY AffectedType DEF GraphInv, TypeOK
<1>2. Become(w, n) /\ UNCHANGED data
  BY DEF ResolveGate
<1> HIDE DEF p
<1>3. /\ n \in Transactions /\ n.edge = {} /\ n.plan = {} /\ n.adds = {} /\ n.dels = {}
      /\ n.wrote = [u \in Tasks |-> "kept"] /\ n.links = {} /\ n.rows = {} /\ n.lock = FALSE
      /\ n.fresh = {} /\ n.held = {}
  BY <1>1 DEF Idle, Transactions
<1> HIDE DEF n
<1>4. QED
  BY <1>2, <1>3, LinkStep

\* A status is written under its row's lock.
LEMMA TransactStep ==
    ASSUME GraphInv, Counted', NEW w \in Writers, NEW t \in Tasks, NEW new \in Statuses,
           NEW stable \in BOOLEAN, Transact(w, t, new, stable),
           stable => status[t] \in Neutral /\ new \in Neutral,
           new = "IN_PROGRESS" /\ status[t] = "READY" /\ t \notin container => t \notin blocked
    PROVE  GraphInv'
<1> DEFINE p == IF stable THEN {} ELSE Affected(edges, {t})
           d == IF new = "COMPLETED" THEN Parents(edges, t) ELSE {}
           n == [Idle EXCEPT !.phase = "open", !.rows = {t}, !.wrote[t] = new, !.pend = p,
                             !.todo = d]
<1>1. p \in SUBSET Tasks /\ d \in SUBSET Tasks
  BY AffectedType DEF GraphInv, TypeOK, Parents, Edges
<1>2. ~stable => t \in p /\ \A e \in edges : e.on = t => e.task \in p
  BY AffectedHas
<1>3. Become(w, n) /\ UNCHANGED data /\ Free(w, {t})
  BY DEF Transact
<1> HIDE DEF p, d
<1>4. /\ n \in Transactions /\ n.edge = {} /\ n.plan = {} /\ n.adds = {} /\ n.dels = {}
      /\ n.wrote = [u \in Tasks |-> IF u = t THEN new ELSE "kept"]
      /\ n.links = {} /\ n.rows = {t} /\ n.lock = FALSE
      /\ n.fresh = {} /\ n.held = {} /\ n.pend = p
  BY <1>1 DEF Idle, Transactions
<1> HIDE DEF n
<1>5. \A u \in Tasks : n.wrote[u] # "kept" => u = t
  BY <1>4
<1>6. n.wrote[t] = new
  BY <1>4
<1>7. \A u \in Tasks :
        n.wrote[u] # "kept" /\ ~(status[u] \in Neutral /\ n.wrote[u] \in Neutral)
            => u \in n.pend /\ \A e \in edges : e.on = u => e.task \in n.pend
  BY <1>2, <1>4, <1>5, <1>6
<1>8. \A u \in Tasks \ container :
        n.wrote[u] = "IN_PROGRESS" /\ status[u] = "READY" => u \notin blocked
  BY <1>5, <1>6
<1>9. Membership(n.adds \cup n.dels) = {} /\ Membership(n.adds) = {}
  BY <1>4 DEF Membership
<1>10. QED
  BY <1>3, <1>4, <1>5, <1>7, <1>8, <1>9, Opening

\* The sweep's transaction has written nothing yet.
LEMMA SweepStep ==
    ASSUME GraphInv, Counted', NEW w \in Writers, Sweep(w)
    PROVE  GraphInv'
<1> DEFINE d == {c \in Tasks : Due(c)}
           n == [Idle EXCEPT !.phase = "open", !.todo = d]
<1>1. Become(w, n) /\ UNCHANGED data /\ d \in SUBSET Tasks
  BY DEF Sweep
<1> HIDE DEF d
<1>2. /\ n \in Transactions /\ n.edge = {} /\ n.plan = {} /\ n.adds = {} /\ n.dels = {}
      /\ n.wrote = [u \in Tasks |-> "kept"] /\ n.links = {} /\ n.rows = {} /\ n.lock = FALSE
      /\ n.fresh = {} /\ n.held = {}
  BY <1>1 DEF Idle, Transactions
<1> HIDE DEF n
<1>3. QED
  BY <1>1, <1>2, LinkStep

\* A placement is checked under the hierarchy lock.
LEMMA ParentStep ==
    ASSUME GraphInv, Counted', NEW w \in Writers, NEW d \in Tasks, NEW P \in SUBSET Tasks,
           NEW strict \in BOOLEAN, SetParent(w, d, P, strict),
           \A p, q \in P : p = q, AllStrict => strict \/ P = {}
    PROVE  GraphInv'
<1> DEFINE old == Parents(edges, d)
           adds == {Edge(d, "parent-child", p) : p \in P}
           dels == {Edge(d, "parent-child", p) : p \in old}
           after == (edges \ dels) \cup adds
           seeds == Affected(edges, {d}) \cup old \cup P \cup Affected(after, {d})
           rows == IF strict THEN {d} \cup P ELSE {d}
           pend == Affected(after, seeds)
           n == [Idle EXCEPT !.phase = "open", !.lock = TRUE, !.rows = rows, !.adds = adds,
                             !.dels = dels, !.flags = P, !.pend = pend, !.todo = old \cup P]
<1>1. old \in SUBSET Tasks /\ adds \in SUBSET Edges /\ dels \in SUBSET Edges /\ after \in SUBSET Edges
  BY DEF GraphInv, TypeOK, Parents, Edges, Edge, Types
<1>2. seeds \in SUBSET Tasks /\ d \in seeds /\ old \subseteq seeds /\ P \subseteq seeds
  BY <1>1, AffectedType, AffectedHas DEF GraphInv, TypeOK
<1>3. pend \in SUBSET Tasks /\ d \in pend /\ old \subseteq pend /\ P \subseteq pend
  <2> HIDE DEF seeds, after, old
  <2>1. pend \in SUBSET Tasks
    BY <1>1, <1>2, AffectedType
  <2>2. seeds \subseteq pend
    BY AffectedHas
  <2>3. QED
    BY <1>2, <2>1, <2>2
<1>4. \A e \in adds \cup dels : e.task \in pend /\ e.on \in pend
  <2> HIDE DEF seeds, after, old, pend
  <2>1. QED
    BY <1>3 DEF Edge
<1>5. /\ Become(w, n) /\ UNCHANGED data /\ HierarchyFree(w) /\ Free(w, {d})
      /\ \A p \in P : MayPlace(w, d, p, strict)
  BY DEF SetParent
<1>6. Forest(after)
  BY <1>5, Replanted DEF MayPlace, GraphInv, HierarchyIsForest, TypeOK
<1>7. Free(w, rows)
  BY <1>5 DEF MayPlace, Free
<1>8. AllStrict => \A e \in adds : e.on \in rows /\ status[e.on] # "COMPLETED"
  BY <1>5 DEF MayPlace, Edge
<1> HIDE DEF old, adds, dels, seeds, rows, pend
<1>9. /\ n \in Transactions /\ n.edge = {} /\ n.plan = {} /\ n.adds = adds /\ n.dels = dels
      /\ n.wrote = [u \in Tasks |-> "kept"] /\ n.links = {} /\ n.rows = rows /\ n.lock = TRUE
      /\ n.fresh = {} /\ n.held = {} /\ n.pend = pend
  <2>1. rows \in SUBSET Tasks
    BY DEF rows
  <2>2. QED
    BY <1>1, <1>3, <2>1 DEF Idle, Transactions
<1> HIDE DEF n
<1>10. \A t \in Tasks : n.wrote[t] = "kept"
  BY <1>9
<1>11. AllStrict => \A e \in Membership(n.adds) : e.on \in n.rows /\ status[e.on] # "COMPLETED"
  BY <1>8, <1>9 DEF Membership
<1>12. QED
  BY <1>4, <1>5, <1>6, <1>7, <1>9, <1>10, <1>11, Opening

----------------------------------------------------------------------------
\* The steps of an open transaction.

\* The evaluation reads the graph as the transaction sees it, and until it
\* commits nobody changes what it has read about the rows it has locked.
LEMMA RefreshStep ==
    ASSUME GraphInv, Counted', NEW w \in Writers, Refresh(w)
    PROVE  GraphInv'
<1> DEFINE now == {t \in tx[w].pend : IsBlocked(EdgesOf(w), StatusOf(w), OpenLinksOf(w), t)}
           n == [tx[w] EXCEPT !.rows = @ \cup tx[w].pend, !.fresh = @ \cup tx[w].pend,
                              !.held = (@ \ tx[w].pend) \cup now, !.pend = {}]
<1>1. /\ Become(w, n) /\ UNCHANGED data /\ tx[w].pend # {} /\ Free(w, tx[w].pend)
      /\ now \subseteq tx[w].pend
  BY DEF Refresh
<1>2. tx[w] \in Transactions
  BY ViewType DEF GraphInv
<1>3. \A t \in tx[w].pend : t \in now <=> IsBlocked(EdgesOf(w), StatusOf(w), OpenLinksOf(w), t)
  OBVIOUS
<1> HIDE DEF now
<1>4. /\ n \in Transactions
      /\ n.edge = tx[w].edge /\ n.plan = tx[w].plan /\ n.adds = tx[w].adds
      /\ n.dels = tx[w].dels /\ n.wrote = tx[w].wrote /\ n.links = tx[w].links
      /\ n.passes = tx[w].passes /\ n.lock = tx[w].lock
      /\ n.rows = tx[w].rows \cup tx[w].pend /\ n.fresh = tx[w].fresh \cup tx[w].pend
      /\ n.held = (tx[w].held \ tx[w].pend) \cup now /\ n.pend = {}
  BY <1>1, <1>2 DEF Transactions
<1> HIDE DEF n
<1>5. tx'[w] = n
  BY <1>1, <1>4, BecomeType DEF GraphInv
<1>6. /\ EdgesOf(w)' = EdgesOf(w) /\ StatusOf(w)' = StatusOf(w) /\ OpenLinksOf(w)' = OpenLinksOf(w)
      /\ Touched(w)' = Touched(w) /\ \A t \in Tasks : Moved(w, t)' <=> Moved(w, t)
  BY <1>1, <1>4, <1>5 DEF EdgesOf, StatusOf, OpenLinksOf, Touched, Moved, data
<1>7. Own(w)
  BY InvParts
<1>8. Locking(w)'
  BY <1>1, <1>4, <1>5, <1>7 DEF Own, Locking, data
<1>9. Collecting(w)'
  BY <1>1, <1>4, <1>5, <1>6, <1>7 DEF Own, Collecting, data
<1>10. Evaluated(w)'
  <2> SUFFICES ASSUME NEW t \in n.fresh
               PROVE  /\ Prerequisite(EdgesOf(w), StatusOf(w), t) \/ Gated(OpenLinksOf(w), t)
                             => t \in n.held
                      /\ t \in n.held /\ Simple(EdgesOf(w), attached \cup tx[w].links, t)
                             => Prerequisite(EdgesOf(w), StatusOf(w), t)
    BY <1>1, <1>4, <1>5, <1>6 DEF Evaluated, data
  <2>1. CASE t \in tx[w].pend
    <3>1. t \in n.held <=> IsBlocked(EdgesOf(w), StatusOf(w), OpenLinksOf(w), t)
      BY <1>3, <1>4, <2>1
    <3>2. Simple(EdgesOf(w), attached \cup tx[w].links, t)
            => ~FanIn(EdgesOf(w), StatusOf(w), t) /\ ~Gated(OpenLinksOf(w), t)
      BY DEF Simple, FanIn, Gated, OpenLinksOf
    <3>3. QED
      BY <3>1, <3>2 DEF IsBlocked
  <2>2. CASE t \notin tx[w].pend
    <3>1. t \in n.held <=> t \in tx[w].held
      BY <1>1, <1>4, <2>2
    <3>2. QED
      BY <1>4, <1>7, <2>2, <3>1 DEF Own, Evaluated
  <2>3. QED
    BY <2>1, <2>2
<1>11. Claiming(w)'
  BY <1>1, <1>4, <1>5, <1>7 DEF Own, Claiming, data
<1>12. Placing(w)'
  <2>1. HierarchyFree(w)' <=> HierarchyFree(w)
    BY <1>1, <1>4, BecomeType DEF HierarchyFree, GraphInv
  <2>2. QED
    BY <1>1, <1>4, <1>5, <1>6, <1>7, <2>1 DEF Own, Placing, data
<1>13. Free(w, n.rows) /\ (n.lock => HierarchyFree(w))
  BY <1>1, <1>4, <1>7 DEF Own, Placing, Free
<1>14. QED
  BY <1>1, <1>4, <1>8, <1>9, <1>10, <1>11, <1>12, <1>13, Local

\* A settlement writes one more status; whoever depends on the container is
\* collected again.
LEMMA SettleStep ==
    ASSUME GraphInv, Counted', NEW w \in Writers, NEW c \in tx[w].todo, NEW d \in SUBSET Tasks,
           tx[w].pend = {}, Free(w, {c}), UNCHANGED data,
           Become(w, [tx[w] EXCEPT !.rows = @ \cup {c}, !.wrote[c] = "COMPLETED",
                                   !.pend = Affected(EdgesOf(w), {c}), !.todo = d])
    PROVE  GraphInv'
<1> DEFINE p == Affected(EdgesOf(w), {c})
           n == [tx[w] EXCEPT !.rows = @ \cup {c}, !.wrote[c] = "COMPLETED", !.pend = p,
                              !.todo = d]
<1>1. tx[w] \in Transactions /\ EdgesOf(w) \in SUBSET Edges /\ Own(w)
  BY ViewType, InvParts DEF GraphInv
<1>2. c \in Tasks
  BY <1>1 DEF Transactions
<1>3. /\ p \in SUBSET Tasks /\ c \in p
      /\ \A e \in EdgesOf(w) : e.on = c => e.task \in p
  BY <1>1, <1>2, AffectedType, AffectedHas
<1>4. Become(w, n)
  OBVIOUS
<1> HIDE DEF p
<1>5. /\ n \in Transactions
      /\ n.edge = tx[w].edge /\ n.plan = tx[w].plan /\ n.adds = tx[w].adds
      /\ n.dels = tx[w].dels /\ n.links = tx[w].links /\ n.passes = tx[w].passes
      /\ n.wrote = [tx[w].wrote EXCEPT ![c] = "COMPLETED"]
      /\ n.lock = tx[w].lock /\ n.rows = tx[w].rows \cup {c} /\ n.fresh = tx[w].fresh
      /\ n.held = tx[w].held /\ n.pend = p
  BY <1>1, <1>2, <1>3 DEF Transactions, Statuses
<1> HIDE DEF n
<1>6. tx'[w] = n
  BY <1>4, <1>5, BecomeType DEF GraphInv
<1>7. \A t \in Tasks : n.wrote[t] = IF t = c THEN "COMPLETED" ELSE tx[w].wrote[t]
  BY <1>1, <1>2, <1>5 DEF Transactions
<1>8. /\ EdgesOf(w)' = EdgesOf(w) /\ OpenLinksOf(w)' = OpenLinksOf(w) /\ Touched(w)' = Touched(w)
      /\ \A t \in Tasks : t # c => StatusOf(w)'[t] = StatusOf(w)[t]
      /\ \A t \in Tasks : t # c => (Moved(w, t)' <=> Moved(w, t))
  BY <1>5, <1>6, <1>7 DEF EdgesOf, StatusOf, OpenLinksOf, Touched, Moved, data
<1>9. Locking(w)'
  BY <1>1, <1>5, <1>6, <1>7 DEF Own, Locking, data
<1>10. Collecting(w)'
  <2>1. Touched(w)' \subseteq IF n.fresh = {} THEN n.pend ELSE n.fresh
    BY <1>1, <1>5, <1>8 DEF Own, Collecting
  <2>2. ASSUME NEW e \in edges, e.on = c PROVE e.task \in n.fresh \cup n.pend
    <3>1. CASE e \in EdgesOf(w)
      BY <1>3, <1>5, <2>2, <3>1
    <3>2. CASE e \in tx[w].dels
      BY <1>1, <1>5, <3>2 DEF Own, Collecting, Touched
    <3>3. QED
      BY <3>1, <3>2 DEF EdgesOf
  <2>3. ASSUME NEW t \in Tasks, t # c, Moved(w, t)
        PROVE  \A u \in {t} \cup {e.task : e \in {f \in edges : f.on = t}} : u \in n.fresh \cup n.pend
    BY <1>1, <1>5, <2>3 DEF Own, Collecting
  <2>4. ASSUME NEW t \in Tasks, Moved(w, t)'
        PROVE  \A u \in {t} \cup {e.task : e \in {f \in edges : f.on = t}} : u \in n.fresh \cup n.pend
    <3>1. CASE t = c
      BY <1>3, <1>5, <2>2, <3>1
    <3>2. CASE t # c
      BY <1>8, <2>3, <2>4, <3>2
    <3>3. QED
      BY <3>1, <3>2
  <2>5. QED
    BY <1>6, <2>1, <2>4 DEF Collecting, data
<1>11. Evaluated(w)'
  <2> SUFFICES ASSUME NEW t \in n.fresh \ n.pend
               PROVE  /\ Prerequisite(EdgesOf(w), StatusOf(w)', t) \/ Gated(OpenLinksOf(w), t)
                             => t \in n.held
                      /\ t \in n.held /\ Simple(EdgesOf(w), attached \cup tx[w].links, t)
                             => Prerequisite(EdgesOf(w), StatusOf(w)', t)
    BY <1>5, <1>6, <1>8 DEF Evaluated, data
  <2>1. \A e \in EdgesOf(w) : e.task = t => e.on # c /\ e.on \in Tasks
    BY <1>1, <1>3, <1>5 DEF Edges
  <2>2. \A e \in EdgesOf(w) : e.task = t => (Unmet(e, StatusOf(w)') <=> Unmet(e, StatusOf(w)))
    BY <1>8, <2>1, UnmetSame
  <2>3. Prerequisite(EdgesOf(w), StatusOf(w)', t) <=> Prerequisite(EdgesOf(w), StatusOf(w), t)
    BY <2>2 DEF Prerequisite
  <2>4. QED
    BY <1>1, <1>5, <2>3 DEF Own, Evaluated
<1>12. Claiming(w)'
  BY <1>1, <1>6, <1>7 DEF Own, Claiming, data
<1>13. Placing(w)'
  <2>1. HierarchyFree(w)' <=> HierarchyFree(w)
    BY <1>4, <1>5, BecomeType DEF HierarchyFree, GraphInv
  <2>2. QED
    BY <1>1, <1>5, <1>6, <1>8, <2>1 DEF Own, Placing, data
<1>14. Free(w, n.rows) /\ (n.lock => HierarchyFree(w))
  BY <1>1, <1>5 DEF Own, Placing, Free
<1>15. QED
  BY <1>4, <1>5, <1>9, <1>10, <1>11, <1>12, <1>13, <1>14, Local

----------------------------------------------------------------------------
\* A commit.  What it changes concerns rows it has locked and evaluated, so it
\* changes nothing that another transaction has evaluated.

LEMMA ForestSame ==
    ASSUME NEW E, NEW F, Membership(E) = Membership(F), Forest(E)
    PROVE  Forest(F)
BY DEF Forest

\* What a task that is not evaluated waits for is as it was.
LEMMA CommitKeeps ==
    ASSUME GraphInv, NEW w \in Writers, tx[w].pend = {}
    PROVE  /\ Touched(w) \subseteq tx[w].fresh
           /\ \A e \in Edges : e.task \notin tx[w].fresh => (e \in EdgesOf(w) <=> e \in edges)
           /\ \A e \in edges : e.task \notin tx[w].fresh
                  => (Unmet(e, StatusOf(w)) <=> Unmet(e, status))
<1>1. Own(w) /\ edges \in SUBSET Edges /\ status \in [Tasks -> Statuses]
  BY InvParts DEF GraphInv, TypeOK
<1>2. Touched(w) \subseteq tx[w].fresh
  BY <1>1 DEF Own, Collecting
<1>3. \A e \in tx[w].adds \cup tx[w].dels : e.task \in tx[w].fresh
  BY <1>2 DEF Touched
<1>4. ASSUME NEW e \in edges, e.task \notin tx[w].fresh
      PROVE  Unmet(e, StatusOf(w)) <=> Unmet(e, status)
  <2>1. e.on \in Tasks
    BY <1>1 DEF Edges
  <2>2. ~Moved(w, e.on)
    BY <1>1, <1>4, <2>1 DEF Own, Collecting
  <2>3. \/ StatusOf(w)[e.on] = status[e.on]
        \/ StatusOf(w)[e.on] \in Neutral /\ status[e.on] \in Neutral
    BY <2>1, <2>2 DEF StatusOf, Moved
  <2>4. QED
    BY <2>3, UnmetSame
<1>5. QED
  BY <1>2, <1>3, <1>4 DEF EdgesOf

LEMMA CommitProjection ==
    ASSUME GraphInv, NEW w \in Writers, Commit(w)
    PROVE  ReleasedRight' /\ HeldRight'
<1>1. /\ tx[w].pend = {} /\ edges' = EdgesOf(w) /\ status' = StatusOf(w)
      /\ blocked' = (blocked \ tx[w].fresh) \cup tx[w].held
      /\ attached' = attached \cup tx[w].links /\ resolved' = resolved \cup tx[w].passes
  BY DEF Commit
<1>2. /\ Touched(w) \subseteq tx[w].fresh
      /\ \A e \in Edges : e.task \notin tx[w].fresh => (e \in EdgesOf(w) <=> e \in edges)
      /\ \A e \in edges : e.task \notin tx[w].fresh
             => (Unmet(e, StatusOf(w)) <=> Unmet(e, status))
  BY <1>1, CommitKeeps
<1>3. Own(w) /\ edges \in SUBSET Edges /\ EdgesOf(w) \in SUBSET Edges
  BY InvParts, ViewType DEF GraphInv, TypeOK
<1>4. tx[w].held \subseteq tx[w].fresh
  BY <1>3 DEF Own, Locking
<1>5. OpenLinks' = OpenLinksOf(w)
  BY <1>1 DEF OpenLinks, OpenLinksOf
<1>6. ASSUME NEW t \in Tasks, t \notin tx[w].fresh
      PROVE  /\ Prerequisite(edges, status, t)' <=> Prerequisite(edges, status, t)
             /\ Gated(OpenLinks, t)' => Gated(OpenLinks, t)
             /\ Simple(edges, attached, t)' => Simple(edges, attached, t)
             /\ t \in blocked' <=> t \in blocked
  <2>1. \A e \in Edges : e.task = t => (e \in edges' <=> e \in edges)
    BY <1>1, <1>2, <1>6
  <2>2. \A l \in attached' : l[1] = t => l \in attached
    BY <1>1, <1>2, <1>6 DEF Touched
  <2>3. Prerequisite(edges, status, t)' <=> Prerequisite(edges, status, t)
    BY <1>1, <1>2, <1>3, <1>6, <2>1 DEF Prerequisite
  <2>4. Gated(OpenLinks, t)' => Gated(OpenLinks, t)
    BY <1>1, <2>2 DEF Gated, OpenLinks
  <2>5. Simple(edges, attached, t)' => Simple(edges, attached, t)
    BY <1>1, <1>3, <2>1 DEF Simple
  <2>6. QED
    BY <1>1, <1>4, <1>6, <2>3, <2>4, <2>5
<1>7. ASSUME NEW t \in tx[w].fresh
      PROVE  /\ t \in blocked' <=> t \in tx[w].held
             /\ Prerequisite(edges, status, t)' \/ Gated(OpenLinks, t)' => t \in tx[w].held
             /\ t \in tx[w].held /\ Simple(edges, attached, t)' => Prerequisite(edges, status, t)'
  BY <1>1, <1>3, <1>5 DEF Own, Evaluated
<1>8. ReleasedRight'
  BY <1>6, <1>7 DEF ReleasedRight, GraphInv
<1>9. HeldRight'
  <2> SUFFICES ASSUME NEW t \in blocked', Simple(edges, attached, t)'
               PROVE  Prerequisite(edges, status, t)'
    BY DEF HeldRight
  <2>1. CASE t \in tx[w].fresh
    BY <1>7, <2>1
  <2>2. CASE t \notin tx[w].fresh
    <3>1. t \in blocked /\ t \in Tasks
      BY <1>1, <1>4, <2>2 DEF GraphInv, TypeOK
    <3>2. QED
      BY <1>6, <2>2, <3>1 DEF HeldRight, GraphInv
  <2>3. QED
    BY <2>1, <2>2
<1>10. QED
  BY <1>8, <1>9

LEMMA CommitOthers ==
    ASSUME GraphInv, NEW w \in Writers, Commit(w), NEW x \in Writers \ {w}
    PROVE  Own(x)'
<1>1. /\ tx[w].pend = {} /\ edges' = EdgesOf(w) /\ status' = StatusOf(w)
      /\ blocked' = (blocked \ tx[w].fresh) \cup tx[w].held
      /\ container' = container \cup tx[w].flags
      /\ attached' = attached \cup tx[w].links /\ resolved' = resolved \cup tx[w].passes
  BY DEF Commit
<1>2. /\ Touched(w) \subseteq tx[w].fresh
      /\ \A e \in Edges : e.task \notin tx[w].fresh => (e \in EdgesOf(w) <=> e \in edges)
      /\ \A e \in edges : e.task \notin tx[w].fresh
             => (Unmet(e, StatusOf(w)) <=> Unmet(e, status))
  BY <1>1, CommitKeeps
<1>3. /\ Own(w) /\ Own(x) /\ edges \in SUBSET Edges /\ EdgesOf(w) \in SUBSET Edges
      /\ EdgesOf(x) \in SUBSET Edges /\ tx[x] \in Transactions /\ tx[w] \in Transactions
      /\ status \in [Tasks -> Statuses]
  BY InvParts, ViewType DEF GraphInv, TypeOK
<1>4. tx'[w] = Idle /\ tx'[x] = tx[x] /\ \A y \in Writers \ {w} : tx'[y] = tx[y]
  BY IdleType, BecomeType DEF Commit, GraphInv
<1>5. tx[x].rows \cap tx[w].rows = {}
  BY <1>3 DEF Own, Free
<1>6. tx[w].fresh \subseteq tx[w].rows /\ tx[w].held \subseteq tx[w].fresh
  BY <1>3 DEF Own, Locking
\* Its rows and their statuses are as they were.
<1>7. ASSUME NEW t \in tx[x].rows
      PROVE  /\ t \notin tx[w].fresh /\ t \in Tasks /\ status'[t] = status[t]
             /\ t \in blocked' <=> t \in blocked
             /\ \A e \in tx[w].adds \cup tx[w].dels : e.task # t /\ e.on # t
  <2>1. t \notin tx[w].fresh /\ t \in Tasks
    BY <1>3, <1>5, <1>6 DEF Transactions
  <2>2. tx[w].wrote[t] = "kept"
    BY <1>3, <1>5, <2>1 DEF Own, Locking
  <2>3. status'[t] = status[t]
    BY <1>1, <2>1, <2>2 DEF StatusOf
  <2>4. \A e \in tx[w].adds \cup tx[w].dels : e.task # t /\ e.on # t
    BY <1>2, <2>1 DEF Touched
  <2>5. QED
    BY <1>1, <1>6, <2>1, <2>3, <2>4
<1>8. \A t \in Tasks : tx[x].wrote[t] # "kept" => t \in tx[x].rows
  BY <1>3 DEF Own, Locking
<1>9. Free(x, tx[x].rows)'
  BY <1>3, <1>4, IdleType DEF Own, Free
<1>10. Locking(x)'
  BY <1>1, <1>3, <1>4 DEF Own, Locking
<1>11. Collecting(x)'
  <2>1. Touched(x)' = Touched(x)
    BY <1>4 DEF Touched
  <2>2. ASSUME NEW t \in Tasks, Moved(x, t)'
        PROVE  \A u \in {t} \cup {e.task : e \in {f \in edges' : f.on = t}} :
                   u \in tx[x].fresh \cup tx[x].pend
    <3>1. t \in tx[x].rows
      BY <1>4, <1>8, <2>2 DEF Moved
    <3>2. Moved(x, t)
      BY <1>4, <1>7, <2>2, <3>1 DEF Moved
    <3>3. \A e \in edges' : e.on = t => e \in edges
      BY <1>1, <1>7, <3>1 DEF EdgesOf
    <3>4. QED
      BY <1>3, <3>2, <3>3 DEF Own, Collecting
  <2>3. QED
    BY <1>3, <1>4, <2>1, <2>2 DEF Own, Collecting
<1>12. Evaluated(x)'
  <2>1. tx[x].fresh \subseteq tx[x].rows
    BY <1>3 DEF Own, Locking
  <2> SUFFICES ASSUME NEW t \in tx[x].fresh \ tx[x].pend
               PROVE  /\ Prerequisite(EdgesOf(x)', StatusOf(x)', t) \/ Gated(OpenLinksOf(x)', t)
                             => t \in tx[x].held
                      /\ t \in tx[x].held /\ Simple(EdgesOf(x)', attached' \cup tx[x].links, t)
                             => Prerequisite(EdgesOf(x)', StatusOf(x)', t)
    BY <1>4 DEF Evaluated
  <2>2. t \in tx[x].rows /\ t \in Tasks /\ t \notin tx[w].fresh
    BY <1>7, <2>1
  <2>3. \A e \in Edges : e.task = t => (e \in EdgesOf(x)' <=> e \in EdgesOf(x))
    BY <1>1, <1>2, <1>4, <2>2 DEF EdgesOf
  <2>4. EdgesOf(x)' \in SUBSET Edges
    BY <1>1, <1>3, <1>4 DEF EdgesOf, Transactions
  <2>5. ASSUME NEW e \in EdgesOf(x), e.task = t
        PROVE  Unmet(e, StatusOf(x)') <=> Unmet(e, StatusOf(x))
    <3>1. e.on \in Tasks
      BY <1>3 DEF Edges
    <3>2. CASE tx[x].wrote[e.on] # "kept"
      <4>1. StatusOf(x)'[e.on] = StatusOf(x)[e.on]
        BY <1>4, <3>1, <3>2 DEF StatusOf
      <4>2. QED
        BY <4>1, UnmetSame
    <3>3. CASE tx[x].wrote[e.on] = "kept" /\ e \in tx[x].adds
      <4>1. e.on \in Touched(x)
        BY <3>3 DEF Touched
      <4>2. e.on \in tx[x].rows
        BY <1>3, <2>1, <4>1 DEF Own, Collecting
      <4>3. StatusOf(x)'[e.on] = StatusOf(x)[e.on]
        BY <1>4, <1>7, <3>1, <3>3, <4>2 DEF StatusOf
      <4>4. QED
        BY <4>3, UnmetSame
    <3>4. CASE tx[x].wrote[e.on] = "kept" /\ e \in edges
      <4>1. ~Moved(w, e.on)
        BY <1>1, <1>3, <2>2, <2>5, <3>1, <3>4 DEF Own, Collecting
      <4>2. \/ status'[e.on] = status[e.on]
            \/ status'[e.on] \in Neutral /\ status[e.on] \in Neutral
        BY <1>1, <3>1, <4>1 DEF Moved, StatusOf
      <4>3. StatusOf(x)'[e.on] = status'[e.on] /\ StatusOf(x)[e.on] = status[e.on]
        BY <1>4, <3>1, <3>4 DEF StatusOf
      <4>4. QED
        BY <4>2, <4>3, UnmetSame
    <3>5. QED
      BY <3>2, <3>3, <3>4 DEF EdgesOf
  <2>6. Prerequisite(EdgesOf(x)', StatusOf(x)', t) <=> Prerequisite(EdgesOf(x), StatusOf(x), t)
    BY <1>3, <2>3, <2>4, <2>5 DEF Prerequisite
  <2>7. \A l \in attached' : l[1] = t => l \in attached
    BY <1>1, <1>2, <2>2 DEF Touched
  <2>8. Gated(OpenLinksOf(x)', t) => Gated(OpenLinksOf(x), t)
    BY <1>1, <1>4, <2>7 DEF Gated, OpenLinksOf
  <2>9. Simple(EdgesOf(x)', attached' \cup tx[x].links, t)
          => Simple(EdgesOf(x), attached \cup tx[x].links, t)
    BY <1>1, <1>3, <2>3 DEF Simple
  <2>10. QED
    BY <1>3, <2>6, <2>8, <2>9 DEF Own, Evaluated
<1>13. Claiming(x)'
  <2> SUFFICES ASSUME NEW t \in Tasks \ container', tx[x].wrote[t] = "IN_PROGRESS",
                      status'[t] = "READY"
               PROVE  t \notin blocked'
    BY <1>4 DEF Claiming
  <2>1. t \in tx[x].rows /\ t \notin container
    BY <1>1, <1>8
  <2>2. QED
    BY <1>3, <1>7, <2>1 DEF Own, Claiming
<1>14. Placing(x)'
  <2>1. ASSUME tx[x].lock PROVE HierarchyFree(x)' /\ Forest(EdgesOf(x)')
    <3>1. HierarchyFree(x) /\ Forest(EdgesOf(x)) /\ ~tx[w].lock
      BY <1>3, <2>1 DEF Own, Placing, HierarchyFree
    <3>2. HierarchyFree(x)'
      BY <1>4, <3>1, IdleType DEF HierarchyFree
    <3>3. Membership(tx[w].adds \cup tx[w].dels) = {}
      BY <1>3, <3>1 DEF Own, Placing
    <3>4. Membership(EdgesOf(x)) = Membership(EdgesOf(x)')
      BY <1>1, <1>4, <3>3 DEF Membership, EdgesOf
    <3>5. QED
      BY <3>1, <3>2, <3>4, ForestSame
  <2>2. ASSUME AllStrict, NEW e \in Membership(tx[x].adds)
        PROVE  e.on \in tx[x].rows /\ status'[e.on] # "COMPLETED"
    BY <1>3, <1>7, <2>2 DEF Own, Placing
  <2>3. QED
    BY <1>3, <1>4, <2>1, <2>2 DEF Own, Placing
<1>15. QED
  BY <1>9, <1>10, <1>11, <1>12, <1>13, <1>14 DEF Own

LEMMA CommitStep ==
    ASSUME GraphInv, Counted', NEW w \in Writers, Commit(w)
    PROVE  GraphInv'
<1>1. tx'[w] = Idle /\ container' = container \cup tx[w].flags /\ edges' = EdgesOf(w)
  BY IdleType, BecomeType DEF Commit, GraphInv
<1>2. Touched(w)' = {} /\ \A t \in Tasks : tx'[w].wrote[t] = "kept"
  BY <1>1, IdleType DEF Touched
<1>3. Locking(w)' /\ Claiming(w)' /\ Evaluated(w)' /\ Free(w, tx[w].rows)'
  BY <1>1, <1>2, IdleType DEF Locking, Claiming, Evaluated, Free
<1>4. Collecting(w)'
  BY <1>1, <1>2, IdleType DEF Collecting, Moved
<1>5. Placing(w)'
  BY <1>1, IdleType DEF Placing, Membership
<1>6. Own(w)'
  BY <1>3, <1>4, <1>5 DEF Own
<1>7. HierarchyIsForest'
  <2>1. Own(w)
    BY InvParts
  <2>2. CASE tx[w].lock
    BY <1>1, <2>1, <2>2 DEF Own, Placing, HierarchyIsForest
  <2>3. CASE ~tx[w].lock
    <3>1. Membership(edges) = Membership(EdgesOf(w))
      BY <2>1, <2>3 DEF Own, Placing, Membership, EdgesOf
    <3>2. QED
      BY <1>1, <3>1, ForestSame DEF HierarchyIsForest, GraphInv
  <2>4. QED
    BY <2>2, <2>3
<1>8. \A x \in Writers : Own(x)'
  BY <1>6, CommitOthers
<1>9. ReleasedRight' /\ HeldRight'
  BY CommitProjection
<1>10. TypeOK'
  <2>1. tx[w] \in Transactions /\ EdgesOf(w) \in SUBSET Edges /\ StatusOf(w) \in [Tasks -> Statuses]
    BY ViewType DEF GraphInv
  <2>2. tx[w].held \subseteq Tasks /\ tx[w].flags \subseteq Tasks /\ tx[w].links \subseteq Links
        /\ tx[w].passes \subseteq Gates
    BY <2>1 DEF Transactions
  <2>3. tx' \in [Writers -> Transactions]
    BY IdleType, BecomeType DEF Commit, GraphInv
  <2>4. QED
    BY <2>1, <2>2, <2>3 DEF Commit, GraphInv, TypeOK, Counted
<1>11. QED
  BY <1>7, <1>8, <1>9, <1>10 DEF GraphInv, Own

----------------------------------------------------------------------------
\* Every step.

\* A settlement that finds no container due ends the settling.
LEMMA SettledStep ==
    ASSUME GraphInv, Counted', NEW w \in Writers, UNCHANGED data,
           Become(w, [tx[w] EXCEPT !.todo = {}])
    PROVE  GraphInv'
<1> DEFINE n == [tx[w] EXCEPT !.todo = {}]
<1>1. tx[w] \in Transactions /\ Own(w)
  BY ViewType, InvParts DEF GraphInv
<1>2. Become(w, n)
  OBVIOUS
<1>3. /\ n \in Transactions
      /\ n.edge = tx[w].edge /\ n.plan = tx[w].plan /\ n.adds = tx[w].adds
      /\ n.dels = tx[w].dels /\ n.wrote = tx[w].wrote /\ n.links = tx[w].links
      /\ n.passes = tx[w].passes /\ n.lock = tx[w].lock /\ n.rows = tx[w].rows
      /\ n.fresh = tx[w].fresh /\ n.held = tx[w].held /\ n.pend = tx[w].pend
  BY <1>1 DEF Transactions
<1> HIDE DEF n
<1>4. tx'[w] = n
  BY <1>2, <1>3, BecomeType DEF GraphInv
<1>5. /\ EdgesOf(w)' = EdgesOf(w) /\ StatusOf(w)' = StatusOf(w) /\ OpenLinksOf(w)' = OpenLinksOf(w)
      /\ Touched(w)' = Touched(w) /\ \A t \in Tasks : Moved(w, t)' <=> Moved(w, t)
  BY <1>3, <1>4 DEF EdgesOf, StatusOf, OpenLinksOf, Touched, Moved, data
<1>6. Locking(w)' /\ Claiming(w)'
  BY <1>1, <1>3, <1>4 DEF Own, Locking, Claiming, data
<1>7. Collecting(w)'
  BY <1>1, <1>3, <1>4, <1>5 DEF Own, Collecting, data
<1>8. Evaluated(w)'
  BY <1>1, <1>3, <1>4, <1>5 DEF Own, Evaluated, data
<1>9. Placing(w)'
  <2>1. HierarchyFree(w)' <=> HierarchyFree(w)
    BY <1>2, <1>3, BecomeType DEF HierarchyFree, GraphInv
  <2>2. QED
    BY <1>1, <1>3, <1>4, <1>5, <2>1 DEF Own, Placing, data
<1>10. Free(w, n.rows) /\ (n.lock => HierarchyFree(w))
  BY <1>1, <1>3 DEF Own, Placing
<1>11. QED
  BY <1>2, <1>3, <1>6, <1>7, <1>8, <1>9, <1>10, Local

\* Only a commit changes what others can read.
LEMMA Progress ==
    ASSUME Counted, NEW w \in Writers,
           \/ EdgeCommand(w) \/ GateCommand(w) \/ Transition(w) \/ Finish(w)
           \/ Rollback(w) \/ Sweep(w)
    PROVE  Counted' /\ (UNCHANGED data \/ Commit(w))
<1> DEFINE Done == Counted' /\ (UNCHANGED data \/ Commit(w))
<1>1. ASSUME EdgeCommand(w) PROVE Done
  <2>1. ASSUME NEW e \in Edges, CheckEdge(w, e) PROVE Done
    BY <2>1 DEF CheckEdge, Begin, Counted
  <2>2. ASSUME NEW e \in Edges, RemoveEdge(w, e) PROVE Done
    BY <2>2 DEF RemoveEdge, Begin, Counted
  <2>3. ASSUME InsertEdge(w) PROVE Done
    BY <2>3 DEF InsertEdge, Counted
  <2>4. ASSUME NEW d, NEW P, NEW strict, SetParent(w, d, P, strict) PROVE Done
    BY <2>4 DEF SetParent, Begin, Counted
  <2>5. QED
    BY <1>1, <2>1, <2>2, <2>3, <2>4 DEF EdgeCommand, Detach, Reparent
<1>2. ASSUME GateCommand(w) PROVE Done
  <2>1. ASSUME NEW g \in Gates, ResolveGate(w, g) PROVE Done
    BY <2>1 DEF ResolveGate, Begin, Counted
  <2>2. ASSUME NEW g \in Gates, NEW t \in Tasks, AttachGate(w, t, g) PROVE Done
    BY <2>2 DEF AttachGate, Begin, Counted
  <2>3. QED
    BY <1>2, <2>1, <2>2 DEF GateCommand
<1>3. ASSUME Transition(w) PROVE Done
  <2>1. ASSUME NEW t, NEW new, NEW stable, Write(w, t, new, stable) PROVE Done
    BY <2>1 DEF Write, Transact, Begin, Counted
  <2>2. ASSUME NEW t, NEW new, Plan(w, t, new) PROVE Done
    BY <2>2 DEF Plan, Begin, Counted
  <2>3. ASSUME Carry(w) PROVE Done
    BY <2>3 DEF Carry, Transact, Counted
  <2>4. QED
    BY <1>3, <2>1, <2>2, <2>3 DEF Transition, Promote, Claim, Yield, Fail, Complete,
        PlanRelease, PlanRestart, PlanSkip
<1>4. ASSUME Finish(w) PROVE Done
  <2>1. ASSUME Refresh(w) PROVE Done
    BY <2>1 DEF Refresh, Counted
  <2>2. ASSUME Settle(w) PROVE Done
    BY <2>2 DEF Settle, Counted
  <2>3. ASSUME Commit(w) PROVE Done
    BY <2>3 DEF Commit, Counted
  <2>4. ASSUME Victim(w) PROVE Done
    BY <2>4 DEF Victim, Counted
  <2>5. QED
    BY <1>4, <2>1, <2>2, <2>3, <2>4 DEF Finish
<1>5. ASSUME Rollback(w) PROVE Done
  BY <1>5 DEF Rollback, Counted
<1>6. ASSUME Sweep(w) PROVE Done
  BY <1>6 DEF Sweep, Counted
<1>7. QED
  BY <1>1, <1>2, <1>3, <1>4, <1>5, <1>6

LEMMA OnlyCommit ==
    ASSUME GraphInv, [Next]_vars, ~UNCHANGED data
    PROVE  \E w \in Writers : Commit(w)
<1>1. Next
  BY DEF vars
<1>2. Counted
  BY DEF GraphInv, TypeOK, Counted
<1>3. QED
  BY <1>1, <1>2, Progress DEF Next

LEMMA EdgeCommandStep ==
    ASSUME GraphInv, Counted', NEW w \in Writers, EdgeCommand(w)
    PROVE  GraphInv'
<1>1. ASSUME NEW e \in Edges, CheckEdge(w, e) PROVE GraphInv'
  BY <1>1, CheckStep
<1>2. ASSUME NEW e \in Edges, RemoveEdge(w, e) PROVE GraphInv'
  BY <1>2, RemoveStep
<1>3. ASSUME InsertEdge(w) PROVE GraphInv'
  BY <1>3, InsertStep DEF InsertEdge
<1>4. ASSUME NEW d \in Tasks, Detach(w, d) PROVE GraphInv'
  <2>1. SetParent(w, d, {}, FALSE)
    BY <1>4 DEF Detach
  <2>2. {} \in SUBSET Tasks /\ FALSE \in BOOLEAN
    OBVIOUS
  <2>3. QED
    BY <2>1, <2>2, ParentStep
<1>5. ASSUME NEW d \in Tasks, NEW p \in Tasks, Reparent(w, d, p) PROVE GraphInv'
  <2>1. PICK strict \in BOOLEAN : (AllStrict => strict) /\ SetParent(w, d, {p}, strict)
    BY <1>5 DEF Reparent
  <2>2. {p} \in SUBSET Tasks /\ \A q, r \in {p} : q = r
    OBVIOUS
  <2>3. QED
    BY <2>1, <2>2, ParentStep
<1>6. QED
  BY <1>1, <1>2, <1>3, <1>4, <1>5 DEF EdgeCommand

LEMMA CarryStep ==
    ASSUME GraphInv, Counted', NEW w \in Writers, Carry(w)
    PROVE  GraphInv'
<1>1. PICK p \in tx[w].plan :
        \/ status[p.task] # p.new /\ Transact(w, p.task, p.new, FALSE)
        \/ Become(w, Idle) /\ UNCHANGED data
  BY DEF Carry
<1>2. /\ p.task \in Tasks /\ p.new \in Statuses
      /\ p.new = "IN_PROGRESS" => p.task \in container
  BY ViewType, InvParts DEF GraphInv, Own, Locking, Transactions
<1>3. CASE Transact(w, p.task, p.new, FALSE)
  BY <1>2, <1>3, TransactStep
<1>4. CASE Become(w, Idle) /\ UNCHANGED data
  BY <1>4, EndStep
<1>5. QED
  BY <1>1, <1>3, <1>4

LEMMA TransitionStep ==
    ASSUME GraphInv, Counted', NEW w \in Writers, Transition(w)
    PROVE  GraphInv'
<1>1. ASSUME NEW t \in Tasks,
             Promote(w, t) \/ Claim(w, t) \/ Yield(w, t) \/ Fail(w, t) \/ Complete(w, t)
      PROVE  GraphInv'
  <2>1. "READY" \in Statuses /\ "IN_PROGRESS" \in Statuses /\ "BLOCKED" \in Statuses
        /\ "COMPLETED" \in Statuses /\ Neutral = {"READY", "IN_PROGRESS"}
    BY DEF Statuses, Neutral
  <2>2. CASE Promote(w, t)
    BY <2>1, <2>2, TransactStep DEF Promote, Write
  <2>3. CASE Claim(w, t)
    BY <2>1, <2>3, TransactStep DEF Claim, Write
  <2>4. CASE Yield(w, t)
    BY <2>1, <2>4, TransactStep DEF Yield, Write
  <2>5. CASE Fail(w, t)
    BY <2>1, <2>5, TransactStep DEF Fail, Write
  <2>6. CASE Complete(w, t)
    BY <2>1, <2>6, TransactStep DEF Complete, Write
  <2>7. QED
    BY <1>1, <2>2, <2>3, <2>4, <2>5, <2>6
<1>2. ASSUME NEW t \in Tasks, PlanRelease(w, t) \/ PlanRestart(w, t) \/ PlanSkip(w, t)
      PROVE  GraphInv'
  <2>1. PICK new \in Statuses : Plan(w, t, new) /\ (new = "IN_PROGRESS" => t \in container)
    BY <1>2 DEF PlanRelease, PlanRestart, PlanSkip, Statuses
  <2>2. QED
    BY <2>1, PlanStep
<1>3. QED
  BY <1>1, <1>2, CarryStep DEF Transition

LEMMA FinishStep ==
    ASSUME GraphInv, Counted', NEW w \in Writers, Finish(w)
    PROVE  GraphInv'
<1>1. CASE Refresh(w)
  BY <1>1, RefreshStep
<1>2. CASE Commit(w)
  BY <1>2, CommitStep
<1>3. CASE Victim(w)
  BY <1>3, EndStep DEF Victim
<1>4. CASE Settle(w)
  <2> DEFINE due == {c \in tx[w].todo : Settles(w, c)}
             new(c) == (due \ {c}) \cup Parents(EdgesOf(w), c)
  <2>1. tx[w].pend = {} /\ UNCHANGED data
    BY <1>4 DEF Settle
  <2>2. CASE Become(w, [tx[w] EXCEPT !.todo = {}])
    BY <2>1, <2>2, SettledStep
  <2>3. ASSUME NEW c \in due, Free(w, {c}),
               Become(w, [tx[w] EXCEPT !.rows = @ \cup {c}, !.wrote[c] = "COMPLETED",
                                       !.pend = Affected(EdgesOf(w), {c}), !.todo = new(c)])
        PROVE  GraphInv'
    <3>1. c \in tx[w].todo
      OBVIOUS
    <3>2. new(c) \in SUBSET Tasks
      BY ViewType DEF GraphInv, Transactions, Parents, Edges
    <3> HIDE DEF due, new
    <3>3. QED
      BY <2>1, <2>3, <3>1, <3>2, SettleStep
  <2>4. QED
    BY <1>4, <2>2, <2>3 DEF Settle
<1>5. QED
  BY <1>1, <1>2, <1>3, <1>4 DEF Finish

LEMMA GraphStep ==
    ASSUME GraphInv, [Next]_vars
    PROVE  GraphInv'
<1>1. CASE UNCHANGED vars
  <2>1. UNCHANGED <<edges, status, blocked, container, attached, resolved, tx, ops, faults>>
    BY <1>1 DEF vars, data
  <2>2. TypeOK' /\ ReleasedRight' /\ HeldRight' /\ HierarchyIsForest'
    BY <2>1 DEF GraphInv, TypeOK, ReleasedRight, HeldRight, HierarchyIsForest, OpenLinks
  <2>3. ASSUME NEW w \in Writers PROVE Own(w)'
    <3>1. Own(w)
      BY InvParts
    <3>2. /\ EdgesOf(w)' = EdgesOf(w) /\ StatusOf(w)' = StatusOf(w)
          /\ OpenLinksOf(w)' = OpenLinksOf(w) /\ Touched(w)' = Touched(w)
          /\ \A t \in Tasks : Moved(w, t)' <=> Moved(w, t)
      BY <2>1, SameView DEF data
    <3>3. Free(w, tx[w].rows)' /\ Locking(w)' /\ Claiming(w)'
      BY <2>1, <3>1 DEF Own, Free, Locking, Claiming
    <3>4. Collecting(w)'
      BY <2>1, <3>1, <3>2 DEF Own, Collecting
    <3>5. Evaluated(w)'
      BY <2>1, <3>1, <3>2 DEF Own, Evaluated
    <3>6. Placing(w)'
      BY <2>1, <3>1, <3>2 DEF Own, Placing, HierarchyFree
    <3>7. QED
      BY <3>3, <3>4, <3>5, <3>6 DEF Own
  <2>4. QED
    BY <2>2, <2>3 DEF GraphInv, Own
<1>2. CASE Next
  <2>1. PICK w \in Writers :
          EdgeCommand(w) \/ GateCommand(w) \/ Transition(w) \/ Finish(w) \/ Rollback(w) \/ Sweep(w)
    BY <1>2 DEF Next
  <2>2. Counted'
    BY <2>1, Progress DEF GraphInv, TypeOK, Counted
  <2>3. CASE GateCommand(w)
    BY <2>2, <2>3, AttachStep, ResolveStep DEF GateCommand
  <2>4. CASE Rollback(w)
    BY <2>2, <2>4, EndStep DEF Rollback
  <2>5. QED
    BY <2>1, <2>2, <2>3, <2>4, EdgeCommandStep, TransitionStep, FinishStep, SweepStep
<1>3. QED
  BY <1>1, <1>2

LEMMA GraphStart ==
    ASSUME Init
    PROVE  GraphInv
<1>1. PICK s \in Starts :
        /\ edges = s.edges /\ status = s.status /\ container = s.container
        /\ attached = s.attached
        /\ blocked = {t \in Tasks : IsBlocked(s.edges, s.status, s.attached, t)}
  BY DEF Init, Start
<1>2. resolved = {} /\ ops = 0 /\ faults = 0 /\ tx = [w \in Writers |-> Idle]
  BY DEF Init
<1>3. TypeOK
  BY <1>1, <1>2, StartAssumption, IdleType DEF TypeOK
<1>4. HierarchyIsForest
  BY <1>1, StartAssumption DEF HierarchyIsForest, Forest
<1>5. OpenLinks = attached
  BY <1>2 DEF OpenLinks
<1>6. \A t \in Tasks : t \in blocked <=> IsBlocked(edges, status, attached, t)
  BY <1>1
<1>7. ReleasedRight
  BY <1>5, <1>6 DEF ReleasedRight, IsBlocked
<1>8. HeldRight
  <2> SUFFICES ASSUME NEW t \in blocked, Simple(edges, attached, t)
               PROVE  Prerequisite(edges, status, t)
    BY DEF HeldRight
  <2>1. ~FanIn(edges, status, t) /\ ~Gated(attached, t)
    BY DEF Simple, FanIn, Gated
  <2>2. QED
    BY <1>3, <1>6, <2>1 DEF IsBlocked, TypeOK
<1>9. ASSUME NEW w \in Writers PROVE Own(w)
  <2>1. tx[w] = Idle
    BY <1>2
  <2>2. Touched(w) = {} /\ \A t \in Tasks : tx[w].wrote[t] = "kept"
    BY <2>1, IdleType DEF Touched
  <2>3. Locking(w) /\ Claiming(w) /\ Evaluated(w) /\ Free(w, tx[w].rows)
    BY <2>1, <2>2, IdleType DEF Locking, Claiming, Evaluated, Free
  <2>4. Collecting(w) /\ Placing(w)
    BY <2>1, <2>2, IdleType DEF Collecting, Moved, Placing, Membership
  <2>5. QED
    BY <2>3, <2>4 DEF Own
<1>10. QED
  BY <1>3, <1>4, <1>7, <1>8, <1>9 DEF GraphInv, Own

----------------------------------------------------------------------------
\* The invariant of the graph's transactions: the rows a transaction evaluates
\* are the rows its own writes are about and those that depend on a status it
\* changes, and they are locked until it commits.  Code: recompute_blocked and
\* the writers of tasks and task_dependencies that call it.
THEOREM GraphInvariant == Spec => []GraphInv
<1>1. Init => GraphInv
  BY GraphStart
<1>2. GraphInv /\ [Next]_vars => GraphInv'
  BY GraphStep
<1>3. QED
  BY <1>1, <1>2, PTL DEF Spec

\* Whatever transactions run at the same time, a task that is_blocked = 0
\* offers to the frontier has no unmet prerequisite and no open gate.
\* Code: blocked_predicate against what recompute_blocked has written.
THEOREM Released == Spec => []ReleasedRight
<1>1. GraphInv => ReleasedRight
  BY DEF GraphInv
<1>2. QED
  BY <1>1, GraphInvariant, PTL

\* A task with is_blocked = 1 and neither a fan-in nor a gate has a
\* prerequisite that is not met.  Code: recompute_blocked, _collect_affected.
THEOREM Held == Spec => []HeldRight
<1>1. GraphInv => HeldRight
  BY DEF GraphInv
<1>2. QED
  BY <1>1, GraphInvariant, PTL

\* However reparents interleave, the hierarchy stays a forest.  Code:
\* set_parent, under lock_hierarchy_project.
THEOREM ForestKept == Spec => []HierarchyIsForest
<1>1. GraphInv => HierarchyIsForest
  BY DEF GraphInv
<1>2. QED
  BY <1>1, GraphInvariant, PTL

LEMMA ClaimedUnblocked ==
    ASSUME GraphInv, [Next]_vars, NEW t \in Tasks \ container,
           status[t] = "READY", status'[t] = "IN_PROGRESS"
    PROVE  ~Prerequisite(edges, status, t) /\ ~Gated(OpenLinks, t)
<1>1. PICK w \in Writers : Commit(w)
  BY OnlyCommit DEF data
<1>2. tx[w].wrote[t] = "IN_PROGRESS"
  BY <1>1 DEF Commit, StatusOf
<1>3. t \notin blocked
  BY <1>2, InvParts DEF Own, Claiming
<1>4. QED
  BY <1>3 DEF GraphInv, ReleasedRight

\* A worker's claim commits only for a task whose prerequisites are met and
\* whose gates are resolved at that moment.  Code: the claim's is_blocked
\* fence, and the row lock it keeps until it commits.
THEOREM ClaimsUnblocked == Spec => StartsUnblocked
<1>1. GraphInv /\ [Next]_vars =>
        [\A t \in Tasks \ container :
            status[t] = "READY" /\ status'[t] = "IN_PROGRESS"
                => ~Prerequisite(edges, status, t) /\ ~Gated(OpenLinks, t)]_vars
  BY ClaimedUnblocked
<1>2. QED
  BY <1>1, GraphInvariant, PTL DEF Spec, StartsUnblocked

LEMMA PlacedOpen ==
    ASSUME GraphInv, AllStrict, [Next]_vars, NEW e \in edges' \ edges, e.type = "parent-child"
    PROVE  status[e.on] # "COMPLETED"
<1>1. PICK w \in Writers : Commit(w)
  BY OnlyCommit DEF data
<1>2. e \in Membership(tx[w].adds)
  BY <1>1 DEF Commit, EdgesOf, Membership
<1>3. QED
  BY <1>2, InvParts DEF Own, Placing

\* When every reparent locks its new parent and refuses a live one, no child
\* is placed under a container that has been completed by then.  Code:
\* set_parent with reject_live_parent, settle_containers.
THEOREM PlacementsOpen == ASSUME AllStrict PROVE Spec => PlacedUnderOpen
<1>1. GraphInv /\ [Next]_vars =>
        [\A e \in edges' \ edges : e.type = "parent-child" => status[e.on] # "COMPLETED"]_vars
  BY PlacedOpen
<1>2. QED
  BY <1>1, GraphInvariant, PTL DEF Spec, PlacedUnderOpen

=============================================================================
