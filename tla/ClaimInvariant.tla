--------------------------- MODULE ClaimInvariant ---------------------------
(***************************************************************************)
(* The inductive invariants behind the safety properties of Claim, as      *)
(* conjunctions of named parts, each containing the one before: what every *)
(* instance keeps (BindingInv), who a lock belongs to (LockInv), and what  *)
(* is known besides where a closed task does not come back (HoldInv).      *)
(***************************************************************************)
EXTENDS Claim

-----------------------------------------------------------------------------
\* Every instance

\* A session row has an agent and a slot from its launch on, and neither a hold, a
\* teardown nor a preparation before.
Launched ==
    /\ \A s \in Sessions :
          IF sstate[s] = "absent"
            THEN agentOf[s] = None /\ slotOf[s] = None /\ held[s] = None
                 /\ stopping[s] = None
            ELSE agentOf[s] # None /\ slotOf[s] # None
    /\ \A j \in jobs : sstate[j.session] # "absent"

\* A hold has a phase, and only a hold.
HoldPhase == \A s \in Sessions : held[s] = None <=> phase[s] = None

\* A live session shares its agent with no other live one, and the agent locks no
\* slot but the session's.
AgentOnce ==
    \A s \in Sessions : Live(s) =>
        /\ \A o \in Sessions : Live(o) /\ agentOf[o] = agentOf[s] => o = s
        /\ \A w \in Workspaces : lockAgent[w] = agentOf[s] => w = slotOf[s]

\* A task lock is answered by a session of the locking agent that holds the task,
\* and, if the task is assigned to that agent, under its current epoch.
Answers(s, w) ==
    LET t == lockTask[w]
    IN  /\ slotOf[s] = w /\ held[s] = t /\ agentOf[s] = lockAgent[w]
        /\ assigned[t] = agentOf[s] => leased[s] = epoch[t]
Answered ==
    \A w \in Workspaces : lockTask[w] # None => \E s \in Sessions : Answers(s, w)

\* A teardown is of a live session that claims no more, and holds at most what it
\* held when the teardown began.
TeardownHold ==
    \A s \in Sessions : stopping[s] # None =>
        /\ Live(s) /\ desired[s] = "stopped"
        /\ held[s] \in {None, stopping[s].task}
        /\ stopping[s].stage = "released" => held[s] = None

\* A session that may claim has an idle agent.
IdleWhenFree ==
    \A s \in Sessions : Live(s) /\ desired[s] = "running" /\ held[s] = None =>
        AgentFree(agentOf[s])

\* A task is assigned exactly while it is IN_PROGRESS, to the agent of the session
\* with its lease.
Assignment ==
    /\ \A t \in Tasks : assigned[t] # None <=> status[t] = "IN_PROGRESS"
    /\ \A s \in Sessions, t \in Tasks :
          Holds(s, t) /\ status[t] = "IN_PROGRESS" => assigned[t] = agentOf[s]
    /\ \A s \in Sessions : closing[s] # None => closing[s].status # "IN_PROGRESS"

\* What a preparation has locked is the row of a live session.
LockedLive == \A s \in Sessions : RowLocked(s) => Live(s)

BindingInv ==
    /\ LeaseInv
    /\ Launched /\ HoldPhase /\ AgentOnce /\ Answered /\ TeardownHold
    /\ IdleWhenFree /\ Assignment /\ LockedLive

-----------------------------------------------------------------------------
\* Who a lock belongs to

\* A preparation past its fence whose claim nobody has ended: the one release that
\* gives a slot's agent lock back from a session that may have been stopped.
Condemning(s) ==
    Quarantines /\ \E j \in jobs : j.session = s /\ JobControls(j) /\ SessionStill(j)

\* A session that still needs its slot.
Needs(s) ==
    \/ Live(s) /\ (desired[s] = "running" \/ held[s] # None)
    \/ \E t \in Tasks : owner[t] = s
    \/ Condemning(s)
Rooted(s) == Live(s) \/ Needs(s)

\* An agent is rooted in one session, however many its earlier ones have left
\* behind.
OneRooted ==
    \A s, o \in Sessions : Rooted(s) /\ Rooted(o) /\ agentOf[s] = agentOf[o] => s = o

\* A slot that is needed is locked by its session's agent, for the task the session
\* holds or for none.
SlotKept ==
    \A s \in Sessions : Needs(s) =>
        lockAgent[slotOf[s]] = agentOf[s] /\ lockTask[slotOf[s]] \in {None, held[s]}

\* An attached owner row is that of the hierarchy task its session holds.
OwnerHolds == \A t \in Tasks : owner[t] # None => t \in Managed /\ held[owner[t]] = t

\* The claim file a preparation is about to activate under is its own or is gone.
FileWritten ==
    \A j \in jobs : j.step = "marked" =>
        LET w == slotOf[j.session]
        IN  marker[w] = None \/ OwnMarker(w, j.task, j.epoch, j.session)

\* The owner-recovery sweep takes no task control lock.  What keeps it from freeing
\* the slot of a preparation that will condemn it is that the claim it finds is
\* current: it then ends that claim as well.  LockInv is kept by every step from a
\* state where this holds.
OwnersCurrent ==
    \A t \in Tasks : owner[t] # None /\ Condemning(owner[t]) => leased[owner[t]] = epoch[t]

LockInv ==
    BindingInv /\ OneRooted /\ SlotKept /\ OwnerHolds /\ FileWritten /\ ClaimFileNotForeign

-----------------------------------------------------------------------------
\* Where a task that was closed does not come back

\* Every hold is the current lease of its task, and a task on the frontier has none.
HeldCurrent ==
    /\ \A s \in Sessions : held[s] # None => leased[s] = epoch[held[s]]
    /\ \A s \in Sessions, t \in Tasks : held[s] = t => status[t] # "READY"

\* A close whose session has not let go has written the status its tail will write.
CloseWritten ==
    \A s \in Sessions : closing[s] # None =>
        LET c == closing[s]
        IN  /\ c.epoch <= epoch[c.task]
            /\ CloseStill(s, c) => status[c.task] = c.status /\ phase[s] = "active"

\* A holder's slot is locked for the task it holds.
LockedForTask ==
    \A s \in Sessions, t \in Tasks :
        Live(s) /\ Holds(s, t) /\ status[t] = "IN_PROGRESS" => lockTask[slotOf[s]] = t

\* A claim has at most one preparation, entered under an epoch its task has had.  It
\* belongs to what its session is preparing, or its claim is over.
JobsCurrent ==
    /\ \A j, k \in jobs :
          j.session = k.session /\ j.task = k.task /\ j.epoch = k.epoch => j = k
    /\ \A j \in jobs :
          /\ j.epoch <= epoch[j.task]
          /\ SessionStill(j) => phase[j.session] = "preparing" /\ j.step # "quarantining"

\* A live preparation's task is running, and a live session's agent is pinned to
\* nothing else.
LivePreparation ==
    \A s \in Sessions : Live(s) =>
        /\ phase[s] = "preparing" => status[held[s]] = "IN_PROGRESS"
        /\ current[agentOf[s]] \in {None, held[s]}

HoldInv ==
    /\ LockInv
    /\ HeldCurrent /\ CloseWritten /\ LockedForTask /\ JobsCurrent /\ LivePreparation

-----------------------------------------------------------------------------
\* ... and where no prerequisite of a held task comes back either

\* Nobody who may claim works for an agent that has a running task: a live session of
\* that agent is the one that holds it.
AssignedAlone ==
    \A t \in Tasks : status[t] = "IN_PROGRESS" =>
        \A s \in Sessions : Live(s) /\ agentOf[s] = assigned[t] => held[s] = t

\* One preparation at a time is past the fence of a task, and what its session holds
\* of that task is in preparation.
Controlled ==
    /\ \A j, k \in jobs : JobControls(j) /\ JobControls(k) /\ j.task = k.task => j = k
    /\ \A j \in jobs : JobControls(j) /\ held[j.session] = j.task =>
          phase[j.session] = "preparing"

GrantInv ==
    /\ HoldInv /\ Controlled
    /\ \A t \in Tasks : ~blocked[t]
    /\ NoStrandedAssignment /\ AssignedAlone
=============================================================================
