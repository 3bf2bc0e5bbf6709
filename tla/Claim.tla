------------------------------- MODULE Claim -------------------------------
(***************************************************************************)
(* The pool-worker claim protocol: launch, claim, preparation, close,      *)
(* release, drain and teardown, as they interleave in one asyncio daemon   *)
(* that may restart between any two steps.  Every action is one            *)
(* transaction, or one stretch of daemon code between awaits.              *)
(***************************************************************************)
EXTENDS ClaimCommand, ClaimPreparation, ClaimEnd

Init ==
    /\ status = [t \in Tasks |-> "READY"]
    /\ epoch = [t \in Tasks |-> 0]
    /\ assigned = [t \in Tasks |-> None]
    /\ blocked = [t \in Tasks |-> FALSE]
    /\ attempts = [t \in Tasks |-> 0]
    /\ owner = [t \in Tasks |-> None]
    /\ sstate = [s \in Sessions |-> "absent"]
    /\ desired = [s \in Sessions |-> "running"]
    /\ held = [s \in Sessions |-> None]
    /\ phase = [s \in Sessions |-> None]
    /\ leased = [s \in Sessions |-> 0]
    /\ claims = [s \in Sessions |-> 0]
    /\ agentOf = [s \in Sessions |-> None]
    /\ slotOf = [s \in Sessions |-> None]
    /\ astate = [a \in Agents |-> "IDLE"]
    /\ current = [a \in Agents |-> None]
    /\ lockAgent = [w \in Workspaces |-> None]
    /\ lockTask = [w \in Workspaces |-> None]
    /\ enabled = [w \in Workspaces |-> TRUE]
    /\ marker = [w \in Workspaces |-> None]
    /\ jobs = {}
    /\ closing = [s \in Sessions |-> None]
    /\ stopping = [s \in Sessions |-> None]

Next ==
    \/ \E s \in Sessions, a \in Agents, w \in Workspaces : Launch(s, a, w)
    \/ \E s \in Sessions, t \in Tasks : ClaimTask(s, t)
    \/ \E s \in Sessions, t \in Tasks : ResumePreparation(s, t)
    \/ \E s \in Sessions, t \in Tasks : RecoverStaleBinding(s, t)
    \/ \E s \in Sessions : ClaimOnRetiredSlot(s) \/ ClaimExhausted(s)
    \/ \E j \in jobs : JobStepOf(j)
    \/ \E j \in jobs : JobFault(j)
    \/ \E s \in Sessions, t \in Tasks : \E st \in Verdicts : CloseTransition(s, t, st)
    \/ \E s \in Sessions : CloseRecord(s)
    \/ \E s \in Sessions : CloseRelease(s)
    \/ \E s \in Sessions : OrphanSweep(s)
    \/ \E s \in Sessions : PrepareTimeout(s)
    \/ \E s \in Sessions : DrainDisplaced(s)
    \/ \E s \in Sessions : RequestDrain(s)
    \/ \E s \in Sessions, lost \in BOOLEAN : TermBegin(s, lost)
    \/ \E s \in Sessions : TermUnconfirmed(s)
    \/ \E s \in Sessions : TermRelease(s)
    \/ \E s \in Sessions : TermFinish(s)
    \/ \E t \in Tasks : StopTask(t)
    \/ \E t \in Tasks : RecoverMissing(t, "READY") \/ RecoverMissing(t, "FAILED")
    \/ \E t \in Tasks : OperatorReopen(t)
    \/ \E t \in Tasks : DependencyFlip(t)
    \/ \E t \in Tasks : OwnerRecovered(t)
    \/ \E w \in Workspaces : LoseMarker(w)
    \/ DaemonRestart

Spec == Init /\ [][Next]_vars

-----------------------------------------------------------------------------
\* Fairness.  The daemon runs its coroutines to their end unless it restarts; the
\* reconciler's ticks come back forever, and a refusal cooldown keeps a failed
\* preparation without a live job for longer than one tick.
JobOf(s) == \E j \in jobs : j.session = s /\ JobStepOf(j)
Fairness ==
    \A s \in Sessions :
        /\ WF_vars(JobOf(s))
        /\ WF_vars(CloseRecord(s)) /\ WF_vars(CloseRelease(s))
        /\ WF_vars(TermRelease(s)) /\ WF_vars(TermFinish(s))
        /\ WF_vars(OrphanSweep(s))
        /\ SF_vars(~LiveJob(s, held[s], leased[s]) /\ PrepareTimeout(s))

FairSpec == Spec /\ Fairness

-----------------------------------------------------------------------------
\* Invariants

\* No two sessions, live or stopped, hold one task under one epoch: the pair
\* (task, epoch) every close, heartbeat and release is checked against names at
\* most one session (take_task's increment; resumed and late preparations
\* re-write last_claim_epoch).
UniqueLease ==
    \A s, o \in Sessions :
        s # o /\ held[s] # None /\ held[s] = held[o] => leased[s] # leased[o]

\* A session that holds the current lease of a running task is the session of
\* the agent the task is assigned to, and the slot is still locked for exactly
\* this pair: no late release, retired preparation or teardown of an earlier
\* holder has taken any of them away.
HolderBacked ==
    \A s \in Sessions, t \in Tasks :
        Live(s) /\ Holds(s, t) /\ status[t] = "IN_PROGRESS" =>
            /\ assigned[t] = agentOf[s]
            /\ lockAgent[slotOf[s]] = agentOf[s] /\ lockTask[slotOf[s]] = t

\* The agent a running task is assigned to is pinned to it (the doctor's
\* claims.holder_consistency: "agent.current_task_id == task.id").
AgentPinned ==
    \A t \in Tasks : status[t] = "IN_PROGRESS" /\ assigned[t] # None =>
        current[assigned[t]] = t

\* A running task always has a session holding its current lease that something
\* still releases: a live one, a preparation (which times out), or one kept as
\* evidence by an attached branch.  Whatever drops a session's hold also takes
\* the task out of IN_PROGRESS ("dropping the session must not strand its
\* assignment"), so no assignment is left that nothing requeues.
NoStrandedAssignment ==
    \A t \in Tasks : status[t] = "IN_PROGRESS" =>
        \E s \in Sessions :
            Holds(s, t) /\ (Live(s) \/ phase[s] = "preparing" \/ owner[t] = s)

\* A task lock on a slot is always answered by a session bound there that holds
\* that task: nothing leaves a slot reserved for a task nobody releases it from.
NoStrandedSlot ==
    \A w \in Workspaces : lockTask[w] # None =>
        \E s \in Sessions : slotOf[s] = w /\ held[s] = lockTask[w]

\* A session that is to keep running and holds nothing can claim: its agent is
\* idle, its slot is its own and free.  Each of the ways a claim ends must have
\* given all of it back, and none may have given back too much.
FreeSessionCanClaim ==
    \A s \in Sessions :
        Live(s) /\ desired[s] = "running" /\ held[s] = None =>
            /\ AgentFree(agentOf[s])
            /\ lockAgent[slotOf[s]] = agentOf[s] /\ lockTask[slotOf[s]] = None

\* The claim file in the slot of an active holder is its own or is gone: the
\* epoch the agent reads from it and closes with is never another claim's.
ClaimFileNotForeign ==
    \A s \in Sessions, t \in Tasks :
        Live(s) /\ Holds(s, t) /\ phase[s] = "active" /\ status[t] = "IN_PROGRESS" =>
            marker[slotOf[s]] = None \/ OwnMarker(slotOf[s], t, epoch[t], s)

\* ... and it is there, from activation until the claim ends: nobody else's
\* cleanup removes it (claim_file.py: "unconditional removal could erase the
\* successor's fence").
ClaimFileKept ==
    \A s \in Sessions, t \in Tasks :
        Live(s) /\ Holds(s, t) /\ phase[s] = "active" /\ status[t] = "IN_PROGRESS" =>
            OwnMarker(slotOf[s], t, epoch[t], s)

-----------------------------------------------------------------------------
\* The inductive invariant behind UniqueLease and TypeOK

\* A held lease was granted: its epoch is one of its task's.
LeaseFenced ==
    \A s \in Sessions : held[s] # None => leased[s] >= 1 /\ leased[s] <= epoch[held[s]]

\* While a preparation's transaction has the session row locked, the row is the
\* one that was proven.
LockedRow ==
    \A j \in jobs : j.step \in {"proved", "marked"} =>
        /\ held[j.session] = j.task /\ leased[j.session] = j.epoch
        /\ phase[j.session] = "preparing"

\* At most one preparation has it locked.
LockedOnce ==
    \A j, k \in jobs :
        /\ j.session = k.session
        /\ j.step \in {"proved", "marked"} /\ k.step \in {"proved", "marked"}
        => j = k

\* A session in preparation still has budget for the claim it will count.
BudgetLeft == \A s \in Sessions : phase[s] = "preparing" => claims[s] < ClaimCap

\* The lease invariant: what a late writer finds under its row lock is still the
\* grant it was fenced on.
LeaseInv == TypeOK /\ LeaseFenced /\ UniqueLease /\ LockedRow /\ LockedOnce /\ BudgetLeft

-----------------------------------------------------------------------------
\* What a step may not do

\* A running task leaves IN_PROGRESS only together with its current holder: the
\* same step unbinds the session that holds the lease, or is that session's own
\* close, or an operator's stop.  A late release of an earlier claim never takes
\* a successor's task away.  Once the claim of a session that is to run on is
\* active, nothing else ends it than its close, the operator, or the eviction that
\* condemns its slot: not a timeout the reconciler decided on before the preparation
\* came through, not a late preparation, not a sweep.
OnlyHolderEndsLease ==
    [][\A s \in Sessions, t \in Tasks :
          Live(s) /\ Holds(s, t) /\ status[t] = "IN_PROGRESS" =>
            /\ status'[t] # "IN_PROGRESS" =>
                  held'[s] # t \/ closing'[s] # closing[s] \/ owner[t] = s
            /\ phase[s] = "active" /\ desired[s] = "running" =>
                  \/ status'[t] = "IN_PROGRESS" /\ held'[s] = t
                  \/ closing'[s] # closing[s] \/ owner[t] = s
                  \/ ~Live(s)' \/ ~enabled'[slotOf[s]]]_vars

\* A task is COMPLETED only by the close of the session that holds its current
\* lease, never by the tail of a close that session, or another, made earlier.
CompletedByItsHolder ==
    [][\A t \in Tasks : status[t] # "COMPLETED" /\ status'[t] = "COMPLETED" =>
          \E s \in Sessions :
              Live(s) /\ Holds(s, t) /\ phase[s] = "active" /\ closing[s] = None]_vars

\* A claim becomes active only while it is the task's current, unblocked lease,
\* whatever happened to the task row while the slot was being reset.
ActivationIsCurrent ==
    [][\A s \in Sessions : phase[s] # "active" /\ phase'[s] = "active" =>
          LET t == held[s]
          IN  /\ Holds(s, t) /\ status[t] = "IN_PROGRESS" /\ ~blocked[t]
              /\ assigned[t] = agentOf[s]]_vars

\* A writer whose integration branch is attached keeps its claim and its slot
\* until the owner row is detached, however its task, process or daemon end.
AttachedWriterKept ==
    [][\A s \in Sessions, t \in Tasks : owner[t] = s /\ owner'[t] = s =>
          /\ held[s] = t => held'[s] = t
          /\ lockTask[slotOf[s]] = t => lockTask'[slotOf[s]] = t]_vars

-----------------------------------------------------------------------------
\* Liveness

\* No claim stays in preparation for ever: it activates, fails, times out or is
\* torn down.
PreparationEnds ==
    \A s \in Sessions : phase[s] = "preparing" ~> phase[s] # "preparing"

\* A live session whose task was closed under it lets go of it, also when the
\* daemon restarted between the close's commits.
ClosedHoldEnds ==
    \A s \in Sessions, t \in Tasks :
        (Live(s) /\ held[s] = t /\ status[t] \in {"COMPLETED", "BLOCKED", "FAILED"})
            ~> (held[s] # t \/ ~Live(s))

-----------------------------------------------------------------------------
\* The abstract lease

Stage(t) ==
    CASE status[t] = "READY" -> "open"
      [] status[t] = "IN_PROGRESS" ->
            IF \E s \in Sessions : Holds(s, t) /\ phase[s] = "active"
              THEN "active" ELSE "preparing"
      [] OTHER -> "settled"

Lease == INSTANCE TaskLease WITH
    stage <- [t \in Tasks |-> Stage(t)],
    holder <- [t \in Tasks |-> IF status[t] = "IN_PROGRESS" THEN assigned[t] ELSE None],
    epoch <- epoch

\* Every step of the claim protocol is a step of TaskLease or leaves the lease
\* alone.
LeaseSpec == Lease!Spec
=============================================================================
