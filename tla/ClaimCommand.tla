---------------------------- MODULE ClaimCommand ----------------------------
(***************************************************************************)
(* How a pool session gets a task: the launch that binds it to an agent    *)
(* row and a workspace slot, and the claim command with its three ways of  *)
(* answering a session that already has a binding.                         *)
(***************************************************************************)
EXTENDS ClaimState

-----------------------------------------------------------------------------
\* Launch: reserve an idle agent, lock a slot to it, publish the session row.

Reservable(a) ==
    /\ astate[a] = "IDLE" /\ current[a] = None
    /\ \A s \in Sessions : Live(s) => agentOf[s] # a
    /\ \A t \in Tasks : assigned[t] = a => status[t] # "IN_PROGRESS"
    /\ \A w \in Workspaces : lockAgent[w] # a

\* Mutant: the slot's agent lock is not checked.
AcquirableLocked(w) ==
    /\ enabled[w] /\ lockTask[w] = None
    /\ \A t \in Tasks : owner[t] # None => slotOf[owner[t]] # w

\* unattached_workspace(): no attached owner row names the slot.
Acquirable(w) ==
    /\ enabled[w] /\ lockAgent[w] = None /\ lockTask[w] = None
    /\ \A t \in Tasks : owner[t] # None => slotOf[owner[t]] # w

Launch(s, a, w) ==
    /\ sstate[s] = "absent"
    /\ Reservable(a)
    /\ Acquirable(w)
    /\ sstate' = [sstate EXCEPT ![s] = "running"]
    /\ agentOf' = [agentOf EXCEPT ![s] = a]
    /\ slotOf' = [slotOf EXCEPT ![s] = w]
    /\ lockAgent' = [lockAgent EXCEPT ![w] = a]
    /\ UNCHANGED <<taskVars, owner, desired, held, phase, leased, claims,
                   agentVars, lockTask, enabled, marker, memoryVars>>

-----------------------------------------------------------------------------
\* The claim command

\* take_claim_slot's compare-and-swap.
SlotFree(s) ==
    /\ Live(s) /\ desired[s] = "running"
    /\ held[s] = None /\ phase[s] = None
    /\ claims[s] < ClaimCap
    /\ ~RowLocked(s)

\* Mutant: the frontier also offers tasks that were settled as BLOCKED.
ClaimableSettled(t) ==
    status[t] \in {"READY", "BLOCKED"} /\ ~blocked[t] /\ assigned[t] = None

\* The claim frontier, and take_task's fence on the task and agent rows.
Claimable(t) == status[t] = "READY" /\ ~blocked[t] /\ assigned[t] = None
AgentFree(a) == astate[a] = "IDLE" /\ current[a] = None

Queue(s, t, e, resumed) ==
    jobs' = jobs \cup {[session |-> s, task |-> t, epoch |-> e, step |-> "queued",
                        resumed |-> resumed]}

\* Mutant: a claim does not advance the epoch.
NextEpochUnchanged(t) == epoch[t]

NextEpoch(t) == epoch[t] + 1

\* take_claim_slot, take_task and record_holder in one transaction; the
\* preparation is started right after it commits.
ClaimTask(s, t) ==
    LET a == agentOf[s]
        w == slotOf[s]
    IN  /\ SlotFree(s) /\ enabled[w]
        /\ Claimable(t) /\ AgentFree(a)
        /\ epoch[t] < MaxEpoch
        /\ status' = [status EXCEPT ![t] = "IN_PROGRESS"]
        /\ assigned' = [assigned EXCEPT ![t] = a]
        /\ epoch' = [epoch EXCEPT ![t] = NextEpoch(t)]
        /\ astate' = [astate EXCEPT ![a] = "BUSY"]
        /\ current' = [current EXCEPT ![a] = t]
        /\ held' = [held EXCEPT ![s] = t]
        /\ phase' = [phase EXCEPT ![s] = "preparing"]
        /\ leased' = [leased EXCEPT ![s] = NextEpoch(t)]
        /\ lockTask' = [lockTask EXCEPT ![w] =
              IF lockAgent[w] = a /\ @ \in {None, t} THEN t ELSE @]
        /\ Queue(s, t, NextEpoch(t), FALSE)
        /\ UNCHANGED <<blocked, attempts, owner, sstate, desired, claims, launchVars,
                       lockAgent, enabled, marker, closing, stopping>>

\* A session whose slot was retired finishes its held task, then drains.
ClaimOnRetiredSlot(s) ==
    /\ SlotFree(s) /\ ~enabled[slotOf[s]]
    /\ desired' = [desired EXCEPT ![s] = "stopped"]
    /\ UNCHANGED <<taskVars, owner, sstate, held, phase, leased, claims, launchVars,
                   agentVars, lockVars, enabled, marker, memoryVars>>

\* With a fresh context per task, a session that has spent its budget is drained.
ClaimExhausted(s) ==
    /\ FreshContext /\ Live(s) /\ desired[s] = "running"
    /\ held[s] = None /\ phase[s] = None
    /\ claims[s] >= ClaimCap /\ ~RowLocked(s)
    /\ desired' = [desired EXCEPT ![s] = "stopped"]
    /\ UNCHANGED <<taskVars, owner, sstate, held, phase, leased, claims, launchVars,
                   agentVars, lockVars, enabled, marker, memoryVars>>

\* A preparing session claims again with no live preparation (daemon restart,
\* retained failure): the same held preparation, at the task's current epoch.
ResumePreparation(s, t) ==
    /\ Live(s) /\ held[s] = t /\ phase[s] = "preparing"
    /\ ~LiveJob(s, t, epoch[t])
    /\ Queue(s, t, epoch[t], TRUE)
    /\ UNCHANGED <<taskVars, owner, sessionVars, launchVars, agentVars, lockVars,
                   enabled, marker, closing, stopping>>

\* An active session claims again and its task is no longer IN_PROGRESS under it.
StaleBinding(s, t) ==
    /\ Live(s) /\ held[s] = t /\ phase[s] = "active"
    /\ status[t] # "IN_PROGRESS" \/ assigned[t] # agentOf[s]

\* accepted_close_in_flight: this session's close of this epoch, draft pending.
CloseInFlight(s, t) ==
    /\ closing[s] # None /\ closing[s].stage = "accepted"
    /\ closing[s].task = t /\ closing[s].epoch = epoch[t]

RecoverStaleBinding(s, t) ==
    LET f == Fence(status[t], epoch[t])
        elsewhere == status[t] = "IN_PROGRESS" /\ assigned[t] \notin {None, agentOf[s]}
        release == ~elsewhere /\ ~Vetoed(s)
    IN  /\ StaleBinding(s, t) /\ ~RowLocked(s)
        /\ status[t] = "IN_PROGRESS" \/ ~CloseInFlight(s, t)
        /\ \/ /\ release
              /\ Release(s, status[t], f, Ordinary)
              /\ marker' = MarkerWithout(slotOf[s], Names(slotOf[s], t, epoch[t]))
              /\ UNCHANGED owner
           \/ /\ ~release
              /\ desired' = [desired EXCEPT ![s] = "stopped"]
              /\ UNCHANGED <<taskVars, owner, sstate, held, phase, leased, claims,
                             launchVars, agentVars, lockVars, marker>>
        /\ UNCHANGED <<enabled, memoryVars>>
=============================================================================
