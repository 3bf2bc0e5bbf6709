------------------------------ MODULE ClaimEnd ------------------------------
(***************************************************************************)
(* Every way a claim ends that is not its own preparation: the close       *)
(* command, the session reconciler's sweeps, pool teardown, the operator's *)
(* stop, and a daemon restart.                                             *)
(***************************************************************************)
EXTENDS ClaimState

CONSTANTS
    Requeues,       \* a failing close may still have retries (READY, "retry")
    Reopens,        \* an operator may reopen a settled task
    Blockable,      \* tasks whose prerequisites may change while they are held
    MarkersLost,    \* slots an agent may delete the claim file of
    Restarts        \* the daemon may restart

ASSUME EndAssumption ==
    /\ {Requeues, Reopens, Restarts} \subseteq BOOLEAN
    /\ Blockable \subseteq Tasks /\ MarkersLost \subseteq Workspaces

-----------------------------------------------------------------------------
\* The close command: three commits with awaits between them

Verdicts == {"COMPLETED", "BLOCKED"} \cup (IF Requeues THEN {"READY"} ELSE {})

\* complete_session_task: the task moves, the session still holds it.  The
\* epoch the agent closes with is the one in its claim file.  An attached writer
\* is handed off, or its unproven handoff keeps the claim for good.
CloseTransition(s, t, st) ==
    LET w == slotOf[s]
        draft == [task |-> t, epoch |-> epoch[t], status |-> st, stage |-> "accepted"]
        accepted == [closing EXCEPT ![s] = draft]
    IN  /\ Live(s) /\ held[s] = t /\ phase[s] = "active"
        /\ status[t] = "IN_PROGRESS" /\ assigned[t] # None
        /\ Names(w, t, epoch[t])
        /\ ~ControlHeld(t) /\ closing[s] = None
        /\ status' = [status EXCEPT ![t] = st]
        /\ assigned' = [assigned EXCEPT ![t] = None]
        /\ \/ /\ owner' = [owner EXCEPT ![t] = IF @ = s THEN None ELSE @]
              /\ closing' = accepted
           \/ /\ owner[t] = s
              /\ UNCHANGED <<owner, closing>>
        /\ UNCHANGED <<epoch, blocked, attempts, sessionVars, launchVars, agentVars,
                       lockVars, enabled, marker, jobs, stopping>>

\* The completion record is saved and the accepted-close draft discarded.
CloseRecord(s) ==
    /\ closing[s] # None /\ closing[s].stage = "accepted"
    /\ closing' = [closing EXCEPT ![s].stage = "recorded"]
    /\ UNCHANGED <<taskVars, owner, sessionVars, launchVars, agentVars, lockVars,
                   enabled, marker, jobs, stopping>>

\* Mutant: the release names no task and no epoch.
CloseUnfenced(s, c) == TRUE

\* The release's expected_task_id and expected_claim_epoch.
CloseStill(s, c) == held[s] = c.task /\ leased[s] = c.epoch

\* release_claim(result status, expected task and epoch), then the claim file.
CloseRelease(s) ==
    LET c == closing[s]
        w == slotOf[s]
        release == CloseStill(s, c) /\ Releasable(s, c.status, NoFence)
    IN  /\ c # None /\ c.stage = "recorded" /\ ~RowLocked(s)
        /\ IF release
             THEN Release(s, c.status, NoFence, [Ordinary EXCEPT !.drain = FreshContext])
             ELSE UNCHANGED <<taskVars, sessionVars, launchVars, agentVars, lockVars>>
        /\ marker' = MarkerWithout(w,
              (release \/ held[s] # c.task) /\ Names(w, c.task, c.epoch))
        /\ closing' = [closing EXCEPT ![s] = None]
        /\ UNCHANGED <<owner, enabled, jobs, stopping>>

-----------------------------------------------------------------------------
\* The session reconciler

\* Mutant: only COMPLETED counts as closed.
StillOpenButCompleted(t) == status[t] # "COMPLETED"

\* is_live_pool_claim_task_status
StillOpen(t) == status[t] = "IN_PROGRESS"

\* A live pool session whose task is closed: free the hold, keep the process.
OrphanSweep(s) ==
    LET t == held[s]
        w == slotOf[s]
        f == Fence(status[t], None)
    IN  /\ Live(s) /\ t # None /\ ~RowLocked(s)
        /\ ~StillOpen(t)
        /\ Releasable(s, status[t], f)
        /\ Release(s, status[t], f, [Ordinary EXCEPT !.drain = FreshContext])
        /\ marker' = MarkerWithout(w, marker[w] # None /\ marker[w].task = t)
        /\ UNCHANGED <<owner, enabled, memoryVars>>

\* Mutant: draining sessions are left to the drain.
AbandonedRunning(s) ==
    /\ desired[s] = "running"
    /\ \A j \in jobs :
          j.session = s /\ j.task = held[s] /\ j.epoch = leased[s] => j.resumed

\* The registry had no preparation for this claim when the reconciler asked: it has
\* none now, or one that was entered since.
Abandoned(s) ==
    \A j \in jobs : j.session = s /\ j.task = held[s] /\ j.epoch = leased[s] => j.resumed

\* Mutant: the release trusts the row the reconciler has read.
ReadExpired(s) == held[s] # None

\* preparation_expired_before: the phase is checked again under the row lock.  The
\* expected task and epoch are those of the row that was read.
StillExpired(s) == phase[s] = "preparing"

\* The reconciler reads the rows in preparation, asks the registry about each and
\* releases, with awaits in between.  Every claim was in preparation once, so a row
\* with this task and epoch was read before; the release finds what it has become.
PrepareTimeout(s) ==
    /\ Abandoned(s) /\ StillExpired(s)
    /\ Releasable(s, "READY", NoFence)
    /\ Release(s, "READY", NoFence, [Ordinary EXCEPT !.backoff = TRUE])
    /\ UNCHANGED <<owner, enabled, marker, memoryVars>>

\* release_displaced_pool_claim: the task is somebody else's by now.
DrainDisplaced(s) ==
    LET t == held[s]
        a == agentOf[s]
        gone == assigned[t] # a
    IN  /\ desired[s] = "stopped" /\ t # None /\ ~RowLocked(s) /\ ~Vetoed(s)
        /\ gone \/ (leased[s] # 0 /\ epoch[t] # leased[s])
        /\ held' = [held EXCEPT ![s] = None]
        /\ phase' = [phase EXCEPT ![s] = None]
        /\ IF gone
             THEN /\ astate' = [astate EXCEPT ![a] = IF current[a] = t THEN "IDLE" ELSE @]
                  /\ current' = [current EXCEPT ![a] = IF @ = t THEN None ELSE @]
                  /\ lockTask' = [w \in Workspaces |->
                        IF lockAgent[w] = a /\ lockTask[w] = t THEN None ELSE lockTask[w]]
             ELSE UNCHANGED <<agentVars, lockTask>>
        /\ UNCHANGED <<taskVars, owner, sstate, desired, leased, claims, launchVars,
                       lockAgent, enabled, marker, memoryVars>>

\* Pool scale-down or an operator asks the session to stop after its task.
RequestDrain(s) ==
    /\ Live(s) /\ desired[s] = "running" /\ ~RowLocked(s)
    /\ desired' = [desired EXCEPT ![s] = "stopped"]
    /\ UNCHANGED <<taskVars, owner, sstate, held, phase, leased, claims, launchVars,
                   agentVars, lockVars, enabled, marker, memoryVars>>

-----------------------------------------------------------------------------
\* Pool teardown: retire the agent, stop the process, release, clean up

MarkerLost(s) ==
    LET t == held[s]
    IN  /\ phase[s] = "active" /\ marker[slotOf[s]] = None
        /\ t # None /\ status[t] = "IN_PROGRESS"
        /\ epoch[t] = leased[s] /\ assigned[t] = agentOf[s]
        /\ ~ControlHeld(t) /\ ~LiveJob(s, t, leased[s])

TermBegin(s, lost) ==
    /\ Live(s) /\ stopping[s] = None /\ ~RowLocked(s)
    /\ lost => MarkerLost(s)
    /\ desired' = [desired EXCEPT ![s] = "stopped"]
    /\ astate' = [astate EXCEPT ![agentOf[s]] = IF OtherLive(s) THEN @ ELSE "RETIRED"]
    /\ stopping' = [stopping EXCEPT ![s] =
          [task |-> held[s], epoch |-> leased[s], lost |-> lost, stage |-> "stopping"]]
    /\ UNCHANGED <<taskVars, owner, sstate, held, phase, leased, claims, launchVars,
                   current, lockVars, enabled, marker, jobs, closing>>

\* provider.stop did not confirm: every resource is retained.
TermUnconfirmed(s) ==
    /\ stopping[s] # None /\ stopping[s].stage = "stopping"
    /\ stopping' = [stopping EXCEPT ![s] = None]
    /\ UNCHANGED <<taskVars, owner, sessionVars, launchVars, agentVars, lockVars,
                   enabled, marker, jobs, closing>>

\* Mutant: an agent that is pinned to the session's own task counts as taken.
StillOwnedUnpinned(s) == ~OtherLive(s) /\ current[agentOf[s]] = None

StillOwned(s) == ~OtherLive(s) /\ current[agentOf[s]] \in {None, stopping[s].task}

\* The process is gone: release claim, workspaces and agent in one transaction.
TermRelease(s) ==
    LET f == IF stopping[s].lost THEN Fence("IN_PROGRESS", None) ELSE NoFence
    IN  /\ stopping[s] # None /\ stopping[s].stage = "stopping" /\ ~RowLocked(s)
        /\ \/ /\ StillOwned(s) /\ Releasable(s, "READY", f)
              /\ Release(s, "READY", f,
                    [drain |-> FALSE, backoff |-> stopping[s].lost,
                     unlock |-> TRUE, retire |-> TRUE])
              /\ stopping' = [stopping EXCEPT ![s].stage = "released"]
              /\ UNCHANGED sstate
           \/ /\ ~(StillOwned(s) /\ Releasable(s, "READY", f))
              /\ sstate' = [sstate EXCEPT ![s] = "stopped"]
              /\ stopping' = [stopping EXCEPT ![s] = None]
              /\ UNCHANGED <<taskVars, desired, held, phase, leased, claims, launchVars,
                             agentVars, lockVars>>
        /\ UNCHANGED <<owner, enabled, marker, jobs, closing>>

\* Claim file, session row, agent row: three commits taken as one step, between
\* which only a retired agent could be seen.
TermFinish(s) ==
    LET c == stopping[s]
        w == slotOf[s]
    IN  /\ c # None /\ c.stage = "released"
        /\ marker' = MarkerWithout(w,
              ~c.lost \/ (c.task # None /\ OwnMarker(w, c.task, c.epoch, s)))
        /\ sstate' = [sstate EXCEPT ![s] = "stopped"]
        /\ astate' = [astate EXCEPT ![agentOf[s]] = "IDLE"]
        /\ current' = [current EXCEPT ![agentOf[s]] = None]
        /\ stopping' = [stopping EXCEPT ![s] = None]
        /\ UNCHANGED <<taskVars, owner, desired, held, phase, leased, claims, launchVars,
                       lockVars, enabled, jobs, closing>>

-----------------------------------------------------------------------------
\* The operator, the task-side recovery sweep, and the environment

\* aq task stop: every session naming the task is stopped and unbound first.
\* An attached writer's handoff is proven before anything is touched; the stop of
\* a task whose attached writer is already gone is refused here and left to the
\* owner-recovery sweep.
StopTask(t) ==
    LET bound == {s \in Sessions : Live(s) /\ held[s] = t}
        named(w) == /\ \E s \in bound : slotOf[s] = w
                    /\ Names(w, t, epoch[t])
        a == assigned[t]
        unprepared == t \in Managed /\ \E s \in bound :
                         phase[s] = "preparing" /\ Holds(s, t) /\ agentOf[s] = a
    IN  /\ status[t] = "IN_PROGRESS" /\ ~ControlHeld(t)
        /\ owner[t] # None => Live(owner[t])
        /\ \A s \in bound : ~RowLocked(s) /\ stopping[s] = None
        /\ status' = [status EXCEPT ![t] = IF unprepared THEN "READY" ELSE "BLOCKED"]
        /\ assigned' = [assigned EXCEPT ![t] = None]
        /\ owner' = [owner EXCEPT ![t] = None]
        /\ sstate' = [s \in Sessions |-> IF s \in bound THEN "stopped" ELSE sstate[s]]
        /\ desired' = [s \in Sessions |-> IF s \in bound THEN "stopped" ELSE desired[s]]
        /\ held' = [s \in Sessions |-> IF s \in bound THEN None ELSE held[s]]
        /\ phase' = [s \in Sessions |-> IF s \in bound THEN None ELSE phase[s]]
        /\ marker' = [w \in Workspaces |-> IF named(w) THEN None ELSE marker[w]]
        /\ lockAgent' = [w \in Workspaces |-> IF lockTask[w] = t THEN None ELSE lockAgent[w]]
        /\ lockTask' = [w \in Workspaces |-> IF lockTask[w] = t THEN None ELSE lockTask[w]]
        /\ astate' = [b \in Agents |-> IF b = a THEN "IDLE" ELSE astate[b]]
        /\ current' = [b \in Agents |-> IF b = a THEN None ELSE current[b]]
        /\ UNCHANGED <<epoch, blocked, attempts, leased, claims, launchVars, enabled,
                       memoryVars>>

\* recover_missing_session_task: an IN_PROGRESS task no session names any more.
Orphaned(t) ==
    /\ status[t] = "IN_PROGRESS" /\ assigned[t] # None /\ ~blocked[t]
    /\ owner[t] = None
    /\ \A s \in Sessions : held[s] # t /\ ~(Live(s) /\ agentOf[s] = assigned[t])
    /\ \A w \in Workspaces : lockTask[w] = t =>
          /\ lockAgent[w] \in {None, assigned[t]}
          /\ \A s \in Sessions : slotOf[s] = w => ~Live(s)
          /\ \A u \in Tasks : owner[u] # None => slotOf[owner[u]] # w
    /\ \A s \in Sessions :
          agentOf[s] = assigned[t] => sstate[s] = "stopped" /\ desired[s] = "stopped"

RecoverMissing(t, st) ==
    LET a == assigned[t]
    IN  /\ Orphaned(t) /\ st \in {"READY", "FAILED"}
        /\ status' = [status EXCEPT ![t] = st]
        /\ assigned' = [assigned EXCEPT ![t] = None]
        /\ lockAgent' = [w \in Workspaces |-> IF lockTask[w] = t THEN None ELSE lockAgent[w]]
        /\ lockTask' = [w \in Workspaces |-> IF lockTask[w] = t THEN None ELSE lockTask[w]]
        /\ astate' = [astate EXCEPT ![a] =
              IF current[a] = t /\ @ = "BUSY" THEN "IDLE" ELSE @]
        /\ current' = [current EXCEPT ![a] = IF @ = t THEN None ELSE @]
        /\ UNCHANGED <<epoch, blocked, attempts, owner, sessionVars, launchVars, enabled,
                       marker, memoryVars>>

\* reopen_with_feedback, task resume: refused only for an IN_PROGRESS task, and
\* an attached writer must have let go.
OperatorReopen(t) ==
    /\ Reopens
    /\ status[t] \in {"COMPLETED", "BLOCKED", "FAILED"} /\ owner[t] = None
    /\ status' = [status EXCEPT ![t] = "READY"]
    /\ assigned' = [assigned EXCEPT ![t] = None]
    /\ UNCHANGED <<epoch, blocked, attempts, owner, sessionVars, launchVars, agentVars,
                   lockVars, enabled, marker, memoryVars>>

\* A prerequisite is reopened, or completes: tasks.is_blocked follows it.
DependencyFlip(t) ==
    /\ t \in Blockable
    /\ blocked' = [blocked EXCEPT ![t] = ~@]
    /\ UNCHANGED <<status, epoch, assigned, attempts, owner, sessionVars, launchVars,
                   agentVars, lockVars, enabled, marker, memoryVars>>

\* The owner-recovery sweep: the attached writer is provably gone, so its owner
\* row, its slot and the claim it still holds are released together.
OwnerRecovered(t) ==
    LET s == owner[t]
        w == slotOf[s]
        target == IF status[t] = "IN_PROGRESS" THEN "READY" ELSE status[t]
        f == IF target = "READY" THEN NoFence ELSE Fence(status[t], leased[s])
        release == phase[s] # None /\ held[s] = t /\ ~OtherLive(s) /\ Fits(s, target, f)
        free == lockTask[w] = t \/ (lockAgent[w] = agentOf[s] /\ ~OtherLive(s))
    IN  /\ s # None /\ ~Live(s) /\ ~RowLocked(s)
        /\ \A o \in Sessions : Live(o) => held[o] # t
        /\ owner' = [owner EXCEPT ![t] = None]
        /\ IF release
             THEN Release(s, target, f, [Ordinary EXCEPT !.unlock = TRUE])
             ELSE /\ lockTask' = [lockTask EXCEPT ![w] = IF free THEN None ELSE @]
                  /\ lockAgent' = [lockAgent EXCEPT ![w] = IF free THEN None ELSE @]
                  /\ UNCHANGED <<taskVars, sessionVars, launchVars, agentVars>>
        /\ UNCHANGED <<enabled, marker, memoryVars>>

\* git clean, a stray rm: the claim file is a file in the agent's checkout.
LoseMarker(w) ==
    /\ w \in MarkersLost /\ marker[w] # None
    /\ marker' = [marker EXCEPT ![w] = None]
    /\ UNCHANGED <<taskVars, owner, sessionVars, launchVars, agentVars, lockVars, enabled,
                   memoryVars>>

\* Coroutines, registries and transactions are gone; rows and files stay.
DaemonRestart ==
    /\ Restarts
    /\ jobs # {} \/ \E s \in Sessions : closing[s] # None \/ stopping[s] # None
    /\ jobs' = {}
    /\ closing' = [s \in Sessions |-> None]
    /\ stopping' = [s \in Sessions |-> None]
    /\ UNCHANGED <<taskVars, owner, sessionVars, launchVars, agentVars, lockVars, enabled,
                   marker>>
=============================================================================
