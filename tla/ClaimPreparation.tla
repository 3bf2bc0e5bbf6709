-------------------------- MODULE ClaimPreparation --------------------------
(***************************************************************************)
(* The background job that prepares a claimed slot: fence, owner lease,    *)
(* workspace proof, slot reset, claim file, activation, and every way it   *)
(* fails.  A job is one entry of orchestrator.claim_preparations and its   *)
(* "step" is how far the coroutine has come.                               *)
(***************************************************************************)
EXTENDS ClaimState

CONSTANT
    Quarantines     \* a slot reset may fail in a way that condemns the slot

ASSUME QuarantineAssumption == Quarantines \in BOOLEAN

Advance(j, step) == jobs' = (jobs \ {j}) \cup {[j EXCEPT !.step = step]}

\* Mutant: a finished job stays registered.
FinishRegistered(j) == jobs' = jobs

Finish(j) == jobs' = jobs \ {j}

\* What a step that only moves the job leaves alone.
tableVars == <<taskVars, owner, sessionVars, launchVars, agentVars, lockVars, enabled>>
closeVars == <<closing, stopping>>

-----------------------------------------------------------------------------
\* claim_preparation_state, under the task control lock

JobFence(j) ==
    LET fits == /\ status[j.task] = "IN_PROGRESS" /\ epoch[j.task] = j.epoch
                /\ held[j.session] = j.task /\ phase[j.session] = "preparing"
                /\ desired[j.session] = "running" /\ Live(j.session)
    IN  /\ j.step = "queued" /\ ~ControlHeld(j.task)
        /\ IF fits THEN Advance(j, "fenced") ELSE Finish(j)
        /\ UNCHANGED <<tableVars, marker, closeVars>>

-----------------------------------------------------------------------------
\* check_checkout: whose claim file is in the slot?

\* The session's own marker of an earlier epoch of this task.
Superseded(m, j) == m.task = j.task /\ m.session = j.session /\ m.epoch < j.epoch

\* retire_stale_slot_claim: the marker's holder provably let go.
Stale(m, j) ==
    LET w == slotOf[j.session]
    IN  /\ lockTask[w] \in {None, j.task}
        /\ epoch[m.task] > m.epoch \/ (m.task # j.task /\ status[m.task] # "IN_PROGRESS")
        /\ ~ /\ m.session # j.session /\ Live(m.session)
             /\ held[m.session] = m.task /\ leased[m.session] = m.epoch
        /\ \A o \in Sessions \ {j.session} : Live(o) => slotOf[o] # w

Retirable(j) ==
    LET m == marker[slotOf[j.session]]
    IN  m # None /\ ~OwnMarker(slotOf[j.session], j.task, j.epoch, j.session)
        /\ (Superseded(m, j) \/ Stale(m, j))

ForeignMarker(j) ==
    LET w == slotOf[j.session]
    IN  marker[w] # None /\ ~OwnMarker(w, j.task, j.epoch, j.session) /\ ~Retirable(j)

\* The integration owner row is reserved for this task, or already this session's.
JobAttach(j) ==
    LET t == j.task
        s == j.session
    IN  /\ j.step = "fenced" /\ t \in Managed /\ owner[t] # s
        /\ \/ /\ Proof(s, t, j.epoch) /\ ~ForeignMarker(j) /\ owner[t] = None
              /\ owner' = [owner EXCEPT ![t] = s]
              /\ marker' = MarkerWithout(slotOf[s], Retirable(j))
              /\ UNCHANGED jobs
           \/ /\ Proof(s, t, j.epoch) /\ ForeignMarker(j)
              /\ Advance(j, "foreign")
              /\ UNCHANGED <<owner, marker>>
           \/ /\ ~Proof(s, t, j.epoch) \/ (owner[t] # None /\ ~ForeignMarker(j))
              /\ Advance(j, "failed")
              /\ UNCHANGED <<owner, marker>>
        /\ UNCHANGED <<taskVars, sessionVars, launchVars, agentVars, lockVars,
                       enabled, closeVars>>

\* lock_claim_workspace_proof: from here the session row stays locked.
JobProve(j) ==
    LET s == j.session
        proof == Proof(s, j.task, j.epoch)
    IN  /\ j.step = "fenced" /\ (j.task \in Managed => owner[j.task] = s)
        /\ ~RowLocked(s)
        /\ \/ /\ proof /\ ~ForeignMarker(j)
              /\ Advance(j, "proved")
              /\ marker' = MarkerWithout(slotOf[s], Retirable(j))
           \/ /\ proof /\ ForeignMarker(j)
              /\ Advance(j, "foreign")
              /\ UNCHANGED marker
           \/ /\ ~proof
              /\ Advance(j, "failed")
              /\ UNCHANGED marker
        /\ UNCHANGED <<tableVars, closeVars>>

\* reset_slot_for_task succeeded; write_claim_file.
JobMark(j) ==
    /\ j.step = "proved"
    /\ Advance(j, "marked")
    /\ marker' = [marker EXCEPT ![slotOf[j.session]] =
                    [task |-> j.task, epoch |-> j.epoch, session |-> j.session]]
    /\ UNCHANGED <<tableVars, closeVars>>

\* Mutant: the task row is not read again.
TaskAssumedOurs(j) == TRUE

\* activate_claim re-reads the task row under its stronger lock.
TaskStillOurs(j) ==
    /\ status[j.task] = "IN_PROGRESS" /\ epoch[j.task] = j.epoch
    /\ assigned[j.task] = agentOf[j.session]

JobActivate(j) ==
    LET s == j.session
        t == j.task
    IN  /\ j.step = "marked" /\ TaskStillOurs(j) /\ ~blocked[t]
        /\ phase' = [phase EXCEPT ![s] = "active"]
        /\ claims' = [claims EXCEPT ![s] = @ + 1]
        /\ leased' = [leased EXCEPT ![s] = j.epoch]
        /\ attempts' = [attempts EXCEPT ![t] = 0]
        /\ Finish(j)
        /\ UNCHANGED <<status, epoch, assigned, blocked, owner, sstate, desired, held,
                       launchVars, agentVars, lockVars, enabled, marker, closeVars>>

\* OrdinaryAdmissionChanged: prerequisites changed while the slot was reset.
JobFoundBlocked(j) ==
    /\ j.step = "marked" /\ TaskStillOurs(j) /\ blocked[j.task]
    /\ Advance(j, "rechecked")
    /\ UNCHANGED <<tableVars, marker, closeVars>>

\* "released before activation": only the claim file is cleaned up.
JobFoundReleased(j) ==
    /\ j.step = "marked" /\ ~TaskStillOurs(j)
    /\ Finish(j)
    /\ marker' = MarkerWithout(slotOf[j.session],
                     OwnMarker(slotOf[j.session], j.task, j.epoch, j.session))
    /\ UNCHANGED <<tableVars, closeVars>>

-----------------------------------------------------------------------------
\* Failures

\* Any exception of the reset, the claim file or Git; SQL has rolled back.
JobError(j) ==
    /\ j.step \in {"fenced", "proved", "marked"}
    /\ Advance(j, "failed")
    /\ UNCHANGED <<tableVars, marker, closeVars>>

\* A retryable error outlived its budget: the claim stays held for a re-entry.
JobRetain(j) ==
    /\ j.step \in {"fenced", "proved", "marked"}
    /\ Finish(j)
    /\ UNCHANGED <<tableVars, marker, closeVars>>

\* The handler first checks that the claim has not been superseded.
JobCheck(j) ==
    LET s == j.session
        ours == /\ held[s] = j.task /\ leased[s] = j.epoch
                /\ epoch[j.task] = j.epoch /\ assigned[j.task] = agentOf[s]
    IN  /\ j.step \in {"failed", "foreign"}
        /\ IF ours
             THEN Advance(j, IF j.step = "failed" THEN "releasing" ELSE "evicting")
             ELSE Finish(j)
        /\ UNCHANGED <<tableVars, marker, closeVars>>

\* expected_task_id, expected_claim_epoch: fenced on the session row.
SessionStill(j) == held[j.session] = j.task /\ leased[j.session] = j.epoch

ReleaseOrSkip(j, target, fence, opt) ==
    IF SessionStill(j) /\ Releasable(j.session, target, fence)
      THEN Release(j.session, target, fence, opt)
      ELSE UNCHANGED <<status, epoch, assigned, blocked, attempts, sessionVars,
                       launchVars, agentVars, lockVars>>

\* What the ordinary ladder asks for: BLOCKED at the attempt that exhausts it.
LadderTarget(t) == IF attempts[t] + 1 >= PrepareLimit THEN "BLOCKED" ELSE "READY"

\* Every other release of the failure handler: what the task becomes and whether
\* it counts as an attempt.  A detached writer and a busy branch are waits; a
\* conflict with the child's own commits blocks the task at once.
FailureOutcomes(j) ==
    LET outcome(target, backoff) == [target |-> target, backoff |-> backoff]
    IN  IF j.step = "detached" THEN {outcome("READY", TRUE)}
        ELSE {outcome(LadderTarget(j.task), TRUE), outcome("BLOCKED", FALSE)}
             \cup {outcome("READY", b) : b \in IF j.task \in Managed THEN BOOLEAN ELSE {}}

OwnMarkerGone(j) ==
    marker' = MarkerWithout(slotOf[j.session],
                  OwnMarker(slotOf[j.session], j.task, j.epoch, j.session))

\* The interrupted job reads its claim again before it lets go of anything.
StillPreparing(j) == SessionStill(j) /\ phase[j.session] = "preparing"

\* An attached writer is detached before its claim is released ...
JobDetach(j) ==
    /\ j.step = "releasing" \/ (j.step = "interrupted" /\ StillPreparing(j))
    /\ owner[j.task] = j.session
    /\ owner' = [owner EXCEPT ![j.task] = None]
    /\ IF j.step = "releasing" THEN Advance(j, "detached") /\ OwnMarkerGone(j)
                               ELSE UNCHANGED <<jobs, marker>>
    /\ UNCHANGED <<taskVars, sessionVars, launchVars, agentVars, lockVars,
                   enabled, closeVars>>

\* ... and an unprovable handoff retains every binding.
JobRetainAttached(j) ==
    /\ j.step = "releasing" /\ owner[j.task] = j.session
    /\ OwnMarkerGone(j) /\ Finish(j)
    /\ UNCHANGED <<tableVars, closeVars>>

Failing(j) ==
    /\ j.step = "detached" \/ (j.step = "releasing" /\ owner[j.task] # j.session)
    /\ ~RowLocked(j.session)

\* The ordinary release; a failed claim-file write also drains the session.
JobRelease(j) ==
    /\ Failing(j)
    /\ \E drain \in BOOLEAN, o \in FailureOutcomes(j) :
          ReleaseOrSkip(j, o.target, NoFence,
                        [Ordinary EXCEPT !.backoff = o.backoff, !.drain = drain])
    /\ OwnMarkerGone(j) /\ Finish(j)
    /\ UNCHANGED <<owner, enabled, closeVars>>

\* Mutant: a session that loses its slot is not drained.
CondemnedKept == [Ordinary EXCEPT !.backoff = TRUE, !.unlock = TRUE]

Condemned == [Ordinary EXCEPT !.backoff = TRUE, !.drain = TRUE, !.unlock = TRUE]

\* SlotSourceDisagreement or a contained slot fault: the agent lock goes back
\* first, the workspace is disabled by a later statement.
JobCondemnSlot(j) ==
    /\ Quarantines
    /\ Failing(j) /\ SessionStill(j)
    /\ Releasable(j.session, LadderTarget(j.task), NoFence)
    /\ Release(j.session, LadderTarget(j.task), NoFence, Condemned)
    /\ OwnMarkerGone(j) /\ Advance(j, "quarantining")
    /\ UNCHANGED <<enabled, closeVars, owner>>

JobDisableSlot(j) ==
    /\ j.step = "quarantining"
    /\ enabled' = [enabled EXCEPT ![slotOf[j.session]] = FALSE]
    /\ Finish(j)
    /\ UNCHANGED <<taskVars, owner, sessionVars, launchVars, agentVars, lockVars,
                   marker, closeVars>>

\* ForeignSlotClaim: disable the slot, hand the task back, keep the file.  The
\* release names no expected task or epoch.
JobEvict(j) ==
    /\ j.step = "evicting" /\ ~RowLocked(j.session)
    /\ enabled' = [enabled EXCEPT ![slotOf[j.session]] = FALSE]
    /\ IF Releasable(j.session, "READY", NoFence)
         THEN Release(j.session, "READY", NoFence, [Ordinary EXCEPT !.drain = TRUE])
         ELSE UNCHANGED <<taskVars, sessionVars, launchVars, agentVars, lockVars>>
    /\ Finish(j)
    /\ UNCHANGED <<marker, closeVars, owner>>

\* The admission recheck is the one preparation release fenced on the task row.
JobRecheckRelease(j) ==
    LET f == Fence("IN_PROGRESS", j.epoch)
        ok == SessionStill(j) /\ Releasable(j.session, "READY", f)
    IN  /\ j.step = "rechecked" /\ ~RowLocked(j.session)
        /\ ReleaseOrSkip(j, "READY", f, [Ordinary EXCEPT !.backoff = TRUE])
        /\ marker' = MarkerWithout(slotOf[j.session],
              ok /\ OwnMarker(slotOf[j.session], j.task, j.epoch, j.session))
        /\ Finish(j)
        /\ UNCHANGED <<owner, enabled, closeVars>>

\* The deadline or an operator abort cancels the job and unwinds its SQL.
JobInterrupt(j) ==
    /\ j.step \in {"queued", "fenced", "proved", "marked"}
    /\ Advance(j, "interrupted")
    /\ UNCHANGED <<tableVars, marker, closeVars>>

\* _settle_interrupted_preparation, no longer under the control lock.
JobSettle(j) ==
    LET free == StillPreparing(j) /\ owner[j.task] # j.session
        ok == free /\ Releasable(j.session, "READY", NoFence)
    IN  /\ j.step = "interrupted" /\ ~RowLocked(j.session)
        /\ IF ok THEN Release(j.session, "READY", NoFence,
                              [Ordinary EXCEPT !.backoff = TRUE])
                 ELSE UNCHANGED <<taskVars, sessionVars, launchVars, agentVars, lockVars>>
        /\ marker' = MarkerWithout(slotOf[j.session],
              ok /\ OwnMarker(slotOf[j.session], j.task, j.epoch, j.session))
        /\ Finish(j)
        /\ UNCHANGED <<owner, enabled, closeVars>>

JobStepOf(j) ==
    \/ JobFence(j) \/ JobAttach(j) \/ JobProve(j) \/ JobMark(j)
    \/ JobActivate(j) \/ JobFoundBlocked(j) \/ JobFoundReleased(j)
    \/ JobCheck(j) \/ JobDetach(j) \/ JobRetainAttached(j) \/ JobRelease(j)
    \/ JobCondemnSlot(j) \/ JobDisableSlot(j) \/ JobEvict(j)
    \/ JobRecheckRelease(j) \/ JobSettle(j)

JobFault(j) == JobError(j) \/ JobRetain(j) \/ JobInterrupt(j)
=============================================================================
