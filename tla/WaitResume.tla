----------------------------- MODULE WaitResume -----------------------------
(***************************************************************************)
(* From a queued continuation to the acknowledgement of its outcome.  The  *)
(* resume service reserves an agent, prepares a fresh checkout, bumps the  *)
(* claim epoch, binds the launch and starts one process; the process reads *)
(* its outcome from the prime and acknowledges it.  A launch that fails is *)
(* queued again within its budget, unless its process may still run.       *)
(***************************************************************************)
EXTENDS WaitState

\* What the resume side of a continuation leaves alone.
unmoved == <<sourceVars, listenerVars, registerVars, decision, stopped, saved, released, proofs, paused>>

Queue(t) ==
    /\ resume' = [resume EXCEPT ![t] = "queued"]
    /\ hold' = [hold EXCEPT ![t] = "none"]

Hold(t, reason) ==
    /\ resume' = [resume EXCEPT ![t] = "held"]
    /\ hold' = [hold EXCEPT ![t] = reason]

----------------------------------------------------------------------------
\* _reserve: a parked continuation whose old folder is released gets an agent.
Reserve(t) ==
    /\ control[t] = "free" /\ graph = Free
    /\ resume[t] = "queued" /\ status[t] = "RESUME_PENDING" /\ ~Pending(t)
    /\ t \in stopped /\ t \in saved /\ t \in released
    /\ resume' = [resume EXCEPT ![t] = "reserved"]
    /\ attempts' = [attempts EXCEPT ![t] = @ + 1]
    /\ control' = [control EXCEPT ![t] = "prepare"]
    /\ UNCHANGED <<unmoved, outcome, cleared, taskVars, hold, sess, record, procs, repairs, faults>>

\* A reservation that survived a crash or a failed preparation is used again.
ReserveAgain(t) ==
    /\ control[t] = "free" /\ graph = Free
    /\ resume[t] = "reserved" /\ status[t] = "RESUME_PENDING"
    /\ control' = [control EXCEPT ![t] = "prepare"]
    /\ UNCHANGED <<unmoved, outcome, cleared, taskVars, intentVars, launchVars, procs, repairs, faults>>

\* release_expired_grant: admission starts afresh.  Every reservation counts as
\* an attempt, so that attempts bounds this action too.
GrantExpires(t) ==
    /\ control[t] = "free" /\ graph = Free /\ attempts[t] <= LaunchBudget
    /\ resume[t] = "reserved" /\ status[t] = "RESUME_PENDING" /\ ~MayRun(t)
    /\ Queue(t)
    /\ UNCHANGED <<unmoved, outcome, cleared, taskVars, launchVars, control, procs, repairs, faults>>

\* The checkout cannot be prepared: no capacity, which spends no attempt; an
\* error worth another try on the same reservation; or a hold.
PrepareFails(t) ==
    /\ control[t] = "prepare" /\ graph = Free /\ Fault
    /\ control' = [control EXCEPT ![t] = "free"]
    /\ \/ Queue(t) /\ attempts' = [attempts EXCEPT ![t] = @ - 1]
       \/ UNCHANGED <<intentVars, attempts>>
       \/ Hold(t, "resume_workspace_failed") /\ UNCHANGED attempts
    /\ UNCHANGED <<unmoved, outcome, cleared, taskVars, sess, record, procs, repairs>>

----------------------------------------------------------------------------
\* bump_claim_epoch and bind_launch: the next writer's receipt, before it exists.
Launch(t) ==
    /\ control[t] = "prepare" /\ graph = Free
    /\ resume[t] = "reserved" /\ status[t] = "RESUME_PENDING"
    /\ epoch' = [epoch EXCEPT ![t] = @ + 1]
    /\ sess' = [sess EXCEPT ![t] = epoch[t] + 1]
    /\ record' = [record EXCEPT ![t] = "bound"]
    /\ resume' = [resume EXCEPT ![t] = "launching"]
    /\ control' = [control EXCEPT ![t] = "launch"]
    /\ UNCHANGED <<unmoved, outcome, cleared, status, hold, attempts, procs, repairs, faults>>

\* launch_session: the sessions row is written, then the process starts.
Spawn(t) ==
    /\ control[t] = "launch" /\ record[t] = "bound"
    /\ record' = [record EXCEPT ![t] = "starting"]
    /\ procs' = [procs EXCEPT ![t] = @ \cup {sess[t]}]
    /\ UNCHANGED <<unmoved, outcome, cleared, taskVars, intentVars, attempts, sess, control,
                   repairs, faults>>

\* The row is published as running.
Up(t) ==
    /\ control[t] = "launch" /\ record[t] = "starting" /\ sess[t] \in procs[t]
    /\ record' = [record EXCEPT ![t] = "running"]
    /\ control' = [control EXCEPT ![t] = "free"]
    /\ UNCHANGED <<unmoved, outcome, cleared, taskVars, intentVars, attempts, sess, procs,
                   repairs, faults>>

\* Mutant: what the session's row says is not looked at.
FailAnyway(t, rec) ==
    /\ control' = [control EXCEPT ![t] = "free"]
    /\ IF attempts[t] >= LaunchBudget
       THEN Hold(t, "resume_launch_failed") /\ record' = [record EXCEPT ![t] = rec]
                                            /\ UNCHANGED sess
       ELSE /\ Queue(t)
            /\ sess' = [sess EXCEPT ![t] = 0] /\ record' = [record EXCEPT ![t] = "none"]

\* failed(): rec is what the session's row says.  A session that is not known
\* to be stopped keeps its place under a hold; a launch within the budget is
\* queued again.  The outcome may have been acknowledged before the launch
\* returned: then there is nothing left to take back.
Fail(t, rec) ==
    /\ control' = [control EXCEPT ![t] = "free"]
    /\ IF resume[t] = "acknowledged"
       THEN record' = [record EXCEPT ![t] = rec] /\ UNCHANGED <<intentVars, sess>>
       ELSE IF rec \in {"starting", "running"}
       THEN Hold(t, "resume_stop_uncertain") /\ record' = [record EXCEPT ![t] = rec]
                                             /\ UNCHANGED sess
       ELSE IF attempts[t] >= LaunchBudget
       THEN Hold(t, "resume_launch_failed") /\ record' = [record EXCEPT ![t] = rec]
                                            /\ UNCHANGED sess
       ELSE /\ Queue(t)
            /\ sess' = [sess EXCEPT ![t] = 0] /\ record' = [record EXCEPT ![t] = "none"]

\* The launch is refused before a session's row exists; the epoch was bumped.
\* What may go wrong with a launch, here and below, is bounded by its budget.
LaunchRefused(t) ==
    /\ graph = Free
    /\ control[t] = "prepare" \/ (control[t] = "launch" /\ record[t] = "bound")
    /\ epoch' = IF control[t] = "prepare" THEN [epoch EXCEPT ![t] = @ + 1] ELSE epoch
    /\ Fail(t, "none")
    /\ UNCHANGED <<unmoved, outcome, cleared, status, attempts, procs, repairs, faults>>

\* The start fails and the instance is confirmed stopped, or has died already.
SpawnDied(t) ==
    /\ graph = Free /\ control[t] = "launch" /\ record[t] = "starting"
    /\ procs' = [procs EXCEPT ![t] = @ \ {sess[t]}]
    /\ Fail(t, "stopped")
    /\ UNCHANGED <<unmoved, outcome, cleared, taskVars, attempts, repairs, faults>>

\* The start fails and nobody can tell whether the instance runs.
SpawnUncertain(t) ==
    /\ graph = Free /\ control[t] = "launch" /\ record[t] = "starting" /\ Fault
    /\ Fail(t, "starting")
    /\ UNCHANGED <<unmoved, outcome, cleared, taskVars, attempts, procs, repairs>>

\* A launch no daemon is working on any more has used up its time.
LaunchTimeout(t) ==
    /\ graph = Free /\ control[t] = "free" /\ resume[t] = "launching"
    /\ record[t] \in {"bound", "starting"}
    /\ Fail(t, IF record[t] = "bound" THEN "none" ELSE record[t])
    /\ UNCHANGED <<unmoved, outcome, cleared, taskVars, attempts, procs, repairs, faults>>

\* A supervisor's requeue, or the provider that became available again, lifts
\* a hold; a workspace hold may still have its reservation.
Lift(t) ==
    /\ graph = Free /\ control[t] = "free" /\ repairs[t] < MaxRepairs
    /\ hold[t] \in {"resume_launch_failed", "resume_workspace_failed"}
    /\ status[t] = "RESUME_PENDING" /\ ~Pending(t) /\ t \notin cleared /\ ~MayRun(t)
    /\ hold' = [hold EXCEPT ![t] = "none"]
    /\ sess' = [sess EXCEPT ![t] = 0] /\ record' = [record EXCEPT ![t] = "none"]
    /\ \/ /\ hold[t] = "resume_workspace_failed"
          /\ resume' = [resume EXCEPT ![t] = "reserved"] /\ UNCHANGED attempts
       \/ /\ resume' = [resume EXCEPT ![t] = "queued"]
          /\ attempts' = [attempts EXCEPT ![t] = 0]
    /\ repairs' = [repairs EXCEPT ![t] = @ + 1]
    /\ UNCHANGED <<unmoved, outcome, cleared, taskVars, control, procs, faults>>

----------------------------------------------------------------------------
\* locked_resume: session s is the bound one, may run, and holds the claim.
Holder(t, s) ==
    /\ s = sess[t] /\ MayRun(t) /\ epoch[t] = s
    /\ status[t] \in {"RESUME_PENDING", "IN_PROGRESS"} /\ ~Pending(t)

\* mark_delivered: the process has read the outcome in its prime.
Delivered(t) ==
    /\ graph = Free /\ sess[t] \in procs[t] /\ Holder(t, sess[t])
    /\ resume[t] = "launching"
    /\ resume' = [resume EXCEPT ![t] = "delivered"]
    /\ UNCHANGED <<unmoved, outcome, cleared, taskVars, hold, launchVars, control, procs,
                   repairs, faults>>

\* acknowledge: the wait is over and the task goes on in the new session.
Acknowledge(t, s) ==
    /\ graph = Free /\ decision[t] = "hibernate"
    /\ s \in procs[t] /\ Holder(t, s) /\ resume[t] = "delivered"
    /\ resume' = [resume EXCEPT ![t] = "acknowledged"]
    /\ cleared' = cleared \cup {t}
    /\ status' = [status EXCEPT ![t] = "IN_PROGRESS"]
    /\ UNCHANGED <<unmoved, outcome, epoch, hold, launchVars, control, procs, repairs, faults>>

\* The new session's process dies.
NewDies(t) ==
    /\ sess[t] \in procs[t] /\ Fault
    /\ procs' = [procs EXCEPT ![t] = @ \ {sess[t]}]
    /\ UNCHANGED <<unmoved, outcome, cleared, taskVars, intentVars, launchVars, control, repairs>>

ResumeStep(t) ==
    Reserve(t) \/ ReserveAgain(t) \/ Launch(t) \/ Spawn(t) \/ Up(t) \/ SpawnDied(t)
        \/ LaunchTimeout(t)
ResumeFault(t) ==
    GrantExpires(t) \/ PrepareFails(t) \/ LaunchRefused(t) \/ SpawnUncertain(t) \/ NewDies(t)
AgentAnswers(t) == Delivered(t) \/ \E s \in procs[t] : Acknowledge(t, s)
=============================================================================
