--------------------------- MODULE WaitSuspension ---------------------------
(***************************************************************************)
(* From a visible wait to a parked continuation.  The service suspends a   *)
(* writer in bounded attempts, each under the task-control lock and each   *)
(* repeatable after a crash: it records the intent to stop, stops the      *)
(* process and proves it gone, saves and publishes the work, and only then *)
(* parks: the claim epoch moves on and the checkout is released.  What     *)
(* cannot be proved or published becomes a hold that keeps the checkout.   *)
(*                                                                         *)
(* control[t] is where the attempt holding the lock is: its steps are the  *)
(* transactions and effects between two awaits.  An agent that was asked   *)
(* to end its turn may exit at any time.                                   *)
(***************************************************************************)
EXTENDS WaitState

\* What the old session's side of a continuation leaves alone.
untouched == <<sourceVars, listenerVars, registerVars>>

\* Eviction or the ceiling: a wait in place becomes a suspension.
Suspend(t) ==
    /\ graph = Free /\ t \in Hibernators
    /\ decision[t] = "in_place" /\ Pending(t) /\ OwnerLive(t)
    /\ decision' = [decision EXCEPT ![t] = "hibernate"]
    /\ resume' = [resume EXCEPT ![t] = "sleeping"]
    /\ status' = [status EXCEPT ![t] = "WAITING"]
    /\ UNCHANGED <<untouched, outcome, cleared, epoch, hold, parkVars, launchVars, proofs,
                   control, procs, countVars>>

\* The session that waited in place takes the outcome and goes on.
AckInPlace(t) ==
    /\ graph = Free
    /\ decision[t] = "in_place" /\ outcome[t] = "satisfied" /\ t \notin cleared
    /\ OwnerLive(t) /\ First \in procs[t]
    /\ cleared' = cleared \cup {t}
    /\ status' = [status EXCEPT ![t] = "IN_PROGRESS"]
    /\ UNCHANGED <<untouched, outcome, decision, epoch, continuationVars, countVars>>

----------------------------------------------------------------------------
\* _advance_locked: the intent is recorded before any signal.  Holds are
\* tried again, an uncertain stop with a budget that survives a crash.
BeginStop(t) ==
    /\ control[t] = "free" /\ graph = Free /\ OwnerLive(t)
    /\ \/ resume[t] = "sleeping"
       \/ resume[t] = "held" /\ hold[t] = "stop_uncertain" /\ proofs[t] < MaxProofs
       \/ resume[t] = "held" /\ hold[t] = "push_failed"
    /\ control' = [control EXCEPT ![t] = "stopping"]
    /\ proofs' = IF hold[t] = "stop_uncertain" THEN [proofs EXCEPT ![t] = @ + 1] ELSE proofs
    /\ UNCHANGED <<untouched, waitVars, taskVars, intentVars, parkVars, launchVars, procs, countVars>>

\* Mutant: a stop that returned is taken for proof that the process is gone.
StopTrusted(t) ==
    /\ control[t] = "stopping" /\ graph = Free /\ OwnerLive(t)
    /\ hold[t] = "none"
    /\ control' = [control EXCEPT ![t] = "stopped"]
    /\ UNCHANGED <<untouched, waitVars, taskVars, intentVars, parkVars, launchVars, proofs,
                   procs, countVars>>

\* The writer is stopped and proved gone; a hold that recovers only observes.
ProveStopped(t) ==
    /\ control[t] = "stopping" /\ graph = Free /\ OwnerLive(t)
    /\ hold[t] = "none" \/ First \notin procs[t]
    /\ procs' = [procs EXCEPT ![t] = @ \ {First}]
    /\ control' = [control EXCEPT ![t] = "stopped"]
    /\ IF hold[t] = "stop_uncertain" THEN /\ resume' = [resume EXCEPT ![t] = "sleeping"]
                                          /\ hold' = [hold EXCEPT ![t] = "none"]
                                     ELSE UNCHANGED intentVars
    /\ UNCHANGED <<untouched, waitVars, taskVars, parkVars, launchVars, proofs, countVars>>

\* No proof within the budget: an incident is opened, the checkout kept.
StopUnproved(t) ==
    /\ control[t] = "stopping" /\ graph = Free
    /\ control' = [control EXCEPT ![t] = "free"]
    /\ IF hold[t] = "stop_uncertain" /\ First \in procs[t] THEN UNCHANGED faults ELSE Fault
    /\ IF hold[t] = "none" THEN /\ resume' = [resume EXCEPT ![t] = "held"]
                                /\ hold' = [hold EXCEPT ![t] = "stop_uncertain"]
                                /\ proofs' = [proofs EXCEPT ![t] = 1]
                           ELSE UNCHANGED <<intentVars, proofs>>
    /\ UNCHANGED <<untouched, waitVars, taskVars, parkVars, launchVars, procs, paused, repairs>>

\* The work is committed and its head published.
SaveWork(t) ==
    /\ control[t] = "stopped" /\ graph = Free
    /\ saved' = saved \cup {t}
    /\ control' = [control EXCEPT ![t] = "saved"]
    /\ UNCHANGED <<untouched, waitVars, taskVars, intentVars, stopped, released, launchVars,
                   proofs, procs, countVars>>

\* The push fails: pending within the transition budget, a hold after it.
PushFails(t) ==
    /\ control[t] = "stopped" /\ t \notin saved /\ graph = Free /\ Fault
    /\ control' = [control EXCEPT ![t] = "free"]
    /\ \/ UNCHANGED intentVars
       \/ /\ resume' = [resume EXCEPT ![t] = "held"]
          /\ hold' = [hold EXCEPT ![t] = "push_failed"]
    /\ UNCHANGED <<untouched, waitVars, taskVars, parkVars, launchVars, proofs, procs, paused, repairs>>

\* Mutant: a continuation is always parked asleep.
ParkAsleep(t) == [status |-> "HIBERNATED", resume |-> "sleeping"]

\* A wait that was resolved while its writer stopped is queued at once.
ParkAs(t) == IF Pending(t) THEN [status |-> "HIBERNATED", resume |-> "sleeping"]
                           ELSE [status |-> "RESUME_PENDING", resume |-> "queued"]

\* park_task_for_continuation: the old writer is retired.
Park(t) ==
    /\ control[t] = "saved" /\ graph = Free
    /\ OwnerLive(t) /\ t \in saved
    /\ stopped' = stopped \cup {t}
    /\ epoch' = [epoch EXCEPT ![t] = @ + 1]
    /\ status' = [status EXCEPT ![t] = ParkAs(t).status]
    /\ resume' = [resume EXCEPT ![t] = ParkAs(t).resume]
    /\ hold' = [hold EXCEPT ![t] = "none"]
    /\ control' = [control EXCEPT ![t] = "cleanup"]
    /\ UNCHANGED <<untouched, waitVars, saved, released, launchVars, proofs, procs, countVars>>

DetachFails(t) ==
    /\ control[t] = "saved" /\ graph = Free /\ Fault
    /\ resume' = [resume EXCEPT ![t] = "held"]
    /\ hold' = [hold EXCEPT ![t] = "detach_uncertain"]
    /\ control' = [control EXCEPT ![t] = "free"]
    /\ UNCHANGED <<untouched, waitVars, taskVars, parkVars, launchVars, proofs, procs, paused, repairs>>

\* The old folder is released, by the attempt that parked or, after a crash,
\* by the next tick.
Cleanup(t) ==
    /\ t \in stopped \ released /\ graph = Free
    /\ control[t] = "cleanup" \/ (control[t] = "free" /\ resume[t] \in {"sleeping", "queued"})
    /\ released' = released \cup {t}
    /\ control' = [control EXCEPT ![t] = "free"]
    /\ UNCHANGED <<untouched, waitVars, taskVars, intentVars, stopped, saved, launchVars, proofs,
                   procs, countVars>>

----------------------------------------------------------------------------
\* The daemon dies or the attempt raises: the lock is free, rows stay.
ControlLost(t) ==
    /\ control[t] # "free" /\ Fault
    /\ control' = [control EXCEPT ![t] = "free"]
    /\ UNCHANGED <<untouched, waitVars, taskVars, intentVars, parkVars, launchVars, proofs,
                   procs, paused, repairs>>

\* The agent ends its turn; within an attempt that makes no difference to it.
OldExits(t) ==
    /\ resume[t] # "none" /\ control[t] = "free" /\ First \in procs[t]
    /\ procs' = [procs EXCEPT ![t] = @ \ {First}]
    /\ UNCHANGED <<untouched, waitVars, taskVars, intentVars, parkVars, launchVars, proofs,
                   control, countVars>>

\* An operator pauses a parked task, once, and may resume it.
Pause(t) ==
    /\ t \in Pausable \ paused /\ control[t] = "free" /\ graph = Free
    /\ status[t] = "HIBERNATED" /\ resume[t] = "sleeping" /\ t \in released
    /\ status' = [status EXCEPT ![t] = "PAUSED"]
    /\ epoch' = [epoch EXCEPT ![t] = @ + 1]
    /\ paused' = paused \cup {t}
    /\ UNCHANGED <<untouched, waitVars, continuationVars, repairs, faults>>

Unpause(t) ==
    /\ status[t] = "PAUSED" /\ control[t] = "free" /\ graph = Free
    /\ status' = [status EXCEPT ![t] = IF Pending(t) \/ t \in cleared THEN "HIBERNATED"
                                                     ELSE "RESUME_PENDING"]
    /\ UNCHANGED <<untouched, waitVars, epoch, continuationVars, countVars>>

SuspensionStep(t) ==
    BeginStop(t) \/ ProveStopped(t) \/ StopUnproved(t) \/ SaveWork(t) \/ Park(t) \/ Cleanup(t)
Operator(t) == Pause(t) \/ Unpause(t)
SuspensionFault(t) == PushFails(t) \/ DetachFails(t) \/ ControlLost(t)
=============================================================================
