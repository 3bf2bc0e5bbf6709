------------------------------- MODULE Waits --------------------------------
(***************************************************************************)
(* Durable waits from end to end: the writers of the source, the           *)
(* registrations, the listeners, the suspension service, the resume        *)
(* service and the agents' own processes, over one database.               *)
(***************************************************************************)
EXTENDS WaitSource, WaitListener, WaitSuspension, WaitResume

Sources == \E s \in Seqs : (\E b \in BOOLEAN : Begin(s, b)) \/ Commit(s) \/ Rollback(s)
Registers == \E t \in Tasks : RegisterMark(t) \/ Register(t) \/ RegisterAbort(t)
Ticks == Lapse \/ \E l \in Listeners : Tick(l) \/ Renew(l) \/ Stop(l) \/ Defer(l) \/ Restart(l)
InPlace == \E t \in Tasks : Suspend(t) \/ AckInPlace(t)
Suspensions == \E t \in Hibernators : SuspensionStep(t) \/ SuspensionFault(t) \/ OldExits(t) \/ Operator(t)
Resumes == \E t \in Hibernators : ResumeStep(t) \/ ResumeFault(t) \/ AgentAnswers(t) \/ Lift(t)

Next == Sources \/ Registers \/ Ticks \/ InPlace \/ Suspensions \/ Resumes

Spec == Init /\ [][Next]_vars

\* A writer's transaction ends; an agent that asked for a wait finishes the
\* command, and one whose wait is over takes the outcome; the listeners and
\* the two services run in loops, and the lease of a dead process expires.
\* Nothing makes a writer start, an agent ask, an operator act or a fault
\* happen.
Writing == \E s \in Seqs : Commit(s) \/ Rollback(s)
Asking(t) == Register(t) \/ AckInPlace(t)
Listening == (lease = Gone /\ Lapse) \/ \E l \in Listeners : Tick(l)
Serving(t) == SuspensionStep(t) \/ ResumeStep(t) \/ AgentAnswers(t)

Fairness ==
    /\ WF_vars(Writing) /\ WF_vars(Listening)
    /\ \A t \in Tasks : WF_vars(Asking(t))
    /\ \A t \in Hibernators : WF_vars(Serving(t))

FairSpec == Spec /\ Fairness

----------------------------------------------------------------------------
\* Every number above a watermark in use is still to come: a row that is open
\* has a higher number than the cursor, than the mark of a tick and than the
\* watermark of every wait, so that none of them can pass a row that commits
\* later (wait_source_queries.watermark, listener.drain, register_wait).
Frontier ==
    \A s \in Seqs : row[s] \in {"unused", "open"} =>
        /\ s > cursor
        /\ \A l \in Listeners : mode[l] \in {"draining", "planned"} => s > mark[l]
        /\ \A t \in Tasks : s > since[t]

\* No wake-up is lost: while a wait on a settled source is pending, a committed
\* row newer than its watermark is undispatched, whatever was registered,
\* committed, dispatched, retried or crashed in between (listener._drain_one,
\* dispatcher.commit, register_wait).  A task that was paused is left out: its
\* row is stamped while the owner cannot be fenced.
NoLostWakeup ==
    \A t \in Tasks \ paused :
        Pending(t) /\ Settled => \E s \in Committed \ stamped : s > since[t]

----------------------------------------------------------------------------
\* Numbers are allocated in order; only a committed row is dispatched or
\* carried to the lock, and no attempt reaches past its tick's watermark.
InOrder == \A r, s \in Seqs : r < s /\ row[r] = "unused" => row[s] = "unused"
Dispatched ==
    /\ stamped \subseteq Committed
    /\ \A l \in Listeners :
        /\ \A s \in plan[l].rows : row[s] = "committed" /\ s <= mark[l]
        /\ mode[l] # "planned" => plan[l].rows = {}

\* A registration holds the graph lock from its verification to its commit. If
\* the source settled after its last look, a newer row is there to wake it.
Registering ==
    \A t \in Tasks :
        /\ reg[t] \in {"verified", "unsatisfied", "satisfied"} => graph = t
        /\ reg[t] = "satisfied" => Settled
        /\ reg[t] = "unsatisfied" /\ Settled => \E s \in Committed \ stamped : s > since[t]

\* A wait is pending, resolved or cleared from its registration on.
Waiting(t) ==
    /\ reg[t] = "done" <=> outcome[t] # "none"
    /\ outcome[t] = "satisfied" => Settled
    /\ t \in cleared => outcome[t] = "satisfied"
    /\ reg[t] # "done" => resume[t] = "none" /\ t \notin stopped

\* The old session holds the claim until the continuation is parked, and its
\* process is gone from the proof of its stop on.
Suspending(t) ==
    /\ epoch[t] = First /\ procs[t] \subseteq {First} /\ t \notin released
    /\ sess[t] = 0 /\ record[t] = "none"
    /\ status[t] \in {"IN_PROGRESS", "WAITING"}
    /\ resume[t] \in {"none", "sleeping", "held"}
    /\ hold[t] \in {"none", "stop_uncertain", "push_failed", "detach_uncertain"}
    /\ hold[t] # "none" => resume[t] = "held"
    /\ resume[t] # "none" => decision[t] = "hibernate"
    /\ resume[t] = "none" => control[t] = "free"
    /\ control[t] \in {"free", "stopping", "stopped", "saved"}
    /\ control[t] \in {"stopped", "saved"} => First \notin procs[t]
    /\ control[t] = "saved" => t \in saved

\* Asleep, or queued with its outcome, after the old session was retired.
Asleep(t) ==
    /\ procs[t] = {} /\ sess[t] = 0 /\ record[t] = "none" /\ hold[t] = "none"
    /\ control[t] \in {"free", "cleanup"}
    /\ resume[t] = "sleeping" =>
        Pending(t) /\ (status[t] = "HIBERNATED" \/ (status[t] = "PAUSED" /\ t \in paused))
    /\ resume[t] = "queued" => status[t] = "RESUME_PENDING" /\ ~Pending(t)
    /\ control[t] = "cleanup" => t \notin released

\* A reservation, or a hold without a process: nothing runs.
Reserved(t) ==
    /\ procs[t] = {} /\ status[t] = "RESUME_PENDING"
    /\ \/ /\ resume[t] = "reserved" /\ hold[t] = "none" /\ control[t] \in {"free", "prepare"}
          /\ sess[t] = 0 /\ record[t] = "none" /\ attempts[t] > 0
       \/ /\ resume[t] = "held" /\ control[t] = "free"
          /\ \/ hold[t] = "resume_workspace_failed" /\ attempts[t] > 0
             \/ hold[t] = "resume_launch_failed"
          /\ record[t] \in {"none", "stopped"}

\* One new session, the holder of the claim, is the only one that may run.
Launched(t) ==
    /\ sess[t] = epoch[t] /\ procs[t] \subseteq {sess[t]}
    /\ control[t] \in {"free", "launch"}
    /\ record[t] = "bound" => procs[t] = {} /\ resume[t] = "launching"
    /\ control[t] = "launch" => record[t] \in {"bound", "starting"}
    /\ \/ /\ resume[t] \in {"launching", "delivered"} /\ hold[t] = "none"
          /\ status[t] = "RESUME_PENDING" /\ record[t] \in {"bound", "starting", "running"}
       \/ /\ resume[t] = "acknowledged" /\ hold[t] = "none" /\ t \in cleared
          /\ record[t] \in {"starting", "running", "stopped"} /\ status[t] = "IN_PROGRESS"
       \/ /\ resume[t] = "held" /\ hold[t] = "resume_stop_uncertain"
          /\ status[t] = "RESUME_PENDING" /\ record[t] \in {"starting", "running"}
          /\ control[t] = "free"

Continuation(t) ==
    IF t \notin stopped THEN Suspending(t)
    ELSE /\ t \in saved /\ epoch[t] > First /\ decision[t] = "hibernate"
         /\ \/ resume[t] \in {"sleeping", "queued"} /\ Asleep(t)
            \/ t \in released /\ ~Pending(t) /\ (Reserved(t) \/ Launched(t))

\* The inductive invariant.
WaitInv ==
    /\ TypeOK /\ InOrder /\ Frontier /\ Dispatched /\ Registering /\ NoLostWakeup
    /\ \A t \in Tasks : Waiting(t) /\ Continuation(t)

\* One writer: a task never has two agent processes, and the old checkout is
\* released and a new process started only when the old one is gone and its
\* work published (hibernate._advance_locked, park_task_for_continuation,
\* resume.failed).
OneWriter ==
    \A t \in Tasks :
        /\ Cardinality(procs[t]) <= 1
        /\ t \in stopped => First \notin procs[t] /\ t \in saved
        /\ procs[t] \ {First} # {} => t \in released

\* Drains of several listeners, retries of old rows and deferred attempts
\* never move the durable cursor back (listener._drain_one, _defer).
CursorMonotone == [][cursor' >= cursor]_vars

\* The wait of a suspended task ends only by the hand of the process that now
\* holds the claim and is the task's only one (resume_ack.locked_resume).
AckByCurrentWriter ==
    [][\A t \in Tasks :
        (t \in cleared' \ cleared /\ outcome[t] = "satisfied" /\ decision[t] = "hibernate")
            => procs[t] = {epoch[t]} /\ epoch[t] # First]_vars

\* The wait as its task sees it.
stageOf ==
    [t \in Tasks |-> IF reg[t] # "done" THEN "absent"
                     ELSE IF Pending(t) THEN "asleep"
                     ELSE IF t \in cleared THEN "taken" ELSE "awake"]
Once == INSTANCE WaitOnce WITH done <- Settled, stage <- stageOf

\* Every task is woken once, only by a settled source, and takes its outcome
\* once (dispatcher.settle, mail.acknowledge_in_place, resume_ack.acknowledge).
WakesOnce == Once!Spec

\* The new session's process is gone although its row says it may run: the
\* service reports it and leaves it to an operator.
Stalled(t) == MayRun(t) /\ sess[t] \notin procs[t]

\* A wait whose source is settled reaches its task: the outcome is taken, in
\* place or by a new session, unless a suspension or a resume is held for an
\* operator, the task is paused or the new session stalled.  It covers the
\* listener's retries and its second look at stamped rows, the hand-over of
\* the lease, and the suspension and resume services (listener.drain,
\* lifecycle.tick, resume_pending).  A wait of a kind without that second look
\* stays behind when its task was paused at the wrong moment.
OutcomeTaken ==
    \A t \in Tasks :
        (reg[t] = "done" /\ Settled) ~>
            \/ t \in cleared \/ resume[t] = "held" \/ status[t] = "PAUSED" \/ Stalled(t)
            \/ t \in paused /\ ~Recoverable
=============================================================================
