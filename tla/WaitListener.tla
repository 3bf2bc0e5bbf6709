---------------------------- MODULE WaitListener ----------------------------
(***************************************************************************)
(* The source listener and the dispatcher it calls.  A listener takes the  *)
(* lease, reads the watermark, and drains: it plans an attempt from what   *)
(* it reads without a lock, then waits for the graph lock and does it in   *)
(* one transaction, fenced by the lease and by the cursor it planned at.   *)
(* A row whose waits could not be looked at keeps its place behind the     *)
(* cursor, undispatched, for a later attempt.                              *)
(***************************************************************************)
EXTENDS WaitState

\* Committed rows this tick may read.
Rows(l) == {s \in Committed : s <= mark[l]}
Forward(l) == {s \in Rows(l) : s > cursor}
IsLeast(s, S) == s \in S /\ \A r \in S : s <= r

\* Waits the row may wake: pending, and registered before it.
Subscribers(s) == {t \in Tasks : Pending(t) /\ since[t] < s}

\* The rows of S before the first that somebody subscribes to.
Unobserved(S) == {s \in S : \A r \in S : r <= s => Subscribers(r) = {}}

\* Retained rows behind the cursor this drain has not attempted.
Retained(l) == {s \in Rows(l) : s <= cursor /\ s \notin stamped /\ s \notin tried[l]}

\* For kinds whose rows are all terminal, the newest stamped row after a
\* pending wait's watermark is looked at again.
Stale(l) ==
    {s \in Rows(l) \ tried[l] :
        /\ Recoverable /\ s \in stamped
        /\ \E t \in Subscribers(s) : \A r \in Rows(l) : r > since[t] => r <= s}

----------------------------------------------------------------------------
\* tick: the lease is free, this listener's, or expired; with it, the
\* watermark of the tick is read once no writer is in flight.
StartTick(l) ==
    /\ mode[l] = "idle"
    /\ lease \in {Free, l} \/ lapsed
    /\ lease' = l /\ lapsed' = FALSE
    /\ \E m \in Marks : Watermark(m) /\ mark' = [mark EXCEPT ![l] = m]
    /\ mode' = [mode EXCEPT ![l] = "draining"]
    /\ UNCHANGED <<sourceVars, outboxVars, tried, plan, registerVars, waitVars, taskVars,
                   continuationVars, countVars>>

\* The attempt is chosen from an unlocked read; nothing durable changes.
Choose(l, kind, rows) ==
    /\ mode[l] = "draining"
    /\ plan' = [plan EXCEPT ![l] = [kind |-> kind, rows |-> rows, at |-> cursor]]
    /\ mode' = [mode EXCEPT ![l] = "planned"]
    /\ UNCHANGED <<sourceVars, outboxVars, leaseVars, mark, tried, registerVars, waitVars,
                   taskVars, continuationVars, countVars>>

PlanRetire(l) == Unobserved(Forward(l)) # {} /\ Choose(l, "retire", Unobserved(Forward(l)))

PlanForward(l) ==
    \E s \in Seqs : IsLeast(s, Forward(l)) /\ Subscribers(s) # {} /\ Choose(l, "forward", {s})

\* A retained row, either in its turn before the forward rows or after them.
PlanRetry(l) ==
    \E s \in Seqs : IsLeast(s, Retained(l)) /\ Choose(l, "retry", {s})

PlanRecover(l) ==
    /\ Forward(l) = {} /\ Retained(l) = {}
    /\ \E s \in Seqs : IsLeast(s, Stale(l)) /\ Choose(l, "recover", {s})

\* What a drain remembers is gone with its tick.
EndTick(l) ==
    /\ mode' = [mode EXCEPT ![l] = "idle"]
    /\ mark' = [mark EXCEPT ![l] = 0]
    /\ tried' = [tried EXCEPT ![l] = {}]
    /\ plan' = [plan EXCEPT ![l] = NoPlan]

EndDrain(l) ==
    /\ mode[l] = "draining"
    /\ Forward(l) = {} /\ Retained(l) = {} /\ Stale(l) = {}
    /\ EndTick(l)
    /\ UNCHANGED <<sourceVars, outboxVars, leaseVars, registerVars, waitVars, taskVars,
                   continuationVars, countVars>>

----------------------------------------------------------------------------
\* locked_lease: the row names this listener and has not expired.
Leads(l) == lease = l /\ ~lapsed

\* The hibernation owner escalated a hold: its wait keeps the row.
Held(t) == decision[t] = "hibernate" /\ resume[t] = "held"

Parked(t) == status[t] = "HIBERNATED" /\ decision[t] = "hibernate"

\* fence_owner: the stopped writer of a parked continuation, or the live claim.
Fenced(t) ==
    IF Parked(t) THEN /\ t \in stopped /\ resume[t] = "sleeping" /\ hold[t] = "none"
                      /\ epoch[t] > First
                 ELSE OwnerLive(t) /\ (decision[t] = "hibernate" =>
                                           resume[t] = "sleeping" /\ t \notin stopped)

\* wait.unavailable: the live owner's hibernation intent is not there to fence.
Unavailable(t) ==
    /\ ~Parked(t) /\ OwnerLive(t) /\ decision[t] = "hibernate"
    /\ ~(resume[t] = "sleeping" /\ t \notin stopped)

Retries(t) == Held(t) \/ Unavailable(t)

\* Mutant: the event is taken as proof that its source is settled.
SettledByEvent(t) == ~Held(t) /\ Fenced(t)

\* The outcome may be committed: the owner is fenced and a fresh look at the
\* source finds it settled.
Wakes(t) == ~Held(t) /\ Fenced(t) /\ Settled

\* Every wait of W that wakes gets its outcome.  A parked continuation is
\* queued; one whose writer still runs is left for park to queue; a session
\* that waits in place gets a message.
Deliver(W) ==
    LET woken == {t \in W : Wakes(t)}
        queued == {t \in woken : decision[t] = "hibernate" /\ t \in stopped} IN
    /\ outcome' = [t \in Tasks |-> IF t \in woken THEN "satisfied" ELSE outcome[t]]
    /\ resume' = [t \in Tasks |-> IF t \in queued THEN "queued" ELSE resume[t]]
    /\ status' = [t \in Tasks |-> IF t \in queued /\ status[t] = "HIBERNATED"
                                  THEN "RESUME_PENDING" ELSE status[t]]

Quiet == UNCHANGED <<outcome, resume, status>>

\* Mutant: the stamp is taken for a receipt of every wait that was looked at.
StampAlways(s) == stamped \cup {s}

\* A row is stamped unless one of its waits asks to be tried again.
Stamp(s) == IF \E t \in Subscribers(s) : Retries(t) THEN stamped ELSE stamped \cup {s}

\* Mutant: the cursor is set to the row just handled, also on a retry.
AdvanceTo(s) == s

Advance(s) == Higher(cursor, s)

\* The attempt is over and the drain goes on to the next.
GoOn(l, rows) ==
    /\ mode' = [mode EXCEPT ![l] = "draining"]
    /\ plan' = [plan EXCEPT ![l] = NoPlan]
    /\ tried' = [tried EXCEPT ![l] = @ \cup rows]
    /\ UNCHANGED mark

\* No attempt changes more than the outbox, the waits it wakes and the lease.
Apart == UNCHANGED <<sourceVars, registerVars, decision, cleared, epoch, hold, parkVars,
                     launchVars, proofs, control, procs, paused, repairs>>

\* Rows nobody subscribes to are stamped together, those still so under the
\* fence; if the first has a subscriber by now, it is prepared at the next tick.
Retire(l) ==
    /\ mode[l] = "planned" /\ plan[l].kind = "retire" /\ graph = Free
    /\ Leads(l) /\ cursor = plan[l].at
    /\ LET rows == Unobserved(plan[l].rows) IN
        IF rows = {} THEN EndTick(l) /\ UNCHANGED outboxVars
        ELSE /\ stamped' = stamped \cup rows
             /\ \E s \in rows : (\A r \in rows : r <= s) /\ cursor' = Advance(s)
             /\ GoOn(l, rows)
    /\ Apart /\ Quiet /\ UNCHANGED <<leaseVars, faults>>

\* One row and every wait subscribed to it, in one transaction.
Dispatch(l) ==
    /\ mode[l] = "planned" /\ plan[l].kind \in {"forward", "retry", "recover"} /\ graph = Free
    /\ Leads(l) /\ cursor = plan[l].at
    /\ \E s \in plan[l].rows :
        /\ Deliver(Subscribers(s))
        /\ stamped' = Stamp(s)
        /\ cursor' = Advance(s)
    /\ GoOn(l, plan[l].rows)
    /\ Apart /\ UNCHANGED <<leaseVars, faults>>

\* The work budget runs out or the database refuses the transaction: it is
\* rolled back, the row is kept for a retry and the cursor passes it.
Defer(l) ==
    /\ mode[l] = "planned" /\ Leads(l) /\ Fault
    /\ IF cursor = plan[l].at
       THEN /\ stamped' = stamped \ plan[l].rows
            /\ \E s \in plan[l].rows : (\A r \in plan[l].rows : r <= s) /\ cursor' = Advance(s)
            /\ GoOn(l, plan[l].rows)
       ELSE EndTick(l) /\ UNCHANGED outboxVars
    /\ Apart /\ Quiet /\ UNCHANGED leaseVars

\* Another drain has advanced the cursor since the plan was made.
Raced(l) ==
    /\ mode[l] = "planned" /\ Leads(l) /\ graph = Free /\ cursor # plan[l].at
    /\ GoOn(l, {})
    /\ Apart /\ Quiet /\ UNCHANGED <<outboxVars, leaseVars, faults>>

\* The fence refuses a listener that lost its lease, or its renewal finds
\* another owner; run gives up what it still holds and starts again.
LeaseLost(l) ==
    /\ \/ mode[l] = "planned" /\ ~Leads(l)
       \/ mode[l] # "idle" /\ lease \notin {Free, l} /\ ~lapsed
    /\ lease' = IF lease = l THEN Free ELSE lease
    /\ lapsed' = IF lease = l THEN FALSE ELSE lapsed
    /\ EndTick(l)
    /\ Apart /\ Quiet /\ UNCHANGED <<outboxVars, faults>>

\* _renew runs beside the drain and takes any lease it may have: its own, an
\* expired one, or one that another listener held and released meanwhile.
Renew(l) ==
    /\ mode[l] # "idle" /\ ~Leads(l)
    /\ lease \in {Free, l} \/ lapsed
    /\ lease' = l /\ lapsed' = FALSE
    /\ UNCHANGED <<sourceVars, outboxVars, drainVars, registerVars, waitVars, taskVars,
                   continuationVars, countVars>>

----------------------------------------------------------------------------
\* The lease of a listener that renews too late expires, and so does the one
\* a dead process left behind.
Lapse ==
    /\ lease # Free /\ ~lapsed
    /\ lapsed' = TRUE
    /\ IF lease = Gone THEN UNCHANGED faults ELSE Fault
    /\ UNCHANGED <<sourceVars, outboxVars, lease, drainVars, registerVars, waitVars, taskVars,
                   continuationVars, paused, repairs>>

\* A lost connection ends run, which releases the lease; a killed process
\* leaves it to expire.
Restart(l) ==
    /\ mode[l] # "idle" \/ lease = l
    /\ Fault
    /\ lease' \in IF lease = l THEN {Free, Gone} ELSE {lease}
    /\ lapsed' = IF lease' = Free THEN FALSE ELSE lapsed
    /\ EndTick(l)
    /\ Apart /\ Quiet /\ UNCHANGED outboxVars

\* A listener that shuts down between two ticks releases its lease.
Stop(l) ==
    /\ mode[l] = "idle" /\ lease = l
    /\ lease' = Free /\ lapsed' = FALSE
    /\ UNCHANGED <<sourceVars, outboxVars, drainVars, registerVars, waitVars, taskVars,
                   continuationVars, countVars>>

Plan(l) == PlanRetire(l) \/ PlanForward(l) \/ PlanRetry(l) \/ PlanRecover(l)
Attempt(l) == Retire(l) \/ Dispatch(l) \/ Raced(l) \/ LeaseLost(l)
Tick(l) == StartTick(l) \/ Plan(l) \/ Attempt(l) \/ EndDrain(l)
=============================================================================
