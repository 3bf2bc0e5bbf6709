----------------------------- MODULE TaskLease -----------------------------
(***************************************************************************)
(* What the claim protocol promises about a task, whatever sessions, jobs, *)
(* timeouts and restarts do underneath: a task is leased to at most one    *)
(* agent and an agent to at most one task, every grant has the next epoch, *)
(* a lease is activated at most once and only by its holder, and it ends   *)
(* by going back to the frontier or by settling.                           *)
(***************************************************************************)
EXTENDS Naturals

CONSTANTS Tasks, Agents, None

VARIABLES
    stage,      \* open (claimable or waiting), preparing, active, settled
    holder,     \* the agent a running task is assigned to
    epoch       \* the fencing number of the latest grant

leaseVars == <<stage, holder, epoch>>

Init ==
    /\ stage = [t \in Tasks |-> "open"]
    /\ holder = [t \in Tasks |-> None]
    /\ epoch = [t \in Tasks |-> 0]

Grant(t, a) ==
    /\ stage[t] = "open"
    /\ \A u \in Tasks : holder[u] # a
    /\ stage' = [stage EXCEPT ![t] = "preparing"]
    /\ holder' = [holder EXCEPT ![t] = a]
    /\ epoch' = [epoch EXCEPT ![t] = @ + 1]

Activate(t) ==
    /\ stage[t] = "preparing"
    /\ stage' = [stage EXCEPT ![t] = "active"]
    /\ UNCHANGED <<holder, epoch>>

End(t, st) ==
    /\ stage[t] \in {"preparing", "active"}
    /\ stage' = [stage EXCEPT ![t] = st]
    /\ holder' = [holder EXCEPT ![t] = None]
    /\ UNCHANGED epoch

Reopen(t) ==
    /\ stage[t] = "settled"
    /\ stage' = [stage EXCEPT ![t] = "open"]
    /\ UNCHANGED <<holder, epoch>>

Next ==
    \E t \in Tasks :
        \/ \E a \in Agents : Grant(t, a)
        \/ Activate(t)
        \/ End(t, "open") \/ End(t, "settled")
        \/ Reopen(t)

Spec == Init /\ [][Next]_leaseVars
=============================================================================
