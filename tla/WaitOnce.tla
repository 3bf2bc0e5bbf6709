------------------------------ MODULE WaitOnce ------------------------------
(***************************************************************************)
(* What a durable wait promises its task: it wakes once, never before its  *)
(* source is settled, and the outcome is taken once.                       *)
(***************************************************************************)
CONSTANT Tasks
VARIABLES
    done,   \* the source is settled
    stage   \* of each task's wait

onceVars == <<done, stage>>

Init == done = FALSE /\ stage = [t \in Tasks |-> "absent"]

Settle == ~done /\ done' = TRUE /\ UNCHANGED stage

Ask(t) == stage[t] = "absent" /\ stage' = [stage EXCEPT ![t] = "asleep"] /\ UNCHANGED done

\* A wait for a source that is already settled is over at once.
TakeAtOnce(t) ==
    done /\ stage[t] = "absent" /\ stage' = [stage EXCEPT ![t] = "taken"] /\ UNCHANGED done

\* One event wakes any of the waits it is about.
Wake(W) ==
    /\ done /\ \A t \in W : stage[t] = "asleep"
    /\ stage' = [t \in Tasks |-> IF t \in W THEN "awake" ELSE stage[t]]
    /\ UNCHANGED done

Take(t) == stage[t] = "awake" /\ stage' = [stage EXCEPT ![t] = "taken"] /\ UNCHANGED done

Next ==
    \/ Settle
    \/ \E t \in Tasks : Ask(t) \/ TakeAtOnce(t) \/ Take(t)
    \/ \E W \in SUBSET Tasks : Wake(W)

Spec == Init /\ [][Next]_onceVars
=============================================================================
