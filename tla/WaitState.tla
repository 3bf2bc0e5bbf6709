----------------------------- MODULE WaitState -----------------------------
(***************************************************************************)
(* The rows behind a durable wait, and the in-memory steps of the services *)
(* that move them: the source outbox (wait_source_events), the listener's  *)
(* lease and cursor (wait_listener_cursors), the wait records, the         *)
(* continuations of suspended tasks and the processes of their sessions.   *)
(*                                                                         *)
(* One source is modelled, with the tasks that wait for it; it is settled  *)
(* by a committed row and stays settled, like a finished job.  Rows of     *)
(* other sources are to this one rows nobody subscribes to.  A session is  *)
(* named by the claim epoch it was started with: First for the one that    *)
(* registered the wait, the bumped epoch for every session launched later. *)
(***************************************************************************)
EXTENDS Integers, FiniteSets

CONSTANTS
    Tasks,          \* tasks whose agents wait for the source
    Hibernators,    \* those that may suspend; the others wait in place
    Pausable,       \* those an operator may pause while they are parked
    Listeners,      \* daemon processes that run the source listener
    MaxSeq,         \* bound: outbox rows allocated
    Recoverable,    \* the condition's kind is ci_check, ci_run or job
    MaxFaults,      \* bound: crashes, lapses, timeouts, refused launches
    MaxProofs,      \* STOP_PROOF_MAX_ATTEMPTS
    MaxRepairs,     \* bound: launch holds lifted, per task
    Free,           \* no listener holds the lease; no transaction holds the graph lock
    Gone            \* the lease of a listener process that no longer exists

ASSUME SeqAssumption == MaxSeq \in Nat
ASSUME BoundAssumption == MaxFaults \in Nat /\ MaxProofs \in Nat /\ MaxRepairs \in Nat
ASSUME TaskAssumption == Hibernators \subseteq Tasks /\ Pausable \subseteq Hibernators
ASSUME NameAssumption == Free \notin Tasks /\ Free \notin Listeners /\ Gone \notin Listeners /\ Free # Gone
ASSUME KindAssumption == Recoverable \in BOOLEAN

Seqs == 1..MaxSeq
Marks == 0..MaxSeq
First == 1
LaunchBudget == 2
Sessions == Nat \ {0}

VARIABLES
    row,        \* outbox row: "unused", "open" (allocated, uncommitted), "committed", "lost"
    settles,    \* rows whose transaction also settles the source
    stamped,    \* rows with dispatched_at
    cursor,     \* wait_listener_cursors.last_seq
    lease,      \* lease_owner
    lapsed,     \* lease_expires_at has passed
    mode,       \* where a listener is in its tick
    mark,       \* the watermark of its tick
    tried,      \* rows this drain has attempted
    plan,       \* the attempt it carries to the graph lock
    graph,      \* the task whose registration holds the graph lock
    reg,        \* progress of a registration
    since,      \* source_watermark_seq of the wait
    outcome,    \* of the wait record; "none" before there is one
    decision,   \* sleep_decision
    cleared,    \* tasks whose wait has cleared_at
    status,     \* tasks.status
    epoch,      \* tasks.claim_epoch
    resume,     \* continuations.resume_state
    hold,       \* continuations.hold_reason
    stopped,    \* tasks whose continuation has stopped_at
    saved,      \* tasks whose continuation has saved_head
    released,   \* tasks whose continuation has workspace_released_at
    attempts,   \* launch_attempts
    proofs,     \* stop_proof_attempts
    sess,       \* new_session_id, 0 for none
    record,     \* the sessions row of new_session_id
    control,    \* what holds the task-control lock
    procs,      \* the task's agent processes that run
    paused,     \* history: tasks that were paused
    repairs,    \* launch holds lifted so far
    faults      \* faults so far

sourceVars == <<row, settles>>
outboxVars == <<stamped, cursor>>
leaseVars == <<lease, lapsed>>
drainVars == <<mode, mark, tried, plan>>
listenerVars == <<outboxVars, leaseVars, drainVars>>
registerVars == <<graph, reg, since>>
waitVars == <<outcome, decision, cleared>>
taskVars == <<status, epoch>>
intentVars == <<resume, hold>>
parkVars == <<stopped, saved, released>>
launchVars == <<attempts, sess, record>>
countVars == <<paused, repairs, faults>>
continuationVars == <<intentVars, parkVars, launchVars, proofs, control, procs>>
vars == <<sourceVars, listenerVars, registerVars, waitVars, taskVars, continuationVars, countVars>>

NoPlan == [kind |-> "none", rows |-> {}, at |-> 0]
Plans == [kind : {"none", "retire", "forward", "retry", "recover"}, rows : SUBSET Seqs, at : Marks]

Outcomes == {"none", "pending", "satisfied"}
Statuses == {"IN_PROGRESS", "WAITING", "HIBERNATED", "RESUME_PENDING", "PAUSED"}
ResumeStates == {"none", "sleeping", "held", "queued", "reserved", "launching",
                 "delivered", "acknowledged"}
Holds == {"none", "stop_uncertain", "push_failed", "detach_uncertain",
          "resume_stop_uncertain", "resume_workspace_failed", "resume_launch_failed"}
Controls == {"free", "stopping", "stopped", "saved", "cleanup", "prepare", "launch"}
Records == {"none", "bound", "starting", "running", "stopped"}
Registrations == {"none", "marked", "verified", "unsatisfied", "satisfied", "done"}

TypeOK ==
    /\ row \in [Seqs -> {"unused", "open", "committed", "lost"}]
    /\ settles \subseteq Seqs /\ stamped \subseteq Seqs /\ cursor \in Marks
    /\ lease \in Listeners \cup {Free, Gone} /\ lapsed \in BOOLEAN
    /\ mode \in [Listeners -> {"idle", "draining", "planned"}]
    /\ mark \in [Listeners -> Marks] /\ tried \in [Listeners -> SUBSET Seqs]
    /\ plan \in [Listeners -> Plans]
    /\ graph \in Tasks \cup {Free}
    /\ reg \in [Tasks -> Registrations] /\ since \in [Tasks -> Marks]
    /\ outcome \in [Tasks -> Outcomes] /\ decision \in [Tasks -> {"in_place", "hibernate"}]
    /\ cleared \subseteq Tasks
    /\ status \in [Tasks -> Statuses] /\ epoch \in [Tasks -> Sessions]
    /\ resume \in [Tasks -> ResumeStates] /\ hold \in [Tasks -> Holds]
    /\ stopped \subseteq Tasks /\ saved \subseteq Tasks /\ released \subseteq Tasks
    /\ attempts \in [Tasks -> Nat] /\ proofs \in [Tasks -> Nat]
    /\ sess \in [Tasks -> Nat] /\ record \in [Tasks -> Records]
    /\ control \in [Tasks -> Controls] /\ procs \in [Tasks -> SUBSET Sessions]
    /\ paused \subseteq Pausable
    /\ repairs \in [Tasks -> Nat] /\ faults \in Nat

Init ==
    /\ row = [s \in Seqs |-> "unused"] /\ settles = {} /\ stamped = {} /\ cursor = 0
    /\ lease = Free /\ lapsed = FALSE
    /\ mode = [l \in Listeners |-> "idle"] /\ mark = [l \in Listeners |-> 0]
    /\ tried = [l \in Listeners |-> {}] /\ plan = [l \in Listeners |-> NoPlan]
    /\ graph = Free /\ reg = [t \in Tasks |-> "none"] /\ since = [t \in Tasks |-> 0]
    /\ outcome = [t \in Tasks |-> "none"] /\ decision = [t \in Tasks |-> "in_place"]
    /\ cleared = {}
    /\ status = [t \in Tasks |-> "IN_PROGRESS"] /\ epoch = [t \in Tasks |-> First]
    /\ resume = [t \in Tasks |-> "none"] /\ hold = [t \in Tasks |-> "none"]
    /\ stopped = {} /\ saved = {} /\ released = {}
    /\ attempts = [t \in Tasks |-> 0] /\ proofs = [t \in Tasks |-> 0]
    /\ sess = [t \in Tasks |-> 0] /\ record = [t \in Tasks |-> "none"]
    /\ control = [t \in Tasks |-> "free"] /\ procs = [t \in Tasks |-> {First}]
    /\ paused = {} /\ repairs = [t \in Tasks |-> 0] /\ faults = 0

\* One of the bounded faults happens.
Fault == faults < MaxFaults /\ faults' = faults + 1

\* The source's own row says it is settled: the change and its outbox row
\* commit in one transaction.
Settled == \E s \in settles : row[s] = "committed"
Open(s) == row[s] = "open"
Committed == {s \in Seqs : row[s] = "committed"}

\* Mutant: the bare maximum, read while writers are in flight.
BareMaximum(m) ==
    /\ m \in Committed \cup {cursor}
    /\ \A s \in Committed \cup {cursor} : s <= m

\* m is the watermark: the highest committed row, or the cursor above it,
\* read while no writer is in flight.
Watermark(m) ==
    /\ \A s \in Seqs : ~Open(s)
    /\ m \in Committed \cup {cursor}
    /\ \A s \in Committed \cup {cursor} : s <= m

Pending(t) == outcome[t] = "pending"
Higher(m, n) == IF m > n THEN m ELSE n

\* verify_owner for the session that registered the wait.
OwnerLive(t) == status[t] \in {"IN_PROGRESS", "WAITING"} /\ epoch[t] = First /\ t \notin stopped

\* The new session's row says a process may exist.
MayRun(t) == record[t] \in {"starting", "running"}
=============================================================================
