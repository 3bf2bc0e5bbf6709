# TLA+ models of agent-queue

agent-queue is a daemon that hands software tasks to coding agents.  Its state is
a database (tasks, agents, workspaces, sessions, waits, trains), files in the
agents' checkouts, and the memory of one asyncio process that may restart at any
time.  The agents are separate processes that call back into it.  This directory
holds TLA+ modules of that program, TLC configurations that check them, and
TLAPS proofs about them.  Source paths below are relative to `src/src/`.

## The system

| Component | State | Operations | Interacts with | What is hard |
|---|---|---|---|---|
| Claim protocol (`commands/claim_commands.py`, `database/queries/claim_queries.py`, `claim_file.py`) | `tasks.status / claim_epoch / assigned_agent_id`, `sessions.task_id / claim_phase / last_claim_epoch / claims`, `workspaces.locked_by_*`, `.aq/claim.json`, the `claim_preparations` registry | claim, prepare, activate, release, recover a stale binding | agents call it; reconciler, teardown and close release under it | preparation takes minutes while every other path may release the claim; the daemon restarts; a late writer must not hit a successor |
| Session close (`commands/session_commands.py`, `orchestrator/execution.py`) | task status, completion records, accepted-close draft | transition, record, release | claim protocol, ownership | three commits with awaits between them |
| Pool teardown and launch (`orchestrator/pools.py`) | sessions, agents, workspace locks | reserve, launch, drain, terminate | provider of processes, claim protocol | unconfirmed stops, repeated teardown, reuse of agents and slots |
| Session reconciler (`sessions/reconciler.py`) | none of its own | prepare timeout, orphan sweep, lost claim file, displaced claims | all of the above | decides on rows read before the lock |
| Task recovery (`database/queries/task_recovery_queries.py`) | none of its own | requeue a task nobody names | claim protocol | must never requeue a claim that is alive |
| Integration ownership (`integration/ownership.py`, `owner_recovery.py`) | `integration_branch_owners` | attach, detach, recover | vetoes releases of the claim protocol | a veto after half of a close |
| Task graph: state machine, dependencies, hierarchy, gates (`state_machine.py`, `database/queries/blocked_state.py`, `dependency_queries.py`, `hierarchy_queries.py`, `gate_queries.py`, `task_queries.py`, `orchestrator/monitoring.py`) | `tasks.status / is_blocked / parent_task_id`, `task_dependencies`, the container flag, `gates`, `task_gates` | add and remove edges, reparent, attach and resolve gates, transitions, projection, container settlement | every component writes statuses; claims and promotion read `is_blocked` | READ COMMITTED transactions that do not see each other; validation before the transaction; stale projections; containers nobody settles |
| Scheduler and pools sizing (`scheduler.py`, `orchestrator/pools.py`) | none | placement, caps | providers, pools | caps under failure and drain |
| Resource gating (`resources/box_lock.py`, `resources/semaphore.py`) | lock files `turnstile`, `box`, `slot-N`, `full-suite/slot-0`; which process holds which flock | shared, weighted, exclusive and slot-only admission; snapshots | `aq test`, the job and script runners, metrics; their child processes | deadlock, overtaking, dead wrappers with living children, stale records, clients of older checkouts |
| Providers (`providers/`) | availability rows | circuit, canary, reroute | scheduler, sessions | single canary, stale evidence |
| Waits and continuations (`waits/`, `wait_runtime/`, `database/queries/wait_*.py`) | `wait_source_events` (the outbox), `wait_listener_cursors` (lease and cursor), `wait_records`, `continuations`, `tasks.status / claim_epoch`, the agents' processes | register, dispatch, suspend, park, resume, acknowledge | jobs and CI write the outbox; sessions and workspaces are released and launched | rows commit out of order; dispatch races registration; two daemons; a crash between stop, save, park and launch |
| Messages, timers, jobs, merge slots | leased rows | lease, acknowledge, expire | agents | redelivery, expiry races |
| Playbooks (`playbooks/`) | runs, receipts | start, advance, recover | events | exactly-once receipts |
| Integration trains (`integration/`) | trains, candidates, reservations | plan, land, repair | Git | partial landings |
| API, CLI, dashboard, chat, Git wrapper, profiles, knowledge, reports, install | adapters and content | - | - | no protocol of their own |

`PROJECT.json` lists every component with its status, and every hazard at its line.

## Modules

    ClaimState        rows, files, daemon memory; guards; the release transaction
      ClaimCommand      launch and the claim command
      ClaimPreparation  the preparation job
      ClaimEnd          close, reconciler, teardown, operator, restart
        Claim             Init, Next, fairness, properties, refinement
          ClaimInvariant    the inductive invariants of the proofs
            MCClaim           instances for TLC
          ClaimProofs       TLAPS proofs: types, leases, activation
            BindingProofs     session, agent, slot and task in every instance
              LockProofs        the steps keep who a lock belongs to
                HoldProofs        ... from every start; what a holder can rely on
                  LeaseProofs       what backs an assignment; the refinement
    TaskLease         the abstract lease Claim implements

    BoxLock           admission over flocks: actions, properties, refinement
      MCBoxLock         instances for TLC
      BoxProofs         TLAPS proofs
    BoxAdmission      the abstract admission BoxLock implements

    WaitState         outbox, lease, wait and continuation rows; the watermark
      WaitSource        writers of the source, registration of a wait
      WaitListener      the listener's tick and the dispatcher
      WaitSuspension    stop, save, park, pause
      WaitResume        reserve, launch, deliver, acknowledge
        Waits             Next, fairness, properties, refinement
          MCWaits           instances for TLC
          WaitProofs        TLAPS proofs
    WaitOnce          the abstract wait Waits implements

    TaskGraphState    rows, the blocked predicate, transactions and locks
      TaskGraph         operations statement by statement, properties, invariant
        MCTaskGraph       the graphs TLC starts from
        GraphProofs       TLAPS proofs

The parts do not share state: a test run or job is admitted by BoxLock whoever
claimed the task it belongs to, and a task that waits is not offered by the claim
frontier.  What a suspension asks of the claim protocol (the epoch moves on, the
checkout is released, a new session is launched) is one step of the wait model.
What the graph does to a claim (a prerequisite reopened under it) is the action
`DependencyFlip` of the claim model, and what a claim does to the graph (READY,
IN_PROGRESS and back) is `Claim` and `Yield` of the graph model.

### The claim model's state and the code

One variable per column or file: `status, epoch, assigned, blocked, attempts` are
the task row (`attempts` is the `claim_prepare_backoff_attempts` metadata);
`sstate, desired, held, phase, leased, claims` are `sessions.state,
desired_state, task_id, claim_phase, last_claim_epoch, claims`; `agentOf` and
`slotOf` are the agent and checkout a session row gets at launch; `astate,
current` the agent row; `lockAgent, lockTask, enabled` the workspace row;
`marker` is `.aq/claim.json`; `owner` says which session's branch owner row is
attached.  `jobs`, `closing` and `stopping` are daemon memory: preparation
coroutines with how far they are, accepted closes whose tail has not run, and
teardowns between their commits.  A restart erases these three and nothing else.

Every action is one transaction, or one stretch of daemon code between awaits.
`Release` is `_release_claim_on`: it is the single transaction every way out of a
claim goes through, with the fences it was called with (`expected_task_id`,
`expected_claim_epoch`, `expected_task_status`) and what it declines on (a
locked row, an attached owner, a fence that does not match).  The preparation
holds the session's row lock from the workspace proof until it commits; the
model expresses that as `RowLocked`, and every writer of that row waits for it.
The per-task control lock is `ControlHeld`.

The prepare timeout is decided on old rows: the reconciler reads the sessions in
preparation, asks the registry for their coroutines and releases, with awaits in
between.  So `PrepareTimeout` may come at any time: what it has observed of a claim
(`Abandoned`) is that no preparation of it runs now, or that one runs which a retry
of the claim command has started since (`Job.resumed`); only the phase is looked at
again under the row lock (`StillExpired`).  The age of the row is not modelled.

### What is folded or left out of the claim model

* A launch is one step (reserve, lock, publish), a task stop is one step, the
  last three commits of a teardown are one step, and the stale-binding
  observation and its fenced release are one step (the release checks status and
  epoch again).
* A preparation that fails reads its claim again and then detaches or releases
  (`_settle_interrupted_preparation`, `commands/claim_commands.py:1493`).  Reading and
  acting are one step (`StillPreparing` in `JobDetach` and `JobSettle`).  What is done
  repeats the fences on session, task and epoch; only the phase could be another by then, and only
  the preparation itself activates its claim, of which there is one (`JobsCurrent`, proved).
* PAUSED tasks (manual pause), cleanup and ingest holds, refusal cooldowns and
  the identical-failure counter, re-enabling of quarantined slots, and sessions
  of the other lifecycles (push tasks, subtasks, supervisors).
* Processes: a session row's `running` is all the model knows of its process.
* Git: a slot reset succeeds, fails, condemns the slot or finds a foreign file.
* The claim frontier offers any claimable task; ordering and routing are not
  part of the protocol's safety.

### The box model's state and the code

`full`, `turnstile`, `box` and `holder` say whose open descriptor carries the flock
on each file (`box` is a set, because shared holders coexist); `record` is the
JSON in a slot file, reduced to what the code asks of it: no file, the record of
this protocol, or anything else (blank, or written by an older client).  `pc` is
how far `BoxLock.acquire`, or `SlotSemaphore.acquire` of an older checkout, is;
`cursor` and `cap` are its loops over the slots, `seen` and `flagged` the scan an
exclusive client does first; `probe` is a lock taken for the moment of a test.
A client stands for the descriptors, not for one process: it goes from `running`
to `orphan` when the wrapper dies and the child goes on, and `Close` happens when
the last process with the descriptors ends.  `Detached` names clients whose child
does not inherit them.

The lock order is full-suite lock, turnstile, box, slots.  Each polled try, each
slot of a claim, each read and each test of the scan is a step of its own;
claiming a slot and writing its record is one step for a client of this protocol
(others look at either only through a scan, which needs the turnstile) and two
steps for a slot-only client; giving back a partial claim is one step, between
`await`-free closes that only make locks free.  A timeout, a cancellation, an
error and a kill before the child exists are all `GiveUp`, in any step.

Left out: `protocol.json` and the refusal of an unknown version, the waiter files
(advisory), the record of the turnstile and box files, and creation of these two
files.  The snapshot a waiting client hands to its `on_wait` is an observer's.  An
observer takes one pass over the files and tests those that are free when it gets
there.

### The wait model's state and the code

`row, settles` are the rows of one source in `wait_source_events` and which of
them settles it; a row that is `open` has its number and is not committed.
`stamped` is `dispatched_at`, `cursor, lease, lapsed` the listener's cursor row.
`mode, mark, tried, plan` are the memory of a listener between two awaits: the
watermark of its tick, the rows this drain has attempted, and the attempt it
carries from its unlocked read to the graph lock.  `graph` is that lock when a
registration holds it over several steps; every other holder is one step, and
waits for it.  `reg, since` are a registration's progress and its watermark,
`outcome, decision, cleared` the wait record, `resume, hold, stopped, saved,
released, attempts, proofs, sess` the continuation, `record` the session row of
the new process, `control` the task-control lock and how far its holder is,
`procs` the processes that exist.  A session is named by the claim epoch it was
started with.

A writer allocates its number when it begins and commits later or never.  A
listener reads the watermark (no writer in flight), chooses an attempt (forward
rows, rows without subscribers, a retained row, or a stamped one for the kinds
that get a second look) from an unlocked read, and does it in one transaction
fenced by the lease and by the cursor it planned at.  A suspension is a series of
attempts under the control lock, each repeatable; so is a resume.  Listeners and
services may die between any two steps.

`StartTick` joins taking or renewing the lease (`waits/listener.py:142`) and reading the
tick's watermark (`waits/listener.py:1159-1164`).  A listener that loses its lease between
the two would drain to a newer watermark; every attempt looks at lease and cursor
again in its own transaction, so it commits nothing.

Left out: checkpoints and summaries; deadlines and ceilings as timers;
escalations and what a supervisor decides; cancellation and the retirement of
waits of terminal tasks; `source_unavailable`; coalescing of CI and pool sources;
waits for resources; a wait for several sources; the purge of old rows and the
redispatch and retire commands; pause of a task that is not parked; the death of
a session that waits in place; the reconciler's retirement of the old session's
row before parking; the hold `resume_detach_uncertain`; legacy parking.
`_retire_unused_retries` stamps many retained rows at once, the model one by one.

### The graph model's state and the code

`edges, status, blocked, container, attached, resolved` are what is committed in
`task_dependencies`, `tasks.status`, `tasks.is_blocked`, the `container` metadata,
`task_gates` and `gates.status`.  `tx[w]` is the transaction, or the command before
it, of one database connection: what it has decided (`edge`, `plan`), its writes
(`adds, dels, wrote, links, passes, flags`), its locks (`rows`, and `lock` for the
project's hierarchy lock), the rows it has collected and not evaluated (`pend`),
has evaluated (`fresh`) and found blocked (`held`), and the containers it still has
to look at (`todo`).

A statement reads what is committed at that moment and its own writes
(`EdgesOf`, `StatusOf`, `OpenLinksOf`) and waits for rows another transaction has
locked (`Free`).  An operation is a first step with its guard, its write and what
`_collect_affected` finds, then `Refresh` (lock the collected rows, evaluate
`blocked_predicate`), `Settle` as often as a container is due, and `Commit`.
Between any two of them other transactions step, the database may break a
deadlock (`Victim`), or the transaction may fail (`Rollback`).  Commands and
sweeps that decide in one transaction and write in a later one have a step for
each: `CheckEdge` and `InsertEdge`; `PlanRestart`, `PlanRelease`, `PlanSkip` and
`Carry`, which overwrites whatever the task has become.  Promotion and claims
repeat their conditions in the write, and so do they here.

`Reaches` and `Acyclic` say with sets what the code computes by walking: the sets
closed under an edge relation, and the sets without a first element.

Left out:

* statuses: FAILED (terminal or to be retried), PAUSED with its withheld
  children, suspended and review statuses; promotion of tasks BLOCKED by the graph
  (the terminal mark decides which those are);
* `delivery-of` edges (`blocks` plus a check outside the database), provenance edges;
* containers held open while empty, stale BLOCKED or PAUSED containers and
  integration episodes; nesting depth; several projects;
* creation of tasks and graphs, change sets with a deferred projection, `force`,
  removal of every edge kind of a pair at once (only `dep_type` given), the subtask checklist,
  the worker's guard against container targets;
* the transition table's enforcement, which warns by default; gate expiry and
  generated gates of pull requests;
* steps folded into one: validation, lock and write of `set_parent`; a write and
  its collection; the locking of collected rows in id order; foreign-key locks;
  `Settle`, where `settle_containers` (`database/queries/hierarchy_queries.py:2085`) selects the
  containers that are due and then writes one after the other: the model
  selects and writes one container in one step.
  The settlement after a container's release is the sweep's step.

## Runs

Bounds of the claim runs: two sessions are the fewest that let a successor
exist while its predecessor's late writers still run; `MaxEpoch = 2` gives the
task two grants, so an old epoch and a current one; `ClaimCap = 2` lets one
session claim twice.  The code's ladder ends at the third failed preparation;
ClaimCore and ClaimLive set `PrepareLimit` to two, so that two grants of a task reach
its end, and the other runs keep three.  Every counter is
bounded only by its guard.  The model stops when the epochs are used up and all
sessions are gone, so deadlock is not checked.  ClaimCore and ClaimLive have one agent and
slot, which their sessions use one after the other: with two tasks and restarts that is
1.25 million states, and a second agent and slot would more than double them.
With one task, ClaimCore's properties hold with two agents and slots as well, and
ClaimFaults and ClaimManaged have two of each.

Bounds of the box runs: one exclusive client, two shared ones, of which one
weighs two slots, and one slot-only client, each acquiring once, on three slots.
The exclusive client is configured for two, so that it meets a slot file above
its own capacity; two clients also queue for the full-suite lock.  Every mix of
leftover slot files and records is an initial state.  `MaxSlots` is the highest
slot number plus one.  In BoxLive there are two slots and an observer, and
both shared clients weigh two, so that each wants the slot the other may have got
(486,333 states).  A process that has left does not come back, so the model stops
and deadlock is not checked; `Served` says that nobody is stuck before that.

Bounds of the wait run: one task that may suspend and be paused, two listeners so that
the lease changes hands, two outbox rows so that the one that settles the source
may commit before or after another that was numbered earlier, one fault anywhere,
two stop proofs (the code allows five), one lifted hold.  The model may not stop while
something is under way, so deadlock is checked.  252,623 states; a random
simulation with three tasks, three rows and three faults found no state outside `WaitInv`.

Bounds of the graph run: two transactions at a time, as a disagreement between two
is what the locks must exclude, and two operations besides the sweep, with one
failure; the proofs cover more.  Four tasks give a container two children and a
fan-in, two levels of containers, a contingency, a withheld child and a gated
task, which are the four starts.  The starts have every edge kind; any other edge
may be added.  `AllStrict` makes every reparent refuse live parents, as the
operators' and workers' commands do; with it FALSE `PlacedUnderOpen` fails (see
the findings) and every theorem but one still holds.  After the last operation
the model may stop, so deadlock is not checked; 91,891 states.

| Run | Question | Instance |
|---|---|---|
| ClaimCore | who may end a lease or complete a task; whose claim file is it, with restarts | two tasks, one agent and slot |
| ClaimFaults | what backs a holder, stranded slots, who a lock belongs to (`LockInv`), with quarantined slots, retry closes, reopens, flipping prerequisites, lost claim files and restarts | one contended task |
| ClaimManaged | releases under the veto of an attached integration owner, fresh context per task; is an assignment stranded; what backs it (`GrantInv`); is `TaskLease` implemented, with restarts | one hierarchy task |
| ClaimLive | preparations end, closed holds are let go, with restarts and retry closes | one agent and slot, fairness |
| BoxLock | exclusion; what running work and waiters hold; the fence against slot-only clients; the order at the turnstile; is `BoxAdmission` implemented | four clients, three slots |
| BoxLive | does everybody who queues get served; what a scan may rely on and what a refusal rests on, with snapshots beside it | four clients, two slots, one observer, fairness |
| Waits | is a wake-up ever lost or repeated; may a late row hide below a watermark; do two processes ever work on one task; is `WaitOnce` implemented; does every wait of a settled source end | one task, two listeners, fairness |
| Graph | does `is_blocked` release and hold the right tasks; is the hierarchy a forest; does a claim start a blocked task, or a child appear under a closed container; is every finished container closed | four tasks, one gate, two transactions, fairness |
| LateRetryClose, BlockedRelease, TeardownMarker, ProjectionLag | disagreements between the code and its comments | see below |

`LockInv` in ClaimFaults and `GrantInv` in ClaimManaged (each contains the claim
invariants below it, `TypeOK` among them), `BoxInv` and `ScanInv` in the box runs,
`WaitInv` in Waits and `GraphInv` in Graph are the inductive invariants the proofs
use, so TLC checks on an instance what TLAPS proves for all.

Sessions, agents and workspaces (and tasks, when none is special) are
symmetric; `ClaimLive` uses no symmetry.

### Fairness

`Fairness` of Claim is weak fairness of what the daemon runs to its end: a preparation
coroutine, the tail of an accepted close, a teardown past its stop, and the
reconciler's orphan sweep, which runs every tick.  The prepare timeout has strong
fairness for its steps on a claim without a preparation: a session that keeps claiming re-enters its preparation and makes the
timeout momentarily disabled, but after a failed entry the refusal cooldown keeps
the session without a live job for longer than a reconciler tick, so the sweep
sees it.  Agents, operators and errors are never assumed to act.

`Fairness` of BoxLock is weak fairness of each client's own next step, of a test
run's end (jobs and full suites have a run timeout) and of an observer's unlock.
Nobody is assumed to time out or to die.  Weak fairness of a polled lock would
not do for clients that came for ever; with each client acquiring once, a lock
that others keep taking is free for good in the end.  Starvation by an endless
stream of newcomers is a question flock does not answer and the model does not ask.

`Fairness` of Waits is weak fairness of the end of a writer's transaction, of each
task's registration and in-place acknowledgement, of the listeners together, with
the expiry of a dead process's lease, and of the suspension and resume services,
which run in loops, with the new session's answers.  Nothing makes a writer start,
an operator act or a fault happen.

`Fairness` of TaskGraph is weak fairness of each writer's way to the end of what it
has begun (a database statement returns or fails) and of the settlement sweep,
which the monitoring cycle repeats.  No operation has to be issued, and no fault
to happen.

### Findings

* **LateRetryClose**: a close with retries left returns its task to READY before
  its tail runs.  The tail's `release_claim(READY)` compares the expected task
  and epoch with the old session's row only, so it requeues the task while a
  successor runs it (`commands/session_commands.py:1949`, against the comment at
  `database/queries/claim_queries.py:1733`).
* **BlockedRelease**: the READY release of a preparation whose task became
  blocked matches no task row and frees everything else
  (`database/queries/claim_queries.py:1826`, against the comment at 1840).
* **TeardownMarker**: teardown removes the claim file unconditionally after its
  slot was given back (`orchestrator/pools.py:1600`, against `claim_file.py:67`).
* **ProjectionLag**: a gate is resolved while another transaction attaches a task
  to it.  The resolve has read the waiters before, the attachment still sees the
  gate open, and nobody evaluates the task afterwards
  (`database/queries/gate_queries.py:463`, against the module comment of
  `database/queries/blocked_state.py:16`).

The passing runs check the corresponding properties where these do not
interfere: `RunningHolds` with `Detached = {}`, `OnlyHolderEndsLease` with `Requeues = FALSE`, `NoStrandedAssignment`
with `Blockable = {}`, and `ClaimFileNotForeign` in place of `ClaimFileKept`.  Of the projection, Graph checks
the halves that hold: `ReleasedRight` leaves out fan-in, `HeldRight` fan-in and gates.

Two disagreements of the box lock have no run of their own:

* the scan of an exclusive client reads a slot's record and then tests the lock,
  and takes a snapshot's test of the same free slot for the record's holder
  (`resources/semaphore.py:252`, against the docstring at line 18).  Every client in the
  queue takes snapshots (`resources/box_lock.py:178`), so `RefusalJustified` names both
  reasons a refusal may have; without the second, BoxLive violates it;
* with a client in `Detached`, `RunningHolds` fails in BoxLock: the script runner starts
  its program without the lock descriptors (`jobs/script_runner.py:356`, against
  `resources/box_lock.py:5`).

Met while modelling the claim, and kept out of the runs: an agent's row may say idle
while the agent runs a task.  A preparation that finds a foreign claim file evicts
its session with a release that has no expected task or epoch
(`_foreign_slot_claim_prepare_failed`, `commands/claim_commands.py:1807-1814`).
If the session has been torn down meanwhile, that release finds no task and
still resets the agent row (`database/queries/claim_queries.py:1911-1915`),
which by then may serve a successor with a claim of its own; the doctor's
`claims.holder_consistency` (`doctor/pool_checks.py:666`) and the comment at
`orchestrator/pools.py:1543-1544` say otherwise.  `AgentPinned` in `Claim` states the
doctor's check; TLC violates it in 20 states with three sessions, two agents and
workspaces, one task, `MaxEpoch = 3`, `ClaimCap = 1`, `Managed = {}`, `Restarts`
and every other switch FALSE.

Met while modelling the graph, and not promised otherwise in the repository:

* two dependency commands can close a cycle between them, since each validates
  before its own transaction (`BlockingIsDag` fails on the Graph instance);
* a path that creates a child without locking its parent can place it under a
  container that completes meanwhile (`PlacedUnderOpen` with `AllStrict = FALSE`);
* a fan-in edge that commits while a reparent is under way may be evaluated by neither,
  which is why the two projection invariants leave fan-in out;
* a restart decides before it writes, and overwrites a claim made in between.

Met while modelling the waits, and kept out of the passing properties by the
exceptions they name:

* A parked task that is paused cannot be fenced: the dispatcher stamps its row
  without a retry (`wait_runtime/dispatcher.py:154`).  After the pause only the kinds
  with a second look (`wait_runtime/listener.py:467`) are woken; of the others the wait
  stays behind.  Hence `Tasks \ paused` in `NoLostWakeup` and the last disjunct of
  `OutcomeTaken`; with `Recoverable = FALSE` and without them TLC violates both.
* A new session that dies between delivery and acknowledgement is reported, not
  replaced (`Stalled`).
* The second look relies on the stamped row still being there; the purge removes
  it after seven days.

## Proofs

`ClaimProofs` proves, for every value of the constants:

* `TypeCorrect`: `Spec => []TypeOK`;
* `LeasesUnique`: `Spec => []UniqueLease`, no two sessions ever hold a task under
  one epoch;
* `ActivationCurrent`: `Spec => ActivationIsCurrent`.

None is inductive alone.  `claims` is typed by the budget, and activation
increments it, so typing needs that a session in preparation has budget left,
which needs that a locked row is still in preparation.  `UniqueLease` is broken by
an activation that writes the epoch of another grant, so it needs that the row a
preparation has locked still holds that preparation's task and epoch
(`LockedRow`), which needs that only one preparation has it locked
(`LockedOnce`), and that every writer of a session row waits for its lock.
`LeaseFenced` bounds held epochs by the task's, so that a new grant's epoch is
above all of them.  `LeaseInv` is the conjunction.  `LeaseKept` and `LeaseUnbound`
are the two ways a step treats the lease columns; `ReleaseStep` covers every
caller of `Release`; one lemma per group of actions then follows the disjuncts
of `Next`.

The other claim theorems are a chain of four modules, each extending the one
before, over the invariants of `ClaimInvariant`.  A condition on the instance is a
hypothesis of the theorem that needs it, and the last column says what shows that
something of the kind is needed.

| Module | Theorems | For | Outside it |
|---|---|---|---|
| BindingProofs | `BindingInvariant` (`[]BindingInv`), `SlotNotStranded` (`[]NoStrandedSlot`) | every instance | |
| HoldProofs, on LockProofs | `LockInvariant` (`[]LockInv`), `FreeSessionClaims` (`[]FreeSessionCanClaim`), `ClaimFileOwn` (`[]ClaimFileNotForeign`), `HolderKeepsSlot` | `Contained`: no hierarchy tasks, or no quarantined slots, or `Final` | guided runs, below |
| HoldProofs | `HoldInvariant` (`[]HoldInv`), `HolderIsBacked` (`[]HolderBacked`), `LeaseEndsWithHolder` (`OnlyHolderEndsLease`), `CompletionByHolder` (`CompletedByItsHolder`), `AttachedKept` (`AttachedWriterKept`) | `Final`: `~Requeues` and `~Reopens`, a closed task does not come back | LateRetryClose |
| LeaseProofs | `GrantInvariant` (`[]GrantInv`), `AssignmentNotStranded` (`[]NoStrandedAssignment`), `LeaseRefined` (`LeaseSpec`) | `Final` and `Blockable = {}`: no prerequisite of a held task comes back | BlockedRelease |

*Binding.*  A slot is stranded when its task lock outlives the hold it stands for.
`Answered` says that a locked task is held by a session of the locking agent, and
that needs which session an agent serves (`AgentOnce`), what a teardown may still
hold between its commits (`TeardownHold`), and who is assigned (`Assignment`).
`Yields` is what every step but a launch and a claim does: it only gives up holds, locks
and phases, and gives up a hold together with its lock, if it answers one.  So the invariant is
proved for `Yields` once, and each action is shown to be of that form.

*Locks.*  An agent and its slot pass from one session to the next while late
writers of the earlier one still run, and some of them release by agent or by
slot.  `OneRooted` and `SlotKept` say that at most one session of an agent needs
its slot: a live one, the writer of an attached branch, or the session of a
preparation that is past its fence and may still condemn the slot.  `OwnerHolds` and
`FileWritten` are what those two need of owner rows and claim files.  The steps keep
`LockInv` where `OwnersCurrent` holds before them (`LockProofs`).  It is about one action:
owner recovery takes no task control lock (`integration/owner_recovery.py:1178-1322`),
and what keeps it from freeing the slot under a preparation is that the claim it
finds is current, so that it ends that claim too.  `Contained` lists the instances in
which `OwnersCurrent` follows.  With hierarchy tasks, quarantines, retries that
requeue and reopened tasks all at once, `SlotKept` is false.  A guided run of the model (not one of
the runs; 31 states) shows it: the recovery finds a claim that a requeue has made old and frees
the slot, and the preparation has yet to condemn it.  In a longer one (53 states, six sessions) a late
eviction as described above also makes the retired agent idle, a new session is
launched with it, and the first session's quarantine takes the slot's lock from the
new session: then `FreeSessionCanClaim` is false as well.

*Holds.*  Where no closed task comes back, a task's epoch moves on only after its hold
is gone, so every hold is the current lease (`HeldCurrent`), a close whose session has not
let go finds the status it wrote (`CloseWritten`), and a claim has at most one preparation, which
is over or is that of what its session is preparing (`JobsCurrent`).
`HolderBacked`, the fences of the two action properties and `OwnersCurrent` follow from these.
That nothing but its close, the operator or an eviction ends an active claim (the second half of
`OnlyHolderEndsLease`) is `ActiveKept`: a release by anybody else is of a claim that
`MayEnd` describes, since it is in preparation, its task is over or its session is to stop.
ClaimFaults checks `HolderBacked` with `Requeues` and `Reopens` on, and finds it true on
its instance; for all constants, only what `HolderKeepsSlot` states is proved there: the
holder is the assigned agent's session and keeps its slot, locked for no other task.

*Leases.*  The abstract lease needs that a grant goes to an agent without a running task.
`AssignedAlone` says so, and holds because every step that drops a hold takes the
task out of IN_PROGRESS (`NoStrandedAssignment`), which a blocked task escapes.
A failed preparation that detaches its branch writes the task's status as well; that
what it requeues is not running rests on `Controlled`: one preparation at a time is past
a task's fence, and what its session holds of that task is not active yet.
`ClaimGrants`, `JobActivates` and `EffectsEnd` map the claim, the activation and the
release to the three actions of `TaskLease`; `StepLeases` shows that every step is one
of them or a stutter.

Assumptions: the constant assumptions of `ClaimState` (`RowAssumption` says that NULL
is not a row), `ClaimPreparation` and `ClaimEnd`, and the conditions in the table.
Model-checked only: liveness.  Not invariant, so not proved: `ClaimFileKept` (TeardownMarker)
and `AgentPinned` (above).

`BoxProofs` proves about the box lock, for any clients, observers, slots,
capacities and weights:

* `BoxInvariant`: `Spec => []BoxInv`, the locks a client holds are those its step
  calls for; `BoxExclusive`, `WaitersHoldNothing` and `LegacyFenced` follow in
  every state (`ExclusiveAlone`, `WaitersAreEmptyHanded`, `ExclusiveFencesLegacy`);
* `InheritedCapacityIsKept`: `RunningHolds`, assuming `Detached = {}`;
* `ExclusiveIsNotOvertaken`: `NotOvertaken`;
* `AdmissionRefined`: `Spec => AdmissionSpec`, every step is a step of
  `BoxAdmission` or a stutter;
* `ScanInvariant`: `Spec => []ScanInv`, what a scan may believe of the records it
  reads;
* `RefusalsJustified`: `Spec => RefusalJustified` from it, with any observers.

Exclusion is not inductive: it needs which steps hold the box (`BoxHeld`), that a
step with the turnstile is the only one (`TurnstileHeld`), and, for the fence,
that an exclusive claim ends with all of `0..cap-1`, which is a fact about
cardinalities (`AdmitHolds`: a subset as large as the interval is the interval).
`TypeOK` needs the loop bounds.  `RefusalJustified` needs `ScanInv` beside it.  Only the
constant assumptions of `BoxLock` are used, and the one named above.  Liveness
(`Served`) is model-checked only.

`WaitProofs` proves about the waits, for any tasks, listeners, rows and budgets:

* `WaitInvariant`: `Spec => []WaitInv`; `WatermarksBehind` (`[]Frontier`), `WakeupKept`
  (`[]NoLostWakeup`) and `SingleWriter` (`[]OneWriter`) follow;
* `CursorMoves`: `CursorMonotone`;
* `CurrentWriterAcks`: `AckByCurrentWriter`;
* `WaitsImplementOnce`: `Spec => WakesOnce`, every step is a step of `WaitOnce` or a stutter.

`NoLostWakeup` is not inductive.  The commit that settles the source is a witness
for a pending wait only because its number is above the wait's watermark
(`Frontier`), which holds because the watermark is read while no row is open and
numbers are allocated in order (`InOrder`).  A stamp takes a witness away: retiring
stamps only rows nobody subscribes to, and a dispatch stamps only when no subscriber
asks for a retry, which then have been woken (`StampedWakes`).  A registration that
has looked and not committed needs the same witness in advance (`Registering`).
`OneWriter` needs where a continuation is: `Continuation` has a conjunct for each of
its stages (`Suspending`, `Asleep`, `Reserved`, `Launched`), each of which says
which processes may exist.  The frame lemmas (`Kept`, `OthersKeep`, `SharedFrame`)
say what a step leaves alone, so that each action is proved for the half of the
invariant it touches.  Only the constant assumptions of `WaitState` are used.
`OutcomeTaken`, a liveness property, is model-checked only.

`GraphProofs` proves about the graph, for any tasks, gates, starts, numbers of
transactions, operations and faults:

* `GraphInvariant`: `Spec => []GraphInv`; `Released` (`[]ReleasedRight`), `Held`
  (`[]HeldRight`) and `ForestKept` (`[]HierarchyIsForest`) follow;
* `ClaimsUnblocked`: `Spec => StartsUnblocked`;
* `PlacementsOpen`: `Spec => PlacedUnderOpen`, assuming `AllStrict`.

The projection's correctness is not inductive: a commit makes writes visible that
other open transactions have not seen.  The argument is that of the locks.  A
transaction has locked every row it writes or has evaluated (`Locking`), and two
never have the same row (`Free`).  It evaluates both ends of an edge it changes
and every dependent of a status it changes, all at once (`Collecting`).  So a
commit that changes what the predicate of a task reads has evaluated that task
itself, and no other open transaction has: what another has evaluated stays
true (`Evaluated`), whichever commits first.  Fan-in and gates escape, because a
waiter's row is not the row that changes.  A claim need not evaluate, since it
keeps its row locked and unblocked (`Claiming`).  For the hierarchy, `Placing` says
that only the holder of the hierarchy lock changes membership, and to a forest;
`Replanted` is the fact about relations that it rests on.  Only the constant
assumptions of `TaskGraphState` are used.  `SettledEventually` is model-checked only.

## Plan

1. The claim protocol, its abstract lease and the first theorems (done).
   Every safety property a run checks is a theorem.  Next for it: `HolderBacked`
   where a closed task comes back, teardown's final commits one by one, manual pause.
2. `BoxLock` with the slot semaphore (done).  Next for it: the version manifest.
3. `TaskGraph`: transitions, edge validation, hierarchy, gates and the blocked
   projection against its definition (done).  Next for it: FAILED and PAUSED,
   change sets with their deferred projection, gate expiry.
4. `PoolSizing` and placement: caps as operators, composed with launch and drain.
5. `ProviderAvailability`: circuit and canary.
6. Waits and continuations: no lost wake-up, one wake per wait (done).  Next for
   them: several sources per wait, cancellation, the purge, in-place deaths.
7. Messages, timers, jobs, merge slots, playbook receipts: leases with expiry.
