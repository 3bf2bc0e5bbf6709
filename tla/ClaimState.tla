----------------------------- MODULE ClaimState -----------------------------
(***************************************************************************)
(* The rows, files and daemon memory the pool-worker claim protocol works  *)
(* on, the predicates its SQL guards are made of, and the one transaction  *)
(* every path out of a claim goes through (_release_claim_on).             *)
(*                                                                         *)
(* A pool session is one process incarnation bound at launch to one agent  *)
(* row and one workspace slot.  It claims a READY task, the daemon         *)
(* prepares the slot and activates the claim, the agent works and closes,  *)
(* and the session claims again.  The claim is a lease: the pair           *)
(* (task, claim_epoch) is what every later write is fenced on.             *)
(***************************************************************************)
EXTENDS Naturals, FiniteSets

CONSTANTS
    Tasks, Sessions, Agents, Workspaces,
    None,           \* SQL NULL, an absent file, an absent in-memory entry
    MaxEpoch,       \* bound on claim_epoch (model bound, no limit in the code)
    ClaimCap,       \* max_claims_per_session of the profile
    PrepareLimit,   \* failed preparations before a task is BLOCKED (3 in code)
    FreshContext,   \* swarm.fresh_context_per_task: drain after each close
    Managed         \* tasks of a hierarchy project: their branch has an owner row

ASSUME NoneAssumption ==
    /\ None \notin Tasks \cup Sessions \cup Agents \cup Workspaces
    /\ None \notin {"preparing", "active"}
ASSUME BoundAssumption ==
    /\ MaxEpoch \in Nat \ {0}
    /\ ClaimCap \in Nat \ {0}
    /\ PrepareLimit \in Nat \ {0}
\* pool_claim_cap: a fresh context per task is a budget of one claim.
ASSUME FreshContextAssumption ==
    FreshContext \in BOOLEAN /\ (FreshContext => ClaimCap = 1)
ASSUME ManagedAssumption == Managed \subseteq Tasks

VARIABLES
    status, epoch, assigned, blocked, attempts,        \* tasks
    owner,                                             \* integration_branch_owners
    sstate, desired, held, phase, leased, claims,      \* sessions
    agentOf, slotOf,                                   \* sessions, set at launch
    astate, current,                                   \* agents
    lockAgent, lockTask, enabled, marker,              \* workspaces, .aq/claim.json
    jobs, closing, stopping                            \* daemon memory

taskVars    == <<status, epoch, assigned, blocked, attempts>>
sessionVars == <<sstate, desired, held, phase, leased, claims>>
launchVars  == <<agentOf, slotOf>>
agentVars   == <<astate, current>>
lockVars    == <<lockAgent, lockTask>>
memoryVars  == <<jobs, closing, stopping>>
vars == <<taskVars, owner, sessionVars, launchVars, agentVars, lockVars,
          enabled, marker, memoryVars>>

-----------------------------------------------------------------------------
\* Values

TaskStatus   == {"READY", "IN_PROGRESS", "BLOCKED", "COMPLETED", "FAILED"}
SessionState == {"absent", "running", "stopped"}
ClaimPhase   == {"preparing", "active"}
AgentState   == {"IDLE", "BUSY", "RETIRED"}
Epoch        == 0..MaxEpoch

\* .aq/claim.json
Marker == [task : Tasks, epoch : Epoch, session : Sessions]

\* One entry of orchestrator.claim_preparations, with how far its coroutine is, and
\* whether it was entered for a claim that had none for a while.
JobStep ==
    {"queued",       \* waits for the task control lock
     "fenced",       \* claim_preparation_state matched
     "proved",       \* lock_claim_workspace_proof holds the session row
     "marked",       \* slot reset done, marker written, still in that transaction
     "failed",       \* an exception unwound the transaction
     "foreign",      \* ... it was ForeignSlotClaim
     "releasing",    \* superseded check passed, release_claim not yet run
     "detached",     \* its integration owner row was detached first
     "evicting",     \* the same after ForeignSlotClaim
     "rechecked",    \* activation found the task blocked
     "quarantining", \* slot lock given back, workspace not yet disabled
     "interrupted"}  \* deadline or abort: cancelled, not yet settled
Job == [session : Sessions, task : Tasks, epoch : Epoch, step : JobStep,
        resumed : BOOLEAN]

\* The tail of an accepted close: draft pending, then draft discarded.
Closing  == [task : Tasks, epoch : Epoch, status : TaskStatus,
             stage : {"accepted", "recorded"}]
\* _terminate_pool_session's snapshot of the row, and how far it is.
Stopping == [task : Tasks \cup {None}, epoch : Epoch, lost : BOOLEAN,
             stage : {"stopping", "released"}]

\* NULL is no row.
ASSUME RowAssumption == None \notin Marker /\ None \notin Closing /\ None \notin Stopping

TypeOK ==
    /\ status    \in [Tasks -> TaskStatus]
    /\ epoch     \in [Tasks -> Epoch]
    /\ assigned  \in [Tasks -> Agents \cup {None}]
    /\ blocked   \in [Tasks -> BOOLEAN]
    /\ attempts  \in [Tasks -> 0..PrepareLimit]
    /\ owner     \in [Tasks -> Sessions \cup {None}]
    /\ sstate    \in [Sessions -> SessionState]
    /\ desired   \in [Sessions -> {"running", "stopped"}]
    /\ held      \in [Sessions -> Tasks \cup {None}]
    /\ phase     \in [Sessions -> ClaimPhase \cup {None}]
    /\ leased    \in [Sessions -> Epoch]
    /\ claims    \in [Sessions -> 0..ClaimCap]
    /\ agentOf   \in [Sessions -> Agents \cup {None}]
    /\ slotOf    \in [Sessions -> Workspaces \cup {None}]
    /\ astate    \in [Agents -> AgentState]
    /\ current   \in [Agents -> Tasks \cup {None}]
    /\ lockAgent \in [Workspaces -> Agents \cup {None}]
    /\ lockTask  \in [Workspaces -> Tasks \cup {None}]
    /\ enabled   \in [Workspaces -> BOOLEAN]
    /\ marker    \in [Workspaces -> Marker \cup {None}]
    /\ jobs      \subseteq Job
    /\ closing   \in [Sessions -> Closing \cup {None}]
    /\ stopping  \in [Sessions -> Stopping \cup {None}]

-----------------------------------------------------------------------------
\* Predicates of the guards

Live(s) == sstate[s] = "running"

\* s holds t's current lease: the binding every later command is checked against.
Holds(s, t) ==
    /\ held[s] = t
    /\ phase[s] # None
    /\ leased[s] = epoch[t]

OtherLive(s) == \E o \in Sessions \ {s} : Live(o) /\ agentOf[o] = agentOf[s]

\* Mutant: the proof reads the session row without locking it.
RowUnlocked(s) == FALSE

\* The job's transaction keeps the session row locked from the workspace proof
\* until it commits or unwinds: no other writer touches that row meanwhile.
RowLocked(s) == \E j \in jobs : j.session = s /\ j.step \in {"proved", "marked"}

\* The per-task control lock: a preparation job past "queued", or a teardown of
\* a claim that lost its marker, holds it.
JobControls(j) == j.step \notin {"queued", "interrupted"}
ControlHeld(t) ==
    \/ \E j \in jobs : j.task = t /\ JobControls(j)
    \/ \E s \in Sessions :
          stopping[s] # None /\ stopping[s].lost /\ stopping[s].task = t

LiveJob(s, t, e) == \E j \in jobs : j.session = s /\ j.task = t /\ j.epoch = e

\* Mutant: only an active claim protects an attached writer.
VetoedActive(s) ==
    /\ agentOf[s] # None /\ phase[s] = "active"
    /\ \E t \in Tasks : owner[t] = s
    /\ lockAgent[slotOf[s]] = agentOf[s]

\* An attached integration owner whose workspace the session's agent still locks.
Vetoed(s) ==
    /\ agentOf[s] # None
    /\ \E t \in Tasks : owner[t] = s
    /\ lockAgent[slotOf[s]] = agentOf[s]

\* claim_file.remove_claim_file_if_matches
Names(w, t, e) == marker[w] # None /\ marker[w].task = t /\ marker[w].epoch = e
OwnMarker(w, t, e, s) == Names(w, t, e) /\ marker[w].session = s
MarkerWithout(w, cond) == [marker EXCEPT ![w] = IF cond THEN None ELSE @]

\* lock_claim_workspace_proof, over the session, task and workspace rows.
Proof(s, t, e) ==
    /\ held[s] = t /\ phase[s] = "preparing" /\ leased[s] = e
    /\ sstate[s] = "running" /\ desired[s] = "running"
    /\ status[t] = "IN_PROGRESS" /\ epoch[t] = e /\ assigned[t] = agentOf[s]
    /\ enabled[slotOf[s]]
    /\ lockAgent[slotOf[s]] = agentOf[s] /\ lockTask[slotOf[s]] = t

-----------------------------------------------------------------------------
\* _release_claim_on: the one transaction that ends a claim

NoFence == [status |-> None, epoch |-> None]
Fence(st, e) == [status |-> st, epoch |-> e]

\* Mutant: a READY release is fenced on the status it writes.
RowMatchesTarget(t, target, fence) ==
    IF fence.status # None
      THEN status[t] = fence.status /\ fence.epoch \in {None, epoch[t]}
      ELSE target = "READY" => status[t] = "READY" /\ ~blocked[t]
\* The WHERE clause of the release's task UPDATE.
RowMatches(t, target, fence) ==
    IF fence.status # None
      THEN status[t] = fence.status /\ fence.epoch \in {None, epoch[t]}
      ELSE target = "READY" => status[t] = "IN_PROGRESS" /\ ~blocked[t]

\* The second UPDATE of a READY release: exactly this claim, requeued already.
RequeuedMatches(s, t, target) ==
    /\ target = "READY" /\ status[t] = "READY"
    /\ assigned[t] = agentOf[s] /\ epoch[t] = leased[s]

Fits(s, target, fence) ==
    held[s] # None /\ fence # NoFence => RowMatches(held[s], target, fence)

Releasable(s, target, fence) == ~RowLocked(s) /\ ~Vetoed(s) /\ Fits(s, target, fence)

Ordinary == [drain |-> FALSE, backoff |-> FALSE, unlock |-> FALSE, retire |-> FALSE]

\* Mutant: only teardown gives the task lock back.
ReleasedSlotRetiring(s, opt, w) == lockAgent[w] = agentOf[s] /\ opt.retire

\* The slots a release touches; "retire" is terminate_pool_session's sweep of
\* everything the agent locks, in the same transaction.
ReleasedSlot(s, opt, w) ==
    lockAgent[w] = agentOf[s] /\ (opt.retire \/ lockTask[w] \in {None, held[s]})

\* The writes of a release that was not refused.
Release(s, target, fence, opt) ==
    LET t == held[s]
        a == agentOf[s]
        hit == t # None /\ RowMatches(t, target, fence)
        own == t # None /\ ~hit /\ RequeuedMatches(s, t, target)
        freed(w) == ReleasedSlot(s, opt, w) /\ (opt.retire \/ opt.unlock)
    IN  /\ status' = IF hit THEN [status EXCEPT ![t] = target] ELSE status
        /\ assigned' = IF hit \/ own THEN [assigned EXCEPT ![t] = None] ELSE assigned
        /\ attempts' = IF t # None /\ opt.backoff /\ attempts[t] < PrepareLimit
                         THEN [attempts EXCEPT ![t] = @ + 1] ELSE attempts
        /\ held' = [held EXCEPT ![s] = None]
        /\ phase' = [phase EXCEPT ![s] = None]
        /\ leased' = [leased EXCEPT ![s] = IF hit \/ own THEN epoch[t] ELSE 0]
        /\ desired' = [desired EXCEPT ![s] = IF opt.drain THEN "stopped" ELSE @]
        /\ lockTask' = [w \in Workspaces |->
              IF ReleasedSlot(s, opt, w) THEN None ELSE lockTask[w]]
        /\ lockAgent' = [w \in Workspaces |-> IF freed(w) THEN None ELSE lockAgent[w]]
        /\ astate' = [astate EXCEPT ![a] = IF opt.retire THEN "RETIRED" ELSE "IDLE"]
        /\ current' = [current EXCEPT ![a] = None]
        /\ UNCHANGED <<epoch, blocked, sstate, claims, launchVars>>
=============================================================================
