---------------------------- MODULE ClaimProofs ----------------------------
(***************************************************************************)
(* Type correctness and the uniqueness of leases, for every value of the   *)
(* constants.  LeaseInv is inductive: a session row that a preparation has *)
(* locked is left alone by every other writer, so the epoch activation     *)
(* writes is the epoch that was granted, and grants only ever increase.    *)
(***************************************************************************)
EXTENDS Claim, TLAPS

Locked(j) == j.step \in {"proved", "marked"}

\* The part of LeaseInv that is about leases.
LeaseCore == LeaseFenced /\ UniqueLease /\ LockedRow /\ LockedOnce /\ BudgetLeft

\* No preparation takes a row lock in this step.
NoNewLock == \A k \in jobs' : Locked(k) => k \in jobs

\* The columns of TypeOK that a release may write.
ReleasedType ==
    /\ status    \in [Tasks -> TaskStatus]
    /\ assigned  \in [Tasks -> Agents \cup {None}]
    /\ attempts  \in [Tasks -> 0..PrepareLimit]
    /\ desired   \in [Sessions -> {"running", "stopped"}]
    /\ held      \in [Sessions -> Tasks \cup {None}]
    /\ phase     \in [Sessions -> ClaimPhase \cup {None}]
    /\ leased    \in [Sessions -> Epoch]
    /\ lockAgent \in [Workspaces -> Agents \cup {None}]
    /\ lockTask  \in [Workspaces -> Tasks \cup {None}]
    /\ astate    \in [Agents -> AgentState]
    /\ current   \in [Agents -> Tasks \cup {None}]

\* The columns, files and memory of TypeOK that a release never writes.
OtherType ==
    /\ owner    \in [Tasks -> Sessions \cup {None}]
    /\ enabled  \in [Workspaces -> BOOLEAN]
    /\ marker   \in [Workspaces -> Marker \cup {None}]
    /\ jobs     \subseteq Job
    /\ closing  \in [Sessions -> Closing \cup {None}]
    /\ stopping \in [Sessions -> Stopping \cup {None}]

-----------------------------------------------------------------------------
\* Lemmas about the parts every action is made of

\* A release writes values of the columns' types.
LEMMA ReleaseType ==
    ASSUME TypeOK, NEW s \in Sessions, NEW target \in TaskStatus, NEW fence, NEW opt,
           Release(s, target, fence, opt)
    PROVE  /\ ReleasedType'
           /\ UNCHANGED <<epoch, blocked, sstate, claims, agentOf, slotOf>>
<1>1. UNCHANGED <<epoch, blocked, sstate, claims, agentOf, slotOf>>
  BY DEF Release, launchVars
<1>2. status' \in [Tasks -> TaskStatus] /\ assigned' \in [Tasks -> Agents \cup {None}]
  BY DEF Release, TypeOK
<1>3. attempts' \in [Tasks -> 0..PrepareLimit]
  BY BoundAssumption DEF Release, TypeOK
<1>4. /\ desired' \in [Sessions -> {"running", "stopped"}]
      /\ held' \in [Sessions -> Tasks \cup {None}]
      /\ phase' \in [Sessions -> ClaimPhase \cup {None}]
  BY DEF Release, TypeOK
<1>5. leased' \in [Sessions -> Epoch]
  BY NoneAssumption, BoundAssumption DEF Release, TypeOK, Epoch
<1>6. /\ lockAgent' \in [Workspaces -> Agents \cup {None}]
      /\ lockTask' \in [Workspaces -> Tasks \cup {None}]
  BY DEF Release, TypeOK
<1>7. astate' \in [Agents -> AgentState] /\ current' \in [Agents -> Tasks \cup {None}]
  BY DEF Release, TypeOK, AgentState
<1>. QED BY <1>1, <1>2, <1>3, <1>4, <1>5, <1>6, <1>7 DEF ReleasedType

\* A step that writes no lease column and locks no row keeps the lease part.
LEMMA LeaseKept ==
    ASSUME LeaseInv, UNCHANGED <<epoch, held, phase, leased, claims>>, NoNewLock
    PROVE  LeaseCore'
<1>1. LeaseFenced' /\ UniqueLease' /\ BudgetLeft'
  BY DEF LeaseInv, LeaseFenced, UniqueLease, BudgetLeft
<1>2. LockedRow' /\ LockedOnce'
  BY DEF LeaseInv, LockedRow, LockedOnce, NoNewLock, Locked
<1>. QED BY <1>1, <1>2 DEF LeaseCore

\* Unbinding a session whose row is not locked keeps the lease part, whatever
\* epoch its row remembers.
LEMMA LeaseUnbound ==
    ASSUME LeaseInv, NEW S \in SUBSET Sessions,
           \A s \in S : ~RowLocked(s),
           held' = [s \in Sessions |-> IF s \in S THEN None ELSE held[s]],
           phase' = [s \in Sessions |-> IF s \in S THEN None ELSE phase[s]],
           \A s \in Sessions \ S : leased'[s] = leased[s],
           UNCHANGED <<epoch, claims>>, NoNewLock
    PROVE  LeaseCore'
<1>. USE NoneAssumption
<1>1. LeaseFenced' /\ UniqueLease'
  BY DEF LeaseInv, LeaseFenced, UniqueLease
<1>2. BudgetLeft'
  BY DEF LeaseInv, BudgetLeft
<1>3. LockedRow' /\ LockedOnce'
  BY DEF LeaseInv, LockedRow, LockedOnce, NoNewLock, Locked, RowLocked, TypeOK, Job
<1>. QED BY <1>1, <1>2, <1>3 DEF LeaseCore

\* A transaction that releases a session whose row is not locked, or declines,
\* keeps the whole invariant.
LEMMA ReleaseStep ==
    ASSUME LeaseInv, NEW s \in Sessions, NEW target \in TaskStatus, NEW fence, NEW opt,
           ~RowLocked(s), NoNewLock, OtherType',
           \/ Release(s, target, fence, opt)
           \/ UNCHANGED <<taskVars, sessionVars, launchVars, agentVars, lockVars>>
    PROVE  LeaseInv'
<1>1. CASE Release(s, target, fence, opt)
  <2>1. TypeOK'
    BY <1>1, ReleaseType DEF LeaseInv, TypeOK, ReleasedType, OtherType
  <2>2. LeaseCore'
    <3>1. /\ held' = [o \in Sessions |-> IF o \in {s} THEN None ELSE held[o]]
          /\ phase' = [o \in Sessions |-> IF o \in {s} THEN None ELSE phase[o]]
          /\ \A o \in Sessions \ {s} : leased'[o] = leased[o]
      BY <1>1 DEF Release, LeaseInv, TypeOK
    <3>2. UNCHANGED <<epoch, claims>>
      BY <1>1 DEF Release
    <3>3. {s} \in SUBSET Sessions /\ \A o \in {s} : ~RowLocked(o)
      OBVIOUS
    <3>. QED BY <3>1, <3>2, <3>3, LeaseUnbound
  <2>. QED BY <2>1, <2>2 DEF LeaseInv, LeaseCore
<1>2. CASE UNCHANGED <<taskVars, sessionVars, launchVars, agentVars, lockVars>>
  <2>1. TypeOK'
    BY <1>2 DEF LeaseInv, TypeOK, OtherType, taskVars, sessionVars, launchVars,
                agentVars, lockVars
  <2>2. LeaseCore'
    BY <1>2, LeaseKept DEF taskVars, sessionVars
  <2>. QED BY <2>1, <2>2 DEF LeaseInv, LeaseCore
<1>. QED BY <1>1, <1>2

\* Cleaning a claim file up leaves claim files.
LEMMA MarkerType ==
    ASSUME TypeOK, NEW w, NEW cond, marker' = MarkerWithout(w, cond)
    PROVE  marker' \in [Workspaces -> Marker \cup {None}]
BY DEF TypeOK, MarkerWithout

\* A job that ends, or goes on to a step outside its transaction, locks no row.
LEMMA JobMoves ==
    ASSUME TypeOK, NEW j \in jobs, NEW step \in JobStep \ {"proved", "marked"},
           Advance(j, step) \/ Finish(j)
    PROVE  jobs' \subseteq Job /\ NoNewLock
<1>1. [j EXCEPT !.step = step] \in Job /\ [j EXCEPT !.step = step].step = step
  BY DEF TypeOK, Job
<1>. QED BY <1>1 DEF TypeOK, Advance, Finish, NoNewLock, Locked

\* ... and if the step writes nothing else but the claim file, all is kept.
LEMMA JobOnly ==
    ASSUME LeaseInv, NEW j \in jobs, NEW step \in JobStep \ {"proved", "marked"},
           Advance(j, step) \/ Finish(j),
           marker' \in [Workspaces -> Marker \cup {None}],
           UNCHANGED <<tableVars, closeVars>>
    PROVE  LeaseInv'
<1>1. jobs' \subseteq Job /\ NoNewLock
  BY JobMoves DEF LeaseInv
<1>2. TypeOK'
  BY <1>1 DEF LeaseInv, TypeOK, tableVars, closeVars, taskVars, sessionVars, launchVars,
              agentVars, lockVars
<1>3. LeaseCore'
  BY <1>1, LeaseKept DEF tableVars, taskVars, sessionVars
<1>. QED BY <1>2, <1>3 DEF LeaseInv, LeaseCore

\* A job's release.
LEMMA JobReleases ==
    ASSUME LeaseInv, NEW j \in jobs, NEW step \in JobStep \ {"proved", "marked"},
           Advance(j, step) \/ Finish(j), ~RowLocked(j.session),
           NEW target \in TaskStatus, NEW fence, NEW opt,
           \/ Release(j.session, target, fence, opt)
           \/ UNCHANGED <<taskVars, sessionVars, launchVars, agentVars, lockVars>>,
           enabled' \in [Workspaces -> BOOLEAN],
           marker' \in [Workspaces -> Marker \cup {None}],
           UNCHANGED <<owner, closeVars>>
    PROVE  LeaseInv'
<1>1. jobs' \subseteq Job /\ NoNewLock
  BY JobMoves DEF LeaseInv
<1>2. OtherType'
  BY <1>1 DEF LeaseInv, TypeOK, OtherType, closeVars
<1>3. j.session \in Sessions
  BY DEF LeaseInv, TypeOK, Job
<1>. QED BY <1>1, <1>2, <1>3, ReleaseStep

-----------------------------------------------------------------------------
\* One lemma per group of actions

\* Binding a session to an agent and a slot.
LEMMA LaunchInv ==
    ASSUME LeaseInv, NEW s \in Sessions, NEW a \in Agents, NEW w \in Workspaces,
           Launch(s, a, w)
    PROVE  LeaseInv'
<1>1. TypeOK'
  BY DEF Launch, LeaseInv, TypeOK, SessionState, taskVars, agentVars, memoryVars
<1>2. LeaseCore'
  BY LeaseKept DEF Launch, NoNewLock, taskVars, memoryVars
<1>. QED BY <1>1, <1>2 DEF LeaseInv, LeaseCore

\* A preparation is entered as "queued".
LEMMA QueueTyped ==
    ASSUME TypeOK, NEW s \in Sessions, NEW t \in Tasks, NEW e \in Epoch, NEW r \in BOOLEAN,
           Queue(s, t, e, r)
    PROVE  jobs' \subseteq Job /\ \A j \in jobs' : j \in jobs \/ j.step = "queued"
<1>. DEFINE k == [session |-> s, task |-> t, epoch |-> e, step |-> "queued", resumed |-> r]
<1>1. k \in Job /\ k.step = "queued"
  BY DEF Job, JobStep
<1>2. jobs' = jobs \cup {k}
  BY DEF Queue
<1>. QED BY <1>1, <1>2 DEF TypeOK

\* The grant: the new epoch is above every epoch the task was ever held under.
LEMMA ClaimTaskInv ==
    ASSUME LeaseInv, NEW s \in Sessions, NEW t \in Tasks, ClaimTask(s, t)
    PROVE  LeaseInv'
<1>. USE NoneAssumption, BoundAssumption DEF LeaseInv
<1>1. /\ epoch[t] \in Nat /\ epoch[t] < MaxEpoch
      /\ epoch' = [epoch EXCEPT ![t] = epoch[t] + 1]
      /\ held' = [held EXCEPT ![s] = t]
      /\ phase' = [phase EXCEPT ![s] = "preparing"]
      /\ leased' = [leased EXCEPT ![s] = epoch[t] + 1]
      /\ UNCHANGED claims
      /\ ~RowLocked(s) /\ claims[s] < ClaimCap
  BY DEF ClaimTask, NextEpoch, SlotFree, TypeOK, Epoch
<1>2. jobs' \subseteq Job /\ NoNewLock
  <2>1. Queue(s, t, NextEpoch(t), FALSE)
    BY DEF ClaimTask
  <2>2. NextEpoch(t) \in Epoch
    BY <1>1 DEF NextEpoch, Epoch
  <2>. HIDE DEF LeaseInv
  <2>3. TypeOK
    BY DEF LeaseInv
  <2>. QED BY <2>1, <2>2, <2>3, QueueTyped DEF NoNewLock, Locked
<1>3. TypeOK'
  <2>1. /\ epoch' \in [Tasks -> Epoch]
        /\ leased' \in [Sessions -> Epoch]
        /\ held' \in [Sessions -> Tasks \cup {None}]
        /\ phase' \in [Sessions -> ClaimPhase \cup {None}]
    BY <1>1 DEF TypeOK, Epoch, ClaimPhase
  <2>2. /\ status' \in [Tasks -> TaskStatus]
        /\ assigned' \in [Tasks -> Agents \cup {None}]
        /\ astate' \in [Agents -> AgentState]
        /\ current' \in [Agents -> Tasks \cup {None}]
        /\ lockTask' \in [Workspaces -> Tasks \cup {None}]
    BY DEF ClaimTask, TypeOK, TaskStatus, AgentState
  <2>. QED BY <2>1, <2>2, <1>2 DEF ClaimTask, TypeOK, launchVars
<1>4. LeaseFenced' /\ UniqueLease'
  BY <1>1 DEF LeaseFenced, UniqueLease, TypeOK, Epoch
<1>5. LockedRow' /\ LockedOnce'
  BY <1>1, <1>2 DEF LockedRow, LockedOnce, NoNewLock, Locked, RowLocked, TypeOK, Job
<1>6. BudgetLeft'
  BY <1>1 DEF BudgetLeft, TypeOK
<1>. QED BY <1>3, <1>4, <1>5, <1>6

\* The other answers of the claim command.
LEMMA ClaimAnswersInv ==
    ASSUME LeaseInv, NEW s \in Sessions,
           \/ ClaimOnRetiredSlot(s) \/ ClaimExhausted(s)
           \/ \E t \in Tasks : ResumePreparation(s, t)
    PROVE  LeaseInv'
<1>1. CASE ClaimOnRetiredSlot(s) \/ ClaimExhausted(s)
  <2>1. TypeOK'
    BY <1>1 DEF ClaimOnRetiredSlot, ClaimExhausted, LeaseInv, TypeOK, taskVars,
                launchVars, agentVars, lockVars, memoryVars
  <2>2. LeaseCore'
    BY <1>1, LeaseKept DEF ClaimOnRetiredSlot, ClaimExhausted, NoNewLock, taskVars,
                           memoryVars
  <2>. QED BY <2>1, <2>2 DEF LeaseInv, LeaseCore
<1>2. CASE \E t \in Tasks : ResumePreparation(s, t)
  <2>1. jobs' \subseteq Job /\ NoNewLock
    <3>1. PICK t \in Tasks : Queue(s, t, epoch[t], TRUE)
      BY <1>2 DEF ResumePreparation
    <3>2. TypeOK /\ epoch[t] \in Epoch
      BY DEF LeaseInv, TypeOK
    <3>. QED BY <3>1, <3>2, QueueTyped DEF NoNewLock, Locked
  <2>2. TypeOK'
    BY <1>2, <2>1 DEF ResumePreparation, LeaseInv, TypeOK, taskVars, sessionVars,
                      launchVars, agentVars, lockVars
  <2>3. LeaseCore'
    BY <1>2, <2>1, LeaseKept DEF ResumePreparation, taskVars, sessionVars
  <2>. QED BY <2>2, <2>3 DEF LeaseInv, LeaseCore
<1>. QED BY <1>1, <1>2

\* A binding whose task has moved on is released, or its session drained.
LEMMA RecoverStaleBindingInv ==
    ASSUME LeaseInv, NEW s \in Sessions, NEW t \in Tasks, RecoverStaleBinding(s, t)
    PROVE  LeaseInv'
<1>0. ~RowLocked(s) /\ UNCHANGED <<enabled, jobs, closing, stopping>> /\ NoNewLock
  BY DEF RecoverStaleBinding, memoryVars, NoNewLock
<1>1. CASE Release(s, status[t], Fence(status[t], epoch[t]), Ordinary)
           /\ marker' = MarkerWithout(slotOf[s], Names(slotOf[s], t, epoch[t]))
           /\ UNCHANGED owner
  <2>1. OtherType'
    BY <1>0, <1>1, MarkerType DEF OtherType, LeaseInv, TypeOK
  <2>2. status[t] \in TaskStatus
    BY DEF LeaseInv, TypeOK
  <2>. QED BY <1>0, <1>1, <2>1, <2>2, ReleaseStep
<1>2. CASE /\ desired' = [desired EXCEPT ![s] = "stopped"]
           /\ UNCHANGED <<taskVars, owner, sstate, held, phase, leased, claims, launchVars,
                          agentVars, lockVars, marker>>
  <2>1. TypeOK'
    BY <1>0, <1>2 DEF LeaseInv, TypeOK, taskVars, launchVars, agentVars, lockVars
  <2>2. LeaseCore'
    BY <1>0, <1>2, LeaseKept DEF taskVars
  <2>. QED BY <2>1, <2>2 DEF LeaseInv, LeaseCore
<1>. QED BY <1>1, <1>2 DEF RecoverStaleBinding

-----------------------------------------------------------------------------
\* The preparation job

\* What is common to every job: it names a session, a task and an epoch.
LEMMA JobFields ==
    ASSUME TypeOK, NEW j \in jobs
    PROVE  j.session \in Sessions /\ j.task \in Tasks /\ j.epoch \in Epoch
BY DEF TypeOK, Job

\* Steps that move or end the job and at most clean its claim file up.
LEMMA JobMovesInv ==
    ASSUME LeaseInv, NEW j \in jobs,
           \/ JobFence(j) \/ JobFoundBlocked(j) \/ JobFoundReleased(j)
           \/ JobError(j) \/ JobRetain(j) \/ JobInterrupt(j)
           \/ JobCheck(j) \/ JobRetainAttached(j)
    PROVE  LeaseInv'
<1>1. UNCHANGED <<tableVars, closeVars>>
  BY DEF JobFence, JobFoundBlocked, JobFoundReleased, JobError, JobRetain, JobInterrupt,
         JobCheck, JobRetainAttached
<1>2. marker' \in [Workspaces -> Marker \cup {None}]
  <2>1. \/ UNCHANGED marker
        \/ \E w, cond : marker' = MarkerWithout(w, cond)
    BY DEF JobFence, JobFoundBlocked, JobFoundReleased, JobError, JobRetain, JobInterrupt,
           JobCheck, JobRetainAttached, OwnMarkerGone
  <2>. QED BY <2>1, MarkerType DEF LeaseInv, TypeOK
<1>3. \E step \in JobStep \ {"proved", "marked"} : Advance(j, step) \/ Finish(j)
  BY DEF JobFence, JobFoundBlocked, JobFoundReleased, JobError, JobRetain, JobInterrupt,
         JobCheck, JobRetainAttached, JobStep
<1>. QED BY <1>1, <1>2, <1>3, JobOnly

\* The owner row is attached or detached.
LEMMA JobOwnerInv ==
    ASSUME LeaseInv, NEW j \in jobs, JobAttach(j) \/ JobDetach(j)
    PROVE  LeaseInv'
<1>. USE JobFields
<1>1. /\ UNCHANGED <<taskVars, sessionVars, launchVars, agentVars, lockVars, enabled,
                     closeVars>>
      /\ owner' \in [Tasks -> Sessions \cup {None}]
  BY DEF JobAttach, JobDetach, LeaseInv, TypeOK
<1>2. marker' \in [Workspaces -> Marker \cup {None}]
  <2>1. \/ UNCHANGED marker
        \/ \E w, cond : marker' = MarkerWithout(w, cond)
    BY DEF JobAttach, JobDetach, OwnMarkerGone
  <2>. QED BY <2>1, MarkerType DEF LeaseInv, TypeOK
<1>3. jobs' \subseteq Job /\ NoNewLock
  <2>1. CASE UNCHANGED jobs
    BY <2>1 DEF LeaseInv, TypeOK, NoNewLock
  <2>2. CASE \E step \in JobStep \ {"proved", "marked"} : Advance(j, step)
    BY <2>2, JobMoves DEF LeaseInv
  <2>. QED BY <2>1, <2>2 DEF JobAttach, JobDetach, JobStep
<1>4. TypeOK'
  BY <1>1, <1>2, <1>3 DEF LeaseInv, TypeOK, closeVars, taskVars, sessionVars, launchVars,
                          agentVars, lockVars
<1>5. LeaseCore'
  BY <1>1, <1>3, LeaseKept DEF taskVars, sessionVars
<1>. QED BY <1>4, <1>5 DEF LeaseInv, LeaseCore

\* The proof locks a row that says what it says and that nobody had locked.
LEMMA JobProveInv ==
    ASSUME LeaseInv, NEW j \in jobs, JobProve(j)
    PROVE  LeaseInv'
<1>. USE JobFields DEF LeaseInv
<1>0. UNCHANGED <<tableVars, closeVars>> /\ ~RowLocked(j.session)
  BY DEF JobProve
<1>1. marker' \in [Workspaces -> Marker \cup {None}]
  <2>1. \/ UNCHANGED marker
        \/ \E w, cond : marker' = MarkerWithout(w, cond)
    BY DEF JobProve
  <2>. QED BY <2>1, MarkerType DEF TypeOK
<1>2. CASE \E step \in {"foreign", "failed"} : Advance(j, step)
  BY <1>0, <1>1, <1>2, JobOnly DEF JobStep
<1>3. CASE Proof(j.session, j.task, j.epoch) /\ Advance(j, "proved")
  <2>. DEFINE p == [j EXCEPT !.step = "proved"]
  <2>1. /\ p \in Job /\ p.session = j.session /\ p.task = j.task /\ p.epoch = j.epoch
        /\ jobs' = (jobs \ {j}) \cup {p}
    BY <1>3 DEF Advance, TypeOK, Job, JobStep
  <2>. HIDE DEF p
  <2>2. TypeOK'
    BY <1>0, <1>1, <2>1 DEF TypeOK, tableVars, closeVars, taskVars, sessionVars,
                            launchVars, agentVars, lockVars
  <2>3. UNCHANGED <<epoch, held, phase, leased, claims>>
    BY <1>0 DEF tableVars, taskVars, sessionVars
  <2>4. LeaseFenced' /\ UniqueLease' /\ BudgetLeft'
    BY <2>3 DEF LeaseFenced, UniqueLease, BudgetLeft
  <2>5. LockedRow'
    BY <1>3, <2>1, <2>3 DEF LockedRow, Proof
  <2>6. LockedOnce'
    BY <1>0, <2>1 DEF LockedOnce, RowLocked
  <2>. QED BY <2>2, <2>4, <2>5, <2>6
<1>. QED BY <1>2, <1>3 DEF JobProve

\* The claim file is written under the lock.
LEMMA JobMarkInv ==
    ASSUME LeaseInv, NEW j \in jobs, JobMark(j)
    PROVE  LeaseInv'
<1>. USE JobFields DEF LeaseInv
<1>. DEFINE p == [j EXCEPT !.step = "marked"]
<1>1. /\ p \in Job /\ p.session = j.session /\ p.task = j.task /\ p.epoch = j.epoch
      /\ jobs' = (jobs \ {j}) \cup {p} /\ j.step = "proved"
  BY DEF JobMark, Advance, TypeOK, Job, JobStep
<1>. HIDE DEF p
<1>2. UNCHANGED <<tableVars, closeVars>>
      /\ marker' \in [Workspaces -> Marker \cup {None}]
  BY DEF JobMark, TypeOK, Marker
<1>3. TypeOK'
  BY <1>1, <1>2 DEF TypeOK, tableVars, closeVars, taskVars, sessionVars, launchVars,
                    agentVars, lockVars
<1>4. UNCHANGED <<epoch, held, phase, leased, claims>>
  BY <1>2 DEF tableVars, taskVars, sessionVars
<1>5. LeaseFenced' /\ UniqueLease' /\ BudgetLeft'
  BY <1>4 DEF LeaseFenced, UniqueLease, BudgetLeft
<1>6. LockedRow' /\ LockedOnce'
  BY <1>1, <1>4 DEF LockedRow, LockedOnce
<1>. QED BY <1>3, <1>5, <1>6

\* Activation writes the epoch that was granted: the row is still the proven one.
LEMMA JobActivateInv ==
    ASSUME LeaseInv, NEW j \in jobs, JobActivate(j)
    PROVE  LeaseInv'
<1>. USE JobFields, NoneAssumption, BoundAssumption DEF LeaseInv
<1>1. /\ held[j.session] = j.task /\ leased[j.session] = j.epoch
      /\ claims[j.session] < ClaimCap
      /\ jobs' = jobs \ {j} /\ j.step = "marked"
  BY DEF JobActivate, LockedRow, BudgetLeft, Finish
<1>2. /\ phase' = [phase EXCEPT ![j.session] = "active"]
      /\ claims' = [claims EXCEPT ![j.session] = @ + 1]
      /\ leased' = leased
      /\ UNCHANGED <<epoch, held>>
  BY <1>1 DEF JobActivate, TypeOK
<1>3. TypeOK'
  <2>1. /\ claims' \in [Sessions -> 0..ClaimCap]
        /\ phase' \in [Sessions -> ClaimPhase \cup {None}]
    BY <1>1, <1>2 DEF TypeOK, ClaimPhase
  <2>2. attempts' \in [Tasks -> 0..PrepareLimit]
    BY DEF JobActivate, TypeOK
  <2>. QED BY <1>1, <1>2, <2>1, <2>2 DEF JobActivate, TypeOK, launchVars, agentVars,
                                         lockVars, closeVars
<1>4. LeaseFenced' /\ UniqueLease'
  BY <1>2 DEF LeaseFenced, UniqueLease
<1>5. LockedRow' /\ LockedOnce'
  <2>1. \A k \in jobs' : Locked(k) => k \in jobs /\ k.session # j.session
    BY <1>1 DEF LockedOnce, Locked
  <2>. QED BY <1>1, <1>2, <2>1 DEF LockedRow, LockedOnce, Locked, TypeOK, Job
<1>6. BudgetLeft'
  BY <1>2 DEF BudgetLeft, TypeOK
<1>. QED BY <1>3, <1>4, <1>5, <1>6

\* Every outcome of the failure handler is a task status.
LEMMA FailureTargets ==
    ASSUME NEW j, NEW o \in FailureOutcomes(j)
    PROVE  o.target \in TaskStatus
BY DEF FailureOutcomes, LadderTarget, TaskStatus

\* Releases by the failure handler, the recheck and the settlement.
LEMMA JobReleaseInv ==
    ASSUME LeaseInv, NEW j \in jobs,
           \/ JobRelease(j) \/ JobCondemnSlot(j) \/ JobEvict(j)
           \/ JobRecheckRelease(j) \/ JobSettle(j)
    PROVE  LeaseInv'
<1>1. /\ ~RowLocked(j.session)
      /\ UNCHANGED <<owner, closeVars>>
      /\ \E step \in JobStep \ {"proved", "marked"} : Advance(j, step) \/ Finish(j)
  BY DEF JobRelease, JobCondemnSlot, JobEvict, JobRecheckRelease, JobSettle, Failing, JobStep
<1>2. marker' \in [Workspaces -> Marker \cup {None}]
  <2>1. \/ UNCHANGED marker
        \/ \E w, cond : marker' = MarkerWithout(w, cond)
    BY DEF JobRelease, JobCondemnSlot, JobEvict, JobRecheckRelease, JobSettle, OwnMarkerGone
  <2>. QED BY <2>1, MarkerType DEF LeaseInv, TypeOK
<1>3. enabled' \in [Workspaces -> BOOLEAN]
  BY DEF JobRelease, JobCondemnSlot, JobEvict, JobRecheckRelease, JobSettle, LeaseInv, TypeOK
<1>4. \E target \in TaskStatus : \E fence, opt :
         \/ Release(j.session, target, fence, opt)
         \/ UNCHANGED <<taskVars, sessionVars, launchVars, agentVars, lockVars>>
  <2>1. CASE JobRelease(j)
    BY <2>1, FailureTargets DEF JobRelease, ReleaseOrSkip, taskVars
  <2>2. CASE JobCondemnSlot(j)
    BY <2>2 DEF JobCondemnSlot, LadderTarget, TaskStatus
  <2>3. CASE JobEvict(j) \/ JobRecheckRelease(j) \/ JobSettle(j)
    BY <2>3 DEF JobEvict, JobRecheckRelease, JobSettle, ReleaseOrSkip, TaskStatus, taskVars
  <2>. QED BY <2>1, <2>2, <2>3
<1>. QED BY <1>1, <1>2, <1>3, <1>4, JobReleases

\* The condemned slot's workspace row.
LEMMA JobDisableSlotInv ==
    ASSUME LeaseInv, NEW j \in jobs, JobDisableSlot(j)
    PROVE  LeaseInv'
<1>1. jobs' \subseteq Job /\ NoNewLock
  BY JobMoves DEF JobDisableSlot, LeaseInv, JobStep
<1>2. TypeOK'
  BY <1>1 DEF JobDisableSlot, LeaseInv, TypeOK, taskVars, sessionVars, launchVars,
              agentVars, lockVars, closeVars
<1>3. LeaseCore'
  BY <1>1, LeaseKept DEF JobDisableSlot, taskVars, sessionVars
<1>. QED BY <1>2, <1>3 DEF LeaseInv, LeaseCore

\* Every step of a job keeps the invariant.
LEMMA JobInv ==
    ASSUME LeaseInv, NEW j \in jobs, JobStepOf(j) \/ JobFault(j)
    PROVE  LeaseInv'
BY JobMovesInv, JobOwnerInv, JobProveInv, JobMarkInv, JobActivateInv, JobReleaseInv,
   JobDisableSlotInv DEF JobStepOf, JobFault

-----------------------------------------------------------------------------
\* The ways a claim ends

\* The commits of a close before its release.
LEMMA CloseInv ==
    ASSUME LeaseInv, NEW s \in Sessions,
           CloseRecord(s) \/ \E t \in Tasks, st \in Verdicts : CloseTransition(s, t, st)
    PROVE  LeaseInv'
<1>1. CASE CloseRecord(s)
  <2>1. closing' \in [Sessions -> Closing \cup {None}]
    BY <1>1 DEF CloseRecord, LeaseInv, TypeOK, Closing
  <2>2. TypeOK'
    BY <1>1, <2>1 DEF CloseRecord, LeaseInv, TypeOK, taskVars, sessionVars, launchVars,
                      agentVars, lockVars
  <2>3. LeaseCore'
    BY <1>1, LeaseKept DEF CloseRecord, taskVars, sessionVars, NoNewLock
  <2>. QED BY <2>2, <2>3 DEF LeaseInv, LeaseCore
<1>2. ASSUME NEW t \in Tasks, NEW st \in Verdicts, CloseTransition(s, t, st)
      PROVE  LeaseInv'
  <2>1. st \in TaskStatus
    BY DEF Verdicts, TaskStatus
  <2>2. closing' \in [Sessions -> Closing \cup {None}]
    BY <1>2, <2>1 DEF CloseTransition, LeaseInv, TypeOK, Closing
  <2>3. owner' \in [Tasks -> Sessions \cup {None}]
    BY <1>2 DEF CloseTransition, LeaseInv, TypeOK
  <2>4. TypeOK'
    BY <1>2, <2>1, <2>2, <2>3 DEF CloseTransition, LeaseInv, TypeOK, sessionVars,
                                  launchVars, agentVars, lockVars
  <2>5. LeaseCore'
    BY <1>2, LeaseKept DEF CloseTransition, sessionVars, NoNewLock
  <2>. QED BY <2>4, <2>5 DEF LeaseInv, LeaseCore
<1>. QED BY <1>1, <1>2

\* The releases that are not a job's: close, orphan sweep, prepare timeout.
LEMMA SweepInv ==
    ASSUME LeaseInv, NEW s \in Sessions,
           CloseRelease(s) \/ OrphanSweep(s) \/ PrepareTimeout(s)
    PROVE  LeaseInv'
<1>1. ~RowLocked(s) /\ UNCHANGED <<owner, enabled, jobs, stopping>> /\ NoNewLock
  BY DEF CloseRelease, OrphanSweep, PrepareTimeout, Releasable, memoryVars, NoNewLock
<1>2. marker' \in [Workspaces -> Marker \cup {None}]
  <2>1. \/ UNCHANGED marker
        \/ \E w, cond : marker' = MarkerWithout(w, cond)
    BY DEF CloseRelease, OrphanSweep, PrepareTimeout
  <2>. QED BY <2>1, MarkerType DEF LeaseInv, TypeOK
<1>3. closing' \in [Sessions -> Closing \cup {None}]
  BY DEF CloseRelease, OrphanSweep, PrepareTimeout, memoryVars, LeaseInv, TypeOK
<1>4. OtherType'
  BY <1>1, <1>2, <1>3 DEF OtherType, LeaseInv, TypeOK
<1>5. \E target \in TaskStatus : \E fence, opt :
         \/ Release(s, target, fence, opt)
         \/ UNCHANGED <<taskVars, sessionVars, launchVars, agentVars, lockVars>>
  <2>1. CASE CloseRelease(s)
    <3>1. closing[s].status \in TaskStatus
      BY <2>1 DEF CloseRelease, LeaseInv, TypeOK, Closing
    <3>. QED BY <2>1, <3>1 DEF CloseRelease
  <2>2. CASE OrphanSweep(s)
    <3>1. status[held[s]] \in TaskStatus
      BY <2>2 DEF OrphanSweep, LeaseInv, TypeOK
    <3>. QED BY <2>2, <3>1 DEF OrphanSweep
  <2>3. CASE PrepareTimeout(s)
    BY <2>3 DEF PrepareTimeout, TaskStatus
  <2>. QED BY <2>1, <2>2, <2>3
<1>. QED BY <1>1, <1>4, <1>5, ReleaseStep

\* A displaced claim is dropped from its session.
LEMMA DrainDisplacedInv ==
    ASSUME LeaseInv, NEW s \in Sessions, DrainDisplaced(s)
    PROVE  LeaseInv'
<1>1. /\ astate' \in [Agents -> AgentState]
      /\ current' \in [Agents -> Tasks \cup {None}]
      /\ lockTask' \in [Workspaces -> Tasks \cup {None}]
  BY DEF DrainDisplaced, LeaseInv, TypeOK, AgentState, agentVars
<1>2. TypeOK'
  BY <1>1 DEF DrainDisplaced, LeaseInv, TypeOK, taskVars, launchVars, memoryVars
<1>3. {s} \in SUBSET Sessions /\ \A o \in {s} : ~RowLocked(o)
  BY DEF DrainDisplaced
<1>4. /\ held' = [o \in Sessions |-> IF o \in {s} THEN None ELSE held[o]]
      /\ phase' = [o \in Sessions |-> IF o \in {s} THEN None ELSE phase[o]]
      /\ \A o \in Sessions \ {s} : leased'[o] = leased[o]
  BY DEF DrainDisplaced, LeaseInv, TypeOK
<1>5. UNCHANGED <<epoch, claims>> /\ NoNewLock
  BY DEF DrainDisplaced, taskVars, memoryVars, NoNewLock
<1>6. LeaseCore'
  BY <1>3, <1>4, <1>5, LeaseUnbound
<1>. QED BY <1>2, <1>6 DEF LeaseInv, LeaseCore

\* Draining, and teardown around its release.
LEMMA TeardownInv ==
    ASSUME LeaseInv, NEW s \in Sessions,
           \/ RequestDrain(s) \/ TermUnconfirmed(s) \/ TermFinish(s)
           \/ \E lost \in BOOLEAN : TermBegin(s, lost)
    PROVE  LeaseInv'
<1>1. TypeOK'
  <2>1. CASE RequestDrain(s)
    BY <2>1 DEF RequestDrain, LeaseInv, TypeOK, taskVars, launchVars, agentVars, lockVars,
                memoryVars
  <2>2. CASE TermUnconfirmed(s)
    BY <2>2 DEF TermUnconfirmed, LeaseInv, TypeOK, taskVars, sessionVars, launchVars,
                agentVars, lockVars
  <2>3. CASE TermFinish(s)
    <3>1. marker' \in [Workspaces -> Marker \cup {None}]
      BY <2>3, MarkerType DEF TermFinish, LeaseInv
    <3>. QED BY <2>3, <3>1 DEF TermFinish, LeaseInv, TypeOK, taskVars, launchVars, lockVars,
                               SessionState, AgentState
  <2>4. CASE \E lost \in BOOLEAN : TermBegin(s, lost)
    <3>1. stopping' \in [Sessions -> Stopping \cup {None}]
      BY <2>4 DEF TermBegin, LeaseInv, TypeOK, Stopping
    <3>2. astate' \in [Agents -> AgentState]
      BY <2>4 DEF TermBegin, LeaseInv, TypeOK, AgentState
    <3>3. desired' \in [Sessions -> {"running", "stopped"}]
      BY <2>4 DEF TermBegin, LeaseInv, TypeOK
    <3>. QED BY <2>4, <3>1, <3>2, <3>3 DEF TermBegin, LeaseInv, TypeOK, taskVars,
                                           launchVars, lockVars
  <2>. QED BY <2>1, <2>2, <2>3, <2>4
<1>2. UNCHANGED <<epoch, held, phase, leased, claims>> /\ NoNewLock
  BY DEF RequestDrain, TermUnconfirmed, TermFinish, TermBegin, NoNewLock, taskVars,
         sessionVars, memoryVars
<1>. QED BY <1>1, <1>2, LeaseKept DEF LeaseInv, LeaseCore

\* The teardown's transaction.
LEMMA TermReleaseInv ==
    ASSUME LeaseInv, NEW s \in Sessions, TermRelease(s)
    PROVE  LeaseInv'
<1>1. /\ ~RowLocked(s) /\ UNCHANGED <<owner, enabled, marker, jobs, closing>> /\ NoNewLock
      /\ stopping' \in [Sessions -> Stopping \cup {None}]
  BY DEF TermRelease, NoNewLock, LeaseInv, TypeOK, Stopping
<1>2. OtherType'
  BY <1>1 DEF OtherType, LeaseInv, TypeOK
<1>3. CASE \E fence, opt : Release(s, "READY", fence, opt)
  BY <1>1, <1>2, <1>3, ReleaseStep DEF TaskStatus
<1>4. CASE /\ sstate' = [sstate EXCEPT ![s] = "stopped"]
           /\ UNCHANGED <<taskVars, desired, held, phase, leased, claims, launchVars,
                          agentVars, lockVars>>
  <2>1. TypeOK'
    BY <1>1, <1>4 DEF LeaseInv, TypeOK, taskVars, launchVars, agentVars, lockVars,
                      SessionState
  <2>2. LeaseCore'
    BY <1>1, <1>4, LeaseKept DEF taskVars
  <2>. QED BY <2>1, <2>2 DEF LeaseInv, LeaseCore
<1>. QED BY <1>3, <1>4 DEF TermRelease

\* An operator's stop unbinds every session that names the task.
LEMMA StopTaskInv ==
    ASSUME LeaseInv, NEW t \in Tasks, StopTask(t)
    PROVE  LeaseInv'
<1>. DEFINE bound == {s \in Sessions : Live(s) /\ held[s] = t}
<1>1. /\ status' \in [Tasks -> TaskStatus]
      /\ assigned' \in [Tasks -> Agents \cup {None}]
      /\ owner' \in [Tasks -> Sessions \cup {None}]
  BY DEF StopTask, LeaseInv, TypeOK, TaskStatus
<1>2. /\ sstate' \in [Sessions -> SessionState]
      /\ desired' \in [Sessions -> {"running", "stopped"}]
      /\ held' \in [Sessions -> Tasks \cup {None}]
      /\ phase' \in [Sessions -> ClaimPhase \cup {None}]
  BY DEF StopTask, LeaseInv, TypeOK, SessionState
<1>3. /\ lockAgent' \in [Workspaces -> Agents \cup {None}]
      /\ lockTask' \in [Workspaces -> Tasks \cup {None}]
      /\ marker' \in [Workspaces -> Marker \cup {None}]
  BY DEF StopTask, LeaseInv, TypeOK
<1>4. astate' \in [Agents -> AgentState] /\ current' \in [Agents -> Tasks \cup {None}]
  BY DEF StopTask, LeaseInv, TypeOK, AgentState
<1>5. TypeOK'
  BY <1>1, <1>2, <1>3, <1>4 DEF StopTask, LeaseInv, TypeOK, launchVars, memoryVars
<1>6. bound \in SUBSET Sessions /\ \A s \in bound : ~RowLocked(s)
  BY DEF StopTask
<1>7. /\ held' = [s \in Sessions |-> IF s \in bound THEN None ELSE held[s]]
      /\ phase' = [s \in Sessions |-> IF s \in bound THEN None ELSE phase[s]]
      /\ \A s \in Sessions \ bound : leased'[s] = leased[s]
      /\ UNCHANGED <<epoch, claims>> /\ NoNewLock
  BY DEF StopTask, memoryVars, NoNewLock
<1>. HIDE DEF bound
<1>8. LeaseCore'
  BY <1>6, <1>7, LeaseUnbound
<1>. QED BY <1>5, <1>8 DEF LeaseInv, LeaseCore

\* The steps that leave every session row alone.
LEMMA TaskSideInv ==
    ASSUME LeaseInv,
           \/ \E t \in Tasks : RecoverMissing(t, "READY") \/ RecoverMissing(t, "FAILED")
           \/ \E t \in Tasks : OperatorReopen(t) \/ DependencyFlip(t)
           \/ \E w \in Workspaces : LoseMarker(w)
           \/ DaemonRestart
    PROVE  LeaseInv'
<1>1. TypeOK'
  <2>1. ASSUME NEW t \in Tasks, NEW st \in {"READY", "FAILED"}, RecoverMissing(t, st)
        PROVE  TypeOK'
    <3>1. status' \in [Tasks -> TaskStatus] /\ assigned' \in [Tasks -> Agents \cup {None}]
      BY <2>1 DEF RecoverMissing, LeaseInv, TypeOK, TaskStatus
    <3>2. /\ lockAgent' \in [Workspaces -> Agents \cup {None}]
          /\ lockTask' \in [Workspaces -> Tasks \cup {None}]
      BY <2>1 DEF RecoverMissing, LeaseInv, TypeOK
    <3>3. /\ astate' \in [Agents -> AgentState]
          /\ current' \in [Agents -> Tasks \cup {None}]
      BY <2>1 DEF RecoverMissing, LeaseInv, TypeOK, AgentState
    <3>. QED BY <2>1, <3>1, <3>2, <3>3 DEF RecoverMissing, LeaseInv, TypeOK, sessionVars,
                                           launchVars, memoryVars
  <2>2. CASE \E t \in Tasks : OperatorReopen(t)
    BY <2>2 DEF OperatorReopen, LeaseInv, TypeOK, TaskStatus, sessionVars, launchVars,
                agentVars, lockVars, memoryVars
  <2>3. ASSUME NEW t \in Tasks, DependencyFlip(t) PROVE TypeOK'
    <3>1. blocked' \in [Tasks -> BOOLEAN]
      <4>1. blocked \in [Tasks -> BOOLEAN] /\ (~blocked[t]) \in BOOLEAN
        BY DEF LeaseInv, TypeOK
      <4>. QED BY <2>3, <4>1, Zenon DEF DependencyFlip
    <3>. QED BY <2>3, <3>1 DEF DependencyFlip, LeaseInv, TypeOK, sessionVars, launchVars,
                               agentVars, lockVars, memoryVars
  <2>4. CASE \E w \in Workspaces : LoseMarker(w)
    BY <2>4 DEF LoseMarker, LeaseInv, TypeOK, taskVars, sessionVars, launchVars, agentVars,
                lockVars, memoryVars
  <2>5. CASE DaemonRestart
    BY <2>5 DEF DaemonRestart, LeaseInv, TypeOK, taskVars, sessionVars, launchVars,
                agentVars, lockVars
  <2>. QED BY <2>1, <2>2, <2>3, <2>4, <2>5
<1>2. UNCHANGED <<epoch, held, phase, leased, claims>> /\ NoNewLock
  BY DEF RecoverMissing, OperatorReopen, DependencyFlip, LoseMarker, DaemonRestart,
         NoNewLock, taskVars, sessionVars, memoryVars
<1>. QED BY <1>1, <1>2, LeaseKept DEF LeaseInv, LeaseCore

\* The owner-recovery sweep.
LEMMA OwnerRecoveredInv ==
    ASSUME LeaseInv, NEW t \in Tasks, OwnerRecovered(t)
    PROVE  LeaseInv'
<1>. DEFINE s == owner[t]
<1>1. /\ s \in Sessions /\ ~RowLocked(s)
      /\ UNCHANGED <<enabled, marker, jobs, closing, stopping>> /\ NoNewLock
      /\ owner' \in [Tasks -> Sessions \cup {None}]
  BY DEF OwnerRecovered, LeaseInv, TypeOK, memoryVars, NoNewLock
<1>2. OtherType'
  BY <1>1 DEF OtherType, LeaseInv, TypeOK
<1>3. CASE \E target \in TaskStatus : \E fence, opt : Release(s, target, fence, opt)
  BY <1>1, <1>2, <1>3, ReleaseStep
<1>4. CASE UNCHANGED <<taskVars, sessionVars, launchVars, agentVars>>
           /\ lockTask' \in [Workspaces -> Tasks \cup {None}]
           /\ lockAgent' \in [Workspaces -> Agents \cup {None}]
  <2>1. TypeOK'
    BY <1>1, <1>4 DEF LeaseInv, TypeOK, taskVars, sessionVars, launchVars, agentVars
  <2>2. LeaseCore'
    BY <1>1, <1>4, LeaseKept DEF taskVars, sessionVars
  <2>. QED BY <2>1, <2>2 DEF LeaseInv, LeaseCore
<1>5. (IF status[t] = "IN_PROGRESS" THEN "READY" ELSE status[t]) \in TaskStatus
  BY DEF LeaseInv, TypeOK, TaskStatus
<1>. QED BY <1>3, <1>4, <1>5 DEF OwnerRecovered, LeaseInv, TypeOK

-----------------------------------------------------------------------------
\* The theorems

\* Nothing is leased in the initial state.
LEMMA InitInv == Init => LeaseInv
<1>. SUFFICES ASSUME Init PROVE LeaseInv
  OBVIOUS
<1>. USE NoneAssumption, BoundAssumption DEF Init
<1>1. TypeOK
  BY DEF TypeOK, TaskStatus, Epoch, SessionState, AgentState
<1>2. LeaseFenced /\ UniqueLease /\ LockedRow /\ LockedOnce /\ BudgetLeft
  BY DEF LeaseFenced, UniqueLease, LockedRow, LockedOnce, BudgetLeft
<1>. QED BY <1>1, <1>2 DEF LeaseInv

\* The lease invariant is inductive.
LEMMA NextInv == LeaseInv /\ [Next]_vars => LeaseInv'
<1>. SUFFICES ASSUME LeaseInv, [Next]_vars PROVE LeaseInv'
  OBVIOUS
<1>1. CASE UNCHANGED vars
  <2>1. TypeOK'
    BY <1>1 DEF LeaseInv, TypeOK, vars, taskVars, sessionVars, launchVars, agentVars,
                lockVars, memoryVars
  <2>2. LeaseCore'
    BY <1>1, LeaseKept DEF NoNewLock, vars, taskVars, sessionVars, memoryVars
  <2>. QED BY <2>1, <2>2 DEF LeaseInv, LeaseCore
<1>2. CASE Next
  BY <1>2, LaunchInv, ClaimTaskInv, ClaimAnswersInv, RecoverStaleBindingInv, JobInv,
     CloseInv, SweepInv, DrainDisplacedInv, TeardownInv, TermReleaseInv, StopTaskInv,
     TaskSideInv, OwnerRecoveredInv DEF Next
<1>. QED BY <1>1, <1>2

\* LeaseInv holds throughout: what a preparation proved about its session row is
\* true until its transaction ends, and every held epoch was granted.
THEOREM LeaseInvariant == Spec => []LeaseInv
BY InitInv, NextInv, PTL DEF Spec

\* Every variable keeps its type; in particular no session counts more claims
\* than its budget, however activation interleaves with restarts and timeouts.
THEOREM TypeCorrect == Spec => []TypeOK
<1>1. LeaseInv => TypeOK
  BY DEF LeaseInv
<1>. QED BY <1>1, LeaseInvariant, PTL

\* No two sessions ever hold a task under the same epoch, so the pair a close, a
\* heartbeat or a release is fenced on names at most one session.
THEOREM LeasesUnique == Spec => []UniqueLease
<1>1. LeaseInv => UniqueLease
  BY DEF LeaseInv
<1>. QED BY <1>1, LeaseInvariant, PTL

\* Only activation makes a claim active.
LEMMA OnlyJobActivates ==
    ASSUME TypeOK, Next, NEW s \in Sessions, phase[s] # "active", phase'[s] = "active"
    PROVE  \E j \in jobs : JobActivate(j) /\ j.session = s
<1>. USE NoneAssumption
<1>. SUFFICES ASSUME ~\E j \in jobs : JobActivate(j) /\ j.session = s
              PROVE  FALSE
  OBVIOUS
<1>1. ASSUME NEW o \in Sessions, NEW target, NEW fence, NEW opt,
             Release(o, target, fence, opt)
      PROVE  FALSE
  BY <1>1 DEF Release, TypeOK
<1>2. UNCHANGED phase => FALSE
  OBVIOUS
<1>3. ASSUME NEW j \in jobs, JobStepOf(j) \/ JobFault(j) PROVE FALSE
  <2>1. CASE JobActivate(j)
    BY <2>1 DEF JobActivate, TypeOK, Job
  <2>2. CASE \/ JobRelease(j) \/ JobCondemnSlot(j) \/ JobEvict(j)
             \/ JobRecheckRelease(j) \/ JobSettle(j)
    BY <2>2, <1>1, <1>2, JobFields DEF JobRelease, JobCondemnSlot, JobEvict,
       JobRecheckRelease, JobSettle, ReleaseOrSkip, sessionVars
  <2>3. CASE \/ JobFence(j) \/ JobAttach(j) \/ JobProve(j) \/ JobMark(j)
             \/ JobFoundBlocked(j) \/ JobFoundReleased(j) \/ JobCheck(j)
             \/ JobDetach(j) \/ JobRetainAttached(j) \/ JobDisableSlot(j)
             \/ JobError(j) \/ JobRetain(j) \/ JobInterrupt(j)
    BY <2>3, <1>2 DEF JobFence, JobAttach, JobProve, JobMark, JobFoundBlocked,
       JobFoundReleased, JobCheck, JobDetach, JobRetainAttached, JobDisableSlot,
       JobError, JobRetain, JobInterrupt, tableVars, sessionVars
  <2>. QED BY <1>3, <2>1, <2>2, <2>3 DEF JobStepOf, JobFault
<1>4. ASSUME NEW o \in Sessions, NEW t \in Tasks,
             \/ ClaimTask(o, t) \/ ResumePreparation(o, t) \/ RecoverStaleBinding(o, t)
             \/ \E st \in Verdicts : CloseTransition(o, t, st)
      PROVE  FALSE
  <2>1. CASE ClaimTask(o, t)
    BY <2>1 DEF ClaimTask, TypeOK
  <2>2. CASE RecoverStaleBinding(o, t)
    BY <2>2, <1>1, <1>2 DEF RecoverStaleBinding
  <2>. QED BY <1>4, <2>1, <2>2, <1>2 DEF ResumePreparation, CloseTransition, sessionVars
<1>5. ASSUME NEW o \in Sessions,
             \/ CloseRelease(o) \/ OrphanSweep(o) \/ PrepareTimeout(o) \/ TermRelease(o)
             \/ DrainDisplaced(o)
      PROVE  FALSE
  <2>1. CASE DrainDisplaced(o)
    BY <2>1 DEF DrainDisplaced, TypeOK
  <2>. QED BY <1>5, <2>1, <1>1, <1>2 DEF CloseRelease, OrphanSweep, PrepareTimeout,
                                         TermRelease, sessionVars
<1>6. ASSUME NEW t \in Tasks, StopTask(t) \/ OwnerRecovered(t) PROVE FALSE
  <2>1. CASE StopTask(t)
    BY <2>1 DEF StopTask, TypeOK
  <2>2. CASE OwnerRecovered(t)
    <3>1. owner[t] \in Sessions
      BY <2>2 DEF OwnerRecovered, TypeOK
    <3>. QED BY <2>2, <3>1, <1>1, <1>2 DEF OwnerRecovered, sessionVars
  <2>. QED BY <1>6, <2>1, <2>2
<1>. QED
  BY <1>2, <1>3, <1>4, <1>5, <1>6
  DEF Next, Launch, ClaimOnRetiredSlot, ClaimExhausted, CloseRecord, RequestDrain,
      TermBegin, TermUnconfirmed, TermFinish, RecoverMissing, OperatorReopen,
      DependencyFlip, LoseMarker, DaemonRestart, sessionVars

\* A claim becomes active only as its task's current lease, on an IN_PROGRESS,
\* unblocked task assigned to the session's agent, however long the slot reset
\* took and whatever was done to the task row meanwhile.
THEOREM ActivationCurrent == Spec => ActivationIsCurrent
<1>1. ASSUME LeaseInv, Next, NEW s \in Sessions, phase[s] # "active", phase'[s] = "active"
      PROVE  /\ Holds(s, held[s]) /\ status[held[s]] = "IN_PROGRESS" /\ ~blocked[held[s]]
             /\ assigned[held[s]] = agentOf[s]
  <2>1. PICK j \in jobs : JobActivate(j) /\ j.session = s
    BY <1>1, OnlyJobActivates DEF LeaseInv
  <2>2. held[s] = j.task /\ leased[s] = j.epoch /\ phase[s] = "preparing"
    BY <1>1, <2>1 DEF LeaseInv, LockedRow, JobActivate
  <2>. QED BY <2>1, <2>2, NoneAssumption DEF JobActivate, TaskStillOurs, Holds
<1>2. LeaseInv /\ [Next]_vars =>
        [\A s \in Sessions : phase[s] # "active" /\ phase'[s] = "active" =>
            LET t == held[s]
            IN  /\ Holds(s, t) /\ status[t] = "IN_PROGRESS" /\ ~blocked[t]
                /\ assigned[t] = agentOf[s]]_vars
  BY <1>1
<1>. QED BY <1>2, LeaseInvariant, PTL DEF Spec, ActivationIsCurrent
=============================================================================
