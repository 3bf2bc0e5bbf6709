----------------------------- MODULE LockProofs -----------------------------
(***************************************************************************)
(* Who a slot belongs to, for every value of the constants.  An agent is   *)
(* rooted in one session: only a launch roots it, and a launch needs an    *)
(* agent that locks no slot, while every rooted session's slot is locked   *)
(* by its agent.  So whoever gives an agent's lock back, gives back the    *)
(* lock of the session it ends, and of no other.                           *)
(***************************************************************************)
EXTENDS BindingProofs

\* An attached owner row is one from before, of a session that keeps its hold, or is
\* the one a live session's preparation attaches now.
OwnersFrom ==
    \A t \in Tasks : owner'[t] # None =>
        \/ owner'[t] = owner[t] /\ held'[owner[t]] = held[owner[t]]
        \/ /\ t \in Managed /\ held[owner'[t]] = t /\ UNCHANGED held
           /\ Live(owner'[t]) /\ desired[owner'[t]] = "running"

\* A preparation past its fence was so before, or its session may claim.
ControlsFrom ==
    \A j \in jobs' : JobControls(j) =>
        \/ \E k \in jobs : /\ JobControls(k) /\ k.session = j.session
                           /\ k.task = j.task /\ k.epoch = j.epoch
        \/ Live(j.session) /\ desired[j.session] = "running"

\* The agent's lock of a slot that goes on being needed stays.
NeededKept ==
    \A s \in Sessions : Needs(s) /\ Needs(s)' =>
        lockAgent'[slotOf[s]] = lockAgent[slotOf[s]]

\* A claim file goes or stays, and no preparation gets past its slot reset.
FilesFrom ==
    /\ \A w \in Workspaces : marker'[w] \in {marker[w], None}
    /\ \A j \in jobs' : j.step = "marked" => j \in jobs

-----------------------------------------------------------------------------
\* A session that is needed is bound, and its slot is locked by its agent

LEMMA NeedsBound ==
    ASSUME BindingInv, OwnerHolds, NEW s \in Sessions, Rooted(s)
    PROVE  sstate[s] # "absent" /\ agentOf[s] \in Agents /\ slotOf[s] \in Workspaces
<1>. USE NoneAssumption
<1>1. TypeOK
  BY DEF BindingInv, LeaseInv
<1>2. sstate[s] # "absent"
  <2>1. CASE \E t \in Tasks : owner[t] = s
    BY <2>1 DEF OwnerHolds, BindingInv, Launched
  <2>2. CASE Condemning(s)
    BY <2>2 DEF Condemning, BindingInv, Launched
  <2>. QED BY <2>1, <2>2 DEF Rooted, Needs, Live
<1>. QED BY <1>1, <1>2 DEF BindingInv, Launched, TypeOK

\* Who is not vetoed has nothing attached.
LEMMA Unattached ==
    ASSUME LockInv, NEW s \in Sessions, ~Vetoed(s), NEW t \in Tasks
    PROVE  owner[t] # s
<1>. SUFFICES ASSUME owner[t] = s PROVE FALSE
  OBVIOUS
<1>1. Needs(s)
  BY DEF Needs
<1>2. lockAgent[slotOf[s]] = agentOf[s]
  BY <1>1 DEF LockInv, SlotKept
<1>3. agentOf[s] # None
  BY <1>1, NeedsBound, NoneAssumption DEF LockInv, Rooted
<1>. QED BY <1>2, <1>3 DEF Vetoed

\* Two sessions that lock through one agent, one of them needed, are one.
LEMMA LockedBySame ==
    ASSUME LockInv, NEW s \in Sessions, NEW o \in Sessions, Rooted(s), Needs(o),
           lockAgent[slotOf[o]] = agentOf[s]
    PROVE  o = s
BY DEF LockInv, SlotKept, OneRooted, Rooted

-----------------------------------------------------------------------------
\* Effects of the parts

LEMMA RowsQuiet ==
    ASSUME LockInv, UNCHANGED <<owner, held, lockAgent>>
    PROVE  OwnersFrom /\ NeededKept
BY DEF OwnersFrom, NeededKept

\* A release that gives the agent's locks back ends a rooted session.
LEMMA ReleaseKeeps ==
    ASSUME LockInv, TypeOK', NEW s \in Sessions, NEW target, NEW fence, NEW opt,
           Release(s, target, fence, opt), ~Vetoed(s), UNCHANGED owner,
           opt.retire \/ opt.unlock => Rooted(s) /\ desired'[s] = "stopped"
    PROVE  OwnersFrom /\ NeededKept
<1>. USE NoneAssumption
<1>1. TypeOK /\ \A t \in Tasks : owner[t] # s
  BY Unattached DEF LockInv, BindingInv, LeaseInv
<1>2. OwnersFrom
  BY <1>1 DEF OwnersFrom, Release, TypeOK
<1>3. NeededKept
  <2>. SUFFICES ASSUME NEW o \in Sessions, Needs(o), Needs(o)',
                       lockAgent'[slotOf[o]] # lockAgent[slotOf[o]]
                PROVE  FALSE
    BY DEF NeededKept
  <2>1. slotOf[o] \in Workspaces
    BY NeedsBound DEF LockInv, Rooted
  <2>2. lockAgent[slotOf[o]] = agentOf[s] /\ (opt.retire \/ opt.unlock)
    BY <2>1 DEF Release, ReleasedSlot
  <2>3. o = s
    BY <2>2, LockedBySame
  <2>4. held'[s] = None /\ desired'[s] = "stopped" /\ \A t \in Tasks : owner'[t] # s
    BY <1>1, <2>2 DEF Release, TypeOK
  <2>5. ~Condemning(s)'
    BY <2>4, JobFields DEF Condemning, SessionStill, TypeOK, Job
  <2>. QED BY <2>3, <2>4, <2>5 DEF Needs
<1>. QED BY <1>2, <1>3

-----------------------------------------------------------------------------
\* What the preparations that hold a control lock were before

LEMMA JobControlsFrom ==
    ASSUME BindingInv, NEW j \in jobs, JobStepOf(j) \/ JobFault(j)
    PROVE  ControlsFrom
<1>1. j \in Job
  BY DEF BindingInv, LeaseInv, TypeOK
<1>3. ASSUME Finish(j) \/ jobs' = jobs PROVE ControlsFrom
  BY <1>3 DEF Finish, ControlsFrom
<1>4. ASSUME NEW step \in JobStep, Advance(j, step),
             \/ JobControls(j) \/ step = "interrupted"
             \/ Live(j.session) /\ desired[j.session] = "running"
      PROVE  ControlsFrom
  <2>. DEFINE k == [j EXCEPT !.step = step]
  <2>1. k.session = j.session /\ k.task = j.task /\ k.epoch = j.epoch /\ k.step = step
    BY <1>1 DEF Job
  <2>2. jobs' = (jobs \ {j}) \cup {k}
    BY <1>4 DEF Advance
  <2>. HIDE DEF k
  <2>. QED BY <1>4, <2>1, <2>2 DEF ControlsFrom, JobControls
<1>5. CASE JobFence(j) \/ JobAttach(j) \/ JobProve(j) \/ JobMark(j)
  BY <1>3, <1>4, <1>5 DEF JobFence, JobAttach, JobProve, JobMark, JobControls, JobStep
<1>6. CASE \/ JobActivate(j) \/ JobFoundBlocked(j) \/ JobFoundReleased(j) \/ JobCheck(j)
           \/ JobDetach(j) \/ JobRetainAttached(j) \/ JobDisableSlot(j)
  <2>1. CASE JobCheck(j)
    <3>1. Finish(j) \/ Advance(j, "releasing") \/ Advance(j, "evicting")
      BY <2>1 DEF JobCheck
    <3>2. JobControls(j)
      BY <2>1 DEF JobCheck, JobControls
    <3>. QED BY <1>3, <1>4, <3>1, <3>2 DEF JobStep
  <2>2. CASE JobDetach(j)
    <3>1. jobs' = jobs \/ (j.step = "releasing" /\ Advance(j, "detached"))
      BY <2>2 DEF JobDetach
    <3>. QED BY <1>3, <1>4, <3>1 DEF JobControls, JobStep
  <2>. QED BY <1>3, <1>4, <1>6, <2>1, <2>2 DEF JobActivate, JobFoundBlocked,
       JobFoundReleased, JobRetainAttached, JobDisableSlot, JobControls, JobStep
<1>7. CASE \/ JobRelease(j) \/ JobCondemnSlot(j) \/ JobEvict(j) \/ JobRecheckRelease(j)
           \/ JobSettle(j) \/ JobError(j) \/ JobRetain(j) \/ JobInterrupt(j)
  BY <1>3, <1>4, <1>7 DEF JobRelease, JobCondemnSlot, JobEvict, JobRecheckRelease,
     JobSettle, JobError, JobRetain, JobInterrupt, Failing, JobControls, JobStep
<1>. QED BY <1>5, <1>6, <1>7 DEF JobStepOf, JobFault

LEMMA NextControlsFrom ==
    ASSUME BindingInv, [Next]_vars
    PROVE  ControlsFrom
<1>1. ASSUME jobs' = jobs \/ jobs' = {} PROVE ControlsFrom
  BY <1>1 DEF ControlsFrom
<1>2. ASSUME NEW s \in Sessions, NEW t \in Tasks, ClaimTask(s, t) \/ ResumePreparation(s, t)
      PROVE  ControlsFrom
  BY <1>2 DEF ClaimTask, ResumePreparation, Queue, ControlsFrom, JobControls
<1>3. CASE UNCHANGED vars
  BY <1>1, <1>3 DEF vars, memoryVars
<1>4. ASSUME NEW s \in Sessions, NEW t \in Tasks,
             RecoverStaleBinding(s, t) \/ \E st \in Verdicts : CloseTransition(s, t, st)
      PROVE  ControlsFrom
  BY <1>1, <1>4 DEF RecoverStaleBinding, CloseTransition, memoryVars
<1>5. ASSUME NEW s \in Sessions,
             \/ \E a \in Agents, w \in Workspaces : Launch(s, a, w)
             \/ ClaimOnRetiredSlot(s) \/ ClaimExhausted(s) \/ CloseRecord(s)
             \/ CloseRelease(s) \/ OrphanSweep(s) \/ PrepareTimeout(s) \/ DrainDisplaced(s)
             \/ RequestDrain(s) \/ (\E lost \in BOOLEAN : TermBegin(s, lost))
             \/ TermUnconfirmed(s) \/ TermRelease(s) \/ TermFinish(s)
      PROVE  ControlsFrom
  BY <1>1, <1>5 DEF Launch, ClaimOnRetiredSlot, ClaimExhausted, CloseRecord, CloseRelease,
     OrphanSweep, PrepareTimeout, DrainDisplaced, RequestDrain, TermBegin, TermUnconfirmed,
     TermRelease, TermFinish, memoryVars
<1>6. CASE \/ \E t \in Tasks : \/ StopTask(t) \/ OperatorReopen(t) \/ DependencyFlip(t)
                              \/ RecoverMissing(t, "READY") \/ RecoverMissing(t, "FAILED")
                              \/ OwnerRecovered(t)
           \/ \E w \in Workspaces : LoseMarker(w)
           \/ DaemonRestart
  BY <1>1, <1>6 DEF StopTask, OperatorReopen, DependencyFlip, RecoverMissing,
     OwnerRecovered, LoseMarker, DaemonRestart, memoryVars
<1>. QED BY <1>2, <1>3, <1>4, <1>5, <1>6, JobControlsFrom DEF Next

-----------------------------------------------------------------------------
\* Every step but a launch and a claim, on the owner rows and the agents' locks

LEMMA JobKeeps ==
    ASSUME LockInv, TypeOK', NEW j \in jobs, JobStepOf(j) \/ JobFault(j)
    PROVE  OwnersFrom /\ NeededKept
<1>. USE NoneAssumption
<1>1. TypeOK /\ j \in Job
  BY DEF LockInv, BindingInv, LeaseInv, TypeOK
<1>2. CASE \/ JobFence(j) \/ JobProve(j) \/ JobMark(j) \/ JobActivate(j)
           \/ JobFoundBlocked(j) \/ JobFoundReleased(j) \/ JobCheck(j)
           \/ JobRetainAttached(j) \/ JobDisableSlot(j)
           \/ JobError(j) \/ JobRetain(j) \/ JobInterrupt(j)
  <2>1. UNCHANGED <<owner, held, lockAgent>>
    BY <1>2 DEF JobFence, JobProve, JobMark, JobActivate, JobFoundBlocked, JobFoundReleased,
       JobCheck, JobRetainAttached, JobDisableSlot, JobError, JobRetain, JobInterrupt,
       tableVars, sessionVars, lockVars
  <2>. QED BY <2>1, RowsQuiet
<1>3. CASE JobAttach(j) \/ JobDetach(j)
  <2>1. UNCHANGED <<held, lockAgent>>
    BY <1>3 DEF JobAttach, JobDetach, sessionVars, lockVars
  <2>2. OwnersFrom
    BY <1>1, <1>3, <2>1 DEF JobAttach, JobDetach, OwnersFrom, Proof, Live, TypeOK, Job
  <2>. QED BY <2>1, <2>2 DEF NeededKept
<1>4. CASE JobRelease(j) \/ JobEvict(j) \/ JobRecheckRelease(j) \/ JobSettle(j)
  <2>1. UNCHANGED owner
    BY <1>4 DEF JobRelease, JobEvict, JobRecheckRelease, JobSettle
  <2>2. \/ UNCHANGED <<held, lockAgent>>
        \/ \E target, fence : \E opt :
              /\ Release(j.session, target, fence, opt) /\ ~Vetoed(j.session)
              /\ ~opt.retire /\ ~opt.unlock
    <3>1. CASE JobRelease(j)
      <4>1. PICK drain \in BOOLEAN, o \in FailureOutcomes(j) :
               ReleaseOrSkip(j, o.target, NoFence,
                             [Ordinary EXCEPT !.backoff = o.backoff, !.drain = drain])
        BY <3>1 DEF JobRelease
      <4>2. LET opt == [Ordinary EXCEPT !.backoff = o.backoff, !.drain = drain]
            IN  ~opt.retire /\ ~opt.unlock
        BY DEF Ordinary
      <4>. QED BY <4>1, <4>2 DEF ReleaseOrSkip, Releasable, sessionVars, lockVars
    <3>2. CASE JobEvict(j)
      BY <3>2 DEF JobEvict, Releasable, Ordinary, sessionVars, lockVars
    <3>3. CASE JobRecheckRelease(j)
      BY <3>3 DEF JobRecheckRelease, ReleaseOrSkip, Releasable, Ordinary, sessionVars, lockVars
    <3>4. CASE JobSettle(j)
      BY <3>4 DEF JobSettle, Releasable, Ordinary, sessionVars, lockVars
    <3>. QED BY <1>4, <3>1, <3>2, <3>3, <3>4
  <2>. QED BY <1>1, <2>1, <2>2, RowsQuiet, ReleaseKeeps DEF Job
<1>5. CASE JobCondemnSlot(j)
  <2>1. /\ UNCHANGED owner /\ ~Vetoed(j.session)
        /\ Release(j.session, LadderTarget(j.task), NoFence, Condemned)
    BY <1>5 DEF JobCondemnSlot, Releasable
  <2>2. Rooted(j.session)
    BY <1>5 DEF JobCondemnSlot, Failing, Rooted, Needs, Condemning, JobControls
  <2>3. Condemned.drain
    BY DEF Condemned, Ordinary
  <2>4. desired'[j.session] = "stopped"
    BY <1>1, <2>1, <2>3 DEF Release, TypeOK, Job
  <2>. QED BY <1>1, <2>1, <2>2, <2>4, ReleaseKeeps DEF Job
<1>. QED BY <1>2, <1>3, <1>4, <1>5 DEF JobStepOf, JobFault

LEMMA SessionKeeps ==
    ASSUME LockInv, TypeOK', NEW s \in Sessions,
           \/ ClaimOnRetiredSlot(s) \/ ClaimExhausted(s) \/ CloseRecord(s)
           \/ CloseRelease(s) \/ OrphanSweep(s) \/ PrepareTimeout(s)
           \/ DrainDisplaced(s) \/ RequestDrain(s)
           \/ \E lost \in BOOLEAN : TermBegin(s, lost)
           \/ TermUnconfirmed(s) \/ TermRelease(s) \/ TermFinish(s)
           \/ \E t \in Tasks : ResumePreparation(s, t) \/ RecoverStaleBinding(s, t)
    PROVE  OwnersFrom /\ NeededKept
<1>. USE NoneAssumption
<1>1. TypeOK
  BY DEF LockInv, BindingInv, LeaseInv
<1>2. CASE \/ ClaimOnRetiredSlot(s) \/ ClaimExhausted(s) \/ CloseRecord(s)
           \/ RequestDrain(s) \/ TermUnconfirmed(s) \/ TermFinish(s)
           \/ \E lost \in BOOLEAN : TermBegin(s, lost)
           \/ \E t \in Tasks : ResumePreparation(s, t)
  <2>1. UNCHANGED <<owner, held, lockAgent>>
    BY <1>2 DEF ClaimOnRetiredSlot, ClaimExhausted, CloseRecord, RequestDrain,
       TermUnconfirmed, TermFinish, TermBegin, ResumePreparation, sessionVars, lockVars
  <2>. QED BY <2>1, RowsQuiet
<1>3. CASE \/ CloseRelease(s) \/ OrphanSweep(s) \/ PrepareTimeout(s)
           \/ \E t \in Tasks : RecoverStaleBinding(s, t)
  <2>1. UNCHANGED owner
    BY <1>3 DEF CloseRelease, OrphanSweep, PrepareTimeout, RecoverStaleBinding
  <2>2. \/ UNCHANGED <<held, lockAgent>>
        \/ \E target, fence : \E opt :
              Release(s, target, fence, opt) /\ ~Vetoed(s) /\ ~opt.retire /\ ~opt.unlock
    <3>1. CASE CloseRelease(s)
      BY <3>1 DEF CloseRelease, Releasable, Ordinary, sessionVars, lockVars
    <3>2. CASE OrphanSweep(s)
      BY <3>2 DEF OrphanSweep, Releasable, Ordinary
    <3>3. CASE PrepareTimeout(s)
      BY <3>3 DEF PrepareTimeout, Releasable, Ordinary
    <3>4. CASE \E t \in Tasks : RecoverStaleBinding(s, t)
      BY <3>4 DEF RecoverStaleBinding, Ordinary, lockVars
    <3>. QED BY <1>3, <3>1, <3>2, <3>3, <3>4
  <2>. QED BY <2>1, <2>2, RowsQuiet, ReleaseKeeps
<1>4. CASE DrainDisplaced(s)
  <2>1. ~Vetoed(s) /\ held' = [held EXCEPT ![s] = None] /\ UNCHANGED <<owner, lockAgent>>
    BY <1>4 DEF DrainDisplaced
  <2>2. \A t \in Tasks : owner[t] # s
    BY <2>1, Unattached
  <2>. QED BY <1>1, <2>1, <2>2 DEF OwnersFrom, NeededKept, TypeOK
<1>5. CASE TermRelease(s)
  <2>1. UNCHANGED owner /\ Live(s) /\ desired[s] = "stopped"
    BY <1>5 DEF TermRelease, LockInv, BindingInv, TeardownHold
  <2>2. CASE \E fence, opt : Release(s, "READY", fence, opt) /\ ~Vetoed(s)
    <3>1. desired'[s] = "stopped"
      BY <1>1, <2>1, <2>2 DEF Release, TypeOK
    <3>. QED BY <2>1, <2>2, <3>1, ReleaseKeeps DEF Rooted
  <2>3. CASE UNCHANGED <<held, lockAgent>>
    BY <2>1, <2>3, RowsQuiet
  <2>. QED BY <1>5, <2>2, <2>3 DEF TermRelease, Releasable, lockVars
<1>. QED BY <1>2, <1>3, <1>4, <1>5

\* The close hands an attached writer off, and nothing else.
LEMMA CloseKeeps ==
    ASSUME LockInv, NEW s \in Sessions, NEW t \in Tasks, NEW st, CloseTransition(s, t, st)
    PROVE  OwnersFrom /\ NeededKept
<1>1. /\ owner' \in {owner, [owner EXCEPT ![t] = IF @ = s THEN None ELSE @]}
      /\ UNCHANGED <<held, lockAgent>>
  BY DEF CloseTransition, sessionVars, lockVars
<1>2. owner \in [Tasks -> Sessions \cup {None}]
  BY DEF LockInv, BindingInv, LeaseInv, TypeOK
<1>. QED BY <1>1, <1>2 DEF OwnersFrom, NeededKept

\* A stop ends every session that needs a slot locked for the task.
LEMMA StopKeeps ==
    ASSUME LockInv, TypeOK', NEW t \in Tasks, StopTask(t)
    PROVE  OwnersFrom /\ NeededKept
<1>. USE NoneAssumption
<1>1. TypeOK
  BY DEF LockInv, BindingInv, LeaseInv
<1>2. /\ ~ControlHeld(t) /\ (owner[t] # None => Live(owner[t]))
      /\ owner' = [owner EXCEPT ![t] = None]
      /\ \A s \in Sessions : IF Live(s) /\ held[s] = t
                             THEN sstate'[s] = "stopped" /\ held'[s] = None
                             ELSE held'[s] = held[s]
      /\ lockAgent' = [w \in Workspaces |-> IF lockTask[w] = t THEN None ELSE lockAgent[w]]
      /\ UNCHANGED jobs
  BY DEF StopTask, memoryVars
<1>3. OwnersFrom
  BY <1>1, <1>2 DEF OwnersFrom, LockInv, OwnerHolds, TypeOK
<1>4. NeededKept
  <2>. SUFFICES ASSUME NEW s \in Sessions, Needs(s), Needs(s)',
                       lockAgent'[slotOf[s]] # lockAgent[slotOf[s]]
                PROVE  FALSE
    BY DEF NeededKept
  <2>1. slotOf[s] \in Workspaces
    BY NeedsBound DEF LockInv, Rooted
  <2>2. held[s] = t
    BY <1>2, <2>1 DEF LockInv, SlotKept
  <2>3. CASE Live(s)
    <3>1. sstate'[s] = "stopped" /\ held'[s] = None
      BY <1>2, <2>2, <2>3
    <3>2. ~Condemning(s)'
      BY <3>1, JobFields DEF Condemning, SessionStill, TypeOK, Job
    <3>3. \A u \in Tasks : owner'[u] # s
      BY <1>1, <1>2, <2>2 DEF LockInv, OwnerHolds, TypeOK
    <3>. QED BY <3>1, <3>2, <3>3 DEF Needs, Live
  <2>4. CASE ~Live(s) /\ Condemning(s)
    BY <1>2, <2>2, <2>4 DEF Condemning, SessionStill, ControlHeld
  <2>5. CASE ~Live(s) /\ \E u \in Tasks : owner[u] = s
    BY <1>2, <2>2, <2>5 DEF LockInv, OwnerHolds
  <2>. QED BY <2>3, <2>4, <2>5 DEF Needs
<1>. QED BY <1>3, <1>4

\* The recovery sweep requeues a task that nobody holds, in a slot that nobody needs.
LEMMA RecoverKeeps ==
    ASSUME LockInv, NEW t \in Tasks, NEW st, RecoverMissing(t, st)
    PROVE  OwnersFrom /\ NeededKept
<1>1. /\ UNCHANGED <<owner, held>> /\ \A s \in Sessions : held[s] # t
      /\ lockAgent' = [w \in Workspaces |-> IF lockTask[w] = t THEN None ELSE lockAgent[w]]
  BY DEF RecoverMissing, Orphaned, sessionVars
<1>2. ASSUME NEW s \in Sessions, Needs(s)
      PROVE  lockAgent'[slotOf[s]] = lockAgent[slotOf[s]]
  <2>1. slotOf[s] \in Workspaces
    BY <1>2, NeedsBound DEF LockInv, Rooted
  <2>2. lockTask[slotOf[s]] # t
    BY <1>1, <1>2, NoneAssumption DEF LockInv, SlotKept
  <2>. QED BY <1>1, <2>1, <2>2
<1>. QED BY <1>1, <1>2 DEF OwnersFrom, NeededKept

\* The owner-recovery sweep ends the one session that needs the slot it frees: the
\* owner, whose current claim goes with it.
LEMMA OwnerKeeps ==
    ASSUME LockInv, OwnersCurrent, TypeOK', NEW t \in Tasks, OwnerRecovered(t)
    PROVE  OwnersFrom /\ NeededKept
<1>. USE NoneAssumption
<1>. PICK s \in Sessions : s = owner[t]
  BY DEF LockInv, BindingInv, LeaseInv, TypeOK, OwnerRecovered
<1>. DEFINE w == slotOf[s]
            target == IF status[t] = "IN_PROGRESS" THEN "READY" ELSE status[t]
            f == IF target = "READY" THEN NoFence ELSE Fence(status[t], leased[s])
            opt == [Ordinary EXCEPT !.unlock = TRUE]
<1>1. TypeOK /\ ~Live(s) /\ UNCHANGED jobs
  BY DEF LockInv, BindingInv, LeaseInv, TypeOK, OwnerRecovered, memoryVars
<1>2. /\ owner' = [owner EXCEPT ![t] = None]
      /\ UNCHANGED sstate
      /\ \/ Release(s, target, f, opt)
         \/ /\ \A v \in Workspaces \ {w} : lockAgent'[v] = lockAgent[v]
            /\ UNCHANGED <<status, epoch, held, leased>>
            /\ ~(phase[s] # None /\ held[s] = t /\ ~OtherLive(s) /\ Fits(s, target, f))
  <2>. DEFINE release == phase[s] # None /\ held[s] = t /\ ~OtherLive(s) /\ Fits(s, target, f)
  <2>1. owner' = [owner EXCEPT ![t] = None] /\ UNCHANGED sstate
    BY <1>1 DEF OwnerRecovered, sessionVars, Release
  <2>2. CASE release
    <3>1. Release(s, target, f, opt)
      BY <2>2 DEF OwnerRecovered
    <3>. QED BY <2>1, <3>1
  <2>3. CASE ~release
    <3>1. /\ \E x : lockAgent' = [lockAgent EXCEPT ![w] = x]
          /\ UNCHANGED <<status, epoch, held, leased>>
      BY <2>3 DEF OwnerRecovered, taskVars, sessionVars
    <3>2. \A v \in Workspaces \ {w} : lockAgent'[v] = lockAgent[v]
      BY <1>1, <3>1 DEF TypeOK
    <3>. QED BY <2>1, <2>3, <3>1, <3>2
  <2>. QED BY <2>2, <2>3
<1>3. held[s] = t /\ Needs(s) /\ phase[s] # None
  BY <1>1 DEF LockInv, BindingInv, HoldPhase, OwnerHolds, Needs
<1>4. w \in Workspaces /\ lockAgent[w] = agentOf[s]
  BY <1>1, <1>3, NeedsBound DEF LockInv, SlotKept, Rooted
<1>5. ~OtherLive(s)
  BY <1>1, <1>3 DEF LockInv, OneRooted, Rooted, OtherLive
<1>6. \A u \in Tasks : owner'[u] # s
  BY <1>1, <1>2, <1>3 DEF LockInv, OwnerHolds, TypeOK
<1>7. OwnersFrom
  BY <1>1, <1>2, <1>3 DEF OwnersFrom, Release, LockInv, OwnerHolds, TypeOK
<1>8. ASSUME NEW o \in Sessions, Needs(o), lockAgent'[slotOf[o]] # lockAgent[slotOf[o]]
      PROVE  o = s
  <2>1. slotOf[o] \in Workspaces
    BY <1>8, NeedsBound DEF LockInv, Rooted
  <2>2. lockAgent[slotOf[o]] = agentOf[s]
    BY <1>1, <1>2, <1>4, <1>8, <2>1 DEF Release, ReleasedSlot, TypeOK
  <2>. QED BY <1>1, <1>3, <1>8, <2>2, LockedBySame DEF Rooted
<1>9. ~Needs(s)'
  <2>1. CASE Release(s, target, f, opt)
    <3>1. held'[s] = None /\ ~Live(s)'
      BY <1>1, <1>2, <2>1 DEF Release, Live, TypeOK
    <3>2. ~Condemning(s)'
      BY <1>1, <3>1, JobFields DEF Condemning, SessionStill, TypeOK, Job
    <3>. QED BY <1>6, <3>1, <3>2 DEF Needs
  <2>2. CASE /\ UNCHANGED <<status, epoch, held, leased>>
             /\ ~(phase[s] # None /\ held[s] = t /\ ~OtherLive(s) /\ Fits(s, target, f))
    <3>1. ~Fits(s, target, f)
      BY <1>3, <1>5, <2>2
    <3>2. leased[s] # epoch[t]
      BY <1>3, <3>1 DEF Fits, RowMatches, Fence, NoFence
    <3>3. ~Condemning(s)
      BY <1>1, <3>2 DEF OwnersCurrent
    <3>4. ~Condemning(s)'
      BY <1>1, <2>2, <3>3 DEF Condemning, SessionStill
    <3>. QED BY <1>1, <1>2, <1>6, <3>4 DEF Needs, Live
  <2>. QED BY <1>2, <2>1, <2>2
<1>. QED BY <1>7, <1>8, <1>9 DEF NeededKept

\* Every step but a launch and a claim keeps the attached claims and the slots that
\* are needed.
LEMMA NextKeeps ==
    ASSUME LockInv, OwnersCurrent, TypeOK', [Next]_vars
    PROVE  \/ \E s \in Sessions, a \in Agents, w \in Workspaces : Launch(s, a, w)
           \/ \E s \in Sessions, t \in Tasks : ClaimTask(s, t)
           \/ OwnersFrom /\ NeededKept
<1>1. CASE UNCHANGED vars
  BY <1>1, RowsQuiet DEF vars, sessionVars, lockVars
<1>2. CASE \/ \E t \in Tasks : OperatorReopen(t) \/ DependencyFlip(t)
           \/ \E w \in Workspaces : LoseMarker(w)
           \/ DaemonRestart
  <2>1. UNCHANGED <<owner, held, lockAgent>>
    BY <1>2 DEF OperatorReopen, DependencyFlip, LoseMarker, DaemonRestart, sessionVars, lockVars
  <2>. QED BY <2>1, RowsQuiet
<1>. QED BY <1>1, <1>2, JobKeeps, SessionKeeps, CloseKeeps, StopKeeps, RecoverKeeps,
            OwnerKeeps DEF Next

-----------------------------------------------------------------------------
\* The claim files

\* Every step but one that writes a claim file.
LEMMA NextFiles ==
    ASSUME LockInv, [Next]_vars
    PROVE  FilesFrom \/ \E j \in jobs : JobMark(j)
<1>1. TypeOK
  BY DEF LockInv, BindingInv, LeaseInv
<1>2. ASSUME marker' = marker \/ (\E w, cond : marker' = MarkerWithout(w, cond)),
             jobs' \subseteq jobs \/ (\E s, t, e, r : Queue(s, t, e, r))
      PROVE  FilesFrom
  BY <1>1, <1>2 DEF FilesFrom, MarkerWithout, Queue, TypeOK
<1>3. CASE UNCHANGED vars
  BY <1>2, <1>3 DEF vars, memoryVars
<1>4. ASSUME NEW j \in jobs, JobStepOf(j) \/ JobFault(j), ~JobMark(j)
      PROVE  FilesFrom
  <2>1. marker' = marker \/ \E w, cond : marker' = MarkerWithout(w, cond)
    BY <1>4 DEF JobStepOf, JobFault, JobFence, JobAttach, JobProve, JobActivate,
       JobFoundBlocked, JobFoundReleased, JobCheck, JobDetach, JobRetainAttached, JobRelease,
       JobCondemnSlot, JobDisableSlot, JobEvict, JobRecheckRelease, JobSettle, JobError,
       JobRetain, JobInterrupt, OwnMarkerGone
  <2>2. \/ jobs' \subseteq jobs
        \/ \E step \in JobStep \ {"marked"} : Advance(j, step)
    BY <1>4 DEF JobStepOf, JobFault, JobFence, JobAttach, JobProve, JobActivate, Finish,
       JobFoundBlocked, JobFoundReleased, JobCheck, JobDetach, JobRetainAttached, JobRelease,
       JobCondemnSlot, JobDisableSlot, JobEvict, JobRecheckRelease, JobSettle, JobError,
       JobRetain, JobInterrupt, JobStep
  <2>3. ASSUME NEW step \in JobStep \ {"marked"}, Advance(j, step),
               NEW k \in jobs', k.step = "marked"
        PROVE  k \in jobs
    <3>1. [j EXCEPT !.step = step].step = step
      BY <1>1 DEF TypeOK, Job
    <3>. QED BY <2>3, <3>1 DEF Advance
  <2>. QED BY <1>1, <2>1, <2>2, <2>3 DEF FilesFrom, MarkerWithout, TypeOK
<1>5. ASSUME NEW s \in Sessions,
             \/ \E a \in Agents, w \in Workspaces : Launch(s, a, w)
             \/ \E t \in Tasks : \/ ClaimTask(s, t) \/ ResumePreparation(s, t)
                                 \/ RecoverStaleBinding(s, t)
                                 \/ \E st \in Verdicts : CloseTransition(s, t, st)
             \/ ClaimOnRetiredSlot(s) \/ ClaimExhausted(s) \/ CloseRecord(s)
             \/ CloseRelease(s) \/ OrphanSweep(s) \/ PrepareTimeout(s)
             \/ DrainDisplaced(s) \/ RequestDrain(s)
             \/ \E lost \in BOOLEAN : TermBegin(s, lost)
             \/ TermUnconfirmed(s) \/ TermRelease(s) \/ TermFinish(s)
      PROVE  FilesFrom
  <2>1. marker' = marker \/ \E w, cond : marker' = MarkerWithout(w, cond)
    BY <1>5 DEF Launch, ClaimTask, ResumePreparation, RecoverStaleBinding, CloseTransition,
       ClaimOnRetiredSlot, ClaimExhausted, CloseRecord, CloseRelease, OrphanSweep,
       PrepareTimeout, DrainDisplaced, RequestDrain, TermBegin, TermUnconfirmed, TermRelease,
       TermFinish
  <2>2. jobs' \subseteq jobs \/ \E o, t, e, r : Queue(o, t, e, r)
    BY <1>5 DEF Launch, ClaimTask, ResumePreparation, RecoverStaleBinding, CloseTransition,
       ClaimOnRetiredSlot, ClaimExhausted, CloseRecord, CloseRelease, OrphanSweep,
       PrepareTimeout, DrainDisplaced, RequestDrain, TermBegin, TermUnconfirmed, TermRelease,
       TermFinish, memoryVars
  <2>. QED BY <1>2, <2>1, <2>2
<1>6. ASSUME NEW t \in Tasks, StopTask(t) PROVE FilesFrom
  BY <1>6 DEF StopTask, FilesFrom, memoryVars
<1>7. CASE \/ \E t \in Tasks : \/ OperatorReopen(t) \/ DependencyFlip(t)
                              \/ RecoverMissing(t, "READY") \/ RecoverMissing(t, "FAILED")
                              \/ OwnerRecovered(t)
           \/ DaemonRestart
  BY <1>7 DEF OperatorReopen, DependencyFlip, RecoverMissing, OwnerRecovered, DaemonRestart,
     FilesFrom, memoryVars
<1>8. ASSUME NEW w \in Workspaces, LoseMarker(w) PROVE FilesFrom
  BY <1>1, <1>8 DEF LoseMarker, FilesFrom, memoryVars, TypeOK
<1>. QED BY <1>3, <1>4, <1>5, <1>6, <1>7, <1>8 DEF Next

\* Who has a slot locked and prepared is the only session that needs it.
LEMMA LockedAlone ==
    ASSUME LockInv, NEW j \in jobs, Locked(j), NEW o \in Sessions, Live(o), held[o] # None,
           slotOf[o] = slotOf[j.session]
    PROVE  o = j.session
<1>1. j.session \in Sessions /\ Live(j.session) /\ held[j.session] # None
  BY JobFields, NoneAssumption
     DEF LockInv, BindingInv, LeaseInv, LockedLive, RowLocked, LockedRow, Locked
<1>. QED BY <1>1 DEF LockInv, SlotKept, OneRooted, Rooted, Needs

-----------------------------------------------------------------------------
\* The invariant, over the kinds of steps

\* A launch roots an agent that was not.
LEMMA LaunchLock ==
    ASSUME LockInv, BindingInv', NEW s \in Sessions, NEW a \in Agents, NEW w \in Workspaces,
           Launch(s, a, w)
    PROVE  LockInv'
<1>. USE NoneAssumption
<1>1. TypeOK
  BY DEF LockInv, BindingInv, LeaseInv
<1>2. /\ sstate[s] = "absent" /\ Reservable(a) /\ Acquirable(w)
      /\ sstate' = [sstate EXCEPT ![s] = "running"]
      /\ agentOf' = [agentOf EXCEPT ![s] = a]
      /\ slotOf' = [slotOf EXCEPT ![s] = w]
      /\ lockAgent' = [lockAgent EXCEPT ![w] = a]
      /\ UNCHANGED <<status, epoch, desired, owner, held, phase, leased, lockTask, marker,
                     jobs>>
  BY DEF Launch, taskVars, memoryVars
<1>3. ASSUME NEW o \in Sessions, Rooted(o)
      PROVE  /\ (o # s /\ agentOf[o] # a /\ slotOf[o] # w) \/ ~Needs(o)
             /\ agentOf'[o] = agentOf[o] /\ slotOf'[o] = slotOf[o]
  <2>1. sstate[o] # "absent" /\ agentOf[o] \in Agents /\ slotOf[o] \in Workspaces
    BY <1>3, NeedsBound DEF LockInv
  <2>2. Needs(o) => lockAgent[slotOf[o]] = agentOf[o]
    BY DEF LockInv, SlotKept
  <2>. QED BY <1>1, <1>2, <1>3, <2>1, <2>2 DEF Reservable, Acquirable, Rooted, TypeOK
<1>4. \A o \in Sessions : Rooted(o) => agentOf[o] # a
  <2>1. \A o \in Sessions : Needs(o) => agentOf[o] # a
    BY <1>2, NeedsBound DEF LockInv, SlotKept, Reservable, Rooted
  <2>. QED BY <1>2, <2>1 DEF Reservable, Rooted
<1>5. ASSUME NEW o \in Sessions, o # s
      PROVE  (Needs(o)' => Needs(o)) /\ (Rooted(o)' => Rooted(o))
  BY <1>1, <1>2, <1>5 DEF Needs, Rooted, Condemning, SessionStill, Live, TypeOK
<1>6. OneRooted'
  BY <1>1, <1>2, <1>3, <1>4, <1>5 DEF LockInv, OneRooted, TypeOK
<1>7. SlotKept'
  <2>. SUFFICES ASSUME NEW o \in Sessions, Needs(o)'
                PROVE  /\ lockAgent'[slotOf'[o]] = agentOf'[o]
                       /\ lockTask'[slotOf'[o]] \in {None, held'[o]}
    BY DEF SlotKept
  <2>1. CASE o = s
    BY <1>1, <1>2, <2>1 DEF Acquirable, TypeOK
  <2>2. CASE o # s
    <3>1. Needs(o) /\ Rooted(o)
      BY <1>5, <2>2 DEF Rooted
    <3>2. slotOf[o] # w /\ agentOf'[o] = agentOf[o] /\ slotOf'[o] = slotOf[o]
      BY <1>3, <3>1
    <3>3. slotOf[o] \in Workspaces
      BY <3>1, NeedsBound DEF LockInv
    <3>. QED BY <1>1, <1>2, <3>1, <3>2, <3>3 DEF LockInv, SlotKept, TypeOK
  <2>. QED BY <2>1, <2>2
<1>8. OwnerHolds'
  BY <1>2 DEF LockInv, OwnerHolds
<1>9. FileWritten'
  <2>1. \A j \in jobs : j.session # s
    BY <1>2 DEF LockInv, BindingInv, Launched
  <2>. QED BY <1>1, <1>2, <2>1 DEF LockInv, FileWritten, OwnMarker, Names, TypeOK, Job
<1>10. ClaimFileNotForeign'
  <2>1. held[s] = None
    BY <1>2 DEF LockInv, BindingInv, Launched
  <2>. QED BY <1>1, <1>2, <2>1
           DEF LockInv, ClaimFileNotForeign, OwnMarker, Names, Holds, Live, TypeOK
<1>. QED BY <1>6, <1>7, <1>8, <1>9, <1>10 DEF LockInv

\* A claim takes the task lock of the slot its agent has locked.
LEMMA ClaimLock ==
    ASSUME LockInv, BindingInv', NEW s \in Sessions, NEW t \in Tasks, ClaimTask(s, t)
    PROVE  LockInv'
<1>. USE NoneAssumption
<1>1. TypeOK /\ Live(s) /\ desired[s] = "running" /\ held[s] = None /\ Needs(s)
  BY DEF LockInv, BindingInv, LeaseInv, ClaimTask, SlotFree, Needs
<1>2. /\ status' = [status EXCEPT ![t] = "IN_PROGRESS"]
      /\ epoch' = [epoch EXCEPT ![t] = epoch[t] + 1]
      /\ held' = [held EXCEPT ![s] = t]
      /\ phase' = [phase EXCEPT ![s] = "preparing"]
      /\ leased' = [leased EXCEPT ![s] = epoch[t] + 1]
      /\ UNCHANGED <<owner, sstate, desired, agentOf, slotOf, lockAgent, marker>>
      /\ \A w \in Workspaces : lockTask'[w] = lockTask[w] \/ (w = slotOf[s] /\ lockTask'[w] = t)
  BY <1>1 DEF ClaimTask, NextEpoch, launchVars, TypeOK
<1>3. ControlsFrom
  BY DEF ClaimTask, Queue, ControlsFrom, JobControls
<1>4. \A j \in jobs' : j \in jobs \/ j.step = "queued"
  BY DEF ClaimTask, Queue
<1>5. ASSUME NEW o \in Sessions, Needs(o)' PROVE Needs(o)
  <2>1. CASE o = s
    BY <1>1, <2>1
  <2>2. CASE o # s
    BY <1>1, <1>2, <1>3, <1>5, <2>2 DEF Needs, Live, Condemning, ControlsFrom, SessionStill,
                                        TypeOK
  <2>. QED BY <2>1, <2>2
<1>6. OneRooted'
  BY <1>2, <1>5 DEF LockInv, OneRooted, Rooted, Live
<1>7. SlotKept'
  <2>. SUFFICES ASSUME NEW o \in Sessions, Needs(o)
                PROVE  /\ lockAgent[slotOf[o]] = agentOf[o]
                       /\ lockTask'[slotOf[o]] \in {None, held'[o]}
    BY <1>2, <1>5 DEF SlotKept
  <2>1. lockAgent[slotOf[o]] = agentOf[o] /\ lockTask[slotOf[o]] \in {None, held[o]}
    BY DEF LockInv, SlotKept
  <2>2. slotOf[o] \in Workspaces
    BY NeedsBound DEF LockInv, Rooted
  <2>3. CASE o = s
    BY <1>1, <1>2, <2>1, <2>2, <2>3 DEF TypeOK
  <2>4. CASE o # s
    <3>1. slotOf[o] # slotOf[s]
      BY <1>1, <2>1, <2>4 DEF LockInv, OneRooted, Rooted, SlotKept
    <3>. QED BY <1>1, <1>2, <2>1, <2>2, <2>4, <3>1 DEF TypeOK
  <2>. QED BY <2>3, <2>4
<1>8. OwnerHolds'
  BY <1>1, <1>2 DEF LockInv, OwnerHolds, TypeOK
<1>9. FileWritten'
  BY <1>2, <1>4 DEF LockInv, FileWritten, OwnMarker, Names
<1>10. ClaimFileNotForeign'
  <2>. SUFFICES ASSUME NEW o \in Sessions, NEW u \in Tasks, Live(o), Holds(o, u)',
                       phase'[o] = "active", status'[u] = "IN_PROGRESS"
                PROVE  /\ \/ marker[slotOf[o]] = None
                          \/ OwnMarker(slotOf[o], u, epoch[u], o)
                       /\ epoch'[u] = epoch[u]
    BY <1>2 DEF ClaimFileNotForeign, OwnMarker, Names, Live
  <2>1. o # s
    BY <1>1, <1>2 DEF TypeOK
  <2>2. held[o] = u /\ leased[o] = epoch'[u] /\ phase[o] = "active"
    BY <1>1, <1>2, <2>1 DEF Holds, TypeOK
  <2>3. leased[o] <= epoch[u]
    BY <2>2 DEF LockInv, BindingInv, LeaseInv, LeaseFenced
  <2>4. u # t
    BY <1>1, <1>2, <2>2, <2>3 DEF TypeOK, Epoch
  <2>5. epoch'[u] = epoch[u] /\ status[u] = "IN_PROGRESS"
    BY <1>1, <1>2, <2>4 DEF TypeOK
  <2>. QED BY <2>2, <2>5 DEF LockInv, ClaimFileNotForeign, Holds
<1>. QED BY <1>6, <1>7, <1>8, <1>9, <1>10 DEF LockInv

\* The rows, under a step that neither launches nor claims.
LEMMA YieldsRows ==
    ASSUME LockInv, BindingInv', Yields, ControlsFrom, OwnersFrom, NeededKept
    PROVE  OneRooted' /\ SlotKept' /\ OwnerHolds'
<1>. USE NoneAssumption
<1>1. TypeOK /\ TypeOK'
  BY DEF LockInv, BindingInv, LeaseInv
<1>2. UNCHANGED <<epoch, agentOf, slotOf>>
  BY DEF Yields
<1>3. OwnerHolds'
  BY DEF OwnersFrom, LockInv, OwnerHolds
<1>4. \A s \in Sessions :
         /\ Live(s)' => Live(s)
         /\ desired'[s] = "running" => desired[s] = "running"
         /\ held'[s] # None => held'[s] = held[s] /\ leased'[s] = leased[s]
  BY DEF Yields, KeepsHold, DropsHold, Live
<1>5. ASSUME NEW s \in Sessions, Condemning(s)' PROVE Needs(s)
  <2>1. PICK j \in jobs' : /\ j.session = s /\ JobControls(j) /\ Quarantines
                           /\ held'[s] = j.task /\ leased'[s] = j.epoch /\ j.task # None
    BY <1>1, <1>5, JobFields DEF Condemning, SessionStill, TypeOK, Job
  <2>. QED BY <1>4, <2>1 DEF ControlsFrom, Condemning, SessionStill, Needs
<1>6. ASSUME NEW s \in Sessions, Needs(s)' PROVE Needs(s)
  <2>1. ASSUME NEW t \in Tasks, owner'[t] = s PROVE Needs(s)
    BY <2>1 DEF OwnersFrom, Needs
  <2>. QED BY <1>4, <1>5, <1>6, <2>1 DEF Needs
<1>7. OneRooted'
  BY <1>2, <1>4, <1>6 DEF LockInv, OneRooted, Rooted
<1>8. SlotKept'
  <2>. SUFFICES ASSUME NEW s \in Sessions, Needs(s)'
                PROVE  /\ lockAgent'[slotOf[s]] = agentOf[s]
                       /\ lockTask'[slotOf[s]] \in {None, held'[s]}
    BY <1>2 DEF SlotKept
  <2>1. Needs(s) /\ slotOf[s] \in Workspaces
    BY <1>6, NeedsBound DEF LockInv, Rooted
  <2>2. /\ lockAgent[slotOf[s]] = agentOf[s] /\ lockTask[slotOf[s]] \in {None, held[s]}
        /\ lockAgent'[slotOf[s]] = lockAgent[slotOf[s]]
        /\ lockTask'[slotOf[s]] \in {lockTask[slotOf[s]], None}
    BY <2>1 DEF LockInv, SlotKept, NeededKept, Yields
  <2>3. CASE KeepsHold(s)
    BY <2>2, <2>3 DEF KeepsHold
  <2>4. CASE DropsHold(s)
    <3>1. held'[s] = None
      BY <2>4 DEF DropsHold
    <3>2. ~Condemning(s)'
      BY <1>1, <3>1, JobFields DEF Condemning, SessionStill, TypeOK, Job
    <3>3. \A t \in Tasks : owner'[t] # s
      BY <1>3, <3>1 DEF OwnerHolds
    <3>4. desired[s] = "running"
      BY <1>4, <3>1, <3>2, <3>3 DEF Needs
    <3>5. lockTask[slotOf[s]] = held[s] => lockTask'[slotOf[s]] = None
      BY <2>1, <2>2, <2>4, <3>4 DEF DropsHold
    <3>. QED BY <2>2, <3>1, <3>5
  <2>. QED BY <2>2, <2>3, <2>4 DEF Yields
<1>. QED BY <1>3, <1>7, <1>8

\* The claim files, under such a step that writes none.
LEMMA YieldsFiles ==
    ASSUME LockInv, BindingInv', Yields, FilesFrom, [Next]_vars
    PROVE  FileWritten' /\ ClaimFileNotForeign'
<1>. USE NoneAssumption
<1>1. TypeOK /\ UNCHANGED <<epoch, slotOf>>
  BY DEF LockInv, BindingInv, LeaseInv, Yields
<1>2. ASSUME NEW j \in jobs', j.step = "marked"
      PROVE  LET w == slotOf[j.session]
             IN  marker'[w] = None \/ OwnMarker(w, j.task, j.epoch, j.session)'
  <2>1. j \in jobs
    BY <1>2 DEF FilesFrom
  <2>2. slotOf[j.session] \in Workspaces
    BY <1>1, <2>1, JobFields DEF LockInv, BindingInv, Launched, TypeOK
  <2>3. marker'[slotOf[j.session]] \in {marker[slotOf[j.session]], None}
    BY <2>2 DEF FilesFrom
  <2>. QED BY <1>1, <1>2, <2>1, <2>3 DEF LockInv, FileWritten, OwnMarker, Names
<1>3. ASSUME NEW s \in Sessions, NEW t \in Tasks, Live(s)', Holds(s, t)',
             phase'[s] = "active", status'[t] = "IN_PROGRESS"
      PROVE  marker'[slotOf[s]] = None \/ OwnMarker(slotOf[s], t, epoch[t], s)'
  <2>1. Live(s) /\ Holds(s, t) /\ status[t] = "IN_PROGRESS"
    BY <1>1, <1>3 DEF Yields, KeepsHold, DropsHold, Holds, Live
  <2>2. marker'[slotOf[s]] \in {marker[slotOf[s]], None}
    BY <1>1, <2>1 DEF FilesFrom, LockInv, BindingInv, Launched, Live, TypeOK
  <2>3. marker[slotOf[s]] = None \/ OwnMarker(slotOf[s], t, epoch[t], s)
    <3>1. CASE phase[s] = "active"
      BY <2>1, <3>1 DEF LockInv, ClaimFileNotForeign
    <3>2. CASE phase[s] # "active"
      <4>1. Next
        BY <1>3, <3>2 DEF vars, sessionVars
      <4>2. PICK j \in jobs : JobActivate(j) /\ j.session = s
        BY <1>1, <1>3, <3>2, <4>1, OnlyJobActivates
      <4>3. j.step = "marked" /\ j.task = t /\ j.epoch = epoch[t]
        BY <2>1, <4>2 DEF JobActivate, LockInv, BindingInv, LeaseInv, LockedRow, Holds
      <4>. QED BY <4>2, <4>3 DEF LockInv, FileWritten
    <3>. QED BY <3>1, <3>2
  <2>. QED BY <1>1, <2>2, <2>3 DEF OwnMarker, Names
<1>4. FileWritten'
  BY <1>1, <1>2 DEF FileWritten
<1>5. ClaimFileNotForeign'
  BY <1>1, <1>3 DEF ClaimFileNotForeign
<1>. QED BY <1>4, <1>5

\* The one step that writes a claim file writes it where nobody else has a claim.
LEMMA MarkFiles ==
    ASSUME LockInv, BindingInv', NEW j \in jobs, JobMark(j)
    PROVE  FileWritten' /\ ClaimFileNotForeign'
<1>. USE NoneAssumption
<1>. DEFINE file == [task |-> j.task, epoch |-> j.epoch, session |-> j.session]
            k == [j EXCEPT !.step = "marked"]
<1>1. TypeOK /\ Locked(j) /\ j \in Job /\ slotOf[j.session] \in Workspaces
  BY JobFields DEF LockInv, BindingInv, LeaseInv, Launched, JobMark, Locked, TypeOK
<1>2. /\ UNCHANGED <<status, epoch, sstate, held, phase, leased, slotOf>>
      /\ marker' = [marker EXCEPT ![slotOf[j.session]] = file]
      /\ jobs' = (jobs \ {j}) \cup {k} /\ j.step = "proved"
  BY DEF JobMark, Advance, tableVars, taskVars, sessionVars, launchVars
<1>3. k.session = j.session /\ k.task = j.task /\ k.epoch = j.epoch
  BY <1>1 DEF Job
<1>4. file.task = j.task /\ file.epoch = j.epoch /\ file.session = j.session
  OBVIOUS
<1>. HIDE DEF file, k
<1>5. FileWritten'
  <2>. SUFFICES ASSUME NEW i \in jobs', i.step = "marked"
                PROVE  LET w == slotOf[i.session]
                       IN  marker'[w] = None \/ OwnMarker(w, i.task, i.epoch, i.session)'
    BY <1>2 DEF FileWritten
  <2>1. CASE i = k
    BY <1>1, <1>2, <1>3, <1>4, <2>1 DEF OwnMarker, Names, TypeOK
  <2>2. CASE i \in jobs /\ i # j
    <3>1. Locked(i) /\ i.session \in Sessions /\ Live(i.session) /\ held[i.session] # None
      BY <1>1, <2>2, JobFields
         DEF Locked, LockInv, BindingInv, LeaseInv, LockedLive, RowLocked, LockedRow
    <3>2. i.session # j.session
      BY <1>1, <2>2, <3>1 DEF LockInv, BindingInv, LeaseInv, LockedOnce, Locked
    <3>3. slotOf[i.session] # slotOf[j.session]
      BY <1>1, <3>1, <3>2, LockedAlone
    <3>4. marker'[slotOf[i.session]] = marker[slotOf[i.session]]
      BY <1>1, <1>2, <3>1, <3>3 DEF LockInv, BindingInv, Launched, Live, TypeOK
    <3>. QED BY <1>2, <2>2, <3>4 DEF LockInv, FileWritten, OwnMarker, Names
  <2>. QED BY <1>2, <2>1, <2>2
<1>6. ClaimFileNotForeign'
  <2>. SUFFICES ASSUME NEW s \in Sessions, NEW t \in Tasks, Live(s), Holds(s, t),
                       phase[s] = "active", status[t] = "IN_PROGRESS"
                PROVE  marker'[slotOf[s]] = None \/ OwnMarker(slotOf[s], t, epoch[t], s)'
    BY <1>2 DEF ClaimFileNotForeign, Live, Holds
  <2>1. s # j.session
    BY <1>1 DEF LockInv, BindingInv, LeaseInv, LockedRow, Locked
  <2>2. slotOf[s] # slotOf[j.session]
    BY <1>1, <2>1, LockedAlone DEF Holds
  <2>3. marker'[slotOf[s]] = marker[slotOf[s]]
    BY <1>1, <1>2, <2>2 DEF LockInv, BindingInv, Launched, Live, TypeOK
  <2>. QED BY <1>2, <2>3 DEF LockInv, ClaimFileNotForeign, OwnMarker, Names
<1>. QED BY <1>5, <1>6

LEMMA InitLock == Init => LockInv /\ OwnersCurrent
<1>. SUFFICES ASSUME Init PROVE LockInv /\ OwnersCurrent
  OBVIOUS
<1>. USE NoneAssumption
<1>1. \A s \in Sessions : ~Rooted(s) /\ ~Needs(s) /\ ~Live(s)
  BY DEF Init, Rooted, Needs, Live, Condemning
<1>2. OwnerHolds /\ FileWritten /\ OwnersCurrent
  BY DEF Init, OwnerHolds, FileWritten, OwnersCurrent
<1>. QED BY <1>1, <1>2, InitBinding DEF LockInv, OneRooted, SlotKept, ClaimFileNotForeign

\* Every step keeps the invariant where the owner-recovery sweep finds current claims.
LEMMA NextLock == LockInv /\ OwnersCurrent /\ [Next]_vars => LockInv'
<1>. SUFFICES ASSUME LockInv, OwnersCurrent, [Next]_vars PROVE LockInv'
  OBVIOUS
<1>1. BindingInv' /\ TypeOK' /\ ControlsFrom
  BY NextBinding, NextControlsFrom DEF LockInv, BindingInv, LeaseInv
<1>2. CASE \E s \in Sessions, a \in Agents, w \in Workspaces : Launch(s, a, w)
  BY <1>1, <1>2, LaunchLock
<1>3. CASE \E s \in Sessions, t \in Tasks : ClaimTask(s, t)
  BY <1>1, <1>3, ClaimLock
<1>4. CASE Yields /\ OwnersFrom /\ NeededKept
  <2>1. OneRooted' /\ SlotKept' /\ OwnerHolds'
    BY <1>1, <1>4, YieldsRows
  <2>2. FileWritten' /\ ClaimFileNotForeign'
    BY <1>1, <1>4, NextFiles, YieldsFiles, MarkFiles
  <2>. QED BY <1>1, <2>1, <2>2 DEF LockInv
<1>5. \/ \E s \in Sessions, a \in Agents, w \in Workspaces : Launch(s, a, w)
      \/ \E s \in Sessions, t \in Tasks : ClaimTask(s, t)
      \/ Yields
  BY NextYields DEF LockInv
<1>. QED BY <1>1, <1>2, <1>3, <1>4, <1>5, NextKeeps
=============================================================================
