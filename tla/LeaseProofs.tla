----------------------------- MODULE LeaseProofs -----------------------------
(***************************************************************************)
(* The lease as a whole, where neither a closed task nor a prerequisite of *)
(* a held one comes back: a running task always has a session that will    *)
(* let go of it, and every step of the claim protocol is a step of the     *)
(* abstract lease.  With a prerequisite that comes back the first is       *)
(* false: BlockedRelease is the shortest way.                              *)
(***************************************************************************)
EXTENDS HoldProofs

\* A session whose hold of t something still ends.
Backed(s, t) == Holds(s, t) /\ (Live(s) \/ phase[s] = "preparing" \/ owner[t] = s)

\* Whoever backs a running task goes on backing it, or the task stops running.
BackingKept ==
    \A s \in Sessions, t \in Tasks : Backed(s, t) /\ status[t] = "IN_PROGRESS" =>
        Backed(s, t)' \/ status'[t] # "IN_PROGRESS"

\* At most one task changes its status, and it was not waiting on the frontier; only a
\* running one goes back there.
StatusStep ==
    \/ UNCHANGED status
    \/ \E t \in Tasks, x \in TaskStatus :
          /\ status' = [status EXCEPT ![t] = x]
          /\ status[t] # "READY" /\ (x = "READY" => status[t] = "IN_PROGRESS")

LeaseEffects == BackingKept /\ StatusStep

-----------------------------------------------------------------------------
\* Effects of the parts

LEMMA BackingQuiet ==
    ASSUME UNCHANGED <<epoch, sstate, held, phase, leased>>,
           \A t \in Tasks : \/ owner'[t] = owner[t] \/ owner[t] = None
                            \/ phase[owner[t]] = "preparing" \/ status'[t] # "IN_PROGRESS"
    PROVE  BackingKept
BY NoneAssumption DEF BackingKept, Backed, Holds, Live

\* A release without a fence ends the run of an unblocked task.
LEMMA Unfenced ==
    ASSUME NEW t \in Tasks, ~blocked[t], status[t] = "IN_PROGRESS", NEW target
    PROVE  RowMatches(t, target, NoFence)
BY DEF RowMatches, NoFence

\* A release that takes the hold takes the task out of IN_PROGRESS.
LEMMA ReleaseEnds ==
    ASSUME HoldInv, NEW s \in Sessions, NEW target \in TaskStatus \ {"IN_PROGRESS"},
           NEW fence, NEW opt, Release(s, target, fence, opt),
           held[s] # None /\ status[held[s]] = "IN_PROGRESS" => RowMatches(held[s], target, fence),
           target = "READY" => fence.status \in {None, "IN_PROGRESS"},
           \A t \in Tasks : owner'[t] = owner[t] \/ owner[t] = s
    PROVE  LeaseEffects
<1>. USE NoneAssumption
<1>1. TypeOK
  BY DEF HoldInv, LockInv, BindingInv, LeaseInv
<1>2. BackingKept
  <2>. SUFFICES ASSUME NEW o \in Sessions, NEW t \in Tasks, Backed(o, t),
                       status[t] = "IN_PROGRESS", status'[t] = "IN_PROGRESS"
                PROVE  Backed(o, t)'
    BY DEF BackingKept
  <2>1. held[o] = t /\ held[o] # None
    BY DEF Backed, Holds
  <2>2. o # s
    <3>1. CASE o = s
      <4>1. status' = [status EXCEPT ![t] = target]
        BY <2>1, <3>1 DEF Release
      <4>. QED BY <1>1, <4>1 DEF TypeOK
    <3>. QED BY <3>1
  <2>3. /\ held'[o] = held[o] /\ phase'[o] = phase[o] /\ leased'[o] = leased[o]
        /\ UNCHANGED <<epoch, sstate>>
    BY <1>1, <2>2 DEF Release, TypeOK
  <2>. QED BY <2>2, <2>3 DEF Backed, Holds, Live
<1>3. StatusStep
  <2>1. CASE held[s] # None /\ RowMatches(held[s], target, fence)
    <3>1. status' = [status EXCEPT ![held[s]] = target] /\ held[s] \in Tasks
      BY <1>1, <2>1 DEF Release, TypeOK
    <3>2. status[held[s]] # "READY" /\ (target = "READY" => status[held[s]] = "IN_PROGRESS")
      BY <2>1, <3>1 DEF RowMatches, HoldInv, HeldCurrent
    <3>. QED BY <3>1, <3>2 DEF StatusStep
  <2>2. CASE ~(held[s] # None /\ RowMatches(held[s], target, fence))
    BY <2>2 DEF Release, StatusStep
  <2>. QED BY <2>1, <2>2
<1>. QED BY <1>2, <1>3 DEF LeaseEffects

\* ... which a release without a fence always does.
LEMMA UnfencedEnds ==
    ASSUME GrantInv, NEW s \in Sessions, NEW target \in TaskStatus \ {"IN_PROGRESS"}, NEW opt,
           Release(s, target, NoFence, opt), \A t \in Tasks : owner'[t] = owner[t] \/ owner[t] = s
    PROVE  LeaseEffects
<1>1. held[s] # None => held[s] \in Tasks
  BY DEF GrantInv, HoldInv, LockInv, BindingInv, LeaseInv, TypeOK
<1>2. NoFence.status = None
  BY DEF NoFence
<1>. QED BY <1>1, <1>2, Unfenced, ReleaseEnds DEF GrantInv

LEMMA JobEnds ==
    ASSUME GrantInv, NEW j \in jobs, JobStepOf(j) \/ JobFault(j)
    PROVE  LeaseEffects
<1>. USE NoneAssumption
<1>1. TypeOK /\ j \in Job /\ j.session \in Sessions /\ j.task \in Tasks /\ HoldInv
  BY JobFields DEF GrantInv, HoldInv, LockInv, BindingInv, LeaseInv, TypeOK
<1>2. ASSUME UNCHANGED <<taskVars, owner, sessionVars>> PROVE LeaseEffects
  <2>1. UNCHANGED <<status, epoch, sstate, held, phase, leased, owner>>
    BY <1>2 DEF taskVars, sessionVars
  <2>2. BackingKept
    BY <2>1, BackingQuiet
  <2>. QED BY <2>1, <2>2 DEF LeaseEffects, StatusStep
<1>3. CASE \/ JobFence(j) \/ JobProve(j) \/ JobMark(j)
           \/ JobFoundBlocked(j) \/ JobFoundReleased(j) \/ JobCheck(j)
           \/ JobRetainAttached(j) \/ JobDisableSlot(j)
           \/ JobError(j) \/ JobRetain(j) \/ JobInterrupt(j)
  BY <1>2, <1>3 DEF JobFence, JobProve, JobMark, JobFoundBlocked, JobFoundReleased,
     JobCheck, JobRetainAttached, JobDisableSlot, JobError, JobRetain, JobInterrupt, tableVars
<1>4. CASE JobAttach(j) \/ JobDetach(j)
  <2>1. UNCHANGED <<status, epoch, sstate, held, phase, leased>>
    BY <1>4 DEF JobAttach, JobDetach, taskVars, sessionVars
  <2>2. CASE JobAttach(j)
    <3>1. owner' = owner \/ (owner[j.task] = None /\ owner' = [owner EXCEPT ![j.task] = j.session])
      BY <2>2 DEF JobAttach
    <3>. QED BY <1>1, <2>1, <3>1, BackingQuiet DEF LeaseEffects, StatusStep, TypeOK
  <2>3. CASE JobDetach(j)
    <3>1. owner[j.task] = j.session /\ owner' = [owner EXCEPT ![j.task] = None]
      BY <2>3 DEF JobDetach
    <3>2. held[j.session] = j.task
      BY <1>1, <3>1 DEF HoldInv, LockInv, OwnerHolds
    <3>3. phase[j.session] = "preparing"
      BY <2>3, <3>2 DEF JobDetach, StillPreparing, JobControls, GrantInv, Controlled
    <3>. QED BY <1>1, <2>1, <3>1, <3>3, BackingQuiet DEF LeaseEffects, StatusStep, TypeOK
  <2>. QED BY <1>4, <2>2, <2>3
<1>5. CASE JobActivate(j)
  <2>1. /\ RowLocked(j.session) /\ leased[j.session] = j.epoch
        /\ phase' = [phase EXCEPT ![j.session] = "active"]
        /\ leased' = [leased EXCEPT ![j.session] = j.epoch]
        /\ UNCHANGED <<status, epoch, sstate, held, owner>>
    BY <1>1, <1>5 DEF JobActivate, RowLocked, HoldInv, LockInv, BindingInv, LeaseInv, LockedRow
  <2>2. Live(j.session)
    BY <1>1, <2>1 DEF HoldInv, LockInv, BindingInv, LockedLive
  <2>3. BackingKept
    BY <1>1, <2>1, <2>2 DEF BackingKept, Backed, Holds, Live, TypeOK
  <2>. QED BY <2>1, <2>3 DEF LeaseEffects, StatusStep
<1>6. CASE JobRelease(j)
  <2>1. PICK drain \in BOOLEAN, o \in FailureOutcomes(j) :
           ReleaseOrSkip(j, o.target, NoFence,
                         [Ordinary EXCEPT !.backoff = o.backoff, !.drain = drain])
    BY <1>6 DEF JobRelease
  <2>2. o.target \in TaskStatus \ {"IN_PROGRESS"}
    BY DEF FailureOutcomes, LadderTarget, TaskStatus
  <2>. QED BY <1>1, <1>2, <1>6, <2>1, <2>2, UnfencedEnds DEF JobRelease, ReleaseOrSkip, taskVars
<1>7. CASE JobCondemnSlot(j)
  <2>1. LadderTarget(j.task) \in TaskStatus \ {"IN_PROGRESS"}
    BY DEF LadderTarget, TaskStatus
  <2>. QED BY <1>1, <1>7, <2>1, UnfencedEnds DEF JobCondemnSlot
<1>8. CASE JobEvict(j) \/ JobSettle(j)
  BY <1>1, <1>2, <1>8, UnfencedEnds DEF JobEvict, JobSettle, TaskStatus
<1>9. CASE JobRecheckRelease(j)
  <2>. DEFINE f == Fence("IN_PROGRESS", j.epoch)
  <2>1. CASE SessionStill(j) /\ Release(j.session, "READY", f, [Ordinary EXCEPT !.backoff = TRUE])
    <3>1. f.status = "IN_PROGRESS" /\ f.epoch = j.epoch
      BY DEF Fence
    <3>2. held[j.session] = j.task /\ epoch[j.task] = j.epoch
      BY <1>1, <2>1 DEF SessionStill, HoldInv, HeldCurrent
    <3>3. status[j.task] = "IN_PROGRESS" => RowMatches(j.task, "READY", f)
      BY <1>1, <3>1, <3>2 DEF RowMatches, GrantInv
    <3>4. UNCHANGED owner
      BY <1>9 DEF JobRecheckRelease
    <3>. QED BY <1>1, <2>1, <3>1, <3>2, <3>3, <3>4, ReleaseEnds DEF TaskStatus
  <2>2. CASE UNCHANGED <<taskVars, sessionVars>>
    BY <1>2, <1>9, <2>2 DEF JobRecheckRelease
  <2>. QED BY <1>9, <2>1, <2>2 DEF JobRecheckRelease, ReleaseOrSkip, taskVars
<1>. QED BY <1>3, <1>4, <1>5, <1>6, <1>7, <1>8, <1>9 DEF JobStepOf, JobFault

\* A session that is stopped with its hold is kept as evidence by an attached branch.
LEMMA TermEnds ==
    ASSUME GrantInv, NEW s \in Sessions, TermRelease(s)
    PROVE  LeaseEffects
<1>. USE NoneAssumption
<1>. DEFINE f == IF stopping[s].lost THEN Fence("IN_PROGRESS", None) ELSE NoFence
<1>1. TypeOK /\ HoldInv /\ UNCHANGED owner /\ ~RowLocked(s) /\ stopping[s] # None
  BY DEF GrantInv, HoldInv, LockInv, BindingInv, LeaseInv, TermRelease
<1>2. Live(s) /\ held[s] \in {None, stopping[s].task} /\ held[s] \in Tasks \cup {None}
  BY <1>1 DEF TypeOK, HoldInv, LockInv, BindingInv, TeardownHold
<1>3. f.status \in {None, "IN_PROGRESS"} /\ (f # NoFence => f.status = "IN_PROGRESS" /\ f.epoch = None)
  BY DEF Fence, NoFence
<1>4. held[s] # None /\ status[held[s]] = "IN_PROGRESS" => RowMatches(held[s], "READY", f)
  <2>1. CASE f = NoFence
    BY <1>2, <2>1, Unfenced DEF GrantInv
  <2>2. CASE f # NoFence
    BY <1>2, <1>3, <2>2 DEF RowMatches, GrantInv
  <2>. QED BY <2>1, <2>2
<1>5. CASE \E opt : Release(s, "READY", f, opt)
  BY <1>1, <1>3, <1>4, <1>5, ReleaseEnds DEF TaskStatus
<1>6. CASE /\ ~(StillOwned(s) /\ Releasable(s, "READY", f))
           /\ sstate' = [sstate EXCEPT ![s] = "stopped"]
           /\ UNCHANGED <<status, epoch, held, phase, leased>>
  <2>1. StillOwned(s)
    <3>1. ~OtherLive(s)
      BY <1>1, <1>2 DEF OtherLive, HoldInv, LockInv, BindingInv, AgentOnce
    <3>2. current[agentOf[s]] \in {None, held[s]}
      BY <1>1, <1>2 DEF HoldInv, LivePreparation
    <3>. QED BY <1>2, <3>1, <3>2 DEF StillOwned
  <2>2. ASSUME held[s] # None, status[held[s]] = "IN_PROGRESS" PROVE owner[held[s]] = s
    <3>1. Fits(s, "READY", f)
      BY <1>4, <2>2 DEF Fits
    <3>2. Vetoed(s)
      BY <1>1, <1>6, <2>1, <3>1 DEF Releasable
    <3>. QED BY <1>1, <3>2 DEF Vetoed, HoldInv, LockInv, OwnerHolds
  <2>3. BackingKept
    BY <1>1, <1>6, <2>2 DEF BackingKept, Backed, Holds, Live, TypeOK
  <2>. QED BY <1>6, <2>3 DEF LeaseEffects, StatusStep
<1>7. \/ \E opt : Release(s, "READY", f, opt)
      \/ /\ ~(StillOwned(s) /\ Releasable(s, "READY", f))
         /\ sstate' = [sstate EXCEPT ![s] = "stopped"]
         /\ UNCHANGED <<status, epoch, held, phase, leased>>
  BY DEF TermRelease, taskVars
<1>. QED BY <1>5, <1>6, <1>7

LEMMA SessionEnds ==
    ASSUME GrantInv, NEW s \in Sessions,
           \/ ClaimOnRetiredSlot(s) \/ ClaimExhausted(s) \/ CloseRecord(s)
           \/ CloseRelease(s) \/ OrphanSweep(s) \/ PrepareTimeout(s)
           \/ DrainDisplaced(s) \/ RequestDrain(s)
           \/ \E lost \in BOOLEAN : TermBegin(s, lost)
           \/ TermUnconfirmed(s) \/ TermFinish(s)
           \/ \E t \in Tasks : ResumePreparation(s, t) \/ RecoverStaleBinding(s, t)
    PROVE  LeaseEffects
<1>. USE NoneAssumption
<1>1. TypeOK /\ HoldInv
  BY DEF GrantInv, HoldInv, LockInv, BindingInv, LeaseInv
<1>2. ASSUME UNCHANGED <<status, epoch, sstate, held, phase, leased, owner>> PROVE LeaseEffects
  BY <1>2, BackingQuiet DEF LeaseEffects, StatusStep
<1>3. CASE \/ ClaimOnRetiredSlot(s) \/ ClaimExhausted(s) \/ CloseRecord(s)
           \/ RequestDrain(s) \/ TermUnconfirmed(s)
           \/ \E lost \in BOOLEAN : TermBegin(s, lost)
           \/ \E t \in Tasks : ResumePreparation(s, t)
  BY <1>2, <1>3 DEF ClaimOnRetiredSlot, ClaimExhausted, CloseRecord, RequestDrain,
     TermUnconfirmed, TermBegin, ResumePreparation, taskVars, sessionVars
<1>4. CASE CloseRelease(s)
  <2>. DEFINE c == closing[s]
  <2>1. c # None /\ c \in Closing /\ c.status # "IN_PROGRESS" /\ UNCHANGED owner
    BY <1>1, <1>4 DEF CloseRelease, TypeOK, HoldInv, LockInv, BindingInv, Assignment
  <2>2. c.status \in TaskStatus \ {"IN_PROGRESS"}
    BY <2>1 DEF Closing
  <2>3. \/ Release(s, c.status, NoFence, [Ordinary EXCEPT !.drain = FreshContext])
        \/ UNCHANGED <<taskVars, sessionVars>>
    BY <1>4 DEF CloseRelease
  <2>. HIDE DEF c
  <2>. QED BY <1>2, <2>1, <2>2, <2>3, UnfencedEnds DEF taskVars, sessionVars
<1>5. CASE OrphanSweep(s)
  <2>1. /\ held[s] \in Tasks /\ status[held[s]] \in TaskStatus \ {"IN_PROGRESS"}
        /\ UNCHANGED owner /\ \E fence, opt : Release(s, status[held[s]], fence, opt)
    BY <1>1, <1>5 DEF OrphanSweep, StillOpen, TypeOK
  <2>2. status[held[s]] # "READY"
    BY <1>1, <2>1 DEF HoldInv, HeldCurrent
  <2>. QED BY <1>1, <2>1, <2>2, ReleaseEnds
<1>6. CASE PrepareTimeout(s)
  BY <1>6, UnfencedEnds DEF PrepareTimeout, TaskStatus
<1>7. ASSUME NEW t \in Tasks, RecoverStaleBinding(s, t) PROVE LeaseEffects
  <2>1. held[s] = t /\ Holds(s, t) /\ UNCHANGED owner
    BY <1>1, <1>7 DEF RecoverStaleBinding, StaleBinding, Holds, HoldInv, HeldCurrent
  <2>2. status[t] \in TaskStatus \ {"IN_PROGRESS", "READY"}
    BY <1>1, <1>7, <2>1 DEF RecoverStaleBinding, StaleBinding, HoldInv, HeldCurrent, LockInv,
       BindingInv, Assignment, TypeOK
  <2>3. \/ \E fence, opt : Release(s, status[t], fence, opt)
        \/ UNCHANGED <<status, epoch, sstate, held, phase, leased>>
    BY <1>7 DEF RecoverStaleBinding, taskVars
  <2>. QED BY <1>1, <1>2, <2>1, <2>2, <2>3, ReleaseEnds
<1>8. CASE DrainDisplaced(s)
  <2>1. /\ held[s] \in Tasks
        /\ held' = [held EXCEPT ![s] = None] /\ phase' = [phase EXCEPT ![s] = None]
        /\ UNCHANGED <<status, epoch, sstate, leased, owner>>
    BY <1>1, <1>8 DEF DrainDisplaced, taskVars, TypeOK
  <2>2. leased[s] = epoch[held[s]] /\ phase[s] # None
    BY <1>1, <2>1 DEF HoldInv, HeldCurrent, LockInv, BindingInv, HoldPhase
  <2>3. status[held[s]] # "IN_PROGRESS"
    BY <1>1, <1>8, <2>1, <2>2 DEF DrainDisplaced, HoldInv, LockInv, BindingInv, Assignment, Holds
  <2>4. BackingKept
    BY <1>1, <2>1, <2>3 DEF BackingKept, Backed, Holds, Live, TypeOK
  <2>. QED BY <2>1, <2>4 DEF LeaseEffects, StatusStep
<1>9. CASE TermFinish(s)
  <2>1. /\ held[s] = None /\ sstate' = [sstate EXCEPT ![s] = "stopped"]
        /\ UNCHANGED <<status, epoch, held, phase, leased, owner>>
    BY <1>1, <1>9 DEF TermFinish, HoldInv, LockInv, BindingInv, TeardownHold, taskVars
  <2>2. BackingKept
    BY <1>1, <2>1 DEF BackingKept, Backed, Holds, Live, TypeOK
  <2>. QED BY <2>1, <2>2 DEF LeaseEffects, StatusStep
<1>. QED BY <1>3, <1>4, <1>5, <1>6, <1>7, <1>8, <1>9

\* The close, the operator's stop and the sweeps over the tasks.
LEMMA TaskEnds ==
    ASSUME GrantInv, NEW t \in Tasks,
           \/ \E s \in Sessions, st \in Verdicts : CloseTransition(s, t, st)
           \/ StopTask(t) \/ OwnerRecovered(t)
           \/ RecoverMissing(t, "READY") \/ RecoverMissing(t, "FAILED")
    PROVE  LeaseEffects
<1>. USE NoneAssumption
<1>1. TypeOK /\ HoldInv
  BY DEF GrantInv, HoldInv, LockInv, BindingInv, LeaseInv
<1>2. CASE \E s \in Sessions, st \in Verdicts : CloseTransition(s, t, st)
  <2>1. PICK s \in Sessions, st \in Verdicts : CloseTransition(s, t, st)
    BY <1>2
  <2>2. /\ status[t] = "IN_PROGRESS" /\ status' = [status EXCEPT ![t] = st]
        /\ st \in TaskStatus \ {"IN_PROGRESS"}
        /\ UNCHANGED <<epoch, sstate, held, phase, leased>>
        /\ owner' = owner \/ (\E x : owner' = [owner EXCEPT ![t] = x])
    BY <2>1 DEF CloseTransition, Verdicts, TaskStatus, sessionVars
  <2>3. BackingKept
    BY <1>1, <2>2, BackingQuiet DEF TypeOK
  <2>. QED BY <2>2, <2>3 DEF LeaseEffects, StatusStep
<1>3. CASE StopTask(t)
  <2>1. PICK st \in {"READY", "BLOCKED"} : status' = [status EXCEPT ![t] = st]
    BY <1>3 DEF StopTask
  <2>2. /\ status[t] = "IN_PROGRESS" /\ UNCHANGED <<epoch, leased>>
        /\ owner' = [owner EXCEPT ![t] = None]
        /\ \A s \in Sessions : held[s] # t =>
              held'[s] = held[s] /\ phase'[s] = phase[s] /\ sstate'[s] = sstate[s]
    BY <1>3 DEF StopTask
  <2>3. BackingKept
    BY <1>1, <2>1, <2>2 DEF BackingKept, Backed, Holds, Live, TypeOK
  <2>. QED BY <2>1, <2>2, <2>3 DEF LeaseEffects, StatusStep, TaskStatus
<1>4. CASE OwnerRecovered(t)
  <2>. DEFINE target == IF status[t] = "IN_PROGRESS" THEN "READY" ELSE status[t]
  <2>1. PICK s \in Sessions :
           /\ s = owner[t] /\ held[s] = t /\ status[t] # "READY"
           /\ Release(s, target, IF target = "READY" THEN NoFence ELSE Fence(status[t], leased[s]),
                      [Ordinary EXCEPT !.unlock = TRUE])
    BY <1>1, <1>4, OwnerReleases
  <2>2. \A u \in Tasks : owner'[u] = owner[u] \/ owner[u] = s
    BY <1>1, <1>4, <2>1 DEF OwnerRecovered, TypeOK
  <2>3. target \in TaskStatus \ {"IN_PROGRESS"}
    BY <1>1 DEF TypeOK, TaskStatus
  <2>4. CASE target = "READY"
    <3>. HIDE DEF target
    <3>. QED BY <2>1, <2>2, <2>3, <2>4, UnfencedEnds
  <2>5. CASE target # "READY"
    <3>1. status[held[s]] # "IN_PROGRESS"
      BY <2>1, <2>5
    <3>. HIDE DEF target
    <3>. QED BY <1>1, <2>1, <2>2, <2>3, <2>5, <3>1, ReleaseEnds
  <2>. QED BY <2>4, <2>5
<1>5. ASSUME NEW st \in {"READY", "FAILED"}, RecoverMissing(t, st) PROVE LeaseEffects
  <2>1. /\ status[t] = "IN_PROGRESS" /\ status' = [status EXCEPT ![t] = st]
        /\ UNCHANGED <<epoch, sstate, held, phase, leased, owner>>
    BY <1>5 DEF RecoverMissing, Orphaned, sessionVars
  <2>2. BackingKept
    BY <2>1, BackingQuiet
  <2>. QED BY <2>1, <2>2 DEF LeaseEffects, StatusStep, TaskStatus
<1>. QED BY <1>2, <1>3, <1>4, <1>5

LEMMA NextEnds ==
    ASSUME GrantInv, Final, [Next]_vars
    PROVE  \/ \E s \in Sessions, a \in Agents, w \in Workspaces : Launch(s, a, w)
           \/ \E s \in Sessions, t \in Tasks : ClaimTask(s, t)
           \/ LeaseEffects
<1>1. CASE \/ \E t \in Tasks : DependencyFlip(t)
           \/ \E w \in Workspaces : LoseMarker(w)
           \/ DaemonRestart
           \/ UNCHANGED vars
  <2>1. UNCHANGED <<status, epoch, sstate, held, phase, leased, owner>>
    BY <1>1 DEF DependencyFlip, LoseMarker, DaemonRestart, vars, taskVars, sessionVars
  <2>. QED BY <2>1, BackingQuiet DEF LeaseEffects, StatusStep
<1>2. ~\E t \in Tasks : OperatorReopen(t)
  BY DEF OperatorReopen, Final
<1>. QED BY <1>1, <1>2, JobEnds, SessionEnds, TermEnds, TaskEnds DEF Next

-----------------------------------------------------------------------------
\* The preparations past their fence

\* A job past its fence moves alone; another gets there through the fence.
LEMMA JobAdvances ==
    ASSUME NEW j \in jobs, JobStepOf(j) \/ JobFault(j)
    PROVE  \/ jobs' \subseteq jobs
           \/ \E step \in JobStep :
                 Advance(j, step) /\ (JobControls(j) \/ step = "interrupted" \/ JobFence(j))
<1>1. CASE JobFence(j)
  BY <1>1 DEF JobFence, Finish, JobStep
<1>2. CASE \/ JobAttach(j) \/ JobProve(j) \/ JobMark(j) \/ JobError(j) \/ JobInterrupt(j)
           \/ JobFoundBlocked(j) \/ JobCondemnSlot(j)
  BY <1>2 DEF JobAttach, JobProve, JobMark, JobError, JobInterrupt, JobFoundBlocked,
     JobCondemnSlot, Failing, JobControls, JobStep
<1>3. CASE JobCheck(j)
  <2>1. Finish(j) \/ Advance(j, "releasing") \/ Advance(j, "evicting")
    BY <1>3 DEF JobCheck
  <2>2. JobControls(j)
    BY <1>3 DEF JobCheck, JobControls
  <2>. QED BY <2>1, <2>2 DEF Finish, JobStep
<1>4. CASE JobDetach(j)
  <2>1. jobs' = jobs \/ (j.step = "releasing" /\ Advance(j, "detached"))
    BY <1>4 DEF JobDetach
  <2>. QED BY <2>1 DEF JobControls, JobStep
<1>5. CASE \/ JobActivate(j) \/ JobFoundReleased(j) \/ JobRetainAttached(j) \/ JobRelease(j)
           \/ JobDisableSlot(j) \/ JobEvict(j) \/ JobRecheckRelease(j) \/ JobSettle(j)
           \/ JobRetain(j)
  BY <1>5 DEF JobActivate, JobFoundReleased, JobRetainAttached, JobRelease, JobDisableSlot,
     JobEvict, JobRecheckRelease, JobSettle, JobRetain, Finish
<1>. QED BY <1>1, <1>2, <1>3, <1>4, <1>5 DEF JobStepOf, JobFault

\* Every other step registers a queued job at most.
LEMMA OthersRegister ==
    ASSUME BindingInv, [Next]_vars
    PROVE  \/ \E j \in jobs : JobStepOf(j) \/ JobFault(j)
           \/ \A j \in jobs' : JobControls(j) => j \in jobs
<1>1. ASSUME jobs' = jobs \/ jobs' = {} PROVE \A j \in jobs' : JobControls(j) => j \in jobs
  BY <1>1
<1>2. ASSUME NEW s \in Sessions, NEW t \in Tasks, ClaimTask(s, t) \/ ResumePreparation(s, t)
      PROVE  \A j \in jobs' : JobControls(j) => j \in jobs
  BY <1>2 DEF ClaimTask, ResumePreparation, Queue, JobControls
<1>3. ASSUME NEW s \in Sessions,
             \/ \E a \in Agents, w \in Workspaces : Launch(s, a, w)
             \/ \E t \in Tasks : \/ RecoverStaleBinding(s, t)
                                 \/ \E st \in Verdicts : CloseTransition(s, t, st)
             \/ ClaimOnRetiredSlot(s) \/ ClaimExhausted(s) \/ CloseRecord(s)
             \/ CloseRelease(s) \/ OrphanSweep(s) \/ PrepareTimeout(s) \/ DrainDisplaced(s)
             \/ RequestDrain(s) \/ (\E lost \in BOOLEAN : TermBegin(s, lost))
             \/ TermUnconfirmed(s) \/ TermRelease(s) \/ TermFinish(s)
      PROVE  \A j \in jobs' : JobControls(j) => j \in jobs
  BY <1>1, <1>3 DEF Launch, RecoverStaleBinding, CloseTransition, ClaimOnRetiredSlot,
     ClaimExhausted, CloseRecord, CloseRelease, OrphanSweep, PrepareTimeout, DrainDisplaced,
     RequestDrain, TermBegin, TermUnconfirmed, TermRelease, TermFinish, memoryVars
<1>4. CASE \/ \E t \in Tasks : \/ StopTask(t) \/ OperatorReopen(t) \/ DependencyFlip(t)
                              \/ RecoverMissing(t, "READY") \/ RecoverMissing(t, "FAILED")
                              \/ OwnerRecovered(t)
           \/ \E w \in Workspaces : LoseMarker(w)
           \/ DaemonRestart
           \/ UNCHANGED vars
  BY <1>1, <1>4 DEF StopTask, OperatorReopen, DependencyFlip, RecoverMissing,
     OwnerRecovered, LoseMarker, DaemonRestart, vars, memoryVars
<1>. QED BY <1>2, <1>3, <1>4 DEF Next

\* A task nobody controls lets one job in; only activation ends a preparation that holds.
LEMMA YieldsControlled ==
    ASSUME GrantInv, Yields, HoldEffects, [Next]_vars
    PROVE  Controlled'
<1>. USE NoneAssumption
<1>1. TypeOK /\ LockedRow /\ BindingInv /\ Controlled
  BY DEF GrantInv, HoldInv, LockInv, BindingInv, LeaseInv
<1>2. ASSUME NEW k \in jobs, JobControls(k), held'[k.session] = k.task, ~JobActivate(k)
      PROVE  phase'[k.session] = "preparing"
  <2>1. k.session \in Sessions /\ k.task \in Tasks
    BY <1>1, JobFields
  <2>2. held[k.session] = k.task /\ phase'[k.session] # None
    BY <1>1, <1>2, <2>1 DEF Yields, KeepsHold, DropsHold, BindingInv, HoldPhase
  <2>3. phase[k.session] = "preparing"
    BY <1>1, <1>2, <2>2 DEF Controlled
  <2>4. ASSUME phase'[k.session] = "active" PROVE FALSE
    <3>1. Next
      BY <2>3, <2>4 DEF vars, sessionVars
    <3>2. PICK i \in jobs : JobActivate(i) /\ i.session = k.session
      BY <1>1, <2>1, <2>3, <2>4, <3>1, OnlyJobActivates
    <3>3. JobControls(i) /\ i.task = k.task
      BY <1>1, <2>2, <3>2 DEF JobActivate, JobControls, LockedRow
    <3>. QED BY <1>1, <1>2, <3>2, <3>3 DEF Controlled
  <2>. QED BY <2>1, <2>2, <2>3, <2>4 DEF HoldEffects, PhaseFrom
<1>3. ASSUME \A k \in jobs' : JobControls(k) => k \in jobs PROVE Controlled'
  <2>1. \A k \in jobs' : ~JobActivate(k)
    BY DEF JobActivate, Finish
  <2>. QED BY <1>1, <1>2, <1>3, <2>1 DEF Controlled, JobControls
<1>4. ASSUME NEW j \in jobs, ~JobActivate(j), NEW step \in JobStep, Advance(j, step),
             JobControls(j) \/ step = "interrupted" \/ JobFence(j)
      PROVE  Controlled'
  <2>. DEFINE n == [j EXCEPT !.step = step]
  <2>1. n.session = j.session /\ n.task = j.task /\ n.step = step
    BY <1>1 DEF TypeOK, Job
  <2>2. jobs' = (jobs \ {j}) \cup {n}
    BY <1>4 DEF Advance
  <2>. HIDE DEF n
  <2>3. ASSUME JobControls(n)
        PROVE  /\ \A k \in jobs \ {j} : ~(JobControls(k) /\ k.task = j.task)
               /\ held'[j.session] = j.task => phase'[j.session] = "preparing"
    <3>1. CASE JobControls(j)
      BY <1>1, <1>2, <1>4, <3>1 DEF Controlled
    <3>2. CASE JobFence(j)
      <4>1. ~ControlHeld(j.task) /\ j.step = "queued" /\ UNCHANGED phase
        BY <3>2 DEF JobFence, tableVars, sessionVars
      <4>2. n \in jobs' /\ n # j /\ n \notin jobs
        BY <2>1, <2>2, <2>3, <4>1 DEF JobControls, ControlHeld
      <4>3. phase[j.session] = "preparing"
        BY <3>2, <4>2 DEF JobFence, Finish
      <4>. QED BY <4>1, <4>3 DEF ControlHeld
    <3>3. CASE step = "interrupted"
      BY <2>1, <2>3, <3>3 DEF JobControls
    <3>. QED BY <1>4, <3>1, <3>2, <3>3
  <2>4. ASSUME NEW k \in jobs', JobControls(k), k # n
        PROVE  k \in jobs \ {j} /\ ~JobActivate(k)
    BY <2>2, <2>4 DEF JobActivate, Finish
  <2>5. ASSUME NEW k \in jobs', JobControls(k), held'[k.session] = k.task
        PROVE  phase'[k.session] = "preparing"
    BY <1>2, <2>1, <2>3, <2>4, <2>5
  <2>6. ASSUME NEW k \in jobs', NEW i \in jobs', JobControls(k), JobControls(i), k.task = i.task
        PROVE  k = i
    BY <1>1, <2>1, <2>3, <2>4, <2>6 DEF Controlled
  <2>. QED BY <2>5, <2>6 DEF Controlled, JobControls
<1>5. ASSUME NEW j \in jobs, JobStepOf(j) \/ JobFault(j) PROVE Controlled'
  <2>1. CASE JobActivate(j)
    BY <1>3, <2>1 DEF JobActivate, Finish
  <2>2. CASE ~JobActivate(j)
    BY <1>3, <1>4, <1>5, <2>2, JobAdvances
  <2>. QED BY <2>1, <2>2
<1>. QED BY <1>1, <1>3, <1>5, OthersRegister

\* A launched session has no preparation, and a claim's is queued.
LEMMA GrantsControlled ==
    ASSUME GrantInv,
           \/ \E s \in Sessions, a \in Agents, w \in Workspaces : Launch(s, a, w)
           \/ \E s \in Sessions, t \in Tasks : ClaimTask(s, t)
    PROVE  Controlled'
<1>1. TypeOK /\ Controlled
  BY DEF GrantInv, HoldInv, LockInv, BindingInv, LeaseInv
<1>2. CASE \E s \in Sessions, a \in Agents, w \in Workspaces : Launch(s, a, w)
  BY <1>1, <1>2 DEF Launch, Controlled, JobControls, memoryVars
<1>3. ASSUME NEW s \in Sessions, NEW t \in Tasks, ClaimTask(s, t) PROVE Controlled'
  <2>1. \A j \in jobs' : JobControls(j) => j \in jobs
    BY <1>3 DEF ClaimTask, Queue, JobControls
  <2>2. /\ held' = [held EXCEPT ![s] = t]
        /\ phase' = [phase EXCEPT ![s] = "preparing"]
    BY <1>3 DEF ClaimTask
  <2>3. \A j \in jobs : j.session \in Sessions
    BY <1>1, JobFields
  <2>. QED BY <1>1, <2>1, <2>2, <2>3 DEF Controlled, JobControls, TypeOK
<1>. QED BY <1>2, <1>3

-----------------------------------------------------------------------------
\* The invariant

\* Only a prerequisite's change blocks or unblocks a task.
LEMMA NextUnblocked ==
    ASSUME TypeOK, Blockable = {}, [Next]_vars
    PROVE  UNCHANGED blocked
<1>1. ASSUME NEW s \in Sessions, NEW target, NEW fence, NEW opt, Release(s, target, fence, opt)
      PROVE  UNCHANGED blocked
  BY <1>1 DEF Release
<1>2. UNCHANGED taskVars => UNCHANGED blocked
  BY DEF taskVars
<1>3. ASSUME NEW j \in jobs, JobStepOf(j) \/ JobFault(j) PROVE UNCHANGED blocked
  <2>1. CASE \/ JobRelease(j) \/ JobCondemnSlot(j) \/ JobEvict(j)
             \/ JobRecheckRelease(j) \/ JobSettle(j)
    <3>1. j.session \in Sessions
      BY JobFields DEF TypeOK
    <3>. QED BY <2>1, <3>1, <1>1, <1>2 DEF JobRelease, JobCondemnSlot, JobEvict,
                JobRecheckRelease, JobSettle, ReleaseOrSkip
  <2>2. CASE \/ JobFence(j) \/ JobAttach(j) \/ JobProve(j) \/ JobMark(j) \/ JobActivate(j)
             \/ JobFoundBlocked(j) \/ JobFoundReleased(j) \/ JobCheck(j)
             \/ JobDetach(j) \/ JobRetainAttached(j) \/ JobDisableSlot(j)
             \/ JobError(j) \/ JobRetain(j) \/ JobInterrupt(j)
    BY <2>2, <1>2 DEF JobFence, JobAttach, JobProve, JobMark, JobActivate, JobFoundBlocked,
       JobFoundReleased, JobCheck, JobDetach, JobRetainAttached, JobDisableSlot,
       JobError, JobRetain, JobInterrupt, tableVars
  <2>. QED BY <1>3, <2>1, <2>2 DEF JobStepOf, JobFault
<1>4. ASSUME NEW s \in Sessions,
             \/ CloseRelease(s) \/ OrphanSweep(s) \/ PrepareTimeout(s) \/ TermRelease(s)
             \/ \E t \in Tasks : RecoverStaleBinding(s, t)
      PROVE  UNCHANGED blocked
  BY <1>1, <1>2, <1>4 DEF CloseRelease, OrphanSweep, PrepareTimeout, TermRelease,
                          RecoverStaleBinding
<1>5. ASSUME NEW t \in Tasks, OwnerRecovered(t) PROVE UNCHANGED blocked
  <2>1. owner[t] \in Sessions
    BY <1>5 DEF OwnerRecovered, TypeOK
  <2>. QED BY <1>1, <1>2, <1>5, <2>1 DEF OwnerRecovered
<1>6. ASSUME NEW s \in Sessions,
             \/ \E a \in Agents, w \in Workspaces : Launch(s, a, w)
             \/ \E t \in Tasks : ClaimTask(s, t) \/ ResumePreparation(s, t)
             \/ \E t \in Tasks, st \in Verdicts : CloseTransition(s, t, st)
             \/ ClaimOnRetiredSlot(s) \/ ClaimExhausted(s) \/ CloseRecord(s)
             \/ DrainDisplaced(s) \/ RequestDrain(s)
             \/ \E lost \in BOOLEAN : TermBegin(s, lost)
             \/ TermUnconfirmed(s) \/ TermFinish(s)
      PROVE  UNCHANGED blocked
  BY <1>2, <1>6 DEF Launch, ClaimTask, ResumePreparation, CloseTransition, ClaimOnRetiredSlot,
     ClaimExhausted, CloseRecord, DrainDisplaced, RequestDrain, TermBegin, TermUnconfirmed,
     TermFinish
<1>7. CASE \/ \E t \in Tasks : \/ StopTask(t) \/ RecoverMissing(t, "READY")
                               \/ RecoverMissing(t, "FAILED")
                               \/ OperatorReopen(t) \/ DependencyFlip(t)
           \/ \E w \in Workspaces : LoseMarker(w)
           \/ DaemonRestart
           \/ UNCHANGED vars
  BY <1>2, <1>7 DEF StopTask, RecoverMissing, OperatorReopen, DependencyFlip, LoseMarker,
     DaemonRestart, vars
<1>. QED BY <1>3, <1>4, <1>5, <1>6, <1>7 DEF Next

\* A launched session works for an agent without a running task, and a claim takes a
\* task nobody runs.
LEMMA GrantsBacked ==
    ASSUME GrantInv, HoldInv',
           \/ \E s \in Sessions, a \in Agents, w \in Workspaces : Launch(s, a, w)
           \/ \E s \in Sessions, t \in Tasks : ClaimTask(s, t)
    PROVE  NoStrandedAssignment' /\ AssignedAlone'
<1>. USE NoneAssumption
<1>1. TypeOK /\ Launched /\ AgentOnce
  BY DEF GrantInv, HoldInv, LockInv, BindingInv, LeaseInv
<1>2. ASSUME NEW s \in Sessions, NEW a \in Agents, NEW w \in Workspaces, Launch(s, a, w)
      PROVE  NoStrandedAssignment' /\ AssignedAlone'
  <2>1. /\ UNCHANGED <<status, epoch, assigned, owner, held, phase, leased>>
        /\ held[s] = None
        /\ agentOf' = [agentOf EXCEPT ![s] = a] /\ sstate' = [sstate EXCEPT ![s] = "running"]
        /\ \A t \in Tasks : assigned[t] = a => status[t] # "IN_PROGRESS"
    BY <1>1, <1>2 DEF Launch, Reservable, taskVars, Launched
  <2>2. \A o \in Sessions : o # s => agentOf'[o] = agentOf[o] /\ sstate'[o] = sstate[o]
    BY <1>1, <2>1 DEF TypeOK
  <2>3. agentOf'[s] = a
    BY <1>1, <2>1 DEF TypeOK
  <2>4. NoStrandedAssignment'
    BY <2>1, <2>2 DEF GrantInv, NoStrandedAssignment, Holds, Live
  <2>5. AssignedAlone'
    BY <2>1, <2>2, <2>3 DEF GrantInv, AssignedAlone, Live
  <2>. QED BY <2>4, <2>5
<1>3. ASSUME NEW s \in Sessions, NEW t \in Tasks, ClaimTask(s, t)
      PROVE  NoStrandedAssignment' /\ AssignedAlone'
  <2>1. /\ Live(s) /\ held[s] = None
        /\ status' = [status EXCEPT ![t] = "IN_PROGRESS"]
        /\ assigned' = [assigned EXCEPT ![t] = agentOf[s]]
        /\ epoch' = [epoch EXCEPT ![t] = NextEpoch(t)]
        /\ held' = [held EXCEPT ![s] = t]
        /\ phase' = [phase EXCEPT ![s] = "preparing"]
        /\ leased' = [leased EXCEPT ![s] = NextEpoch(t)]
        /\ UNCHANGED <<owner, sstate, agentOf>>
    BY <1>3 DEF ClaimTask, SlotFree, launchVars
  <2>2. /\ held'[s] = t /\ phase'[s] = "preparing" /\ leased'[s] = epoch'[t]
        /\ assigned'[t] = agentOf[s]
    BY <1>1, <2>1 DEF TypeOK
  <2>3. \A o \in Sessions : o # s =>
           held'[o] = held[o] /\ phase'[o] = phase[o] /\ leased'[o] = leased[o]
    BY <1>1, <2>1 DEF TypeOK
  <2>4. \A u \in Tasks : u # t =>
           status'[u] = status[u] /\ assigned'[u] = assigned[u] /\ epoch'[u] = epoch[u]
    BY <1>1, <2>1 DEF TypeOK
  <2>5. NoStrandedAssignment'
    <3>1. ASSUME NEW u \in Tasks, status'[u] = "IN_PROGRESS"
          PROVE  \E o \in Sessions :
                    Holds(o, u)' /\ (Live(o)' \/ phase'[o] = "preparing" \/ owner'[u] = o)
      <4>1. CASE u = t
        BY <2>2, <4>1 DEF Holds
      <4>2. CASE u # t
        BY <2>1, <2>3, <2>4, <3>1, <4>2 DEF GrantInv, NoStrandedAssignment, Holds, Live
      <4>. QED BY <4>1, <4>2
    <3>. QED BY <3>1 DEF NoStrandedAssignment
  <2>6. AssignedAlone'
    <3>1. ASSUME NEW u \in Tasks, status'[u] = "IN_PROGRESS", NEW o \in Sessions, Live(o),
                 agentOf[o] = assigned'[u]
          PROVE  held'[o] = u
      <4>1. CASE u = t
        BY <1>1, <2>1, <2>2, <3>1, <4>1 DEF AgentOnce
      <4>2. CASE u # t
        BY <2>1, <2>3, <2>4, <3>1, <4>2 DEF GrantInv, AssignedAlone
      <4>. QED BY <4>1, <4>2
    <3>. QED BY <2>1, <3>1 DEF AssignedAlone, Live
  <2>. QED BY <2>5, <2>6
<1>. QED BY <1>2, <1>3

\* Any other step leaves a running task to the session that backs it.
LEMMA EffectsBacked ==
    ASSUME GrantInv, Yields, LeaseEffects
    PROVE  NoStrandedAssignment' /\ AssignedAlone'
<1>. USE NoneAssumption
<1>1. ASSUME NEW t \in Tasks, status'[t] = "IN_PROGRESS"
      PROVE  \E s \in Sessions : Backed(s, t) /\ Backed(s, t)'
  <2>1. status[t] = "IN_PROGRESS"
    BY <1>1 DEF Yields
  <2>2. PICK s \in Sessions : Backed(s, t)
    BY <2>1 DEF GrantInv, NoStrandedAssignment, Backed
  <2>. QED BY <1>1, <2>1, <2>2 DEF LeaseEffects, BackingKept
<1>2. NoStrandedAssignment'
  BY <1>1 DEF NoStrandedAssignment, Backed
<1>3. ASSUME NEW t \in Tasks, status'[t] = "IN_PROGRESS", NEW o \in Sessions,
             Live(o)', agentOf'[o] = assigned'[t]
      PROVE  held'[o] = t
  <2>1. /\ status[t] = "IN_PROGRESS" /\ Live(o)
        /\ agentOf[o] = assigned[t]
    BY <1>3 DEF Yields, Live
  <2>2. held[o] = t
    BY <2>1 DEF GrantInv, AssignedAlone
  <2>3. PICK s \in Sessions : Backed(s, t) /\ Backed(s, t)'
    BY <1>1, <1>3
  <2>4. s = o
    BY <2>2, <2>3, SoleHolder DEF GrantInv, Backed, Holds
  <2>. QED BY <2>3, <2>4 DEF Backed, Holds
<1>4. AssignedAlone'
  BY <1>3 DEF AssignedAlone
<1>. QED BY <1>2, <1>4

LEMMA NextGrant == GrantInv /\ Final /\ Blockable = {} /\ [Next]_vars => GrantInv'
<1>. SUFFICES ASSUME GrantInv, Final, Blockable = {}, [Next]_vars PROVE GrantInv'
  OBVIOUS
<1>1. HoldInv' /\ BindingInv' /\ BindingInv
  BY NextHold DEF GrantInv, HoldInv, LockInv
<1>2. \A t \in Tasks : ~blocked'[t]
  BY NextUnblocked DEF GrantInv, HoldInv, LockInv, BindingInv, LeaseInv
<1>3. NoStrandedAssignment' /\ AssignedAlone'
  BY <1>1, NextYields, NextEnds, GrantsBacked, EffectsBacked
<1>4. Controlled'
  BY <1>1, NextHolds, YieldsControlled, GrantsControlled DEF GrantInv
<1>. QED BY <1>1, <1>2, <1>3, <1>4 DEF GrantInv

LEMMA InitGrant == Init => GrantInv
<1>. SUFFICES ASSUME Init PROVE GrantInv
  OBVIOUS
<1>1. jobs = {} /\ \A t \in Tasks : status[t] = "READY" /\ ~blocked[t]
  BY DEF Init
<1>. QED BY <1>1, InitHold DEF GrantInv, Controlled, NoStrandedAssignment, AssignedAlone

-----------------------------------------------------------------------------
\* The abstract lease

Active(t) == \E s \in Sessions : Holds(s, t) /\ phase[s] = "active"
stages == [t \in Tasks |-> Stage(t)]
holders == [t \in Tasks |-> IF status[t] = "IN_PROGRESS" THEN assigned[t] ELSE None]

\* The stage of a task, before and after a step.
StageIsOf(t) ==
    /\ status[t] = "READY" => Stage(t) = "open"
    /\ status[t] = "IN_PROGRESS" =>
          Stage(t) = IF Active(t) THEN "active" ELSE "preparing"
    /\ status[t] \notin {"READY", "IN_PROGRESS"} => Stage(t) = "settled"

LEMMA StageIs ==
    ASSUME NEW t \in Tasks
    PROVE  StageIsOf(t) /\ StageIsOf(t)'
BY DEF StageIsOf, Stage, Active

LEMMA LeaseSame ==
    ASSUME UNCHANGED <<stages, holders, epoch>>
    PROVE  [Lease!Next]_(Lease!leaseVars)
BY DEF stages, holders, Lease!leaseVars

\* Where nothing is activated, a task that keeps its status keeps its stage: the session
\* that backs it goes on doing so in the same phase.
LEMMA StageStays ==
    ASSUME GrantInv, TypeOK', Yields, LeaseEffects, PhaseFrom,
           \A s \in Sessions : phase'[s] = "active" => phase[s] = "active",
           NEW t \in Tasks, status'[t] = status[t]
    PROVE  Stage(t)' = Stage(t)
<1>. USE NoneAssumption
<1>1. TypeOK /\ HoldInv
  BY DEF GrantInv, HoldInv, LockInv, BindingInv, LeaseInv
<1>2. CASE status[t] # "IN_PROGRESS"
  BY <1>2 DEF Stage
<1>3. CASE status[t] = "IN_PROGRESS"
  <2>1. PICK s \in Sessions : Backed(s, t)
    BY <1>3 DEF GrantInv, NoStrandedAssignment, Backed
  <2>2. Backed(s, t)'
    BY <1>3, <2>1 DEF LeaseEffects, BackingKept
  <2>3. Active(t) => phase[s] = "active"
    BY <1>1, <2>1, SoleHolder DEF Active, Backed, Holds
  <2>4. phase[s] = "active" => Active(t)'
    BY <2>2 DEF Active, Backed, Holds, PhaseFrom
  <2>5. ASSUME Active(t)' PROVE Active(t)
    <3>1. PICK o \in Sessions : Holds(o, t)' /\ phase'[o] = "active"
      BY <2>5 DEF Active
    <3>2. phase[o] = "active" /\ held[o] = t /\ leased[o] = epoch[t]
      BY <3>1 DEF Holds, Yields, KeepsHold, DropsHold
    <3>. QED BY <3>2 DEF Active, Holds
  <2>6. Active(t)' <=> Active(t)
    BY <2>3, <2>4, <2>5
  <2>. QED BY <1>1, <1>3, <2>6, StageIs DEF StageIsOf
<1>. QED BY <1>2, <1>3

\* A claim is a grant: nobody held the task, and its agent had no running one.
LEMMA ClaimGrants ==
    ASSUME GrantInv, TypeOK', NEW s \in Sessions, NEW t \in Tasks, ClaimTask(s, t)
    PROVE  \E a \in Agents : Lease!Grant(t, a)
<1>. USE NoneAssumption
<1>1. TypeOK /\ HoldInv /\ Launched
  BY DEF GrantInv, HoldInv, LockInv, BindingInv, LeaseInv
<1>2. /\ Live(s) /\ held[s] = None /\ status[t] = "READY"
      /\ status' = [status EXCEPT ![t] = "IN_PROGRESS"]
      /\ assigned' = [assigned EXCEPT ![t] = agentOf[s]]
      /\ epoch' = [epoch EXCEPT ![t] = @ + 1]
      /\ held' = [held EXCEPT ![s] = t]
      /\ phase' = [phase EXCEPT ![s] = "preparing"]
      /\ leased' = [leased EXCEPT ![s] = epoch[t] + 1]
  BY DEF ClaimTask, SlotFree, Claimable, NextEpoch
<1>3. PICK a \in Agents : a = agentOf[s]
  BY <1>1, <1>2 DEF Launched, Live, TypeOK
<1>4. \A u \in Tasks : holders[u] # a
  BY <1>2, <1>3 DEF holders, GrantInv, AssignedAlone
<1>5. \A o \in Sessions : held[o] # t
  BY <1>1, <1>2 DEF HoldInv, HeldCurrent
<1>6. held'[s] = t /\ phase'[s] = "preparing"
  BY <1>1, <1>2 DEF TypeOK
<1>7. \A o \in Sessions : o # s =>
         held'[o] = held[o] /\ phase'[o] = phase[o] /\ leased'[o] = leased[o]
  BY <1>1, <1>2 DEF TypeOK
<1>8. Stage(t) = "open"
  BY <1>1, <1>2, StageIs DEF StageIsOf
<1>9. Stage(t)' = "preparing"
  <2>1. ~Active(t)'
    BY <1>5, <1>6, <1>7 DEF Active, Holds
  <2>2. status'[t] = "IN_PROGRESS"
    BY <1>1, <1>2 DEF TypeOK
  <2>. QED BY <2>1, <2>2, StageIs DEF StageIsOf
<1>10. ASSUME NEW u \in Tasks, u # t PROVE Stage(u)' = Stage(u)
  <2>1. status'[u] = status[u] /\ epoch'[u] = epoch[u]
    BY <1>1, <1>2, <1>10 DEF TypeOK
  <2>2. Active(u)' <=> Active(u)
    BY <1>2, <1>6, <1>7, <1>10, <2>1 DEF Active, Holds
  <2>. QED BY <1>1, <2>1, <2>2, StageIs DEF StageIsOf
<1>11. stages[t] = "open" /\ stages' = [stages EXCEPT ![t] = "preparing"]
  BY <1>8, <1>9, <1>10 DEF stages
<1>12. holders' = [holders EXCEPT ![t] = a]
  BY <1>1, <1>2, <1>3 DEF holders, TypeOK
<1>. QED BY <1>2, <1>3, <1>4, <1>11, <1>12 DEF Lease!Grant, stages, holders

\* An activation is one.
LEMMA JobActivates ==
    ASSUME GrantInv, TypeOK', NEW j \in jobs, JobActivate(j)
    PROVE  j.task \in Tasks /\ Lease!Activate(j.task)
<1>. USE NoneAssumption
<1>1. TypeOK /\ HoldInv /\ j.session \in Sessions /\ j.task \in Tasks
  BY JobFields DEF GrantInv, HoldInv, LockInv, BindingInv, LeaseInv, TypeOK
<1>2. /\ held[j.session] = j.task /\ leased[j.session] = j.epoch
      /\ phase[j.session] = "preparing"
  BY DEF JobActivate, GrantInv, HoldInv, LockInv, BindingInv, LeaseInv, LockedRow
<1>3. /\ status[j.task] = "IN_PROGRESS" /\ epoch[j.task] = j.epoch
      /\ phase' = [phase EXCEPT ![j.session] = "active"]
      /\ leased' = [leased EXCEPT ![j.session] = j.epoch]
      /\ UNCHANGED <<status, epoch, assigned, held>>
  BY DEF JobActivate, TaskStillOurs
<1>4. leased'[j.session] = j.epoch /\ phase'[j.session] = "active"
  BY <1>1, <1>3 DEF TypeOK
<1>5. \A o \in Sessions : o # j.session => phase'[o] = phase[o] /\ leased'[o] = leased[o]
  BY <1>1, <1>3 DEF TypeOK
<1>6. \A o \in Sessions : held[o] = j.task => o = j.session
  BY <1>1, <1>2, SoleHolder
<1>7. Stage(j.task) = "preparing"
  <2>1. ~Active(j.task)
    BY <1>2, <1>6 DEF Active, Holds
  <2>. QED BY <1>1, <1>3, <2>1, StageIs DEF StageIsOf
<1>8. Stage(j.task)' = "active"
  <2>1. \E o \in Sessions : Holds(o, j.task)' /\ phase'[o] = "active"
    BY <1>1, <1>2, <1>3, <1>4 DEF Holds
  <2>2. status'[j.task] = "IN_PROGRESS"
    BY <1>3
  <2>. QED BY <1>1, <2>1, <2>2 DEF Stage
<1>9. ASSUME NEW u \in Tasks, u # j.task PROVE Stage(u)' = Stage(u)
  <2>1. Active(u)' <=> Active(u)
    BY <1>2, <1>3, <1>5, <1>9 DEF Active, Holds
  <2>. QED BY <1>1, <1>3, <2>1, StageIs DEF StageIsOf
<1>10. stages[j.task] = "preparing" /\ stages' = [stages EXCEPT ![j.task] = "active"]
  BY <1>1, <1>7, <1>8, <1>9 DEF stages
<1>11. UNCHANGED <<holders, epoch>>
  BY <1>3 DEF holders
<1>. QED BY <1>1, <1>10, <1>11 DEF Lease!Activate, stages, holders

\* Any other step ends one lease or none.
LEMMA EffectsEnd ==
    ASSUME GrantInv, TypeOK', Yields, LeaseEffects, PhaseFrom,
           \A s \in Sessions : phase'[s] = "active" => phase[s] = "active"
    PROVE  [Lease!Next]_(Lease!leaseVars)
<1>. USE NoneAssumption
<1>1. TypeOK /\ UNCHANGED epoch
  BY DEF GrantInv, HoldInv, LockInv, BindingInv, LeaseInv, Yields
<1>2. CASE UNCHANGED status
  <2>1. UNCHANGED stages
    BY <1>2, StageStays DEF stages
  <2>2. UNCHANGED holders
    BY <1>2 DEF holders, Yields
  <2>. QED BY <1>1, <2>1, <2>2, LeaseSame
<1>3. ASSUME NEW t \in Tasks, NEW x \in TaskStatus, status' = [status EXCEPT ![t] = x],
             status[t] # "READY", x = "READY" => status[t] = "IN_PROGRESS", x # status[t]
      PROVE  [Lease!Next]_(Lease!leaseVars)
  <2>1. status'[t] = x /\ \A u \in Tasks : u # t => status'[u] = status[u]
    BY <1>1, <1>3 DEF TypeOK
  <2>2. x # "IN_PROGRESS"
    BY <1>3, <2>1 DEF Yields
  <2>3. \A u \in Tasks : u # t => Stage(u)' = Stage(u)
    BY <2>1, StageStays
  <2>4. Stage(t)' = IF x = "READY" THEN "open" ELSE "settled"
    BY <2>1, <2>2, StageIs DEF StageIsOf
  <2>5. CASE status[t] = "IN_PROGRESS"
    <3>. DEFINE st == IF x = "READY" THEN "open" ELSE "settled"
    <3>1. stages[t] \in {"preparing", "active"}
      BY <1>1, <2>5, StageIs DEF StageIsOf, stages
    <3>2. stages' = [stages EXCEPT ![t] = st]
      BY <2>3, <2>4 DEF stages
    <3>3. holders' = [holders EXCEPT ![t] = None]
      BY <2>1, <2>2 DEF holders, Yields
    <3>4. st \in {"open", "settled"}
      OBVIOUS
    <3>. HIDE DEF st
    <3>5. Lease!End(t, st)
      BY <1>1, <3>1, <3>2, <3>3 DEF Lease!End, stages, holders
    <3>. QED BY <3>4, <3>5 DEF Lease!Next
  <2>6. CASE status[t] # "IN_PROGRESS"
    <3>1. Stage(t)' = Stage(t)
      BY <1>1, <1>3, <2>4, <2>6, StageIs DEF StageIsOf
    <3>2. UNCHANGED stages
      BY <2>3, <3>1 DEF stages
    <3>3. UNCHANGED holders
      BY <2>1, <2>2, <2>6 DEF holders, Yields
    <3>. QED BY <1>1, <3>2, <3>3, LeaseSame
  <2>. QED BY <2>5, <2>6
<1>4. ASSUME NEW t \in Tasks, status' = [status EXCEPT ![t] = status[t]]
      PROVE  UNCHANGED status
  BY <1>1, <1>4 DEF TypeOK
<1>. QED BY <1>2, <1>3, <1>4 DEF LeaseEffects, StatusStep

\* Every step of the protocol is a step of the abstract lease, or a stutter of it.
LEMMA StepLeases ==
    ASSUME GrantInv, GrantInv', Final, [Next]_vars
    PROVE  [Lease!Next]_(Lease!leaseVars)
<1>1. TypeOK /\ TypeOK' /\ HoldInv /\ BindingInv' /\ BindingInv
  BY DEF GrantInv, HoldInv, LockInv, BindingInv, LeaseInv
<1>2. ASSUME NEW s \in Sessions, NEW a \in Agents, NEW w \in Workspaces, Launch(s, a, w)
      PROVE  [Lease!Next]_(Lease!leaseVars)
  <2>1. UNCHANGED <<status, epoch, assigned, held, phase, leased>>
    BY <1>2 DEF Launch, taskVars
  <2>. QED BY <2>1, LeaseSame DEF stages, holders, Stage, Holds
<1>3. ASSUME NEW s \in Sessions, NEW t \in Tasks, ClaimTask(s, t)
      PROVE  [Lease!Next]_(Lease!leaseVars)
  <2>1. PICK a \in Agents : Lease!Grant(t, a)
    BY <1>1, <1>3, ClaimGrants
  <2>. QED BY <2>1 DEF Lease!Next
<1>4. CASE \E j \in jobs : JobActivate(j)
  BY <1>1, <1>4, JobActivates DEF Lease!Next
<1>5. CASE /\ ~\E j \in jobs : JobActivate(j)
           /\ Yields /\ LeaseEffects /\ HoldEffects
  <2>1. \A s \in Sessions : phase'[s] = "active" => phase[s] = "active"
    BY <1>1, <1>5, OnlyJobActivates DEF vars, sessionVars
  <2>. QED BY <1>1, <1>5, <2>1, EffectsEnd DEF HoldEffects
<1>. QED BY <1>1, <1>2, <1>3, <1>4, <1>5, NextHolds, NextEnds

-----------------------------------------------------------------------------
\* The theorems

\* Where neither a closed task nor a held one's prerequisite comes back, every hold is
\* backed, every running task has a session that will let go of it, and nobody who
\* may claim works for an agent that has one.
THEOREM GrantInvariant == ASSUME Final, Blockable = {} PROVE Spec => []GrantInv
<1>1. GrantInv /\ [Next]_vars => GrantInv'
  BY NextGrant
<1>. QED BY <1>1, InitGrant, PTL DEF Spec

\* No assignment is left that nothing requeues: whatever drops a session's hold, its
\* own close, a teardown, a sweep, a failed preparation, an operator's stop, takes the
\* task out of IN_PROGRESS as well.
THEOREM AssignmentNotStranded ==
    ASSUME Final, Blockable = {} PROVE Spec => []NoStrandedAssignment
<1>1. GrantInv => NoStrandedAssignment
  BY DEF GrantInv
<1>. QED BY <1>1, GrantInvariant, PTL

\* The claim protocol implements the lease: one agent per task and one task per agent,
\* a new epoch for every grant, one activation, and an end that settles or requeues.
THEOREM LeaseRefined == ASSUME Final, Blockable = {} PROVE Spec => LeaseSpec
<1>1. Init => Lease!Init
  <2>. SUFFICES ASSUME Init PROVE Lease!Init
    OBVIOUS
  <2>1. /\ \A t \in Tasks : status[t] = "READY"
        /\ epoch = [t \in Tasks |-> 0]
    BY DEF Init
  <2>2. \A t \in Tasks : Stage(t) = "open"
    BY <2>1 DEF Stage
  <2>. QED BY <2>1, <2>2 DEF Lease!Init
<1>2. GrantInv /\ GrantInv' /\ [Next]_vars => [Lease!Next]_(Lease!leaseVars)
  BY StepLeases
<1>. QED BY <1>1, <1>2, GrantInvariant, PTL DEF Spec, LeaseSpec, Lease!Spec
=============================================================================
