----------------------------- MODULE HoldProofs -----------------------------
(***************************************************************************)
(* The lease where a closed task does not come back (no retry of a failing *)
(* close, no operator's reopen), for every value of the other constants.   *)
(* There every hold is the current lease of its task, so a task has one    *)
(* holder; a release, however late, finds the claim it was meant for or    *)
(* nothing.  With a reopen the lease properties are false: LateRetryClose  *)
(* is the shortest way.                                                    *)
(***************************************************************************)
EXTENDS LockProofs

Final == ~Requeues /\ ~Reopens

-----------------------------------------------------------------------------
\* What the invariant says of one task, one session, one preparation

LEMMA SoleHolder ==
    ASSUME HoldInv, NEW s \in Sessions, NEW o \in Sessions, held[s] # None, held[s] = held[o]
    PROVE  s = o
BY DEF HoldInv, HeldCurrent, LockInv, BindingInv, LeaseInv, UniqueLease

\* The preparation of what a session holds finds it in preparation, and is the only
\* one.
LEMMA JobOfClaim ==
    ASSUME HoldInv, NEW j \in jobs, SessionStill(j)
    PROVE  /\ phase[j.session] = "preparing" /\ j.step # "quarantining"
           /\ \A i \in jobs : i.session = j.session /\ SessionStill(i) => i = j
BY DEF HoldInv, JobsCurrent, SessionStill

\* Every hold is current, so the owner-recovery sweep finds current claims.
LEMMA HoldOwners == HoldInv => OwnersCurrent
BY NoneAssumption DEF HoldInv, HeldCurrent, LockInv, BindingInv, LeaseInv, TypeOK, OwnerHolds,
   OwnersCurrent

-----------------------------------------------------------------------------
\* What a step may do to the holds

\* A task's status changes when its holder lets go, when it is stopped with no
\* living holder left, or by the holder's close; only that completes it.
StatusMoves ==
    \A t \in Tasks : status'[t] # status[t] =>
        \/ status'[t] # "COMPLETED" /\ \A s \in Sessions : held'[s] # t
        \/ /\ status[t] = "IN_PROGRESS" /\ status'[t] = "BLOCKED"
           /\ \A s \in Sessions : held'[s] = t => ~Live(s)
        \/ \E s \in Sessions, st \in Verdicts : CloseTransition(s, t, st)

\* A close that is under way was so before, or is accepted now.
ClosesFrom ==
    \A s \in Sessions : closing'[s] # None =>
        \/ /\ closing[s] # None
           /\ closing'[s].task = closing[s].task /\ closing'[s].epoch = closing[s].epoch
           /\ closing'[s].status = closing[s].status
        \/ \E t \in Tasks, st \in Verdicts : CloseTransition(s, t, st)

\* The task lock of a slot stays as long as the session that needs it keeps its hold.
TaskLocksKept ==
    \A s \in Sessions : Needs(s) /\ held[s] # None /\ held'[s] = held[s] =>
        lockTask'[slotOf[s]] = lockTask[slotOf[s]]

\* The agent of a live session is pinned to what the session holds.
Pinned ==
    \A s \in Sessions : Live(s) => current[agentOf[s]] \in {None, held[s]}

PhaseFrom ==
    \A s \in Sessions : \/ phase'[s] \in {phase[s], None}
                        \/ phase[s] = "preparing" /\ phase'[s] = "active"

\* A claim that is active in a session that is to run on ends with its task, its
\* session or its slot.
ActiveKept ==
    \A s \in Sessions :
        Live(s) /\ desired[s] = "running" /\ phase[s] = "active"
        /\ status[held[s]] = "IN_PROGRESS" /\ held'[s] # held[s]
          => ~Live(s)' \/ ~enabled'[slotOf[s]]

HoldEffects ==
    /\ StatusMoves /\ ClosesFrom /\ TaskLocksKept /\ Pinned' /\ PhaseFrom /\ ActiveKept
    /\ JobsCurrent'

\* What a release may end that is not told by whom.
MayEnd(s) ==
    \/ phase[s] # "active" \/ status[held[s]] # "IN_PROGRESS"
    \/ ~(Live(s) /\ desired[s] = "running")
    \/ ~enabled'[slotOf[s]]

-----------------------------------------------------------------------------
\* Effects of the parts

\* Jobs that go on under rows that go on.
LEMMA JobsStay ==
    ASSUME HoldInv, Yields, jobs' \subseteq jobs,
           \A j \in jobs' : SessionStill(j) => phase'[j.session] \in {phase[j.session], None}
    PROVE  JobsCurrent'
<1>. USE NoneAssumption
<1>1. \A j, k \in jobs' :
         j.session = k.session /\ j.task = k.task /\ j.epoch = k.epoch => j = k
  BY DEF HoldInv, JobsCurrent
<1>2. ASSUME NEW j \in jobs'
      PROVE  /\ j.epoch <= epoch'[j.task]
             /\ held'[j.session] = j.task /\ leased'[j.session] = j.epoch =>
                   phase'[j.session] = "preparing" /\ j.step # "quarantining"
  <2>1. j \in jobs /\ j.session \in Sessions /\ j.task \in Tasks
    BY <1>2, JobFields DEF HoldInv, LockInv, BindingInv, LeaseInv
  <2>2. j.epoch <= epoch'[j.task]
    BY <2>1 DEF HoldInv, JobsCurrent, Yields
  <2>3. ASSUME held'[j.session] = j.task, leased'[j.session] = j.epoch
        PROVE  phase'[j.session] = "preparing" /\ j.step # "quarantining"
    <3>1. KeepsHold(j.session)
      BY <2>1, <2>3 DEF Yields, DropsHold
    <3>2. SessionStill(j)
      BY <2>3, <3>1 DEF KeepsHold, SessionStill
    <3>3. phase[j.session] = "preparing" /\ j.step # "quarantining"
      BY <2>1, <3>2, JobOfClaim
    <3>. QED BY <1>2, <3>1, <3>2, <3>3 DEF KeepsHold
  <2>. QED BY <2>2, <2>3
<1>. QED BY <1>1, <1>2 DEF JobsCurrent, SessionStill

\* A step that writes no status, hold, lock or agent row, and accepts no close.
LEMMA HoldsQuiet ==
    ASSUME HoldInv, UNCHANGED <<status, held, phase, agentOf, current, lockTask, closing>>,
           \A s \in Sessions : Live(s)' => Live(s),
           JobsCurrent'
    PROVE  HoldEffects
BY DEF HoldEffects, StatusMoves, ClosesFrom, TaskLocksKept, Pinned, PhaseFrom, ActiveKept,
       HoldInv, LivePreparation, Live

\* A release ends one claim: its task is held by nobody else, and the lock it gives
\* back is the lock for that task.
LEMMA ReleaseHolds ==
    ASSUME HoldInv, NEW s \in Sessions, NEW target, NEW fence, NEW opt,
           Release(s, target, fence, opt), opt.retire => Rooted(s),
           target = "COMPLETED" => held[s] # None /\ status[held[s]] = target,
           MayEnd(s), ClosesFrom, JobsCurrent'
    PROVE  HoldEffects
<1>. USE NoneAssumption
<1>1. TypeOK
  BY DEF HoldInv, LockInv, BindingInv, LeaseInv
<1>2. /\ held' = [held EXCEPT ![s] = None]
      /\ phase' = [phase EXCEPT ![s] = None]
      /\ UNCHANGED <<sstate, agentOf, slotOf>>
  BY DEF Release, launchVars
<1>3. StatusMoves
  <2>. SUFFICES ASSUME NEW t \in Tasks, status'[t] # status[t]
                PROVE  status'[t] # "COMPLETED" /\ \A o \in Sessions : held'[o] # t
    BY DEF StatusMoves
  <2>1. held[s] = t /\ status'[t] = target
    BY <1>1 DEF Release, TypeOK
  <2>2. \A o \in Sessions : held[o] = t => o = s
    BY <1>1, <2>1, SoleHolder
  <2>. QED BY <1>1, <1>2, <2>1, <2>2 DEF TypeOK
<1>4. TaskLocksKept
  <2>. SUFFICES ASSUME NEW o \in Sessions, Needs(o), held[o] # None, held'[o] = held[o]
                PROVE  lockTask'[slotOf[o]] = lockTask[slotOf[o]]
    BY DEF TaskLocksKept
  <2>1. o # s /\ slotOf[o] \in Workspaces
    BY <1>1, <1>2, NeedsBound DEF HoldInv, LockInv, Rooted, TypeOK
  <2>2. lockTask[slotOf[o]] \in {None, held[o]} /\ held[o] # held[s]
    BY <2>1, SoleHolder DEF HoldInv, LockInv, SlotKept
  <2>3. CASE opt.retire /\ lockAgent[slotOf[o]] = agentOf[s]
    BY <2>1, <2>3, LockedBySame DEF HoldInv
  <2>4. CASE ~(opt.retire /\ lockAgent[slotOf[o]] = agentOf[s])
    BY <2>1, <2>2, <2>4 DEF Release, ReleasedSlot
  <2>. QED BY <2>3, <2>4
<1>5. Pinned'
  <2>. SUFFICES ASSUME NEW o \in Sessions, Live(o)
                PROVE  current'[agentOf[o]] \in {None, held'[o]}
    BY <1>2 DEF Pinned, Live
  <2>1. agentOf[o] \in Agents /\ current[agentOf[o]] \in {None, held[o]}
    BY <1>1 DEF HoldInv, LivePreparation, LockInv, BindingInv, Launched, Live, TypeOK
  <2>2. current' = [current EXCEPT ![agentOf[s]] = None]
    BY DEF Release
  <2>. QED BY <1>1, <1>2, <2>1, <2>2 DEF TypeOK
<1>6. PhaseFrom
  BY <1>1, <1>2 DEF PhaseFrom, TypeOK
<1>7. ActiveKept
  BY <1>1, <1>2 DEF ActiveKept, MayEnd, TypeOK, Live
<1>. QED BY <1>3, <1>4, <1>5, <1>6, <1>7 DEF HoldEffects

-----------------------------------------------------------------------------
\* The preparation job

\* A job that moves keeps its claim and stays the only one.
LEMMA JobMovesOn ==
    ASSUME HoldInv, NEW j \in jobs, NEW step \in JobStep \ {"quarantining"}, Advance(j, step),
           UNCHANGED <<epoch, held, phase, leased>>
    PROVE  JobsCurrent'
<1>. DEFINE k == [j EXCEPT !.step = step]
<1>1. j \in Job
  BY DEF HoldInv, LockInv, BindingInv, LeaseInv, TypeOK
<1>2. k.session = j.session /\ k.task = j.task /\ k.epoch = j.epoch /\ k.step = step
  BY <1>1 DEF Job
<1>3. jobs' = (jobs \ {j}) \cup {k}
  BY DEF Advance
<1>. HIDE DEF k
<1>. QED BY <1>2, <1>3 DEF HoldInv, JobsCurrent, SessionStill

LEMMA JobHolds ==
    ASSUME HoldInv, BindingInv', Yields, NEW j \in jobs, JobStepOf(j) \/ JobFault(j)
    PROVE  HoldEffects
<1>. USE NoneAssumption
<1>1. TypeOK /\ j \in Job /\ j.session \in Sessions /\ j.task \in Tasks
  BY JobFields DEF HoldInv, LockInv, BindingInv, LeaseInv, TypeOK
<1>2. ClosesFrom
  <2>1. UNCHANGED closing
    BY DEF JobStepOf, JobFault, JobFence, JobAttach, JobProve, JobMark, JobActivate,
       JobFoundBlocked, JobFoundReleased, JobCheck, JobDetach, JobRetainAttached, JobRelease,
       JobCondemnSlot, JobDisableSlot, JobEvict, JobRecheckRelease, JobSettle, JobError,
       JobRetain, JobInterrupt, closeVars
  <2>. QED BY <2>1 DEF ClosesFrom
<1>3. CASE \/ JobFence(j) \/ JobAttach(j) \/ JobProve(j) \/ JobMark(j)
           \/ JobFoundBlocked(j) \/ JobFoundReleased(j) \/ JobCheck(j)
           \/ JobDetach(j) \/ JobRetainAttached(j) \/ JobDisableSlot(j)
           \/ JobError(j) \/ JobRetain(j) \/ JobInterrupt(j)
  <2>1. UNCHANGED <<taskVars, sessionVars, launchVars, agentVars, lockVars, closing>>
    BY <1>3 DEF JobFence, JobAttach, JobProve, JobMark, JobFoundBlocked, JobFoundReleased,
       JobCheck, JobDetach, JobRetainAttached, JobDisableSlot, JobError, JobRetain,
       JobInterrupt, tableVars, closeVars
  <2>2. jobs' \subseteq jobs \/ \E step \in JobStep \ {"quarantining"} : Advance(j, step)
    <3>1. CASE JobCheck(j)
      <4>1. Finish(j) \/ Advance(j, "releasing") \/ Advance(j, "evicting")
        BY <3>1 DEF JobCheck
      <4>. QED BY <4>1 DEF Finish, JobStep
    <3>2. CASE JobDetach(j)
      <4>1. UNCHANGED jobs \/ Advance(j, "detached")
        BY <3>2 DEF JobDetach
      <4>. QED BY <4>1 DEF JobStep
    <3>. QED BY <1>3, <3>1, <3>2 DEF JobFence, JobAttach, JobProve, JobMark, JobFoundBlocked,
         JobFoundReleased, JobRetainAttached, JobDisableSlot, JobError, JobRetain,
         JobInterrupt, Finish, JobStep
  <2>3. JobsCurrent'
    BY <2>1, <2>2, JobMovesOn, JobsStay DEF taskVars, sessionVars
  <2>. QED BY <2>1, <2>3, HoldsQuiet DEF taskVars, sessionVars, launchVars, agentVars, lockVars,
              Live
<1>4. CASE JobActivate(j)
  <2>1. /\ UNCHANGED <<status, sstate, held, agentOf, current, lockTask>>
        /\ phase' = [phase EXCEPT ![j.session] = "active"] /\ jobs' = jobs \ {j}
    BY <1>4 DEF JobActivate, Finish, launchVars, agentVars, lockVars
  <2>2. held[j.session] # None /\ phase[j.session] = "preparing"
    BY <1>1, <1>4 DEF JobActivate, HoldInv, LockInv, BindingInv, LeaseInv, LockedRow
  <2>3. \A i \in jobs' : SessionStill(i) => i.session # j.session
    <3>1. SessionStill(j)
      BY <1>4 DEF JobActivate, SessionStill, HoldInv, LockInv, BindingInv, LeaseInv, LockedRow
    <3>. QED BY <2>1, <3>1, JobOfClaim
  <2>4. JobsCurrent'
    <3>1. \A i \in jobs' : SessionStill(i) => phase'[i.session] \in {phase[i.session], None}
      BY <1>1, <2>1, <2>3, JobFields DEF TypeOK
    <3>. QED BY <2>1, <3>1, JobsStay
  <2>5. PhaseFrom
    BY <1>1, <2>1, <2>2 DEF PhaseFrom, TypeOK
  <2>. QED BY <1>2, <2>1, <2>4, <2>5
           DEF HoldEffects, StatusMoves, TaskLocksKept, Pinned, ActiveKept, HoldInv,
               LivePreparation, Live
<1>5. ASSUME Finish(j), NEW target \in TaskStatus \ {"COMPLETED"}, NEW fence, NEW opt,
             Release(j.session, target, fence, opt), ~opt.retire,
             SessionStill(j) \/ ~enabled'[slotOf[j.session]]
      PROVE  HoldEffects
  <2>1. jobs' = jobs \ {j}
    BY <1>5 DEF Finish
  <2>2. held' = [held EXCEPT ![j.session] = None] /\ phase' = [phase EXCEPT ![j.session] = None]
    BY <1>5 DEF Release
  <2>3. JobsCurrent'
    BY <1>1, <2>1, <2>2, JobFields, JobsStay DEF TypeOK
  <2>4. MayEnd(j.session)
    BY <1>5, JobOfClaim DEF MayEnd
  <2>. QED BY <1>1, <1>2, <1>5, <2>3, <2>4, ReleaseHolds
<1>6. ASSUME Finish(j), UNCHANGED <<taskVars, sessionVars, launchVars, agentVars, lockVars, closing>>
      PROVE  HoldEffects
  <2>1. JobsCurrent'
    BY <1>6, JobsStay DEF Finish, sessionVars
  <2>. QED BY <1>6, <2>1, HoldsQuiet DEF taskVars, sessionVars, launchVars, agentVars, lockVars,
              Live
<1>7. CASE JobRelease(j)
  <2>1. PICK drain \in BOOLEAN, o \in FailureOutcomes(j) :
           ReleaseOrSkip(j, o.target, NoFence,
                         [Ordinary EXCEPT !.backoff = o.backoff, !.drain = drain])
    BY <1>7 DEF JobRelease
  <2>2. o.target \in TaskStatus \ {"COMPLETED"}
    BY DEF FailureOutcomes, LadderTarget, TaskStatus
  <2>3. ~[Ordinary EXCEPT !.backoff = o.backoff, !.drain = drain].retire
    BY DEF Ordinary
  <2>. QED BY <1>5, <1>6, <1>7, <2>1, <2>2, <2>3
           DEF JobRelease, ReleaseOrSkip, taskVars, closeVars
<1>8. CASE JobEvict(j) \/ JobSettle(j)
  <2>1. slotOf[j.session] \in Workspaces
    BY <1>1 DEF HoldInv, LockInv, BindingInv, Launched, TypeOK
  <2>2. CASE JobEvict(j)
    <3>1. ~enabled'[slotOf[j.session]]
      BY <1>1, <2>1, <2>2 DEF JobEvict, TypeOK
    <3>. QED BY <1>5, <1>6, <2>2, <3>1 DEF JobEvict, TaskStatus, Ordinary, closeVars
  <2>3. CASE JobSettle(j)
    BY <1>5, <1>6, <2>3 DEF JobSettle, StillPreparing, TaskStatus, Ordinary, closeVars
  <2>. QED BY <1>8, <2>2, <2>3
<1>9. CASE JobRecheckRelease(j)
  BY <1>5, <1>6, <1>9 DEF JobRecheckRelease, ReleaseOrSkip, TaskStatus, Ordinary, taskVars,
                          closeVars
<1>10. CASE JobCondemnSlot(j)
  <2>. DEFINE k == [j EXCEPT !.step = "quarantining"]
  <2>1. /\ Release(j.session, LadderTarget(j.task), NoFence, Condemned) /\ SessionStill(j)
        /\ jobs' = (jobs \ {j}) \cup {k}
    BY <1>10 DEF JobCondemnSlot, Advance
  <2>2. Condemned.drain /\ ~Condemned.retire /\ LadderTarget(j.task) # "COMPLETED"
    BY DEF Condemned, Ordinary, LadderTarget
  <2>3. k.session = j.session /\ k.task = j.task /\ k.epoch = j.epoch
    BY <1>1 DEF Job
  <2>. HIDE DEF k
  <2>4. /\ held'[j.session] = None /\ desired'[j.session] = "stopped"
        /\ \A s \in Sessions \ {j.session} :
              held'[s] = held[s] /\ phase'[s] = phase[s] /\ leased'[s] = leased[s]
        /\ UNCHANGED epoch
    BY <1>1, <2>1, <2>2 DEF Release, TypeOK
  <2>5. \A i \in jobs : i.session \in Sessions /\ i.task \in Tasks
    BY <1>1, JobFields
  <2>6. MayEnd(j.session)
    BY <2>1, JobOfClaim DEF MayEnd
  <2>7. JobsCurrent'
    <3>1. ASSUME NEW i \in jobs', NEW l \in jobs', i.session = l.session, i.task = l.task,
                 i.epoch = l.epoch
          PROVE  i = l
      BY <2>1, <2>3, <3>1 DEF HoldInv, JobsCurrent
    <3>2. ASSUME NEW i \in jobs'
          PROVE  /\ i.epoch <= epoch'[i.task]
                 /\ held'[i.session] = i.task /\ leased'[i.session] = i.epoch =>
                       phase'[i.session] = "preparing" /\ i.step # "quarantining"
      <4>1. CASE i.session = j.session
        <5>1. i.task # None
          BY <1>1, <2>1, <2>3, <2>5
        <5>. QED BY <2>1, <2>3, <2>4, <4>1, <5>1 DEF HoldInv, JobsCurrent
      <4>2. CASE i \in jobs /\ i.session # j.session
        BY <2>4, <2>5, <4>2 DEF HoldInv, JobsCurrent, SessionStill
      <4>. QED BY <2>1, <2>3, <4>1, <4>2
    <3>. QED BY <3>1, <3>2 DEF JobsCurrent, SessionStill
  <2>. QED BY <1>1, <1>2, <2>1, <2>2, <2>6, <2>7, ReleaseHolds
<1>. QED BY <1>3, <1>4, <1>7, <1>8, <1>9, <1>10 DEF JobStepOf, JobFault

-----------------------------------------------------------------------------
\* Claims, closes and sweeps

\* A release by a session, or of it.
LEMMA SessionReleases ==
    ASSUME HoldInv, Yields, NEW s \in Sessions, NEW target, NEW fence, NEW opt,
           Release(s, target, fence, opt), opt.retire => Rooted(s),
           target = "COMPLETED" => held[s] # None /\ status[held[s]] = target,
           UNCHANGED jobs, MayEnd(s), ClosesFrom
    PROVE  HoldEffects
<1>1. TypeOK
  BY DEF HoldInv, LockInv, BindingInv, LeaseInv
<1>2. held' = [held EXCEPT ![s] = None] /\ phase' = [phase EXCEPT ![s] = None]
  BY DEF Release
<1>3. JobsCurrent'
  BY <1>1, <1>2, JobFields, JobsStay DEF TypeOK
<1>. QED BY <1>3, ReleaseHolds

LEMMA SessionHolds ==
    ASSUME HoldInv, Yields, NEW s \in Sessions,
           \/ ClaimOnRetiredSlot(s) \/ ClaimExhausted(s) \/ CloseRecord(s)
           \/ CloseRelease(s) \/ OrphanSweep(s) \/ PrepareTimeout(s)
           \/ DrainDisplaced(s) \/ RequestDrain(s)
           \/ \E lost \in BOOLEAN : TermBegin(s, lost)
           \/ TermUnconfirmed(s) \/ TermRelease(s) \/ TermFinish(s)
           \/ \E t \in Tasks : ResumePreparation(s, t) \/ RecoverStaleBinding(s, t)
    PROVE  HoldEffects
<1>. USE NoneAssumption
<1>1. TypeOK
  BY DEF HoldInv, LockInv, BindingInv, LeaseInv
<1>2. CASE \/ ClaimOnRetiredSlot(s) \/ ClaimExhausted(s) \/ RequestDrain(s)
           \/ \E lost \in BOOLEAN : TermBegin(s, lost)
           \/ TermUnconfirmed(s)
  <2>1. UNCHANGED <<status, sstate, held, phase, leased, agentOf, current, lockTask, closing, jobs>>
    BY <1>2 DEF ClaimOnRetiredSlot, ClaimExhausted, RequestDrain, TermBegin, TermUnconfirmed,
       taskVars, sessionVars, launchVars, agentVars, lockVars, memoryVars
  <2>2. JobsCurrent'
    BY <2>1, JobsStay
  <2>. QED BY <2>1, <2>2, HoldsQuiet DEF Live
<1>3. CASE CloseRecord(s)
  <2>1. /\ UNCHANGED <<status, sstate, held, phase, agentOf, current, lockTask, jobs>>
        /\ closing[s] \in Closing /\ closing' = [closing EXCEPT ![s].stage = "recorded"]
    BY <1>1, <1>3 DEF CloseRecord, taskVars, sessionVars, launchVars, agentVars, lockVars, TypeOK
  <2>2. ClosesFrom
    BY <1>1, <1>3, <2>1 DEF CloseRecord, ClosesFrom, TypeOK, Closing
  <2>3. JobsCurrent'
    BY <2>1, JobsStay
  <2>. QED BY <2>1, <2>2, <2>3 DEF HoldEffects, StatusMoves, TaskLocksKept, Pinned, PhaseFrom,
              ActiveKept, HoldInv, LivePreparation, Live
<1>4. CASE CloseRelease(s)
  <2>. DEFINE c == closing[s]
  <2>1. /\ c # None /\ c \in Closing /\ closing' = [closing EXCEPT ![s] = None]
        /\ UNCHANGED jobs
    BY <1>1, <1>4 DEF CloseRelease, TypeOK
  <2>2. ClosesFrom
    BY <1>1, <2>1 DEF ClosesFrom, TypeOK
  <2>3. CASE /\ CloseStill(s, c)
             /\ Release(s, c.status, NoFence, [Ordinary EXCEPT !.drain = FreshContext])
    <3>1. held[s] = c.task /\ c.task \in Tasks /\ status[c.task] = c.status /\ phase[s] = "active"
      BY <2>1, <2>3 DEF HoldInv, CloseWritten, CloseStill, Closing
    <3>2. MayEnd(s)
      BY <2>1, <3>1 DEF MayEnd, HoldInv, LockInv, BindingInv, Assignment
    <3>3. ~[Ordinary EXCEPT !.drain = FreshContext].retire
      BY DEF Ordinary
    <3>. QED BY <2>1, <2>2, <2>3, <3>1, <3>2, <3>3, SessionReleases
  <2>4. CASE UNCHANGED <<taskVars, sessionVars, launchVars, agentVars, lockVars>>
    <3>1. JobsCurrent'
      BY <2>1, <2>4, JobsStay DEF sessionVars
    <3>. QED BY <2>2, <2>4, <3>1 DEF HoldEffects, StatusMoves, TaskLocksKept, Pinned, PhaseFrom,
                ActiveKept, HoldInv, LivePreparation, Live, taskVars, sessionVars, launchVars, agentVars,
                lockVars
  <2>. QED BY <1>4, <2>3, <2>4 DEF CloseRelease
<1>5. CASE OrphanSweep(s)
  <2>1. /\ held[s] # None /\ Live(s) /\ status[held[s]] # "IN_PROGRESS" /\ UNCHANGED <<jobs, closing>>
        /\ \E fence : Release(s, status[held[s]], fence, [Ordinary EXCEPT !.drain = FreshContext])
    BY <1>5 DEF OrphanSweep, StillOpen, memoryVars
  <2>2. MayEnd(s)
    BY <2>1 DEF MayEnd
  <2>3. ~[Ordinary EXCEPT !.drain = FreshContext].retire /\ ClosesFrom
    BY <2>1 DEF Ordinary, ClosesFrom
  <2>. QED BY <2>1, <2>2, <2>3, SessionReleases
<1>6. CASE PrepareTimeout(s)
  <2>1. /\ phase[s] = "preparing" /\ UNCHANGED <<jobs, closing>>
        /\ Release(s, "READY", NoFence, [Ordinary EXCEPT !.backoff = TRUE])
    BY <1>6 DEF PrepareTimeout, StillExpired, memoryVars
  <2>2. MayEnd(s)
    BY <2>1 DEF MayEnd
  <2>3. ~[Ordinary EXCEPT !.backoff = TRUE].retire /\ ClosesFrom
    BY <2>1 DEF Ordinary, ClosesFrom
  <2>. QED BY <2>1, <2>2, <2>3, SessionReleases
<1>7. ASSUME NEW t \in Tasks, RecoverStaleBinding(s, t) PROVE HoldEffects
  <2>1. held[s] = t /\ phase[s] = "active" /\ UNCHANGED <<jobs, closing>>
    BY <1>7 DEF RecoverStaleBinding, StaleBinding, memoryVars
  <2>2. ClosesFrom
    BY <2>1 DEF ClosesFrom
  <2>3. CASE \E fence : Release(s, status[t], fence, Ordinary)
    <3>1. MayEnd(s)
      <4>1. leased[s] = epoch[t]
        BY <2>1 DEF HoldInv, HeldCurrent
      <4>2. status[t] # "IN_PROGRESS"
        BY <1>7, <2>1, <4>1 DEF RecoverStaleBinding, StaleBinding, Holds, HoldInv, LockInv,
           BindingInv, Assignment
      <4>. QED BY <2>1, <4>2 DEF MayEnd
    <3>2. ~Ordinary.retire
      BY DEF Ordinary
    <3>. QED BY <2>1, <2>2, <2>3, <3>1, <3>2, SessionReleases
  <2>4. CASE UNCHANGED <<taskVars, sstate, held, phase, leased, launchVars, agentVars, lockVars>>
    <3>1. JobsCurrent'
      BY <2>1, <2>4, JobsStay
    <3>. QED BY <2>1, <2>4, <3>1, HoldsQuiet DEF taskVars, launchVars, agentVars, lockVars, Live
  <2>. QED BY <1>7, <2>3, <2>4 DEF RecoverStaleBinding
<1>8. CASE DrainDisplaced(s)
  <2>1. /\ desired[s] = "stopped" /\ held[s] # None
        /\ held' = [held EXCEPT ![s] = None] /\ phase' = [phase EXCEPT ![s] = None]
        /\ UNCHANGED <<status, sstate, desired, agentOf, slotOf, jobs, closing>>
    BY <1>8 DEF DrainDisplaced, taskVars, launchVars, memoryVars
  <2>2. JobsCurrent'
    BY <1>1, <2>1, JobFields, JobsStay DEF TypeOK
  <2>3. TaskLocksKept
    <3>. SUFFICES ASSUME NEW o \in Sessions, Needs(o), held[o] # None, held'[o] = held[o]
                  PROVE  lockTask'[slotOf[o]] = lockTask[slotOf[o]]
      BY DEF TaskLocksKept
    <3>1. o # s /\ slotOf[o] \in Workspaces
      BY <1>1, <2>1, NeedsBound DEF HoldInv, LockInv, Rooted, TypeOK
    <3>2. lockTask[slotOf[o]] # held[s]
      BY <2>1, <3>1, SoleHolder DEF HoldInv, LockInv, SlotKept
    <3>. QED BY <1>8, <3>1, <3>2 DEF DrainDisplaced
  <2>4. Pinned'
    <3>. SUFFICES ASSUME NEW o \in Sessions, Live(o)
                  PROVE  current'[agentOf[o]] \in {None, held'[o]}
      BY <2>1 DEF Pinned, Live
    <3>1. agentOf[o] \in Agents /\ current[agentOf[o]] \in {None, held[o]}
      BY <1>1 DEF HoldInv, LivePreparation, LockInv, BindingInv, Launched, Live, TypeOK
    <3>2. assigned[held[s]] # agentOf[s]
      BY <1>1, <1>8, <2>1 DEF DrainDisplaced, HoldInv, HeldCurrent
    <3>3. current' = [current EXCEPT ![agentOf[s]] = IF @ = held[s] THEN None ELSE @]
      BY <1>8, <3>2 DEF DrainDisplaced
    <3>. QED BY <1>1, <2>1, <3>1, <3>3 DEF TypeOK
  <2>5. PhaseFrom
    BY <1>1, <2>1 DEF PhaseFrom, TypeOK
  <2>6. ActiveKept
    BY <1>1, <2>1 DEF ActiveKept, TypeOK
  <2>. QED BY <2>1, <2>2, <2>3, <2>4, <2>5, <2>6 DEF HoldEffects, StatusMoves, ClosesFrom
<1>9. CASE TermRelease(s)
  <2>1. Live(s) /\ desired[s] = "stopped" /\ UNCHANGED <<jobs, closing>>
    BY <1>9 DEF TermRelease, HoldInv, LockInv, BindingInv, TeardownHold
  <2>2. ClosesFrom
    BY <2>1 DEF ClosesFrom
  <2>3. CASE \E fence, opt : Release(s, "READY", fence, opt)
    BY <2>1, <2>2, <2>3, SessionReleases DEF Rooted, MayEnd
  <2>4. CASE /\ sstate' = [sstate EXCEPT ![s] = "stopped"]
             /\ UNCHANGED <<taskVars, held, phase, leased, launchVars, agentVars, lockVars>>
    <3>1. JobsCurrent'
      BY <2>1, <2>4, JobsStay
    <3>. QED BY <1>1, <2>1, <2>4, <3>1, HoldsQuiet
             DEF taskVars, launchVars, agentVars, lockVars, Live, TypeOK
  <2>. QED BY <1>9, <2>3, <2>4 DEF TermRelease
<1>10. CASE TermFinish(s)
  <2>1. /\ UNCHANGED <<status, held, phase, leased, agentOf, lockTask, closing, jobs>>
        /\ sstate' = [sstate EXCEPT ![s] = "stopped"]
        /\ current' = [current EXCEPT ![agentOf[s]] = None]
    BY <1>10 DEF TermFinish, taskVars, launchVars, lockVars
  <2>2. JobsCurrent'
    BY <2>1, JobsStay
  <2>3. Pinned'
    BY <1>1, <2>1 DEF Pinned, HoldInv, LivePreparation, LockInv, BindingInv, Launched, Live, TypeOK
  <2>. QED BY <2>1, <2>2, <2>3 DEF HoldEffects, StatusMoves, ClosesFrom, TaskLocksKept, PhaseFrom,
              ActiveKept
<1>11. ASSUME NEW t \in Tasks, ResumePreparation(s, t) PROVE HoldEffects
  <2>. DEFINE k == [session |-> s, task |-> t, epoch |-> epoch[t], step |-> "queued",
                    resumed |-> TRUE]
  <2>1. /\ held[s] = t /\ phase[s] = "preparing" /\ ~LiveJob(s, t, epoch[t])
        /\ jobs' = jobs \cup {k}
        /\ UNCHANGED <<taskVars, sessionVars, launchVars, agentVars, lockVars, closing>>
    BY <1>11 DEF ResumePreparation, Queue
  <2>2. k.session = s /\ k.task = t /\ k.epoch = epoch[t] /\ k.step = "queued"
    OBVIOUS
  <2>. HIDE DEF k
  <2>3. leased[s] = epoch[t]
    BY <2>1 DEF HoldInv, HeldCurrent
  <2>4. JobsCurrent'
    <3>1. epoch[t] \in Nat
      BY <1>1 DEF TypeOK, Epoch
    <3>. QED BY <2>1, <2>2, <2>3, <3>1
             DEF HoldInv, JobsCurrent, SessionStill, LiveJob, taskVars, sessionVars
  <2>. QED BY <2>1, <2>4, HoldsQuiet DEF taskVars, sessionVars, launchVars, agentVars, lockVars,
              Live
<1>. QED BY <1>2, <1>3, <1>4, <1>5, <1>6, <1>7, <1>8, <1>9, <1>10, <1>11

LEMMA CloseHolds ==
    ASSUME HoldInv, Yields, NEW s \in Sessions, NEW t \in Tasks, NEW st \in Verdicts,
           CloseTransition(s, t, st)
    PROVE  HoldEffects
<1>1. TypeOK
  BY DEF HoldInv, LockInv, BindingInv, LeaseInv
<1>2. /\ UNCHANGED <<sstate, desired, held, phase, leased, agentOf, current, lockTask, jobs>>
      /\ status' = [status EXCEPT ![t] = st]
      /\ \A o \in Sessions \ {s} : closing'[o] = closing[o]
  BY <1>1 DEF CloseTransition, sessionVars, launchVars, agentVars, lockVars, TypeOK
<1>3. StatusMoves /\ ClosesFrom
  BY <1>1, <1>2 DEF StatusMoves, ClosesFrom, TypeOK
<1>4. JobsCurrent'
  BY <1>2, JobsStay
<1>. QED BY <1>2, <1>3, <1>4 DEF HoldEffects, TaskLocksKept, Pinned, PhaseFrom, ActiveKept,
            HoldInv, LivePreparation, Live

\* A holder that is not stopped with its task has nothing to do with its slot.
LEMMA StopHolds ==
    ASSUME HoldInv, Yields, NEW t \in Tasks, StopTask(t)
    PROVE  HoldEffects
<1>. USE NoneAssumption
<1>1. TypeOK
  BY DEF HoldInv, LockInv, BindingInv, LeaseInv
<1>2. /\ UNCHANGED <<agentOf, slotOf, leased, jobs, closing>>
      /\ \A s \in Sessions :
            IF Live(s) /\ held[s] = t
              THEN held'[s] = None /\ phase'[s] = None /\ sstate'[s] = "stopped"
              ELSE held'[s] = held[s] /\ phase'[s] = phase[s] /\ sstate'[s] = sstate[s]
      /\ \A w \in Workspaces : lockTask[w] # t => lockTask'[w] = lockTask[w]
      /\ \A a \in Agents : current'[a] \in {current[a], None}
  BY <1>1 DEF StopTask, launchVars, memoryVars
<1>3. StatusMoves
  <2>1. \A u \in Tasks : status'[u] # status[u] => u = t /\ status[t] = "IN_PROGRESS"
    BY <1>1 DEF StopTask, TypeOK
  <2>2. CASE status'[t] = "BLOCKED"
    BY <1>2, <2>1, <2>2 DEF StatusMoves
  <2>3. CASE status'[t] # "BLOCKED"
    <3>1. status'[t] = "READY" /\ \E s \in Sessions : Live(s) /\ held[s] = t
      BY <1>1, <2>3 DEF StopTask, TypeOK
    <3>2. \A s \in Sessions : held[s] = t => Live(s)
      BY <3>1, SoleHolder
    <3>. QED BY <1>2, <2>1, <3>1, <3>2 DEF StatusMoves
  <2>. QED BY <2>2, <2>3
<1>4. TaskLocksKept
  <2>. SUFFICES ASSUME NEW o \in Sessions, Needs(o), held[o] # None, held'[o] = held[o],
                       lockTask'[slotOf[o]] # lockTask[slotOf[o]]
                PROVE  FALSE
    BY DEF TaskLocksKept
  <2>1. slotOf[o] \in Workspaces
    BY NeedsBound DEF HoldInv, LockInv, Rooted
  <2>2. held[o] = t /\ ~Live(o)
    BY <1>2, <2>1 DEF HoldInv, LockInv, SlotKept
  <2>3. owner[t] # o /\ ~ControlHeld(t)
    BY <2>2 DEF StopTask
  <2>4. \A u \in Tasks : owner[u] # o
    BY <2>2, <2>3 DEF HoldInv, LockInv, OwnerHolds
  <2>5. ~Condemning(o)
    BY <2>2, <2>3 DEF Condemning, ControlHeld, SessionStill
  <2>. QED BY <2>2, <2>4, <2>5 DEF Needs
<1>5. Pinned'
  <2>. SUFFICES ASSUME NEW o \in Sessions, Live(o)'
                PROVE  current'[agentOf[o]] \in {None, held'[o]}
    BY <1>2 DEF Pinned
  <2>1. Live(o) /\ held'[o] = held[o]
    BY <1>2 DEF Live
  <2>2. agentOf[o] \in Agents /\ current[agentOf[o]] \in {None, held[o]}
    BY <1>1, <2>1 DEF HoldInv, LivePreparation, LockInv, BindingInv, Launched, Live, TypeOK
  <2>. QED BY <1>2, <2>1, <2>2
<1>6. PhaseFrom
  BY <1>2 DEF PhaseFrom
<1>7. JobsCurrent'
  BY <1>1, <1>2, JobFields, JobsStay
<1>8. ClosesFrom
  BY <1>2 DEF ClosesFrom
<1>9. ActiveKept
  BY <1>2 DEF ActiveKept, Live
<1>. QED BY <1>3, <1>4, <1>5, <1>6, <1>7, <1>8, <1>9 DEF HoldEffects

\* A task that is requeued because nobody holds it has no slot anybody needs.
LEMMA RecoverHolds ==
    ASSUME HoldInv, Yields, NEW t \in Tasks, NEW st \in {"READY", "FAILED"}, RecoverMissing(t, st)
    PROVE  HoldEffects
<1>. USE NoneAssumption
<1>1. TypeOK
  BY DEF HoldInv, LockInv, BindingInv, LeaseInv
<1>2. /\ UNCHANGED <<sstate, desired, held, phase, leased, agentOf, slotOf, jobs, closing>>
      /\ status' = [status EXCEPT ![t] = st] /\ \A s \in Sessions : held[s] # t
      /\ \A w \in Workspaces : lockTask[w] # t => lockTask'[w] = lockTask[w]
      /\ \A a \in Agents : current'[a] \in {current[a], None}
  BY <1>1 DEF RecoverMissing, Orphaned, sessionVars, launchVars, memoryVars, TypeOK
<1>3. StatusMoves
  BY <1>1, <1>2 DEF StatusMoves, TypeOK
<1>4. TaskLocksKept
  <2>. SUFFICES ASSUME NEW s \in Sessions, Needs(s)
                PROVE  lockTask'[slotOf[s]] = lockTask[slotOf[s]]
    BY DEF TaskLocksKept
  <2>1. slotOf[s] \in Workspaces
    BY NeedsBound DEF HoldInv, LockInv, Rooted
  <2>2. lockTask[slotOf[s]] # t
    BY <1>2 DEF HoldInv, LockInv, SlotKept
  <2>. QED BY <1>2, <2>1, <2>2
<1>5. Pinned'
  <2>. SUFFICES ASSUME NEW s \in Sessions, Live(s)
                PROVE  current'[agentOf[s]] \in {None, held[s]}
    BY <1>2 DEF Pinned, Live
  <2>1. agentOf[s] \in Agents /\ current[agentOf[s]] \in {None, held[s]}
    BY <1>1 DEF HoldInv, LivePreparation, LockInv, BindingInv, Launched, Live, TypeOK
  <2>. QED BY <1>2, <2>1
<1>6. JobsCurrent'
  BY <1>2, JobsStay
<1>. QED BY <1>2, <1>3, <1>4, <1>5, <1>6 DEF HoldEffects, ClosesFrom, PhaseFrom, ActiveKept

\* The owner-recovery sweep releases the claim it finds, which is current.
LEMMA OwnerReleases ==
    ASSUME HoldInv, NEW t \in Tasks, OwnerRecovered(t)
    PROVE  \E s \in Sessions :
              LET target == IF status[t] = "IN_PROGRESS" THEN "READY" ELSE status[t]
                  f == IF target = "READY" THEN NoFence ELSE Fence(status[t], leased[s])
              IN  /\ s = owner[t] /\ held[s] = t /\ status[t] # "READY" /\ ~Live(s)
                  /\ Release(s, target, f, [Ordinary EXCEPT !.unlock = TRUE])
<1>. USE NoneAssumption
<1>1. PICK s \in Sessions : s = owner[t]
  BY DEF HoldInv, LockInv, BindingInv, LeaseInv, TypeOK, OwnerRecovered
<1>. DEFINE target == IF status[t] = "IN_PROGRESS" THEN "READY" ELSE status[t]
            f == IF target = "READY" THEN NoFence ELSE Fence(status[t], leased[s])
<1>2. ~Live(s)
  BY <1>1 DEF OwnerRecovered
<1>3. held[s] = t /\ phase[s] # None /\ leased[s] = epoch[t] /\ status[t] # "READY"
  BY <1>1 DEF HoldInv, HeldCurrent, LockInv, OwnerHolds, BindingInv, HoldPhase
<1>4. ~OtherLive(s)
  <2>1. Rooted(s)
    BY <1>1 DEF Rooted, Needs
  <2>. QED BY <1>2, <2>1 DEF HoldInv, LockInv, OneRooted, Rooted, OtherLive
<1>5. Fits(s, target, f)
  <2>1. CASE status[t] = "IN_PROGRESS"
    BY <2>1 DEF Fits
  <2>2. CASE status[t] # "IN_PROGRESS"
    BY <1>3, <2>2 DEF Fits, RowMatches, Fence
  <2>. QED BY <2>1, <2>2
<1>6. Release(s, target, f, [Ordinary EXCEPT !.unlock = TRUE])
  BY <1>1, <1>3, <1>4, <1>5 DEF OwnerRecovered
<1>. QED BY <1>1, <1>2, <1>3, <1>6

LEMMA OwnerRecovers ==
    ASSUME HoldInv, Yields, NEW t \in Tasks, OwnerRecovered(t)
    PROVE  HoldEffects
<1>1. PICK s \in Sessions :
         /\ held[s] = t /\ status[t] # "READY" /\ ~Live(s)
         /\ \E f : Release(s, IF status[t] = "IN_PROGRESS" THEN "READY" ELSE status[t], f,
                          [Ordinary EXCEPT !.unlock = TRUE])
  BY OwnerReleases
<1>. DEFINE target == IF status[t] = "IN_PROGRESS" THEN "READY" ELSE status[t]
            opt == [Ordinary EXCEPT !.unlock = TRUE]
<1>2. ~opt.retire
  BY DEF Ordinary
<1>3. UNCHANGED jobs /\ ClosesFrom
  BY DEF OwnerRecovered, memoryVars, ClosesFrom
<1>4. target = "COMPLETED" => held[s] # None /\ status[held[s]] = target
  BY <1>1, NoneAssumption
<1>5. \E f : Release(s, target, f, opt)
  BY <1>1
<1>. HIDE DEF target, opt
<1>6. MayEnd(s)
  BY <1>1 DEF MayEnd
<1>. QED BY <1>1, <1>2, <1>3, <1>4, <1>5, <1>6, SessionReleases

LEMMA EnvironmentHolds ==
    ASSUME HoldInv, Yields, Final,
           \/ \E t \in Tasks : OperatorReopen(t) \/ DependencyFlip(t)
           \/ \E w \in Workspaces : LoseMarker(w)
           \/ DaemonRestart
           \/ UNCHANGED vars
    PROVE  HoldEffects
<1>1. CASE \/ \E t \in Tasks : DependencyFlip(t)
           \/ \E w \in Workspaces : LoseMarker(w)
           \/ UNCHANGED vars
  <2>1. UNCHANGED <<status, sstate, desired, held, phase, leased, agentOf, current, lockTask,
                    closing, jobs>>
    BY <1>1 DEF DependencyFlip, LoseMarker, vars, taskVars, sessionVars, launchVars,
       agentVars, lockVars, memoryVars
  <2>2. JobsCurrent'
    BY <2>1, JobsStay
  <2>. QED BY <2>1, <2>2, HoldsQuiet DEF Live
<1>2. CASE DaemonRestart
  <2>1. /\ UNCHANGED <<status, sstate, desired, held, phase, leased, agentOf, current, lockTask>>
        /\ jobs' = {} /\ \A s \in Sessions : closing'[s] = None
    BY <1>2 DEF DaemonRestart, taskVars, sessionVars, launchVars, agentVars, lockVars
  <2>. QED BY <2>1 DEF HoldEffects, StatusMoves, ClosesFrom, TaskLocksKept, Pinned, PhaseFrom,
              ActiveKept, JobsCurrent, HoldInv, LivePreparation, Live
<1>. QED BY <1>1, <1>2 DEF OperatorReopen, Final

\* What every step but a launch and a claim does to the holds.
LEMMA NextHolds ==
    ASSUME HoldInv, BindingInv', Final, [Next]_vars
    PROVE  \/ \E s \in Sessions, a \in Agents, w \in Workspaces : Launch(s, a, w)
           \/ \E s \in Sessions, t \in Tasks : ClaimTask(s, t)
           \/ Yields /\ HoldEffects
<1>. SUFFICES ASSUME Yields PROVE \/ \E s \in Sessions, a \in Agents, w \in Workspaces : Launch(s, a, w)
                                  \/ \E s \in Sessions, t \in Tasks : ClaimTask(s, t)
                                  \/ HoldEffects
  BY NextYields DEF HoldInv, LockInv
<1>1. CASE \E j \in jobs : JobStepOf(j) \/ JobFault(j)
  BY <1>1, JobHolds
<1>2. ASSUME NEW s \in Sessions, NEW t \in Tasks,
             \/ ResumePreparation(s, t) \/ RecoverStaleBinding(s, t)
             \/ \E st \in Verdicts : CloseTransition(s, t, st)
      PROVE  HoldEffects
  BY <1>2, SessionHolds, CloseHolds
<1>3. ASSUME NEW s \in Sessions,
             \/ ClaimOnRetiredSlot(s) \/ ClaimExhausted(s) \/ CloseRecord(s)
             \/ CloseRelease(s) \/ OrphanSweep(s) \/ PrepareTimeout(s) \/ DrainDisplaced(s)
             \/ RequestDrain(s) \/ (\E lost \in BOOLEAN : TermBegin(s, lost))
             \/ TermUnconfirmed(s) \/ TermRelease(s) \/ TermFinish(s)
      PROVE  HoldEffects
  BY <1>3, SessionHolds
<1>4. ASSUME NEW t \in Tasks, \/ StopTask(t) \/ OwnerRecovered(t)
                              \/ RecoverMissing(t, "READY") \/ RecoverMissing(t, "FAILED")
      PROVE  HoldEffects
  BY <1>4, StopHolds, OwnerRecovers, RecoverHolds
<1>5. CASE \/ \E t \in Tasks : OperatorReopen(t) \/ DependencyFlip(t)
           \/ \E w \in Workspaces : LoseMarker(w)
           \/ DaemonRestart
           \/ UNCHANGED vars
  BY <1>5, EnvironmentHolds
<1>. QED BY <1>1, <1>2, <1>3, <1>4, <1>5 DEF Next

-----------------------------------------------------------------------------
\* The invariant, over the kinds of steps

LEMMA LaunchHold ==
    ASSUME HoldInv, LockInv', NEW s \in Sessions, NEW a \in Agents, NEW w \in Workspaces,
           Launch(s, a, w)
    PROVE  HoldInv'
<1>. USE NoneAssumption
<1>1. TypeOK
  BY DEF HoldInv, LockInv, BindingInv, LeaseInv
<1>2. /\ sstate[s] = "absent" /\ current[a] = None
      /\ sstate' = [sstate EXCEPT ![s] = "running"]
      /\ agentOf' = [agentOf EXCEPT ![s] = a]
      /\ slotOf' = [slotOf EXCEPT ![s] = w]
      /\ UNCHANGED <<status, epoch, desired, held, phase, leased, lockTask, current, jobs,
                     closing>>
  BY DEF Launch, Reservable, taskVars, agentVars, memoryVars
<1>3. held[s] = None /\ phase[s] = None /\ \A j \in jobs : j.session # s
  BY <1>2 DEF HoldInv, LockInv, BindingInv, Launched, HoldPhase
<1>4. HeldCurrent' /\ CloseWritten'
  BY <1>2 DEF HoldInv, HeldCurrent, CloseWritten, CloseStill
<1>5. LockedForTask'
  BY <1>1, <1>2, <1>3 DEF HoldInv, LockedForTask, Holds, Live, TypeOK
<1>6. JobsCurrent'
  BY <1>2 DEF HoldInv, JobsCurrent, SessionStill
<1>7. LivePreparation'
  BY <1>1, <1>2, <1>3 DEF HoldInv, LivePreparation, Live, TypeOK
<1>. QED BY <1>4, <1>5, <1>6, <1>7 DEF HoldInv

\* A claim is of a task that nobody holds, under an epoch no preparation has.
LEMMA ClaimHold ==
    ASSUME HoldInv, LockInv', NEW s \in Sessions, NEW t \in Tasks, ClaimTask(s, t)
    PROVE  HoldInv'
<1>. USE NoneAssumption
<1>. DEFINE k == [session |-> s, task |-> t, epoch |-> epoch[t] + 1, step |-> "queued",
                  resumed |-> FALSE]
<1>1. TypeOK /\ Live(s) /\ desired[s] = "running" /\ held[s] = None /\ Needs(s)
  BY DEF HoldInv, LockInv, BindingInv, LeaseInv, ClaimTask, SlotFree, Needs
<1>2. agentOf[s] \in Agents /\ slotOf[s] \in Workspaces
  BY <1>1, NeedsBound DEF HoldInv, LockInv, Rooted
<1>3. lockAgent[slotOf[s]] = agentOf[s] /\ lockTask[slotOf[s]] = None
  BY <1>1 DEF HoldInv, LockInv, SlotKept
<1>4. /\ status[t] = "READY" /\ jobs' = jobs \cup {k}
      /\ status' = [status EXCEPT ![t] = "IN_PROGRESS"]
      /\ epoch' = [epoch EXCEPT ![t] = epoch[t] + 1]
      /\ current' = [current EXCEPT ![agentOf[s]] = t]
      /\ held' = [held EXCEPT ![s] = t]
      /\ phase' = [phase EXCEPT ![s] = "preparing"]
      /\ leased' = [leased EXCEPT ![s] = epoch[t] + 1]
      /\ lockTask' = [lockTask EXCEPT ![slotOf[s]] = t]
      /\ UNCHANGED <<sstate, desired, agentOf, slotOf, closing>>
  BY <1>1, <1>2, <1>3 DEF ClaimTask, Claimable, Queue, NextEpoch, launchVars, TypeOK
<1>5. k.session = s /\ k.task = t /\ k.epoch = epoch[t] + 1 /\ k.step = "queued"
  OBVIOUS
<1>. HIDE DEF k
<1>6. \A o \in Sessions : held[o] # t
  BY <1>4 DEF HoldInv, HeldCurrent
<1>7. \A o \in Sessions \ {s} :
         held'[o] = held[o] /\ phase'[o] = phase[o] /\ leased'[o] = leased[o]
  BY <1>1, <1>4 DEF TypeOK
<1>8. held'[s] = t /\ phase'[s] = "preparing" /\ leased'[s] = epoch[t] + 1
      /\ epoch'[t] = epoch[t] + 1 /\ status'[t] = "IN_PROGRESS"
      /\ epoch[t] \in Nat
  BY <1>1, <1>4 DEF TypeOK, Epoch
<1>9. \A u \in Tasks \ {t} : epoch'[u] = epoch[u] /\ status'[u] = status[u]
  BY <1>1, <1>4 DEF TypeOK
<1>10. HeldCurrent'
  <2>1. ASSUME NEW o \in Sessions, held'[o] # None PROVE leased'[o] = epoch'[held'[o]]
    <3>1. CASE o = s
      BY <1>8, <3>1
    <3>2. CASE o # s
      BY <1>1, <1>6, <1>7, <1>9, <2>1, <3>2 DEF HoldInv, HeldCurrent, TypeOK
    <3>. QED BY <3>1, <3>2
  <2>2. ASSUME NEW o \in Sessions, NEW u \in Tasks, held'[o] = u PROVE status'[u] # "READY"
    <3>1. CASE o = s
      BY <1>8, <2>2, <3>1
    <3>2. CASE o # s
      BY <1>6, <1>7, <1>9, <2>2, <3>2 DEF HoldInv, HeldCurrent
    <3>. QED BY <3>1, <3>2
  <2>. QED BY <2>1, <2>2 DEF HeldCurrent
<1>11. CloseWritten'
  <2>. SUFFICES ASSUME NEW o \in Sessions, closing[o] # None
                PROVE  LET c == closing[o]
                       IN  /\ c.epoch <= epoch'[c.task]
                           /\ CloseStill(o, c)' => status'[c.task] = c.status /\ phase'[o] = "active"
    BY <1>4 DEF CloseWritten
  <2>. DEFINE c == closing[o]
  <2>1. c.task \in Tasks /\ c.epoch \in Epoch /\ c.epoch <= epoch[c.task]
    BY <1>1 DEF TypeOK, Closing, HoldInv, CloseWritten
  <2>2. CloseStill(o, c) => status[c.task] = c.status /\ phase[o] = "active"
    BY DEF HoldInv, CloseWritten
  <2>3. CloseStill(o, c)' <=> held'[o] = c.task /\ leased'[o] = c.epoch
    BY <1>4 DEF CloseStill
  <2>. HIDE DEF c
  <2>4. c.epoch <= epoch'[c.task]
    BY <1>8, <1>9, <2>1 DEF Epoch
  <2>5. CASE o = s
    <3>1. ~CloseStill(o, c)'
      BY <1>8, <2>1, <2>3, <2>5 DEF Epoch
    <3>. QED BY <2>4, <3>1 DEF c
  <2>6. CASE o # s
    <3>1. CloseStill(o, c)' => status'[c.task] = c.status /\ phase'[o] = "active"
      BY <1>6, <1>7, <1>9, <2>1, <2>2, <2>3, <2>6 DEF CloseStill
    <3>. QED BY <2>4, <3>1 DEF c
  <2>. QED BY <2>5, <2>6
<1>12. LockedForTask'
  <2>. SUFFICES ASSUME NEW o \in Sessions, NEW u \in Tasks, Live(o), Holds(o, u)',
                       status'[u] = "IN_PROGRESS"
                PROVE  lockTask'[slotOf[o]] = u
    BY <1>4 DEF LockedForTask, Live
  <2>1. CASE o = s
    BY <1>1, <1>2, <1>4, <1>8, <2>1 DEF Holds, TypeOK
  <2>2. CASE o # s
    <3>1. u # t /\ Holds(o, u) /\ status[u] = "IN_PROGRESS"
      BY <1>6, <1>7, <1>9, <2>2 DEF Holds
    <3>2. lockTask[slotOf[o]] = u
      BY <3>1 DEF HoldInv, LockedForTask
    <3>3. slotOf[o] # slotOf[s]
      BY <1>3, <3>2
    <3>. QED BY <1>1, <1>4, <3>2, <3>3 DEF TypeOK
  <2>. QED BY <2>1, <2>2
<1>13. JobsCurrent'
  <2>1. \A j \in jobs : /\ j.session \in Sessions /\ j.task \in Tasks /\ j.epoch \in Nat
                        /\ j.epoch <= epoch[j.task]
    BY <1>1, JobFields DEF HoldInv, JobsCurrent, Epoch
  <2>2. \A j \in jobs : j.task = t => j.epoch # epoch[t] + 1
    BY <1>8, <2>1
  <2>3. \A j, i \in jobs' : j.session = i.session /\ j.task = i.task /\ j.epoch = i.epoch => j = i
    BY <1>4, <1>5, <2>2 DEF HoldInv, JobsCurrent
  <2>4. ASSUME NEW j \in jobs'
        PROVE  /\ j.epoch <= epoch'[j.task]
               /\ held'[j.session] = j.task /\ leased'[j.session] = j.epoch =>
                     phase'[j.session] = "preparing" /\ j.step # "quarantining"
    <3>1. CASE j = k
      BY <1>5, <1>8, <3>1
    <3>2. CASE j \in jobs
      <4>1. j.epoch <= epoch'[j.task]
        BY <1>8, <1>9, <2>1, <3>2
      <4>2. CASE j.session = s
        BY <1>8, <2>2, <3>2, <4>1, <4>2
      <4>3. CASE j.session # s
        BY <1>7, <2>1, <3>2, <4>1, <4>3 DEF HoldInv, JobsCurrent, SessionStill
      <4>. QED BY <4>2, <4>3
    <3>. QED BY <1>4, <3>1, <3>2
  <2>. QED BY <2>3, <2>4 DEF JobsCurrent, SessionStill
<1>14. LivePreparation'
  <2>. SUFFICES ASSUME NEW o \in Sessions, Live(o)
                PROVE  /\ phase'[o] = "preparing" => status'[held'[o]] = "IN_PROGRESS"
                       /\ current'[agentOf[o]] \in {None, held'[o]}
    BY <1>4 DEF LivePreparation, Live
  <2>1. CASE o = s
    BY <1>1, <1>2, <1>4, <1>8, <2>1 DEF TypeOK
  <2>2. CASE o # s
    <3>1. agentOf[o] # agentOf[s]
      BY <1>1, <2>2 DEF HoldInv, LockInv, BindingInv, AgentOnce
    <3>2. current'[agentOf[o]] = current[agentOf[o]]
      BY <1>1, <1>4, <3>1 DEF HoldInv, LockInv, BindingInv, Launched, Live, TypeOK
    <3>3. phase[o] = "preparing" => held[o] \in Tasks \ {t}
      BY <1>1, <1>6 DEF HoldInv, LockInv, BindingInv, HoldPhase, TypeOK
    <3>. QED BY <1>7, <1>9, <2>2, <3>2, <3>3 DEF HoldInv, LivePreparation
  <2>. QED BY <2>1, <2>2
<1>. QED BY <1>10, <1>11, <1>12, <1>13, <1>14 DEF HoldInv

LEMMA YieldsHold ==
    ASSUME HoldInv, LockInv', Yields, HoldEffects, Final
    PROVE  HoldInv'
<1>. USE NoneAssumption
<1>1. TypeOK /\ UNCHANGED <<epoch, agentOf, slotOf>> /\ StatusMoves
  BY DEF HoldInv, LockInv, BindingInv, LeaseInv, Yields, HoldEffects
<1>2. \A s \in Sessions : held'[s] # None => held'[s] = held[s] /\ leased'[s] = leased[s]
                                              /\ (phase'[s] = None <=> phase[s] = None)
  BY DEF Yields, KeepsHold, DropsHold
<1>3. \A s \in Sessions : Live(s)' => Live(s)
  BY DEF Yields, Live
<1>4. HeldCurrent'
  <2>1. ASSUME NEW s \in Sessions, held'[s] # None PROVE leased'[s] = epoch'[held'[s]]
    BY <1>1, <1>2, <2>1 DEF HoldInv, HeldCurrent
  <2>2. ASSUME NEW s \in Sessions, NEW t \in Tasks, held'[s] = t PROVE status'[t] # "READY"
    <3>1. status[t] # "READY"
      BY <1>2, <2>2 DEF HoldInv, HeldCurrent
    <3>2. ASSUME NEW o \in Sessions, NEW st \in Verdicts, CloseTransition(o, t, st)
          PROVE  status'[t] # "READY"
      BY <1>1, <3>2 DEF CloseTransition, Verdicts, Final, TypeOK
    <3>. QED BY <1>1, <2>2, <3>1, <3>2 DEF StatusMoves
  <2>. QED BY <2>1, <2>2 DEF HeldCurrent
<1>5. CloseWritten'
  <2>. SUFFICES ASSUME NEW s \in Sessions, closing'[s] # None
                PROVE  /\ closing'[s].epoch <= epoch[closing'[s].task]
                       /\ CloseStill(s, closing[s])' =>
                             status'[closing'[s].task] = closing'[s].status /\ phase'[s] = "active"
    BY <1>1 DEF CloseWritten
  <2>1. CASE /\ closing[s] # None
             /\ closing'[s].task = closing[s].task /\ closing'[s].epoch = closing[s].epoch
             /\ closing'[s].status = closing[s].status
    <3>. DEFINE c == closing[s]
    <3>1. c.epoch <= epoch[c.task] /\ c.task \in Tasks /\ c.status # "IN_PROGRESS"
      BY <1>1, <2>1 DEF HoldInv, CloseWritten, TypeOK, Closing, LockInv, BindingInv, Assignment
    <3>2. ASSUME CloseStill(s, closing[s])'
          PROVE  status'[c.task] = c.status /\ phase'[s] = "active"
      <4>1. held'[s] = c.task /\ held[s] = c.task /\ leased[s] = c.epoch /\ phase'[s] # None
        BY <1>2, <2>1, <3>1, <3>2 DEF CloseStill, LockInv, BindingInv, HoldPhase
      <4>2. status[c.task] = c.status /\ phase[s] = "active"
        BY <2>1, <4>1 DEF HoldInv, CloseWritten, CloseStill
      <4>3. status'[c.task] = status[c.task]
        BY <1>1, <3>1, <4>1, <4>2 DEF StatusMoves, CloseTransition
      <4>. QED BY <4>1, <4>2, <4>3 DEF HoldEffects, PhaseFrom
    <3>. QED BY <2>1, <3>1, <3>2
  <2>2. ASSUME NEW t \in Tasks, NEW st \in Verdicts, CloseTransition(s, t, st)
        PROVE  /\ closing'[s].epoch <= epoch[closing'[s].task]
               /\ status'[closing'[s].task] = closing'[s].status /\ phase'[s] = "active"
    <3>1. closing[s] = None /\ phase[s] = "active" /\ UNCHANGED phase
      BY <2>2 DEF CloseTransition, sessionVars
    <3>2. closing' = [closing EXCEPT ![s] = [task |-> t, epoch |-> epoch[t], status |-> st,
                                            stage |-> "accepted"]]
      BY <2>2, <3>1 DEF CloseTransition
    <3>3. closing'[s].task = t /\ closing'[s].epoch = epoch[t] /\ closing'[s].status = st
      BY <1>1, <3>2 DEF TypeOK
    <3>4. status'[t] = st /\ epoch[t] \in Nat
      BY <1>1, <2>2 DEF CloseTransition, TypeOK, Epoch
    <3>. QED BY <3>1, <3>3, <3>4
  <2>. QED BY <2>1, <2>2 DEF HoldEffects, ClosesFrom
<1>6. LockedForTask'
  <2>. SUFFICES ASSUME NEW s \in Sessions, NEW t \in Tasks, Live(s)', Holds(s, t)',
                       status'[t] = "IN_PROGRESS"
                PROVE  lockTask'[slotOf[s]] = t
    BY <1>1 DEF LockedForTask
  <2>1. Live(s) /\ Holds(s, t) /\ held'[s] = held[s] /\ status[t] = "IN_PROGRESS"
    BY <1>1, <1>2, <1>3 DEF Holds, Yields
  <2>2. lockTask[slotOf[s]] = t /\ Needs(s)
    BY <2>1 DEF HoldInv, LockedForTask, Needs, Holds
  <2>. QED BY <2>1, <2>2 DEF HoldEffects, TaskLocksKept, Holds
<1>7. LivePreparation'
  <2>1. ASSUME NEW s \in Sessions, Live(s)', phase'[s] = "preparing"
        PROVE  status'[held'[s]] = "IN_PROGRESS"
    <3>1. held'[s] # None /\ held'[s] = held[s] /\ held[s] \in Tasks /\ Live(s)
      BY <1>1, <1>2, <1>3, <2>1 DEF LockInv, BindingInv, HoldPhase, TypeOK
    <3>2. phase[s] = "preparing" /\ status[held[s]] = "IN_PROGRESS"
      BY <2>1, <3>1 DEF HoldEffects, PhaseFrom, HoldInv, LivePreparation
    <3>3. ASSUME NEW o \in Sessions, NEW st, CloseTransition(o, held[s], st) PROVE FALSE
      BY <3>1, <3>2, <3>3, SoleHolder DEF CloseTransition
    <3>. QED BY <1>1, <3>1, <3>2, <3>3 DEF StatusMoves
  <2>. QED BY <1>1, <2>1 DEF LivePreparation, HoldEffects, Pinned
<1>. QED BY <1>4, <1>5, <1>6, <1>7 DEF HoldInv, HoldEffects

LEMMA InitHold == Init => HoldInv
<1>. SUFFICES ASSUME Init PROVE HoldInv
  OBVIOUS
<1>. QED BY InitLock, NoneAssumption DEF Init, HoldInv, HeldCurrent, CloseWritten, LockedForTask,
            JobsCurrent, LivePreparation, Holds, Live

LEMMA NextHold == HoldInv /\ Final /\ [Next]_vars => HoldInv'
<1>. SUFFICES ASSUME HoldInv, Final, [Next]_vars PROVE HoldInv'
  OBVIOUS
<1>1. LockInv' /\ BindingInv'
  BY HoldOwners, NextLock DEF HoldInv, LockInv
<1>. QED BY <1>1, NextHolds, LaunchHold, ClaimHold, YieldsHold

-----------------------------------------------------------------------------
\* The theorems

\* Where a closed task does not come back, every hold is the current lease of its
\* task, backed by its slot, its agent and at most one preparation.
THEOREM HoldInvariant == ASSUME Final PROVE Spec => []HoldInv
<1>1. HoldInv /\ [Next]_vars => HoldInv'
  BY NextHold
<1>. QED BY <1>1, InitHold, PTL DEF Spec

\* No branch has an owner row, no slot is condemned, or no closed task comes back:
\* each keeps the owner-recovery sweep, which takes no task control lock, away from
\* the slot of a preparation that has yet to condemn it.
Contained == Managed = {} \/ ~Quarantines \/ Final

\* Slot, agent and owner row belong to one session, the one that still needs them.
THEOREM LockInvariant == ASSUME Contained PROVE Spec => []LockInv
<1>1. CASE Final
  <2>1. HoldInv => LockInv
    BY DEF HoldInv
  <2>. QED BY <1>1, <2>1, HoldInvariant, PTL
<1>2. CASE Managed = {} \/ ~Quarantines
  <2>1. LockInv => OwnersCurrent
    BY <1>2 DEF LockInv, OwnerHolds, OwnersCurrent, Condemning
  <2>2. LockInv /\ [Next]_vars => LockInv'
    BY <2>1, NextLock
  <2>. QED BY <2>2, InitLock, PTL DEF Spec
<1>. QED BY <1>1, <1>2 DEF Contained

\* A session that is to keep running and holds nothing has an idle agent and a slot
\* that is its own and free, whatever ended its last claim and whoever used its agent
\* before: it can claim.
THEOREM FreeSessionClaims == ASSUME Contained PROVE Spec => []FreeSessionCanClaim
<1>1. LockInv => FreeSessionCanClaim
  BY DEF LockInv, BindingInv, IdleWhenFree, SlotKept, Needs, FreeSessionCanClaim
<1>. QED BY <1>1, LockInvariant, PTL

\* An active holder's claim file is its own or is gone: nobody else's preparation
\* writes into its slot, and no other file survives the activation.
THEOREM ClaimFileOwn == ASSUME Contained PROVE Spec => []ClaimFileNotForeign
<1>1. LockInv => ClaimFileNotForeign
  BY DEF LockInv
<1>. QED BY <1>1, LockInvariant, PTL

\* The part of HolderBacked that also holds where a closed task comes back: nobody takes
\* the slot of a running task's holder from its agent, or locks it for another task.
HolderSeated ==
    \A s \in Sessions, t \in Tasks :
        Live(s) /\ Holds(s, t) /\ status[t] = "IN_PROGRESS" =>
            /\ assigned[t] = agentOf[s]
            /\ lockAgent[slotOf[s]] = agentOf[s] /\ lockTask[slotOf[s]] \in {None, t}

\* The holder of a running task's current lease is the session of the assigned agent,
\* and keeps its slot, whatever late releases there are of claims that were closed
\* before.
THEOREM HolderKeepsSlot == ASSUME Contained PROVE Spec => []HolderSeated
<1>1. LockInv => HolderSeated
  BY NoneAssumption DEF LockInv, BindingInv, Assignment, SlotKept, Needs, Holds, HolderSeated
<1>. QED BY <1>1, LockInvariant, PTL

\* The holder of a running task's current lease is the session of the assigned agent,
\* and its slot is locked for exactly this pair.
THEOREM HolderIsBacked == ASSUME Final PROVE Spec => []HolderBacked
<1>1. HoldInv => HolderBacked
  <2>. SUFFICES ASSUME HoldInv, NEW s \in Sessions, NEW t \in Tasks,
                       Live(s), Holds(s, t), status[t] = "IN_PROGRESS"
                PROVE  /\ assigned[t] = agentOf[s]
                       /\ lockAgent[slotOf[s]] = agentOf[s] /\ lockTask[slotOf[s]] = t
    BY DEF HolderBacked
  <2>1. Needs(s)
    BY NoneAssumption DEF Needs, Holds
  <2>. QED BY <2>1 DEF HoldInv, LockedForTask, LockInv, SlotKept, BindingInv, Assignment
<1>. QED BY <1>1, HoldInvariant, PTL

\* A claim takes a task that nobody holds, a launch none.
LEMMA GrantsKeepTasks ==
    ASSUME HoldInv, NEW s \in Sessions,
           \/ \E a \in Agents, w \in Workspaces : Launch(s, a, w)
           \/ \E t \in Tasks : ClaimTask(s, t)
    PROVE  /\ \A t \in Tasks : status'[t] = status[t] \/ status'[t] = "IN_PROGRESS"
           /\ \A o \in Sessions : held[o] # None => held'[o] = held[o] /\ o # s
           /\ \A w \in Workspaces : lockTask[w] # None => lockTask'[w] = lockTask[w]
<1>. USE NoneAssumption
<1>1. TypeOK
  BY DEF HoldInv, LockInv, BindingInv, LeaseInv
<1>2. ASSUME NEW a \in Agents, NEW w \in Workspaces, Launch(s, a, w)
      PROVE  /\ UNCHANGED <<status, held, lockTask>> /\ held[s] = None
  BY <1>2 DEF Launch, taskVars, HoldInv, LockInv, BindingInv, Launched
<1>3. ASSUME NEW t \in Tasks, ClaimTask(s, t)
      PROVE  /\ \A u \in Tasks : status'[u] = status[u] \/ status'[u] = "IN_PROGRESS"
             /\ \A o \in Sessions : held[o] # None => held'[o] = held[o] /\ o # s
             /\ \A w \in Workspaces : lockTask[w] # None => lockTask'[w] = lockTask[w]
  <2>1. held[s] = None /\ Needs(s)
    BY <1>3 DEF ClaimTask, SlotFree, Needs
  <2>2. lockTask[slotOf[s]] = None
    BY <2>1 DEF HoldInv, LockInv, SlotKept
  <2>3. \E x : lockTask' = [lockTask EXCEPT ![slotOf[s]] = x]
    BY <1>3 DEF ClaimTask
  <2>4. \A w \in Workspaces : lockTask[w] # None => lockTask'[w] = lockTask[w]
    BY <1>1, <2>2, <2>3 DEF TypeOK
  <2>5. held' = [held EXCEPT ![s] = t] /\ status' = [status EXCEPT ![t] = "IN_PROGRESS"]
    BY <1>3 DEF ClaimTask
  <2>. QED BY <1>1, <2>1, <2>4, <2>5 DEF TypeOK
<1>. QED BY <1>2, <1>3

\* A running task leaves IN_PROGRESS only as its current holder lets go of it, closes
\* it, or hands its branch off: no late release of an earlier claim takes it away.  And
\* no timeout, sweep or late preparation ends a claim that is active in a session that
\* is to run on.
THEOREM LeaseEndsWithHolder == ASSUME Final PROVE Spec => OnlyHolderEndsLease
<1>1. ASSUME HoldInv, [Next]_vars, NEW s \in Sessions, NEW t \in Tasks,
             Live(s), Holds(s, t), status[t] = "IN_PROGRESS",
             status'[t] # "IN_PROGRESS" \/ held'[s] # t
      PROVE  \/ closing'[s] # closing[s] \/ owner[t] = s
             \/ /\ held'[s] # t
                /\ phase[s] = "active" /\ desired[s] = "running" =>
                      ~Live(s)' \/ ~enabled'[slotOf[s]]
  <2>1. BindingInv'
    BY <1>1, NextBinding DEF HoldInv, LockInv
  <2>2. CASE \E o \in Sessions : \/ \E a \in Agents, w \in Workspaces : Launch(o, a, w)
                                 \/ \E u \in Tasks : ClaimTask(o, u)
    BY <1>1, <2>2, GrantsKeepTasks, NoneAssumption DEF Holds
  <2>3. CASE StatusMoves /\ ActiveKept
    <3>1. ASSUME NEW o \in Sessions, NEW st \in Verdicts, CloseTransition(o, t, st)
          PROVE  closing'[s] # closing[s] \/ owner[t] = s
      <4>1. o = s
        BY <1>1, <3>1, SoleHolder, NoneAssumption DEF CloseTransition, Holds
      <4>2. closing[s] = None /\ (owner[t] = s \/ closing' = [closing EXCEPT ![s] =
               [task |-> t, epoch |-> epoch[t], status |-> st, stage |-> "accepted"]])
        BY <3>1, <4>1 DEF CloseTransition
      <4>3. [task |-> t, epoch |-> epoch[t], status |-> st, stage |-> "accepted"] # None
        <5>1. epoch[t] \in Epoch /\ st \in TaskStatus
          BY <1>1 DEF HoldInv, LockInv, BindingInv, LeaseInv, TypeOK, Verdicts, TaskStatus
        <5>. QED BY <5>1, RowAssumption DEF Closing
      <4>. QED BY <1>1, <4>2, <4>3 DEF HoldInv, LockInv, BindingInv, LeaseInv, TypeOK
    <3>2. held'[s] # t \/ closing'[s] # closing[s] \/ owner[t] = s
      BY <1>1, <2>3, <3>1 DEF StatusMoves
    <3>3. held'[s] # t /\ phase[s] = "active" /\ desired[s] = "running" =>
             ~Live(s)' \/ ~enabled'[slotOf[s]]
      BY <1>1, <2>3 DEF ActiveKept, Holds
    <3>. QED BY <3>2, <3>3
  <2>. QED BY <1>1, <2>1, <2>2, <2>3, NextHolds DEF HoldEffects
<1>2. HoldInv /\ [Next]_vars =>
        [\A s \in Sessions, t \in Tasks :
            Live(s) /\ Holds(s, t) /\ status[t] = "IN_PROGRESS" =>
              /\ status'[t] # "IN_PROGRESS" =>
                    held'[s] # t \/ closing'[s] # closing[s] \/ owner[t] = s
              /\ phase[s] = "active" /\ desired[s] = "running" =>
                    \/ status'[t] = "IN_PROGRESS" /\ held'[s] = t
                    \/ closing'[s] # closing[s] \/ owner[t] = s
                    \/ ~Live(s)' \/ ~enabled'[slotOf[s]]]_vars
  BY <1>1
<1>. QED BY <1>2, HoldInvariant, PTL DEF Spec, OnlyHolderEndsLease

\* A task is completed only by the close of the live session with its current lease.
THEOREM CompletionByHolder == ASSUME Final PROVE Spec => CompletedByItsHolder
<1>1. ASSUME HoldInv, [Next]_vars, NEW t \in Tasks,
             status[t] # "COMPLETED", status'[t] = "COMPLETED"
      PROVE  \E s \in Sessions :
                Live(s) /\ Holds(s, t) /\ phase[s] = "active" /\ closing[s] = None
  <2>1. BindingInv'
    BY <1>1, NextBinding DEF HoldInv, LockInv
  <2>2. StatusMoves
    BY <1>1, <2>1, NextHolds, GrantsKeepTasks DEF HoldEffects
  <2>3. PICK s \in Sessions, st \in Verdicts : CloseTransition(s, t, st)
    BY <1>1, <2>2 DEF StatusMoves
  <2>4. Live(s) /\ held[s] = t /\ phase[s] = "active" /\ closing[s] = None
    BY <2>3 DEF CloseTransition
  <2>5. leased[s] = epoch[t]
    BY <1>1, <2>4, NoneAssumption DEF HoldInv, HeldCurrent
  <2>. QED BY <2>4, <2>5, NoneAssumption DEF Holds
<1>2. HoldInv /\ [Next]_vars =>
        [\A t \in Tasks : status[t] # "COMPLETED" /\ status'[t] = "COMPLETED" =>
            \E s \in Sessions :
               Live(s) /\ Holds(s, t) /\ phase[s] = "active" /\ closing[s] = None]_vars
  BY <1>1
<1>. QED BY <1>2, HoldInvariant, PTL DEF Spec, CompletedByItsHolder

\* While an owner row stays attached to a session, no end of its task, process or
\* daemon takes its hold or its slot's task lock away.
THEOREM AttachedKept == ASSUME Final PROVE Spec => AttachedWriterKept
<1>1. ASSUME HoldInv, [Next]_vars, NEW s \in Sessions, NEW t \in Tasks,
             owner[t] = s, owner'[t] = s
      PROVE  /\ held[s] = t => held'[s] = t
             /\ lockTask[slotOf[s]] = t => lockTask'[slotOf[s]] = t
  <2>. USE NoneAssumption
  <2>1. BindingInv' /\ TypeOK'
    BY <1>1, NextBinding DEF HoldInv, LockInv, BindingInv, LeaseInv
  <2>2. held[s] = t /\ Needs(s) /\ slotOf[s] \in Workspaces
    BY <1>1, NeedsBound DEF HoldInv, LockInv, OwnerHolds, Needs, Rooted
  <2>3. CASE \E o \in Sessions : \/ \E a \in Agents, w \in Workspaces : Launch(o, a, w)
                                 \/ \E u \in Tasks : ClaimTask(o, u)
    BY <1>1, <2>2, <2>3, GrantsKeepTasks
  <2>4. CASE OwnersFrom /\ HoldEffects
    <3>1. held'[s] = t
      BY <1>1, <2>2, <2>4 DEF OwnersFrom
    <3>. QED BY <2>2, <2>4, <3>1 DEF HoldEffects, TaskLocksKept
  <2>. QED BY <1>1, <2>1, <2>3, <2>4, NextHolds, NextKeeps, HoldOwners DEF HoldInv
<1>2. HoldInv /\ [Next]_vars =>
        [\A s \in Sessions, t \in Tasks : owner[t] = s /\ owner'[t] = s =>
            /\ held[s] = t => held'[s] = t
            /\ lockTask[slotOf[s]] = t => lockTask'[slotOf[s]] = t]_vars
  BY <1>1
<1>. QED BY <1>2, HoldInvariant, PTL DEF Spec, AttachedWriterKept
=============================================================================
