--------------------------- MODULE BindingProofs ---------------------------
(***************************************************************************)
(* What keeps a slot from being stranded, for every value of the           *)
(* constants.  Only a launch binds an agent and a slot, and only a claim   *)
(* grants a task; Yields says what any other step does to the bindings:    *)
(* it gives up, and a session that gives up its hold gives up the task     *)
(* lock that its agent has for it.                                         *)
(***************************************************************************)
EXTENDS ClaimInvariant, ClaimProofs

\* A session keeps its hold as it is, or is unbound and its agent's locks for the
\* held task are given back; but for a displaced hold, which answers no lock.
KeepsHold(s) ==
    held'[s] = held[s] /\ leased'[s] = leased[s] /\ (phase'[s] = None <=> phase[s] = None)
DropsHold(s) ==
    /\ held'[s] = None /\ phase'[s] = None /\ ~RowLocked(s)
    /\ \/ \A w \in Workspaces :
             lockAgent[w] = agentOf[s] /\ lockTask[w] = held[s] => lockTask'[w] = None
       \/ /\ desired[s] = "stopped"
          /\ assigned[held[s]] = agentOf[s] /\ leased[s] # epoch[held[s]]

\* A session that may claim afterwards could before, with the same agent row, or its
\* agent is idle now.
KeepsIdle(s) ==
    Live(s) /\ desired'[s] = "running" /\ sstate'[s] = "running" /\ held'[s] = None =>
        \/ astate'[agentOf[s]] = "IDLE" /\ current'[agentOf[s]] = None
        \/ /\ held[s] = None
           /\ astate'[agentOf[s]] = astate[agentOf[s]]
           /\ current'[agentOf[s]] = current[agentOf[s]]

Yields ==
    /\ UNCHANGED <<epoch, agentOf, slotOf>>
    /\ \A s \in Sessions :
          /\ sstate'[s] = sstate[s] \/ (Live(s) /\ sstate'[s] = "stopped" /\ ~RowLocked(s))
          /\ desired'[s] \in {desired[s], "stopped"}
          /\ KeepsHold(s) \/ DropsHold(s)
          /\ KeepsIdle(s)
    /\ \A t \in Tasks :
          \/ status'[t] = status[t] /\ assigned'[t] = assigned[t]
          \/ status'[t] # "IN_PROGRESS" /\ assigned'[t] = None
    /\ \A w \in Workspaces :
          /\ lockTask'[w] \in {lockTask[w], None}
          /\ \/ lockAgent'[w] = lockAgent[w]
             \/ lockAgent'[w] = None /\ lockTask'[w] = None

-----------------------------------------------------------------------------
\* Every step but a launch and a claim yields

\* The columns the bindings are made of.
boundVars == <<status, epoch, assigned, sstate, held, phase, leased, agentOf, slotOf,
               astate, current, lockAgent, lockTask>>

\* A session row written in its desired state only, to "stopped".
Drains == \A s \in Sessions : desired'[s] \in {desired[s], "stopped"}

LEMMA QuietYields ==
    ASSUME BindingInv, UNCHANGED boundVars, Drains
    PROVE  Yields
BY DEF Yields, KeepsHold, KeepsIdle, boundVars, Drains

\* A release's effect on the bindings.
LEMMA ReleaseYields ==
    ASSUME BindingInv, NEW s \in Sessions, NEW target \in TaskStatus \ {"IN_PROGRESS"},
           NEW fence, NEW opt, Release(s, target, fence, opt), ~RowLocked(s),
           opt.retire => desired[s] = "stopped" /\ Live(s)
    PROVE  Yields
<1>. USE NoneAssumption
<1>1. TypeOK
  BY DEF BindingInv, LeaseInv
<1>2. UNCHANGED <<epoch, agentOf, slotOf, sstate>>
  BY DEF Release, launchVars
<1>3. ASSUME NEW o \in Sessions
      PROVE  desired'[o] \in {desired[o], "stopped"} /\ (KeepsHold(o) \/ DropsHold(o))
  <2>1. desired'[o] \in {desired[o], "stopped"}
    BY <1>1 DEF Release, TypeOK
  <2>2. CASE o # s
    BY <1>1, <2>1, <2>2 DEF Release, TypeOK, KeepsHold
  <2>3. CASE o = s
    <3>1. held'[s] = None /\ phase'[s] = None
      BY <1>1 DEF Release, TypeOK
    <3>2. \A w \in Workspaces :
             lockAgent[w] = agentOf[s] /\ lockTask[w] = held[s] => lockTask'[w] = None
      BY DEF Release, ReleasedSlot
    <3>. QED BY <2>1, <2>3, <3>1, <3>2 DEF DropsHold
  <2>. QED BY <2>1, <2>2, <2>3
<1>4. ASSUME NEW o \in Sessions PROVE KeepsIdle(o)
  <2>. SUFFICES ASSUME Live(o), desired'[o] = "running", held'[o] = None
                PROVE  \/ astate'[agentOf[o]] = "IDLE" /\ current'[agentOf[o]] = None
                       \/ /\ held[o] = None
                          /\ astate'[agentOf[o]] = astate[agentOf[o]]
                          /\ current'[agentOf[o]] = current[agentOf[o]]
    BY DEF KeepsIdle
  <2>1. agentOf[o] \in Agents
    BY <1>1 DEF BindingInv, Launched, TypeOK, Live
  <2>2. CASE agentOf[o] = agentOf[s]
    <3>1. ~opt.retire
      <4>1. desired[o] = "running"
        BY <1>3, <1>1 DEF TypeOK
      <4>2. Live(s) => o = s
        BY <2>2 DEF BindingInv, AgentOnce
      <4>. QED BY <4>1, <4>2
    <3>. QED BY <1>1, <2>1, <2>2, <3>1 DEF Release, TypeOK
  <2>3. CASE agentOf[o] # agentOf[s]
    BY <1>1, <2>1, <2>3 DEF Release, TypeOK
  <2>. QED BY <2>2, <2>3
<1>5. ASSUME NEW t \in Tasks
      PROVE  \/ status'[t] = status[t] /\ assigned'[t] = assigned[t]
             \/ status'[t] # "IN_PROGRESS" /\ assigned'[t] = None
  BY <1>1 DEF Release, RequeuedMatches, TypeOK
<1>6. ASSUME NEW w \in Workspaces
      PROVE  /\ lockTask'[w] \in {lockTask[w], None}
             /\ \/ lockAgent'[w] = lockAgent[w]
                \/ lockAgent'[w] = None /\ lockTask'[w] = None
  BY DEF Release
<1>. QED BY <1>2, <1>3, <1>4, <1>5, <1>6 DEF Yields

\* Every row is as it was.
LEMMA SkipQuiet ==
    ASSUME UNCHANGED <<taskVars, sessionVars, launchVars, agentVars, lockVars>>
    PROVE  UNCHANGED boundVars /\ Drains
BY DEF taskVars, sessionVars, launchVars, agentVars, lockVars, boundVars, Drains

\* The claim command's other answers, and the session's drains.
LEMMA AnswerYields ==
    ASSUME BindingInv, NEW s \in Sessions,
           \/ ClaimOnRetiredSlot(s) \/ ClaimExhausted(s) \/ RequestDrain(s)
           \/ \E t \in Tasks : ResumePreparation(s, t) \/ RecoverStaleBinding(s, t)
    PROVE  Yields
<1>. USE NoneAssumption
<1>1. TypeOK
  BY DEF BindingInv, LeaseInv
<1>2. CASE \/ ClaimOnRetiredSlot(s) \/ ClaimExhausted(s) \/ RequestDrain(s)
           \/ \E t \in Tasks : ResumePreparation(s, t)
  <2>1. UNCHANGED boundVars /\ Drains
    BY <1>1, <1>2 DEF ClaimOnRetiredSlot, ClaimExhausted, RequestDrain, ResumePreparation,
       boundVars, Drains, taskVars, sessionVars, launchVars, agentVars, lockVars, TypeOK
  <2>. QED BY <2>1, QuietYields
<1>3. ASSUME NEW t \in Tasks, RecoverStaleBinding(s, t) PROVE Yields
  <2>1. CASE Release(s, status[t], Fence(status[t], epoch[t]), Ordinary)
             /\ ~(status[t] = "IN_PROGRESS" /\ assigned[t] \notin {None, agentOf[s]})
    <3>1. status[t] \in TaskStatus \ {"IN_PROGRESS"}
      BY <1>1, <1>3, <2>1 DEF RecoverStaleBinding, StaleBinding, BindingInv, Assignment, TypeOK
    <3>2. ~RowLocked(s) /\ ~Ordinary.retire
      BY <1>3 DEF RecoverStaleBinding, Ordinary
    <3>. QED BY <2>1, <3>1, <3>2, ReleaseYields
  <2>2. CASE /\ desired' = [desired EXCEPT ![s] = "stopped"]
             /\ UNCHANGED <<taskVars, owner, sstate, held, phase, leased, claims,
                            launchVars, agentVars, lockVars, marker>>
    <3>1. UNCHANGED boundVars /\ Drains
      BY <1>1, <2>2 DEF boundVars, Drains, taskVars, launchVars, agentVars, lockVars, TypeOK
    <3>. QED BY <3>1, QuietYields
  <2>. QED BY <1>3, <2>1, <2>2 DEF RecoverStaleBinding
<1>. QED BY <1>2, <1>3

\* The preparation job.
LEMMA JobYields ==
    ASSUME BindingInv, NEW j \in jobs, JobStepOf(j) \/ JobFault(j)
    PROVE  Yields
<1>. USE NoneAssumption
<1>1. TypeOK /\ j.session \in Sessions
  BY JobFields DEF BindingInv, LeaseInv
<1>2. CASE \/ JobFence(j) \/ JobAttach(j) \/ JobProve(j) \/ JobMark(j)
           \/ JobFoundBlocked(j) \/ JobFoundReleased(j) \/ JobCheck(j)
           \/ JobDetach(j) \/ JobRetainAttached(j) \/ JobDisableSlot(j)
           \/ JobError(j) \/ JobRetain(j) \/ JobInterrupt(j)
  <2>1. UNCHANGED <<taskVars, sessionVars, launchVars, agentVars, lockVars>>
    BY <1>2 DEF JobFence, JobAttach, JobProve, JobMark, JobFoundBlocked, JobFoundReleased,
       JobCheck, JobDetach, JobRetainAttached, JobDisableSlot, JobError, JobRetain,
       JobInterrupt, tableVars
  <2>. QED BY <2>1, SkipQuiet, QuietYields
<1>3. CASE \/ JobRelease(j) \/ JobCondemnSlot(j) \/ JobEvict(j)
           \/ JobRecheckRelease(j) \/ JobSettle(j)
  <2>1. \/ UNCHANGED <<taskVars, sessionVars, launchVars, agentVars, lockVars>>
        \/ \E target \in TaskStatus \ {"IN_PROGRESS"} : \E fence, opt :
              Release(j.session, target, fence, opt) /\ ~RowLocked(j.session) /\ ~opt.retire
    <3>1. CASE JobRelease(j)
      <4>1. PICK drain \in BOOLEAN, o \in FailureOutcomes(j) :
               ReleaseOrSkip(j, o.target, NoFence,
                             [Ordinary EXCEPT !.backoff = o.backoff, !.drain = drain])
        BY <3>1 DEF JobRelease
      <4>2. o.target \in TaskStatus \ {"IN_PROGRESS"}
        BY DEF FailureOutcomes, LadderTarget, TaskStatus
      <4>3. ~[Ordinary EXCEPT !.backoff = o.backoff, !.drain = drain].retire
        BY DEF Ordinary
      <4>. QED BY <3>1, <4>1, <4>2, <4>3 DEF JobRelease, Failing, ReleaseOrSkip, taskVars
    <3>2. CASE JobCondemnSlot(j)
      <4>1. ~Condemned.retire /\ LadderTarget(j.task) \in TaskStatus \ {"IN_PROGRESS"}
        BY DEF Condemned, Ordinary, LadderTarget, TaskStatus
      <4>. QED BY <3>2, <4>1 DEF JobCondemnSlot, Failing
    <3>3. CASE JobEvict(j)
      BY <3>3 DEF JobEvict, TaskStatus, Ordinary
    <3>4. CASE JobRecheckRelease(j)
      BY <3>4 DEF JobRecheckRelease, ReleaseOrSkip, TaskStatus, Ordinary, taskVars
    <3>5. CASE JobSettle(j)
      BY <3>5 DEF JobSettle, TaskStatus, Ordinary
    <3>. QED BY <1>3, <3>1, <3>2, <3>3, <3>4, <3>5
  <2>. QED BY <1>1, <2>1, SkipQuiet, QuietYields, ReleaseYields
<1>4. CASE JobActivate(j)
  <2>1. held[j.session] = j.task /\ leased[j.session] = j.epoch /\ phase[j.session] # None
    BY <1>4 DEF JobActivate, BindingInv, LeaseInv, LockedRow
  <2>2. leased' = leased /\ phase' = [phase EXCEPT ![j.session] = "active"]
    BY <1>1, <1>4, <2>1 DEF JobActivate, TypeOK
  <2>. QED BY <1>1, <1>4, <2>1, <2>2
           DEF JobActivate, Yields, KeepsHold, KeepsIdle, launchVars, agentVars, lockVars, TypeOK
<1>. QED BY <1>2, <1>3, <1>4 DEF JobStepOf, JobFault

\* The close command, and the reconciler's releases.
LEMMA CloseYields ==
    ASSUME BindingInv, NEW s \in Sessions,
           \/ CloseRecord(s) \/ CloseRelease(s) \/ OrphanSweep(s) \/ PrepareTimeout(s)
           \/ \E t \in Tasks : \E st \in Verdicts : CloseTransition(s, t, st)
    PROVE  Yields
<1>. USE NoneAssumption
<1>1. TypeOK
  BY DEF BindingInv, LeaseInv
<1>2. CASE CloseRecord(s)
  BY <1>2, SkipQuiet, QuietYields DEF CloseRecord
<1>3. CASE CloseRelease(s) \/ OrphanSweep(s) \/ PrepareTimeout(s)
  <2>1. ~RowLocked(s)
    BY <1>3 DEF CloseRelease, OrphanSweep, PrepareTimeout, Releasable
  <2>2. \/ UNCHANGED <<taskVars, sessionVars, launchVars, agentVars, lockVars>>
        \/ \E target \in TaskStatus \ {"IN_PROGRESS"} : \E fence, opt :
              Release(s, target, fence, opt) /\ ~opt.retire
    <3>1. CASE CloseRelease(s)
      <4>1. closing[s].status \in TaskStatus \ {"IN_PROGRESS"}
        BY <1>1, <3>1 DEF CloseRelease, TypeOK, Closing, BindingInv, Assignment
      <4>. QED BY <3>1, <4>1 DEF CloseRelease, Ordinary
    <3>2. CASE OrphanSweep(s)
      <4>1. status[held[s]] \in TaskStatus \ {"IN_PROGRESS"}
        BY <1>1, <3>2 DEF OrphanSweep, StillOpen, TypeOK
      <4>. QED BY <3>2, <4>1 DEF OrphanSweep, Ordinary
    <3>3. CASE PrepareTimeout(s)
      BY <3>3 DEF PrepareTimeout, Ordinary, TaskStatus
    <3>. QED BY <1>3, <3>1, <3>2, <3>3
  <2>. QED BY <2>1, <2>2, SkipQuiet, QuietYields, ReleaseYields
<1>4. ASSUME NEW t \in Tasks, NEW st \in Verdicts, CloseTransition(s, t, st) PROVE Yields
  <2>1. /\ UNCHANGED <<epoch, sessionVars, launchVars, agentVars, lockVars>>
        /\ status' = [status EXCEPT ![t] = st] /\ assigned' = [assigned EXCEPT ![t] = None]
        /\ st # "IN_PROGRESS"
    BY <1>4 DEF CloseTransition, Verdicts
  <2>. QED BY <1>1, <2>1 DEF Yields, KeepsHold, KeepsIdle, sessionVars, launchVars,
                             agentVars, lockVars, TypeOK
<1>. QED BY <1>2, <1>3, <1>4

\* The drain of a displaced hold.
LEMMA DrainYields ==
    ASSUME BindingInv, NEW s \in Sessions, DrainDisplaced(s)
    PROVE  Yields
<1>. USE NoneAssumption
<1>1. TypeOK
  BY DEF BindingInv, LeaseInv
<1>2. /\ held[s] \in Tasks /\ desired[s] = "stopped" /\ ~RowLocked(s)
      /\ held' = [held EXCEPT ![s] = None] /\ phase' = [phase EXCEPT ![s] = None]
      /\ UNCHANGED <<taskVars, sstate, desired, leased, launchVars, lockAgent>>
  BY <1>1 DEF DrainDisplaced, TypeOK
<1>3. ASSUME NEW o \in Sessions PROVE KeepsHold(o) \/ DropsHold(o)
  <2>1. CASE o = s
    <3>1. held'[s] = None /\ phase'[s] = None
      BY <1>1, <1>2 DEF TypeOK
    <3>2. CASE assigned[held[s]] # agentOf[s]
      BY <1>2, <2>1, <3>1, <3>2 DEF DrainDisplaced, DropsHold
    <3>3. CASE assigned[held[s]] = agentOf[s]
      BY <1>2, <2>1, <3>1, <3>3 DEF DrainDisplaced, DropsHold
    <3>. QED BY <3>2, <3>3
  <2>2. CASE o # s
    BY <1>1, <1>2, <2>2 DEF KeepsHold, TypeOK
  <2>. QED BY <2>1, <2>2
<1>4. ASSUME NEW o \in Sessions PROVE KeepsIdle(o)
  <2>. SUFFICES ASSUME Live(o), desired'[o] = "running", held'[o] = None
                PROVE  /\ held[o] = None
                       /\ astate'[agentOf[o]] = astate[agentOf[o]]
                       /\ current'[agentOf[o]] = current[agentOf[o]]
    BY DEF KeepsIdle
  <2>1. o # s /\ held[o] = None /\ agentOf[o] \in Agents
    BY <1>1, <1>2 DEF BindingInv, Launched, Live, TypeOK
  <2>2. current[agentOf[o]] = None
    BY <1>2, <2>1 DEF BindingInv, IdleWhenFree, AgentFree
  <2>. QED BY <1>1, <1>2, <2>1, <2>2 DEF DrainDisplaced, agentVars, TypeOK
<1>5. \A w \in Workspaces : lockTask'[w] \in {lockTask[w], None}
  BY DEF DrainDisplaced
<1>. QED BY <1>2, <1>3, <1>4, <1>5 DEF Yields, taskVars, launchVars

\* Teardown.
LEMMA TeardownYields ==
    ASSUME BindingInv, NEW s \in Sessions,
           \/ \E lost \in BOOLEAN : TermBegin(s, lost)
           \/ TermUnconfirmed(s) \/ TermRelease(s) \/ TermFinish(s)
    PROVE  Yields
<1>. USE NoneAssumption
<1>1. TypeOK
  BY DEF BindingInv, LeaseInv
<1>2. CASE \E lost \in BOOLEAN : TermBegin(s, lost)
  <2>1. /\ Live(s) /\ desired' = [desired EXCEPT ![s] = "stopped"]
        /\ \A a \in Agents \ {agentOf[s]} : astate'[a] = astate[a]
        /\ UNCHANGED <<status, epoch, assigned, sstate, held, phase, leased, agentOf,
                       slotOf, current, lockAgent, lockTask>>
    BY <1>1, <1>2 DEF TermBegin, taskVars, launchVars, lockVars, TypeOK
  <2>2. ASSUME NEW o \in Sessions PROVE KeepsIdle(o)
    <3>. SUFFICES ASSUME Live(o), desired'[o] = "running", held'[o] = None
                  PROVE  /\ held[o] = None
                         /\ astate'[agentOf[o]] = astate[agentOf[o]]
                         /\ current'[agentOf[o]] = current[agentOf[o]]
      BY DEF KeepsIdle
    <3>1. o # s
      BY <1>1, <2>1 DEF TypeOK
    <3>2. agentOf[o] \in Agents \ {agentOf[s]}
      BY <1>1, <2>1, <3>1 DEF BindingInv, Launched, AgentOnce, Live, TypeOK
    <3>. QED BY <2>1, <3>2
  <2>. QED BY <1>1, <2>1, <2>2 DEF Yields, KeepsHold, TypeOK
<1>3. CASE TermUnconfirmed(s)
  BY <1>3, SkipQuiet, QuietYields DEF TermUnconfirmed
<1>4. CASE TermRelease(s)
  <2>1. Live(s) /\ desired[s] = "stopped" /\ ~RowLocked(s)
    BY <1>4 DEF TermRelease, BindingInv, TeardownHold
  <2>2. CASE \E fence, opt : Release(s, "READY", fence, opt)
    BY <2>1, <2>2, ReleaseYields DEF TaskStatus
  <2>3. CASE /\ sstate' = [sstate EXCEPT ![s] = "stopped"]
             /\ UNCHANGED <<taskVars, desired, held, phase, leased, claims, launchVars,
                            agentVars, lockVars>>
    BY <1>1, <2>1, <2>3 DEF Yields, KeepsHold, KeepsIdle, taskVars, launchVars, agentVars,
                            lockVars, TypeOK
  <2>. QED BY <1>4, <2>2, <2>3 DEF TermRelease
<1>5. CASE TermFinish(s)
  <2>1. Live(s) /\ held[s] = None /\ ~RowLocked(s)
    BY <1>5 DEF TermFinish, BindingInv, TeardownHold, LeaseInv, LockedRow, RowLocked,
                TypeOK, Job
  <2>2. /\ sstate' = [sstate EXCEPT ![s] = "stopped"]
        /\ astate' = [astate EXCEPT ![agentOf[s]] = "IDLE"]
        /\ current' = [current EXCEPT ![agentOf[s]] = None]
        /\ UNCHANGED <<status, epoch, assigned, desired, held, phase, leased, agentOf,
                       slotOf, lockAgent, lockTask>>
    BY <1>5 DEF TermFinish, taskVars, launchVars, lockVars
  <2>3. ASSUME NEW o \in Sessions PROVE KeepsIdle(o)
    BY <1>1, <2>2 DEF KeepsIdle, BindingInv, Launched, Live, TypeOK
  <2>. QED BY <1>1, <2>1, <2>2, <2>3 DEF Yields, KeepsHold, TypeOK
<1>. QED BY <1>2, <1>3, <1>4, <1>5

\* The operator's stop: every live session that names the task is stopped.
LEMMA StopYields ==
    ASSUME BindingInv, NEW t \in Tasks, StopTask(t)
    PROVE  Yields
<1>. USE NoneAssumption
<1>. DEFINE bound == {s \in Sessions : Live(s) /\ held[s] = t}
<1>1. TypeOK
  BY DEF BindingInv, LeaseInv
<1>2. /\ \A s \in bound : ~RowLocked(s)
      /\ sstate' = [s \in Sessions |-> IF s \in bound THEN "stopped" ELSE sstate[s]]
      /\ desired' = [s \in Sessions |-> IF s \in bound THEN "stopped" ELSE desired[s]]
      /\ held' = [s \in Sessions |-> IF s \in bound THEN None ELSE held[s]]
      /\ phase' = [s \in Sessions |-> IF s \in bound THEN None ELSE phase[s]]
      /\ UNCHANGED <<epoch, leased, agentOf, slotOf>>
  BY DEF StopTask, launchVars
<1>3. /\ lockAgent' = [w \in Workspaces |-> IF lockTask[w] = t THEN None ELSE lockAgent[w]]
      /\ lockTask' = [w \in Workspaces |-> IF lockTask[w] = t THEN None ELSE lockTask[w]]
  BY DEF StopTask
<1>4. \A a \in Agents : \/ astate'[a] = "IDLE" /\ current'[a] = None
                        \/ astate'[a] = astate[a] /\ current'[a] = current[a]
  BY DEF StopTask
<1>5. ASSUME NEW s \in Sessions
      PROVE  /\ sstate'[s] = sstate[s] \/ (Live(s) /\ sstate'[s] = "stopped" /\ ~RowLocked(s))
             /\ desired'[s] \in {desired[s], "stopped"}
             /\ KeepsHold(s) \/ DropsHold(s)
             /\ KeepsIdle(s)
  <2>1. CASE s \in bound
    <3>1. DropsHold(s)
      BY <1>1, <1>2, <1>3, <2>1 DEF DropsHold
    <3>2. KeepsIdle(s)
      BY <1>2, <2>1 DEF KeepsIdle
    <3>. QED BY <1>2, <2>1, <3>1, <3>2
  <2>2. CASE s \notin bound
    <3>1. KeepsHold(s) /\ sstate'[s] = sstate[s] /\ desired'[s] = desired[s]
      BY <1>2, <2>2 DEF KeepsHold
    <3>2. KeepsIdle(s)
      <4>1. Live(s) => agentOf[s] \in Agents
        BY <1>1 DEF BindingInv, Launched, Live, TypeOK
      <4>. QED BY <1>4, <3>1, <4>1 DEF KeepsIdle, KeepsHold
    <3>. QED BY <3>1, <3>2
  <2>. QED BY <2>1, <2>2
<1>6. ASSUME NEW u \in Tasks
      PROVE  \/ status'[u] = status[u] /\ assigned'[u] = assigned[u]
             \/ status'[u] # "IN_PROGRESS" /\ assigned'[u] = None
  BY <1>1 DEF StopTask, TypeOK
<1>. HIDE DEF bound
<1>. QED BY <1>2, <1>3, <1>5, <1>6 DEF Yields

\* The recovery sweep requeues a task that no session names.
LEMMA RecoverYields ==
    ASSUME BindingInv, NEW t \in Tasks, NEW st, RecoverMissing(t, st)
    PROVE  Yields
<1>. USE NoneAssumption
<1>1. TypeOK
  BY DEF BindingInv, LeaseInv
<1>2. /\ UNCHANGED <<epoch, sessionVars, launchVars>>
      /\ status' = [status EXCEPT ![t] = st] /\ st # "IN_PROGRESS"
      /\ assigned' = [assigned EXCEPT ![t] = None]
      /\ lockAgent' = [w \in Workspaces |-> IF lockTask[w] = t THEN None ELSE lockAgent[w]]
      /\ lockTask' = [w \in Workspaces |-> IF lockTask[w] = t THEN None ELSE lockTask[w]]
  BY DEF RecoverMissing
<1>3. \A a \in Agents : current[a] = None => astate'[a] = astate[a] /\ current'[a] = None
  BY <1>1 DEF RecoverMissing, TypeOK
<1>4. ASSUME NEW s \in Sessions PROVE KeepsIdle(s)
  <2>. SUFFICES ASSUME Live(s), desired'[s] = "running", held'[s] = None
                PROVE  /\ held[s] = None
                       /\ astate'[agentOf[s]] = astate[agentOf[s]]
                       /\ current'[agentOf[s]] = current[agentOf[s]]
    BY DEF KeepsIdle
  <2>1. held[s] = None /\ desired[s] = "running" /\ agentOf[s] \in Agents
    BY <1>1, <1>2 DEF BindingInv, Launched, Live, sessionVars, TypeOK
  <2>2. current[agentOf[s]] = None
    BY <2>1 DEF BindingInv, IdleWhenFree, AgentFree
  <2>. QED BY <1>3, <2>1, <2>2
<1>. QED BY <1>1, <1>2, <1>4 DEF Yields, KeepsHold, sessionVars, launchVars, TypeOK

\* The owner-recovery sweep.
LEMMA OwnerYields ==
    ASSUME BindingInv, NEW t \in Tasks, OwnerRecovered(t)
    PROVE  Yields
<1>. USE NoneAssumption
<1>. DEFINE s == owner[t]
            target == IF status[t] = "IN_PROGRESS" THEN "READY" ELSE status[t]
<1>1. TypeOK
  BY DEF BindingInv, LeaseInv
<1>2. s \in Sessions /\ ~RowLocked(s) /\ target \in TaskStatus \ {"IN_PROGRESS"}
  BY <1>1 DEF OwnerRecovered, TypeOK, TaskStatus
<1>3. CASE \E fence : Release(s, target, fence, [Ordinary EXCEPT !.unlock = TRUE])
  <2>1. ~[Ordinary EXCEPT !.unlock = TRUE].retire
    BY DEF Ordinary
  <2>. HIDE DEF s, target
  <2>. QED BY <1>2, <1>3, <2>1, ReleaseYields
<1>4. CASE \E free \in BOOLEAN :
              /\ lockTask' = [lockTask EXCEPT ![slotOf[s]] = IF free THEN None ELSE @]
              /\ lockAgent' = [lockAgent EXCEPT ![slotOf[s]] = IF free THEN None ELSE @]
              /\ UNCHANGED <<taskVars, sessionVars, launchVars, agentVars>>
  BY <1>1, <1>4 DEF Yields, KeepsHold, KeepsIdle, taskVars, sessionVars, launchVars,
                    agentVars, TypeOK
<1>5. \/ \E fence : Release(s, target, fence, [Ordinary EXCEPT !.unlock = TRUE])
      \/ \E free \in BOOLEAN :
              /\ lockTask' = [lockTask EXCEPT ![slotOf[s]] = IF free THEN None ELSE @]
              /\ lockAgent' = [lockAgent EXCEPT ![slotOf[s]] = IF free THEN None ELSE @]
              /\ UNCHANGED <<taskVars, sessionVars, launchVars, agentVars>>
  BY DEF OwnerRecovered
<1>. QED BY <1>3, <1>4, <1>5

\* The steps that write no session, agent or slot.
LEMMA EnvironmentYields ==
    ASSUME BindingInv,
           \/ \E t \in Tasks : OperatorReopen(t) \/ DependencyFlip(t)
           \/ \E w \in Workspaces : LoseMarker(w)
           \/ DaemonRestart
    PROVE  Yields
<1>1. TypeOK
  BY DEF BindingInv, LeaseInv
<1>2. CASE \E t \in Tasks : OperatorReopen(t)
  BY <1>1, <1>2 DEF OperatorReopen, Yields, KeepsHold, KeepsIdle, sessionVars, launchVars,
                    agentVars, lockVars, TypeOK
<1>3. CASE \/ \E t \in Tasks : DependencyFlip(t)
           \/ \E w \in Workspaces : LoseMarker(w)
           \/ DaemonRestart
  <2>1. UNCHANGED boundVars /\ Drains
    BY <1>3 DEF DependencyFlip, LoseMarker, DaemonRestart, boundVars, Drains, taskVars,
                sessionVars, launchVars, agentVars, lockVars
  <2>. QED BY <2>1, QuietYields
<1>. QED BY <1>2, <1>3

\* Only a launch binds an agent, only a claim grants a task; the others give up.
LEMMA NextYields ==
    ASSUME BindingInv, [Next]_vars
    PROVE  \/ \E s \in Sessions, a \in Agents, w \in Workspaces : Launch(s, a, w)
           \/ \E s \in Sessions, t \in Tasks : ClaimTask(s, t)
           \/ Yields
<1>1. CASE UNCHANGED vars
  BY <1>1, SkipQuiet, QuietYields DEF vars
<1>2. CASE Next
  BY <1>2, AnswerYields, JobYields, CloseYields, DrainYields, TeardownYields, StopYields,
     RecoverYields, OwnerYields, EnvironmentYields DEF Next
<1>. QED BY <1>1, <1>2

-----------------------------------------------------------------------------
\* What the daemon remembers beside the rows

\* A job belongs to a session that had one, or to a live one; a row lock likewise.
JobsFrom ==
    \A j \in jobs' :
        \/ \E k \in jobs : k.session = j.session /\ (Locked(j) => Locked(k))
        \/ j.session \in Sessions /\ Live(j.session) /\ sstate'[j.session] = "running"

ClosesSettled == \A s \in Sessions : closing[s] # None => closing[s].status # "IN_PROGRESS"

\* A teardown that goes on is of a session that goes on.
TeardownsFrom ==
    \A s \in Sessions : stopping'[s] # None =>
        stopping'[s] = stopping[s] /\ sstate'[s] = sstate[s]

Remembers == JobsFrom /\ ClosesSettled' /\ (TeardownsFrom \/ TeardownHold')

LEMMA MemoryQuiet ==
    ASSUME BindingInv, jobs' \subseteq jobs, UNCHANGED <<closing, stopping>>,
           \A s \in Sessions : stopping[s] # None => sstate'[s] = sstate[s]
    PROVE  Remembers
BY DEF Remembers, JobsFrom, ClosesSettled, TeardownsFrom, BindingInv, Assignment

LEMMA JobRemembers ==
    ASSUME BindingInv, NEW j \in jobs, JobStepOf(j) \/ JobFault(j)
    PROVE  Remembers
<1>1. TypeOK /\ j.session \in Sessions
  BY JobFields DEF BindingInv, LeaseInv
<1>2. UNCHANGED <<closing, stopping, sstate>>
  BY DEF JobStepOf, JobFault, JobFence, JobAttach, JobProve, JobMark, JobActivate,
     JobFoundBlocked, JobFoundReleased, JobCheck, JobDetach, JobRetainAttached, JobRelease,
     JobCondemnSlot, JobDisableSlot, JobEvict, JobRecheckRelease, JobSettle, JobError,
     JobRetain, JobInterrupt, ReleaseOrSkip, Release, tableVars, closeVars, sessionVars
<1>3. \/ jobs' \subseteq jobs
      \/ \E step \in JobStep \ {"proved", "marked"} : Advance(j, step) \/ Finish(j)
      \/ JobProve(j) \/ JobMark(j)
  BY DEF JobStepOf, JobFault, JobFence, JobAttach, JobActivate, Finish,
     JobFoundBlocked, JobFoundReleased, JobCheck, JobDetach, JobRetainAttached, JobRelease,
     JobCondemnSlot, JobDisableSlot, JobEvict, JobRecheckRelease, JobSettle, JobError,
     JobRetain, JobInterrupt, JobStep
<1>4. CASE jobs' \subseteq jobs
  BY <1>2, <1>4, MemoryQuiet
<1>5. ASSUME NEW step \in JobStep, Advance(j, step),
             step \in {"proved", "marked"} => Locked(j) \/ Live(j.session)
      PROVE  JobsFrom
  <2>1. [j EXCEPT !.step = step].session = j.session
    BY <1>1 DEF TypeOK, Job
  <2>2. [j EXCEPT !.step = step].step = step
    BY <1>1 DEF TypeOK, Job
  <2>. QED BY <1>1, <1>2, <1>5, <2>1, <2>2 DEF Advance, JobsFrom, Locked, Live
<1>6. JobsFrom
  <2>1. CASE JobProve(j)
    BY <1>5, <2>1 DEF JobProve, Proof, Live, JobStep
  <2>2. CASE JobMark(j)
    BY <1>5, <2>2 DEF JobMark, Locked, JobStep
  <2>3. CASE Finish(j) \/ jobs' \subseteq jobs
    BY <2>3 DEF Finish, JobsFrom
  <2>. QED BY <1>3, <1>5, <2>1, <2>2, <2>3
<1>. QED BY <1>2, <1>6 DEF Remembers, ClosesSettled, TeardownsFrom, BindingInv, Assignment

LEMMA NextRemembers ==
    ASSUME BindingInv, [Next]_vars
    PROVE  Remembers
<1>. USE NoneAssumption
<1>1. TypeOK
  BY DEF BindingInv, LeaseInv
<1>2. CASE UNCHANGED vars
  BY <1>2, MemoryQuiet DEF vars, memoryVars, sessionVars
<1>3. ASSUME NEW s \in Sessions, NEW t \in Tasks, ClaimTask(s, t) \/ ResumePreparation(s, t)
      PROVE  Remembers
  <2>1. /\ Live(s) /\ UNCHANGED <<sstate, closing, stopping>>
        /\ \E e, r : Queue(s, t, e, r)
    BY <1>3 DEF ClaimTask, SlotFree, ResumePreparation, sessionVars
  <2>2. JobsFrom
    BY <2>1 DEF JobsFrom, Queue, Live, Locked
  <2>. QED BY <2>1, <2>2 DEF Remembers, ClosesSettled, TeardownsFrom, BindingInv, Assignment
<1>4. CASE \/ \E s \in Sessions, a \in Agents, w \in Workspaces : Launch(s, a, w)
           \/ \E s \in Sessions, t \in Tasks : RecoverStaleBinding(s, t)
           \/ \E s \in Sessions : \/ ClaimOnRetiredSlot(s) \/ ClaimExhausted(s)
                                  \/ OrphanSweep(s) \/ PrepareTimeout(s)
                                  \/ DrainDisplaced(s) \/ RequestDrain(s)
  <2>1. UNCHANGED memoryVars
    BY <1>4 DEF Launch, RecoverStaleBinding, ClaimOnRetiredSlot, ClaimExhausted, OrphanSweep,
                PrepareTimeout, DrainDisplaced, RequestDrain, memoryVars
  <2>2. ASSUME NEW s \in Sessions, stopping[s] # None PROVE sstate'[s] = sstate[s]
    <3>1. Live(s)
      BY <2>2 DEF BindingInv, TeardownHold
    <3>. QED BY <1>1, <1>4, <3>1 DEF Launch, RecoverStaleBinding, ClaimOnRetiredSlot,
         ClaimExhausted, OrphanSweep, PrepareTimeout, DrainDisplaced, RequestDrain, Release,
         Live, TypeOK, sessionVars
  <2>. QED BY <2>1, <2>2, MemoryQuiet DEF memoryVars
<1>5. CASE \/ \E t \in Tasks : RecoverMissing(t, "READY") \/ RecoverMissing(t, "FAILED")
           \/ \E t \in Tasks : OperatorReopen(t)
           \/ \E t \in Tasks : DependencyFlip(t)
           \/ \E t \in Tasks : OwnerRecovered(t)
           \/ \E w \in Workspaces : LoseMarker(w)
  <2>1. UNCHANGED memoryVars /\ UNCHANGED sstate
    BY <1>5 DEF RecoverMissing, OperatorReopen, DependencyFlip, OwnerRecovered, LoseMarker,
                Release, sessionVars
  <2>. QED BY <2>1, MemoryQuiet DEF memoryVars
<1>6. ASSUME NEW t \in Tasks, StopTask(t) PROVE Remembers
  BY <1>6, MemoryQuiet DEF StopTask, memoryVars
<1>7. ASSUME NEW s \in Sessions, NEW t \in Tasks, NEW st \in Verdicts, CloseTransition(s, t, st)
      PROVE  Remembers
  <2>1. UNCHANGED <<jobs, stopping, sstate>> /\ st # "IN_PROGRESS"
    BY <1>7 DEF CloseTransition, sessionVars, Verdicts
  <2>2. ClosesSettled'
    BY <1>1, <1>7, <2>1 DEF CloseTransition, ClosesSettled, BindingInv, Assignment, TypeOK
  <2>. QED BY <2>1, <2>2 DEF Remembers, JobsFrom, TeardownsFrom
<1>8. ASSUME NEW s \in Sessions, CloseRecord(s) \/ CloseRelease(s) PROVE Remembers
  <2>1. UNCHANGED <<jobs, stopping, sstate>>
    BY <1>8 DEF CloseRecord, CloseRelease, Release, sessionVars
  <2>2. ClosesSettled'
    BY <1>1, <1>8 DEF CloseRecord, CloseRelease, ClosesSettled, BindingInv, Assignment,
                      TypeOK, Closing
  <2>. QED BY <2>1, <2>2 DEF Remembers, JobsFrom, TeardownsFrom
<1>9. ASSUME NEW s \in Sessions,
             \/ \E lost \in BOOLEAN : TermBegin(s, lost)
             \/ TermUnconfirmed(s) \/ TermRelease(s) \/ TermFinish(s)
      PROVE  Remembers
  <2>1. UNCHANGED <<jobs, closing>>
    BY <1>9 DEF TermBegin, TermUnconfirmed, TermRelease, TermFinish
  <2>2. TeardownHold'
    <3>1. CASE \E lost \in BOOLEAN : TermBegin(s, lost)
      BY <1>1, <3>1 DEF TermBegin, BindingInv, TeardownHold, Live, TypeOK
    <3>2. CASE TermUnconfirmed(s)
      BY <1>1, <3>2 DEF TermUnconfirmed, BindingInv, TeardownHold, Live, TypeOK, sessionVars
    <3>3. CASE TermRelease(s)
      <4>1. stopping[s] \in Stopping /\ stopping[s] # None
        BY <1>1, <3>3 DEF TermRelease, TypeOK
      <4>2. \A o \in Sessions \ {s} :
               /\ stopping'[o] = stopping[o] /\ sstate'[o] = sstate[o]
               /\ held'[o] = held[o] /\ desired'[o] = desired[o]
        BY <1>1, <3>3 DEF TermRelease, Release, TypeOK
      <4>3. \/ stopping'[s] = None
            \/ /\ sstate' = sstate /\ held'[s] = None /\ desired'[s] = desired[s]
        BY <1>1, <3>3 DEF TermRelease, Release, TypeOK
      <4>. QED BY <4>1, <4>2, <4>3 DEF BindingInv, TeardownHold, Live
    <3>4. CASE TermFinish(s)
      BY <1>1, <3>4 DEF TermFinish, BindingInv, TeardownHold, Live, TypeOK
    <3>. QED BY <1>9, <3>1, <3>2, <3>3, <3>4
  <2>. QED BY <2>1, <2>2 DEF Remembers, JobsFrom, ClosesSettled, BindingInv, Assignment
<1>10. CASE DaemonRestart
  BY <1>10 DEF DaemonRestart, Remembers, JobsFrom, ClosesSettled, TeardownsFrom
<1>. QED BY <1>2, <1>3, <1>4, <1>5, <1>6, <1>7, <1>8, <1>9, <1>10, JobRemembers DEF Next

-----------------------------------------------------------------------------
\* The invariant, over the three kinds of steps

LEMMA LaunchBinding ==
    ASSUME BindingInv, LeaseInv', NEW s \in Sessions, NEW a \in Agents,
           NEW w \in Workspaces, Launch(s, a, w)
    PROVE  BindingInv'
<1>. USE NoneAssumption
<1>1. TypeOK
  BY DEF BindingInv, LeaseInv
<1>2. /\ sstate[s] = "absent" /\ Reservable(a) /\ Acquirable(w)
      /\ sstate' = [sstate EXCEPT ![s] = "running"]
      /\ agentOf' = [agentOf EXCEPT ![s] = a]
      /\ slotOf' = [slotOf EXCEPT ![s] = w]
      /\ lockAgent' = [lockAgent EXCEPT ![w] = a]
      /\ UNCHANGED <<status, epoch, assigned, desired, held, phase, leased, astate, current,
                     lockTask, jobs, closing, stopping>>
  BY DEF Launch, taskVars, agentVars, memoryVars
<1>3. held[s] = None /\ stopping[s] = None /\ phase[s] = None
  BY <1>2 DEF BindingInv, Launched, HoldPhase
<1>4. Launched'
  BY <1>1, <1>2 DEF BindingInv, Launched, TypeOK, Job
<1>5. AgentOnce'
  BY <1>1, <1>2 DEF BindingInv, Launched, AgentOnce, Reservable, Live, TypeOK
<1>6. Answered'
  <2>. SUFFICES ASSUME NEW v \in Workspaces, lockTask[v] # None
                PROVE  \E o \in Sessions : Answers(o, v)'
    BY <1>2 DEF Answered
  <2>1. PICK o \in Sessions : Answers(o, v)
    BY DEF BindingInv, Answered
  <2>2. v # w /\ o # s
    BY <1>2, <1>3, <2>1 DEF Acquirable, Answers
  <2>. QED BY <1>1, <1>2, <2>1, <2>2 DEF Answers, TypeOK
<1>7. HoldPhase' /\ TeardownHold'
  BY <1>1, <1>2, <1>3 DEF BindingInv, HoldPhase, TeardownHold, Live, TypeOK
<1>8. IdleWhenFree'
  BY <1>1, <1>2 DEF BindingInv, IdleWhenFree, AgentFree, Reservable, Live, TypeOK
<1>9. Assignment'
  BY <1>1, <1>2, <1>3 DEF BindingInv, Assignment, Holds, TypeOK
<1>10. LockedLive'
  BY <1>1, <1>2 DEF BindingInv, LockedLive, RowLocked, Live, TypeOK
<1>. QED BY <1>4, <1>5, <1>6, <1>7, <1>8, <1>9, <1>10 DEF BindingInv

LEMMA ClaimBinding ==
    ASSUME BindingInv, LeaseInv', NEW s \in Sessions, NEW t \in Tasks, ClaimTask(s, t)
    PROVE  BindingInv'
<1>. USE NoneAssumption
<1>. DEFINE a == agentOf[s]
            w == slotOf[s]
<1>1. TypeOK /\ Live(s) /\ a \in Agents /\ w \in Workspaces /\ epoch[t] \in Nat
  BY DEF BindingInv, LeaseInv, Launched, Live, ClaimTask, SlotFree, TypeOK, Epoch
<1>2. /\ desired[s] = "running" /\ held[s] = None /\ stopping[s] = None /\ Claimable(t)
      /\ ~RowLocked(s)
  BY DEF ClaimTask, SlotFree, BindingInv, TeardownHold
<1>3. /\ status' = [status EXCEPT ![t] = "IN_PROGRESS"]
      /\ assigned' = [assigned EXCEPT ![t] = a]
      /\ epoch' = [epoch EXCEPT ![t] = epoch[t] + 1]
      /\ astate' = [astate EXCEPT ![a] = "BUSY"]
      /\ current' = [current EXCEPT ![a] = t]
      /\ held' = [held EXCEPT ![s] = t]
      /\ phase' = [phase EXCEPT ![s] = "preparing"]
      /\ leased' = [leased EXCEPT ![s] = epoch[t] + 1]
      /\ UNCHANGED <<sstate, desired, agentOf, slotOf, lockAgent, closing, stopping>>
  BY DEF ClaimTask, NextEpoch, launchVars
<1>4. \A v \in Workspaces :
         \/ v = w /\ lockAgent[v] = a /\ lockTask[v] \in {None, t} /\ lockTask'[v] = t
         \/ /\ lockTask'[v] = lockTask[v]
            /\ ~(v = w /\ lockAgent[v] = a /\ lockTask[v] \in {None, t})
  BY <1>1 DEF ClaimTask, TypeOK
<1>5. \A j \in jobs' : j \in jobs \/ (j.session = s /\ j.step = "queued")
  BY DEF ClaimTask, Queue
<1>. HIDE DEF a, w
<1>6. Launched' /\ LockedLive'
  BY <1>1, <1>2, <1>3, <1>5 DEF BindingInv, Launched, LockedLive, RowLocked, Live, TypeOK
<1>7. HoldPhase' /\ TeardownHold'
  BY <1>1, <1>2, <1>3 DEF BindingInv, HoldPhase, TeardownHold, Live, TypeOK
<1>8. AgentOnce'
  BY <1>1, <1>3 DEF BindingInv, AgentOnce, Live
<1>9. Answered'
  <2>. SUFFICES ASSUME NEW v \in Workspaces, lockTask'[v] # None
                PROVE  \E o \in Sessions : Answers(o, v)'
    BY DEF Answered
  <2>1. CASE v = w /\ lockAgent[v] = a /\ lockTask'[v] = t
    <3>1. Answers(s, v)'
      BY <1>1, <1>3, <2>1 DEF Answers, TypeOK, a, w
    <3>. QED BY <3>1
  <2>2. CASE /\ lockTask'[v] = lockTask[v]
             /\ ~(v = w /\ lockAgent[v] = a /\ lockTask[v] \in {None, t})
    <3>1. PICK o \in Sessions : Answers(o, v)
      BY <2>2 DEF BindingInv, Answered
    <3>2. o # s /\ held'[o] = held[o] /\ leased'[o] = leased[o] /\ lockTask[v] \in Tasks
      BY <1>1, <1>2, <1>3, <2>2, <3>1 DEF Answers, TypeOK
    <3>3. CASE lockTask[v] = t
      <4>1. lockAgent[v] # a
        BY <1>1, <2>2, <3>3 DEF BindingInv, AgentOnce, a, w
      <4>2. assigned'[t] = a
        BY <1>1, <1>3 DEF TypeOK
      <4>. QED BY <1>3, <2>2, <3>1, <3>2, <3>3, <4>1, <4>2 DEF Answers
    <3>4. CASE lockTask[v] # t
      <4>1. epoch'[lockTask[v]] = epoch[lockTask[v]] /\ assigned'[lockTask[v]] = assigned[lockTask[v]]
        BY <1>1, <1>3, <3>2, <3>4 DEF TypeOK
      <4>. QED BY <1>3, <2>2, <3>1, <3>2, <4>1 DEF Answers
    <3>. QED BY <3>3, <3>4
  <2>. QED BY <1>4, <2>1, <2>2
<1>10. IdleWhenFree'
  <2>. SUFFICES ASSUME NEW o \in Sessions, Live(o), desired[o] = "running", held'[o] = None
                PROVE  AgentFree(agentOf[o])'
    BY <1>3 DEF IdleWhenFree, Live
  <2>1. o # s /\ held[o] = None
    BY <1>1, <1>3 DEF TypeOK
  <2>2. agentOf[o] # a /\ agentOf[o] \in Agents /\ AgentFree(agentOf[o])
    BY <1>1, <2>1 DEF BindingInv, AgentOnce, Launched, IdleWhenFree, Live, TypeOK, a
  <2>. QED BY <1>1, <1>3, <2>2 DEF AgentFree, TypeOK
<1>11. Assignment'
  <2>1. ASSUME NEW o \in Sessions, NEW u \in Tasks, Holds(o, u)', status'[u] = "IN_PROGRESS"
        PROVE  assigned'[u] = agentOf'[o]
    <3>1. CASE o = s
      BY <1>1, <1>3, <2>1, <3>1 DEF Holds, TypeOK, a
    <3>2. CASE o # s /\ u = t
      <4>1. held[o] = t /\ leased[o] = epoch[t] + 1
        BY <1>1, <1>3, <2>1, <3>2 DEF Holds, TypeOK
      <4>2. leased[o] <= epoch[t]
        BY <4>1 DEF BindingInv, LeaseInv, LeaseFenced
      <4>. QED BY <1>1, <4>1, <4>2
    <3>3. CASE o # s /\ u # t
      BY <1>1, <1>3, <2>1, <3>3 DEF Holds, BindingInv, Assignment, TypeOK
    <3>. QED BY <3>1, <3>2, <3>3
  <2>2. \A u \in Tasks : assigned'[u] # None <=> status'[u] = "IN_PROGRESS"
    BY <1>1, <1>3 DEF BindingInv, Assignment, TypeOK
  <2>. QED BY <1>3, <2>1, <2>2 DEF BindingInv, Assignment
<1>. QED BY <1>6, <1>7, <1>8, <1>9, <1>10, <1>11 DEF BindingInv

LEMMA YieldsBinding ==
    ASSUME BindingInv, LeaseInv', Yields, Remembers
    PROVE  BindingInv'
<1>. USE NoneAssumption
<1>1. TypeOK
  BY DEF BindingInv, LeaseInv
<1>2. \A s \in Sessions :
         /\ sstate'[s] = sstate[s] \/ (Live(s) /\ sstate'[s] = "stopped" /\ ~RowLocked(s))
         /\ desired'[s] = "running" => desired[s] = "running"
         /\ desired[s] = "stopped" => desired'[s] = "stopped"
         /\ \/ KeepsHold(s)
            \/ held'[s] = None /\ phase'[s] = None
  BY DEF Yields, DropsHold
<1>3. UNCHANGED <<epoch, agentOf, slotOf>>
  BY DEF Yields
<1>4. TeardownHold'
  <2>1. CASE TeardownsFrom
    BY <1>2, <2>1 DEF BindingInv, TeardownHold, TeardownsFrom, KeepsHold, Live
  <2>. QED BY <2>1 DEF Remembers
<1>5. Launched'
  <2>1. \A s \in Sessions : sstate'[s] = "absent" <=> sstate[s] = "absent"
    BY <1>2 DEF Live
  <2>2. ASSUME NEW s \in Sessions, sstate[s] = "absent"
        PROVE  held'[s] = None /\ stopping'[s] = None
    BY <1>2, <1>4, <2>1, <2>2 DEF BindingInv, Launched, KeepsHold, TeardownHold, Live
  <2>3. ASSUME NEW j \in jobs' PROVE sstate'[j.session] # "absent"
    BY <1>1, <2>1, <2>3, JobFields DEF Remembers, JobsFrom, BindingInv, Launched
  <2>. QED BY <1>3, <2>1, <2>2, <2>3 DEF BindingInv, Launched
<1>6. HoldPhase'
  BY <1>2 DEF BindingInv, HoldPhase, KeepsHold
<1>7. AgentOnce'
  <2>1. ASSUME NEW s \in Sessions, NEW v \in Workspaces, Live(s), lockAgent'[v] = agentOf[s]
        PROVE  v = slotOf[s]
    BY <2>1 DEF Yields, BindingInv, AgentOnce, Launched, Live
  <2>. QED BY <1>2, <1>3, <2>1 DEF BindingInv, AgentOnce, Live
<1>8. Answered'
  <2>. SUFFICES ASSUME NEW w \in Workspaces, lockTask'[w] # None
                PROVE  \E s \in Sessions : Answers(s, w)'
    BY DEF Answered
  <2>1. lockTask'[w] = lockTask[w] /\ lockAgent'[w] = lockAgent[w] /\ lockTask[w] \in Tasks
    BY <1>1 DEF Yields, TypeOK
  <2>2. PICK s \in Sessions : Answers(s, w)
    BY <2>1 DEF BindingInv, Answered
  <2>3. ~DropsHold(s)
    BY <2>1, <2>2 DEF DropsHold, Answers
  <2>4. KeepsHold(s)
    BY <2>3 DEF Yields
  <2>5. agentOf[s] # None
    BY <2>1, <2>2 DEF Answers, BindingInv, Launched
  <2>6. assigned'[lockTask[w]] \in {assigned[lockTask[w]], None}
    BY <2>1 DEF Yields
  <2>. QED BY <1>3, <2>1, <2>2, <2>4, <2>5, <2>6 DEF Answers, KeepsHold
<1>9. IdleWhenFree'
  <2>. SUFFICES ASSUME NEW s \in Sessions, sstate'[s] = "running", desired'[s] = "running",
                       held'[s] = None
                PROVE  AgentFree(agentOf[s])'
    BY <1>3 DEF IdleWhenFree, Live
  <2>1. Live(s) /\ desired[s] = "running" /\ KeepsIdle(s)
    BY <1>2 DEF Yields, Live
  <2>. QED BY <1>3, <2>1 DEF KeepsIdle, BindingInv, IdleWhenFree, AgentFree
<1>10. Assignment'
  <2>1. ASSUME NEW s \in Sessions, NEW t \in Tasks, Holds(s, t)', status'[t] = "IN_PROGRESS"
        PROVE  assigned'[t] = agentOf'[s]
    <3>1. Holds(s, t)
      BY <1>2, <1>3, <2>1 DEF Holds, KeepsHold
    <3>2. status[t] = "IN_PROGRESS" /\ assigned'[t] = assigned[t]
      BY <2>1 DEF Yields
    <3>. QED BY <1>3, <3>1, <3>2 DEF BindingInv, Assignment
  <2>2. \A t \in Tasks : assigned'[t] # None <=> status'[t] = "IN_PROGRESS"
    BY DEF Yields, BindingInv, Assignment
  <2>. QED BY <2>1, <2>2 DEF Assignment, Remembers, ClosesSettled
<1>11. LockedLive'
  <2>. SUFFICES ASSUME NEW j \in jobs', Locked(j), j.session \in Sessions
                PROVE  sstate'[j.session] = "running"
    BY DEF LockedLive, RowLocked, Locked, Live
  <2>1. CASE \E k \in jobs : k.session = j.session /\ Locked(k)
    <3>1. RowLocked(j.session)
      BY <2>1 DEF RowLocked, Locked
    <3>. QED BY <1>2, <3>1 DEF BindingInv, LockedLive, Live
  <2>. QED BY <2>1 DEF Remembers, JobsFrom
<1>. QED BY <1>4, <1>5, <1>6, <1>7, <1>8, <1>9, <1>10, <1>11 DEF BindingInv

LEMMA InitBinding == Init => BindingInv
<1>. SUFFICES ASSUME Init PROVE BindingInv
  OBVIOUS
<1>1. LeaseInv
  BY InitInv
<1>2. Launched /\ HoldPhase /\ AgentOnce /\ Answered
  BY DEF Init, Launched, HoldPhase, AgentOnce, Answered, Live
<1>3. TeardownHold /\ IdleWhenFree /\ Assignment /\ LockedLive
  BY NoneAssumption DEF Init, TeardownHold, IdleWhenFree, Assignment, LockedLive, Live,
                        Holds, RowLocked
<1>. QED BY <1>1, <1>2, <1>3 DEF BindingInv

LEMMA NextBinding == BindingInv /\ [Next]_vars => BindingInv'
<1>. SUFFICES ASSUME BindingInv, [Next]_vars PROVE BindingInv'
  OBVIOUS
<1>1. LeaseInv'
  BY NextInv DEF BindingInv
<1>. QED BY <1>1, NextYields, NextRemembers, LaunchBinding, ClaimBinding, YieldsBinding

-----------------------------------------------------------------------------
\* The theorems

\* A session, its agent, its slot and its task agree about their bindings, on every
\* instance.
THEOREM BindingInvariant == Spec => []BindingInv
BY InitBinding, NextBinding, PTL DEF Spec

\* A slot locked for a task is bound to a session that holds that task, through every
\* release, stop, sweep and restart: no path out of a claim drops the hold and
\* leaves the lock.
THEOREM SlotNotStranded == Spec => []NoStrandedSlot
<1>1. BindingInv => NoStrandedSlot
  BY DEF BindingInv, Answered, Answers, NoStrandedSlot
<1>. QED BY <1>1, BindingInvariant, PTL
=============================================================================
