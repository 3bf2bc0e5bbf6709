----------------------------- MODULE WaitProofs -----------------------------
(***************************************************************************)
(* Proofs about Waits for every number of tasks, listeners and rows, and   *)
(* for every bound on faults, retries and repairs.  WaitInv is inductive:  *)
(* its shared half (rows, cursor, registrations) is what loses no wake-up, *)
(* its half per task (Waiting, Continuation) is what keeps one writer.     *)
(* The steps of the services move one task and leave the shared half       *)
(* alone; the steps of writers, registrations and listeners are taken one  *)
(* by one.                                                                 *)
(***************************************************************************)
EXTENDS Waits, FiniteSetTheorems, TLAPS

Shared == InOrder /\ Frontier /\ Dispatched /\ Registering /\ NoLostWakeup
OneTask(t) == Waiting(t) /\ Continuation(t)

\* What TypeOK says of the variables a service moves.
TaskTypes ==
    /\ decision \in [Tasks -> {"in_place", "hibernate"}] /\ cleared \subseteq Tasks
    /\ status \in [Tasks -> Statuses] /\ epoch \in [Tasks -> Sessions]
    /\ resume \in [Tasks -> ResumeStates] /\ hold \in [Tasks -> Holds]
    /\ stopped \subseteq Tasks /\ saved \subseteq Tasks /\ released \subseteq Tasks
    /\ attempts \in [Tasks -> Nat] /\ proofs \in [Tasks -> Nat]
    /\ sess \in [Tasks -> Nat] /\ record \in [Tasks -> Records]
    /\ control \in [Tasks -> Controls] /\ procs \in [Tasks -> SUBSET Sessions]
    /\ paused \subseteq Pausable /\ repairs \in [Tasks -> Nat] /\ faults \in Nat

\* A step of task t leaves every other task's rows and processes alone.
Kept(u) ==
    /\ reg'[u] = reg[u] /\ outcome'[u] = outcome[u] /\ decision'[u] = decision[u]
    /\ status'[u] = status[u] /\ epoch'[u] = epoch[u]
    /\ resume'[u] = resume[u] /\ hold'[u] = hold[u] /\ control'[u] = control[u]
    /\ attempts'[u] = attempts[u] /\ sess'[u] = sess[u] /\ record'[u] = record[u]
    /\ procs'[u] = procs[u]
    /\ u \in cleared' <=> u \in cleared
    /\ u \in stopped' <=> u \in stopped
    /\ u \in saved' <=> u \in saved
    /\ u \in released' <=> u \in released
    /\ u \in paused => u \in paused'
OthersKeep(t) == \A u \in Tasks \ {t} : Kept(u)

\* A task that a step leaves alone keeps its part of the invariant.
LEMMA KeptInv ==
    ASSUME NEW u \in Tasks, OneTask(u), Kept(u), Settled => Settled'
    PROVE  OneTask(u)'
<1>1. Waiting(u)'
  BY DEF Kept, OneTask, Waiting
<1>2. Suspending(u) => Suspending(u)'
  BY DEF Kept, Suspending
<1>3. Asleep(u) => Asleep(u)'
  BY DEF Kept, Asleep, Pending
<1>4. Reserved(u) => Reserved(u)'
  BY DEF Kept, Reserved
<1>5. Launched(u) => Launched(u)'
  BY DEF Kept, Launched
<1>6. Continuation(u)'
  BY <1>2, <1>3, <1>4, <1>5 DEF Kept, OneTask, Continuation, Pending
<1> QED
  BY <1>1, <1>6 DEF OneTask

\* So does every task but the one that moves.
LEMMA Aside ==
    ASSUME WaitInv, NEW t, OthersKeep(t), Settled => Settled',
           NEW u \in Tasks \ {t}
    PROVE  OneTask(u)'
  BY KeptInv DEF WaitInv, OneTask, OthersKeep

\* What the services leave alone is all the shared half reads.
LEMMA SharedFrame ==
    ASSUME WaitInv, UNCHANGED <<sourceVars, listenerVars, registerVars, outcome>>,
           paused \subseteq paused'
    PROVE  Shared' /\ (Settled => Settled')
<1> USE DEF WaitInv, sourceVars, listenerVars, outboxVars, drainVars, registerVars
<1>1. Settled' = Settled /\ Committed' = Committed
  BY DEF Settled, Committed
<1>2. InOrder' /\ Frontier' /\ Dispatched'
  BY <1>1 DEF InOrder, Frontier, Dispatched
<1>3. Registering'
  BY <1>1 DEF Registering
<1>4. NoLostWakeup'
  BY <1>1 DEF NoLostWakeup, Pending
<1> QED
  BY <1>1, <1>2, <1>3, <1>4 DEF Shared

\* A step of a service: one task moves, the shared half does not.
LEMMA ServiceInv ==
    ASSUME WaitInv, NEW t \in Tasks, OthersKeep(t),
           UNCHANGED <<sourceVars, listenerVars, registerVars, outcome>>,
           paused \subseteq paused', TaskTypes', OneTask(t)'
    PROVE  WaitInv'
<1>1. Shared' /\ (Settled => Settled')
  BY SharedFrame
<1>2. \A u \in Tasks : OneTask(u)'
  BY <1>1, Aside
<1>3. TypeOK'
  BY DEF WaitInv, TypeOK, TaskTypes, sourceVars, listenerVars, outboxVars, leaseVars, drainVars,
         registerVars
<1> QED
  BY <1>1, <1>2, <1>3 DEF WaitInv, Shared, OneTask

\* A wait in place becomes a suspension, or ends with its acknowledgement.
LEMMA InPlaceInv ==
    ASSUME WaitInv, NEW t \in Tasks, Suspend(t) \/ AckInPlace(t)
    PROVE  WaitInv'
<1> USE TaskAssumption DEF untouched, sourceVars, listenerVars, outboxVars, leaseVars,
   drainVars, registerVars, waitVars, taskVars, intentVars, parkVars, launchVars, countVars,
   continuationVars
<1>0. TaskTypes /\ OneTask(t)
  BY DEF WaitInv, TypeOK, TaskTypes, OneTask
<1>1. CASE Suspend(t)
  <2>1. TaskTypes'
    BY <1>0, <1>1 DEF TaskTypes, Statuses, ResumeStates, Holds, Controls, Records, Sessions,
       Suspend
  <2>2. OthersKeep(t) /\ paused \subseteq paused'
    BY <1>0, <1>1 DEF TaskTypes, OthersKeep, Kept, Suspend
  <2>3. Waiting(t)'
    BY <1>0, <1>1 DEF TaskTypes, OneTask, Waiting, Settled, Continuation, Suspending,
       OwnerLive, Pending, Suspend
  <2>4. Continuation(t)'
    BY <1>0, <1>1 DEF TaskTypes, OneTask, Waiting, Continuation, Suspending, OwnerLive,
       Pending, Suspend
  <2> QED
    BY <1>1, <2>1, <2>2, <2>3, <2>4, ServiceInv DEF OneTask, Suspend
<1>2. CASE AckInPlace(t)
  <2>1. TaskTypes'
    BY <1>0, <1>2 DEF TaskTypes, Statuses, ResumeStates, Holds, Controls, Records, Sessions,
       AckInPlace
  <2>2. OthersKeep(t) /\ paused \subseteq paused'
    BY <1>0, <1>2 DEF TaskTypes, OthersKeep, Kept, AckInPlace
  <2>3. Waiting(t)'
    BY <1>0, <1>2 DEF TaskTypes, OneTask, Waiting, Settled, Continuation, Suspending,
       OwnerLive, Pending, AckInPlace
  <2>4. Continuation(t)'
    BY <1>0, <1>2 DEF TaskTypes, OneTask, Waiting, Continuation, Suspending, OwnerLive,
       Pending, AckInPlace
  <2> QED
    BY <1>2, <2>1, <2>2, <2>3, <2>4, ServiceInv DEF OneTask, AckInPlace
<1> QED
  BY <1>1, <1>2

\* Until the park, the old session's side of a continuation moves.
LEMMA StoppingInv ==
    ASSUME WaitInv, NEW t \in Hibernators,
           BeginStop(t) \/ ProveStopped(t) \/ StopUnproved(t) \/ SaveWork(t) \/
           PushFails(t) \/ DetachFails(t)
    PROVE  WaitInv'
<1> USE TaskAssumption DEF untouched, sourceVars, listenerVars, outboxVars, leaseVars,
   drainVars, registerVars, waitVars, taskVars, intentVars, parkVars, launchVars, countVars,
   continuationVars
<1>0. TaskTypes /\ OneTask(t)
  BY DEF WaitInv, TypeOK, TaskTypes, OneTask
<1>1. CASE BeginStop(t)
  <2>1. TaskTypes'
    BY <1>0, <1>1 DEF TaskTypes, Statuses, ResumeStates, Holds, Controls, Records, Sessions,
       BeginStop
  <2>2. OthersKeep(t) /\ paused \subseteq paused'
    BY <1>0, <1>1 DEF TaskTypes, OthersKeep, Kept, BeginStop
  <2>3. Waiting(t)'
    BY <1>0, <1>1 DEF TaskTypes, OneTask, Waiting, Settled, Continuation, Suspending,
       OwnerLive, BeginStop
  <2>4. Continuation(t)'
    BY <1>0, <1>1 DEF TaskTypes, OneTask, Waiting, Continuation, Suspending, OwnerLive,
       BeginStop
  <2> QED
    BY <1>1, <2>1, <2>2, <2>3, <2>4, ServiceInv DEF OneTask, BeginStop
<1>2. CASE ProveStopped(t)
  <2>1. TaskTypes'
    BY <1>0, <1>2 DEF TaskTypes, Statuses, ResumeStates, Holds, Controls, Records, Sessions,
       ProveStopped
  <2>2. OthersKeep(t) /\ paused \subseteq paused'
    BY <1>0, <1>2 DEF TaskTypes, OthersKeep, Kept, ProveStopped
  <2>3. Waiting(t)'
    BY <1>0, <1>2 DEF TaskTypes, OneTask, Waiting, Settled, Continuation, Suspending,
       OwnerLive, ProveStopped
  <2>4. Continuation(t)'
    BY <1>0, <1>2 DEF TaskTypes, OneTask, Waiting, Continuation, Suspending, OwnerLive,
       ProveStopped
  <2> QED
    BY <1>2, <2>1, <2>2, <2>3, <2>4, ServiceInv DEF OneTask, ProveStopped
<1>3. CASE StopUnproved(t)
  <2>1. TaskTypes'
    BY <1>0, <1>3 DEF TaskTypes, Statuses, ResumeStates, Holds, Controls, Records, Sessions,
       StopUnproved, Fault
  <2>2. OthersKeep(t) /\ paused \subseteq paused'
    BY <1>0, <1>3 DEF TaskTypes, OthersKeep, Kept, StopUnproved, Fault
  <2>3. Waiting(t)'
    BY <1>0, <1>3 DEF TaskTypes, OneTask, Waiting, Settled, Continuation, Suspending, Asleep,
       Reserved, Launched, StopUnproved, Fault
  <2>4. Continuation(t)'
    BY <1>0, <1>3 DEF TaskTypes, OneTask, Waiting, Continuation, Suspending, Asleep,
       Reserved, Launched, StopUnproved, Fault
  <2> QED
    BY <1>3, <2>1, <2>2, <2>3, <2>4, ServiceInv DEF OneTask, StopUnproved
<1>4. CASE SaveWork(t)
  <2>1. TaskTypes'
    BY <1>0, <1>4 DEF TaskTypes, Statuses, ResumeStates, Holds, Controls, Records, Sessions,
       SaveWork
  <2>2. OthersKeep(t) /\ paused \subseteq paused'
    BY <1>0, <1>4 DEF TaskTypes, OthersKeep, Kept, SaveWork
  <2>3. Waiting(t)'
    BY <1>0, <1>4 DEF TaskTypes, OneTask, Waiting, Settled, Continuation, Suspending, Asleep,
       Reserved, Launched, SaveWork
  <2>4. Continuation(t)'
    BY <1>0, <1>4 DEF TaskTypes, OneTask, Waiting, Continuation, Suspending, Asleep,
       Reserved, Launched, SaveWork
  <2> QED
    BY <1>4, <2>1, <2>2, <2>3, <2>4, ServiceInv DEF OneTask, SaveWork
<1>5. CASE PushFails(t)
  <2>1. TaskTypes'
    BY <1>0, <1>5 DEF TaskTypes, Statuses, ResumeStates, Holds, Controls, Records, Sessions,
       PushFails, Fault
  <2>2. OthersKeep(t) /\ paused \subseteq paused'
    BY <1>0, <1>5 DEF TaskTypes, OthersKeep, Kept, PushFails, Fault
  <2>3. Waiting(t)'
    BY <1>0, <1>5 DEF TaskTypes, OneTask, Waiting, Settled, Continuation, Suspending, Asleep,
       Reserved, Launched, PushFails, Fault
  <2>4. Continuation(t)'
    BY <1>0, <1>5 DEF TaskTypes, OneTask, Waiting, Continuation, Suspending, Asleep,
       Reserved, Launched, PushFails, Fault
  <2> QED
    BY <1>5, <2>1, <2>2, <2>3, <2>4, ServiceInv DEF OneTask, PushFails
<1>6. CASE DetachFails(t)
  <2>1. TaskTypes'
    BY <1>0, <1>6 DEF TaskTypes, Statuses, ResumeStates, Holds, Controls, Records, Sessions,
       DetachFails, Fault
  <2>2. OthersKeep(t) /\ paused \subseteq paused'
    BY <1>0, <1>6 DEF TaskTypes, OthersKeep, Kept, DetachFails, Fault
  <2>3. Waiting(t)'
    BY <1>0, <1>6 DEF TaskTypes, OneTask, Waiting, Settled, Continuation, Suspending, Asleep,
       Reserved, Launched, DetachFails, Fault
  <2>4. Continuation(t)'
    BY <1>0, <1>6 DEF TaskTypes, OneTask, Waiting, Continuation, Suspending, Asleep,
       Reserved, Launched, DetachFails, Fault
  <2> QED
    BY <1>6, <2>1, <2>2, <2>3, <2>4, ServiceInv DEF OneTask, DetachFails
<1> QED
  BY <1>1, <1>2, <1>3, <1>4, <1>5, <1>6

\* The park retires the old session; after it the old folder is released and the
\* task may be paused.
LEMMA ParkingInv ==
    ASSUME WaitInv, NEW t \in Hibernators,
           Park(t) \/ Cleanup(t) \/ ControlLost(t) \/ OldExits(t) \/ Pause(t) \/ Unpause(t)
    PROVE  WaitInv'
<1> USE TaskAssumption DEF untouched, sourceVars, listenerVars, outboxVars, leaseVars,
   drainVars, registerVars, waitVars, taskVars, intentVars, parkVars, launchVars, countVars,
   continuationVars
<1>0. TaskTypes /\ OneTask(t)
  BY DEF WaitInv, TypeOK, TaskTypes, OneTask
<1>1. CASE Park(t)
  <2>1. TaskTypes'
    BY <1>0, <1>1 DEF TaskTypes, Statuses, ResumeStates, Holds, Controls, Records, Sessions,
       Park, ParkAs
  <2>2. OthersKeep(t) /\ paused \subseteq paused'
    BY <1>0, <1>1 DEF TaskTypes, OthersKeep, Kept, Park, ParkAs
  <2>3. Waiting(t)'
    BY <1>0, <1>1 DEF TaskTypes, OneTask, Waiting, Settled, Continuation, Suspending,
       OwnerLive, Asleep, Pending, Sessions, Park, ParkAs
  <2>4. Continuation(t)'
    BY <1>0, <1>1 DEF TaskTypes, OneTask, Waiting, Continuation, Suspending, OwnerLive,
       Asleep, Pending, Sessions, Park, ParkAs
  <2> QED
    BY <1>1, <2>1, <2>2, <2>3, <2>4, ServiceInv DEF OneTask, Park
<1>2. CASE Cleanup(t)
  <2>1. TaskTypes'
    BY <1>0, <1>2 DEF TaskTypes, Statuses, ResumeStates, Holds, Controls, Records, Sessions,
       Cleanup
  <2>2. OthersKeep(t) /\ paused \subseteq paused'
    BY <1>0, <1>2 DEF TaskTypes, OthersKeep, Kept, Cleanup
  <2>3. Waiting(t)'
    BY <1>0, <1>2 DEF TaskTypes, OneTask, Waiting, Settled, Continuation, Suspending, Asleep,
       Reserved, Launched, Cleanup
  <2>4. Continuation(t)'
    <3>1. t \in stopped /\ t \in saved /\ epoch[t] > First /\ decision[t] = "hibernate"
      BY <1>0, <1>2 DEF OneTask, Continuation, Cleanup
    <3>2. resume[t] \in {"sleeping", "queued"} /\ Asleep(t)
      BY <1>0, <1>2 DEF OneTask, Continuation, Reserved, Launched, Cleanup
    <3>3. Asleep(t)'
      BY <1>0, <1>2, <3>2 DEF TaskTypes, Asleep, Pending, Cleanup
    <3> QED
      BY <1>2, <3>1, <3>2, <3>3 DEF Continuation, Cleanup
  <2> QED
    BY <1>2, <2>1, <2>2, <2>3, <2>4, ServiceInv DEF OneTask, Cleanup
<1>3. CASE ControlLost(t)
  <2>1. TaskTypes'
    BY <1>0, <1>3 DEF TaskTypes, Statuses, ResumeStates, Holds, Controls, Records, Sessions,
       ControlLost, Fault
  <2>2. OthersKeep(t) /\ paused \subseteq paused'
    BY <1>0, <1>3 DEF TaskTypes, OthersKeep, Kept, ControlLost, Fault
  <2>3. Waiting(t)'
    BY <1>0, <1>3 DEF TaskTypes, OneTask, Waiting, Settled, Continuation, Suspending, Asleep,
       Reserved, Launched, ControlLost, Fault
  <2>4. Continuation(t)'
    <3>1. Suspending(t) => Suspending(t)'
      BY <1>0, <1>3 DEF TaskTypes, Suspending, ControlLost, Fault
    <3>2. Asleep(t) => Asleep(t)'
      BY <1>0, <1>3 DEF TaskTypes, Asleep, Pending, ControlLost, Fault
    <3>3. Reserved(t) => Reserved(t)'
      BY <1>0, <1>3 DEF TaskTypes, Reserved, ControlLost, Fault
    <3>4. Launched(t) => Launched(t)'
      BY <1>0, <1>3 DEF TaskTypes, Launched, ControlLost, Fault
    <3> QED
      BY <1>0, <1>3, <3>1, <3>2, <3>3, <3>4 DEF OneTask, Continuation, Pending, ControlLost,
         Fault
  <2> QED
    BY <1>3, <2>1, <2>2, <2>3, <2>4, ServiceInv DEF OneTask, ControlLost
<1>4. CASE OldExits(t)
  <2>1. TaskTypes'
    BY <1>0, <1>4 DEF TaskTypes, Statuses, ResumeStates, Holds, Controls, Records, Sessions,
       OldExits
  <2>2. OthersKeep(t) /\ paused \subseteq paused'
    BY <1>0, <1>4 DEF TaskTypes, OthersKeep, Kept, OldExits
  <2>3. Waiting(t)'
    BY <1>0, <1>4 DEF TaskTypes, OneTask, Waiting, Settled, Continuation, Suspending, Asleep,
       Reserved, Launched, OldExits
  <2>4. Continuation(t)'
    BY <1>0, <1>4 DEF TaskTypes, OneTask, Waiting, Continuation, Suspending, Asleep,
       Reserved, Launched, OldExits
  <2> QED
    BY <1>4, <2>1, <2>2, <2>3, <2>4, ServiceInv DEF OneTask, OldExits
<1>5. CASE Pause(t)
  <2>1. TaskTypes'
    BY <1>0, <1>5 DEF TaskTypes, Statuses, ResumeStates, Holds, Controls, Records, Sessions,
       Pause
  <2>2. OthersKeep(t) /\ paused \subseteq paused'
    BY <1>0, <1>5 DEF TaskTypes, OthersKeep, Kept, Pause
  <2>3. Waiting(t)'
    BY <1>0, <1>5 DEF TaskTypes, OneTask, Waiting, Settled, Continuation, Suspending, Asleep,
       Reserved, Launched, Pending, Pause
  <2>4. Continuation(t)'
    <3>1. t \in stopped /\ t \in saved /\ epoch[t] > First /\ decision[t] = "hibernate"
      BY <1>0, <1>5 DEF OneTask, Continuation, Suspending, Pause
    <3>2. Asleep(t)
      BY <1>0, <1>5, <3>1 DEF OneTask, Continuation, Reserved, Launched, Pause
    <3>3. Asleep(t)'
      BY <1>0, <1>5, <3>2 DEF TaskTypes, Asleep, Pending, Pause
    <3> QED
      BY <1>0, <1>5, <3>1, <3>2, <3>3 DEF TaskTypes, Continuation, Sessions, First, Pause
  <2> QED
    BY <1>5, <2>1, <2>2, <2>3, <2>4, ServiceInv DEF OneTask, Pause
<1>6. CASE Unpause(t)
  <2>1. TaskTypes'
    BY <1>0, <1>6 DEF TaskTypes, Statuses, ResumeStates, Holds, Controls, Records, Sessions,
       Unpause
  <2>2. OthersKeep(t) /\ paused \subseteq paused'
    BY <1>0, <1>6 DEF TaskTypes, OthersKeep, Kept, Unpause
  <2>3. Waiting(t)'
    BY <1>0, <1>6 DEF TaskTypes, OneTask, Waiting, Settled, Continuation, Suspending, Asleep,
       Reserved, Launched, Pending, Unpause
  <2>4. Continuation(t)'
    BY <1>0, <1>6 DEF TaskTypes, OneTask, Waiting, Continuation, Suspending, Asleep,
       Reserved, Launched, Pending, Unpause
  <2> QED
    BY <1>6, <2>1, <2>2, <2>3, <2>4, ServiceInv DEF OneTask, Unpause
<1> QED
  BY <1>1, <1>2, <1>3, <1>4, <1>5, <1>6

\* Reservations and holds before a launch.
LEMMA ReserveInv ==
    ASSUME WaitInv, NEW t \in Hibernators,
           Reserve(t) \/ ReserveAgain(t) \/ GrantExpires(t) \/ PrepareFails(t) \/ Lift(t)
    PROVE  WaitInv'
<1> USE TaskAssumption DEF unmoved, sourceVars, listenerVars, outboxVars, leaseVars,
   drainVars, registerVars, waitVars, taskVars, intentVars, parkVars, launchVars, countVars,
   continuationVars
<1>0. TaskTypes /\ OneTask(t)
  BY DEF WaitInv, TypeOK, TaskTypes, OneTask
<1>1. CASE Reserve(t)
  <2>1. TaskTypes'
    BY <1>0, <1>1 DEF TaskTypes, Statuses, ResumeStates, Holds, Controls, Records, Sessions,
       Reserve
  <2>2. OthersKeep(t) /\ paused \subseteq paused'
    BY <1>0, <1>1 DEF TaskTypes, OthersKeep, Kept, Reserve
  <2>3. Waiting(t)'
    BY <1>0, <1>1 DEF TaskTypes, OneTask, Waiting, Settled, Continuation, Suspending, Asleep,
       Reserved, Launched, Pending, MayRun, Reserve
  <2>4. Continuation(t)'
    BY <1>0, <1>1 DEF TaskTypes, OneTask, Waiting, Continuation, Suspending, Asleep,
       Reserved, Launched, Pending, MayRun, Reserve
  <2> QED
    BY <1>1, <2>1, <2>2, <2>3, <2>4, ServiceInv DEF OneTask, Reserve
<1>2. CASE ReserveAgain(t)
  <2>1. TaskTypes'
    BY <1>0, <1>2 DEF TaskTypes, Statuses, ResumeStates, Holds, Controls, Records, Sessions,
       ReserveAgain
  <2>2. OthersKeep(t) /\ paused \subseteq paused'
    BY <1>0, <1>2 DEF TaskTypes, OthersKeep, Kept, ReserveAgain
  <2>3. Waiting(t)'
    BY <1>0, <1>2 DEF TaskTypes, OneTask, Waiting, Settled, Continuation, Suspending, Asleep,
       Reserved, Launched, Pending, MayRun, ReserveAgain
  <2>4. Continuation(t)'
    BY <1>0, <1>2 DEF TaskTypes, OneTask, Waiting, Continuation, Suspending, Asleep,
       Reserved, Launched, Pending, MayRun, ReserveAgain
  <2> QED
    BY <1>2, <2>1, <2>2, <2>3, <2>4, ServiceInv DEF OneTask, ReserveAgain
<1>3. CASE GrantExpires(t)
  <2>1. TaskTypes'
    BY <1>0, <1>3 DEF TaskTypes, Statuses, ResumeStates, Holds, Controls, Records, Sessions,
       GrantExpires, Queue
  <2>2. OthersKeep(t) /\ paused \subseteq paused'
    BY <1>0, <1>3 DEF TaskTypes, OthersKeep, Kept, GrantExpires, Queue
  <2>3. Waiting(t)'
    BY <1>0, <1>3 DEF TaskTypes, OneTask, Waiting, Settled, Continuation, Suspending, Asleep,
       Reserved, Launched, Pending, MayRun, GrantExpires, Queue
  <2>4. Continuation(t)'
    BY <1>0, <1>3 DEF TaskTypes, OneTask, Waiting, Continuation, Suspending, Asleep,
       Reserved, Launched, Pending, MayRun, GrantExpires, Queue
  <2> QED
    BY <1>3, <2>1, <2>2, <2>3, <2>4, ServiceInv DEF OneTask, GrantExpires
<1>4. CASE PrepareFails(t)
  <2>0. attempts[t] > 0
    BY <1>0, <1>4 DEF OneTask, Continuation, Suspending, Asleep, Reserved, Launched,
       PrepareFails
  <2>1. TaskTypes'
    BY <1>0, <1>4, <2>0 DEF TaskTypes, Statuses, ResumeStates, Holds, Controls, Records,
       Sessions, PrepareFails, Fault, Queue, Hold
  <2>2. OthersKeep(t) /\ paused \subseteq paused'
    BY <1>0, <1>4 DEF TaskTypes, OthersKeep, Kept, PrepareFails, Fault, Queue, Hold
  <2>3. Waiting(t)'
    BY <1>0, <1>4 DEF TaskTypes, OneTask, Waiting, Settled, Continuation, Suspending, Asleep,
       Reserved, Launched, Pending, MayRun, PrepareFails, Fault, Queue, Hold
  <2>4. Continuation(t)'
    BY <1>0, <1>4 DEF TaskTypes, OneTask, Waiting, Continuation, Suspending, Asleep,
       Reserved, Launched, Pending, MayRun, PrepareFails, Fault, Queue, Hold
  <2> QED
    BY <1>4, <2>1, <2>2, <2>3, <2>4, ServiceInv DEF OneTask, PrepareFails
<1>5. CASE Lift(t)
  <2>1. TaskTypes'
    BY <1>0, <1>5 DEF TaskTypes, Statuses, ResumeStates, Holds, Controls, Records, Sessions,
       Lift, MayRun
  <2>2. OthersKeep(t) /\ paused \subseteq paused'
    BY <1>0, <1>5 DEF TaskTypes, OthersKeep, Kept, Lift, MayRun
  <2>3. Waiting(t)'
    BY <1>0, <1>5 DEF TaskTypes, OneTask, Waiting, Settled, Continuation, Suspending, Asleep,
       Reserved, Launched, Pending, MayRun, Lift, MayRun
  <2>4. Continuation(t)'
    BY <1>0, <1>5 DEF TaskTypes, OneTask, Waiting, Continuation, Suspending, Asleep,
       Reserved, Launched, Pending, MayRun, Lift, MayRun
  <2> QED
    BY <1>5, <2>1, <2>2, <2>3, <2>4, ServiceInv DEF OneTask, Lift
<1> QED
  BY <1>1, <1>2, <1>3, <1>4, <1>5

\* A launch that comes up, and the outcome it delivers.
LEMMA LaunchInv ==
    ASSUME WaitInv, NEW t \in Hibernators,
           Launch(t) \/ Spawn(t) \/ Up(t) \/ AgentAnswers(t) \/ NewDies(t)
    PROVE  WaitInv'
<1> USE TaskAssumption DEF unmoved, sourceVars, listenerVars, outboxVars, leaseVars,
   drainVars, registerVars, waitVars, taskVars, intentVars, parkVars, launchVars, countVars,
   continuationVars
<1>0. TaskTypes /\ OneTask(t)
  BY DEF WaitInv, TypeOK, TaskTypes, OneTask
<1>1. CASE Launch(t)
  <2>1. TaskTypes'
    BY <1>0, <1>1 DEF TaskTypes, Statuses, ResumeStates, Holds, Controls, Records, Sessions,
       Launch
  <2>2. OthersKeep(t) /\ paused \subseteq paused'
    BY <1>0, <1>1 DEF TaskTypes, OthersKeep, Kept, Launch
  <2>3. Waiting(t)'
    BY <1>0, <1>1 DEF TaskTypes, OneTask, Waiting, Settled, Continuation, Suspending, Asleep,
       Reserved, Launched, Pending, MayRun, Launch
  <2>4. Continuation(t)'
    <3>1. t \in stopped /\ t \in saved /\ epoch[t] > First /\ decision[t] = "hibernate"
      BY <1>0, <1>1 DEF OneTask, Continuation, Suspending, Launch
    <3>2. t \in released /\ ~Pending(t) /\ Reserved(t)
      BY <1>0, <1>1, <3>1 DEF OneTask, Continuation, Asleep, Launched, Launch
    <3>3. Launched(t)'
      BY <1>0, <1>1, <3>2 DEF TaskTypes, Sessions, Reserved, Launched, Launch
    <3> QED
      BY <1>0, <1>1, <3>1, <3>2, <3>3 DEF TaskTypes, Continuation, Sessions, First, Pending,
         Launch
  <2> QED
    BY <1>1, <2>1, <2>2, <2>3, <2>4, ServiceInv DEF OneTask, Launch
<1>2. CASE Spawn(t)
  <2>0. sess[t] = epoch[t]
    BY <1>0, <1>2 DEF OneTask, Continuation, Suspending, Asleep, Reserved, Launched, Spawn
  <2>1. TaskTypes'
    BY <1>0, <1>2, <2>0 DEF TaskTypes, Statuses, ResumeStates, Holds, Controls, Records,
       Sessions, Spawn
  <2>2. OthersKeep(t) /\ paused \subseteq paused'
    BY <1>0, <1>2 DEF TaskTypes, OthersKeep, Kept, Spawn
  <2>3. Waiting(t)'
    BY <1>0, <1>2 DEF TaskTypes, OneTask, Waiting, Settled, Continuation, Suspending, Asleep,
       Reserved, Launched, Pending, MayRun, Spawn
  <2>4. Continuation(t)'
    BY <1>0, <1>2 DEF TaskTypes, OneTask, Waiting, Continuation, Suspending, Asleep,
       Reserved, Launched, Pending, MayRun, Spawn
  <2> QED
    BY <1>2, <2>1, <2>2, <2>3, <2>4, ServiceInv DEF OneTask, Spawn
<1>3. CASE Up(t)
  <2>1. TaskTypes'
    BY <1>0, <1>3 DEF TaskTypes, Statuses, ResumeStates, Holds, Controls, Records, Sessions, Up
  <2>2. OthersKeep(t) /\ paused \subseteq paused'
    BY <1>0, <1>3 DEF TaskTypes, OthersKeep, Kept, Up
  <2>3. Waiting(t)'
    BY <1>0, <1>3 DEF TaskTypes, OneTask, Waiting, Settled, Continuation, Suspending, Asleep,
       Reserved, Launched, Pending, MayRun, Up
  <2>4. Continuation(t)'
    BY <1>0, <1>3 DEF TaskTypes, OneTask, Waiting, Continuation, Suspending, Asleep,
       Reserved, Launched, Pending, MayRun, Up
  <2> QED
    BY <1>3, <2>1, <2>2, <2>3, <2>4, ServiceInv DEF OneTask, Up
<1>4. CASE Delivered(t)
  <2>1. TaskTypes'
    BY <1>0, <1>4 DEF TaskTypes, Statuses, ResumeStates, Holds, Controls, Records, Sessions,
       Delivered, Holder
  <2>2. OthersKeep(t) /\ paused \subseteq paused'
    BY <1>0, <1>4 DEF TaskTypes, OthersKeep, Kept, Delivered, Holder
  <2>3. Waiting(t)'
    BY <1>0, <1>4 DEF TaskTypes, OneTask, Waiting, Settled, Continuation, Suspending, Asleep,
       Reserved, Launched, Pending, MayRun, Delivered, Holder
  <2>4. Continuation(t)'
    BY <1>0, <1>4 DEF TaskTypes, OneTask, Waiting, Continuation, Suspending, Asleep,
       Reserved, Launched, Pending, MayRun, Delivered, Holder
  <2> QED
    BY <1>4, <2>1, <2>2, <2>3, <2>4, ServiceInv DEF OneTask, Delivered
<1>5. CASE \E s \in procs[t] : Acknowledge(t, s)
  <2>1. TaskTypes'
    BY <1>0, <1>5 DEF TaskTypes, Statuses, ResumeStates, Holds, Controls, Records, Sessions,
       Acknowledge, Holder, WaitInv, TypeOK, Outcomes
  <2>2. OthersKeep(t) /\ paused \subseteq paused'
    BY <1>0, <1>5 DEF TaskTypes, OthersKeep, Kept, Acknowledge, Holder, WaitInv, TypeOK,
       Outcomes
  <2>3. Waiting(t)'
    BY <1>0, <1>5 DEF TaskTypes, OneTask, Waiting, Settled, Continuation, Suspending, Asleep,
       Reserved, Launched, Pending, MayRun, Acknowledge, Holder, WaitInv, TypeOK, Outcomes
  <2>4. Continuation(t)'
    BY <1>0, <1>5 DEF TaskTypes, OneTask, Waiting, Continuation, Suspending, Asleep,
       Reserved, Launched, Pending, MayRun, Acknowledge, Holder, WaitInv, TypeOK, Outcomes
  <2> QED
    BY <1>5, <2>1, <2>2, <2>3, <2>4, ServiceInv DEF OneTask, Acknowledge
<1>6. CASE NewDies(t)
  <2>1. TaskTypes'
    BY <1>0, <1>6 DEF TaskTypes, Statuses, ResumeStates, Holds, Controls, Records, Sessions,
       NewDies, Fault
  <2>2. OthersKeep(t) /\ paused \subseteq paused'
    BY <1>0, <1>6 DEF TaskTypes, OthersKeep, Kept, NewDies, Fault
  <2>3. Waiting(t)'
    BY <1>0, <1>6 DEF TaskTypes, OneTask, Waiting, Settled, Continuation, Suspending, Asleep,
       Reserved, Launched, Pending, MayRun, NewDies, Fault
  <2>4. Continuation(t)'
    BY <1>0, <1>6 DEF TaskTypes, OneTask, Waiting, Continuation, Suspending, Asleep,
       Reserved, Launched, Pending, MayRun, NewDies, Fault
  <2> QED
    BY <1>6, <2>1, <2>2, <2>3, <2>4, ServiceInv DEF OneTask, NewDies
<1> QED
  BY <1>1, <1>2, <1>3, <1>4, <1>5, <1>6 DEF AgentAnswers

\* What a failed launch leaves behind: an acknowledged outcome stays; a session
\* that may run is held; one that does not is held or queued again.
Failed(t, rec) ==
    /\ control'[t] = "free"
    /\ \/ /\ resume[t] = "acknowledged" /\ resume'[t] = resume[t] /\ hold'[t] = hold[t]
          /\ record'[t] = rec /\ sess'[t] = sess[t]
       \/ /\ rec \in {"starting", "running"} /\ resume[t] # "acknowledged"
          /\ resume'[t] = "held" /\ hold'[t] = "resume_stop_uncertain"
          /\ record'[t] = rec /\ sess'[t] = sess[t]
       \/ /\ rec \notin {"starting", "running"} /\ resume[t] # "acknowledged"
          /\ resume'[t] = "held" /\ hold'[t] = "resume_launch_failed"
          /\ record'[t] = rec /\ sess'[t] = sess[t]
       \/ /\ rec \notin {"starting", "running"} /\ resume[t] # "acknowledged"
          /\ resume'[t] = "queued" /\ hold'[t] = "none"
          /\ record'[t] = "none" /\ sess'[t] = 0

\* A failed launch leaves its task in one of those states.
LEMMA FailLeaves ==
    ASSUME TaskTypes, NEW t \in Tasks, NEW rec \in Records, Fail(t, rec)
    PROVE  /\ Failed(t, rec)
           /\ control' \in [Tasks -> Controls] /\ resume' \in [Tasks -> ResumeStates]
           /\ hold' \in [Tasks -> Holds] /\ record' \in [Tasks -> Records]
           /\ sess' \in [Tasks -> Nat]
<1> USE DEF TaskTypes, Failed, Queue, Hold, Controls, ResumeStates, Holds, Records
<1>1. CASE resume[t] = "acknowledged"
  BY <1>1 DEF Fail, intentVars
<1>2. CASE resume[t] # "acknowledged" /\ rec \in {"starting", "running"}
  BY <1>2 DEF Fail
<1>3. CASE /\ resume[t] # "acknowledged" /\ rec \notin {"starting", "running"}
           /\ attempts[t] >= LaunchBudget
  BY <1>3 DEF Fail
<1>4. CASE /\ resume[t] # "acknowledged" /\ rec \notin {"starting", "running"}
           /\ ~(attempts[t] >= LaunchBudget)
  BY <1>4 DEF Fail
<1> QED
  BY <1>1, <1>2, <1>3, <1>4

\* A failed launch leaves the other tasks alone.
LEMMA FailKeeps ==
    ASSUME TaskTypes, NEW t \in Tasks, NEW rec, Fail(t, rec), NEW u \in Tasks \ {t}
    PROVE  /\ control'[u] = control[u] /\ resume'[u] = resume[u] /\ hold'[u] = hold[u]
           /\ record'[u] = record[u] /\ sess'[u] = sess[u]
<1> USE DEF TaskTypes, Queue, Hold
<1>1. CASE resume[t] = "acknowledged"
  BY <1>1 DEF Fail, intentVars
<1>2. CASE resume[t] # "acknowledged"
  BY <1>2 DEF Fail
<1> QED
  BY <1>1, <1>2

\* A launch that failed: before the session's row was written, with the instance
\* known to be stopped, or without anybody knowing.
LEMMA FailInv ==
    ASSUME WaitInv, NEW t \in Hibernators, NEW rec \in Records, Fail(t, rec),
           UNCHANGED <<unmoved, outcome, cleared, status, attempts, repairs>>,
           faults' \in Nat, epoch' \in [Tasks -> Sessions], procs' \in [Tasks -> SUBSET Sessions],
           \A u \in Tasks \ {t} : epoch'[u] = epoch[u] /\ procs'[u] = procs[u],
           \/ rec = "none" /\ resume[t] \in {"reserved", "launching"} /\ procs[t] = {}
                           /\ procs'[t] = {} /\ epoch'[t] >= epoch[t]
           \/ rec = "stopped" /\ Launched(t) /\ procs'[t] = {} /\ epoch'[t] = epoch[t]
           \/ rec = "starting" /\ Launched(t) /\ procs'[t] = procs[t] /\ epoch'[t] = epoch[t],
           t \in stopped, resume[t] \in {"reserved", "launching", "delivered", "acknowledged"}
    PROVE  WaitInv'
<1> USE TaskAssumption DEF unmoved, sourceVars, listenerVars, outboxVars, leaseVars, drainVars,
        registerVars
<1>0. TaskTypes /\ OneTask(t)
  BY DEF WaitInv, TypeOK, TaskTypes, OneTask
<1>1. /\ Failed(t, rec)
      /\ control' \in [Tasks -> Controls] /\ resume' \in [Tasks -> ResumeStates]
      /\ hold' \in [Tasks -> Holds] /\ record' \in [Tasks -> Records] /\ sess' \in [Tasks -> Nat]
  BY <1>0, FailLeaves
<1>2. TaskTypes'
  BY <1>0, <1>1 DEF TaskTypes
<1>3. OthersKeep(t)
  BY <1>0, FailKeeps DEF OthersKeep, Kept
<1>4. Waiting(t)'
  BY <1>0, <1>1 DEF OneTask, Waiting, Settled, Failed
<1>5. /\ t \in saved /\ epoch[t] > First /\ decision[t] = "hibernate"
      /\ t \in released /\ ~Pending(t) /\ status[t] \in {"RESUME_PENDING", "IN_PROGRESS"}
      /\ resume[t] # "acknowledged" => status[t] = "RESUME_PENDING"
  BY <1>0 DEF OneTask, Continuation, Reserved, Launched
<1>6. /\ t \in stopped' /\ t \in saved' /\ t \in released' /\ decision'[t] = "hibernate"
      /\ epoch'[t] > First /\ ~Pending(t)'
  BY <1>0, <1>5 DEF TaskTypes, Sessions, First, Pending
<1>7. rec \in {"none", "stopped", "starting"}
  OBVIOUS
<1>8. Continuation(t)'
  <2>1. CASE resume[t] = "acknowledged"
    <3>1. Launched(t) /\ rec \in {"stopped", "starting"}
      BY <1>0, <2>1 DEF OneTask, Continuation, Reserved
    <3>2. Launched(t)'
      BY <3>1, <1>1, <2>1 DEF Failed, Launched
    <3> QED
      BY <1>6, <3>2 DEF Continuation
  <2>2. CASE resume[t] # "acknowledged" /\ rec = "starting"
    <3>1. Launched(t)'
      BY <1>1, <1>5, <2>2 DEF Failed, Launched
    <3> QED
      BY <1>6, <3>1 DEF Continuation
  <2>3. CASE resume[t] # "acknowledged" /\ rec \in {"none", "stopped"}
    <3>1. Reserved(t)' \/ (Asleep(t)' /\ resume'[t] = "queued")
      BY <1>1, <1>5, <2>3 DEF Failed, Reserved, Asleep, Pending
    <3> QED
      BY <1>6, <3>1 DEF Continuation
  <2> QED
    BY <1>7, <2>1, <2>2, <2>3
<1> QED
  BY <1>2, <1>3, <1>4, <1>8, ServiceInv DEF OneTask

\* The four ways a launch fails are cases of the lemma above.
LEMMA LaunchFailsInv ==
    ASSUME WaitInv, NEW t \in Hibernators,
           LaunchRefused(t) \/ SpawnDied(t) \/ SpawnUncertain(t) \/ LaunchTimeout(t)
    PROVE  WaitInv'
<1> USE TaskAssumption DEF unmoved, taskVars, Records
<1>0. TaskTypes /\ OneTask(t)
  BY DEF WaitInv, TypeOK, TaskTypes, OneTask
<1>1. CASE LaunchRefused(t)
  <2>1. /\ t \in stopped /\ procs[t] = {} /\ resume[t] \in {"reserved", "launching"}
    BY <1>0, <1>1 DEF OneTask, Continuation, Suspending, Asleep, Reserved, Launched,
       LaunchRefused
  <2>2. /\ epoch' \in [Tasks -> Sessions] /\ epoch'[t] >= epoch[t]
        /\ \A u \in Tasks \ {t} : epoch'[u] = epoch[u]
    BY <1>0, <1>1 DEF TaskTypes, Sessions, LaunchRefused
  <2> QED
    BY <1>0, <1>1, <2>1, <2>2, FailInv DEF LaunchRefused, TaskTypes
<1>2. CASE SpawnDied(t) \/ SpawnUncertain(t) \/ (LaunchTimeout(t) /\ record[t] = "starting")
  <2>1. /\ t \in stopped /\ Launched(t)
        /\ resume[t] \in {"launching", "delivered", "acknowledged"}
    BY <1>0, <1>2 DEF OneTask, Continuation, Suspending, Asleep, Reserved, Launched, SpawnDied,
       SpawnUncertain, LaunchTimeout
  <2>2. CASE SpawnDied(t)
    <3>1. /\ procs' \in [Tasks -> SUBSET Sessions] /\ procs'[t] = {}
          /\ \A u \in Tasks \ {t} : procs'[u] = procs[u]
      BY <1>0, <2>1, <2>2 DEF TaskTypes, Launched, SpawnDied
    <3> QED
      BY <1>0, <2>1, <2>2, <3>1, FailInv DEF SpawnDied, TaskTypes
  <2>3. CASE SpawnUncertain(t)
    BY <1>0, <2>1, <2>3, FailInv DEF SpawnUncertain, TaskTypes, Fault
  <2>4. CASE LaunchTimeout(t) /\ record[t] = "starting"
    BY <1>0, <2>1, <2>4, FailInv DEF LaunchTimeout, TaskTypes
  <2> QED
    BY <1>2, <2>2, <2>3, <2>4
<1>3. CASE LaunchTimeout(t) /\ record[t] = "bound"
  <2>1. t \in stopped /\ procs[t] = {} /\ resume[t] = "launching"
    BY <1>0, <1>3 DEF OneTask, Continuation, Suspending, Asleep, Reserved, Launched,
       LaunchTimeout
  <2>2. epoch[t] >= epoch[t]
    BY <1>0 DEF TaskTypes, Sessions
  <2> QED
    BY <1>0, <1>3, <2>1, <2>2, FailInv DEF LaunchTimeout, TaskTypes
<1> QED
  BY <1>1, <1>2, <1>3 DEF LaunchTimeout

----------------------------------------------------------------------------
\* Steps that leave every task alone need only the shared half.
LEMMA SharedInv ==
    ASSUME WaitInv, TypeOK', Shared', Settled => Settled',
           UNCHANGED <<reg, waitVars, taskVars, continuationVars, paused>>
    PROVE  WaitInv'
<1> USE DEF waitVars, taskVars, continuationVars, intentVars, parkVars, launchVars
<1>1. ASSUME NEW u \in Tasks
      PROVE  OneTask(u)'
  <2>1. OneTask(u) /\ Kept(u)
    BY DEF WaitInv, OneTask, Kept
  <2> QED
    BY <2>1, KeptInv
<1> QED
  BY <1>1 DEF WaitInv, Shared, OneTask

\* A number that is not used yet, or in flight, is above any watermark.
LEMMA WatermarkAhead ==
    ASSUME WaitInv, NEW m \in Marks, Watermark(m), NEW s \in Seqs, row[s] \in {"unused", "open"}
    PROVE  s > m
<1> USE SeqAssumption DEF Seqs, Marks
<1>1. row[s] = "unused"
  BY DEF Watermark, Open
<1>2. CASE m = cursor
  BY <1>2 DEF WaitInv, Frontier
<1>3. CASE m \in Committed
  <2>1. m \in Seqs /\ row[m] = "committed"
    BY <1>3 DEF Committed
  <2>2. ~(s < m)
    BY <2>1, <1>1 DEF WaitInv, InOrder
  <2>3. s # m
    BY <2>1, <1>1
  <2> QED
    BY <2>1, <2>2, <2>3
<1> QED
  BY <1>2, <1>3 DEF Watermark

\* Writers.
LEMMA SourceInv ==
    ASSUME WaitInv, NEW s \in Seqs,
           (\E b \in BOOLEAN : Begin(s, b)) \/ Commit(s) \/ Rollback(s)
    PROVE  WaitInv'
<1> USE SeqAssumption DEF listenerVars, outboxVars, leaseVars, drainVars, registerVars,
   waitVars,
        taskVars, continuationVars, intentVars, parkVars, launchVars, countVars, Seqs, Marks
<1>0. /\ row \in [Seqs -> {"unused", "open", "committed", "lost"}] /\ settles \subseteq Seqs
      /\ UNCHANGED <<listenerVars, registerVars, waitVars, taskVars, continuationVars, countVars>>
  BY DEF WaitInv, TypeOK, Begin, Commit, Rollback
<1>1. CASE \E b \in BOOLEAN : Begin(s, b)
  <2>1. /\ row' = [row EXCEPT ![s] = "open"] /\ row[s] = "unused"
        /\ \A r \in Seqs : r < s => row[r] # "unused"
        /\ settles' \subseteq settles \cup {s} /\ settles \subseteq settles'
    BY <1>1 DEF Begin
  <2>2. Committed' = Committed /\ Settled' = Settled
    BY <1>0, <2>1 DEF Committed, Settled
  <2>3. TypeOK'
    BY <1>0, <2>1 DEF WaitInv, TypeOK
  <2>4. InOrder'
    BY <1>0, <2>1 DEF WaitInv, InOrder
  <2>5. Frontier' /\ Dispatched'
    BY <1>0, <2>1, <2>2 DEF WaitInv, Frontier, Dispatched, Committed
  <2>6. Registering' /\ NoLostWakeup'
    BY <1>0, <2>2 DEF WaitInv, Registering, NoLostWakeup, Pending
  <2> QED
    BY <1>0, <2>2, <2>3, <2>4, <2>5, <2>6, SharedInv DEF Shared
<1>2. CASE Commit(s)
  <2>1. row' = [row EXCEPT ![s] = "committed"] /\ row[s] = "open" /\ settles' = settles
    BY <1>2 DEF Commit, Open
  <2>2. Committed' = Committed \cup {s} /\ (Settled => Settled')
    BY <1>0, <2>1 DEF Committed, Settled
  <2>3. TypeOK'
    BY <1>0, <2>1 DEF WaitInv, TypeOK
  <2>4. InOrder'
    BY <1>0, <2>1 DEF WaitInv, InOrder
  <2>5. Frontier' /\ Dispatched'
    BY <1>0, <2>1, <2>2 DEF WaitInv, Frontier, Dispatched, Committed
  <2>6. s \in Committed' \ stamped' /\ \A t \in Tasks : s > since'[t]
    BY <1>0, <2>1, <2>2 DEF WaitInv, Frontier, Dispatched, Committed
  <2>7. Registering' /\ NoLostWakeup'
    BY <1>0, <2>2, <2>6 DEF WaitInv, Registering, NoLostWakeup
  <2> QED
    BY <1>0, <2>2, <2>3, <2>4, <2>5, <2>7, SharedInv DEF Shared
<1>3. CASE Rollback(s)
  <2>1. row' = [row EXCEPT ![s] = "lost"] /\ row[s] = "open" /\ settles' = settles \ {s}
    BY <1>3 DEF Rollback, Open
  <2>2. Committed' = Committed /\ Settled' = Settled
    BY <1>0, <2>1 DEF Committed, Settled
  <2>3. TypeOK'
    BY <1>0, <2>1 DEF WaitInv, TypeOK
  <2>4. InOrder'
    BY <1>0, <2>1 DEF WaitInv, InOrder
  <2>5. Frontier' /\ Dispatched'
    BY <1>0, <2>1, <2>2 DEF WaitInv, Frontier, Dispatched, Committed
  <2>6. Registering' /\ NoLostWakeup'
    BY <1>0, <2>2 DEF WaitInv, Registering, NoLostWakeup, Pending
  <2> QED
    BY <1>0, <2>2, <2>3, <2>4, <2>5, <2>6, SharedInv DEF Shared
<1> QED
  BY <1>1, <1>2, <1>3

----------------------------------------------------------------------------
\* A registration moves one task; the rows stay.
LEMMA RegisterInv ==
    ASSUME WaitInv, NEW t \in Tasks, RegisterMark(t) \/ Register(t) \/ RegisterAbort(t)
    PROVE  WaitInv'
<1> USE SeqAssumption, NameAssumption DEF sourceVars, listenerVars, outboxVars, leaseVars,
   drainVars,
        waitVars, taskVars, continuationVars, intentVars, parkVars, launchVars, countVars, Seqs, Marks
<1>0. /\ TypeOK /\ OneTask(t)
      /\ UNCHANGED <<sourceVars, listenerVars, epoch, hold, parkVars, launchVars, proofs, control,
                     procs, paused, repairs>>
  BY DEF WaitInv, OneTask, RegisterMark, Register, RegisterVerify, RegisterObserve,
     RegisterCommit,
     RegisterAbort
<1>1. Settled' = Settled /\ Committed' = Committed
  BY <1>0 DEF Settled, Committed
<1>2. InOrder' /\ Dispatched'
  BY <1>0, <1>1 DEF WaitInv, InOrder, Dispatched
<1>3. ASSUME TypeOK', OthersKeep(t), OneTask(t)', Frontier', Registering', NoLostWakeup'
      PROVE  WaitInv'
  <2>1. \A u \in Tasks : OneTask(u)'
    BY <1>1, <1>3, Aside
  <2> QED
    BY <2>1, <1>2, <1>3 DEF WaitInv, OneTask
<1>4. ASSUME reg' \in [Tasks -> Registrations], UNCHANGED <<outcome, decision, cleared, status, resume>>,
             since' \in [Tasks -> Marks], \A u \in Tasks \ {t} : reg'[u] = reg[u] /\ since'[u] = since[u],
             reg[t] # "done", reg'[t] # "done", graph' \in Tasks \cup {Free}, faults' \in Nat,
             \A s \in Seqs : row[s] \in {"unused", "open"} => s > since'[t], Registering'
      PROVE  WaitInv'
  <2>1. TypeOK'
    BY <1>0, <1>4 DEF TypeOK
  <2>2. OthersKeep(t)
    BY <1>0, <1>4 DEF OthersKeep, Kept
  <2>3. OneTask(t)'
    <3>1. Waiting(t)'
      BY <1>0, <1>1, <1>4 DEF OneTask, Waiting
    <3>2. t \notin stopped /\ Suspending(t)
      BY <1>0, <1>4 DEF OneTask, Waiting, Continuation
    <3>3. Suspending(t)'
      BY <1>0, <1>4, <3>2 DEF Suspending
    <3> QED
      BY <1>0, <3>1, <3>2, <3>3 DEF OneTask, Continuation
  <2>4. Frontier'
    BY <1>0, <1>4 DEF WaitInv, Frontier
  <2>5. NoLostWakeup'
    <3>1. ~Pending(t)
      BY <1>0, <1>4 DEF OneTask, Waiting, Pending
    <3> QED
      BY <1>0, <1>1, <1>4, <3>1 DEF WaitInv, NoLostWakeup, Pending
  <2> QED
    BY <1>3, <1>4, <2>1, <2>2, <2>3, <2>4, <2>5
<1>5. CASE RegisterMark(t)
  <2>1. PICK m \in Marks : Watermark(m) /\ since' = [since EXCEPT ![t] = m]
    BY <1>5 DEF RegisterMark
  <2>2. \A s \in Seqs : row[s] \in {"unused", "open"} => s > since'[t]
    BY <1>0, <2>1, WatermarkAhead DEF TypeOK
  <2>3. Registering'
    BY <1>0, <1>1, <1>5, <2>1 DEF WaitInv, TypeOK, Registering, RegisterMark
  <2> QED
    BY <1>0, <1>4, <1>5, <2>1, <2>2, <2>3 DEF TypeOK, Registrations, RegisterMark
<1>6. CASE RegisterVerify(t)
  <2>1. /\ graph = Free /\ reg[t] = "marked"
        /\ \/ /\ reg' = [reg EXCEPT ![t] = "none"] /\ graph' = graph
              /\ since' = [since EXCEPT ![t] = 0]
           \/ reg' = [reg EXCEPT ![t] = "verified"] /\ graph' = t /\ since' = since
    BY <1>6 DEF RegisterVerify
  <2>2. \A u \in Tasks : reg[u] \notin {"verified", "unsatisfied", "satisfied"}
    BY <2>1 DEF WaitInv, Registering
  <2>3. Registering'
    BY <1>0, <2>1, <2>2 DEF TypeOK, Registering
  <2>4. \A s \in Seqs : row[s] \in {"unused", "open"} => s > since'[t]
    BY <1>0, <2>1 DEF WaitInv, Frontier, TypeOK
  <2>5. reg' \in [Tasks -> Registrations]
    <3>1. reg \in [Tasks -> Registrations] /\ {"none", "verified"} \subseteq Registrations
      BY <1>0 DEF TypeOK, Registrations
    <3> QED
      BY <2>1, <3>1
  <2>6. since' \in [Tasks -> Marks] /\ graph' \in Tasks \cup {Free}
    <3>1. since \in [Tasks -> Marks] /\ graph \in Tasks \cup {Free} /\ 0 \in Marks
      BY <1>0 DEF TypeOK
    <3> HIDE DEF Marks
    <3> QED
      BY <2>1, <3>1
  <2>7. /\ \A u \in Tasks \ {t} : reg'[u] = reg[u] /\ since'[u] = since[u]
        /\ reg[t] # "done" /\ reg'[t] # "done"
    BY <1>0, <2>1 DEF TypeOK
  <2> QED
    BY <1>0, <1>4, <1>6, <2>3, <2>4, <2>5, <2>6, <2>7 DEF TypeOK, RegisterVerify
<1>7. CASE RegisterObserve(t)
  <2>1. Registering'
    BY <1>0, <1>1, <1>7 DEF WaitInv, TypeOK, Registering, RegisterObserve
  <2>2. \A s \in Seqs : row[s] \in {"unused", "open"} => s > since'[t]
    BY <1>0, <1>7 DEF WaitInv, Frontier, TypeOK, RegisterObserve
  <2> QED
    BY <1>0, <1>4, <1>7, <2>1, <2>2 DEF TypeOK, Registrations, RegisterObserve
<1>8. CASE RegisterAbort(t)
  <2>1. Registering'
    BY <1>0, <1>1, <1>8 DEF WaitInv, TypeOK, Registering, RegisterAbort
  <2>2. \A s \in Seqs : row[s] \in {"unused", "open"} => s > since'[t]
    BY <1>0, <1>8 DEF TypeOK, RegisterAbort
  <2> QED
    BY <1>0, <1>4, <1>8, <2>1, <2>2 DEF TypeOK, Registrations, RegisterAbort, Fault
<1>9. CASE RegisterCommit(t)
  <2>1. graph = t /\ reg[t] \in {"unsatisfied", "satisfied"} /\ Suspending(t) /\ t \notin stopped
        /\ resume[t] = "none" /\ outcome[t] = "none" /\ t \notin cleared /\ hold[t] = "none"
    BY <1>0, <1>9 DEF WaitInv, Registering, OneTask, Waiting, Continuation, Suspending,
       RegisterCommit
  <2>2. PICK d \in {"in_place", "hibernate"} :
          /\ decision' = [decision EXCEPT ![t] = d]
          /\ \/ /\ reg[t] = "satisfied"
                /\ outcome' = [outcome EXCEPT ![t] = "satisfied"]
                /\ cleared' = cleared \cup {t}
                /\ UNCHANGED <<status, resume>>
             \/ /\ reg[t] = "unsatisfied"
                /\ outcome' = [outcome EXCEPT ![t] = "pending"]
                /\ status' = [status EXCEPT ![t] = "WAITING"]
                /\ resume' = [resume EXCEPT ![t] = IF d = "hibernate" THEN "sleeping" ELSE "none"]
                /\ UNCHANGED cleared
    BY <1>9 DEF RegisterCommit
  <2>3. reg' = [reg EXCEPT ![t] = "done"] /\ graph' = Free /\ since' = since /\ faults' = faults
    BY <1>9 DEF RegisterCommit
  <2>4. TypeOK'
    <3>1. /\ decision' \in [Tasks -> {"in_place", "hibernate"}]
          /\ outcome' \in [Tasks -> Outcomes] /\ cleared' \subseteq Tasks
          /\ status' \in [Tasks -> Statuses] /\ resume' \in [Tasks -> ResumeStates]
      BY <1>0, <2>2 DEF TypeOK, Outcomes, Statuses, ResumeStates
    <3>2. reg' \in [Tasks -> Registrations]
      BY <1>0, <2>3 DEF TypeOK, Registrations
    <3> QED
      BY <1>0, <2>3, <3>1, <3>2 DEF TypeOK
  <2>5. OthersKeep(t)
    BY <1>0, <2>2, <2>3 DEF TypeOK, OthersKeep, Kept
  <2>6. OneTask(t)'
    <3>1. Waiting(t)'
      BY <1>0, <1>1, <2>1, <2>2, <2>3 DEF WaitInv, Registering, TypeOK, Waiting
    <3>2. Suspending(t)'
      BY <1>0, <2>1, <2>2, <2>3 DEF TypeOK, Suspending
    <3> QED
      BY <1>0, <2>1, <3>1, <3>2 DEF OneTask, Continuation
  <2>7. Frontier' /\ Registering'
    BY <1>0, <1>1, <2>1, <2>3 DEF WaitInv, TypeOK, Frontier, Registering
  <2>8. NoLostWakeup'
    BY <1>0, <1>1, <2>1, <2>2, <2>3 DEF WaitInv, TypeOK, Registering, NoLostWakeup, Pending
  <2> QED
    BY <1>3, <2>4, <2>5, <2>6, <2>7, <2>8
<1> QED
  BY <1>5, <1>6, <1>7, <1>8, <1>9 DEF Register

----------------------------------------------------------------------------
\* What a listener does to the rows it has carried to the graph lock.
LEMMA AdvanceAhead ==
    ASSUME WaitInv, NEW l \in Listeners, mode[l] = "planned", NEW s \in plan[l].rows
    PROVE  /\ s \in Seqs /\ row[s] = "committed"
           /\ Advance(s) \in Marks /\ Advance(s) >= cursor
           /\ \A r \in Seqs : row[r] \in {"unused", "open"} => r > Advance(s)
<1> USE SeqAssumption DEF Seqs, Marks
<1>1. s \in Seqs /\ row[s] = "committed" /\ s <= mark[l] /\ mark[l] \in Marks /\ cursor \in Marks
  BY DEF WaitInv, TypeOK, Dispatched, Plans
<1>2. \A r \in Seqs : row[r] \in {"unused", "open"} => r > mark[l] /\ r > cursor
  BY DEF WaitInv, Frontier
<1> QED
  BY <1>1, <1>2 DEF Advance, Higher

\* A step of listener l that wakes nobody: the rows it stamps have no subscriber,
\* the cursor stays behind what is to come, and so does the mark of a tick.
LEMMA QuietInv ==
    ASSUME WaitInv, NEW l \in Listeners, TypeOK',
           UNCHANGED <<sourceVars, registerVars, waitVars, taskVars, continuationVars, paused>>,
           stamped' \subseteq Committed,
           \A s \in stamped' \ stamped : Subscribers(s) = {},
           \/ stamped' \subseteq stamped
           \/ graph = Free,
           \A s \in Seqs : row[s] \in {"unused", "open"} => s > cursor' /\
               (mode'[l] \in {"draining", "planned"} => s > mark'[l]),
           \A k \in Listeners \ {l} : mode'[k] = mode[k] /\ mark'[k] = mark[k] /\ plan'[k] = plan[k],
           \A s \in plan'[l].rows : row[s] = "committed" /\ s <= mark'[l],
           mode'[l] # "planned" => plan'[l].rows = {}
    PROVE  WaitInv'
<1> USE NameAssumption DEF sourceVars, registerVars, waitVars
<1>1. Settled' = Settled /\ Committed' = Committed
  BY DEF Settled, Committed
<1>2. InOrder' /\ Frontier' /\ Dispatched'
  BY <1>1 DEF WaitInv, InOrder, Frontier, Dispatched
<1>3. Registering'
  BY <1>1 DEF WaitInv, Registering
<1>4. NoLostWakeup'
  <2>1. ASSUME NEW t \in Tasks, t \notin paused, Pending(t), Settled
        PROVE  \E s \in Committed \ stamped' : s > since[t]
    <3>1. PICK s \in Committed \ stamped : s > since[t]
      BY <2>1 DEF WaitInv, NoLostWakeup
    <3>2. t \in Subscribers(s)
      BY <2>1, <3>1 DEF Subscribers, WaitInv, TypeOK, Committed, Seqs, Marks
    <3> QED
      BY <3>1, <3>2
  <2> QED
    BY <1>1, <2>1 DEF NoLostWakeup, Pending
<1> QED
  BY <1>1, <1>2, <1>3, <1>4, SharedInv DEF Shared

\* The tick of listener l is over.
LEMMA EndTickInv ==
    ASSUME WaitInv, NEW l \in Listeners, EndTick(l),
           lease' \in Listeners \cup {Free, Gone}, lapsed' \in BOOLEAN, faults' \in Nat,
           UNCHANGED <<sourceVars, outboxVars, registerVars, waitVars, taskVars, continuationVars,
                       paused, repairs>>
    PROVE  WaitInv'
<1> USE SeqAssumption DEF outboxVars
<1>1. /\ mode' \in [Listeners -> {"idle", "draining", "planned"}] /\ mark' \in [Listeners -> Marks]
      /\ tried' \in [Listeners -> SUBSET Seqs] /\ plan' \in [Listeners -> Plans]
      /\ mode'[l] = "idle" /\ plan'[l].rows = {}
      /\ \A k \in Listeners \ {l} : mode'[k] = mode[k] /\ mark'[k] = mark[k] /\ plan'[k] = plan[k]
  BY DEF WaitInv, TypeOK, EndTick, NoPlan, Plans, Marks, Seqs
<1>2. TypeOK'
  BY <1>1 DEF WaitInv, TypeOK, sourceVars, registerVars, waitVars, taskVars, continuationVars,
     intentVars, parkVars, launchVars
<1>3. stamped' \subseteq Committed /\ \A s \in Seqs : row[s] \in {"unused", "open"} => s > cursor'
  BY DEF WaitInv, Dispatched, Frontier
<1> QED
  BY <1>1, <1>2, <1>3, QuietInv

\* The lease changes hands beside the ticks.
LEMMA LeaseInv ==
    ASSUME WaitInv, lease' \in Listeners \cup {Free, Gone}, lapsed' \in BOOLEAN, faults' \in Nat,
           UNCHANGED <<sourceVars, outboxVars, drainVars, registerVars, waitVars, taskVars,
                       continuationVars, paused, repairs>>
    PROVE  WaitInv'
<1> USE DEF sourceVars, outboxVars, drainVars, registerVars, waitVars, taskVars,
   continuationVars,
        intentVars, parkVars, launchVars
<1>1. TypeOK'
  BY DEF WaitInv, TypeOK
<1>2. Settled' = Settled /\ Committed' = Committed
  BY DEF Settled, Committed
<1>3. Shared'
  BY <1>2 DEF WaitInv, Shared, InOrder, Frontier, Dispatched, Registering, NoLostWakeup, Pending
<1> QED
  BY <1>1, <1>2, <1>3, SharedInv

\* A lease expires.
LEMMA LapseInv ==
    ASSUME WaitInv, Lapse
    PROVE  WaitInv'
<1>1. lease' = lease /\ lapsed' \in BOOLEAN /\ faults' \in Nat
  BY DEF WaitInv, TypeOK, Lapse, Fault
<1>2. lease \in Listeners \cup {Free, Gone}
  BY DEF WaitInv, TypeOK
<1> QED
  BY <1>1, <1>2, LeaseInv DEF Lapse

\* A tick ends, is given up, or its lease is renewed or released.
LEMMA TickEndsInv ==
    ASSUME WaitInv, NEW l \in Listeners,
           EndDrain(l) \/ LeaseLost(l) \/ Restart(l) \/ Renew(l) \/ Stop(l)
    PROVE  WaitInv'
<1> USE DEF Apart, Quiet, Fault, countVars, waitVars, taskVars, continuationVars, intentVars
<1>0. lease \in Listeners \cup {Free, Gone} /\ lapsed \in BOOLEAN /\ faults \in Nat
  BY DEF WaitInv, TypeOK
<1>1. CASE EndDrain(l)
  BY <1>0, <1>1, EndTickInv DEF EndDrain, leaseVars
<1>2. CASE LeaseLost(l)
  BY <1>0, <1>2, EndTickInv DEF LeaseLost
<1>3. CASE Restart(l)
  <2>1. lease' \in Listeners \cup {Free, Gone} /\ faults' \in Nat
    BY <1>0, <1>3 DEF Restart
  <2>2. lapsed' \in BOOLEAN
    BY <1>0, <1>3, Zenon DEF Restart
  <2> QED
    BY <2>1, <2>2, <1>3, EndTickInv DEF Restart
<1>4. CASE Renew(l)
  BY <1>0, <1>4, LeaseInv DEF Renew
<1>5. CASE Stop(l)
  BY <1>0, <1>5, LeaseInv DEF Stop
<1> QED
  BY <1>1, <1>2, <1>3, <1>4, <1>5

\* A tick starts with a watermark that no later row is below.
LEMMA StartTickInv ==
    ASSUME WaitInv, NEW l \in Listeners, StartTick(l)
    PROVE  WaitInv'
<1> USE DEF outboxVars, countVars
<1>1. PICK m \in Marks : Watermark(m) /\ mark' = [mark EXCEPT ![l] = m]
  BY DEF StartTick
<1>2. TypeOK'
  BY <1>1 DEF WaitInv, TypeOK, StartTick, sourceVars, registerVars, waitVars, taskVars,
     continuationVars, intentVars, parkVars, launchVars
<1>3. \A s \in Seqs : row[s] \in {"unused", "open"} => s > cursor' /\ s > mark'[l]
  BY <1>1, WatermarkAhead DEF WaitInv, TypeOK, Frontier, StartTick
<1>4. /\ stamped' = stamped /\ plan' = plan /\ plan[l].rows = {}
      /\ mode' = [mode EXCEPT ![l] = "draining"]
  BY DEF WaitInv, Dispatched, StartTick
<1>5. \A k \in Listeners \ {l} : mode'[k] = mode[k] /\ mark'[k] = mark[k] /\ plan'[k] = plan[k]
  BY <1>1, <1>4 DEF WaitInv, TypeOK
<1>6. stamped' \subseteq Committed
  BY <1>4 DEF WaitInv, Dispatched
<1>7. UNCHANGED <<sourceVars, registerVars, waitVars, taskVars, continuationVars, paused>>
  BY DEF StartTick
<1> QED
  BY <1>2, <1>3, <1>4, <1>5, <1>6, <1>7, QuietInv

\* An attempt is chosen among the committed rows behind the mark.
LEMMA PlanInv ==
    ASSUME WaitInv, NEW l \in Listeners, Plan(l)
    PROVE  WaitInv'
<1> USE DEF outboxVars, countVars
<1>1. PICK kind \in {"retire", "forward", "retry", "recover"}, rows \in SUBSET Rows(l) :
        Choose(l, kind, rows)
  BY DEF Plan, PlanRetire, PlanForward, PlanRetry, PlanRecover, IsLeast, Unobserved, Forward,
     Retained, Stale
<1>2. rows \subseteq Committed /\ rows \subseteq Seqs /\ \A s \in rows : s <= mark[l]
  BY DEF Rows, Committed
<1>3. /\ plan' = [plan EXCEPT ![l] = [kind |-> kind, rows |-> rows, at |-> cursor]]
      /\ mode' = [mode EXCEPT ![l] = "planned"] /\ mark' = mark /\ stamped' = stamped
      /\ cursor' = cursor /\ mode[l] = "draining"
      /\ UNCHANGED <<sourceVars, leaseVars, tried, registerVars, waitVars, taskVars,
                     continuationVars, countVars>>
  BY <1>1 DEF Choose
<1>4. TypeOK'
  BY <1>2, <1>3 DEF WaitInv, TypeOK, Plans, sourceVars, leaseVars, registerVars, waitVars,
     taskVars,
     continuationVars, intentVars, parkVars, launchVars
<1>5. \A k \in Listeners \ {l} : mode'[k] = mode[k] /\ mark'[k] = mark[k] /\ plan'[k] = plan[k]
  BY <1>3 DEF WaitInv, TypeOK
<1>6. plan'[l].rows = rows /\ mode'[l] = "planned"
  BY <1>3 DEF WaitInv, TypeOK
<1>7. \A s \in Seqs : row[s] \in {"unused", "open"} => s > cursor' /\ s > mark'[l]
  BY <1>3 DEF WaitInv, Frontier
<1>8. stamped' \subseteq Committed /\ \A s \in rows : row[s] = "committed"
  BY <1>2, <1>3 DEF WaitInv, Dispatched, Committed
<1> QED
  BY <1>2, <1>3, <1>4, <1>5, <1>6, <1>7, <1>8, QuietInv

\* An attempt that wakes nobody goes on with the drain, after it stamped rows
\* without subscribers or gave rows back.
LEMMA GoOnInv ==
    ASSUME WaitInv, NEW l \in Listeners, NEW rows \in SUBSET Seqs, GoOn(l, rows), Apart, Quiet,
           UNCHANGED leaseVars, faults' \in Nat, mode[l] = "planned",
           stamped' \subseteq Committed, cursor' \in Marks,
           \A s \in Seqs : row[s] \in {"unused", "open"} => s > cursor',
           \A s \in stamped' \ stamped : Subscribers(s) = {},
           \/ stamped' \subseteq stamped
           \/ graph = Free
    PROVE  WaitInv'
<1> USE SeqAssumption DEF Apart, Quiet
<1>0. tried' \in [Listeners -> SUBSET Seqs]
  BY DEF WaitInv, TypeOK, GoOn
<1>1. /\ mode' \in [Listeners -> {"idle", "draining", "planned"}] /\ mark' = mark
      /\ plan' \in [Listeners -> Plans]
      /\ mode'[l] = "draining" /\ plan'[l].rows = {}
      /\ \A k \in Listeners \ {l} : mode'[k] = mode[k] /\ mark'[k] = mark[k] /\ plan'[k] = plan[k]
  BY DEF WaitInv, TypeOK, GoOn, NoPlan, Plans, Marks, Seqs
<1>2. stamped' \subseteq Seqs
  BY DEF Committed
<1>3. UNCHANGED <<sourceVars, registerVars, waitVars, taskVars, continuationVars, paused, repairs>>
  BY DEF waitVars, taskVars, continuationVars, intentVars
<1>4. TypeOK'
  BY <1>0, <1>1, <1>2, <1>3 DEF WaitInv, TypeOK, sourceVars, leaseVars, registerVars, waitVars,
     taskVars, continuationVars, intentVars, parkVars, launchVars
<1>5. \A s \in Seqs : row[s] \in {"unused", "open"} => s > mark'[l]
  BY <1>1 DEF WaitInv, Frontier
<1> QED
  BY <1>1, <1>3, <1>4, <1>5, QuietInv

\* Attempts that wake nobody.
LEMMA AttemptInv ==
    ASSUME WaitInv, NEW l \in Listeners, Retire(l) \/ Defer(l) \/ Raced(l)
    PROVE  WaitInv'
<1> USE DEF Fault
<1>0. /\ plan[l].rows \in SUBSET Seqs /\ stamped \subseteq Committed /\ faults \in Nat
      /\ cursor \in Marks /\ \A s \in Seqs : row[s] \in {"unused", "open"} => s > cursor
      /\ lease \in Listeners \cup {Free, Gone} /\ lapsed \in BOOLEAN
  BY DEF WaitInv, TypeOK, Plans, Dispatched, Frontier
<1>1. CASE Retire(l)
  <2> DEFINE rows == Unobserved(plan[l].rows)
  <2>1. CASE rows = {}
    BY <1>0, <1>1, <2>1, EndTickInv DEF Retire, Apart, Quiet, leaseVars, waitVars, taskVars,
       continuationVars, intentVars
  <2>2. CASE rows # {}
    <3>1. PICK s \in rows : stamped' = stamped \cup rows /\ cursor' = Advance(s) /\ GoOn(l, rows)
      BY <1>1, <2>2 DEF Retire
    <3>2. rows \subseteq plan[l].rows /\ \A r \in rows : Subscribers(r) = {}
      BY <1>0 DEF Unobserved, Seqs
    <3>3. rows \subseteq Committed
      BY <1>0, <3>2, <1>1, AdvanceAhead DEF Retire, Committed
    <3>4. /\ cursor' \in Marks
          /\ \A r \in Seqs : row[r] \in {"unused", "open"} => r > cursor'
      BY <1>1, <3>1, <3>2, AdvanceAhead DEF Retire
    <3>5. mode[l] = "planned" /\ graph = Free /\ Apart /\ Quiet /\ UNCHANGED <<leaseVars, faults>>
      BY <1>1 DEF Retire
    <3> HIDE DEF rows
    <3> QED
      BY <1>0, <3>1, <3>2, <3>3, <3>4, <3>5, GoOnInv
  <2> QED
    BY <2>1, <2>2
<1>2. CASE Defer(l)
  <2>1. CASE cursor = plan[l].at
    <3>1. PICK s \in plan[l].rows : cursor' = Advance(s)
      BY <1>2, <2>1 DEF Defer
    <3>2. /\ cursor' \in Marks
          /\ \A r \in Seqs : row[r] \in {"unused", "open"} => r > cursor'
      BY <1>2, <3>1, AdvanceAhead DEF Defer
    <3> QED
      BY <1>0, <1>2, <2>1, <3>2, GoOnInv DEF Defer
  <2>2. CASE cursor # plan[l].at
    BY <1>0, <1>2, <2>2, EndTickInv DEF Defer, Apart, Quiet, leaseVars, waitVars, taskVars,
       continuationVars, intentVars
  <2> QED
    BY <2>1, <2>2
<1>3. CASE Raced(l)
  BY <1>0, <1>3, GoOnInv DEF Raced, outboxVars
<1> QED
  BY <1>1, <1>2, <1>3

\* What an event does to one task.
LEMMA DeliverTask ==
    ASSUME WaitInv, NEW W \in SUBSET Tasks, \A t \in W : Pending(t), Deliver(W), Apart,
           NEW u \in Tasks
    PROVE  OneTask(u)'
<1> USE DEF Apart, sourceVars, registerVars, parkVars, launchVars
<1>0. OneTask(u) /\ Settled' = Settled
  BY DEF WaitInv, OneTask, Settled
<1>1. CASE u \notin W \/ ~Wakes(u)
  <2>1. outcome'[u] = outcome[u] /\ resume'[u] = resume[u] /\ status'[u] = status[u]
    BY <1>1 DEF Deliver
  <2> QED
    BY <1>0, <2>1, KeptInv DEF Kept
<1>2. CASE u \in W /\ Wakes(u) /\ u \notin stopped
  <2>1. outcome'[u] = "satisfied" /\ resume'[u] = resume[u] /\ status'[u] = status[u]
    BY <1>2 DEF Deliver
  <2>2. Waiting(u)'
    BY <1>0, <1>2, <2>1 DEF OneTask, Waiting, Wakes, Pending
  <2>3. Suspending(u)'
    BY <1>0, <1>2, <2>1 DEF OneTask, Continuation, Suspending
  <2> QED
    BY <1>2, <2>2, <2>3 DEF OneTask, Continuation
<1>3. CASE u \in W /\ Wakes(u) /\ u \in stopped
  <2>1. Parked(u) /\ resume[u] = "sleeping"
    BY <1>3 DEF Wakes, Fenced, OwnerLive
  <2>2. outcome'[u] = "satisfied" /\ resume'[u] = "queued" /\ status'[u] = "RESUME_PENDING"
    BY <1>3, <2>1 DEF Deliver, Parked
  <2>3. Waiting(u)'
    BY <1>0, <1>3, <2>2 DEF OneTask, Waiting, Wakes
  <2>4. Asleep(u) /\ u \in saved /\ epoch[u] > First /\ decision[u] = "hibernate"
    BY <1>0, <1>3, <2>1 DEF OneTask, Continuation, Reserved, Launched
  <2>5. Asleep(u)'
    BY <2>2, <2>4 DEF Asleep, Pending
  <2> QED
    BY <1>3, <2>2, <2>3, <2>4, <2>5 DEF OneTask, Continuation
<1> QED
  BY <1>1, <1>2, <1>3

\* A row is stamped only when none of the waits it may wake stays asleep.
LEMMA StampedWakes ==
    ASSUME WaitInv, NEW t \in Tasks \ paused, Pending(t), Settled, ~Wakes(t)
    PROVE  Retries(t)
<1>1. OneTask(t)
  BY DEF WaitInv, OneTask
<1>2. CASE t \notin stopped
  <2>1. Suspending(t)
    BY <1>1, <1>2 DEF OneTask, Continuation
  <2>2. ~Parked(t) /\ OwnerLive(t)
    BY <2>1, <1>2 DEF Suspending, Parked, OwnerLive
  <2> QED
    BY <1>2, <2>2 DEF Wakes, Retries, Fenced, Unavailable
<1>3. CASE t \in stopped
  <2>1. Asleep(t) /\ resume[t] = "sleeping" /\ decision[t] = "hibernate" /\ epoch[t] > First
    BY <1>1, <1>3 DEF OneTask, Continuation, Asleep
  <2>2. Parked(t) /\ hold[t] = "none"
    BY <2>1 DEF Asleep, Parked
  <2> QED
    BY <1>3, <2>1, <2>2 DEF Wakes, Retries, Held, Fenced
<1> QED
  BY <1>2, <1>3

\* A dispatched row wakes every subscriber that can be fenced, and is stamped only
\* when none of the others asks for a retry.
LEMMA DispatchInv ==
    ASSUME WaitInv, NEW l \in Listeners, Dispatch(l)
    PROVE  WaitInv'
<1> USE SeqAssumption, NameAssumption DEF Seqs, Marks
<1>0. mode[l] = "planned" /\ graph = Free /\ GoOn(l, plan[l].rows) /\ Apart
      /\ UNCHANGED <<leaseVars, faults>>
  BY DEF Dispatch
<1>1. PICK s \in plan[l].rows : Deliver(Subscribers(s)) /\ stamped' = Stamp(s) /\ cursor' = Advance(s)
  BY DEF Dispatch
<1>2. /\ s \in Seqs /\ row[s] = "committed" /\ cursor' \in 0..MaxSeq
      /\ \A r \in Seqs : row[r] \in {"unused", "open"} => r > cursor'
  BY <1>0, <1>1, AdvanceAhead
<1>3. Settled' = Settled /\ Committed' = Committed /\ stamped' \subseteq Committed
  BY <1>0, <1>1, <1>2 DEF WaitInv, Dispatched, Apart, sourceVars, Settled, Committed, Stamp
<1>4. \A u \in Tasks : OneTask(u)'
  BY <1>0, <1>1, DeliverTask DEF Subscribers
<1>5. /\ mode' \in [Listeners -> {"idle", "draining", "planned"}] /\ mark' = mark
      /\ tried' \in [Listeners -> SUBSET Seqs] /\ plan' \in [Listeners -> Plans]
      /\ mode'[l] = "draining" /\ plan'[l].rows = {}
      /\ \A k \in Listeners \ {l} : mode'[k] = mode[k] /\ plan'[k] = plan[k]
  BY <1>0 DEF WaitInv, TypeOK, GoOn, NoPlan, Plans
<1>6. TypeOK'
  <2>1. /\ outcome' \in [Tasks -> Outcomes] /\ resume' \in [Tasks -> ResumeStates]
        /\ status' \in [Tasks -> Statuses]
    BY <1>1 DEF WaitInv, TypeOK, Deliver, Outcomes, ResumeStates, Statuses
  <2>2. stamped' \subseteq Seqs
    BY <1>3 DEF Committed
  <2> QED
    BY <1>0, <1>2, <1>5, <2>1, <2>2 DEF WaitInv, TypeOK, Apart, sourceVars, leaseVars,
       registerVars,
       parkVars, launchVars
<1>7. InOrder' /\ Frontier' /\ Dispatched'
  BY <1>0, <1>2, <1>3, <1>5 DEF WaitInv, InOrder, Frontier, Dispatched, Apart, sourceVars,
     registerVars
<1>8. Registering'
  BY <1>0, <1>3 DEF WaitInv, Registering, Apart, registerVars
<1>9. NoLostWakeup'
  <2>1. ASSUME NEW t \in Tasks, t \notin paused, Pending(t)', Settled
        PROVE  \E r \in Committed \ stamped' : r > since[t]
    <3>1. Pending(t) /\ (t \in Subscribers(s) => ~Wakes(t))
      BY <1>1, <2>1 DEF Deliver, Pending
    <3>2. PICK r \in Committed \ stamped : r > since[t]
      BY <2>1, <3>1 DEF WaitInv, NoLostWakeup
    <3>3. CASE r # s \/ stamped' = stamped
      BY <1>1, <3>2, <3>3 DEF Stamp
    <3>4. CASE r = s /\ stamped' # stamped
      <4>1. t \in Subscribers(s)
        BY <3>1, <3>2, <3>4 DEF Subscribers, WaitInv, TypeOK, Committed
      <4>2. Retries(t)
        BY <2>1, <3>1, <4>1, StampedWakes
      <4> QED
        BY <1>1, <3>4, <4>1, <4>2 DEF Stamp
    <3> QED
      BY <3>3, <3>4
  <2> QED
    BY <1>0, <1>3, <2>1 DEF NoLostWakeup, Apart, registerVars
<1> QED
  BY <1>4, <1>6, <1>7, <1>8, <1>9 DEF WaitInv, OneTask

----------------------------------------------------------------------------
\* The invariant of the waits holds initially and after every step.
LEMMA InitInv == Init => WaitInv
<1> SUFFICES ASSUME Init PROVE WaitInv
  OBVIOUS
<1> USE SeqAssumption DEF Init
<1>1. TypeOK
  <2>1. /\ row \in [Seqs -> {"unused", "open", "committed", "lost"}]
        /\ settles \subseteq Seqs /\ stamped \subseteq Seqs /\ cursor \in Marks
        /\ lease \in Listeners \cup {Free, Gone} /\ graph \in Tasks \cup {Free}
    BY DEF Seqs, Marks
  <2>2. lapsed \in BOOLEAN
    BY Zenon
  <2>3. /\ mode \in [Listeners -> {"idle", "draining", "planned"}] /\ mark \in [Listeners -> Marks]
        /\ tried \in [Listeners -> SUBSET Seqs] /\ plan \in [Listeners -> Plans]
    BY DEF Seqs, Marks, Plans, NoPlan
  <2>4. /\ reg \in [Tasks -> Registrations] /\ since \in [Tasks -> Marks]
        /\ outcome \in [Tasks -> Outcomes] /\ decision \in [Tasks -> {"in_place", "hibernate"}]
        /\ cleared \subseteq Tasks
    BY DEF Seqs, Marks, Registrations, Outcomes
  <2>5. TaskTypes
    BY DEF TaskTypes, First, Sessions, Statuses, ResumeStates, Holds, Controls, Records
  <2> QED
    BY <2>1, <2>2, <2>3, <2>4, <2>5 DEF TypeOK, TaskTypes
<1>2. InOrder /\ Frontier /\ Dispatched
  BY DEF InOrder, Frontier, Dispatched, Seqs, NoPlan
<1>3. Registering /\ NoLostWakeup
  BY DEF Registering, NoLostWakeup, Pending
<1>4. \A t \in Tasks : Waiting(t) /\ Continuation(t)
  BY DEF Waiting, Continuation, Suspending
<1> QED
  BY <1>1, <1>2, <1>3, <1>4 DEF WaitInv

\* A stuttering step.
LEMMA StutterInv ==
    ASSUME WaitInv, UNCHANGED vars
    PROVE  WaitInv'
  BY LeaseInv DEF vars, listenerVars, leaseVars, countVars, WaitInv, TypeOK

\* Every step preserves the invariant.
LEMMA NextInv ==
    ASSUME WaitInv, [Next]_vars
    PROVE  WaitInv'
<1>1. CASE Sources
  BY <1>1, SourceInv DEF Sources
<1>2. CASE Registers
  BY <1>2, RegisterInv DEF Registers
<1>3. CASE Ticks
  <2>1. CASE Lapse
    BY <2>1, LapseInv
  <2>2. ASSUME NEW l \in Listeners, Tick(l) \/ Renew(l) \/ Stop(l) \/ Defer(l) \/ Restart(l)
        PROVE  WaitInv'
    BY <2>2, TickEndsInv, StartTickInv, PlanInv, AttemptInv, DispatchInv DEF Tick, Attempt
  <2> QED
    BY <1>3, <2>1, <2>2 DEF Ticks
<1>4. CASE InPlace
  BY <1>4, InPlaceInv DEF InPlace
<1>5. CASE Suspensions
  BY <1>5, StoppingInv, ParkingInv DEF Suspensions, SuspensionStep, SuspensionFault, Operator
<1>6. CASE Resumes
  BY <1>6, ReserveInv, LaunchInv, LaunchFailsInv DEF Resumes, ResumeStep, ResumeFault
<1>7. CASE UNCHANGED vars
  BY <1>7, StutterInv
<1> QED
  BY <1>1, <1>2, <1>3, <1>4, <1>5, <1>6, <1>7 DEF Next

\* Every reachable state satisfies the inductive invariant: its shared half and,
\* for every task, one of the stages of a continuation.
THEOREM WaitInvariant == Spec => []WaitInv
<1>1. Init => WaitInv
  BY InitInv
<1>2. WaitInv /\ [Next]_vars => WaitInv'
  BY NextInv
<1> QED
  BY <1>1, <1>2, PTL DEF Spec

\* No watermark, and no cursor, is ever above a row that may still commit.
THEOREM WatermarksBehind == Spec => []Frontier
<1>1. WaitInv => Frontier
  BY DEF WaitInv
<1> QED
  BY <1>1, WaitInvariant, PTL

\* A pending wait on a settled source always has an undispatched row to wake it,
\* for any number of writers, listeners and faults.
THEOREM WakeupKept == Spec => []NoLostWakeup
<1>1. WaitInv => NoLostWakeup
  BY DEF WaitInv
<1> QED
  BY <1>1, WaitInvariant, PTL

\* A task never has two agent processes, nor a new one while the old one runs or
\* its checkout is not released.
THEOREM SingleWriter == Spec => []OneWriter
<1>1. ASSUME WaitInv
      PROVE  OneWriter
  <2>1. ASSUME NEW t \in Tasks
        PROVE  /\ \E x : procs[t] \subseteq {x}
               /\ t \in stopped => First \notin procs[t] /\ t \in saved
               /\ procs[t] \ {First} # {} => t \in released
    <3>1. Continuation(t)
      BY <1>1 DEF WaitInv
    <3>2. CASE t \notin stopped
      BY <3>1, <3>2 DEF Continuation, Suspending
    <3>3. CASE t \in stopped
      <4>1. procs[t] = {} \/ Launched(t)
        BY <3>1, <3>3 DEF Continuation, Asleep, Reserved
      <4>2. CASE procs[t] = {}
        BY <3>1, <3>3, <4>2 DEF Continuation
      <4>3. CASE Launched(t)
        <5>1. epoch[t] > First /\ t \in saved /\ procs[t] \subseteq {epoch[t]}
          BY <3>1, <3>3, <4>3 DEF Continuation, Launched
        <5>2. First \notin procs[t]
          BY <1>1, <5>1 DEF WaitInv, TypeOK, First, Sessions
        <5>3. procs[t] # {} => t \in released
          BY <3>1, <3>3 DEF Continuation, Asleep
        <5> QED
          BY <5>1, <5>2, <5>3
      <4> QED
        BY <4>1, <4>2, <4>3
    <3> QED
      BY <3>2, <3>3
  <2>2. ASSUME NEW S, NEW x, S \subseteq {x}
        PROVE  Cardinality(S) <= 1
    <3>1. S = {} \/ S = {x}
      BY <2>2
    <3>2. Cardinality({}) = 0
      BY FS_EmptySet
    <3>3. Cardinality({x}) = 1
      BY FS_Singleton
    <3> QED
      BY <3>1, <3>2, <3>3
  <2> QED
    BY <2>1, <2>2 DEF OneWriter
<1> QED
  BY <1>1, WaitInvariant, PTL

\* The two services and the waits in place never touch rows, registrations or outcomes.
LEMMA ServicesApart ==
    ASSUME InPlace \/ Suspensions \/ Resumes
    PROVE  UNCHANGED <<sourceVars, listenerVars, registerVars, outcome>>
<1> USE DEF waitVars, continuationVars, parkVars
<1>1. CASE InPlace
  BY <1>1 DEF InPlace, Suspend, AckInPlace, untouched
<1>2. CASE Suspensions
  BY <1>2 DEF Suspensions, SuspensionStep, SuspensionFault, Operator, BeginStop, ProveStopped,
     StopUnproved, SaveWork, Park, Cleanup, PushFails, DetachFails, ControlLost, OldExits, Pause,
     Unpause, untouched
<1>3. CASE Resumes
  BY <1>3 DEF Resumes, ResumeStep, ResumeFault, AgentAnswers, Reserve, ReserveAgain,
     GrantExpires,
     PrepareFails, Launch, Spawn, Up, LaunchRefused, SpawnDied, SpawnUncertain, LaunchTimeout, Lift,
     Delivered, Acknowledge, NewDies, unmoved
<1> QED
  BY <1>1, <1>2, <1>3

\* Writers, listeners and the suspension service never clear a wait.
LEMMA ClearedApart ==
    ASSUME Sources \/ Ticks \/ Suspensions
    PROVE  cleared' = cleared
<1> USE DEF waitVars
<1>1. CASE Sources
  BY <1>1 DEF Sources, Begin, Commit, Rollback
<1>2. CASE Ticks
  BY <1>2 DEF Ticks, Tick, Plan, Attempt, StartTick, PlanRetire, PlanForward, PlanRetry,
     PlanRecover,
     Choose, EndDrain, Retire, Dispatch, Defer, Raced, LeaseLost, Renew, Stop, Restart, Lapse, Apart
<1>3. CASE Suspensions
  BY <1>3 DEF Suspensions, SuspensionStep, SuspensionFault, Operator, BeginStop, ProveStopped,
     StopUnproved, SaveWork, Park, Cleanup, PushFails, DetachFails, ControlLost, OldExits, Pause, Unpause
<1> QED
  BY <1>1, <1>2, <1>3

\* The durable cursor never moves back.
THEOREM CursorMoves == Spec => CursorMonotone
<1>1. ASSUME WaitInv, [Next]_vars
      PROVE  [cursor' >= cursor]_vars
  <2>1. cursor \in Nat
    BY <1>1, SeqAssumption DEF WaitInv, TypeOK, Marks
  <2>2. CASE UNCHANGED cursor
    BY <2>1, <2>2
  <2>3. ASSUME NEW l \in Listeners, Retire(l) \/ Dispatch(l) \/ Defer(l)
        PROVE  cursor' >= cursor
    <3>1. CASE UNCHANGED cursor
      BY <2>1, <3>1
    <3>2. ASSUME NEW s \in plan[l].rows, cursor' = Advance(s), mode[l] = "planned"
          PROVE  cursor' >= cursor
      BY <1>1, <3>2, AdvanceAhead
    <3>3. Retire(l) => UNCHANGED cursor \/ \E s \in plan[l].rows : cursor' = Advance(s)
      BY DEF Retire, Unobserved, outboxVars
    <3>4. Defer(l) => UNCHANGED cursor \/ \E s \in plan[l].rows : cursor' = Advance(s)
      BY DEF Defer, outboxVars
    <3>5. Dispatch(l) => \E s \in plan[l].rows : cursor' = Advance(s)
      BY DEF Dispatch
    <3>6. mode[l] = "planned"
      BY <2>3 DEF Retire, Dispatch, Defer
    <3> QED
      BY <2>3, <3>1, <3>2, <3>3, <3>4, <3>5, <3>6
  <2>4. CASE Ticks
    <3>1. UNCHANGED cursor \/ \E l \in Listeners : Retire(l) \/ Dispatch(l) \/ Defer(l)
      BY <2>4 DEF Ticks, Tick, Plan, Attempt, StartTick, PlanRetire, PlanForward, PlanRetry,
         PlanRecover, Choose, EndDrain, Raced, LeaseLost, Renew, Stop, Restart, Lapse, outboxVars
    <3> QED
      BY <2>2, <2>3, <3>1
  <2>5. CASE Sources \/ Registers
    <3>1. UNCHANGED listenerVars
      BY <2>5 DEF Sources, Begin, Commit, Rollback, Registers, RegisterMark, Register,
         RegisterVerify, RegisterObserve, RegisterCommit, RegisterAbort
    <3> QED
      BY <2>2, <3>1 DEF listenerVars, outboxVars
  <2>6. CASE InPlace \/ Suspensions \/ Resumes
    <3>1. UNCHANGED listenerVars
      BY <2>6, ServicesApart
    <3> QED
      BY <2>2, <3>1 DEF listenerVars, outboxVars
  <2>7. CASE UNCHANGED vars
    BY <2>2, <2>7 DEF vars, listenerVars, outboxVars
  <2> QED
    BY <1>1, <2>4, <2>5, <2>6, <2>7 DEF Next
<1> QED
  BY <1>1, WaitInvariant, PTL DEF Spec, CursorMonotone

\* The wait of a suspended task ends only by the hand of the task's one process,
\* which holds the claim.
THEOREM CurrentWriterAcks == Spec => AckByCurrentWriter
<1> DEFINE A == \A t \in Tasks :
        (t \in cleared' \ cleared /\ outcome[t] = "satisfied" /\ decision[t] = "hibernate")
            => procs[t] = {epoch[t]} /\ epoch[t] # First
<1>1. ASSUME WaitInv, [Next]_vars
      PROVE  [A]_vars
  <2>1. CASE cleared' = cleared
    BY <2>1
  <2>2. CASE Registers
    <3>1. ASSUME NEW u \in Tasks, RegisterCommit(u), NEW t \in Tasks, t \in cleared' \ cleared
          PROVE  outcome[t] # "satisfied"
      <4>1. t = u /\ reg[u] # "done"
        BY <3>1 DEF RegisterCommit
      <4> QED
        BY <1>1, <4>1 DEF WaitInv, Waiting, TypeOK, Outcomes
    <3>2. cleared' = cleared \/ \E u \in Tasks : RegisterCommit(u)
      BY <2>2 DEF Registers, RegisterMark, Register, RegisterVerify, RegisterObserve,
         RegisterAbort,
         waitVars
    <3> QED
      BY <2>1, <3>1, <3>2
  <2>3. CASE InPlace
    <3>1. cleared' = cleared \/ \E u \in Tasks : decision[u] = "in_place" /\ cleared' = cleared \cup {u}
      BY <2>3 DEF InPlace, Suspend, AckInPlace
    <3> QED
      BY <3>1
  <2>4. CASE Resumes
    <3>1. ASSUME NEW u \in Hibernators, NEW s \in procs[u], Acknowledge(u, s)
          PROVE  A
      <4>1. Continuation(u) /\ u \in Tasks /\ epoch[u] = s /\ resume[u] = "delivered"
            /\ cleared' = cleared \cup {u}
        BY <1>1, <3>1, TaskAssumption DEF WaitInv, Acknowledge, Holder
      <4>2. Launched(u) /\ epoch[u] > First
        BY <4>1 DEF Continuation, Suspending, Reserved
      <4>3. epoch[u] # First
        BY <1>1, <4>1, <4>2 DEF WaitInv, TypeOK, First, Sessions
      <4>4. procs[u] = {epoch[u]}
        BY <3>1, <4>1, <4>2 DEF Launched
      <4> QED
        BY <4>1, <4>3, <4>4
    <3>2. cleared' = cleared \/ \E u \in Hibernators : \E s \in procs[u] : Acknowledge(u, s)
      BY <2>4 DEF Resumes, ResumeStep, ResumeFault, AgentAnswers, Reserve, ReserveAgain,
         GrantExpires,
         PrepareFails, Launch, Spawn, Up, LaunchRefused, SpawnDied, SpawnUncertain, LaunchTimeout,
         Lift, Delivered, NewDies
    <3> QED
      BY <2>1, <3>1, <3>2
  <2>5. CASE Sources \/ Ticks \/ Suspensions
    <3>1. cleared' = cleared
      BY <2>5, ClearedApart
    <3> QED
      BY <2>1, <3>1
  <2>6. CASE UNCHANGED vars
    BY <2>6
  <2> QED
    BY <1>1, <2>2, <2>3, <2>4, <2>5, <2>6 DEF Next
<1> QED
  BY <1>1, WaitInvariant, PTL DEF Spec, AckByCurrentWriter

----------------------------------------------------------------------------
\* The stage of every wait depends on three columns.
LEMMA StageSame ==
    ASSUME UNCHANGED <<reg, outcome, cleared>>
    PROVE  stageOf' = stageOf
  BY DEF stageOf, Pending

\* Whether the source is settled depends on its rows.
LEMMA SettledSame ==
    ASSUME UNCHANGED sourceVars
    PROVE  Settled' = Settled
  BY DEF Settled, sourceVars

\* A source that is settled stays settled.
LEMMA SettledKept ==
    ASSUME WaitInv, Sources
    PROVE  Settled => Settled'
<1>1. row \in [Seqs -> {"unused", "open", "committed", "lost"}] /\ settles \subseteq Seqs
  BY DEF WaitInv, TypeOK
<1>2. PICK s \in Seqs : (\E b \in BOOLEAN : Begin(s, b)) \/ Commit(s) \/ Rollback(s)
  BY DEF Sources
<1>3. \A r \in Seqs \ {s} : row'[r] = row[r] /\ (r \in settles => r \in settles')
  BY <1>1, <1>2 DEF Begin, Commit, Rollback
<1>4. row[s] = "committed" => FALSE
  BY <1>1, <1>2 DEF Begin, Commit, Rollback, Open
<1> QED
  BY <1>1, <1>3, <1>4 DEF Settled

\* A registration asks once, or takes the outcome at once.
LEMMA RegisterOnce ==
    ASSUME WaitInv, NEW t \in Tasks, RegisterMark(t) \/ Register(t) \/ RegisterAbort(t)
    PROVE  [Once!Next]_(Once!onceVars)
<1>0. WaitInv /\ reg \in [Tasks -> Registrations] /\ outcome \in [Tasks -> Outcomes] /\ Waiting(t)
  BY DEF WaitInv, TypeOK
<1>1. Settled' = Settled
  BY SettledSame DEF RegisterMark, Register, RegisterVerify, RegisterObserve, RegisterCommit,
     RegisterAbort
<1>2. CASE ~RegisterCommit(t)
  <2>1. reg[t] # "done" /\ reg'[t] # "done" /\ \A u \in Tasks \ {t} : reg'[u] = reg[u]
    BY <1>0, <1>2 DEF RegisterMark, Register, RegisterVerify, RegisterObserve, RegisterAbort
  <2>2. outcome' = outcome /\ cleared' = cleared
    BY <1>2 DEF RegisterMark, Register, RegisterVerify, RegisterObserve, RegisterAbort, waitVars
  <2>3. stageOf' = stageOf
    BY <2>1, <2>2 DEF stageOf, Pending
  <2> QED
    BY <1>1, <2>3 DEF Once!onceVars
<1>3. CASE RegisterCommit(t)
  <2>1. reg' = [reg EXCEPT ![t] = "done"] /\ reg[t] # "done" /\ stageOf[t] = "absent"
    BY <1>3 DEF RegisterCommit, stageOf
  <2>2. t \notin cleared
    BY <1>0, <2>1 DEF Waiting
  <2>3. CASE reg[t] = "satisfied"
    <3>1. outcome' = [outcome EXCEPT ![t] = "satisfied"] /\ cleared' = cleared \cup {t} /\ Settled
      BY <1>0, <1>3, <2>3 DEF RegisterCommit, WaitInv, Registering
    <3>2. stageOf' = [stageOf EXCEPT ![t] = "taken"]
      BY <1>0, <2>1, <3>1 DEF stageOf, Pending
    <3> QED
      BY <1>1, <2>1, <3>1, <3>2 DEF Once!Next, Once!TakeAtOnce
  <2>4. CASE reg[t] # "satisfied"
    <3>1. outcome' = [outcome EXCEPT ![t] = "pending"] /\ cleared' = cleared
      BY <1>3, <2>4 DEF RegisterCommit
    <3>2. stageOf' = [stageOf EXCEPT ![t] = "asleep"]
      BY <1>0, <2>1, <3>1 DEF stageOf, Pending
    <3> QED
      BY <1>1, <2>1, <3>2 DEF Once!Next, Once!Ask
  <2> QED
    BY <2>3, <2>4
<1> QED
  BY <1>2, <1>3

\* A dispatched row wakes a set of sleeping tasks, or nobody.
LEMMA DispatchOnce ==
    ASSUME WaitInv, NEW l \in Listeners, Dispatch(l)
    PROVE  [Once!Next]_(Once!onceVars)
<1>1. PICK s \in plan[l].rows : Deliver(Subscribers(s))
  BY DEF Dispatch
<1>2. reg' = reg /\ cleared' = cleared /\ Settled' = Settled
  BY SettledSame DEF Dispatch, Apart, registerVars
<1> DEFINE W == {t \in Subscribers(s) : Wakes(t)}
<1>3. outcome' = [t \in Tasks |-> IF t \in W THEN "satisfied" ELSE outcome[t]]
  BY <1>1 DEF Deliver
<1>4. W \subseteq Tasks /\ \A t \in W : Pending(t) /\ Settled
  BY DEF Subscribers, Wakes
<1>5. \A t \in W : reg[t] = "done" /\ t \notin cleared
  BY <1>4 DEF WaitInv, Waiting, Pending
<1>6. \A t \in W : stageOf[t] = "asleep"
  BY <1>4, <1>5 DEF stageOf
<1> HIDE DEF W
<1>7. stageOf' = [t \in Tasks |-> IF t \in W THEN "awake" ELSE stageOf[t]]
  BY <1>2, <1>3, <1>4, <1>5 DEF stageOf, Pending
<1>8. CASE W = {}
  <2>1. stageOf' = stageOf
    BY <1>7, <1>8 DEF stageOf
  <2> QED
    BY <1>2, <2>1 DEF Once!onceVars
<1>9. CASE W # {}
  <2>1. Once!Wake(W)
    BY <1>2, <1>4, <1>6, <1>7, <1>9 DEF Once!Wake
  <2> QED
    BY <1>4, <2>1 DEF Once!Next
<1> QED
  BY <1>8, <1>9

\* The outcome of t is taken.
LEMMA TakeOnce ==
    ASSUME WaitInv, NEW t \in Tasks, cleared' = cleared \cup {t}, outcome[t] = "satisfied",
           UNCHANGED <<reg, outcome>>, Settled' = Settled
    PROVE  [Once!Next]_(Once!onceVars)
<1>1. CASE t \in cleared
  BY <1>1, StageSame DEF Once!onceVars
<1>2. CASE t \notin cleared
  <2>1. reg[t] = "done"
    BY DEF WaitInv, Waiting
  <2>2. stageOf[t] = "awake" /\ stageOf' = [stageOf EXCEPT ![t] = "taken"]
    BY <1>2, <2>1 DEF stageOf, Pending
  <2> QED
    BY <2>2 DEF Once!Next, Once!Take
<1> QED
  BY <1>1, <1>2

\* Every step is a step of the abstract wait, or a stutter of it.
LEMMA StepOnce ==
    ASSUME WaitInv, [Next]_vars
    PROVE  [Once!Next]_(Once!onceVars)
<1>1. ASSUME UNCHANGED <<reg, outcome, cleared>>, Settled' = Settled
      PROVE  [Once!Next]_(Once!onceVars)
  BY <1>1, StageSame DEF Once!onceVars
<1>2. CASE Sources
  <2>1. stageOf' = stageOf
    BY <1>2, StageSame DEF Sources, Begin, Commit, Rollback, registerVars, waitVars
  <2>2. Settled => Settled'
    BY <1>2, SettledKept
  <2>3. Settled \in BOOLEAN /\ Settled' \in BOOLEAN
    BY DEF Settled
  <2>4. CASE Settled' = Settled
    BY <2>1, <2>4 DEF Once!onceVars
  <2>5. CASE ~Settled /\ Settled'
    BY <2>1, <2>5 DEF Once!Next, Once!Settle
  <2> QED
    BY <2>2, <2>3, <2>4, <2>5
<1>3. CASE Registers
  BY <1>3, RegisterOnce DEF Registers
<1>4. CASE Ticks
  <2>1. CASE Lapse
    BY <1>1, <2>1, SettledSame DEF Lapse, registerVars, waitVars
  <2>2. ASSUME NEW l \in Listeners, Tick(l) \/ Renew(l) \/ Stop(l) \/ Defer(l) \/ Restart(l)
        PROVE  [Once!Next]_(Once!onceVars)
    <3>1. CASE Dispatch(l)
      BY <3>1, DispatchOnce
    <3>2. CASE StartTick(l) \/ Plan(l) \/ EndDrain(l) \/ Renew(l) \/ Stop(l)
      <4>1. UNCHANGED <<sourceVars, registerVars, waitVars>>
        BY <3>2 DEF StartTick, Plan, PlanRetire, PlanForward, PlanRetry, PlanRecover, Choose,
           EndDrain,
           Renew, Stop
      <4> QED
        BY <1>1, <4>1, SettledSame DEF registerVars, waitVars
    <3>3. CASE Retire(l) \/ Defer(l) \/ Raced(l) \/ LeaseLost(l) \/ Restart(l)
      <4>1. Apart /\ Quiet
        BY <3>3 DEF Retire, Defer, Raced, LeaseLost, Restart
      <4> QED
        BY <1>1, <4>1, SettledSame DEF Apart, Quiet, registerVars
    <3> QED
      BY <2>2, <3>1, <3>2, <3>3 DEF Tick, Attempt
  <2> QED
    BY <1>4, <2>1, <2>2 DEF Ticks
<1>5. CASE InPlace
  <2>1. UNCHANGED <<sourceVars, reg, outcome>>
    BY <1>5, ServicesApart DEF registerVars
  <2>2. cleared' = cleared \/ \E t \in Tasks : outcome[t] = "satisfied" /\ cleared' = cleared \cup {t}
    BY <1>5 DEF InPlace, Suspend, AckInPlace
  <2> QED
    BY <1>1, <2>1, <2>2, SettledSame, TakeOnce
<1>6. CASE Suspensions
  <2>1. UNCHANGED <<sourceVars, reg, outcome, cleared>>
    BY <1>6, ServicesApart, ClearedApart DEF registerVars
  <2> QED
    BY <1>1, <2>1, SettledSame
<1>7. CASE Resumes
  <2>1. UNCHANGED <<sourceVars, reg, outcome>>
    BY <1>7, ServicesApart DEF registerVars
  <2>2. \/ cleared' = cleared
        \/ \E t \in Hibernators : \E s \in procs[t] : Acknowledge(t, s)
    BY <1>7 DEF Resumes, ResumeStep, ResumeFault, AgentAnswers, Reserve, ReserveAgain,
       GrantExpires,
       PrepareFails, Launch, Spawn, Up, LaunchRefused, SpawnDied, SpawnUncertain, LaunchTimeout, Lift,
       Delivered, NewDies
  <2>3. ASSUME NEW t \in Hibernators, NEW s \in procs[t], Acknowledge(t, s)
        PROVE  t \in Tasks /\ outcome[t] = "satisfied" /\ cleared' = cleared \cup {t}
    <3>1. t \in Tasks /\ Waiting(t) /\ Continuation(t) /\ outcome[t] \in Outcomes
      BY TaskAssumption DEF WaitInv, TypeOK
    <3>2. outcome[t] # "pending" /\ resume[t] = "delivered" /\ cleared' = cleared \cup {t}
      BY <2>3 DEF Acknowledge, Holder, Pending
    <3>3. reg[t] = "done"
      BY <3>1, <3>2 DEF Waiting
    <3> QED
      BY <3>1, <3>2, <3>3 DEF Waiting, Outcomes
  <2> QED
    BY <1>1, <2>1, <2>2, <2>3, SettledSame, TakeOnce
<1>8. CASE UNCHANGED vars
  <2>1. UNCHANGED <<sourceVars, reg, outcome, cleared>>
    BY <1>8 DEF vars, registerVars, waitVars
  <2> QED
    BY <1>1, <2>1, SettledSame
<1> QED
  BY <1>2, <1>3, <1>4, <1>5, <1>6, <1>7, <1>8 DEF Next

\* The system implements the promise of a durable wait: woken once, only by a
\* settled source, and the outcome taken once.
THEOREM WaitsImplementOnce == Spec => WakesOnce
<1>1. Init => Once!Init
  <2> SUFFICES ASSUME Init PROVE Once!Init
    OBVIOUS
  <2>1. Settled = FALSE
    BY DEF Init, Settled
  <2>2. stageOf = [t \in Tasks |-> "absent"]
    BY DEF Init, stageOf
  <2> QED
    BY <2>1, <2>2 DEF Once!Init
<1>2. WaitInv /\ [Next]_vars => [Once!Next]_(Once!onceVars)
  BY StepOnce
<1> QED
  BY <1>1, <1>2, WaitInvariant, PTL DEF Spec, WakesOnce, Once!Spec

=============================================================================
