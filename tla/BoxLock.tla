------------------------------- MODULE BoxLock -------------------------------
(***************************************************************************)
(* Box admission: processes that share one host take flocks on stable      *)
(* files, without a server.  The lock order is turnstile -> box -> slots;  *)
(* every lock is tried without blocking and polled.  A shared client takes *)
(* the box shared and as many slots as it weighs, an exclusive client the  *)
(* box exclusively and every slot it can see.  Clients of older checkouts  *)
(* take one slot and neither turnstile nor box.  Observers, and the scan   *)
(* of an exclusive client, test a lock by taking it for a moment.          *)
(*                                                                         *)
(* A flock belongs to the open descriptor: it ends when the last process   *)
(* that has the descriptor closes it, so a child that inherited it keeps   *)
(* the lock when its wrapper dies.                                         *)
(***************************************************************************)
EXTENDS Naturals, FiniteSets

CONSTANTS
    Clients,        \* processes that acquire once each
    Observers,      \* processes that take one snapshot each (model bound)
    Exclusive,      \* clients that ask for exclusive admission
    Legacy,         \* slot-only clients of older checkouts
    FullSuite,      \* clients that first queue for the full-suite lock
    Detached,       \* clients whose child does not inherit the descriptors
    Capacity,       \* configured slots of each client
    Weight,         \* slots a shared client asks for
    MaxSlots,       \* no slot file has a higher number (model bound)
    None            \* nobody

Slots == 0..(MaxSlots - 1)

ASSUME ClientAssumption ==
    /\ Exclusive \subseteq Clients /\ Legacy \subseteq Clients
    /\ FullSuite \subseteq Clients /\ Detached \subseteq Clients
    /\ (Exclusive \cup FullSuite) \cap Legacy = {}
    /\ Clients \cap Observers = {} /\ None \notin Clients
ASSUME CapacityAssumption ==
    /\ MaxSlots \in Nat \ {0} /\ None \notin Nat
    /\ Capacity \in [Clients -> 1..MaxSlots]
    /\ Weight \in [Clients -> 1..MaxSlots]
    /\ \A c \in Clients : Weight[c] <= Capacity[c]

VARIABLES
    pc,             \* how far each client is
    full,           \* full-suite/slot-0.lock
    turnstile,      \* turnstile.lock
    box,            \* holders of box.lock; the mode is the clients' own
    holder, record, \* slot-N.lock: who holds it, what JSON it carries
    cursor, cap,    \* the client's scan or claim loop over 0..cap-1
    seen, flagged,  \* the scan's record of the current slot, its verdict
    look,           \* how far each observer's snapshot is
    probe           \* the file whose lock a test holds for a moment

lockVars == <<full, turnstile, box, holder>>
loopVars == <<cursor, cap>>
scanVars == <<seen, flagged>>
vars == <<pc, lockVars, record, loopVars, scanVars, look, probe>>

-----------------------------------------------------------------------------
Step ==
    {"queued",      \* wants the full-suite lock
     "turnstile",   \* polls the turnstile
     "try",         \* has it, at the head of the admission loop or asleep there
     "scan",        \* exclusive: at slot "cursor" of its snapshot
     "test",        \* ... has read that slot's record
     "probing",     \* ... holds that slot's lock for the test
     "scanned",     \* no incompatible holder was seen
     "claim",       \* has the box, claims slots
     "legacy",      \* slot-only client: polls the slots
     "locked",      \* ... has a slot, record not yet written
     "admitted",    \* the with block is entered
     "running",     \* the child runs
     "orphan",      \* the child runs, the wrapper is gone
     "out"}         \* done, refused, timed out or killed

\* What a slot file says: nothing yet, a record of this protocol, anything else.
Record == {"absent", "versioned", "other"}

\* Files a test may hold for a moment: the slots and the other three locks.
FullFile == MaxSlots
BoxFile == MaxSlots + 1
TurnstileFile == MaxSlots + 2
BoxShared == MaxSlots + 3       \* box.lock, but taken shared
Files == 0..(MaxSlots + 3)

TypeOK ==
    /\ pc \in [Clients -> Step]
    /\ full \in Clients \cup {None}
    /\ turnstile \in Clients \cup {None}
    /\ box \subseteq Clients
    /\ holder \in [Slots -> Clients \cup {None}]
    /\ record \in [Slots -> Record]
    /\ cursor \in [Clients -> 0..MaxSlots]
    /\ cap \in [Clients -> 1..MaxSlots]
    /\ seen \in [Clients -> Record]
    /\ flagged \in [Clients -> BOOLEAN]
    /\ look \in [Observers -> 0..(MaxSlots + 3)]
    /\ probe \in [Clients \cup Observers -> Files \cup {None}]

Entry(c) ==
    CASE c \in Legacy -> "legacy"
      [] c \in FullSuite -> "queued"
      [] OTHER -> "turnstile"

\* Slot files and their records survive every client, so a fresh directory and
\* one with the leftovers of earlier runs are both initial.
Init ==
    /\ pc = [c \in Clients |-> Entry(c)]
    /\ full = None /\ turnstile = None /\ box = {}
    /\ holder = [i \in Slots |-> None]
    /\ record \in [Slots -> Record]
    /\ \A i \in Slots : record[i] # "absent" => \A k \in 0..i : record[k] # "absent"
    /\ cursor = [c \in Clients |-> 0]
    /\ cap = [c \in Clients |-> 1]
    /\ seen = [c \in Clients |-> "absent"]
    /\ flagged = [c \in Clients |-> FALSE]
    /\ look = [o \in Observers |-> 0]
    /\ probe = [p \in Clients \cup Observers |-> None]

-----------------------------------------------------------------------------
\* flock, LOCK_NB

Untested(f) == \A p \in Clients \cup Observers : probe[p] # f

FullFree == full = None /\ Untested(FullFile)
TurnstileFree == turnstile = None /\ Untested(TurnstileFile)
SlotFree(i) == holder[i] = None /\ Untested(i)

\* Mutant: an exclusive client asks for the box in shared mode.
BoxFreeShared(c) == Untested(BoxFile)

BoxFreeFor(c) ==
    IF c \in Exclusive THEN box = {} /\ Untested(BoxFile) /\ Untested(BoxShared)
                       ELSE box \cap Exclusive = {} /\ Untested(BoxFile)

Claims(c) == {i \in Slots : holder[i] = c}

\* Mutant: exclusive admission takes its weight, not the whole capacity.
NeededWeight(c) == Weight[c]

Needed(c) == IF c \in Exclusive THEN cap[c] ELSE Weight[c]

\* observed_slot_count: slot files left by larger overrides count too.
Observes(c, n) ==
    /\ \A i \in Slots : record[i] # "absent" => i < n
    /\ n = Capacity[c] \/ (n > Capacity[c] /\ record[n - 1] # "absent")

Goto(c, step) == pc' = [pc EXCEPT ![c] = step]

\* Every descriptor of c is closed in its last process.
Close(c) ==
    /\ full' = IF full = c THEN None ELSE full
    /\ turnstile' = IF turnstile = c THEN None ELSE turnstile
    /\ box' = box \ {c}
    /\ holder' = [i \in Slots |-> IF holder[i] = c THEN None ELSE holder[i]]
    /\ probe' = [probe EXCEPT ![c] = None]

-----------------------------------------------------------------------------
\* BoxLock.acquire

TakeFull(c) ==
    /\ pc[c] = "queued" /\ FullFree
    /\ full' = c
    /\ Goto(c, "turnstile")
    /\ UNCHANGED <<turnstile, box, holder, record, loopVars, scanVars, look, probe>>

\* Mutant: only exclusive clients pass the turnstile.
TakeTurnstileExclusive(c) ==
    /\ pc[c] = "turnstile" /\ (c \in Exclusive => TurnstileFree)
    /\ turnstile' = IF c \in Exclusive THEN c ELSE turnstile
    /\ Goto(c, "try")
    /\ UNCHANGED <<full, box, holder, record, loopVars, scanVars, look, probe>>

\* The version check and the turnstile's record change nothing others decide on.
TakeTurnstile(c) ==
    /\ pc[c] = "turnstile" /\ TurnstileFree
    /\ turnstile' = c
    /\ Goto(c, "try")
    /\ UNCHANGED <<full, box, holder, record, loopVars, scanVars, look, probe>>

\* snapshot() before each exclusive try: every slot, record first, lock second.
\* Its own tests of box and turnstile can only meet another snapshot's.
ScanStart(c) ==
    /\ pc[c] = "try" /\ c \in Exclusive
    /\ \E n \in 1..MaxSlots : Observes(c, n) /\ cap' = [cap EXCEPT ![c] = n]
    /\ cursor' = [cursor EXCEPT ![c] = 0]
    /\ flagged' = [flagged EXCEPT ![c] = FALSE]
    /\ Goto(c, "scan")
    /\ UNCHANGED <<lockVars, record, seen, look, probe>>

NextSlot(c) == cursor' = [cursor EXCEPT ![c] = @ + 1] /\ UNCHANGED cap

ScanRead(c) ==
    /\ pc[c] = "scan" /\ cursor[c] < cap[c]
    /\ IF record[cursor[c]] = "absent"
         THEN NextSlot(c) /\ UNCHANGED <<pc, seen>>
         ELSE /\ seen' = [seen EXCEPT ![c] = record[cursor[c]]]
              /\ Goto(c, "test")
              /\ UNCHANGED loopVars
    /\ UNCHANGED <<lockVars, record, flagged, look, probe>>

\* Mutant: the record is trusted, the lock is not tested again.
ScanTrust(c) ==
    /\ pc[c] = "test"
    /\ flagged' = [flagged EXCEPT ![c] = @ \/ seen[c] = "other"]
    /\ NextSlot(c) /\ Goto(c, "scan")
    /\ UNCHANGED <<lockVars, record, seen, look, probe>>

ScanTest(c) ==
    /\ pc[c] = "test"
    /\ IF SlotFree(cursor[c])
         THEN /\ probe' = [probe EXCEPT ![c] = cursor[c]]
              /\ Goto(c, "probing")
              /\ UNCHANGED <<loopVars, flagged>>
         ELSE /\ flagged' = [flagged EXCEPT ![c] = @ \/ seen[c] = "other"]
              /\ NextSlot(c) /\ Goto(c, "scan")
              /\ UNCHANGED probe
    /\ UNCHANGED <<lockVars, record, seen, look>>

ScanUnlock(c) ==
    /\ pc[c] = "probing"
    /\ probe' = [probe EXCEPT ![c] = None]
    /\ NextSlot(c) /\ Goto(c, "scan")
    /\ UNCHANGED <<lockVars, record, scanVars, look>>

\* IncompatibleLockClient, or on to the box.
ScanEnd(c) ==
    /\ pc[c] = "scan" /\ cursor[c] = cap[c]
    /\ IF flagged[c] THEN Close(c) /\ Goto(c, "out")
                     ELSE Goto(c, "scanned") /\ UNCHANGED <<lockVars, probe>>
    /\ UNCHANGED <<record, loopVars, scanVars, look>>

TryBox(c) ==
    /\ pc[c] = (IF c \in Exclusive THEN "scanned" ELSE "try")
    /\ IF BoxFreeFor(c)
         THEN /\ box' = box \cup {c}
              /\ \E n \in 1..MaxSlots :
                    /\ IF c \in Exclusive THEN Observes(c, n) ELSE n = Capacity[c]
                    /\ cap' = [cap EXCEPT ![c] = n]
              /\ cursor' = [cursor EXCEPT ![c] = 0]
              /\ Goto(c, "claim")
         ELSE Goto(c, "try") /\ UNCHANGED <<box, loopVars>>
    /\ UNCHANGED <<full, turnstile, holder, record, scanVars, look, probe>>

\* Mutant: a slot's new holder leaves the record it found.
ClaimSlotSilent(c) ==
    LET i == cursor[c]
    IN  /\ pc[c] = "claim" /\ i < cap[c]
        /\ Cardinality(Claims(c)) < Needed(c)
        /\ holder' = [holder EXCEPT ![i] = IF SlotFree(i) THEN c ELSE @]
        /\ record' = [record EXCEPT ![i] = IF @ = "absent" THEN "other" ELSE @]
        /\ NextSlot(c)
        /\ UNCHANGED <<pc, full, turnstile, box, scanVars, look, probe>>

ClaimSlot(c) ==
    LET i == cursor[c]
    IN  /\ pc[c] = "claim" /\ i < cap[c]
        /\ Cardinality(Claims(c)) < Needed(c)
        /\ IF SlotFree(i)
             THEN /\ holder' = [holder EXCEPT ![i] = c]
                  /\ record' = [record EXCEPT ![i] = "versioned"]
             ELSE UNCHANGED <<holder, record>>
        /\ NextSlot(c)
        /\ UNCHANGED <<pc, full, turnstile, box, scanVars, look, probe>>

\* Mutant: a claim that ran out of slots is admitted with what it has.
AdmitPartial(c) ==
    /\ pc[c] = "claim" /\ Claims(c) # {}
    /\ Cardinality(Claims(c)) = Needed(c) \/ cursor[c] = cap[c]
    /\ turnstile' = None
    /\ Goto(c, "admitted")
    /\ UNCHANGED <<full, box, holder, record, loopVars, scanVars, look, probe>>

\* The turnstile goes back before the with block is entered.
Admit(c) ==
    /\ pc[c] = "claim" /\ Cardinality(Claims(c)) = Needed(c)
    /\ turnstile' = None
    /\ Goto(c, "admitted")
    /\ UNCHANGED <<full, box, holder, record, loopVars, scanVars, look, probe>>

\* Mutant: only the slots of a partial claim are given back.
RollbackSlots(c) ==
    /\ pc[c] = "claim" /\ cursor[c] = cap[c]
    /\ Cardinality(Claims(c)) < Needed(c)
    /\ holder' = [i \in Slots |-> IF holder[i] = c THEN None ELSE holder[i]]
    /\ Goto(c, "try")
    /\ UNCHANGED <<full, turnstile, box, record, loopVars, scanVars, look, probe>>

\* A partial claim is given back, slots then box, before the next wait.
Rollback(c) ==
    /\ pc[c] = "claim" /\ cursor[c] = cap[c]
    /\ Cardinality(Claims(c)) < Needed(c)
    /\ box' = box \ {c}
    /\ holder' = [i \in Slots |-> IF holder[i] = c THEN None ELSE holder[i]]
    /\ Goto(c, "try")
    /\ UNCHANGED <<full, turnstile, record, loopVars, scanVars, look, probe>>

-----------------------------------------------------------------------------
\* SlotSemaphore.acquire of an older checkout

\* One pass tries the slots in order and creates every file it tries.
LegacyTake(c, i) ==
    /\ pc[c] = "legacy" /\ i < Capacity[c] /\ SlotFree(i)
    /\ \A k \in 0..(i - 1) : record[k] # "absent"
    /\ holder' = [holder EXCEPT ![i] = c]
    /\ record' = [record EXCEPT ![i] = IF @ = "absent" THEN "other" ELSE @]
    /\ Goto(c, "locked")
    /\ UNCHANGED <<full, turnstile, box, loopVars, scanVars, look, probe>>

LegacyWrite(c) ==
    /\ pc[c] = "locked"
    /\ record' = [i \in Slots |-> IF holder[i] = c THEN "other" ELSE record[i]]
    /\ Goto(c, "admitted")
    /\ UNCHANGED <<lockVars, loopVars, scanVars, look, probe>>

-----------------------------------------------------------------------------
\* Execution and its ends

Spawn(c) ==
    /\ pc[c] = "admitted"
    /\ Goto(c, "running")
    /\ UNCHANGED <<lockVars, record, loopVars, scanVars, look, probe>>

Finish(c) ==
    /\ pc[c] \in {"running", "orphan"}
    /\ Close(c) /\ Goto(c, "out")
    /\ UNCHANGED <<record, loopVars, scanVars, look>>

\* Mutant: a wrapper unlocks instead of closing its descriptors.
DetachUnlocks(c) ==
    /\ pc[c] = "running"
    /\ Goto(c, "orphan")
    /\ Close(c)
    /\ UNCHANGED <<record, loopVars, scanVars, look>>

\* The wrapper is killed, or leaves, while a process it started still runs.
Detach(c) ==
    /\ pc[c] = "running"
    /\ Goto(c, "orphan")
    /\ IF c \in Detached THEN Close(c) ELSE UNCHANGED <<lockVars, probe>>
    /\ UNCHANGED <<record, loopVars, scanVars, look>>

\* Timeout, cancellation, an error or a kill before there is a child.
GiveUp(c) ==
    /\ pc[c] \notin {"running", "orphan", "out"}
    /\ Close(c) /\ Goto(c, "out")
    /\ UNCHANGED <<record, loopVars, scanVars, look>>

-----------------------------------------------------------------------------
\* Snapshots: aq test --aq-status, metrics, the wait callback of a queued client

\* Exclusive first; box.lock falls back to shared.
Testable(f) ==
    CASE f \in Slots -> record[f] # "absent" /\ SlotFree(f)
      [] f = FullFile -> FullFree
      [] f = BoxFile -> box = {} /\ Untested(BoxFile) /\ Untested(BoxShared)
      [] OTHER -> TurnstileFree
SharedTestable == box \cap Exclusive = {} /\ Untested(BoxFile)

\* The next file whose lock is free when its turn comes; the others are passed.
Look(o, f) ==
    /\ probe[o] = None /\ look[o] <= f
    /\ \/ Testable(f) /\ probe' = [probe EXCEPT ![o] = f]
       \/ /\ f = BoxFile /\ ~Testable(f) /\ SharedTestable
          /\ probe' = [probe EXCEPT ![o] = BoxShared]
    /\ look' = [look EXCEPT ![o] = f + 1]
    /\ UNCHANGED <<pc, lockVars, record, loopVars, scanVars>>

LookAway(o) ==
    /\ probe[o] # None
    /\ probe' = [probe EXCEPT ![o] = None]
    /\ UNCHANGED <<pc, lockVars, record, loopVars, scanVars, look>>

-----------------------------------------------------------------------------
Scan(c) == ScanStart(c) \/ ScanRead(c) \/ ScanTest(c) \/ ScanUnlock(c) \/ ScanEnd(c)
Acquire(c) ==
    \/ TakeFull(c) \/ TakeTurnstile(c) \/ Scan(c) \/ TryBox(c)
    \/ ClaimSlot(c) \/ Admit(c) \/ Rollback(c)
LegacyAcquire(c) == (\E i \in Slots : LegacyTake(c, i)) \/ LegacyWrite(c)

Next ==
    \/ \E c \in Clients :
          \/ Acquire(c) \/ LegacyAcquire(c)
          \/ Spawn(c) \/ Finish(c) \/ Detach(c) \/ GiveUp(c)
    \/ \E o \in Observers : LookAway(o) \/ \E f \in 0..TurnstileFile : Look(o, f)

Spec == Init /\ [][Next]_vars

\* A process that is not killed goes on, a test run ends (run_timeout), and a
\* snapshot is finite.  Nobody has to time out, and nobody has to die.
Fairness ==
    /\ \A c \in Clients :
          WF_vars(Acquire(c)) /\ WF_vars(LegacyAcquire(c)) /\ WF_vars(Spawn(c) \/ Finish(c))
    /\ \A o \in Observers : WF_vars(LookAway(o))

FairSpec == Spec /\ Fairness

-----------------------------------------------------------------------------
\* Invariants

Inside(c) == pc[c] \in {"admitted", "running", "orphan"}
Runs(c) == pc[c] \in {"running", "orphan"}

\* An exclusive client inside admission is alone among the clients of this
\* protocol, whether the wrapper or only its orphaned child is left of either,
\* and whatever capacity each of them was configured with.
BoxExclusive ==
    \A c \in Exclusive \ Detached, d \in Clients \ (Legacy \cup Detached) :
        Inside(c) /\ Inside(d) => c = d

\* Running work keeps what it was admitted with, box, slots and full-suite lock,
\* also after its wrapper died ("a wrapper's death does not release a running
\* child's capacity").
RunningHolds ==
    \A c \in Clients : Runs(c) =>
        /\ c \notin Legacy => c \in box /\ Cardinality(Claims(c)) = Needed(c)
        /\ c \in Legacy => Claims(c) # {}
        /\ c \in FullSuite => full = c

\* A client that waits holds no capacity, whichever way it came to wait, and one
\* inside no longer holds the turnstile the next exclusive client drains behind.
WaitersHoldNothing ==
    \A c \in Clients :
        /\ pc[c] \notin {"claim", "locked"} /\ ~Inside(c) => Claims(c) = {} /\ c \notin box
        /\ Inside(c) \/ pc[c] = "queued" => turnstile # c

\* The migration fence: a slot-only client next to an exclusive one has a slot no
\* exclusive client could observe when it got the box, above its own capacity.
LegacyFenced ==
    \A c \in Exclusive \ Detached, d \in Legacy : Inside(c) /\ Inside(d) =>
        \A i \in Claims(d) : i >= cap[c] /\ i >= Capacity[c]

-----------------------------------------------------------------------------
\* The inductive invariant: which step holds which lock

\* c's descriptors are open in some process.
Open(c) == pc[c] # "out" /\ ~(pc[c] = "orphan" /\ c \in Detached)

OwnSteps ==
    \A c \in Clients :
        /\ c \in Legacy => pc[c] \in {"legacy", "locked", "out"} \/ Inside(c)
        /\ c \notin Legacy => pc[c] \notin {"legacy", "locked"}
        /\ pc[c] = "queued" => c \in FullSuite

TurnstileHeld ==
    \A c \in Clients :
        turnstile = c <=> pc[c] \in {"try", "scan", "test", "probing", "scanned", "claim"}

FullHeld ==
    \A c \in Clients : full = c <=> c \in FullSuite /\ Open(c) /\ pc[c] # "queued"

BoxHeld ==
    /\ \A c \in Clients :
          c \in box <=> c \notin Legacy /\ Open(c) /\ (Inside(c) \/ pc[c] = "claim")
    /\ \A c, d \in box : c \in Exclusive => c = d

SlotsOf(c) ==
    /\ Claims(c) # {} => Open(c) /\ (Inside(c) \/ pc[c] \in {"claim", "locked"})
    /\ c \in Exclusive /\ pc[c] = "claim" => Claims(c) \subseteq 0..(cap[c] - 1)
    /\ Open(c) /\ Inside(c) /\ c \in Exclusive => Claims(c) = 0..(cap[c] - 1)
    /\ Open(c) /\ Inside(c) /\ c \notin Exclusive \cup Legacy =>
          Cardinality(Claims(c)) = Weight[c]
    /\ pc[c] = "locked" \/ (Open(c) /\ Inside(c) /\ c \in Legacy) =>
          Cardinality(Claims(c)) = 1

SlotsHeld == \A c \in Clients : SlotsOf(c)

\* A scan stays below its bound, and the bound of a claim covers the capacity.
LoopBounds ==
    \A c \in Clients :
        /\ pc[c] \in {"test", "probing"} => cursor[c] < cap[c]
        /\ c \in Exclusive /\ (pc[c] = "claim" \/ Inside(c)) => Capacity[c] <= cap[c]

BoxInv ==
    /\ TypeOK /\ OwnSteps /\ TurnstileHeld /\ FullHeld
    /\ BoxHeld /\ SlotsHeld /\ LoopBounds

\* What a scan may believe: whoever claims under the box has written its record,
\* nobody else does while the scan runs, and only a scan probes.
ScanInv ==
    /\ \A i \in Slots : holder[i] \in Clients \ Legacy => record[i] = "versioned"
    /\ \A c \in Clients :
          pc[c] = "test" /\ seen[c] = "other" => holder[cursor[c]] \notin Clients \ Legacy
    /\ \A c \in Clients : probe[c] # None => pc[c] = "probing"

-----------------------------------------------------------------------------
\* What a step may not do

\* No client of this protocol passes an exclusive client that waits for the box:
\* shared holders can only drain.
NotOvertaken ==
    [][\A c \in Exclusive, d \in Clients \ Legacy :
          c # d /\ turnstile = c /\ ~Inside(d) => ~Inside(d)']_vars

\* Exclusive admission is refused only for a slot that a slot-only client holds or
\* that a snapshot is testing at that moment; the record an earlier client left never
\* refuses by itself.  (semaphore.py: "a crashed holder's stale record can never make
\* a free slot look busy".  With the snapshots that clients in the queue take, it can.)
RefusalJustified ==
    [][\A c \in Exclusive : ~flagged[c] /\ flagged'[c] =>
          \/ holder[cursor[c]] \in Legacy
          \/ \E o \in Observers : probe[o] = cursor[c]]_vars

-----------------------------------------------------------------------------
\* Liveness

\* Whoever queues gets in, gives up or is refused: neither the lock order, nor a
\* client that sleeps with the turnstile, nor one that wants the same slots keeps
\* another one out for ever.  A client queues once and does not come back to the
\* queue, so what holds of each in the end holds of all at once.
Served == <>(\A c \in Clients : Inside(c) \/ pc[c] = "out")

-----------------------------------------------------------------------------
\* The abstract admission

Admission == INSTANCE BoxAdmission WITH
    granted <- [c \in Clients |-> IF Inside(c) THEN Claims(c) ELSE {}],
    Size <- Cardinality

\* Every step of the lock protocol admits a client as BoxAdmission allows, lets
\* one leave, or changes no grant.
AdmissionSpec == Admission!Spec
=============================================================================
