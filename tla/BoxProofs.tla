----------------------------- MODULE BoxProofs -----------------------------
(***************************************************************************)
(* Proofs about BoxLock for every number of clients, slots and observers.  *)
(* BoxInv is the inductive invariant: it says of every step which of the   *)
(* full-suite lock, the turnstile, the box and the slots its client holds. *)
(* The lemmas follow the steps of a client; those that leave the locks     *)
(* alone, and those that close every descriptor, share one lemma each.     *)
(***************************************************************************)
EXTENDS BoxLock, FiniteSetTheorems, TLAPS

Polling == {"try", "scan", "test", "probing", "scanned"}

\* What c holds of the slots depends on nothing another client changes.
LEMMA SlotsFrame ==
    ASSUME SlotsHeld, NEW d \in Clients,
           pc'[d] = pc[d], Claims(d)' = Claims(d), cap'[d] = cap[d]
    PROVE  SlotsOf(d)'
<1>1. SlotsOf(d)
  BY DEF SlotsHeld
<1> QED
  BY <1>1 DEF SlotsOf, Open, Inside

\* Any finite choice of slots has a number.
LEMMA ClaimsFinite ==
    ASSUME NEW c
    PROVE  Claims(c) \subseteq Slots /\ IsFiniteSet(Claims(c)) /\ Cardinality(Claims(c)) \in Nat
<1>1. MaxSlots - 1 \in Int /\ IsFiniteSet(Slots)
  BY CapacityAssumption, FS_Interval DEF Slots
<1>2. Claims(c) \subseteq Slots
  BY DEF Claims
<1> QED
  BY <1>1, <1>2, FS_Subset, FS_CardinalityType

\* The slots below a bound are as many as the bound.
LEMMA SlotsBelow ==
    ASSUME NEW n \in Nat \ {0}
    PROVE  IsFiniteSet(0..(n - 1)) /\ Cardinality(0..(n - 1)) = n
<1>1. 0 \in Int /\ n - 1 \in Int /\ ~(0 > n - 1) /\ (n - 1) - 0 + 1 = n
  OBVIOUS
<1> DEFINE m == n - 1
<1>2. IsFiniteSet(0..m) /\ Cardinality(0..m) = IF 0 > m THEN 0 ELSE m - 0 + 1
  <2> HIDE DEF m
  <2>1. m \in Int
    BY <1>1 DEF m
  <2> QED
    BY <2>1, <1>1, FS_Interval
<1> QED
  BY <1>1, <1>2

\* Closing every descriptor of c, on leaving or on losing them to a detached
\* child, keeps the invariant.
LEMMA CloseInv ==
    ASSUME BoxInv, NEW c \in Clients, NEW p \in Step, Close(c), Goto(c, p),
           p = "out" \/ (p = "orphan" /\ pc[c] = "running" /\ c \in Detached),
           UNCHANGED <<record, loopVars, scanVars, look>>
    PROVE  BoxInv'
<1> USE DEF BoxInv
<1>1. TypeOK'
  BY ClientAssumption DEF TypeOK, Close, Goto, loopVars, scanVars
<1>2. OwnSteps'
  BY DEF OwnSteps, TypeOK, Close, Goto, Inside
<1>3. TurnstileHeld'
  BY ClientAssumption DEF TurnstileHeld, TypeOK, Close, Goto
<1>4. FullHeld'
  BY ClientAssumption DEF FullHeld, TypeOK, Close, Goto, Open
<1>5. BoxHeld'
  BY DEF BoxHeld, TypeOK, Close, Goto, Open, Inside
<1>6. SlotsHeld'
  <2>1. Claims(c)' = {}
    BY ClientAssumption DEF Claims, Close
  <2>2. \A d \in Clients \ {c} : Claims(d)' = Claims(d)
    BY ClientAssumption DEF Claims, Close
  <2>3. \A d \in Clients \ {c} : SlotsOf(d)'
    BY <2>2, SlotsFrame DEF TypeOK, Goto, loopVars
  <2>4. SlotsOf(c)'
    BY <2>1 DEF SlotsOf, Goto, TypeOK, Open, Inside
  <2> QED
    BY <2>3, <2>4 DEF SlotsHeld
<1>7. LoopBounds'
  BY DEF LoopBounds, TypeOK, Goto, loopVars, Inside
<1> QED
  BY <1>1, <1>2, <1>3, <1>4, <1>5, <1>6, <1>7

\* A client that polls with the turnstile, and stays there, keeps the invariant.
LEMMA PollingInv ==
    ASSUME BoxInv, NEW c \in Clients, NEW p \in Polling, pc[c] \in Polling,
           Goto(c, p), UNCHANGED <<lockVars>>, TypeOK',
           \A d \in Clients \ {c} : cursor'[d] = cursor[d] /\ cap'[d] = cap[d],
           p \in {"test", "probing"} => cursor'[c] < cap'[c]
    PROVE  BoxInv'
<1> USE DEF BoxInv, Polling
<1>2. OwnSteps'
  BY DEF OwnSteps, TypeOK, Goto, Inside
<1>3. TurnstileHeld'
  BY DEF TurnstileHeld, TypeOK, lockVars, Goto
<1>4. FullHeld'
  BY DEF FullHeld, TypeOK, lockVars, Goto, Open
<1>5. BoxHeld'
  BY DEF BoxHeld, TypeOK, lockVars, Goto, Open, Inside
<1>6. SlotsHeld'
  <2>2. \A d \in Clients : Claims(d)' = Claims(d)
    BY DEF Claims, lockVars
  <2>3. \A d \in Clients \ {c} : SlotsOf(d)'
    BY <2>2, SlotsFrame DEF TypeOK, Goto
  <2>4. SlotsOf(c)'
    BY <2>2 DEF SlotsHeld, SlotsOf, Goto, TypeOK, Open, Inside
  <2> QED
    BY <2>3, <2>4 DEF SlotsHeld
<1>7. LoopBounds'
  BY DEF LoopBounds, TypeOK, Goto, Inside
<1> QED
  BY <1>2, <1>3, <1>4, <1>5, <1>6, <1>7

\* No step of an exclusive client's snapshot takes or gives back a lock for good;
\* its end is a step like any other, or a refusal.
LEMMA ScanStepInv ==
    ASSUME BoxInv, NEW c \in Clients, Scan(c)
    PROVE  BoxInv'
<1> USE DEF BoxInv, Polling
<1>1. CASE ScanStart(c)
  <2>1. TypeOK'
    <3>1. flagged' \in [Clients -> BOOLEAN]
      BY <1>1, Zenon DEF ScanStart, TypeOK
    <3> QED
      BY <3>1, <1>1, CapacityAssumption DEF ScanStart, TypeOK, Goto, Step, lockVars
  <2> QED
    BY <2>1, <1>1, PollingInv DEF ScanStart, Goto, TypeOK
<1>2. CASE ScanRead(c)
  <2>1. TypeOK'
    <3>1. cursor[c] \in Slots /\ cursor[c] + 1 \in 0..MaxSlots
      BY <1>2, CapacityAssumption DEF ScanRead, TypeOK, Slots
    <3>2. record[cursor[c]] \in Record
      BY <3>1 DEF TypeOK
    <3> QED
      BY <3>1, <3>2, <1>2 DEF ScanRead, NextSlot, TypeOK, Goto, Step, lockVars, loopVars
  <2> QED
    BY <2>1, <1>2, PollingInv DEF ScanRead, NextSlot, Goto, TypeOK, loopVars
<1>3. CASE ScanTest(c)
  <2>1. TypeOK'
    <3>1. cursor[c] \in Slots /\ cursor[c] \in Files /\ cursor[c] + 1 \in 0..MaxSlots
      BY <1>3, CapacityAssumption DEF ScanTest, TypeOK, LoopBounds, Slots, Files
    <3>2. flagged' \in [Clients -> BOOLEAN]
      BY <1>3, Zenon DEF ScanTest, TypeOK
    <3> QED
      BY <3>1, <3>2, <1>3 DEF ScanTest, NextSlot, TypeOK, Goto, Step, lockVars, loopVars
  <2> QED
    BY <2>1, <1>3, PollingInv DEF ScanTest, NextSlot, Goto, TypeOK, loopVars, LoopBounds
<1>4. CASE ScanUnlock(c)
  <2>1. TypeOK'
    <3>1. cursor[c] + 1 \in 0..MaxSlots
      BY <1>4, CapacityAssumption DEF ScanUnlock, TypeOK, LoopBounds
    <3> QED
      BY <3>1, <1>4 DEF ScanUnlock, NextSlot, TypeOK, Goto, Step, lockVars, scanVars
  <2> QED
    BY <2>1, <1>4, PollingInv DEF ScanUnlock, NextSlot, Goto, TypeOK
<1>5. CASE ScanEnd(c) /\ flagged[c]
  BY <1>5, CloseInv DEF ScanEnd, Step
<1>6. CASE ScanEnd(c) /\ ~flagged[c]
  <2>1. TypeOK'
    BY <1>6 DEF ScanEnd, TypeOK, Goto, Step, lockVars, loopVars, scanVars
  <2> QED
    BY <2>1, <1>6, PollingInv DEF ScanEnd, Goto, TypeOK, loopVars
<1> QED
  BY <1>1, <1>2, <1>3, <1>4, <1>5, <1>6 DEF Scan

\* Taking the full-suite lock changes nothing but that lock.
LEMMA TakeFullInv ==
    ASSUME BoxInv, NEW c \in Clients, TakeFull(c)
    PROVE  BoxInv'
<1> USE DEF BoxInv, TakeFull, Goto
<1>1. TypeOK'
  BY DEF TypeOK, Step, loopVars, scanVars
<1>2. OwnSteps'
  BY DEF OwnSteps, TypeOK, Inside
<1>3. TurnstileHeld'
  BY DEF TurnstileHeld, TypeOK
<1>4. FullHeld'
  BY ClientAssumption DEF FullHeld, OwnSteps, TypeOK, FullFree, Open
<1>5. BoxHeld'
  BY DEF BoxHeld, TypeOK, Open, Inside
<1>6. SlotsHeld'
  <2>1. \A d \in Clients : Claims(d)' = Claims(d)
    BY DEF Claims
  <2>2. \A d \in Clients \ {c} : SlotsOf(d)'
    BY <2>1, SlotsFrame DEF TypeOK, loopVars
  <2>3. SlotsOf(c)'
    BY <2>1 DEF SlotsHeld, SlotsOf, TypeOK, Open, Inside
  <2> QED
    BY <2>2, <2>3 DEF SlotsHeld
<1>7. LoopBounds'
  BY DEF LoopBounds, TypeOK, loopVars, Inside
<1> QED
  BY <1>1, <1>2, <1>3, <1>4, <1>5, <1>6, <1>7

\* The turnstile has one holder at a time.
LEMMA TakeTurnstileInv ==
    ASSUME BoxInv, NEW c \in Clients, TakeTurnstile(c)
    PROVE  BoxInv'
<1> USE DEF BoxInv, TakeTurnstile, Goto
<1>1. TypeOK'
  BY DEF TypeOK, Step, loopVars, scanVars
<1>2. OwnSteps'
  BY DEF OwnSteps, TypeOK, Inside
<1>3. TurnstileHeld'
  BY ClientAssumption DEF TurnstileHeld, TypeOK, TurnstileFree
<1>4. FullHeld'
  BY DEF FullHeld, TypeOK, Open
<1>5. BoxHeld'
  BY DEF BoxHeld, TypeOK, Open, Inside
<1>6. SlotsHeld'
  <2>1. \A d \in Clients : Claims(d)' = Claims(d)
    BY DEF Claims
  <2>2. \A d \in Clients \ {c} : SlotsOf(d)'
    BY <2>1, SlotsFrame DEF TypeOK, loopVars
  <2>3. SlotsOf(c)'
    BY <2>1 DEF SlotsHeld, SlotsOf, TypeOK, Open, Inside
  <2> QED
    BY <2>2, <2>3 DEF SlotsHeld
<1>7. LoopBounds'
  BY DEF LoopBounds, TypeOK, loopVars, Inside
<1> QED
  BY <1>1, <1>2, <1>3, <1>4, <1>5, <1>6, <1>7

\* A client gets the box when its mode allows, with a bound for its claim that
\* covers the configured capacity; otherwise it goes on polling.
LEMMA TryBoxInv ==
    ASSUME BoxInv, NEW c \in Clients, TryBox(c)
    PROVE  BoxInv'
<1> USE DEF BoxInv, TryBox, Goto
<1>a. c \notin Legacy
  BY DEF OwnSteps, Inside
<1>1. CASE ~BoxFreeFor(c)
  <2>1. TypeOK'
    BY <1>1 DEF TypeOK, Step, loopVars, scanVars
  <2> QED
    BY <1>1, <2>1, PollingInv DEF Polling, lockVars, loopVars
<1>2. CASE BoxFreeFor(c)
  <2>a. PICK n \in 1..MaxSlots :
          /\ IF c \in Exclusive THEN Observes(c, n) ELSE n = Capacity[c]
          /\ cap' = [cap EXCEPT ![c] = n]
    BY <1>2
  <2>b. Capacity[c] \in 1..MaxSlots /\ (c \in Exclusive => Capacity[c] <= n)
    BY <2>a, CapacityAssumption DEF Observes
  <2>1. TypeOK'
    BY <1>2, <2>a, CapacityAssumption DEF TypeOK, Step, scanVars
  <2>2. OwnSteps'
    BY <1>2, <1>a DEF OwnSteps, TypeOK, Inside
  <2>3. TurnstileHeld'
    BY <1>2 DEF TurnstileHeld, TypeOK
  <2>4. FullHeld'
    BY <1>2 DEF FullHeld, TypeOK, Open
  <2>5. BoxHeld'
    BY <1>2, <1>a DEF BoxHeld, BoxFreeFor, TypeOK, Open, Inside
  <2>6. SlotsHeld'
    <3>1. \A d \in Clients : Claims(d)' = Claims(d)
      BY DEF Claims
    <3>2. \A d \in Clients \ {c} : SlotsOf(d)'
      BY <1>2, <2>a, <3>1, SlotsFrame DEF TypeOK
    <3>3. Claims(c) = {}
      BY DEF SlotsHeld, SlotsOf, Inside
    <3>4. SlotsOf(c)'
      BY <1>2, <1>a, <3>1, <3>3 DEF SlotsOf, TypeOK, Open, Inside
    <3> QED
      BY <3>2, <3>4 DEF SlotsHeld
  <2>7. LoopBounds'
    BY <1>2, <2>a, <2>b DEF LoopBounds, TypeOK, Inside
  <2> QED
    BY <2>1, <2>2, <2>3, <2>4, <2>5, <2>6, <2>7
<1> QED
  BY <1>1, <1>2

\* A claim takes a free slot below its bound, or passes a busy one.
LEMMA ClaimSlotInv ==
    ASSUME BoxInv, NEW c \in Clients, ClaimSlot(c)
    PROVE  BoxInv'
<1> USE DEF BoxInv, ClaimSlot, NextSlot
<1>a. /\ cursor[c] \in Slots /\ cursor[c] + 1 \in 0..MaxSlots
      /\ cursor[c] \in 0..(cap[c] - 1) /\ pc[c] = "claim"
  BY CapacityAssumption DEF TypeOK, Slots
<1>1. TypeOK'
  BY <1>a DEF TypeOK, Record, scanVars
<1>2. OwnSteps'
  BY DEF OwnSteps, TypeOK, Inside
<1>3. TurnstileHeld'
  BY DEF TurnstileHeld, TypeOK
<1>4. FullHeld'
  BY DEF FullHeld, TypeOK, Open
<1>5. BoxHeld'
  BY DEF BoxHeld, TypeOK, Open, Inside
<1>6. SlotsHeld'
  <2>1. \A d \in Clients \ {c} : Claims(d)' = Claims(d)
    BY <1>a, ClientAssumption DEF Claims, SlotFree, TypeOK
  <2>2. \A d \in Clients \ {c} : SlotsOf(d)'
    BY <2>1, SlotsFrame DEF TypeOK
  <2>3. Claims(c)' \subseteq Claims(c) \cup {cursor[c]}
    BY <1>a DEF Claims, TypeOK
  <2>4. SlotsOf(c)'
    <3>1. SlotsOf(c)
      BY DEF SlotsHeld
    <3> QED
      BY <1>a, <2>3, <3>1 DEF SlotsOf, Open, Inside
  <2> QED
    BY <2>2, <2>4 DEF SlotsHeld
<1>7. LoopBounds'
  BY <1>a DEF LoopBounds, TypeOK, Inside
<1> QED
  BY <1>1, <1>2, <1>3, <1>4, <1>5, <1>6, <1>7

\* What a client is admitted with: exactly its weight, or everything below the
\* bound of its claim.
LEMMA AdmitHolds ==
    ASSUME BoxInv, NEW c \in Clients, Admit(c)
    PROVE  /\ c \notin Legacy
           /\ c \in Exclusive => Claims(c) = 0..(cap[c] - 1)
           /\ c \notin Exclusive => Cardinality(Claims(c)) = Weight[c]
<1> USE DEF BoxInv, Admit
<1>1. c \notin Legacy
  BY DEF OwnSteps, Inside
<1>2. ASSUME c \in Exclusive PROVE Claims(c) = 0..(cap[c] - 1)
  <2>1. cap[c] \in Nat \ {0}
    BY CapacityAssumption DEF TypeOK
  <2>2. IsFiniteSet(0..(cap[c] - 1)) /\ Cardinality(0..(cap[c] - 1)) = cap[c]
    BY <2>1, SlotsBelow
  <2>3. Claims(c) \subseteq 0..(cap[c] - 1)
    BY <1>2 DEF SlotsHeld, SlotsOf
  <2>4. Cardinality(Claims(c)) = cap[c]
    BY <1>2 DEF Needed
  <2> QED
    BY <2>2, <2>3, <2>4, FS_Subset
<1> QED
  BY <1>1, <1>2 DEF Needed

\* Admission keeps the box and the slots and gives the turnstile back.
LEMMA AdmitInv ==
    ASSUME BoxInv, NEW c \in Clients, Admit(c)
    PROVE  BoxInv'
<1>a. /\ c \notin Legacy
      /\ c \in Exclusive => Claims(c) = 0..(cap[c] - 1)
      /\ c \notin Exclusive => Cardinality(Claims(c)) = Weight[c]
  BY AdmitHolds
<1> USE DEF BoxInv, Admit, Goto
<1>1. TypeOK'
  BY DEF TypeOK, Step, loopVars, scanVars
<1>2. OwnSteps'
  BY <1>a DEF OwnSteps, TypeOK, Inside
<1>3. TurnstileHeld'
  BY ClientAssumption DEF TurnstileHeld, TypeOK
<1>4. FullHeld'
  BY DEF FullHeld, TypeOK, Open
<1>5. BoxHeld'
  BY <1>a DEF BoxHeld, TypeOK, Open, Inside
<1>6. SlotsHeld'
  <2>1. \A d \in Clients : Claims(d)' = Claims(d)
    BY DEF Claims
  <2>2. \A d \in Clients \ {c} : SlotsOf(d)'
    BY <2>1, SlotsFrame DEF TypeOK, loopVars
  <2>3. SlotsOf(c)'
    BY <1>a, <2>1 DEF SlotsOf, TypeOK, loopVars, Open, Inside
  <2> QED
    BY <2>2, <2>3 DEF SlotsHeld
<1>7. LoopBounds'
  BY DEF LoopBounds, TypeOK, loopVars, Inside
<1> QED
  BY <1>1, <1>2, <1>3, <1>4, <1>5, <1>6, <1>7

\* A partial claim is given back whole.
LEMMA RollbackInv ==
    ASSUME BoxInv, NEW c \in Clients, Rollback(c)
    PROVE  BoxInv'
<1> USE DEF BoxInv, Rollback, Goto
<1>1. TypeOK'
  BY DEF TypeOK, Step, loopVars, scanVars
<1>2. OwnSteps'
  BY DEF OwnSteps, TypeOK, Inside
<1>3. TurnstileHeld'
  BY DEF TurnstileHeld, TypeOK
<1>4. FullHeld'
  BY DEF FullHeld, TypeOK, Open
<1>5. BoxHeld'
  BY DEF BoxHeld, TypeOK, Open, Inside
<1>6. SlotsHeld'
  <2>1. Claims(c)' = {} /\ \A d \in Clients \ {c} : Claims(d)' = Claims(d)
    BY ClientAssumption DEF Claims
  <2>2. \A d \in Clients \ {c} : SlotsOf(d)'
    BY <2>1, SlotsFrame DEF TypeOK, loopVars
  <2>3. SlotsOf(c)'
    BY <2>1 DEF SlotsOf, TypeOK, Open, Inside
  <2> QED
    BY <2>2, <2>3 DEF SlotsHeld
<1>7. LoopBounds'
  BY DEF LoopBounds, TypeOK, loopVars, Inside
<1> QED
  BY <1>1, <1>2, <1>3, <1>4, <1>5, <1>6, <1>7

\* A slot-only client takes one free slot.
LEMMA LegacyTakeInv ==
    ASSUME BoxInv, NEW c \in Clients, NEW i \in Slots, LegacyTake(c, i)
    PROVE  BoxInv'
<1> USE DEF BoxInv, LegacyTake, Goto
<1>a. c \in Legacy /\ c \notin Exclusive
  BY ClientAssumption DEF OwnSteps
<1>1. TypeOK'
  BY DEF TypeOK, Step, Record, loopVars, scanVars
<1>2. OwnSteps'
  BY <1>a DEF OwnSteps, TypeOK, Inside
<1>3. TurnstileHeld'
  BY DEF TurnstileHeld, TypeOK
<1>4. FullHeld'
  BY DEF FullHeld, TypeOK, Open
<1>5. BoxHeld'
  BY <1>a DEF BoxHeld, TypeOK, Open, Inside
<1>6. SlotsHeld'
  <2>1. \A d \in Clients \ {c} : Claims(d)' = Claims(d)
    BY ClientAssumption DEF Claims, SlotFree, TypeOK
  <2>2. \A d \in Clients \ {c} : SlotsOf(d)'
    BY <2>1, SlotsFrame DEF TypeOK, loopVars
  <2>3. Claims(c) = {}
    BY DEF SlotsHeld, SlotsOf, Inside
  <2>4. Claims(c)' = {i}
    BY <2>3, ClientAssumption DEF Claims, TypeOK
  <2>5. Cardinality({i}) = 1
    BY FS_Singleton
  <2>6. SlotsOf(c)'
    BY <1>a, <2>4, <2>5 DEF SlotsOf, TypeOK, Open, Inside
  <2> QED
    BY <2>2, <2>6 DEF SlotsHeld
<1>7. LoopBounds'
  BY <1>a DEF LoopBounds, TypeOK, loopVars, Inside
<1> QED
  BY <1>1, <1>2, <1>3, <1>4, <1>5, <1>6, <1>7

\* The steps of a client that has what it asked for keep it: they are the ones
\* between the slot-only client's lock, its record, the child and the orphan.
LEMMA KeepInv ==
    ASSUME BoxInv, NEW c \in Clients, NEW p \in {"admitted", "running", "orphan"},
           \/ pc[c] = "locked"
           \/ pc[c] \in {"admitted", "running"},
           p = "orphan" => c \notin Detached,
           Goto(c, p), TypeOK', UNCHANGED <<lockVars, loopVars>>
    PROVE  BoxInv'
<1> USE DEF BoxInv, Goto
<1>a. pc[c] = "locked" => c \in Legacy /\ c \notin Exclusive
  BY ClientAssumption DEF OwnSteps
<1>2. OwnSteps'
  BY <1>a DEF OwnSteps, TypeOK, Inside
<1>3. TurnstileHeld'
  BY DEF TurnstileHeld, TypeOK, lockVars
<1>4. FullHeld'
  BY DEF FullHeld, TypeOK, Open, lockVars
<1>5. BoxHeld'
  BY <1>a DEF BoxHeld, TypeOK, Open, Inside, lockVars
<1>6. SlotsHeld'
  <2>1. \A d \in Clients : Claims(d)' = Claims(d)
    BY DEF Claims, lockVars
  <2>2. \A d \in Clients \ {c} : SlotsOf(d)'
    BY <2>1, SlotsFrame DEF TypeOK, loopVars
  <2>3. SlotsOf(c)'
    BY <1>a, <2>1 DEF SlotsHeld, SlotsOf, TypeOK, loopVars, Open, Inside
  <2> QED
    BY <2>2, <2>3 DEF SlotsHeld
<1>7. LoopBounds'
  BY <1>a DEF LoopBounds, TypeOK, loopVars, Inside
<1> QED
  BY <1>2, <1>3, <1>4, <1>5, <1>6, <1>7

\* A snapshot disturbs no client: it only makes a lock look taken.
LEMMA LookInv ==
    ASSUME BoxInv, NEW o \in Observers,
           LookAway(o) \/ \E f \in 0..TurnstileFile : Look(o, f)
    PROVE  BoxInv'
<1> USE DEF BoxInv
<1>1. UNCHANGED <<pc, lockVars, record, loopVars, scanVars>>
  BY DEF Look, LookAway
<1>2. TypeOK'
  <2>1. CASE LookAway(o)
    BY <2>1 DEF LookAway, TypeOK, lockVars, loopVars, scanVars
  <2>2. ASSUME NEW f \in 0..TurnstileFile, Look(o, f) PROVE TypeOK'
    <3>1. f \in Files /\ BoxShared \in Files /\ f + 1 \in 0..(MaxSlots + 3)
      BY CapacityAssumption DEF Files, BoxShared, TurnstileFile
    <3> QED
      BY <2>2, <3>1 DEF Look, TypeOK, lockVars, loopVars, scanVars
  <2> QED
    BY <2>1, <2>2
<1>3. (OwnSteps /\ TurnstileHeld /\ FullHeld /\ BoxHeld /\ LoopBounds)'
  BY <1>1 DEF OwnSteps, TurnstileHeld, FullHeld, BoxHeld, LoopBounds, lockVars,
     loopVars, Open, Inside
<1>4. SlotsHeld'
  <2>1. \A d \in Clients : Claims(d)' = Claims(d)
    BY <1>1 DEF Claims, lockVars
  <2> QED
    BY <1>1, <2>1, SlotsFrame DEF SlotsHeld, loopVars
<1> QED
  BY <1>2, <1>3, <1>4

-----------------------------------------------------------------------------
\* The initial states hold nothing.
LEMMA InitInv == Init => BoxInv
<1> SUFFICES ASSUME Init PROVE BoxInv
  OBVIOUS
<1>1. TypeOK
  BY CapacityAssumption DEF TypeOK, Init, Entry, Step, Record
<1>2. OwnSteps
  BY ClientAssumption DEF OwnSteps, Init, Entry
<1>3. TurnstileHeld /\ FullHeld /\ BoxHeld
  BY ClientAssumption DEF TurnstileHeld, FullHeld, BoxHeld, Init, Entry, Inside, Open
<1>4. SlotsHeld
  <2>1. \A c \in Clients : Claims(c) = {}
    BY ClientAssumption DEF Init, Claims
  <2> QED
    BY <2>1 DEF SlotsHeld, SlotsOf, Init, Entry, Inside
<1>5. LoopBounds
  BY DEF LoopBounds, Init, Entry, Inside
<1> QED
  BY <1>1, <1>2, <1>3, <1>4, <1>5 DEF BoxInv

\* Every step keeps the invariant: one case per action.
LEMMA NextInv == BoxInv /\ [Next]_vars => BoxInv'
<1> SUFFICES ASSUME BoxInv, [Next]_vars PROVE BoxInv'
  OBVIOUS
<1>1. CASE UNCHANGED vars
  <2>1. (TypeOK /\ OwnSteps /\ TurnstileHeld /\ FullHeld /\ BoxHeld /\ LoopBounds)'
    BY <1>1 DEF BoxInv, vars, lockVars, loopVars, scanVars, TypeOK, OwnSteps,
       TurnstileHeld, FullHeld, BoxHeld, LoopBounds, Open, Inside
  <2>2. SlotsHeld'
    <3>1. \A d \in Clients : Claims(d)' = Claims(d)
      BY <1>1 DEF Claims, vars, lockVars
    <3> QED
      BY <1>1, <3>1, SlotsFrame DEF BoxInv, SlotsHeld, vars, loopVars
  <2> QED
    BY <2>1, <2>2 DEF BoxInv
<1>2. ASSUME NEW c \in Clients, Acquire(c) PROVE BoxInv'
  BY <1>2, TakeFullInv, TakeTurnstileInv, ScanStepInv, TryBoxInv, ClaimSlotInv,
     AdmitInv, RollbackInv DEF Acquire
<1>3. ASSUME NEW c \in Clients, LegacyAcquire(c) PROVE BoxInv'
  <2>1. CASE \E i \in Slots : LegacyTake(c, i)
    BY <2>1, LegacyTakeInv
  <2>2. CASE LegacyWrite(c)
    <3>1. TypeOK'
      BY <2>2 DEF LegacyWrite, BoxInv, TypeOK, Goto, Step, Record, lockVars,
         loopVars, scanVars
    <3> QED
      BY <2>2, <3>1, KeepInv DEF LegacyWrite
  <2> QED
    BY <1>3, <2>1, <2>2 DEF LegacyAcquire
<1>4. ASSUME NEW c \in Clients, Spawn(c) PROVE BoxInv'
  <2>1. TypeOK'
    BY <1>4 DEF Spawn, BoxInv, TypeOK, Goto, Step, lockVars, loopVars, scanVars
  <2> QED
    BY <1>4, <2>1, KeepInv DEF Spawn
<1>5. ASSUME NEW c \in Clients, Finish(c) \/ GiveUp(c) PROVE BoxInv'
  BY <1>5, CloseInv DEF Finish, GiveUp, Step
<1>6. ASSUME NEW c \in Clients, Detach(c) PROVE BoxInv'
  <2>1. CASE c \in Detached
    BY <1>6, <2>1, CloseInv DEF Detach, Step
  <2>2. CASE c \notin Detached
    <3>1. TypeOK'
      BY <1>6, <2>2 DEF Detach, BoxInv, TypeOK, Goto, Step, lockVars, loopVars, scanVars
    <3> QED
      BY <1>6, <2>2, <3>1, KeepInv DEF Detach
  <2> QED
    BY <2>1, <2>2
<1>7. ASSUME NEW o \in Observers,
             LookAway(o) \/ \E f \in 0..TurnstileFile : Look(o, f)
      PROVE  BoxInv'
  BY <1>7, LookInv
<1> QED
  BY <1>1, <1>2, <1>3, <1>4, <1>5, <1>6, <1>7 DEF Next

\* Which locks a client holds follows from the step it is at, in every state.
THEOREM BoxInvariant == Spec => []BoxInv
<1> QED
  BY InitInv, NextInv, PTL DEF Spec

\* Exclusive admission excludes every other client of the protocol, whoever of
\* wrapper and child is left and whatever their capacities.
THEOREM ExclusiveAlone == Spec => []BoxExclusive
<1>1. BoxInv => BoxExclusive
  BY ClientAssumption DEF BoxInv, BoxHeld, BoxExclusive, Open, Inside
<1> QED
  BY <1>1, BoxInvariant, PTL

\* A client that is not inside admission holds no capacity between its steps.
THEOREM WaitersAreEmptyHanded == Spec => []WaitersHoldNothing
<1>1. BoxInv => WaitersHoldNothing
  BY DEF BoxInv, WaitersHoldNothing, TurnstileHeld, BoxHeld, SlotsHeld, SlotsOf,
     OwnSteps, Inside
<1> QED
  BY <1>1, BoxInvariant, PTL

\* Slot-only clients stay outside the slots of an exclusive client.
THEOREM ExclusiveFencesLegacy == Spec => []LegacyFenced
<1>1. BoxInv => LegacyFenced
  <2> SUFFICES ASSUME BoxInv, NEW c \in Exclusive \ Detached, NEW d \in Legacy,
                      Inside(c), Inside(d), NEW i \in Claims(d)
               PROVE  i >= cap[c] /\ i >= Capacity[c]
    BY DEF LegacyFenced
  <2>1. c \in Clients /\ d \in Clients /\ c # d
    BY ClientAssumption
  <2>2. Open(c) /\ Claims(c) = 0..(cap[c] - 1) /\ Capacity[c] <= cap[c]
    BY <2>1 DEF BoxInv, SlotsHeld, SlotsOf, LoopBounds, Open, Inside
  <2>3. i \in Nat /\ i \notin Claims(c)
    BY <2>1, CapacityAssumption DEF Claims, Slots
  <2>4. cap[c] \in Nat /\ Capacity[c] \in Nat
    BY <2>1, CapacityAssumption DEF BoxInv, TypeOK
  <2> QED
    BY <2>2, <2>3, <2>4
<1> QED
  BY <1>1, BoxInvariant, PTL

\* When every child inherits its wrapper's descriptors, running work keeps the
\* capacity it was admitted with until it ends.
THEOREM InheritedCapacityIsKept ==
    ASSUME Detached = {}
    PROVE  Spec => []RunningHolds
<1>1. BoxInv => RunningHolds
  <2> SUFFICES ASSUME BoxInv, NEW c \in Clients, Runs(c)
               PROVE  /\ c \notin Legacy => c \in box /\ Cardinality(Claims(c)) = Needed(c)
                      /\ c \in Legacy => Claims(c) # {}
                      /\ c \in FullSuite => full = c
    BY DEF RunningHolds
  <2>1. Open(c) /\ Inside(c) /\ pc[c] # "queued"
    BY DEF Runs, Open, Inside
  <2>2. SlotsOf(c)
    BY DEF BoxInv, SlotsHeld
  <2>3. c \in FullSuite => full = c
    BY <2>1 DEF BoxInv, FullHeld
  <2>4. c \in Legacy => Claims(c) # {}
    <3>1. Cardinality({}) # 1
      BY FS_EmptySet
    <3> QED
      BY <2>1, <2>2, <3>1 DEF SlotsOf
  <2>5. c \notin Legacy => c \in box
    BY <2>1 DEF BoxInv, BoxHeld
  <2>6. c \in Exclusive => Cardinality(Claims(c)) = cap[c]
    <3>1. cap[c] \in Nat \ {0}
      BY CapacityAssumption DEF BoxInv, TypeOK
    <3> QED
      BY <2>1, <2>2, <3>1, SlotsBelow DEF SlotsOf
  <2> QED
    BY <2>1, <2>2, <2>3, <2>4, <2>5, <2>6 DEF SlotsOf, Needed
<1> QED
  BY <1>1, BoxInvariant, PTL

\* Nobody is admitted past an exclusive client that holds the turnstile.
THEOREM ExclusiveIsNotOvertaken == Spec => NotOvertaken
<1> DEFINE A == \A c \in Exclusive, d \in Clients \ Legacy :
          c # d /\ turnstile = c /\ ~Inside(d) => ~Inside(d)'
<1>1. BoxInv /\ [Next]_vars => [A]_vars
  <2> SUFFICES ASSUME BoxInv, Next, NEW c \in Exclusive, NEW d \in Clients \ Legacy,
                      c # d, turnstile = c, ~Inside(d), Inside(d)'
               PROVE  FALSE
    OBVIOUS
  <2>1. pc[d] # "claim" /\ pc[d] # "locked" /\ pc \in [Clients -> Step]
    BY ClientAssumption DEF BoxInv, TurnstileHeld, OwnSteps, TypeOK
  <2>2. pc'[d] \in {"admitted", "running", "orphan"}
    BY DEF Inside
  <2>3. PICK e \in Clients : Acquire(e) \/ LegacyAcquire(e) \/ Spawn(e)
                             \/ Finish(e) \/ Detach(e) \/ GiveUp(e)
    BY <2>1, <2>2 DEF Next, Look, LookAway, Inside
  <2>4. pc'[e] \in {"admitted", "running", "orphan"} =>
          pc[e] \in {"claim", "locked", "admitted", "running", "orphan"}
    BY <2>1, <2>3 DEF Acquire, LegacyAcquire, Spawn, Finish, Detach, GiveUp, Scan,
       TakeFull, TakeTurnstile, ScanStart, ScanRead, ScanTest, ScanUnlock, ScanEnd,
       TryBox, ClaimSlot, Admit, Rollback, LegacyTake, LegacyWrite, Goto
  <2>5. \A b \in Clients \ {e} : pc'[b] = pc[b]
    BY <2>1, <2>3 DEF Acquire, LegacyAcquire, Spawn, Finish, Detach, GiveUp, Scan,
       TakeFull, TakeTurnstile, ScanStart, ScanRead, ScanTest, ScanUnlock, ScanEnd,
       TryBox, ClaimSlot, Admit, Rollback, LegacyTake, LegacyWrite, Goto
  <2> QED
    BY <2>1, <2>2, <2>4, <2>5 DEF Inside
<1> QED
  BY <1>1, BoxInvariant, PTL DEF Spec, NotOvertaken

-----------------------------------------------------------------------------
\* The lock protocol implements the abstract admission.

Granted(c) == IF Inside(c) THEN Claims(c) ELSE {}

\* A step that changes neither who is inside nor what they hold is a stutter.
LEMMA SameGrants ==
    ASSUME NEW c \in Clients, \A d \in Clients : Granted(d)' = Granted(d)
    PROVE  UNCHANGED [d \in Clients |-> IF Inside(d) THEN Claims(d) ELSE {}]
BY DEF Granted

\* Closing one client's descriptors takes at most its own grant away.
LEMMA CloseGrants ==
    ASSUME BoxInv, NEW c \in Clients, NEW p \in {"out", "orphan"}, Close(c), Goto(c, p)
    PROVE  Granted(c)' = {} /\ \A d \in Clients \ {c} : Granted(d)' = Granted(d)
<1>1. Claims(c)' = {} /\ \A d \in Clients \ {c} : Claims(d)' = Claims(d)
  BY ClientAssumption DEF Claims, Close
<1>2. \A d \in Clients \ {c} : pc'[d] = pc[d]
  BY DEF BoxInv, TypeOK, Goto
<1> QED
  BY <1>1, <1>2 DEF Granted, Inside

\* A grant is new, of the size the client asked for, apart from every other
\* grant, and beside compatible clients only.
LEMMA GrantIsAllowed ==
    ASSUME BoxInv, BoxInv', NEW c \in Clients, ~Inside(c), Inside(c)',
           Open(c)', Claims(c)' = Claims(c),
           \A d \in Clients \ {c} : pc'[d] = pc[d] /\ Claims(d)' = Claims(d),
           UNCHANGED <<cap, box>>, c \in box <=> c \notin Legacy
    PROVE  Admission!Admit(c, Claims(c))
<1> DEFINE G == [d \in Clients |-> Granted(d)]
           S == Claims(c)
<1>1. SlotsOf(c)'
  BY DEF BoxInv, SlotsHeld
<1>2. cap[c] \in Nat \ {0} /\ Capacity[c] \in Nat \ {0} /\ Weight[c] \in Nat \ {0}
  BY CapacityAssumption DEF BoxInv, TypeOK
<1>3. Admission!Wanted(c, S)
  <2>1. ASSUME c \in Exclusive PROVE 0..(Capacity[c] - 1) \subseteq S /\ c \notin Legacy
    <3>1. S = 0..(cap[c] - 1)
      BY <1>1, <2>1 DEF SlotsOf
    <3>2. Capacity[c] <= cap[c]
      BY <2>1 DEF BoxInv, LoopBounds
    <3> QED
      BY <1>2, <2>1, <3>1, <3>2, ClientAssumption
  <2>2. c \in Legacy => Cardinality(S) = 1
    BY <1>1, ClientAssumption DEF SlotsOf
  <2>3. c \notin Exclusive \cup Legacy => Cardinality(S) = Weight[c]
    BY <1>1 DEF SlotsOf
  <2> QED
    BY <2>1, <2>2, <2>3 DEF Admission!Wanted
<1>4. S # {} /\ S \in SUBSET Slots
  <2>1. Cardinality({}) = 0
    BY FS_EmptySet
  <2>2. c \in Exclusive => 0 \in S
    BY <1>2, <1>3, ClientAssumption DEF Admission!Wanted
  <2> QED
    BY <1>2, <1>3, <2>1, <2>2 DEF Admission!Wanted, Claims
<1>5. ASSUME NEW d \in Clients \ {c}
      PROVE  G[d] \cap S = {} /\ (G[d] # {} => Admission!Compatible(c, d))
  <2>1. G[d] \cap S = {}
    BY DEF Granted, Claims
  <2>2. ASSUME G[d] # {}, c \notin Legacy, d \notin Legacy
        PROVE  c \notin Exclusive /\ d \notin Exclusive
    <3>1. Inside(d) /\ Open(d)
      BY <2>2 DEF Granted, BoxInv, SlotsHeld, SlotsOf
    <3>2. d \in box /\ c \in box
      BY <2>2, <3>1 DEF BoxInv, BoxHeld
    <3> QED
      BY <3>2 DEF BoxInv, BoxHeld
  <2> QED
    BY <2>1, <2>2 DEF Admission!Compatible
<1>6. G[c] = {} /\ G' = [G EXCEPT ![c] = S]
  BY DEF Granted, Inside
<1> QED
  BY <1>3, <1>4, <1>5, <1>6 DEF Admission!Admit, Granted

\* Every step admits a client as the abstract specification allows, lets one
\* leave, or changes no grant.
LEMMA StepRefines ==
    ASSUME BoxInv, BoxInv', Next
    PROVE  Admission!Next \/ \A d \in Clients : Granted(d)' = Granted(d)
<1> DEFINE Same == \A d \in Clients : Granted(d)' = Granted(d)
<1>1. pc \in [Clients -> Step]
  BY DEF BoxInv, TypeOK
<1>2. ASSUME NEW c \in Clients, NEW p \in {"out", "orphan"}, Close(c), Goto(c, p)
      PROVE  Admission!Next \/ Same
  <2>1. Granted(c)' = {} /\ \A d \in Clients \ {c} : Granted(d)' = Granted(d)
    BY <1>2, CloseGrants
  <2>2. CASE Granted(c) = {}
    BY <2>1, <2>2
  <2>3. CASE Granted(c) # {}
    BY <2>1, <2>3 DEF Admission!Next, Admission!Leave, Granted
  <2> QED
    BY <2>2, <2>3
<1>3. ASSUME NEW c \in Clients, UNCHANGED holder,
             \/ UNCHANGED pc
             \/ \E p \in Step : Goto(c, p) /\ (Inside(c) <=> p \in {"admitted", "running", "orphan"})
      PROVE  Same
  BY <1>1, <1>3 DEF Goto, Granted, Inside, Claims
<1>4. ASSUME NEW c \in Clients, Admit(c) \/ LegacyWrite(c)
      PROVE  Admission!Next
  <2>1. \A d \in Clients : Claims(d)' = Claims(d)
    BY <1>4 DEF Admit, LegacyWrite, Claims, lockVars
  <2>2. pc'[c] = "admitted" /\ (\A d \in Clients \ {c} : pc'[d] = pc[d]) /\ ~Inside(c)
    BY <1>1, <1>4 DEF Admit, LegacyWrite, Goto, Inside
  <2>3. UNCHANGED <<cap, box>>
    BY <1>4 DEF Admit, LegacyWrite, lockVars, loopVars
  <2>4. c \in box <=> c \notin Legacy
    BY <1>4 DEF Admit, LegacyWrite, BoxInv, BoxHeld, OwnSteps, Open, Inside
  <2>5. Admission!Admit(c, Claims(c))
    BY <2>1, <2>2, <2>3, <2>4, GrantIsAllowed DEF Open, Inside
  <2>6. Claims(c) \in SUBSET Slots
    BY DEF Claims
  <2> QED
    BY <2>5, <2>6 DEF Admission!Next
<1>5. ASSUME NEW c \in Clients, Acquire(c) PROVE Admission!Next \/ Same
  <2>1. CASE Admit(c)
    BY <1>4, <2>1
  <2>2. CASE TakeFull(c) \/ TakeTurnstile(c) \/ TryBox(c)
    BY <1>3, <2>2 DEF TakeFull, TakeTurnstile, TryBox, Goto, Step, Inside
  <2>3. CASE Scan(c)
    <3>1. CASE ScanEnd(c) /\ flagged[c]
      BY <1>2, <3>1 DEF ScanEnd
    <3>2. CASE ~(ScanEnd(c) /\ flagged[c])
      BY <1>3, <2>3, <3>2 DEF Scan, ScanStart, ScanRead, ScanTest, ScanUnlock, ScanEnd,
         Goto, Step, Inside, lockVars
    <3> QED
      BY <3>1, <3>2
  <2>4. CASE ClaimSlot(c) \/ Rollback(c)
    <3>1. \A d \in Clients \ {c} : Claims(d)' = Claims(d) /\ pc'[d] = pc[d]
      BY <2>4, <1>1, ClientAssumption DEF ClaimSlot, Rollback, Goto, Claims, SlotFree, BoxInv, TypeOK
    <3>2. ~Inside(c) /\ ~Inside(c)'
      BY <2>4, <1>1 DEF ClaimSlot, Rollback, Goto, Inside
    <3> QED
      BY <3>1, <3>2 DEF Granted, Inside
  <2> QED
    BY <1>5, <2>1, <2>2, <2>3, <2>4 DEF Acquire
<1>6. ASSUME NEW c \in Clients, LegacyAcquire(c) PROVE Admission!Next \/ Same
  <2>1. CASE LegacyWrite(c)
    BY <1>4, <2>1
  <2>2. ASSUME NEW i \in Slots, LegacyTake(c, i) PROVE Same
    <3>1. \A d \in Clients \ {c} : Claims(d)' = Claims(d) /\ pc'[d] = pc[d]
      BY <2>2, <1>1, ClientAssumption DEF LegacyTake, Goto, Claims, SlotFree, BoxInv, TypeOK
    <3>2. ~Inside(c) /\ ~Inside(c)'
      BY <2>2, <1>1 DEF LegacyTake, Goto, Inside
    <3> QED
      BY <3>1, <3>2 DEF Granted, Inside
  <2> QED
    BY <1>6, <2>1, <2>2 DEF LegacyAcquire
<1>7. ASSUME NEW c \in Clients, Spawn(c) PROVE Same
  BY <1>3, <1>7 DEF Spawn, lockVars, Inside, Step
<1>8. ASSUME NEW c \in Clients, Finish(c) \/ GiveUp(c) \/ Detach(c)
      PROVE  Admission!Next \/ Same
  <2>1. CASE Close(c)
    BY <1>2, <1>8, <2>1 DEF Finish, GiveUp, Detach
  <2>2. CASE ~Close(c)
    BY <1>3, <1>8, <2>2 DEF Finish, GiveUp, Detach, lockVars, Inside, Step
  <2> QED
    BY <2>1, <2>2
<1>9. ASSUME NEW o \in Observers,
             LookAway(o) \/ \E f \in 0..TurnstileFile : Look(o, f)
      PROVE  Same
  <2>1. UNCHANGED <<pc, holder>>
    BY <1>9 DEF Look, LookAway, lockVars
  <2> QED
    BY <2>1 DEF Granted, Inside, Claims
<1> QED
  BY <1>5, <1>6, <1>7, <1>8, <1>9 DEF Next

\* Admission as the lock protocol does it implements admission as BoxAdmission
\* states it.
THEOREM AdmissionRefined == Spec => AdmissionSpec
<1>1. Init => Admission!Init
  BY DEF Init, Admission!Init, Entry, Inside
<1>2. BoxInv /\ BoxInv' /\ [Next]_vars =>
        [Admission!Next]_([c \in Clients |-> IF Inside(c) THEN Claims(c) ELSE {}])
  <2>1. CASE Next /\ BoxInv /\ BoxInv'
    BY <2>1, StepRefines DEF Granted
  <2>2. CASE UNCHANGED vars
    BY <2>2 DEF vars, lockVars, Inside, Claims
  <2> QED
    BY <2>1, <2>2
<1> QED
  BY <1>1, <1>2, BoxInvariant, PTL DEF Spec, AdmissionSpec, Admission!Spec

-----------------------------------------------------------------------------
\* The scan of an exclusive client, and when its refusal is right.

\* One case per action that writes a lock, a record, a scan's verdict or a probe.
LEMMA ScanStep ==
    ASSUME BoxInv, ScanInv, Next
    PROVE  ScanInv'
<1> USE DEF BoxInv
<1>a. /\ pc \in [Clients -> Step] /\ holder \in [Slots -> Clients \cup {None}]
      /\ record \in [Slots -> Record] /\ cursor \in [Clients -> 0..MaxSlots]
      /\ seen \in [Clients -> Record] /\ probe \in [Clients \cup Observers -> Files \cup {None}]
      /\ None \notin Clients /\ Clients \cap Observers = {}
  BY ClientAssumption DEF TypeOK
<1>b. \A c \in Clients : pc[c] = "test" => cursor[c] \in Slots
  BY CapacityAssumption DEF TypeOK, LoopBounds, Slots
<1>c. \A c, d \in Clients : turnstile = c /\ pc[d] = "test" => c = d
  BY DEF TurnstileHeld
<1>1. ASSUME NEW c \in Clients, Acquire(c) PROVE ScanInv'
  <2>1. CASE ClaimSlot(c)
    <3>1. turnstile = c /\ pc[c] = "claim"
      BY <2>1 DEF ClaimSlot, TurnstileHeld
    <3> QED
      BY <1>a, <1>b, <1>c, <2>1, <3>1 DEF ScanInv, ClaimSlot, NextSlot, scanVars
  <2>2. CASE TakeFull(c) \/ TakeTurnstile(c) \/ TryBox(c) \/ Admit(c)
    BY <1>a, <2>2 DEF ScanInv, TakeFull, TakeTurnstile, TryBox, Admit, Goto, loopVars, scanVars
  <2>3. CASE Rollback(c)
    BY <1>a, <1>b, <2>3 DEF ScanInv, Rollback, Goto, loopVars, scanVars
  <2>4. CASE ScanStart(c)
    BY <1>a, <2>4 DEF ScanInv, ScanStart, Goto, lockVars
  <2>5. CASE ScanRead(c)
    <3>1. cursor[c] \in Slots /\ pc[c] = "scan"
      BY <2>5, CapacityAssumption DEF ScanRead, TypeOK, Slots
    <3> QED
      BY <1>a, <2>5, <3>1 DEF ScanInv, ScanRead, NextSlot, Goto, lockVars, loopVars
  <2>6. CASE ScanTest(c) \/ ScanUnlock(c)
    BY <1>a, <2>6 DEF ScanInv, ScanTest, ScanUnlock, NextSlot, Goto, lockVars, loopVars, scanVars
  <2>7. CASE ScanEnd(c)
    BY <1>a, <1>b, <2>7 DEF ScanInv, ScanEnd, Close, Goto, lockVars, loopVars, scanVars
  <2> QED
    BY <1>1, <2>1, <2>2, <2>3, <2>4, <2>5, <2>6, <2>7 DEF Acquire, Scan
<1>2. ASSUME NEW c \in Clients, LegacyAcquire(c) PROVE ScanInv'
  <2>1. c \in Legacy
    BY <1>2 DEF LegacyAcquire, LegacyTake, LegacyWrite, OwnSteps
  <2>2. ASSUME NEW i \in Slots, LegacyTake(c, i) PROVE ScanInv'
    BY <1>a, <1>b, <2>1, <2>2 DEF ScanInv, LegacyTake, Goto, loopVars, scanVars
  <2>3. CASE LegacyWrite(c)
    BY <1>a, <2>1, <2>3 DEF ScanInv, LegacyWrite, Goto, lockVars, loopVars, scanVars
  <2> QED
    BY <1>2, <2>2, <2>3 DEF LegacyAcquire
<1>3. ASSUME NEW c \in Clients, Spawn(c) PROVE ScanInv'
  BY <1>a, <1>3 DEF ScanInv, Spawn, Goto, lockVars, loopVars, scanVars
<1>4. ASSUME NEW c \in Clients, Finish(c) \/ GiveUp(c) \/ Detach(c) PROVE ScanInv'
  <2>1. CASE Close(c)
    BY <1>a, <1>b, <1>4, <2>1 DEF ScanInv, Finish, GiveUp, Detach, Close, Goto, loopVars, scanVars
  <2>2. CASE Detach(c) /\ c \notin Detached
    BY <1>a, <2>2 DEF ScanInv, Detach, Goto, lockVars, loopVars, scanVars
  <2> QED
    BY <1>4, <2>1, <2>2 DEF Finish, GiveUp, Detach
<1>5. ASSUME NEW o \in Observers,
             LookAway(o) \/ \E f \in 0..TurnstileFile : Look(o, f)
      PROVE  ScanInv'
  BY <1>a, <1>5 DEF ScanInv, Look, LookAway, lockVars, loopVars, scanVars
<1> QED
  BY <1>1, <1>2, <1>3, <1>4, <1>5 DEF Next

\* Every slot a client of the protocol holds carries its version record, so a
\* record of another kind that a scan has read belongs to no such client; and
\* only a scanning client ever probes a file (semaphore.py, the capacity scan).
THEOREM ScanInvariant == Spec => []ScanInv
<1>1. Init => ScanInv
  BY ClientAssumption DEF Init, ScanInv, Entry
<1>2. BoxInv /\ ScanInv /\ [Next]_vars => ScanInv'
  <2>1. CASE UNCHANGED vars
    BY <2>1 DEF ScanInv, vars, lockVars, loopVars, scanVars
  <2> QED
    BY <2>1, ScanStep
<1> QED
  BY <1>1, <1>2, BoxInvariant, PTL DEF Spec

\* A scan refuses exclusive admission only for a slot that a slot-only client
\* holds or a snapshot is testing just then, whatever records earlier clients left
\* and however many snapshots are taken beside it.
THEOREM RefusalsJustified == Spec => RefusalJustified
<1> DEFINE Justified(c) == \/ holder[cursor[c]] \in Legacy
                           \/ \E o \in Observers : probe[o] = cursor[c]
           Why == \A c \in Exclusive : ~flagged[c] /\ flagged'[c] => Justified(c)
<1>1. BoxInv /\ ScanInv /\ [Next]_vars => [Why]_vars
  <2> SUFFICES ASSUME BoxInv, ScanInv, Next, NEW c \in Exclusive,
                      ~flagged[c], flagged'[c]
               PROVE  Justified(c)
    OBVIOUS
  <2>1. c \in Clients /\ None \notin Clients
    BY ClientAssumption
  <2>2. PICK d \in Clients : ScanStart(d) \/ ScanTest(d)
    BY Zenon DEF Next, Acquire, LegacyAcquire, Spawn, Finish, Detach, GiveUp, Scan,
       TakeFull, TakeTurnstile, ScanRead, ScanUnlock, ScanEnd,
       TryBox, ClaimSlot, Admit, Rollback, LegacyTake, LegacyWrite, Look, LookAway,
       scanVars
  <2>3. ScanTest(c) /\ ~SlotFree(cursor[c]) /\ seen[c] = "other"
    <3>1. flagged \in [Clients -> BOOLEAN]
      BY DEF BoxInv, TypeOK
    <3>2. CASE ScanStart(d)
      BY <2>1, <3>1, <3>2 DEF ScanStart
    <3>3. CASE ScanTest(d) /\ SlotFree(cursor[d])
      BY <3>3 DEF ScanTest
    <3>4. CASE ScanTest(d) /\ ~SlotFree(cursor[d])
      BY <2>1, <3>1, <3>4 DEF ScanTest
    <3> QED
      BY <2>2, <3>2, <3>3, <3>4
  <2>4. \A e \in Clients : probe[e] = None
    BY <2>1, <2>3 DEF ScanInv, ScanTest, BoxInv, TurnstileHeld
  <2>5. cursor[c] \in Slots /\ cursor[c] # None
    BY <2>1, <2>3, CapacityAssumption DEF ScanTest, BoxInv, TypeOK, LoopBounds, Slots
  <2>6. holder[cursor[c]] # None \/ \E o \in Observers : probe[o] = cursor[c]
    BY <2>3, <2>4, <2>5 DEF SlotFree, Untested
  <2>7. holder[cursor[c]] # None => holder[cursor[c]] \in Legacy
    BY <2>1, <2>3, <2>5 DEF ScanInv, ScanTest, BoxInv, TypeOK
  <2> QED
    BY <2>6, <2>7
<1> QED
  BY <1>1, BoxInvariant, ScanInvariant, PTL DEF Spec, RefusalJustified
=============================================================================
