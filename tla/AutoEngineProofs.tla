---------------------------- MODULE AutoEngineProofs ---------------------------
(***************************************************************************)
(* What holds of the automatic engine for every value of its constants.    *)
(* Of AutoCycle: the types of its state, and that one wrong read of a      *)
(* short sells nothing.  Of Rebalance: that no order of a plan is larger   *)
(* than what its wallets hold.                                             *)
(***************************************************************************)
EXTENDS AutoCycle, Rebalance, FiniteSetTheorems, TLAPS

-----------------------------------------------------------------------------
(* Type correctness, in parts a step tends to leave alone together.        *)

Legs == {"none", "hedged", "spot", "perp", "flat", "closed"}

ConfigTyped == enabled \in BOOLEAN /\ dryRun \in BOOLEAN /\ hard \in BOOLEAN

BookTyped ==
  /\ st \in [Strategies -> Legs]
  /\ thin \in SUBSET Strategies

QueueTyped ==
  /\ queue \in [Keys -> {NotQueued} \cup 0 .. MaxRounds]
  /\ due \in SUBSET {x \in Keys : queue[x] # NotQueued}

GuardTyped ==
  /\ mis \in [Strategies -> [rounds : 0 .. RepairRounds - 1, abnormal : BOOLEAN]]
  /\ lies \in [Strategies -> 0 .. 2]

BreakerTyped ==
  /\ streak \in 0 .. Threshold
  /\ orphan \in {"no", "fresh", "stale"}

StageTyped ==
  /\ pc \in {"idle", "retrying", "scan", "repair", "guard", "close", "open"}
  /\ mode \in {"none", "plan", "fallback", "rebalance"}
  /\ dry \in BOOLEAN /\ broke \in BOOLEAN

PlanTyped ==
  /\ holds \in SUBSET Strategies /\ sell \in SUBSET Strategies /\ buy \in SUBSET Strategies
  /\ todo \in SUBSET Keys /\ opening \in SUBSET Pairs
  /\ failed \in SUBSET Keys

BoundsTyped == toggles \in 0 .. MaxToggles /\ faults \in 0 .. MaxFaults

LEMMA TypeOKByParts ==
  TypeOK <=> /\ ConfigTyped /\ BookTyped /\ QueueTyped /\ GuardTyped
             /\ BreakerTyped /\ StageTyped /\ PlanTyped /\ BoundsTyped
BY DEF TypeOK, ConfigTyped, BookTyped, QueueTyped, GuardTyped, BreakerTyped,
       StageTyped, PlanTyped, BoundsTyped, Legs

LEMMA TypeOKByPartsNext ==
  TypeOK' <=> /\ ConfigTyped' /\ BookTyped' /\ QueueTyped' /\ GuardTyped'
              /\ BreakerTyped' /\ StageTyped' /\ PlanTyped' /\ BoundsTyped'
BY DEF TypeOK, ConfigTyped, BookTyped, QueueTyped, GuardTyped, BreakerTyped,
       StageTyped, PlanTyped, BoundsTyped, Legs

LEMMA InitTyped == Init => TypeOK
<1> SUFFICES ASSUME Init PROVE TypeOK
  OBVIOUS
<1>1. ConfigTyped /\ BookTyped /\ BreakerTyped
  <2>1. BookTyped
    BY DEF Init, BookTyped, Legs
  <2>2. ConfigTyped
    BY DEF Init, ConfigTyped
  <2>3. BreakerTyped
    BY AutoAssumption DEF Init, BreakerTyped
  <2> QED BY <2>1, <2>2, <2>3
<1>2. QueueTyped
  BY DEF Init, QueueTyped
<1>3. GuardTyped
  BY AutoAssumption DEF Init, GuardTyped, Unseen
<1>4. StageTyped /\ PlanTyped
  BY DEF Init, StageTyped, PlanTyped
<1>5. BoundsTyped
  BY AutoAssumption DEF Init, BoundsTyped
<1> QED BY <1>1, <1>2, <1>3, <1>4, <1>5, TypeOKByParts

-----------------------------------------------------------------------------
(* What the operators the actions share do to the types.                   *)

LEMMA LesserType ==
  ASSUME NEW a \in Nat, NEW b \in Nat PROVE Lesser(a, b) \in 0 .. b
BY DEF Lesser

LEMMA IdleTyped == Idle => StageTyped' /\ PlanTyped'
BY DEF Idle, StageTyped, PlanTyped

LEMMA FaultTyped ==
  ASSUME faults \in 0 .. MaxFaults, NEW n \in Nat, Fault(n)
  PROVE  faults' \in 0 .. MaxFaults
BY AutoAssumption DEF Fault

LEMMA CloseOutcomeType ==
  ASSUME NEW s \in Legs, NEW o \in CloseOutcomes(s)
  PROVE  o.to \in Legs /\ o.f \in Nat
BY DEF CloseOutcomes, LeftOf, Legs

LEMMA EnqueueTyped ==
  ASSUME QueueTyped, NEW keys \in SUBSET Keys, Enqueue(keys)
  PROVE  QueueTyped'
<1> DEFINE items == IF MaxRounds > 0 THEN keys ELSE {}
<1>1. /\ queue' = [x \in Keys |-> IF x \in items /\ queue[x] = NotQueued THEN 0 ELSE queue[x]]
      /\ due' = due \ items
  BY DEF Enqueue
<1>2. queue' \in [Keys -> {NotQueued} \cup 0 .. MaxRounds]
  BY <1>1, AutoAssumption DEF QueueTyped
<1>3. \A x \in due' : x \in Keys /\ queue'[x] # NotQueued
  BY <1>1 DEF QueueTyped, NotQueued
<1> QED BY <1>2, <1>3 DEF QueueTyped

LEMMA RetriedTyped ==
  ASSUME QueueTyped, PlanTyped, NEW x \in Keys, NEW ok, Retried(x, ok)
  PROVE  QueueTyped' /\ PlanTyped'
<1>1. todo' \in SUBSET Keys /\ failed' \in SUBSET Keys
  BY DEF Retried, PlanTyped
<1>2. PlanTyped'
  BY <1>1 DEF PlanTyped, Retried
<1>3. queue[x] \in Int /\ queue[x] >= -1
  BY AutoAssumption DEF QueueTyped, NotQueued
<1>4. CASE UNCHANGED <<queue, due>>
  BY <1>4, <1>2 DEF QueueTyped
<1>5. CASE /\ ~Requeued(x).drop
           /\ queue' = [queue EXCEPT ![x] = Requeued(x).round]
           /\ due' = due \ {x}
  <2>0. Requeued(x).drop <=> queue[x] + 1 > MaxRounds
    BY DEF Requeued
  <2>1. Requeued(x).round \in 0 .. MaxRounds
    <3>1. Requeued(x).round = queue[x] + 1
      BY DEF Requeued
    <3> QED BY <1>3, <1>5, <2>0, <3>1, AutoAssumption
  <2>2. queue' \in [Keys -> {NotQueued} \cup 0 .. MaxRounds]
    BY <2>1, <1>5 DEF QueueTyped
  <2>3. \A y \in due' : y \in Keys /\ queue'[y] # NotQueued
    BY <1>5 DEF QueueTyped
  <2> QED BY <2>2, <2>3, <1>2 DEF QueueTyped
<1> QED BY <1>4, <1>5 DEF Retried

LEMMA CloseCallTyped ==
  ASSUME BookTyped, BoundsTyped, NEW k \in Strategies, NEW o \in CloseOutcomes(st[k]),
         CloseCall(k, o)
  PROVE  BookTyped' /\ faults' \in 0 .. MaxFaults
<1>1. st[k] \in Legs
  BY DEF BookTyped
<1>2. o.to \in Legs /\ o.f \in Nat
  BY <1>1, CloseOutcomeType
<1>3. faults' \in 0 .. MaxFaults
  BY <1>2, FaultTyped DEF CloseCall, BoundsTyped
<1> QED BY <1>2, <1>3 DEF CloseCall, BookTyped

LEMMA OpenCallTyped ==
  ASSUME BookTyped, BoundsTyped, NEW p, NEW result, OpenCall(p, result)
  PROVE  BookTyped' /\ faults' \in 0 .. MaxFaults
<1>1. CASE UNCHANGED <<book, faults>>
  BY <1>1 DEF book, BookTyped, BoundsTyped
<1>2. CASE /\ \E k \in Strategies :
                \/ st' = [st EXCEPT ![k] = "hedged"] /\ Fault(0)
                \/ Fault(1) /\ \E s \in {"closed", "flat", "perp"} :
                                  st' = [st EXCEPT ![k] = s]
           /\ UNCHANGED thin
  <2>1. faults' \in 0 .. MaxFaults
    BY <1>2, FaultTyped DEF BoundsTyped
  <2> QED BY <1>2, <2>1 DEF BookTyped, Legs
<1> QED BY <1>1, <1>2 DEF OpenCall

LEMMA ReconciledType == BookTyped => Reconciled \in [Strategies -> Legs]
BY DEF BookTyped, Reconciled, Legs

LEMMA ScanMemoryTyped ==
  ASSUME GuardTyped, NEW unread, NEW wrong, NEW k \in Strategies
  PROVE  Seen(k, unread, wrong) \in [rounds : 0 .. RepairRounds - 1, abnormal : BOOLEAN]
<1>1. mis[k] \in [rounds : 0 .. RepairRounds - 1, abnormal : BOOLEAN]
  BY DEF GuardTyped
<1>2. Unseen \in [rounds : 0 .. RepairRounds - 1, abnormal : BOOLEAN]
  BY AutoAssumption DEF Unseen
<1>3. Lesser(mis[k].rounds + 1, RepairRounds - 1) \in 0 .. RepairRounds - 1
  <2>1. mis[k].rounds + 1 \in Nat /\ RepairRounds - 1 \in Nat
    BY <1>1, AutoAssumption
  <2> QED BY <2>1, LesserType
<1>4. AbnormalRead(k, wrong) \in BOOLEAN
  BY DEF AbnormalRead
<1> QED BY <1>1, <1>2, <1>3, <1>4 DEF Seen

-----------------------------------------------------------------------------
(* One step of the engine, or of its surroundings, keeps the types.        *)

LEMMA StartTyped ==
  ASSUME TypeOK, Start
  PROVE  TypeOK'
<1>0. ConfigTyped /\ BookTyped /\ QueueTyped /\ GuardTyped
      /\ BreakerTyped /\ StageTyped /\ PlanTyped /\ BoundsTyped
  BY TypeOKByParts
<1>1. BookTyped'
  BY <1>0, ReconciledType DEF Start, BookTyped
<1>2. StageTyped' /\ PlanTyped'
  <2>1. todo' \in SUBSET Keys
    BY <1>0 DEF Start, QueueTyped
  <2>2. pc' \in {"scan", "retrying"} /\ dry' \in BOOLEAN
    BY <1>0 DEF Start, ConfigTyped
  <2>3. StageTyped'
    BY <1>0, <2>2 DEF Start, StageTyped
  <2>4. PlanTyped'
    BY <1>0, <2>1 DEF Start, PlanTyped
  <2> QED BY <2>3, <2>4
<1>3. BreakerTyped'
  BY <1>0 DEF Start, BreakerTyped, memory
<1>4. ConfigTyped' /\ QueueTyped' /\ GuardTyped' /\ BoundsTyped'
  BY <1>0 DEF Start, ConfigTyped, QueueTyped, GuardTyped, BoundsTyped,
     config, book, memory, cycle, bounds
<1> QED
  BY <1>1, <1>2, <1>3, <1>4, TypeOKByPartsNext

LEMMA RetryCloseTyped ==
  ASSUME TypeOK, NEW k \in Strategies, RetryClose(k)
  PROVE  TypeOK'
<1>0. ConfigTyped /\ BookTyped /\ QueueTyped /\ GuardTyped
      /\ BreakerTyped /\ StageTyped /\ PlanTyped /\ BoundsTyped
  BY TypeOKByParts
<1>1. PICK o \in CloseOutcomes(st[k]) : CloseCall(k, o) /\ Retried(k, o.ok)
  BY DEF RetryClose
<1>2. BookTyped' /\ faults' \in 0 .. MaxFaults
  BY <1>0, <1>1, CloseCallTyped
<1>3. QueueTyped' /\ PlanTyped'
  BY <1>0, <1>1, RetriedTyped DEF Keys
<1>4. ConfigTyped' /\ GuardTyped' /\ BreakerTyped' /\ StageTyped' /\ BoundsTyped'
  BY <1>0, <1>1, <1>2 DEF Retried, RetryClose, ConfigTyped, GuardTyped, BreakerTyped,
     StageTyped, BoundsTyped, config
<1> QED
  BY <1>1, <1>2, <1>3, <1>4, TypeOKByPartsNext

LEMMA RetryOpenTyped ==
  ASSUME TypeOK, NEW p \in Pairs, RetryOpen(p)
  PROVE  TypeOK'
<1>0. ConfigTyped /\ BookTyped /\ QueueTyped /\ GuardTyped
      /\ BreakerTyped /\ StageTyped /\ PlanTyped /\ BoundsTyped
  BY TypeOKByParts
<1>1. PICK result \in {"opened", "skipped", "failed"} :
        OpenCall(p, result) /\ Retried(p, result = "opened")
  BY DEF RetryOpen
<1>2. BookTyped' /\ faults' \in 0 .. MaxFaults
  BY <1>0, <1>1, OpenCallTyped
<1>3. QueueTyped' /\ PlanTyped'
  BY <1>0, <1>1, RetriedTyped DEF Keys
<1>4. ConfigTyped' /\ GuardTyped' /\ BreakerTyped' /\ StageTyped' /\ BoundsTyped'
  BY <1>0, <1>1, <1>2 DEF Retried, RetryOpen, ConfigTyped, GuardTyped, BreakerTyped,
     StageTyped, BoundsTyped, config
<1> QED
  BY <1>1, <1>2, <1>3, <1>4, TypeOKByPartsNext

LEMMA EndRetriesTyped ==
  ASSUME TypeOK, EndRetries
  PROVE  TypeOK'
<1>0. ConfigTyped /\ BookTyped /\ QueueTyped /\ GuardTyped
      /\ BreakerTyped /\ StageTyped /\ PlanTyped /\ BoundsTyped
  BY TypeOKByParts
<1>1. QueueTyped'
  <2>1. queue' \in [Keys -> {NotQueued} \cup 0 .. MaxRounds]
    BY <1>0 DEF EndRetries, QueueTyped
  <2>2. \A x \in due' : x \in Keys /\ queue'[x] # NotQueued
    BY <1>0 DEF EndRetries, QueueTyped
  <2> QED BY <2>1, <2>2 DEF QueueTyped
<1>2. StageTyped' /\ PlanTyped'
  BY IdleTyped DEF EndRetries
<1>3. ConfigTyped' /\ BookTyped' /\ GuardTyped' /\ BreakerTyped' /\ BoundsTyped'
  BY <1>0 DEF EndRetries, ConfigTyped, BookTyped, GuardTyped, BreakerTyped, BoundsTyped,
     config, book, memory, cycle, bounds
<1> QED
  BY <1>1, <1>2, <1>3, TypeOKByPartsNext

LEMMA RepairTyped ==
  ASSUME TypeOK, NEW k \in Strategies, NEW l \in {"spot", "perp"}, Repair(k, l)
  PROVE  TypeOK'
<1>0. ConfigTyped /\ BookTyped /\ QueueTyped /\ GuardTyped
      /\ BreakerTyped /\ StageTyped /\ PlanTyped /\ BoundsTyped
  BY TypeOKByParts
<1>1. st[k] \in Legs /\ Without(st[k], l) \in Legs
  BY <1>0 DEF BookTyped, Without, Legs
<1>2. BookTyped'
  BY <1>0, <1>1 DEF Repair, BookTyped, book
<1>3. faults' \in 0 .. MaxFaults
  BY <1>0, FaultTyped DEF Repair, BoundsTyped
<1>4. BoundsTyped'
  BY <1>0, <1>3 DEF Repair, BoundsTyped
<1>5. PlanTyped'
  <2>1. sell' \in SUBSET Strategies /\ buy' \in SUBSET Strategies
    BY <1>0 DEF Repair, PlanTyped
  <2>2. todo' \in SUBSET Keys
    BY <1>0 DEF Repair, PlanTyped, Keys
  <2> QED BY <1>0, <2>1, <2>2 DEF Repair, PlanTyped
<1>6. StageTyped'
  BY <1>0 DEF Repair, StageTyped
<1>7. ConfigTyped' /\ QueueTyped' /\ GuardTyped' /\ BreakerTyped'
  BY <1>0 DEF Repair, ConfigTyped, QueueTyped, GuardTyped, BreakerTyped,
     config, book, memory, cycle, bounds
<1> QED
  BY <1>1, <1>2, <1>3, <1>4, <1>5, <1>6, <1>7, TypeOKByPartsNext

LEMMA EndRepairsTyped ==
  ASSUME TypeOK, EndRepairs
  PROVE  TypeOK'
<1>0. ConfigTyped /\ BookTyped /\ QueueTyped /\ GuardTyped
      /\ BreakerTyped /\ StageTyped /\ PlanTyped /\ BoundsTyped
  BY TypeOKByParts
<1>1. StageTyped' /\ PlanTyped'
  BY <1>0, IdleTyped DEF EndRepairs, StageTyped, PlanTyped
<1>2. ConfigTyped'
  BY <1>0 DEF EndRepairs, ConfigTyped
<1>3. BookTyped' /\ QueueTyped' /\ GuardTyped' /\ BreakerTyped' /\ BoundsTyped'
  BY <1>0 DEF EndRepairs, BookTyped, QueueTyped, GuardTyped, BreakerTyped, BoundsTyped,
     config, book, memory, cycle, bounds
<1> QED
  BY <1>1, <1>2, <1>3, TypeOKByPartsNext

LEMMA GuardTypedNext ==
  ASSUME TypeOK, Guard
  PROVE  TypeOK'
<1>0. ConfigTyped /\ BookTyped /\ QueueTyped /\ GuardTyped
      /\ BreakerTyped /\ StageTyped /\ PlanTyped /\ BoundsTyped
  BY TypeOKByParts
<1>1. ASSUME NEW plan \in SUBSET Strategies, NEW m \in {"plan", "rebalance"},
             NEW open \in SUBSET Pairs, PlanCloses(plan, m, open)
      PROVE  StageTyped' /\ PlanTyped'
  BY <1>0, <1>1, IdleTyped DEF PlanCloses, StageTyped, PlanTyped, Keys
<1>2. StageTyped' /\ PlanTyped'
  <2>1. holds \in SUBSET Strategies /\ HardPlan \in SUBSET Strategies
    BY <1>0 DEF PlanTyped, HardPlan
  <2> QED BY <1>1, <2>1 DEF Guard
<1>3. ConfigTyped' /\ BookTyped' /\ QueueTyped' /\ GuardTyped' /\ BreakerTyped' /\ BoundsTyped'
  BY <1>0 DEF Guard, ConfigTyped, BookTyped, QueueTyped, GuardTyped, BreakerTyped, BoundsTyped,
     config, book, memory, cycle, bounds
<1> QED
  BY <1>1, <1>2, <1>3, TypeOKByPartsNext

LEMMA CloseTyped ==
  ASSUME TypeOK, NEW k \in Strategies, Close(k)
  PROVE  TypeOK'
<1>0. ConfigTyped /\ BookTyped /\ QueueTyped /\ GuardTyped
      /\ BreakerTyped /\ StageTyped /\ PlanTyped /\ BoundsTyped
  BY TypeOKByParts
<1>1. PICK o \in CloseOutcomes(st[k]) :
        CloseCall(k, o) /\ failed' = IF o.ok THEN failed ELSE failed \cup {k}
  BY DEF Close
<1>2. BookTyped' /\ faults' \in 0 .. MaxFaults
  BY <1>0, <1>1, CloseCallTyped
<1>3. PlanTyped'
  BY <1>0, <1>1 DEF Close, PlanTyped, Keys
<1>4. BoundsTyped'
  BY <1>0, <1>2 DEF Close, BoundsTyped
<1>5. ConfigTyped' /\ QueueTyped' /\ GuardTyped' /\ BreakerTyped' /\ StageTyped'
  BY <1>0 DEF Close, ConfigTyped, QueueTyped, GuardTyped, BreakerTyped, StageTyped,
     config, book, memory, cycle, bounds
<1> QED
  BY <1>1, <1>2, <1>3, <1>4, <1>5, TypeOKByPartsNext

LEMMA EndClosesTyped ==
  ASSUME TypeOK, EndCloses
  PROVE  TypeOK'
<1>0. ConfigTyped /\ BookTyped /\ QueueTyped /\ GuardTyped
      /\ BreakerTyped /\ StageTyped /\ PlanTyped /\ BoundsTyped
  BY TypeOKByParts
<1>1. QueueTyped'
  <2>1. CASE UNCHANGED <<queue, due>>
    BY <1>0, <2>1 DEF QueueTyped
  <2>2. CASE Enqueue(failed)
    BY <1>0, <2>2, EnqueueTyped DEF PlanTyped
  <2> QED BY <2>1, <2>2 DEF EndCloses
<1>2. StageTyped' /\ PlanTyped'
  BY <1>0, IdleTyped DEF EndCloses, Go, StageTyped, PlanTyped
<1>3. ConfigTyped'
  BY <1>0 DEF EndCloses, ConfigTyped
<1>4. BookTyped' /\ GuardTyped' /\ BreakerTyped' /\ BoundsTyped'
  BY <1>0 DEF EndCloses, BookTyped, GuardTyped, BreakerTyped, BoundsTyped,
     config, book, memory, cycle, bounds
<1> QED
  BY <1>1, <1>2, <1>3, <1>4, TypeOKByPartsNext

LEMMA OpenTyped ==
  ASSUME TypeOK, NEW p \in Pairs, Open(p)
  PROVE  TypeOK'
<1>0. ConfigTyped /\ BookTyped /\ QueueTyped /\ GuardTyped
      /\ BreakerTyped /\ StageTyped /\ PlanTyped /\ BoundsTyped
  BY TypeOKByParts
<1>1. PICK result \in {"opened", "skipped", "failed"} : OpenCall(p, result)
  BY DEF Open
<1>2. BookTyped' /\ faults' \in 0 .. MaxFaults
  BY <1>0, <1>1, OpenCallTyped
<1>3. PlanTyped'
  BY <1>0 DEF Open, PlanTyped, Keys
<1>4. BoundsTyped'
  BY <1>0, <1>2 DEF Open, BoundsTyped
<1>5. ConfigTyped' /\ QueueTyped' /\ GuardTyped' /\ BreakerTyped' /\ StageTyped'
  BY <1>0 DEF Open, ConfigTyped, QueueTyped, GuardTyped, BreakerTyped, StageTyped,
     config, book, memory, cycle, bounds
<1> QED
  BY <1>1, <1>2, <1>3, <1>4, <1>5, TypeOKByPartsNext

LEMMA EndOpensTyped ==
  ASSUME TypeOK, EndOpens
  PROVE  TypeOK'
<1>0. ConfigTyped /\ BookTyped /\ QueueTyped /\ GuardTyped
      /\ BreakerTyped /\ StageTyped /\ PlanTyped /\ BoundsTyped
  BY TypeOKByParts
<1>1. QueueTyped'
  BY <1>0, EnqueueTyped DEF EndOpens, PlanTyped
<1>2. StageTyped' /\ PlanTyped'
  BY IdleTyped DEF EndOpens
<1>3. ConfigTyped' /\ BookTyped' /\ GuardTyped' /\ BreakerTyped' /\ BoundsTyped'
  BY <1>0 DEF EndOpens, ConfigTyped, BookTyped, GuardTyped, BreakerTyped, BoundsTyped,
     config, book, memory, cycle, bounds
<1> QED
  BY <1>1, <1>2, <1>3, TypeOKByPartsNext

LEMMA AbortTyped ==
  ASSUME TypeOK, Abort
  PROVE  TypeOK'
<1>0. ConfigTyped /\ BookTyped /\ QueueTyped /\ GuardTyped
      /\ BreakerTyped /\ StageTyped /\ PlanTyped /\ BoundsTyped
  BY TypeOKByParts
<1>1. StageTyped' /\ PlanTyped'
  BY IdleTyped DEF Abort
<1>2. BoundsTyped'
  BY <1>0, FaultTyped DEF Abort, BoundsTyped
<1>3. BreakerTyped'
  <2>1. streak + 1 \in Nat /\ Threshold \in Nat
    BY <1>0, AutoAssumption DEF BreakerTyped
  <2>2. Lesser(streak + 1, Threshold) \in 0 .. Threshold
    BY <2>1, LesserType
  <2> QED BY <1>0, <2>2 DEF Abort, BreakerTyped
<1>4. ConfigTyped'
  BY <1>0 DEF Abort, ConfigTyped
<1>5. BookTyped' /\ QueueTyped' /\ GuardTyped'
  BY <1>0 DEF Abort, BookTyped, QueueTyped, GuardTyped,
     config, book, memory, cycle, bounds
<1> QED
  BY <1>1, <1>2, <1>3, <1>4, <1>5, TypeOKByPartsNext

LEMMA CrashTyped ==
  ASSUME TypeOK, Crash
  PROVE  TypeOK'
<1>0. ConfigTyped /\ BookTyped /\ QueueTyped /\ GuardTyped
      /\ BreakerTyped /\ StageTyped /\ PlanTyped /\ BoundsTyped
  BY TypeOKByParts
<1>1. StageTyped' /\ PlanTyped'
  BY IdleTyped DEF Crash
<1>2. BoundsTyped'
  BY <1>0, FaultTyped DEF Crash, BoundsTyped
<1>3. QueueTyped'
  BY DEF Crash, QueueTyped
<1>4. GuardTyped'
  BY <1>0, AutoAssumption DEF Crash, GuardTyped, Unseen
<1>5. BreakerTyped'
  BY <1>0, AutoAssumption DEF Crash, BreakerTyped
<1>6. ConfigTyped' /\ BookTyped'
  BY <1>0 DEF Crash, ConfigTyped, BookTyped,
     config, book, memory, cycle, bounds
<1> QED
  BY <1>1, <1>2, <1>3, <1>4, <1>5, <1>6, TypeOKByPartsNext

LEMMA FallsDueTyped ==
  ASSUME TypeOK, NEW x \in Keys, FallsDue(x)
  PROVE  TypeOK'
<1>0. ConfigTyped /\ BookTyped /\ QueueTyped /\ GuardTyped
      /\ BreakerTyped /\ StageTyped /\ PlanTyped /\ BoundsTyped
  BY TypeOKByParts
<1>1. QueueTyped'
  BY <1>0 DEF FallsDue, QueueTyped
<1>2. ConfigTyped' /\ BookTyped' /\ GuardTyped' /\ BreakerTyped' /\ StageTyped' /\ PlanTyped' /\ BoundsTyped'
  BY <1>0 DEF FallsDue, ConfigTyped, BookTyped, GuardTyped, BreakerTyped, StageTyped, PlanTyped, BoundsTyped,
     config, book, memory, cycle, bounds
<1> QED
  BY <1>1, <1>2, TypeOKByPartsNext

LEMMA LockAgesTyped ==
  ASSUME TypeOK, LockAges
  PROVE  TypeOK'
<1>0. ConfigTyped /\ BookTyped /\ QueueTyped /\ GuardTyped
      /\ BreakerTyped /\ StageTyped /\ PlanTyped /\ BoundsTyped
  BY TypeOKByParts
<1>1. ConfigTyped' /\ BookTyped' /\ QueueTyped' /\ GuardTyped' /\ BreakerTyped' /\ StageTyped' /\ PlanTyped' /\ BoundsTyped'
  BY <1>0 DEF LockAges, ConfigTyped, BookTyped, QueueTyped, GuardTyped, BreakerTyped, StageTyped, PlanTyped, BoundsTyped,
     config, book, memory, cycle, bounds
<1> QED
  BY <1>1, TypeOKByPartsNext

LEMMA UserOpenTyped ==
  ASSUME TypeOK, NEW k \in Strategies, UserOpen(k)
  PROVE  TypeOK'
<1>0. ConfigTyped /\ BookTyped /\ QueueTyped /\ GuardTyped
      /\ BreakerTyped /\ StageTyped /\ PlanTyped /\ BoundsTyped
  BY TypeOKByParts
<1>1. BookTyped'
  BY <1>0 DEF UserOpen, BookTyped, Legs
<1>2. ConfigTyped' /\ QueueTyped' /\ GuardTyped' /\ BreakerTyped' /\ StageTyped' /\ PlanTyped' /\ BoundsTyped'
  BY <1>0 DEF UserOpen, ConfigTyped, QueueTyped, GuardTyped, BreakerTyped, StageTyped, PlanTyped, BoundsTyped,
     config, book, memory, cycle, bounds
<1> QED
  BY <1>1, <1>2, TypeOKByPartsNext

LEMMA OtherCloseTyped ==
  ASSUME TypeOK, NEW k \in Strategies, OtherClose(k)
  PROVE  TypeOK'
<1>0. ConfigTyped /\ BookTyped /\ QueueTyped /\ GuardTyped
      /\ BreakerTyped /\ StageTyped /\ PlanTyped /\ BoundsTyped
  BY TypeOKByParts
<1>1. BookTyped' /\ faults' \in 0 .. MaxFaults
  <2>1. CASE \E o \in CloseOutcomes(st[k]) : CloseCall(k, o)
    BY <1>0, <2>1, CloseCallTyped
  <2>2. CASE st' = [st EXCEPT ![k] = "closed"] /\ UNCHANGED <<thin, faults>>
    BY <1>0, <2>2 DEF BookTyped, BoundsTyped, Legs
  <2> QED BY <2>1, <2>2 DEF OtherClose
<1>2. BoundsTyped'
  BY <1>0, <1>1 DEF OtherClose, BoundsTyped
<1>3. ConfigTyped' /\ QueueTyped' /\ GuardTyped' /\ BreakerTyped' /\ StageTyped' /\ PlanTyped'
  BY <1>0 DEF OtherClose, ConfigTyped, QueueTyped, GuardTyped, BreakerTyped, StageTyped, PlanTyped,
     config, book, memory, cycle, bounds
<1> QED
  BY <1>1, <1>2, <1>3, TypeOKByPartsNext

LEMMA ReconcileTyped ==
  ASSUME TypeOK, Reconcile
  PROVE  TypeOK'
<1>0. ConfigTyped /\ BookTyped /\ QueueTyped /\ GuardTyped
      /\ BreakerTyped /\ StageTyped /\ PlanTyped /\ BoundsTyped
  BY TypeOKByParts
<1>1. BookTyped'
  BY <1>0, ReconciledType DEF Reconcile, BookTyped
<1>2. ConfigTyped' /\ QueueTyped' /\ GuardTyped' /\ BreakerTyped' /\ StageTyped' /\ PlanTyped' /\ BoundsTyped'
  BY <1>0 DEF Reconcile, ConfigTyped, QueueTyped, GuardTyped, BreakerTyped, StageTyped, PlanTyped, BoundsTyped,
     config, book, memory, cycle, bounds
<1> QED
  BY <1>1, <1>2, TypeOKByPartsNext

LEMMA ToggleTyped ==
  ASSUME TypeOK, Toggle
  PROVE  TypeOK'
<1>0. ConfigTyped /\ BookTyped /\ QueueTyped /\ GuardTyped
      /\ BreakerTyped /\ StageTyped /\ PlanTyped /\ BoundsTyped
  BY TypeOKByParts
<1>1. BoundsTyped'
  BY <1>0, AutoAssumption DEF Toggle, BoundsTyped
<1>2. ConfigTyped' /\ BookTyped' /\ QueueTyped' /\ GuardTyped' /\ BreakerTyped' /\ StageTyped' /\ PlanTyped'
  BY <1>0 DEF Toggle, ConfigTyped, BookTyped, QueueTyped, GuardTyped, BreakerTyped, StageTyped, PlanTyped,
     config, book, memory, cycle, bounds
<1> QED
  BY <1>1, <1>2, TypeOKByPartsNext

LEMMA DrawdownMovesTyped ==
  ASSUME TypeOK, DrawdownMoves
  PROVE  TypeOK'
<1>0. ConfigTyped /\ BookTyped /\ QueueTyped /\ GuardTyped
      /\ BreakerTyped /\ StageTyped /\ PlanTyped /\ BoundsTyped
  BY TypeOKByParts
<1>1. ConfigTyped' /\ BookTyped' /\ QueueTyped' /\ GuardTyped' /\ BreakerTyped' /\ StageTyped' /\ PlanTyped' /\ BoundsTyped'
  BY <1>0 DEF DrawdownMoves, ConfigTyped, BookTyped, QueueTyped, GuardTyped, BreakerTyped, StageTyped, PlanTyped, BoundsTyped,
     config, book, memory, cycle, bounds
<1> QED
  BY <1>1, TypeOKByPartsNext

LEMMA ScanTyped ==
  ASSUME TypeOK, NEW unread, NEW wrong, NEW late, NEW old, NEW scanError \in BOOLEAN, Scan(unread, wrong, late, old, scanError)
  PROVE  TypeOK'
<1>0. ConfigTyped /\ BookTyped /\ QueueTyped /\ GuardTyped
      /\ BreakerTyped /\ StageTyped /\ PlanTyped /\ BoundsTyped
  BY TypeOKByParts
<1>1. GuardTyped'
  <2>1. \A k \in Strategies :
          mis'[k] \in [rounds : 0 .. RepairRounds - 1, abnormal : BOOLEAN]
    BY <1>0, ScanMemoryTyped DEF Scan
  <2>2. \A k \in Strategies : lies'[k] \in 0 .. 2
    BY <1>0, LesserType DEF Scan, GuardTyped, Lesser
  <2> QED BY <2>1, <2>2 DEF Scan, GuardTyped
<1>2. BreakerTyped'
  <2>1. streak + 1 \in Nat /\ Threshold \in Nat
    BY <1>0, AutoAssumption DEF BreakerTyped
  <2>2. Lesser(streak + 1, Threshold) \in 0 .. Threshold
    BY <2>1, LesserType
  <2> QED BY <1>0, <2>1, <2>2 DEF Scan, BreakerTyped
<1>3. BoundsTyped'
  BY <1>0, FaultTyped DEF Scan, BoundsTyped
<1>4. ConfigTyped'
  BY <1>0 DEF Scan, ConfigTyped
<1>5. StageTyped' /\ PlanTyped'
  <2>1. /\ ToSell(unread, wrong, late, old) \in SUBSET Strategies
        /\ ToBuy(unread, wrong, late) \in SUBSET Strategies
        /\ Foreign(unread, wrong, late) \in SUBSET Keys
    BY DEF ToSell, ToBuy, Foreign, TooShort, Keys
  <2> QED BY <1>0, <2>1, IdleTyped DEF Scan, StageTyped, PlanTyped
<1>6. BookTyped' /\ QueueTyped'
  BY <1>0 DEF Scan, BookTyped, QueueTyped,
     config, book, memory, cycle, bounds
<1> QED
  BY <1>1, <1>2, <1>3, <1>4, <1>5, <1>6, TypeOKByPartsNext

\* Every step keeps the types.
LEMMA NextTyped == TypeOK /\ [Next]_avars => TypeOK'
<1> SUFFICES ASSUME TypeOK, [Next]_avars PROVE TypeOK'
  OBVIOUS
<1>1. CASE CycleStep
  <2>1. CASE ScanStep
    BY <2>1, ScanTyped DEF ScanStep
  <2>2. CASE Start \/ EndRetries \/ EndRepairs \/ Guard \/ EndCloses \/ EndOpens
    BY <2>2, StartTyped, EndRetriesTyped, EndRepairsTyped, GuardTypedNext,
       EndClosesTyped, EndOpensTyped
  <2>3. CASE \E k \in Strategies : RetryClose(k) \/ Close(k)
    BY <2>3, RetryCloseTyped, CloseTyped
  <2>4. CASE \E k \in Strategies : \E l \in {"spot", "perp"} : Repair(k, l)
    BY <2>4, RepairTyped
  <2>5. CASE \E p \in Pairs : RetryOpen(p) \/ Open(p)
    BY <2>5, RetryOpenTyped, OpenTyped
  <2> QED BY <1>1, <2>1, <2>2, <2>3, <2>4, <2>5 DEF CycleStep
<1>2. CASE Environment
  <2>1. CASE Abort \/ Crash \/ LockAges \/ Reconcile \/ Toggle \/ DrawdownMoves
    BY <2>1, AbortTyped, CrashTyped, LockAgesTyped, ReconcileTyped, ToggleTyped,
       DrawdownMovesTyped
  <2>2. CASE \E x \in Keys : FallsDue(x)
    BY <2>2, FallsDueTyped
  <2>3. CASE \E k \in Strategies : UserOpen(k) \/ OtherClose(k)
    BY <2>3, UserOpenTyped, OtherCloseTyped
  <2> QED BY <1>2, <2>1, <2>2, <2>3 DEF Environment
<1>3. CASE UNCHANGED avars
  BY <1>3 DEF avars, config, book, memory, cycle, bounds, TypeOK
<1> QED BY <1>1, <1>2, <1>3 DEF Next

\* The state of the engine keeps its types: in particular no retry counts more
\* than execution_retry_max_rounds and nothing is due that is not queued.
THEOREM AutoTypeCorrect == Spec => []TypeOK
BY InitTyped, NextTyped, PTL DEF Spec

-----------------------------------------------------------------------------
(* One wrong read sells nothing.                                           *)

\* An abnormal read that is remembered was a wrong one, and what is to be sold
\* has its short only if a second wrong one followed.
AbnormalIsLie == \A k \in Strategies : mis[k].abnormal => lies[k] >= 1
SellInRepair == pc # "repair" => sell = {}
SellIsLiedAbout ==
  \A k \in sell : st[k] # "none" /\ (st[k] = "hedged" => lies[k] >= 2)

LieInv == AbnormalIsLie /\ SellInRepair /\ SellIsLiedAbout

LEMMA InitLie == Init => LieInv
BY DEF Init, LieInv, AbnormalIsLie, SellInRepair, SellIsLiedAbout, Unseen

\* The exchange holds the short of a strategy that has one.
LEMMA HedgedIsLive ==
  ASSUME NEW k \in Strategies, st[k] = "hedged" PROVE Live(PairOf[k]) # 0
<1> DEFINE S == {j \in Strategies : PairOf[j] = PairOf[k] /\ st[j] \in {"hedged", "perp"}}
<1>1. S \in SUBSET Strategies /\ k \in S
  OBVIOUS
<1>2. IsFiniteSet(S)
  BY <1>1, AutoAssumption, FS_Subset
<1>3. Cardinality(S) # 0
  BY <1>1, <1>2, FS_EmptySet
<1> QED BY <1>3 DEF Live

LEMMA AbnormalReadIsWrong ==
  ASSUME NEW k \in Strategies, NEW wrong, AbnormalRead(k, wrong)
  PROVE  k \in wrong
BY HedgedIsLive DEF AbnormalRead, ReadPerp

LEMMA ScanLie ==
  ASSUME TypeOK, LieInv, NEW unread, NEW wrong \in SUBSET {k \in Strategies : Held(k)},
         NEW late, NEW old \in SUBSET {k \in Strategies : mis[k].abnormal},
         NEW scanError, Scan(unread, wrong, late, old, scanError)
  PROVE  LieInv'
<1>1. /\ mis \in [Strategies -> [rounds : 0 .. RepairRounds - 1, abnormal : BOOLEAN]]
      /\ lies \in [Strategies -> 0 .. 2]
  BY DEF TypeOK
<1>2. \A k \in Strategies : k \in wrong => lies'[k] = Lesser(lies[k] + 1, 2)
  BY DEF Scan
<1>3. \A k \in Strategies : k \in wrong => lies'[k] >= 1
  BY <1>1, <1>2 DEF Lesser
<1>4. AbnormalIsLie'
  <2> SUFFICES ASSUME NEW k \in Strategies, mis'[k].abnormal PROVE lies'[k] >= 1
    BY DEF AbnormalIsLie
  <2>1. mis'[k] = Seen(k, unread, wrong)
    BY DEF Scan
  <2>2. Held(k)
    BY <2>1 DEF Seen, Unseen
  <2>3. CASE k \in wrong
    BY <2>3, <1>3
  <2>4. CASE k \notin wrong
    <3>1. ~AbnormalRead(k, wrong)
      BY <2>4, AbnormalReadIsWrong
    <3>2. Unavailable(k, unread) /\ mis'[k] = mis[k]
      BY <2>1, <2>2, <3>1 DEF Seen, Unseen
    <3>3. lies'[k] = lies[k]
      BY <2>2, <2>4, <3>2 DEF Scan
    <3> QED BY <3>2, <3>3 DEF LieInv, AbnormalIsLie
  <2> QED BY <2>3, <2>4
<1>5. CASE pc' = "repair" /\ sell' = ToSell(unread, wrong, late, old)
  <2> SUFFICES ASSUME NEW k \in sell'
               PROVE  st'[k] # "none" /\ (st'[k] = "hedged" => lies'[k] >= 2)
    BY <1>4, <1>5 DEF LieInv, SellInRepair, SellIsLiedAbout
  <2>1. /\ k \in Strategies /\ Held(k) /\ st' = st
        /\ ReadPerp(k, wrong) = 0 /\ ~Blocked(k, wrong, old)
    BY <1>5 DEF ToSell, Ripe, Scan, book
  <2>2. CASE st[k] = "hedged"
    <3>1. AbnormalRead(k, wrong)
      BY <2>1, <2>2 DEF AbnormalRead
    <3>2. k \in wrong /\ k \in old
      BY <2>1, <3>1, AbnormalReadIsWrong DEF Blocked
    <3>3. lies[k] >= 1
      BY <3>2 DEF LieInv, AbnormalIsLie
    <3> QED BY <1>1, <1>2, <2>1, <2>2, <3>2, <3>3 DEF Lesser
  <2>3. CASE st[k] # "hedged"
    BY <2>1, <2>3 DEF Held
  <2> QED BY <2>2, <2>3
<1>6. CASE sell' = {}
  BY <1>4, <1>6 DEF LieInv, SellInRepair, SellIsLiedAbout
<1>7. sell = {}
  BY DEF Scan, LieInv, SellInRepair
<1> QED BY <1>5, <1>6, <1>7 DEF Scan, Idle

LEMMA RepairLie ==
  ASSUME TypeOK, LieInv, NEW k \in Strategies, NEW l \in {"spot", "perp"}, Repair(k, l)
  PROVE  LieInv'
<1>1. AbnormalIsLie'
  BY DEF Repair, LieInv, AbnormalIsLie, memory
<1>2. SellInRepair'
  BY DEF Repair, SellInRepair
<1>3. sell' \in SUBSET sell /\ sell \in SUBSET Strategies /\ lies' = lies
  BY DEF Repair, TypeOK
<1>4. CASE st' = st
  BY <1>1, <1>2, <1>3, <1>4 DEF LieInv, SellIsLiedAbout
<1>5. CASE st' = [st EXCEPT ![k] = Without(@, l)]
  <2>1. Without(st[k], l) \notin {"none", "hedged"}
    BY DEF Without
  <2>2. \A j \in sell' : st'[j] # "none" /\ (st'[j] = "hedged" => lies[j] >= 2)
    BY <1>3, <1>5, <2>1 DEF LieInv, SellIsLiedAbout, TypeOK
  <2> QED BY <1>1, <1>2, <1>3, <2>2 DEF LieInv, SellIsLiedAbout
<1> QED BY <1>4, <1>5 DEF Repair, book

\* A step that leaves the guard's memory and the plan of sales alone may change
\* strategies that have no legs, or close others.
LEMMA OthersLie ==
  ASSUME TypeOK, LieInv, UNCHANGED <<mis, lies, sell>>, UNCHANGED pc \/ pc # "repair",
         \A k \in Strategies :
           st[k] # "none" => st'[k] # "none" /\ (st'[k] = "hedged" => st[k] = "hedged")
  PROVE  LieInv'
BY DEF TypeOK, LieInv, AbnormalIsLie, SellInRepair, SellIsLiedAbout

LEMMA CloseOutcomeOpensNothing ==
  ASSUME NEW s, NEW o \in CloseOutcomes(s)
  PROVE  (s # "none" => o.to # "none") /\ (o.to = "hedged" => s = "hedged")
BY DEF CloseOutcomes, LeftOf

\* A cycle that ends has nothing left to sell.
LEMMA IdleLie ==
  ASSUME LieInv, Idle, UNCHANGED <<mis, lies>>
  PROVE  LieInv'
BY DEF Idle, LieInv, AbnormalIsLie, SellInRepair, SellIsLiedAbout

\* What the reconciler, a close and an open do to a strategy with a record.
LEMMA BookMoves ==
  ASSUME TypeOK,
         \/ UNCHANGED st
         \/ st' = Reconciled
         \/ \E k \in Strategies : \E o \in CloseOutcomes(st[k]) : CloseCall(k, o)
         \/ \E k \in Strategies : st' = [st EXCEPT ![k] = "closed"]
         \/ \E p \in Pairs, result \in {"opened", "skipped", "failed"} : OpenCall(p, result)
         \/ \E k \in Strategies : UserOpen(k)
  PROVE  \A k \in Strategies :
           st[k] # "none" => st'[k] # "none" /\ (st'[k] = "hedged" => st[k] = "hedged")
<1>1. CASE UNCHANGED st
  BY <1>1
<1>2. CASE st' = Reconciled
  BY <1>2 DEF Reconciled
<1>3. CASE \E k \in Strategies : \E o \in CloseOutcomes(st[k]) : CloseCall(k, o)
  <2>1. PICK k \in Strategies : \E o \in CloseOutcomes(st[k]) : CloseCall(k, o)
    BY <1>3
  <2>2. PICK o \in CloseOutcomes(st[k]) : CloseCall(k, o)
    BY <2>1
  <2>3. (st[k] # "none" => o.to # "none") /\ (o.to = "hedged" => st[k] = "hedged")
    BY <2>2, CloseOutcomeOpensNothing
  <2>4. st' = [st EXCEPT ![k] = o.to]
    BY <2>2 DEF CloseCall
  <2> QED BY <2>3, <2>4 DEF TypeOK
<1>4. CASE \E k \in Strategies : st' = [st EXCEPT ![k] = "closed"]
  BY <1>4 DEF TypeOK
<1>5. CASE \E p \in Pairs, result \in {"opened", "skipped", "failed"} : OpenCall(p, result)
  <2>1. \/ UNCHANGED st
        \/ \E k \in Strategies : \E s \in {"hedged", "closed", "flat", "perp"} :
             st[k] = "none" /\ st' = [st EXCEPT ![k] = s]
    BY <1>5 DEF OpenCall, book
  <2> QED BY <2>1 DEF TypeOK
<1>6. CASE \E k \in Strategies : UserOpen(k)
  BY <1>6 DEF UserOpen, TypeOK
<1> QED BY <1>1, <1>2, <1>3, <1>4, <1>5, <1>6

LEMMA NextLie == TypeOK /\ LieInv /\ [Next]_avars => LieInv'
<1> SUFFICES ASSUME TypeOK, LieInv, [Next]_avars PROVE LieInv'
  OBVIOUS
<1>1. CASE ScanStep
  BY <1>1, ScanLie DEF ScanStep
<1>2. ASSUME NEW k \in Strategies, NEW l \in {"spot", "perp"}, Repair(k, l) PROVE LieInv'
  BY <1>2, RepairLie
<1>3. CASE Start
  BY <1>3, BookMoves, OthersLie DEF Start, memory
<1>4. ASSUME NEW k \in Strategies, RetryClose(k) PROVE LieInv'
  BY <1>4, BookMoves, OthersLie DEF RetryClose, Retried
<1>5. ASSUME NEW p \in Pairs, RetryOpen(p) PROVE LieInv'
  BY <1>5, BookMoves, OthersLie DEF RetryOpen, Retried
<1>6. CASE EndRetries \/ EndOpens \/ Abort
  BY <1>6, IdleLie DEF EndRetries, EndOpens, Abort
<1>7. CASE Crash
  BY <1>7, IdleLie DEF Crash, Idle, Unseen, LieInv, AbnormalIsLie, SellInRepair,
     SellIsLiedAbout
<1>8. CASE EndRepairs
  <2>1. sell = {} /\ UNCHANGED <<mis, lies>> /\ (Idle \/ UNCHANGED sell)
    BY <1>8 DEF EndRepairs, memory
  <2> QED BY <2>1, IdleLie DEF LieInv, AbnormalIsLie, SellInRepair, SellIsLiedAbout
<1>9. CASE Guard
  <2>1. pc = "guard" /\ UNCHANGED <<mis, lies>> /\ (Idle \/ UNCHANGED sell)
    BY <1>9 DEF Guard, PlanCloses, memory
  <2> QED BY <2>1, IdleLie DEF LieInv, AbnormalIsLie, SellInRepair, SellIsLiedAbout
<1>10. ASSUME NEW k \in Strategies, Close(k) PROVE LieInv'
  BY <1>10, BookMoves, OthersLie DEF Close, memory
<1>11. CASE EndCloses
  <2>1. pc = "close" /\ UNCHANGED <<mis, lies>> /\ (Idle \/ UNCHANGED sell)
    BY <1>11 DEF EndCloses, Go
  <2> QED BY <2>1, IdleLie DEF LieInv, AbnormalIsLie, SellInRepair, SellIsLiedAbout
<1>12. ASSUME NEW p \in Pairs, Open(p) PROVE LieInv'
  BY <1>12, BookMoves, OthersLie DEF Open, memory
<1>13. ASSUME NEW k \in Strategies, UserOpen(k) PROVE LieInv'
  <2>1. UNCHANGED <<mis, lies, sell, pc>>
    BY <1>13 DEF UserOpen, memory, cycle
  <2> QED BY <1>13, <2>1, BookMoves, OthersLie
<1>14. ASSUME NEW k \in Strategies, OtherClose(k) PROVE LieInv'
  <2>1. UNCHANGED <<mis, lies, sell, pc>>
    BY <1>14 DEF OtherClose, memory, cycle
  <2> QED BY <1>14, <2>1, BookMoves, OthersLie DEF OtherClose
<1>15. CASE Reconcile
  BY <1>15, BookMoves, OthersLie DEF Reconcile, memory, cycle
<1>16. ASSUME UNCHANGED <<mis, lies, sell, pc, st>> PROVE LieInv'
  BY <1>16, BookMoves, OthersLie
<1>17. CASE LockAges \/ Toggle \/ DrawdownMoves \/ UNCHANGED avars
  BY <1>16, <1>17 DEF LockAges, Toggle, DrawdownMoves, avars, memory, cycle, book
<1>18. ASSUME NEW x \in Keys, FallsDue(x) PROVE LieInv'
  BY <1>16, <1>18 DEF FallsDue, cycle, book
<1> QED
  BY <1>1, <1>2, <1>3, <1>4, <1>5, <1>6, <1>7, <1>8, <1>9, <1>10, <1>11, <1>12, <1>13,
     <1>14, <1>15, <1>17, <1>18 DEF Next, CycleStep, Environment

\* The mismatch guard sells the spot leg of a hedged strategy only after two wrong
\* reads of its short, however many strategies share the market, whoever opens and
\* closes in between, and whatever aborts or crashes.
THEOREM OneWrongReadSellsNothing == Spec => OneLieSellsNothing
<1>1. TypeOK /\ LieInv /\ [Next]_avars
        => [\A k \in Strategies :
              k \in sell \ sell' /\ st[k] = "hedged" /\ st'[k] = "perp"
                => lies[k] >= 2]_avars
  BY DEF LieInv, SellIsLiedAbout
<1> QED BY <1>1, InitTyped, NextTyped, InitLie, NextLie, PTL DEF Spec, OneLieSellsNothing

-----------------------------------------------------------------------------
(* The orders of a plan                                                    *)
(*                                                                         *)
(* That an order is covered by its wallets rests on the executor's caches: *)
(* what is in one is no more than what is in the wallet, because an order  *)
(* that is filled is taken off both, from each wallet by as much.  That    *)
(* needs the two caches of a wallet to say the same where it is one for    *)
(* both legs, and the other one to say nothing where it is not.            *)

Sides == {"spot", "perp"}
Plans == [row : Rows, size : 1 .. MaxPair]

Unifiable ==
  \A r \in Rows : SpotOf[r] \in unified \/ PerpOf[r] \in unified => SpotOf[r] = PerpOf[r]
Below(c, m) ==
  /\ c \in [Sides -> [Wallets -> Int]]
  /\ \A leg \in Sides, w \in Wallets :
       c[leg][w] # Unread => w[2] \in {leg, "all"} /\ c[leg][w] \in Nat /\ c[leg][w] <= m[w]
Sized(h) == h = [k \in Slots |-> h[k]] /\ \A k \in Slots : h[k].size \in Nat

RebalInv ==
  /\ Unifiable /\ money \in [Wallets -> Nat] /\ Sized(holding) /\ opens \in SUBSET Plans
  /\ Below(cached, money) /\ (rebal \notin {"opening", "retrying"} => cached = Unseen2)
  /\ overdrawn = FALSE /\ retry.opens \in SUBSET Plans
  /\ retry = [closes |-> retry.closes, opens |-> retry.opens]

LEMMA MinOfTwo ==
  ASSUME NEW a \in Int, NEW b \in Int
  PROVE  Min({a, b}) = IF a <= b THEN a ELSE b
<1> DEFINE m == IF a <= b THEN a ELSE b
<1>1. m \in {a, b} /\ \A y \in {a, b} : m <= y
  OBVIOUS
<1>2. \A x \in {a, b} : (\A y \in {a, b} : x <= y) => x = m
  OBVIOUS
<1> HIDE DEF m
<1> QED BY <1>1, <1>2 DEF Min

LEMMA MaxOfTwo ==
  ASSUME NEW a \in Int, NEW b \in Int
  PROVE  Max({a, b}) = IF a >= b THEN a ELSE b
<1> DEFINE m == IF a >= b THEN a ELSE b
<1>1. m \in {a, b} /\ \A y \in {a, b} : m >= y
  OBVIOUS
<1>2. \A x \in {a, b} : (\A y \in {a, b} : x >= y) => x = m
  OBVIOUS
<1> HIDE DEF m
<1> QED BY <1>1, <1>2 DEF Max

-----------------------------------------------------------------------------
(* Wallets *)

LEMMA WalletsOfRow ==
  ASSUME Unifiable, NEW r \in Rows
  PROVE  /\ Wallet(r, "spot") \in Wallets /\ Wallet(r, "perp") \in Wallets
         /\ Pooled(r) => Wallet(r, "spot")[2] = "all" /\ Wallet(r, "perp") = Wallet(r, "spot")
         /\ ~Pooled(r) => Wallet(r, "spot")[2] = "spot" /\ Wallet(r, "perp")[2] = "perp"
<1>1. SpotOf[r] \in Exs /\ PerpOf[r] \in Exs
  BY DEF Exs
<1>2. CASE SpotOf[r] \in unified \/ PerpOf[r] \in unified
  BY <1>1, <1>2 DEF Unifiable, Wallet, Pooled, Wallets
<1>3. CASE SpotOf[r] \notin unified /\ PerpOf[r] \notin unified
  BY <1>1, <1>3 DEF Wallet, Pooled, Wallets
<1> QED BY <1>2, <1>3

\* What a pair of size n takes of each wallet.
LEMMA NeedOfRow ==
  ASSUME Unifiable, NEW r \in Rows, NEW n \in Nat, NEW w \in Wallets
  PROVE  /\ Need(r, n, w) \in Nat
         /\ Pooled(r) => Need(r, n, w) = IF w = Wallet(r, "perp") THEN 3 * n ELSE 0
         /\ ~Pooled(r) => Need(r, n, w) = IF w = Wallet(r, "spot") THEN 2 * n
                                          ELSE IF w = Wallet(r, "perp") THEN n ELSE 0
BY WalletsOfRow DEF Need, Pooled

LEMMA NeedIsNat == ASSUME NEW r, NEW n \in Nat, NEW w PROVE Need(r, n, w) \in Nat
BY DEF Need

LEMMA MoneyUsed ==
  ASSUME money \in [Wallets -> Nat], NEW r \in Rows, NEW n \in Nat, Covered(r, n)
  PROVE  Use(money, r, n) \in [Wallets -> Nat]
<1>1. \A w \in Wallets : Need(r, n, w) \in Nat
  BY NeedIsNat
<1> QED BY <1>1 DEF Use, Covered

-----------------------------------------------------------------------------
(* The caches *)

LEMMA UnseenIsBelow == ASSUME NEW m PROVE Below(Unseen2, m)
BY DEF Below, Unseen2, Unread, Sides

LEMMA ReadingIsBelow ==
  ASSUME money \in [Wallets -> Nat], Below(cached, money), NEW leg \in Sides, NEW w \in Wallets
  PROVE  Reading(leg, w) \in Nat /\ Reading(leg, w) <= money[w]
BY DEF Below, Reading

LEMMA ReadCachesBelow ==
  ASSUME RebalInv, NEW r \in Rows
  PROVE  Below(ReadCaches(r), money)
<1> SUFFICES ASSUME NEW leg \in Sides, NEW w \in Wallets
             PROVE  /\ ReadCaches(r)[leg][w] \in Int
                    /\ ReadCaches(r)[leg][w] # Unread =>
                         /\ w[2] \in {leg, "all"} /\ ReadCaches(r)[leg][w] \in Nat
                         /\ ReadCaches(r)[leg][w] <= money[w]
  BY DEF Below, ReadCaches, Sides
<1>1. CASE w = Wallet(r, leg) /\ ~(leg = "spot" /\ Pooled(r))
  <2>1. ReadCaches(r)[leg][w] = Reading(leg, w)
    BY <1>1 DEF ReadCaches, Sides
  <2>2. Reading(leg, w) \in Nat /\ Reading(leg, w) <= money[w]
    BY ReadingIsBelow DEF RebalInv
  <2>3. w[2] \in {leg, "all"}
    BY <1>1, WalletsOfRow DEF RebalInv, Sides
  <2> QED BY <2>1, <2>2, <2>3
<1>2. CASE ~(w = Wallet(r, leg) /\ ~(leg = "spot" /\ Pooled(r)))
  <2>1. ReadCaches(r)[leg][w] = cached[leg][w]
    BY <1>2 DEF ReadCaches, Sides
  <2> QED BY <2>1 DEF RebalInv, Below
<1> QED BY <1>1, <1>2

\* A size the readings afford is covered by the wallets.
LEMMA AffordableIsCovered ==
  ASSUME RebalInv, NEW r \in Rows, NEW n \in Nat, n <= Affordable(r)
  PROVE  Covered(r, n)
<1>1. Wallet(r, "spot") \in Wallets /\ Wallet(r, "perp") \in Wallets
  BY WalletsOfRow DEF RebalInv
<1>2. PICK p : p = Reading("perp", Wallet(r, "perp"))
  OBVIOUS
<1>3. p \in Nat /\ p <= money[Wallet(r, "perp")]
  BY <1>1, <1>2, ReadingIsBelow DEF RebalInv, Sides
<1>4. money \in [Wallets -> Nat]
  BY DEF RebalInv
<1>5. CASE Pooled(r)
  <2>1. n <= p \div 3
    BY <1>2, <1>5 DEF Affordable
  <2>2. 3 * n <= p
    BY <2>1, <1>3
  <2>3. \A w \in Wallets : Need(r, n, w) = IF w = Wallet(r, "perp") THEN 3 * n ELSE 0
    BY <1>5, NeedOfRow DEF RebalInv
  <2> QED BY <2>2, <2>3, <1>1, <1>3, <1>4 DEF Covered
<1>6. CASE ~Pooled(r)
  <2>1. PICK s : s = Reading("spot", Wallet(r, "spot"))
    OBVIOUS
  <2>2. s \in Nat /\ s <= money[Wallet(r, "spot")]
    BY <1>1, <2>1, ReadingIsBelow DEF RebalInv, Sides
  <2>3. PICK h \in Int : h = s \div 2 /\ 2 * h <= s
    BY <2>2
  <2>4. n <= Min({p, h})
    BY <1>2, <1>6, <2>1, <2>3 DEF Affordable
  <2>5. n <= p /\ 2 * n <= s
    BY <2>3, <2>4, <1>3, <2>2, MinOfTwo
  <2>6. \A w \in Wallets : Need(r, n, w) = IF w = Wallet(r, "spot") THEN 2 * n
                                           ELSE IF w = Wallet(r, "perp") THEN n ELSE 0
    BY <1>6, NeedOfRow DEF RebalInv
  <2> QED BY <2>2, <2>5, <2>6, <1>1, <1>3, <1>4 DEF Covered
<1> QED BY <1>5, <1>6

LEMMA MinusIsBelow ==
  ASSUME NEW a \in Int, NEW n \in Nat, NEW m \in Nat, n <= m, a = Unread \/ (a \in Nat /\ a <= m)
  PROVE  /\ Minus(a, n) \in Int
         /\ Minus(a, n) # Unread => Minus(a, n) \in Nat /\ Minus(a, n) <= m - n
         /\ a = Unread => Minus(a, n) = Unread
<1>1. Max({0, a - n}) = IF 0 >= a - n THEN 0 ELSE a - n
  BY MaxOfTwo
<1> QED BY <1>1 DEF Minus, Unread

\* An order that is filled is taken off the wallets and off the caches.
LEMMA ConsumedIsBelow ==
  ASSUME Unifiable, money \in [Wallets -> Nat], NEW c, Below(c, money),
         NEW r \in Rows, NEW n \in Nat, Covered(r, n)
  PROVE  Below(Consumed(c, r, n), Use(money, r, n))
<1>1. PICK W : W = Wallet(r, "perp")
  OBVIOUS
<1>2. PICK V : V = Wallet(r, "spot")
  OBVIOUS
<1>3. W \in Wallets /\ V \in Wallets
  BY <1>1, <1>2, WalletsOfRow
<1>4. \A leg \in Sides, w \in Wallets :
        /\ c[leg][w] \in Int /\ money[w] \in Nat
        /\ c[leg][w] # Unread => w[2] \in {leg, "all"} /\ c[leg][w] \in Nat /\ c[leg][w] <= money[w]
  BY DEF Below
<1>5. c \in [Sides -> [Wallets -> Int]] /\ "spot" \in Sides /\ "perp" \in Sides
  BY DEF Below, Sides
<1>6. \A w \in Wallets : Use(money, r, n)[w] = money[w] - Need(r, n, w) /\ Need(r, n, w) <= money[w]
  BY DEF Use, Covered
<1>7. CASE Pooled(r)
  <2>1. \A w \in Wallets : Need(r, n, w) = IF w = W THEN 3 * n ELSE 0
    BY <1>1, <1>7, NeedOfRow
  <2>2. V = W /\ W[2] = "all"
    BY <1>1, <1>2, <1>7, WalletsOfRow
  <2>3. PICK rest : rest = Minus(c["perp"][W], 3 * n)
    OBVIOUS
  <2>4. 3 * n \in Nat /\ 3 * n <= money[W]
    BY <1>3, <1>6, <2>1
  <2>5. rest \in Int /\ (rest # Unread => rest \in Nat /\ rest <= money[W] - 3 * n)
    BY <1>3, <1>4, <1>5, <2>3, <2>4, MinusIsBelow
  <2>6. Consumed(c, r, n) = [c EXCEPT !["perp"][W] = rest, !["spot"][W] = rest]
    BY <1>1, <1>2, <1>7, <2>2, <2>3 DEF Consumed
  <2>7. Consumed(c, r, n) \in [Sides -> [Wallets -> Int]]
    <3>1. [c["perp"] EXCEPT ![W] = rest] \in [Wallets -> Int]
          /\ [c["spot"] EXCEPT ![W] = rest] \in [Wallets -> Int]
      BY <1>5, <2>5
    <3> QED BY <1>5, <2>6, <3>1 DEF Sides
  <2>8. ASSUME NEW leg \in Sides, NEW w \in Wallets
        PROVE  Consumed(c, r, n)[leg][w] = IF w = W THEN rest ELSE c[leg][w]
    BY <1>3, <1>5, <2>6 DEF Sides
  <2> QED
    <3> SUFFICES ASSUME NEW leg \in Sides, NEW w \in Wallets, Consumed(c, r, n)[leg][w] # Unread
                 PROVE  /\ w[2] \in {leg, "all"} /\ Consumed(c, r, n)[leg][w] \in Nat
                        /\ Consumed(c, r, n)[leg][w] <= Use(money, r, n)[w]
      BY <2>7 DEF Below
    <3>1. CASE w = W
      BY <3>1, <1>6, <2>1, <2>2, <2>5, <2>8
    <3>2. CASE w # W
      BY <3>2, <1>4, <1>6, <2>1, <2>8
    <3> QED BY <3>1, <3>2
<1>8. CASE ~Pooled(r)
  <2>1. \A w \in Wallets : Need(r, n, w) = IF w = V THEN 2 * n ELSE IF w = W THEN n ELSE 0
    BY <1>1, <1>2, <1>8, NeedOfRow
  <2>2. V[2] = "spot" /\ W[2] = "perp" /\ V # W
    BY <1>1, <1>2, <1>8, WalletsOfRow DEF Pooled
  <2>3. PICK p : p = Minus(c["perp"][W], n)
    OBVIOUS
  <2>4. PICK s : s = Minus(c["spot"][V], 2 * n)
    OBVIOUS
  <2>5. n <= money[W] /\ 2 * n \in Nat /\ 2 * n <= money[V]
    BY <1>3, <1>6, <2>1, <2>2
  <2>6. p \in Int /\ (p # Unread => p \in Nat /\ p <= money[W] - n)
    BY <1>3, <1>4, <1>5, <2>3, <2>5, MinusIsBelow
  <2>7. s \in Int /\ (s # Unread => s \in Nat /\ s <= money[V] - 2 * n)
    BY <1>3, <1>4, <1>5, <2>4, <2>5, MinusIsBelow
  <2>8. Consumed(c, r, n) = [c EXCEPT !["perp"][W] = p, !["spot"][V] = s]
    BY <1>1, <1>2, <1>8, <2>3, <2>4 DEF Consumed
  <2>9. Consumed(c, r, n) \in [Sides -> [Wallets -> Int]]
    <3>1. [c["perp"] EXCEPT ![W] = p] \in [Wallets -> Int]
          /\ [c["spot"] EXCEPT ![V] = s] \in [Wallets -> Int]
      BY <1>5, <2>6, <2>7
    <3> QED BY <1>5, <2>8, <3>1 DEF Sides
  <2>10. \A w \in Wallets :
           /\ Consumed(c, r, n)["perp"][w] = IF w = W THEN p ELSE c["perp"][w]
           /\ Consumed(c, r, n)["spot"][w] = IF w = V THEN s ELSE c["spot"][w]
    BY <1>3, <1>5, <2>8
  <2>11. c["perp"][V] = Unread /\ c["spot"][W] = Unread
    BY <1>3, <1>4, <1>5, <2>2
  <2> QED
    <3> SUFFICES ASSUME NEW leg \in Sides, NEW w \in Wallets, Consumed(c, r, n)[leg][w] # Unread
                 PROVE  /\ w[2] \in {leg, "all"} /\ Consumed(c, r, n)[leg][w] \in Nat
                        /\ Consumed(c, r, n)[leg][w] <= Use(money, r, n)[w]
      BY <2>9 DEF Below
    <3>1. CASE leg = "perp"
      <4>1. CASE w = W
        BY <3>1, <4>1, <1>6, <2>1, <2>2, <2>6, <2>10
      <4>2. CASE w # W
        <5>1. Consumed(c, r, n)[leg][w] = c["perp"][w] /\ w # V
          BY <3>1, <4>2, <2>10, <2>11
        <5> QED BY <3>1, <4>2, <5>1, <1>4, <1>6, <2>1
      <4> QED BY <4>1, <4>2
    <3>2. CASE leg = "spot"
      <4>1. CASE w = V
        BY <3>2, <4>1, <1>6, <2>1, <2>2, <2>7, <2>10
      <4>2. CASE w # V
        <5>1. Consumed(c, r, n)[leg][w] = c["spot"][w] /\ w # W
          BY <3>2, <4>2, <2>10, <2>11
        <5> QED BY <3>2, <4>2, <5>1, <1>4, <1>6, <2>1
      <4> QED BY <4>1, <4>2
    <3> QED BY <3>1, <3>2 DEF Sides
<1> QED BY <1>7, <1>8

-----------------------------------------------------------------------------
(* The steps *)

LEMMA RebalInitInv == RebalInit => RebalInv
<1> SUFFICES ASSUME RebalInit PROVE RebalInv
  OBVIOUS
<1>1. Unifiable
  BY DEF RebalInit, Unifiable
<1>2. money \in [Wallets -> Nat]
  <2>1. \A w \in Wallets : w[2] \in {"spot", "perp", "all"}
    BY DEF Wallets
  <2> QED BY <2>1, RebalanceAssumption DEF RebalInit
<1>3. Sized(holding) /\ opens \in SUBSET Plans
  BY DEF RebalInit, Sized, Vacant
<1>5. retry = [closes |-> {}, opens |-> {}]
  BY DEF RebalInit, NoRetry
<1>4. Below(cached, money) /\ cached = Unseen2 /\ overdrawn = FALSE
  BY UnseenIsBelow DEF RebalInit
<1> QED BY <1>1, <1>2, <1>3, <1>4, <1>5 DEF RebalInv

\* The retries a step leaves are opens of a plan.
Queueing == /\ retry'.opens \in SUBSET Plans
            /\ retry' = [closes |-> retry'.closes, opens |-> retry'.opens]

LEMMA SameQueue == RebalInv /\ UNCHANGED retry => Queueing
BY DEF RebalInv, Queueing

LEMMA OpenQueued ==
  ASSUME RebalInv, NEW o \in Plans, UNCHANGED retry \/ MayRequeue("opens", o)
  PROVE  Queueing
<1>1. retry'.opens \in {retry.opens, retry.opens \union {o}}
      /\ retry' = [closes |-> retry.closes, opens |-> retry'.opens]
  BY DEF RebalInv, MayRequeue
<1> QED BY <1>1 DEF RebalInv, Queueing

LEMMA CloseQueued ==
  ASSUME RebalInv, NEW k, UNCHANGED retry \/ MayRequeue("closes", k)
                          \/ retry' = [retry EXCEPT !.closes = @ \ {k}]
  PROVE  Queueing
<1>1. retry'.opens = retry.opens /\ retry' = [closes |-> retry'.closes, opens |-> retry.opens]
  BY DEF RebalInv, MayRequeue
<1> QED BY <1>1 DEF RebalInv, Queueing

\* Outside the opening phase the caches are empty, and the money may move.
LEMMA UnseenSteps ==
  ASSUME RebalInv, UNCHANGED <<unified, overdrawn>>, cached' = Unseen2, Queueing,
         money' \in [Wallets -> Nat], Sized(holding'), opens' \in SUBSET Plans
  PROVE  RebalInv'
<1>1. Below(cached', money')
  BY UnseenIsBelow
<1> QED BY <1>1 DEF RebalInv, Unifiable, Below, Queueing

LEMMA OpeningIsPlan == ASSUME NEW t PROVE Opening(t) \in SUBSET Plans
<1>1. MinPair \div 20 \in Int
  BY RebalanceAssumption
<1>2. MinTopUp \in Int /\ MinTopUp >= 1
  BY <1>1, MaxOfTwo DEF MinTopUp
<1> SUFFICES ASSUME NEW o \in Opening(t) PROVE o \in Plans
  OBVIOUS
<1>3. PICK r \in Rows : /\ o = [row |-> r, size |-> Gap(r, t)]
                        /\ Gap(r, t) \in MinTopUp + 1 .. MaxPair
  BY DEF Opening
<1>4. Gap(r, t) \in 1 .. MaxPair
  BY <1>2, <1>3, RebalanceAssumption
<1> QED BY <1>3, <1>4 DEF Plans

LEMMA WorldKeeps == ASSUME RebalInv, World PROVE RebalInv'
<1>1. rebal = "idle" /\ UNCHANGED <<unified, overdrawn, cached, opens, rebal, holding>>
  BY DEF World, QuoteMoves, SpreadMoves, BasisMoves, Withdrawal, Moved, exec, market
<1>2. cached' = Unseen2
  BY <1>1 DEF RebalInv
<1>3. money' \in [Wallets -> Nat]
  BY DEF World, QuoteMoves, SpreadMoves, BasisMoves, Withdrawal, RebalInv
<1>4. Sized(holding') /\ opens' \in SUBSET Plans
  BY <1>1 DEF RebalInv, Sized
<1>5. Queueing
  BY SameQueue DEF World
<1> QED BY <1>1, <1>2, <1>3, <1>4, <1>5, UnseenSteps

LEMMA PlanKeeps ==
  ASSUME RebalInv, LockProfits \/ HardStop \/ Reduce \/ ShockExit \/ Rebalance
  PROVE  RebalInv'
<1>1. UNCHANGED <<unified, overdrawn, money, holding, retry>>
  BY DEF LockProfits, HardStop, Reduce, ShockExit, Rebalance, GuardExit, market
<1>2. CASE \E C, O : Execute(C, O) /\ O \in SUBSET Plans
  <2>1. cached' = Unseen2 /\ opens' \in SUBSET Plans
    BY <1>2 DEF Execute
  <2> QED BY <1>1, <2>1, SameQueue, UnseenSteps DEF RebalInv, Sized
<1>3. CASE UNCHANGED exec
  BY <1>1, <1>3 DEF exec, RebalInv, Unifiable, Sized, Below
<1>4. CASE LockProfits \/ HardStop \/ Reduce \/ ShockExit
  <2>1. {} \in SUBSET Plans
    OBVIOUS
  <2> QED BY <1>2, <1>4, <2>1 DEF LockProfits, HardStop, Reduce, ShockExit, GuardExit
<1>5. CASE Rebalance
  <2>1. UNCHANGED exec \/ \E C, t : Execute(C, Opening(t))
    BY <1>5 DEF Rebalance
  <2> QED BY <1>2, <1>3, <2>1, OpeningIsPlan
<1> QED BY <1>4, <1>5

\* A strategy that is sold gives its money back.
LEMMA SoldKeeps ==
  ASSUME RebalInv, NEW k \in Slots, Sold(k)
  PROVE  money' \in [Wallets -> Nat] /\ Sized(holding') /\ Queueing
<1>1. \A w \in Wallets : Need(holding[k].row, holding[k].size, w) \in Nat
  BY NeedIsNat DEF RebalInv, Sized
<1>2. money' \in [Wallets -> Nat]
  BY <1>1 DEF Sold, Returned, RebalInv
<1>3. Vacant.size \in Nat
  BY DEF Vacant
<1>4. Sized(holding')
  BY <1>3 DEF Sold, RebalInv, Sized
<1>5. Queueing
  BY CloseQueued DEF Sold
<1> QED BY <1>2, <1>4, <1>5

LEMMA CloseKeeps == ASSUME RebalInv, NEW k \in Slots, Close2(k) PROVE RebalInv'
<1>1. /\ UNCHANGED <<unified, overdrawn, rebal, opens, cached>> /\ rebal = "closing"
  BY DEF Close2
<1>2. cached' = Unseen2 /\ opens' \in SUBSET Plans
  BY <1>1 DEF RebalInv
<1>3. money' \in [Wallets -> Nat] /\ Sized(holding') /\ Queueing
  <2>1. CASE Sold(k)
    BY <2>1, SoldKeeps
  <2>2. CASE UNCHANGED <<holding, money>> /\ (UNCHANGED retry \/ MayRequeue("closes", k))
    BY <2>2, CloseQueued DEF RebalInv, Sized
  <2> QED BY <2>1, <2>2 DEF Close2
<1> QED BY <1>1, <1>2, <1>3, UnseenSteps

\* Another closer draws no money, so the executor's caches stay below what is there.
LEMMA ClosedElsewhereKeeps == ASSUME RebalInv, ClosedElsewhere PROVE RebalInv'
<1>1. PICK k \in Slots : Sold(k)
  BY DEF ClosedElsewhere, Held2
<1>2. UNCHANGED <<unified, overdrawn, rebal, opens, cached>>
  BY DEF ClosedElsewhere, exec
<1>3. money' \in [Wallets -> Nat] /\ Sized(holding') /\ Queueing
  BY <1>1, SoldKeeps
<1>4. \A w \in Wallets : money'[w] \in Int /\ money[w] \in Int /\ money[w] <= money'[w]
  <2> SUFFICES ASSUME NEW w \in Wallets
               PROVE  money'[w] \in Int /\ money[w] \in Int /\ money[w] <= money'[w]
    OBVIOUS
  <2>1. Need(holding[k].row, holding[k].size, w) \in Nat
    BY NeedIsNat DEF RebalInv, Sized
  <2>2. money'[w] = money[w] + Need(holding[k].row, holding[k].size, w)
    BY <1>1 DEF Sold, Returned
  <2> QED BY <2>1, <2>2 DEF RebalInv
<1>5. Below(cached', money')
  <2>1. Below(cached, money)
    BY DEF RebalInv
  <2>2. \A leg \in Sides, w \in Wallets : cached[leg][w] \in Int
    BY <2>1 DEF Below
  <2>3. \A leg \in Sides, w \in Wallets : cached[leg][w] <= money[w] => cached[leg][w] <= money'[w]
    BY <2>2, <1>4
  <2> QED BY <1>2, <2>1, <2>3 DEF Below
<1> QED BY <1>2, <1>3, <1>5 DEF RebalInv, Unifiable, Queueing

LEMMA PhaseKeeps ==
  ASSUME RebalInv, \/ ClosePhaseEnds \/ CycleEnds \/ \E k \in Slots : CloseAgain(k)
                   \/ \E o \in retry.opens : OpenAgain(o)
  PROVE  RebalInv'
<1>1. CASE ClosePhaseEnds
  <2>1. /\ UNCHANGED <<unified, overdrawn, money, holding, cached, retry>> /\ rebal = "closing"
        /\ opens' \in {opens, {}}
    BY <1>1 DEF ClosePhaseEnds, market
  <2>2. cached' = Unseen2 /\ opens' \in SUBSET Plans
    BY <2>1 DEF RebalInv
  <2> QED BY <2>1, <2>2, SameQueue, UnseenSteps DEF RebalInv, Sized
<1>2. CASE CycleEnds
  <2>1. UNCHANGED <<unified, overdrawn, money, holding, opens, retry>> /\ cached' = Unseen2
    BY <1>2 DEF CycleEnds, market
  <2> QED BY <2>1, SameQueue, UnseenSteps DEF RebalInv, Sized
<1>3. CASE \E k \in Slots : CloseAgain(k)
  <2>1. PICK k \in Slots : CloseAgain(k)
    BY <1>3
  <2>2. /\ UNCHANGED <<unified, overdrawn, money, holding>>
        /\ cached' = Unseen2 /\ opens' = {} /\ retry' = [retry EXCEPT !.closes = @ \ {k}]
    BY <2>1 DEF CloseAgain, Execute, market
  <2>3. Queueing
    BY <2>2, CloseQueued
  <2> QED BY <2>2, <2>3, UnseenSteps DEF RebalInv, Sized
<1>4. CASE \E o \in retry.opens : OpenAgain(o)
  <2>1. PICK o \in retry.opens : OpenAgain(o)
    BY <1>4
  <2>2. /\ UNCHANGED <<unified, overdrawn, money, holding, cached>> /\ rebal = "idle"
        /\ opens' = {o} /\ retry' = [retry EXCEPT !.opens = @ \ {o}]
    BY <2>1 DEF OpenAgain, market
  <2>3. cached' = Unseen2 /\ opens' \in SUBSET Plans
    BY <2>2 DEF RebalInv
  <2>4. Queueing
    BY <2>2 DEF RebalInv, Queueing
  <2> QED BY <2>2, <2>3, <2>4, UnseenSteps DEF RebalInv, Sized
<1> QED BY <1>1, <1>2, <1>3, <1>4

\* An item that is filled, with the caches c as they were when it was placed.
LEMMA FilledKeeps ==
  ASSUME RebalInv, NEW r \in Rows, NEW n \in Nat, NEW c, NEW e, Below(c, money), Covered(r, n),
         rebal \in {"opening", "retrying"}, UNCHANGED <<unified, rebal, overdrawn>>,
         opens' \in SUBSET Plans, Queueing,
         holding' = [holding EXCEPT ![Vacancy] = [row |-> r, size |-> n, entry |-> e]],
         money' = Use(money, r, n), cached' = Consumed(c, r, n)
  PROVE  RebalInv'
<1>1. money' \in [Wallets -> Nat]
  BY MoneyUsed DEF RebalInv
<1>2. Below(cached', money')
  BY ConsumedIsBelow DEF RebalInv
<1>3. Sized(holding')
  BY DEF RebalInv, Sized
<1> QED BY <1>1, <1>2, <1>3 DEF RebalInv, Unifiable, Below, Sized, Queueing

LEMMA ReadKeeps ==
  ASSUME RebalInv, NEW c, Below(c, money), rebal \in {"opening", "retrying"}, Queueing,
         UNCHANGED <<unified, rebal, overdrawn, holding, money>>, opens' \in SUBSET Plans,
         cached' = c
  PROVE  RebalInv'
BY DEF RebalInv, Unifiable, Below, Sized, Queueing

LEMMA SizesAreNat ==
  ASSUME RebalInv, NEW o \in opens
  PROVE  o.row \in Rows /\ Wanted(o) \in Nat /\ Wanted(o) >= 1 /\ Wanted(o) \in Int
<1>1. o.row \in Rows /\ o.size \in 1 .. MaxPair
  BY DEF RebalInv, Plans
<1>2. Wanted(o) = IF o.size <= MaxPair THEN o.size ELSE MaxPair
  BY <1>1, MinOfTwo, RebalanceAssumption DEF Wanted
<1> QED BY <1>1, <1>2, RebalanceAssumption

LEMMA AffordableIsInt ==
  ASSUME RebalInv, NEW r \in Rows PROVE Affordable(r) \in Int
<1>1. PICK p : p = Reading("perp", Wallet(r, "perp"))
  OBVIOUS
<1>2. PICK s : s = Reading("spot", Wallet(r, "spot"))
  OBVIOUS
<1>3. p \in Nat /\ s \in Nat
  BY <1>1, <1>2, WalletsOfRow, ReadingIsBelow DEF RebalInv, Sides
<1>4. p \div 3 \in Int /\ s \div 2 \in Int
  BY <1>3
<1>5. Min({p, s \div 2}) \in Int
  BY <1>3, <1>4, MinOfTwo
<1> QED BY <1>1, <1>2, <1>4, <1>5 DEF Affordable

LEMMA Open2Keeps == ASSUME RebalInv, NEW o \in opens, Open2(o) PROVE RebalInv'
<1>1. PICK r : r = o.row
  OBVIOUS
<1>2. PICK n : n = Min({Wanted(o), Affordable(r)})
  OBVIOUS
<1>3. r \in Rows /\ n \in Int /\ n <= Affordable(r)
  BY <1>1, <1>2, SizesAreNat, AffordableIsInt, MinOfTwo
<1>4. PICK c : c = ReadCaches(r)
  OBVIOUS
<1>5. Below(c, money)
  BY <1>3, <1>4, ReadCachesBelow
<1>6. /\ rebal \in {"opening", "retrying"} /\ UNCHANGED <<unified, rebal>>
      /\ opens' \in SUBSET Plans /\ o \in Plans
  BY DEF Open2, InTurn, market, RebalInv
<1>7. CASE n >= 1 /\ Order(o, n, c) /\ overdrawn' = (overdrawn \/ ~Covered(r, n))
  <2>1. n \in Nat /\ Covered(r, n)
    BY <1>3, <1>7, AffordableIsCovered
  <2>2. overdrawn' = overdrawn
    BY <1>7, <2>1 DEF RebalInv
  <2>3. CASE /\ holding' = [holding EXCEPT ![Vacancy] = [row |-> r, size |-> n,
                                                        entry |-> scan[r].e24]]
             /\ money' = Use(money, r, n) /\ cached' = Consumed(c, r, n) /\ UNCHANGED retry
    BY <1>3, <1>5, <1>6, <2>1, <2>2, <2>3, SameQueue, FilledKeeps
  <2>4. CASE cached' = c /\ UNCHANGED <<holding, money>> /\ MayRequeue("opens", o)
    BY <1>5, <1>6, <2>2, <2>4, OpenQueued, ReadKeeps
  <2> QED BY <1>1, <1>7, <2>3, <2>4 DEF Order
<1>8. CASE /\ cached' = c /\ UNCHANGED <<holding, money, overdrawn>>
           /\ UNCHANGED retry \/ MayRequeue("opens", o)
  BY <1>5, <1>6, <1>8, OpenQueued, ReadKeeps
<1> QED BY <1>1, <1>2, <1>4, <1>7, <1>8 DEF Open2

LEMMA OpenUnreadKeeps == ASSUME RebalInv, NEW o \in opens, OpenUnread(o) PROVE RebalInv'
<1>1. PICK r : r = o.row
  OBVIOUS
<1>2. PICK n : n = Wanted(o)
  OBVIOUS
<1>3. r \in Rows /\ n \in Nat
  BY <1>1, <1>2, SizesAreNat
<1>4. /\ rebal \in {"opening", "retrying"} /\ UNCHANGED <<unified, rebal, overdrawn>>
      /\ opens' \in SUBSET Plans /\ o \in Plans
  BY DEF OpenUnread, InTurn, market, RebalInv
<1>5. CASE /\ Covered(r, n)
           /\ holding' = [holding EXCEPT ![Vacancy] = [row |-> r, size |-> n,
                                                       entry |-> scan[r].e24]]
           /\ money' = Use(money, r, n) /\ cached' = Consumed(cached, r, n) /\ UNCHANGED retry
  BY <1>3, <1>4, <1>5, SameQueue, FilledKeeps DEF RebalInv
<1>6. CASE UNCHANGED <<holding, money, cached>> /\ MayRequeue("opens", o)
  BY <1>4, <1>6, OpenQueued, ReadKeeps DEF RebalInv
<1> QED BY <1>1, <1>2, <1>5, <1>6 DEF OpenUnread

LEMMA RebalStep == RebalInv /\ [RebalNext]_rebalVars => RebalInv'
<1> SUFFICES ASSUME RebalInv, [RebalNext]_rebalVars PROVE RebalInv'
  OBVIOUS
<1>1. CASE World
  BY <1>1, WorldKeeps
<1>2. CASE LockProfits \/ HardStop \/ Reduce \/ ShockExit \/ Rebalance
  BY <1>2, PlanKeeps
<1>3. CASE \/ ClosePhaseEnds \/ CycleEnds \/ \E k \in Slots : CloseAgain(k)
           \/ \E o \in retry.opens : OpenAgain(o)
  BY <1>3, PhaseKeeps
<1>6. CASE ClosedElsewhere \/ \E k \in Slots : Close2(k)
  BY <1>6, CloseKeeps, ClosedElsewhereKeeps
<1>4. CASE \E o \in opens : Open2(o) \/ OpenUnread(o)
  BY <1>4, Open2Keeps, OpenUnreadKeeps
<1>5. CASE UNCHANGED rebalVars
  BY <1>5 DEF rebalVars, market, exec, RebalInv, Unifiable, Below, Sized
<1> QED BY <1>1, <1>2, <1>3, <1>4, <1>5, <1>6 DEF RebalNext

\* No open asks for more than its wallets hold, as long as their balances can be
\* read and nobody else draws on them: for any rows, accounts, plans and failures
\* (_execute_open_plan with its balance caches).
THEOREM OpensAreCovered == RebalSpec => []OrdersAreCovered
<1>1. RebalInit => RebalInv
  BY RebalInitInv
<1>2. RebalInv /\ [RebalNext]_rebalVars => RebalInv'
  BY RebalStep
<1>3. RebalInv => OrdersAreCovered
  BY DEF RebalInv, OrdersAreCovered
<1> QED BY <1>1, <1>2, <1>3, PTL DEF RebalSpec
=============================================================================
