-------------------------- MODULE StrategyBookProofs --------------------------
(***************************************************************************)
(* What StrategyBook guarantees for every number of strategies, symbols,   *)
(* request threads, opens, faults and deleted exchanges.                   *)
(***************************************************************************)
EXTENDS StrategyBook, FiniteSetTheorems, TLAPS

Stages == {"idle", "pick", "first", "second", "report", "unwind", "checked", "closing"}
HeldStages == {"first", "second", "report", "unwind", "checked", "closing"}

(* A worker past the choice of a strategy has one in hand. *)
BookInHand == \A w \in Workers : pc[w] \in HeldStages => book[w] \in Strategies

(* An opener has a result for every leg it has tried. *)
LegsPlaced ==
  \A w \in Workers :
    /\ pc[w] = "second" => local[w][First(book[w])] # "kept"
    /\ pc[w] = "report" => \A l \in Legs : local[w][l] # "kept"

Typed == TypeOK /\ BookInHand /\ LegsPlaced

(* The parts of the type invariant. *)
TablesTyped ==
  /\ sst \in [Strategies -> {"none", "active", "closing", "closed", "error"}]
  /\ pst \in [Strategies -> [Legs -> Statuses \cup {"none"}]]
  /\ gone \in SUBSET Markets
WorkersTyped ==
  /\ pc \in [Workers -> Stages]
  /\ book \in [Workers -> Strategies \cup {NoStrategy}]
  /\ todo \in [Workers -> SUBSET Legs]
  /\ local \in [Workers -> [Legs -> Statuses \cup {"kept"}]]
  /\ err \in [Workers -> BOOLEAN]
UnitsTyped ==
  /\ venue \in [Markets -> Nat]
  /\ stray \in [Markets -> Nat]
  /\ faults \in 0 .. MaxFaults
RestTyped ==
  /\ plan \in [Workers -> SUBSET Strategies]
  /\ adrift \in SUBSET Strategies
  /\ opens \in 0 .. MaxOpens

LEMMA TypeOKByParts ==
  TypeOK <=> TablesTyped /\ WorkersTyped /\ UnitsTyped /\ RestTyped
BY DEF TypeOK, TablesTyped, WorkersTyped, UnitsTyped, RestTyped, Stages

-----------------------------------------------------------------------------
(* The operators the actions are built from.                               *)

LEMMA MarketType ==
  ASSUME NEW k \in Strategies, NEW l \in Legs
  PROVE  Market(k, l) \in Markets
BY BookAssumption DEF Market, Markets, Legs

LEMMA PlaceOutcomeType ==
  ASSUME NEW m \in Markets, NEW o \in PlaceOutcomes(m)
  PROVE  /\ o.n \in Nat /\ o.f \in Nat /\ o.ok \in BOOLEAN
         /\ o.ok => o.n >= 1
BY DEF PlaceOutcomes

(* A call that closes a leg never closes more than the market holds: it *)
(* does not open a position on the other side.                          *)
LEMMA CloseOutcomeType ==
  ASSUME TypeOK, NEW w \in Workers, NEW m \in Markets, NEW o \in CloseOutcomes(w, m)
  PROVE  /\ o.n \in Nat /\ o.f \in Nat /\ o.ok \in BOOLEAN
         /\ o.n <= venue[m]
<1>1. venue[m] \in Nat
  BY DEF TypeOK
<1>2. ASSUME NEW h \in Nat, NEW a \in Nat, a <= h, NEW f \in Nat,
             NEW spot \in BOOLEAN, NEW r \in RestOutcomes(h, a, f, spot)
      PROVE  r.n \in Nat /\ r.f \in Nat /\ r.ok \in BOOLEAN /\ r.n <= h
  BY <1>2 DEF RestOutcomes
<1>3. ASSUME NEW h \in Nat, NEW spot \in BOOLEAN, NEW r \in SweepOutcomes(h, spot)
      PROVE  r.n \in Nat /\ r.f \in Nat /\ r.ok \in BOOLEAN /\ r.n <= h
  <2>1. CASE h = 0
    <3>1. r \in RestOutcomes(0, 0, 0, spot)
      BY <1>3, <2>1 DEF SweepOutcomes
    <3> QED
      BY <1>2, <2>1, <3>1
  <2>2. CASE h # 0 /\ r = [n |-> 1, ok |-> TRUE, f |-> 0]
    BY <2>2
  <2>3. CASE h # 0 /\ r \in RestOutcomes(h, 0, 1, spot)
    BY <1>2, <2>3
  <2>4. CASE h # 0 /\ r \in RestOutcomes(h, 1, 1, spot)
    BY <1>2, <2>4
  <2> QED
    BY <1>3, <2>1, <2>2, <2>3, <2>4 DEF SweepOutcomes
<1>4. ASSUME NEW h \in Nat, NEW r \in HedgeOutcomes(h)
      PROVE  r.n \in Nat /\ r.f \in Nat /\ r.ok \in BOOLEAN /\ r.n <= h
  BY <1>4 DEF HedgeOutcomes, Lesser, CloseVariants
<1>5. \/ \E spot \in BOOLEAN : o \in SweepOutcomes(venue[m], spot)
      \/ o \in HedgeOutcomes(venue[m])
  BY DEF CloseOutcomes
<1> QED
  BY <1>1, <1>3, <1>4, <1>5

LEMMA CallType ==
  ASSUME TypeOK, NEW w \in Workers, NEW m \in Markets,
         NEW o \in CloseOutcomes(w, m), Call(m, o)
  PROVE  UnitsTyped'
<1>1. o.n \in Nat /\ o.f \in Nat /\ o.n <= venue[m]
  BY CloseOutcomeType
<1>2. venue[m] \in Nat /\ stray[m] \in Nat /\ faults \in Nat
  BY DEF TypeOK
<1>3. venue[m] - o.n \in Nat
  BY <1>1, <1>2
<1>4. Lesser(stray[m], venue[m] - o.n) \in Nat
  BY <1>2, <1>3 DEF Lesser
<1>5. venue' \in [Markets -> Nat]
  BY <1>3 DEF Call, TypeOK
<1>6. stray' \in [Markets -> Nat]
  BY <1>4 DEF Call, TypeOK
<1>7. faults' \in 0 .. MaxFaults
  BY <1>1, <1>2, BookAssumption DEF Call
<1> QED
  BY <1>5, <1>6, <1>7 DEF UnitsTyped

(* A worker that lets go holds nothing, and the others go on as they were. *)
Stands(w) == \A v \in Workers \ {w} : pc'[v] = pc[v] /\ book'[v] = book[v]

LEMMA LeaveType ==
  ASSUME Typed, NEW w \in Workers, NEW p \in {"idle", "pick"}, Leave(w, p)
  PROVE  WorkersTyped' /\ BookInHand' /\ LegsPlaced' /\ Stands(w)
<1>1. WorkersTyped'
  BY DEF Typed, TypeOK, WorkersTyped, Leave, Stages, Kept, Legs
<1>2. pc'[w] = p /\ Stands(w)
  BY DEF Leave, Stands, Typed, TypeOK
<1>3. BookInHand'
  BY <1>2 DEF Typed, BookInHand, HeldStages, Stands
<1>4. \A v \in Workers \ {w} : local'[v] = local[v]
  BY DEF Leave, Typed, TypeOK
<1>5. LegsPlaced'
  BY <1>2, <1>4 DEF Typed, LegsPlaced, Stands, First
<1> QED
  BY <1>1, <1>2, <1>3, <1>5

LEMMA ReleaseType ==
  ASSUME Typed, NEW w \in Workers, Release(w)
  PROVE  WorkersTyped' /\ BookInHand' /\ LegsPlaced' /\ Stands(w)
<1>1. \E p \in {"idle", "pick"} : Leave(w, p)
  BY DEF Release
<1> QED
  BY <1>1, LeaveType

LEMMA WorkersFinite == IsFiniteSet(Workers) /\ IsFiniteSet(Legs)
<1>1. \A x, y : {x, y} = {x} \cup {y}
  OBVIOUS
<1>2. \A x, y : IsFiniteSet({x, y})
  <2> SUFFICES ASSUME NEW x, NEW y PROVE IsFiniteSet({x} \cup {y})
    BY <1>1
  <2>1. IsFiniteSet({x}) /\ IsFiniteSet({y})
    BY FS_Singleton
  <2> QED
    BY <2>1, FS_Union
<1>3. IsFiniteSet({Risk, Engine}) /\ IsFiniteSet(Legs)
  BY <1>2 DEF Legs
<1> QED
  BY <1>3, BookAssumption, FS_Union DEF Workers

(* A count of legs that workers have in flight is a number. *)
LEMMA AbandonedType ==
  ASSUME TypeOK, NEW S \in SUBSET Workers
  PROVE  Abandoned(S) \in [Markets -> Nat]
<1>1. IsFiniteSet(S \X Legs)
  BY WorkersFinite, FS_Subset, FS_Product
<1>2. ASSUME NEW m \in Markets
      PROVE  Cardinality({x \in S \X Legs :
                /\ pc[x[1]] \in {"second", "report"}
                /\ local[x[1]][x[2]] = "open"
                /\ Market(book[x[1]], x[2]) = m}) \in Nat
  BY <1>1, FS_Subset, FS_CardinalityType
<1> QED
  BY <1>2 DEF Abandoned, TypeOK

-----------------------------------------------------------------------------
(* Type correctness: one lemma per group of actions.                       *)

LEMMA InitTyped == Init => Typed
BY BookAssumption
DEF Init, Typed, TypeOK, BookInHand, LegsPlaced, HeldStages, Statuses, Kept, NoLegs, Legs

LEMMA PlaceTyped ==
  ASSUME Typed, NEW w \in Workers, Place(w)
  PROVE  Typed'
<1>1. book[w] \in Strategies
  BY DEF Place, Typed, BookInHand, HeldStages
<1> DEFINE l == PlacedLeg(w)
           m == Market(book[w], l)
<1>2. l \in Legs
  BY DEF PlacedLeg, First, Second, Legs
<1>3. m \in Markets
  BY <1>1, <1>2, MarketType
<1>4. PICK o \in PlaceOutcomes(m) :
        /\ faults + o.f <= MaxFaults
        /\ faults' = faults + o.f
        /\ venue' = [venue EXCEPT ![m] = @ + o.n]
        /\ stray' = [stray EXCEPT ![m] = @ + o.n - (IF o.ok THEN 1 ELSE 0)]
        /\ IF ~o.ok /\ book[w] \in Spots /\ pc[w] = "first"
           THEN /\ local' = [local EXCEPT ![w] = [x \in Legs |-> "error"]]
                /\ pc' = [pc EXCEPT ![w] = "report"]
           ELSE /\ local' = [local EXCEPT ![w][l] = IF o.ok THEN "open" ELSE "error"]
                /\ pc' = [pc EXCEPT ![w] = IF @ = "first" THEN "second" ELSE "report"]
        /\ err' = [err EXCEPT ![w] = @ \/ ~o.ok]
  BY DEF Place
<1>5. /\ o.n \in Nat /\ o.f \in Nat /\ o.ok \in BOOLEAN
      /\ o.ok => o.n >= 1
  BY <1>3, PlaceOutcomeType
<1>6. /\ l = IF pc[w] = "first" THEN First(book[w]) ELSE Second(book[w])
      /\ Legs = {First(book[w]), Second(book[w])}
      /\ First(book[w]) # Second(book[w])
  BY DEF PlacedLeg, First, Second, Legs
<1>7. UNCHANGED <<sst, pst, gone, book, todo, plan, adrift, opens>>
  BY DEF Place, database
<1>8. pc[w] \in {"first", "second"}
  BY DEF Place
<1> HIDE DEF l, m
<1>9. UnitsTyped'
  <2>1. venue' \in [Markets -> Nat]
    BY <1>3, <1>4, <1>5 DEF Typed, TypeOK
  <2>2. stray[m] + o.n - (IF o.ok THEN 1 ELSE 0) \in Nat
    BY <1>3, <1>5 DEF Typed, TypeOK
  <2>3. stray' \in [Markets -> Nat]
    BY <1>3, <1>4, <2>2 DEF Typed, TypeOK
  <2>4. faults' \in 0 .. MaxFaults
    BY <1>4, <1>5, BookAssumption DEF Typed, TypeOK
  <2> QED
    BY <2>1, <2>3, <2>4 DEF UnitsTyped
<1>10. /\ local' \in [Workers -> [Legs -> Statuses \cup {"kept"}]]
       /\ \A v \in Workers \ {w} : local'[v] = local[v]
  <2>1. local \in [Workers -> [Legs -> Statuses \cup {"kept"}]]
    BY DEF Typed, TypeOK
  <2>2. CASE local' = [local EXCEPT ![w] = [x \in Legs |-> "error"]]
    BY <2>1, <2>2 DEF Statuses
  <2>3. CASE local' = [local EXCEPT ![w][l] = IF o.ok THEN "open" ELSE "error"]
    <3>1. [local[w] EXCEPT ![l] = IF o.ok THEN "open" ELSE "error"]
            \in [Legs -> Statuses \cup {"kept"}]
      BY <1>2, <2>1 DEF Statuses
    <3> QED
      BY <2>1, <2>3, <3>1
  <2> QED
    BY <1>4, <2>2, <2>3
<1>11. pc' \in [Workers -> Stages] /\ \A v \in Workers \ {w} : pc'[v] = pc[v]
  BY <1>4 DEF Typed, TypeOK, Stages
<1>12. err' \in [Workers -> BOOLEAN]
  BY <1>4 DEF Typed, TypeOK
<1>13. TypeOK'
  BY <1>7, <1>9, <1>10, <1>11, <1>12 DEF Typed, TypeOK, UnitsTyped, Stages
<1>14. BookInHand'
  BY <1>1, <1>7, <1>11 DEF Typed, BookInHand
<1>15. /\ pc'[w] = "second" => local'[w][First(book[w])] # "kept"
       /\ pc'[w] = "report" => \A x \in Legs : local'[w][x] # "kept"
  <2>1. CASE ~o.ok /\ book[w] \in Spots /\ pc[w] = "first"
    BY <1>4, <2>1 DEF Typed, TypeOK
  <2>2. CASE ~(~o.ok /\ book[w] \in Spots /\ pc[w] = "first")
    <3>1. /\ local' = [local EXCEPT ![w][l] = IF o.ok THEN "open" ELSE "error"]
          /\ pc' = [pc EXCEPT ![w] = IF @ = "first" THEN "second" ELSE "report"]
      BY <1>4, <2>2
    <3>2. local'[w] = [local[w] EXCEPT ![l] = IF o.ok THEN "open" ELSE "error"]
      BY <3>1 DEF Typed, TypeOK
    <3>3. CASE pc[w] = "first"
      BY <1>2, <1>6, <3>1, <3>2, <3>3 DEF Typed, TypeOK
    <3>4. CASE pc[w] = "second"
      <4>1. local[w][First(book[w])] # "kept"
        BY <3>4 DEF Typed, LegsPlaced
      <4>2. l = Second(book[w])
        BY <1>6, <3>4
      <4>3. pc'[w] = "report"
        BY <3>1, <3>4 DEF Typed, TypeOK
      <4> QED
        BY <1>2, <1>6, <3>2, <4>1, <4>2, <4>3 DEF Typed, TypeOK
    <3> QED
      BY <1>8, <3>3, <3>4
  <2> QED
    BY <2>1, <2>2
<1>16. LegsPlaced'
  BY <1>7, <1>10, <1>11, <1>15 DEF Typed, LegsPlaced, First
<1> QED
  BY <1>13, <1>14, <1>16 DEF Typed


LEMMA OpenBeginTyped ==
  ASSUME Typed, NEW w \in Workers, NEW k \in Strategies, OpenBegin(w, k)
  PROVE  Typed'
<1>1. opens' \in 0 .. MaxOpens
  BY BookAssumption DEF OpenBegin, Typed, TypeOK
<1>2. /\ pc'[w] = "first" /\ book'[w] = k
      /\ \A v \in Workers \ {w} : pc'[v] = pc[v] /\ book'[v] = book[v]
      /\ pc' \in [Workers -> Stages] /\ book' \in [Workers -> Strategies \cup {NoStrategy}]
  BY DEF OpenBegin, Typed, TypeOK, Stages
<1>3. UNCHANGED <<sst, pst, gone, venue, todo, local, err, plan, stray, adrift, faults>>
  BY DEF OpenBegin, database
<1>4. TypeOK'
  BY <1>1, <1>2, <1>3 DEF Typed, TypeOK, Stages
<1>5. BookInHand'
  BY <1>2 DEF Typed, BookInHand
<1>6. LegsPlaced'
  BY <1>2, <1>3 DEF Typed, LegsPlaced, First
<1> QED
  BY <1>4, <1>5, <1>6 DEF Typed

LEMMA UnwindTyped ==
  ASSUME Typed, NEW w \in Workers, Unwind(w)
  PROVE  Typed'
<1>1. book[w] \in Strategies /\ pc[w] = "unwind"
  BY DEF Unwind, Typed, BookInHand, HeldStages
<1>2. PICK l \in todo[w] : \E o \in CloseOutcomes(w, Market(book[w], l)) :
        /\ Call(Market(book[w], l), o)
        /\ local' = [local EXCEPT ![w][l] =
              IF o.ok THEN "closed" ELSE IF book[w] \in Spots THEN "open" ELSE "kept"]
        /\ todo' = [todo EXCEPT ![w] = {}]
  BY DEF Unwind
<1>3. PICK o \in CloseOutcomes(w, Market(book[w], l)) :
        /\ Call(Market(book[w], l), o)
        /\ local' = [local EXCEPT ![w][l] =
              IF o.ok THEN "closed" ELSE IF book[w] \in Spots THEN "open" ELSE "kept"]
        /\ todo' = [todo EXCEPT ![w] = {}]
  BY <1>2
<1>4. l \in Legs
  BY DEF Typed, TypeOK
<1>5. UnitsTyped'
  BY <1>1, <1>3, <1>4, MarketType, CallType DEF Typed
<1>6. /\ local' \in [Workers -> [Legs -> Statuses \cup {"kept"}]]
      /\ \A v \in Workers \ {w} : local'[v] = local[v]
  <2> DEFINE r == IF o.ok THEN "closed" ELSE IF book[w] \in Spots THEN "open" ELSE "kept"
  <2>1. r \in Statuses \cup {"kept"}
    BY DEF Statuses
  <2>2. local \in [Workers -> [Legs -> Statuses \cup {"kept"}]]
    BY DEF Typed, TypeOK
  <2>3. local' = [local EXCEPT ![w][l] = r]
    BY <1>3
  <2> HIDE DEF r
  <2>4. [local[w] EXCEPT ![l] = r] \in [Legs -> Statuses \cup {"kept"}]
    BY <1>4, <2>1, <2>2
  <2> QED
    BY <2>2, <2>3, <2>4
<1>7. todo' \in [Workers -> SUBSET Legs]
  BY <1>3 DEF Typed, TypeOK
<1>8. UNCHANGED <<sst, pst, gone, pc, book, err, plan, adrift, opens>>
  BY DEF Unwind, database
<1>9. TypeOK'
  BY <1>5, <1>6, <1>7, <1>8 DEF Typed, TypeOK, UnitsTyped
<1>10. BookInHand'
  BY <1>8 DEF Typed, BookInHand
<1>11. LegsPlaced'
  BY <1>1, <1>6, <1>8 DEF Typed, LegsPlaced, First
<1> QED
  BY <1>9, <1>10, <1>11 DEF Typed

(* The commit that ends an open or a close: the worker lets go, the rest is *)
(* the status and the two rows of one strategy.                             *)
LEMMA CommitTyped ==
  ASSUME Typed, NEW w \in Workers, NEW k \in Strategies, Release(w),
         NEW st \in {"active", "closing", "closed", "error", "none"},
         NEW row \in [Legs -> Statuses \cup {"none"}],
         sst' = [sst EXCEPT ![k] = st],
         pst' = [pst EXCEPT ![k] = row],
         UNCHANGED <<gone, venue, plan, stray, adrift, opens, faults>>
  PROVE  Typed'
<1>1. WorkersTyped' /\ BookInHand' /\ LegsPlaced'
  BY ReleaseType
<1>2. TablesTyped'
  BY DEF Typed, TypeOK, TablesTyped
<1>3. UnitsTyped' /\ RestTyped'
  BY DEF Typed, TypeOK, UnitsTyped, RestTyped
<1> QED
  BY <1>1, <1>2, <1>3 DEF Typed, TypeOK, TablesTyped, WorkersTyped, UnitsTyped, RestTyped, Stages

LEMMA FlushedType ==
  ASSUME NEW row \in [Legs -> Statuses \cup {"none"}],
         NEW u \in [Legs -> Statuses \cup {"kept"}]
  PROVE  Flushed(row, u) \in [Legs -> Statuses \cup {"none"}]
BY DEF Flushed

LEMMA ReportSpotTyped ==
  ASSUME Typed, NEW w \in Workers, ReportSpot(w)
  PROVE  Typed'
<1>1. book[w] \in Strategies
  BY DEF ReportSpot, Typed, BookInHand, HeldStages
<1>2. local[w] \in [Legs -> Statuses \cup {"none"}]
  BY DEF ReportSpot, Typed, TypeOK, LegsPlaced
<1> QED
  BY <1>1, <1>2, CommitTyped DEF ReportSpot

LEMMA SettleTyped ==
  ASSUME Typed, NEW w \in Workers, Settle(w)
  PROVE  Typed'
<1>1. book[w] \in Strategies
  BY DEF Settle, Typed, BookInHand, HeldStages
<1>2. Flushed(pst[book[w]], local[w]) \in [Legs -> Statuses \cup {"none"}]
  BY <1>1, FlushedType DEF Typed, TypeOK
<1>3. PICK st \in {"active", "closing", "closed", "error", "none"} :
        sst' = [sst EXCEPT ![book[w]] = st]
  BY <1>1 DEF Settle, Typed, TypeOK
<1>4. pst' = [pst EXCEPT ![book[w]] = Flushed(pst[book[w]], local[w])]
  BY DEF Settle
<1>5. Release(w) /\ UNCHANGED <<gone, venue, plan, stray, adrift, opens, faults>>
  BY DEF Settle
<1> QED
  BY <1>1, <1>2, <1>3, <1>4, <1>5, CommitTyped

LEMMA CloseEndTyped ==
  ASSUME Typed, NEW w \in Workers, CloseEnd(w)
  PROVE  Typed'
<1>1. book[w] \in Strategies
  BY DEF CloseEnd, Typed, BookInHand, HeldStages
<1>2. Flushed(pst[book[w]], local[w]) \in [Legs -> Statuses \cup {"none"}]
  BY <1>1, FlushedType DEF Typed, TypeOK
<1>3. PICK st \in {"active", "closing", "closed", "error", "none"} :
        sst' = [sst EXCEPT ![book[w]] = st]
  BY <1>1 DEF CloseEnd
<1>4. pst' = [pst EXCEPT ![book[w]] = Flushed(pst[book[w]], local[w])]
  BY DEF CloseEnd
<1>5. Release(w) /\ UNCHANGED <<gone, venue, plan, stray, adrift, opens, faults>>
  BY DEF CloseEnd
<1> QED
  BY <1>1, <1>2, <1>3, <1>4, <1>5, CommitTyped

LEMMA ReportCrossTyped ==
  ASSUME Typed, NEW w \in Workers, ReportCross(w)
  PROVE  Typed'
<1>1. \A m \in Markets : Cardinality({l \in Legs : Market(book[w], l) = m}) \in Nat
  BY WorkersFinite, FS_Subset, FS_CardinalityType
<1>2. stray' \in [Markets -> Nat]
  BY <1>1 DEF ReportCross, Typed, TypeOK
<1>3. WorkersTyped' /\ BookInHand' /\ LegsPlaced'
  BY ReleaseType DEF ReportCross
<1>4. UNCHANGED <<sst, pst, gone, venue, plan, adrift, opens, faults>>
  BY DEF ReportCross, database
<1> QED
  BY <1>2, <1>3, <1>4 DEF Typed, TypeOK, WorkersTyped, Stages

LEMMA ReportErrorTyped ==
  ASSUME Typed, NEW w \in Workers, ReportError(w)
  PROVE  Typed'
<1>1. book[w] \in Strategies /\ pc[w] = "report"
  BY DEF ReportError, Typed, BookInHand, HeldStages
<1>2. local[w] \in [Legs -> Statuses \cup {"none"}]
  BY <1>1 DEF Typed, TypeOK, LegsPlaced
<1>3. TablesTyped'
  BY <1>1, <1>2 DEF ReportError, Typed, TypeOK, TablesTyped
<1>4. todo' \in [Workers -> SUBSET Legs]
  BY DEF ReportError, Typed, TypeOK
<1>5. /\ local' \in [Workers -> [Legs -> Statuses \cup {"kept"}]]
      /\ \A v \in Workers \ {w} : local'[v] = local[v]
  BY DEF ReportError, Typed, TypeOK, Kept
<1>6. /\ pc' \in [Workers -> Stages]
      /\ pc'[w] = "unwind" /\ \A v \in Workers \ {w} : pc'[v] = pc[v]
  BY DEF ReportError, Typed, TypeOK, Stages
<1>7. UNCHANGED <<gone, venue, book, err, plan, stray, adrift, opens, faults>>
  BY DEF ReportError
<1>8. TypeOK'
  BY <1>3, <1>4, <1>5, <1>6, <1>7 DEF Typed, TypeOK, TablesTyped, Stages
<1>9. BookInHand'
  BY <1>1, <1>6, <1>7 DEF Typed, BookInHand
<1>10. LegsPlaced'
  BY <1>5, <1>6, <1>7 DEF Typed, LegsPlaced, First
<1> QED
  BY <1>8, <1>9, <1>10 DEF Typed


(* A job or a request looks for work, or ends its pass. *)
LEMMA LookTyped ==
  ASSUME Typed,
         \/ StartRisk \/ StartAuto
         \/ \E w \in Workers : EndPass(w) \/ \E k \in Strategies : CloseCheck(w, k)
  PROVE  Typed'
<1>1. UNCHANGED <<sst, pst, gone, venue, todo, local, err, stray, adrift, opens, faults>>
  BY DEF StartRisk, StartAuto, EndPass, CloseCheck, database
<1>2. PICK w \in Workers :
        /\ pc[w] \in {"idle", "pick"}
        /\ pc' \in [Workers -> Stages]
        /\ book' \in [Workers -> Strategies \cup {NoStrategy}]
        /\ plan' \in [Workers -> SUBSET Strategies]
        /\ \A v \in Workers \ {w} : pc'[v] = pc[v] /\ book'[v] = book[v]
        /\ pc'[w] \in {"idle", "pick", "checked"}
        /\ pc'[w] = "checked" => book'[w] \in Strategies
  <2>1. CASE StartRisk
    BY <2>1 DEF StartRisk, Typed, TypeOK, Stages, Workers
  <2>2. CASE StartAuto
    BY <2>2, BookAssumption DEF StartAuto, Typed, TypeOK, Stages, Workers
  <2>3. ASSUME NEW w \in Workers, EndPass(w)
        PROVE  /\ pc[w] \in {"idle", "pick"}
               /\ pc' \in [Workers -> Stages]
               /\ book' \in [Workers -> Strategies \cup {NoStrategy}]
               /\ plan' \in [Workers -> SUBSET Strategies]
               /\ \A v \in Workers \ {w} : pc'[v] = pc[v] /\ book'[v] = book[v]
               /\ pc'[w] = "idle"
    BY <2>3 DEF EndPass, Typed, TypeOK, Stages
  <2>4. ASSUME NEW w \in Workers, NEW k \in Strategies, CloseCheck(w, k)
        PROVE  /\ pc[w] \in {"idle", "pick"}
               /\ pc' \in [Workers -> Stages]
               /\ book' \in [Workers -> Strategies \cup {NoStrategy}]
               /\ plan' \in [Workers -> SUBSET Strategies]
               /\ \A v \in Workers \ {w} : pc'[v] = pc[v] /\ book'[v] = book[v]
               /\ pc'[w] = "checked" /\ book'[w] \in Strategies
    BY <2>4 DEF CloseCheck, Typed, TypeOK, Stages
  <2> QED
    BY <2>1, <2>2, <2>3, <2>4
<1>3. TypeOK'
  BY <1>1, <1>2 DEF Typed, TypeOK, Stages
<1>4. BookInHand'
  BY <1>2 DEF Typed, BookInHand, HeldStages
<1>5. LegsPlaced'
  BY <1>1, <1>2 DEF Typed, LegsPlaced, First
<1> QED
  BY <1>3, <1>4, <1>5 DEF Typed

LEMMA CloseBeginTyped ==
  ASSUME Typed, NEW w \in Workers, NEW k \in Strategies, CloseBegin(w, k)
  PROVE  Typed'
<1>1. /\ pc' \in [Workers -> Stages]
      /\ book' \in [Workers -> Strategies \cup {NoStrategy}]
      /\ \A v \in Workers \ {w} : pc'[v] = pc[v] /\ book'[v] = book[v]
      /\ pc'[w] = "closing" /\ book'[w] = k
  BY DEF CloseBegin, Typed, TypeOK, Stages
<1>2. /\ sst' \in [Strategies -> {"none", "active", "closing", "closed", "error"}]
      /\ todo' \in [Workers -> SUBSET Legs]
      /\ plan' \in [Workers -> SUBSET Strategies]
  BY DEF CloseBegin, Typed, TypeOK
<1>3. UNCHANGED <<pst, gone, venue, local, err, stray, adrift, opens, faults>>
  BY DEF CloseBegin
<1>4. TypeOK'
  BY <1>1, <1>2, <1>3 DEF Typed, TypeOK, Stages
<1>5. BookInHand'
  BY <1>1 DEF Typed, BookInHand
<1>6. LegsPlaced'
  BY <1>1, <1>3 DEF Typed, LegsPlaced, First
<1> QED
  BY <1>4, <1>5, <1>6 DEF Typed

LEMMA CloseLegTyped ==
  ASSUME Typed, NEW w \in Workers, NEW l \in Legs, CloseLeg(w, l)
  PROVE  Typed'
<1> DEFINE m == Market(book[w], l)
<1>1. book[w] \in Strategies /\ pc[w] = "closing"
  BY DEF CloseLeg, Typed, BookInHand, HeldStages
<1>2. PICK o \in CloseOutcomes(w, m) :
        /\ Call(m, o)
        /\ local' = [local EXCEPT ![w][l] = LegAfter(w, o.ok)]
        /\ err' = [err EXCEPT ![w] = @ \/ ~o.ok]
  BY DEF CloseLeg
<1>3. m \in Markets
  BY <1>1, MarketType
<1>4. UnitsTyped'
  BY <1>2, <1>3, CallType DEF Typed
<1>5. /\ local' \in [Workers -> [Legs -> Statuses \cup {"kept"}]]
      /\ \A v \in Workers \ {w} : local'[v] = local[v]
  <2>1. LegAfter(w, o.ok) \in Statuses \cup {"kept"}
    BY DEF LegAfter, Statuses
  <2>2. local \in [Workers -> [Legs -> Statuses \cup {"kept"}]]
    BY DEF Typed, TypeOK
  <2>3. [local[w] EXCEPT ![l] = LegAfter(w, o.ok)] \in [Legs -> Statuses \cup {"kept"}]
    BY <2>1, <2>2
  <2> QED
    BY <1>2, <2>2, <2>3
<1>6. err' \in [Workers -> BOOLEAN]
  BY <1>2 DEF Typed, TypeOK
<1>7. todo' \in [Workers -> SUBSET Legs]
  BY DEF CloseLeg, Typed, TypeOK
<1>8. UNCHANGED <<sst, pst, gone, pc, book, plan, adrift, opens>>
  BY DEF CloseLeg, database
<1>9. TypeOK'
  BY <1>4, <1>5, <1>6, <1>7, <1>8 DEF Typed, TypeOK, UnitsTyped
<1>10. BookInHand'
  BY <1>8 DEF Typed, BookInHand
<1>11. LegsPlaced'
  BY <1>1, <1>5, <1>8 DEF Typed, LegsPlaced, First
<1> QED
  BY <1>9, <1>10, <1>11 DEF Typed

LEMMA SkipLegTyped ==
  ASSUME Typed, NEW w \in Workers, NEW l \in Legs, SkipLeg(w, l)
  PROVE  Typed'
<1>1. err' \in [Workers -> BOOLEAN]
  BY DEF SkipLeg, Typed, TypeOK
<1>2. todo' \in [Workers -> SUBSET Legs]
  BY DEF SkipLeg, Typed, TypeOK
<1>3. UNCHANGED <<sst, pst, gone, venue, pc, book, local, plan, stray, adrift, opens, faults>>
  BY DEF SkipLeg, database
<1>4. TypeOK'
  BY <1>1, <1>2, <1>3 DEF Typed, TypeOK
<1>5. BookInHand' /\ LegsPlaced'
  BY <1>3 DEF Typed, BookInHand, LegsPlaced, First
<1> QED
  BY <1>4, <1>5 DEF Typed

LEMMA BreakCloseTyped ==
  ASSUME Typed, NEW w \in Workers, NEW l \in Legs, BreakClose(w, l)
  PROVE  Typed'
<1>1. book[w] \in Strategies
  BY DEF BreakClose, Typed, BookInHand, HeldStages
<1>2. WorkersTyped' /\ BookInHand' /\ LegsPlaced'
  BY ReleaseType DEF BreakClose
<1>3. adrift' \in SUBSET Strategies
  BY <1>1 DEF BreakClose, Typed, TypeOK
<1>4. UNCHANGED <<sst, pst, gone, venue, plan, stray, opens, faults>>
  BY DEF BreakClose, database
<1> QED
  BY <1>2, <1>3, <1>4 DEF Typed, TypeOK, WorkersTyped, Stages

LEMMA AbortTyped ==
  ASSUME Typed, NEW w \in Workers, Abort(w)
  PROVE  Typed'
<1>1. book[w] \in Strategies
  BY DEF Abort, Typed, TypeOK
<1>2. WorkersTyped' /\ BookInHand' /\ LegsPlaced'
  BY LeaveType DEF Abort
<1>3. stray' \in [Markets -> Nat]
  <2>1. {w} \in SUBSET Workers
    OBVIOUS
  <2> QED
    BY <2>1, AbandonedType DEF Abort, Typed
<1>4. /\ adrift' \in SUBSET Strategies
      /\ faults' \in 0 .. MaxFaults
      /\ plan' \in [Workers -> SUBSET Strategies]
  BY <1>1, BookAssumption DEF Abort, Typed, TypeOK
<1>5. UNCHANGED <<sst, pst, gone, venue, opens>>
  BY DEF Abort, database
<1> QED
  BY <1>2, <1>3, <1>4, <1>5 DEF Typed, TypeOK, WorkersTyped, Stages

LEMMA CrashTyped ==
  ASSUME Typed, Crash
  PROVE  Typed'
<1>1. stray' \in [Markets -> Nat]
  BY AbandonedType DEF Crash, Typed
<1>2. adrift' \in SUBSET Strategies
  BY DEF Crash, Typed, TypeOK
<1>3. faults' \in 0 .. MaxFaults
  BY BookAssumption DEF Crash, Typed, TypeOK
<1>4. /\ pc' \in [Workers -> Stages] /\ \A w \in Workers : pc'[w] = "idle"
      /\ book' \in [Workers -> Strategies \cup {NoStrategy}]
      /\ todo' \in [Workers -> SUBSET Legs]
      /\ local' \in [Workers -> [Legs -> Statuses \cup {"kept"}]]
      /\ err' \in [Workers -> BOOLEAN]
      /\ plan' \in [Workers -> SUBSET Strategies]
  BY DEF Crash, Stages, Kept
<1>5. UNCHANGED <<sst, pst, gone, venue, opens>>
  BY DEF Crash, database
<1>6. TypeOK'
  BY <1>1, <1>2, <1>3, <1>4, <1>5 DEF Typed, TypeOK, Stages
<1>7. BookInHand' /\ LegsPlaced'
  BY <1>4 DEF BookInHand, LegsPlaced, HeldStages
<1> QED
  BY <1>6, <1>7 DEF Typed

LEMMA NextTyped == Typed /\ [Next]_vars => Typed'
<1> SUFFICES ASSUME Typed, [Next]_vars PROVE Typed'
  OBVIOUS
<1>1. ASSUME NEW w \in Workers, OpenStep(w)
      PROVE  Typed'
  BY <1>1, OpenBeginTyped, PlaceTyped, ReportSpotTyped, ReportCrossTyped,
     ReportErrorTyped, UnwindTyped, SettleTyped
  DEF OpenStep
<1>2. ASSUME NEW w \in Workers, CloseStep(w)
      PROVE  Typed'
  BY <1>2, LookTyped, CloseBeginTyped, CloseEndTyped, CloseLegTyped, SkipLegTyped,
     BreakCloseTyped
  DEF CloseStep
<1>3. ASSUME NEW m \in Markets, DeleteExchange(m)
      PROVE  Typed'
  BY <1>3 DEF DeleteExchange, locals, Typed, TypeOK, BookInHand, LegsPlaced, First
<1>4. CASE UNCHANGED vars
  BY <1>4 DEF vars, database, locals, Typed, TypeOK, BookInHand, LegsPlaced, First
<1> QED
  BY <1>1, <1>2, <1>3, <1>4, AbortTyped, CrashTyped, LookTyped DEF Next

(* Every reachable state is well typed.  In particular no sequence of opens, *)
(* overlapping closes and failures leaves a market with less than nothing:   *)
(* the order variants of close_hedge_position and the second order of        *)
(* close_position and close_spot_position never turn a position around.      *)
THEOREM BookTypeCorrect == Spec => []TypeOK
<1>1. Typed => TypeOK
  BY DEF Typed
<1> QED
  BY InitTyped, NextTyped, <1>1, PTL DEF Spec

-----------------------------------------------------------------------------
(* No strategy is left "closing".                                          *)

(* What a step of worker w may do to the statuses: turn a strategy "closing" *)
(* only as its closer, and let go of one that stays so only by dying.        *)
KeepsCloser(w) ==
  /\ Stands(w)
  /\ adrift \subseteq adrift'
  /\ \A k \in Strategies : sst'[k] = "closing" =>
       \/ sst[k] = "closing" /\ ~(book[w] = k /\ pc[w] = "closing")
       \/ k \in adrift'
       \/ book'[w] = k /\ pc'[w] = "closing"

LEMMA CloserKept ==
  ASSUME ClosingHasCloser, NEW w \in Workers, KeepsCloser(w)
  PROVE  ClosingHasCloser'
BY DEF ClosingHasCloser, KeepsCloser, Stands

LEMMA OpenKeepsCloser ==
  ASSUME Typed, NEW w \in Workers, OpenStep(w)
  PROVE  KeepsCloser(w)
<1>1. ASSUME NEW k \in Strategies, OpenBegin(w, k)
      PROVE  KeepsCloser(w)
  BY <1>1 DEF OpenBegin, KeepsCloser, Stands, Typed, TypeOK, database
<1>2. CASE Place(w)
  BY <1>2 DEF Place, KeepsCloser, Stands, Typed, TypeOK, database
<1>3. CASE ReportSpot(w)
  BY <1>3, ReleaseType DEF ReportSpot, KeepsCloser, Typed, TypeOK
<1>4. CASE ReportCross(w)
  BY <1>4, ReleaseType DEF ReportCross, KeepsCloser, database
<1>5. CASE ReportError(w)
  BY <1>5 DEF ReportError, KeepsCloser, Stands, Typed, TypeOK
<1>6. CASE Unwind(w)
  BY <1>6 DEF Unwind, KeepsCloser, Stands, database
<1>7. CASE Settle(w)
  <2>1. \A k \in Strategies : sst'[k] = "closing" => sst[k] = "closing"
    BY <1>7 DEF Settle, Typed, TypeOK
  <2> QED
    BY <1>7, <2>1, ReleaseType DEF Settle, KeepsCloser
<1> QED
  BY <1>1, <1>2, <1>3, <1>4, <1>5, <1>6, <1>7 DEF OpenStep

LEMMA CloseKeepsCloser ==
  ASSUME Typed, NEW w \in Workers, CloseStep(w)
  PROVE  KeepsCloser(w)
<1>1. ASSUME NEW k \in Strategies, CloseCheck(w, k)
      PROVE  KeepsCloser(w)
  BY <1>1 DEF CloseCheck, KeepsCloser, Stands, Typed, TypeOK, database
<1>2. ASSUME NEW k \in Strategies, CloseBegin(w, k)
      PROVE  KeepsCloser(w)
  BY <1>2 DEF CloseBegin, Chosen, KeepsCloser, Stands, Typed, TypeOK
<1>3. CASE CloseEnd(w)
  <2>1. \A k \in Strategies : sst'[k] = "closing" => sst[k] = "closing" /\ k # book[w]
    BY <1>3 DEF CloseEnd, Typed, TypeOK
  <2> QED
    BY <1>3, <2>1, ReleaseType DEF CloseEnd, KeepsCloser
<1>4. CASE EndPass(w)
  BY <1>4 DEF EndPass, KeepsCloser, Stands, Typed, TypeOK, database
<1>5. ASSUME NEW l \in Legs, CloseLeg(w, l) \/ SkipLeg(w, l)
      PROVE  KeepsCloser(w)
  BY <1>5 DEF CloseLeg, SkipLeg, KeepsCloser, Stands, database
<1>6. ASSUME NEW l \in Legs, BreakClose(w, l)
      PROVE  KeepsCloser(w)
  BY <1>6, ReleaseType DEF BreakClose, KeepsCloser, database
<1> QED
  BY <1>1, <1>2, <1>3, <1>4, <1>5, <1>6 DEF CloseStep

LEMMA NextKeepsCloser ==
  Typed /\ ClosingHasCloser /\ [Next]_vars => ClosingHasCloser'
<1> SUFFICES ASSUME Typed, ClosingHasCloser, [Next]_vars PROVE ClosingHasCloser'
  OBVIOUS
<1>1. ASSUME NEW w \in Workers, OpenStep(w) \/ CloseStep(w)
      PROVE  ClosingHasCloser'
  BY <1>1, OpenKeepsCloser, CloseKeepsCloser, CloserKept
<1>2. ASSUME NEW w \in Workers, Abort(w)
      PROVE  ClosingHasCloser'
  <2>1. KeepsCloser(w)
    BY <1>2, LeaveType DEF Abort, KeepsCloser, database
  <2> QED
    BY <2>1, CloserKept
<1>3. CASE Crash
  <2>1. UNCHANGED sst /\ adrift \subseteq adrift'
    BY <1>3 DEF Crash, database
  <2>2. ASSUME NEW k \in Strategies, NEW w \in Workers, book[w] = k
        PROVE  k \in adrift'
    BY <1>3, <2>2, BookAssumption DEF Crash
  <2> QED
    BY <2>1, <2>2 DEF ClosingHasCloser
<1>4. CASE StartRisk \/ StartAuto
  <2>1. PICK w \in Workers : KeepsCloser(w)
    BY <1>4 DEF StartRisk, StartAuto, KeepsCloser, Stands, Typed, TypeOK, database, Workers
  <2> QED
    BY <2>1, CloserKept
<1>5. ASSUME NEW m \in Markets, DeleteExchange(m)
      PROVE  ClosingHasCloser'
  BY <1>5 DEF DeleteExchange, locals, ClosingHasCloser
<1>6. CASE UNCHANGED vars
  BY <1>6 DEF vars, database, locals, ClosingHasCloser
<1> QED
  BY <1>1, <1>2, <1>3, <1>4, <1>5, <1>6 DEF Next

(* Whatever closes overlap and whatever calls fail, a strategy found         *)
(* "closing" with no closer at work is one whose closer died: every other    *)
(* path through the close methods ends by writing a final status.            *)
THEOREM ClosingIsAttended == Spec => []ClosingHasCloser
<1>1. Init => ClosingHasCloser
  BY DEF Init, ClosingHasCloser
<1> QED
  BY <1>1, InitTyped, NextTyped, NextKeepsCloser, PTL DEF Spec

-----------------------------------------------------------------------------
(* Without failures, the first pair on a symbol is hedged.                 *)

Opening == {"first", "second", "report"}

(* As long as nothing fails, an opener has filled every leg it tried and is   *)
(* alone with a strategy that has no row yet; a closer works on one that has. *)
WorkerOrderly(w) ==
  /\ pc[w] # "unwind"
  /\ pc[w] \in {"idle", "pick"} \cup Opening => ~err[w]
  /\ pc[w] \in {"idle", "pick", "checked", "first"} => local[w] = Kept
  /\ pc[w] = "second" => local[w][First(book[w])] = "open"
  /\ pc[w] = "report" => \A l \in Legs : local[w][l] = "open"
  /\ pc[w] = "closing" => \A l \in Legs : local[w][l] # "open"
  /\ pc[w] \in Opening => /\ sst[book[w]] = "none"
                          /\ \A v \in Workers \ {w} : book[v] # book[w]
  /\ pc[w] \in {"checked", "closing"} => sst[book[w]] # "none"
  /\ \A k \in plan[w] : sst[k] # "none"
NoCrossRow == \A k \in Strategies \ Spots : sst[k] = "none"
Orderly == NoCrossRow /\ \A w \in Workers : WorkerOrderly(w)

(* What is held for the first strategy on its symbol: the legs its opener has *)
(* filled, and its open rows unless a closer has written otherwise in its     *)
(* session.                                                                   *)
Alone(k) == \A q \in Strategies \ {k} : SymbolOf[q] = SymbolOf[k] => sst[q] = "none"
Filled(w, k, l) == book[w] = k /\ pc[w] \in {"second", "report"} /\ local[w][l] = "open"
Dropped(w, k, l) == book[w] = k /\ pc[w] = "closing" /\ local[w][l] # "kept"
HeldFor(k) ==
  \A l \in Legs :
    /\ (\E w \in Workers : Filled(w, k, l)) => venue[Market(k, l)] > 0
    /\ pst[k][l] = "open" =>
         venue[Market(k, l)] > 0 \/ \E w \in Workers : Dropped(w, k, l)
FirstHeld == \A k \in Strategies : Alone(k) => HeldFor(k)

Sound == faults = 0 => Orderly /\ FirstHeld

(* A step of worker w that gives no strategy a row but its own, and takes     *)
(* none in hand that an opener has.                                           *)
Apart(w) ==
  /\ Stands(w)
  /\ \A v \in Workers \ {w} : local'[v] = local[v] /\ err'[v] = err[v] /\ plan'[v] = plan[v]
  /\ \A k \in Strategies : sst[k] # "none" => sst'[k] # "none"
  /\ \A k \in Strategies : sst'[k] # "none" => sst[k] # "none" \/ k = book[w]
  /\ \/ book'[w] \in {book[w], NoStrategy}
     \/ sst[book'[w]] # "none"
     \/ \A v \in Workers : book[v] # book'[w]

LEMMA OthersOrderly ==
  ASSUME Typed, Orderly, NEW w \in Workers, Apart(w), WorkerOrderly(w)', NoCrossRow'
  PROVE  Orderly'
<1> SUFFICES ASSUME NEW v \in Workers, v # w PROVE WorkerOrderly(v)'
  BY DEF Orderly
<1>1. /\ pc'[v] = pc[v] /\ book'[v] = book[v] /\ local'[v] = local[v]
      /\ err'[v] = err[v] /\ plan'[v] = plan[v]
  BY DEF Apart, Stands
<1>2. WorkerOrderly(v)
  BY DEF Orderly
<1>3. pc[v] \in HeldStages => book[v] \in Strategies
  BY DEF Typed, BookInHand
<1>4. plan[v] \subseteq Strategies
  BY DEF Typed, TypeOK
<1>5. ASSUME pc[v] \in Opening
      PROVE  sst'[book[v]] = "none" /\ \A u \in Workers \ {v} : book'[u] # book[v]
  <2>1. book[v] \in Strategies /\ book[v] # NoStrategy
    BY <1>3, <1>5, BookAssumption DEF Opening, HeldStages
  <2>2. sst[book[v]] = "none" /\ \A u \in Workers \ {v} : book[u] # book[v]
    BY <1>2, <1>5 DEF WorkerOrderly
  <2>3. sst'[book[v]] = "none"
    BY <2>1, <2>2 DEF Apart
  <2>4. book'[w] # book[v]
    BY <2>1, <2>2 DEF Apart
  <2> QED
    BY <2>2, <2>3, <2>4 DEF Apart, Stands
<1>6. pc[v] \in {"checked", "closing"} => sst'[book[v]] # "none"
  BY <1>2, <1>3 DEF WorkerOrderly, HeldStages, Apart
<1>7. \A k \in plan[v] : sst'[k] # "none"
  BY <1>2, <1>4 DEF WorkerOrderly, Apart
<1>8. First(book[v])' = First(book[v])
  BY <1>1 DEF First
<1> QED
  BY <1>1, <1>2, <1>5, <1>6, <1>7, <1>8 DEF WorkerOrderly

(* A step of w that takes no unit, fills no leg, writes no open row and keeps *)
(* what the session of w has closed.                                          *)
LEMMA HeldCarried ==
  ASSUME Typed, FirstHeld, NEW w \in Workers, Apart(w), UNCHANGED venue,
         \A k \in Strategies, l \in Legs :
           /\ Filled(w, k, l)' => Filled(w, k, l)
           /\ pst'[k][l] = "open" => pst[k][l] = "open" /\ (Dropped(w, k, l) => Dropped(w, k, l)')
  PROVE  FirstHeld'
<1> SUFFICES ASSUME NEW k \in Strategies, Alone(k)', NEW l \in Legs
             PROVE  /\ (\E v \in Workers : Filled(v, k, l)') => venue[Market(k, l)] > 0
                    /\ pst'[k][l] = "open" =>
                         venue[Market(k, l)] > 0 \/ \E v \in Workers : Dropped(v, k, l)'
  BY DEF FirstHeld, HeldFor, Market
<1>1. HeldFor(k)
  BY DEF FirstHeld, Alone, Apart
<1>2. ASSUME NEW v \in Workers, v # w
      PROVE  /\ Filled(v, k, l)' => Filled(v, k, l)
             /\ Dropped(v, k, l) => Dropped(v, k, l)'
  BY <1>2 DEF Apart, Stands, Filled, Dropped
<1> QED
  BY <1>1, <1>2 DEF HeldFor

(* What is left of a strategy in the hands of a worker that let it go. *)
ReleasedBy(w) ==
  /\ pc'[w] \in {"idle", "pick"} /\ book'[w] = NoStrategy
  /\ local'[w] = Kept /\ ~err'[w]
  /\ \A v \in Workers \ {w} : local'[v] = local[v] /\ err'[v] = err[v]

LEMMA ReleaseClears ==
  ASSUME Typed, NEW w \in Workers, Release(w)
  PROVE  ReleasedBy(w) /\ Stands(w)
BY DEF Release, Leave, ReleasedBy, Stands, Typed, TypeOK

LEMMA InitSound == Init => Sound
BY DEF Init, Sound, Orderly, NoCrossRow, WorkerOrderly, FirstHeld, HeldFor, Filled, Dropped,
       Opening, Kept, NoLegs

LEMMA OpenBeginSound ==
  ASSUME Typed, Orderly, FirstHeld, NEW w \in Workers, NEW k \in Strategies, OpenBegin(w, k)
  PROVE  Orderly' /\ FirstHeld'
<1>1. /\ pc'[w] = "first" /\ book'[w] = k /\ sst[k] = "none" /\ pc[w] \in {"idle", "pick"}
      /\ \A v \in Workers : book[v] # k
      /\ UNCHANGED <<sst, pst, venue, local, err, plan>>
  BY DEF OpenBegin, database, Typed, TypeOK
<1>2. Stands(w)
  BY DEF OpenBegin, Stands, Typed, TypeOK
<1>3. Apart(w)
  BY <1>1, <1>2 DEF Apart
<1>4. WorkerOrderly(w)' /\ NoCrossRow'
  BY <1>1, <1>2 DEF Orderly, NoCrossRow, WorkerOrderly, Stands, Opening
<1>5. FirstHeld'
  BY <1>1, <1>3, HeldCarried DEF Filled, Dropped
<1> QED
  BY <1>3, <1>4, <1>5, OthersOrderly

LEMMA PlaceSound ==
  ASSUME Typed, Orderly, FirstHeld, faults' = 0, NEW w \in Workers, Place(w)
  PROVE  Orderly' /\ FirstHeld'
<1> DEFINE k == book[w]
           l == PlacedLeg(w)
           m == Market(k, l)
<1>1. /\ pc[w] \in {"first", "second"} /\ k \in Strategies
      /\ UNCHANGED <<sst, pst, book, plan>>
  BY DEF Place, Typed, BookInHand, HeldStages, database
<1>2. l \in Legs /\ m \in Markets
  <2>1. l \in Legs
    BY DEF PlacedLeg, First, Second, Legs
  <2> QED
    BY <1>1, <2>1, MarketType
<1>3. PICK o \in PlaceOutcomes(m) :
        /\ faults' = faults + o.f
        /\ venue' = [venue EXCEPT ![m] = @ + o.n]
        /\ IF ~o.ok /\ k \in Spots /\ pc[w] = "first"
           THEN /\ local' = [local EXCEPT ![w] = [x \in Legs |-> "error"]]
                /\ pc' = [pc EXCEPT ![w] = "report"]
           ELSE /\ local' = [local EXCEPT ![w][l] = IF o.ok THEN "open" ELSE "error"]
                /\ pc' = [pc EXCEPT ![w] = IF @ = "first" THEN "second" ELSE "report"]
        /\ err' = [err EXCEPT ![w] = @ \/ ~o.ok]
  BY DEF Place
<1>4. o.n \in Nat /\ o.n >= 1 /\ o.ok = TRUE
  <2>1. o.f = 0
    BY <1>2, <1>3, PlaceOutcomeType DEF Typed, TypeOK
  <2>2. o.ok
    BY <2>1 DEF PlaceOutcomes
  <2> QED
    BY <1>2, <2>2, PlaceOutcomeType
<1> HIDE DEF k, l, m
<1>5. /\ pc'[w] = IF pc[w] = "first" THEN "second" ELSE "report"
      /\ local'[w] = [local[w] EXCEPT ![l] = "open"]
      /\ err'[w] = err[w] /\ Stands(w)
      /\ \A v \in Workers \ {w} : local'[v] = local[v] /\ err'[v] = err[v]
  BY <1>1, <1>3, <1>4 DEF Stands, Typed, TypeOK
<1>6. \A n \in Markets : /\ venue[n] > 0 => venue'[n] > 0
                         /\ n = m => venue'[n] > 0
  <2> SUFFICES ASSUME NEW n \in Markets
               PROVE  (venue[n] > 0 => venue'[n] > 0) /\ (n = m => venue'[n] > 0)
    OBVIOUS
  <2>1. venue \in [Markets -> Nat]
    BY DEF Typed, TypeOK
  <2>2. venue'[n] = IF n = m THEN venue[n] + o.n ELSE venue[n]
    BY <1>3, <2>1
  <2>3. venue[n] \in Nat
    BY <2>1
  <2> QED
    BY <1>4, <2>2, <2>3
<1>7. Apart(w)
  BY <1>1, <1>5 DEF Apart
<1>8. WorkerOrderly(w)' /\ NoCrossRow'
  <2>1. WorkerOrderly(w) /\ local[w] \in [Legs -> Statuses \cup {"kept"}]
    BY DEF Orderly, Typed, TypeOK
  <2>2. sst[k] = "none" /\ \A v \in Workers \ {w} : book[v] # k
    BY <1>1, <2>1 DEF WorkerOrderly, Opening, k
  <2>3. CASE pc[w] = "first"
    <3>1. l = First(k)
      BY <2>3 DEF l, k, PlacedLeg
    <3> QED
      BY <1>1, <1>2, <1>5, <2>1, <2>2, <2>3, <3>1
      DEF WorkerOrderly, NoCrossRow, Orderly, Opening, k, First
  <2>4. CASE pc[w] = "second"
    <3>1. l = Second(k) /\ local[w][First(k)] = "open"
      BY <2>1, <2>4 DEF l, k, PlacedLeg, WorkerOrderly
    <3>2. \A x \in Legs : local'[w][x] = "open"
      BY <1>2, <1>5, <2>1, <3>1 DEF First, Second, Legs
    <3> QED
      BY <1>1, <1>5, <2>1, <2>2, <2>4, <3>2
      DEF WorkerOrderly, NoCrossRow, Orderly, Opening, k
  <2> QED
    BY <1>1, <2>3, <2>4
<1>9. FirstHeld'
  <2> SUFFICES ASSUME NEW q \in Strategies, Alone(q)', NEW x \in Legs
               PROVE  /\ (\E v \in Workers : Filled(v, q, x)') => venue'[Market(q, x)] > 0
                      /\ pst[q][x] = "open" =>
                           venue'[Market(q, x)] > 0 \/ \E v \in Workers : Dropped(v, q, x)'
    BY <1>1 DEF FirstHeld, HeldFor, Market
  <2>1. HeldFor(q) /\ Market(q, x) \in Markets
    BY <1>1, MarketType DEF FirstHeld, Alone
  <2>2. venue[Market(q, x)] > 0 => venue'[Market(q, x)] > 0
    BY <1>6, <2>1
  <2>3. ASSUME NEW v \in Workers, Filled(v, q, x)' PROVE venue'[Market(q, x)] > 0
    <3>1. CASE v = w /\ x = l
      <4>1. Market(q, x) = m
        BY <1>1, <2>3, <3>1 DEF Filled, m, k
      <4> QED
        BY <1>6, <2>1, <4>1
    <3>2. CASE v = w /\ x # l
      <4>1. local[w][x] = "open" /\ pc[w] \in {"first", "second"} /\ book[w] = q
        BY <1>1, <1>5, <2>3, <3>2 DEF Filled, Typed, TypeOK
      <4>2. pc[w] = "second"
        BY <4>1 DEF Orderly, WorkerOrderly, Kept
      <4> QED
        BY <2>1, <2>2, <4>1, <4>2 DEF HeldFor, Filled
    <3>3. CASE v # w
      BY <1>1, <1>5, <2>1, <2>2, <2>3, <3>3 DEF HeldFor, Filled, Stands
    <3> QED
      BY <3>1, <3>2, <3>3
  <2>4. ASSUME NEW v \in Workers, Dropped(v, q, x) PROVE Dropped(v, q, x)'
    BY <1>1, <1>5, <2>4 DEF Dropped, Stands
  <2> QED
    BY <1>1, <2>1, <2>2, <2>3, <2>4 DEF HeldFor
<1> QED
  BY <1>7, <1>8, <1>9, OthersOrderly

LEMMA ReportSpotSound ==
  ASSUME Typed, Orderly, FirstHeld, NEW w \in Workers, ReportSpot(w)
  PROVE  Orderly' /\ FirstHeld'
<1> DEFINE k == book[w]
<1>1. /\ pc[w] = "report" /\ k \in Spots /\ k \in Strategies /\ k # NoStrategy
      /\ sst' = [sst EXCEPT ![k] = "active"]
      /\ pst' = [pst EXCEPT ![k] = local[w]]
      /\ Release(w) /\ UNCHANGED <<venue, plan>>
  BY BookAssumption DEF ReportSpot
<1> HIDE DEF k
<1>2. ReleasedBy(w) /\ Stands(w)
  BY <1>1, ReleaseClears
<1>3. Apart(w)
  BY <1>1, <1>2 DEF Apart, ReleasedBy, k, Typed, TypeOK
<1>4. WorkerOrderly(w)' /\ NoCrossRow'
  BY <1>1, <1>2 DEF WorkerOrderly, NoCrossRow, Orderly, Opening, ReleasedBy, Typed, TypeOK
<1>5. FirstHeld'
  <2> SUFFICES ASSUME NEW q \in Strategies, Alone(q)', NEW x \in Legs
               PROVE  /\ (\E v \in Workers : Filled(v, q, x)') => venue[Market(q, x)] > 0
                      /\ pst'[q][x] = "open" =>
                           venue[Market(q, x)] > 0 \/ \E v \in Workers : Dropped(v, q, x)'
    BY <1>1 DEF FirstHeld, HeldFor, Market
  <2>1. HeldFor(q)
    BY <1>3 DEF FirstHeld, Alone, Apart
  <2>2. \A v \in Workers : /\ Filled(v, q, x)' => Filled(v, q, x)
                           /\ Dropped(v, q, x) => Dropped(v, q, x)'
    BY <1>1, <1>2, <1>3 DEF Filled, Dropped, Apart, Stands, ReleasedBy
  <2>3. CASE q = k
    <3>1. Filled(w, q, x)
      BY <1>1, <2>3 DEF Filled, Orderly, WorkerOrderly, k
    <3> QED
      BY <2>1, <3>1 DEF HeldFor
  <2>4. CASE q # k
    <3>1. pst'[q] = pst[q]
      BY <1>1, <2>4 DEF Typed, TypeOK
    <3> QED
      BY <2>1, <2>2, <3>1 DEF HeldFor
  <2> QED
    BY <2>3, <2>4
<1> QED
  BY <1>3, <1>4, <1>5, OthersOrderly

LEMMA ReportCrossSound ==
  ASSUME Typed, Orderly, FirstHeld, NEW w \in Workers, ReportCross(w)
  PROVE  Orderly' /\ FirstHeld'
<1>1. pc[w] = "report" /\ Release(w) /\ UNCHANGED <<sst, pst, venue, plan>>
  BY DEF ReportCross, database
<1>2. ReleasedBy(w) /\ Stands(w)
  BY <1>1, ReleaseClears
<1>3. Apart(w)
  BY <1>1, <1>2 DEF Apart, ReleasedBy
<1>4. WorkerOrderly(w)' /\ NoCrossRow'
  BY <1>1, <1>2 DEF WorkerOrderly, NoCrossRow, Orderly, Opening, ReleasedBy
<1>5. FirstHeld'
  BY <1>1, <1>2, <1>3, HeldCarried DEF Filled, Dropped, ReleasedBy
<1> QED
  BY <1>3, <1>4, <1>5, OthersOrderly

(* Reading the tables and choosing what to close. *)
LEMMA LookSound ==
  ASSUME Typed, Orderly, FirstHeld,
         \/ \E w \in Workers, k \in Strategies : CloseCheck(w, k)
         \/ \E w \in Workers : EndPass(w)
         \/ StartRisk \/ StartAuto
  PROVE  Orderly' /\ FirstHeld'
<1>1. PICK w \in Workers :
        \/ \E k \in Strategies : CloseCheck(w, k)
        \/ EndPass(w)
        \/ w = Risk /\ StartRisk
        \/ w = Engine /\ StartAuto
  BY DEF Workers
<1>2. UNCHANGED <<sst, pst, venue, local, err>>
  BY <1>1 DEF CloseCheck, EndPass, StartRisk, StartAuto, database
<1>3. /\ Stands(w) /\ \A v \in Workers \ {w} : plan'[v] = plan[v]
      /\ pc[w] \in {"idle", "pick"}
      /\ \/ pc'[w] = "checked" /\ sst[book'[w]] # "none" /\ plan'[w] = plan[w]
         \/ /\ pc'[w] \in {"idle", "pick"} /\ book'[w] = book[w]
            /\ \A k \in plan'[w] : sst[k] # "none"
  <2>1. ASSUME NEW k \in Strategies, CloseCheck(w, k)
        PROVE  /\ Stands(w) /\ \A v \in Workers \ {w} : plan'[v] = plan[v]
               /\ pc[w] = "idle" /\ pc'[w] = "checked"
               /\ sst[book'[w]] # "none" /\ plan'[w] = plan[w]
    BY <2>1 DEF CloseCheck, Stands, Typed, TypeOK
  <2>2. CASE EndPass(w)
    BY <2>2 DEF EndPass, Stands, Typed, TypeOK
  <2>3. CASE w = Risk /\ StartRisk
    BY <2>3 DEF StartRisk, Stands, Typed, TypeOK
  <2>4. CASE w = Engine /\ StartAuto
    BY <2>4 DEF StartAuto, Stands, Typed, TypeOK
  <2> QED
    BY <1>1, <2>1, <2>2, <2>3, <2>4
<1>4. Apart(w)
  BY <1>2, <1>3 DEF Apart
<1>5. WorkerOrderly(w)' /\ NoCrossRow'
  BY <1>2, <1>3 DEF WorkerOrderly, NoCrossRow, Orderly, Opening
<1>6. FirstHeld'
  BY <1>2, <1>3, <1>4, HeldCarried DEF Filled, Dropped
<1> QED
  BY <1>4, <1>5, <1>6, OthersOrderly

LEMMA CloseBeginSound ==
  ASSUME Typed, Orderly, FirstHeld, NEW w \in Workers, NEW k \in Strategies, CloseBegin(w, k)
  PROVE  Orderly' /\ FirstHeld'
<1>1. /\ pc[w] \in {"checked", "pick"} /\ sst[k] # "none"
      /\ sst' = [sst EXCEPT ![k] = "closing"]
      /\ pc'[w] = "closing" /\ book'[w] = k
      /\ UNCHANGED <<pst, venue, local, err>>
      /\ plan'[w] \subseteq plan[w] /\ plan[w] \subseteq Strategies
      /\ Stands(w) /\ \A v \in Workers \ {w} : plan'[v] = plan[v]
  BY DEF CloseBegin, Chosen, Stands, Orderly, WorkerOrderly, Typed, TypeOK
<1>2. Apart(w)
  BY <1>1 DEF Apart, Typed, TypeOK
<1>3. WorkerOrderly(w)' /\ NoCrossRow'
  BY <1>1 DEF WorkerOrderly, NoCrossRow, Orderly, Opening, Kept, Typed, TypeOK
<1>4. FirstHeld'
  BY <1>1, <1>2, HeldCarried DEF Filled, Dropped
<1> QED
  BY <1>2, <1>3, <1>4, OthersOrderly

(* Without a fault only the risk manager can fail to close a leg: its order   *)
(* finds the leg flat, which close_position does not take for a success.      *)
LEMMA FaultlessCall ==
  ASSUME Typed, NEW w \in Workers, NEW m \in Markets, NEW o \in CloseOutcomes(w, m),
         Call(m, o), faults' = 0
  PROVE  o.ok \/ w = Risk
<1>1. o.f = 0 /\ venue[m] \in Nat
  BY CloseOutcomeType DEF Call, Typed, TypeOK
<1>2. ASSUME NEW h \in Nat, o \in HedgeOutcomes(h) PROVE o.ok
  BY <1>1, <1>2 DEF HedgeOutcomes
<1>3. ASSUME NEW h \in Nat, o \in SweepOutcomes(h, TRUE) PROVE o.ok
  BY <1>1, <1>3 DEF SweepOutcomes, RestOutcomes
<1> QED
  BY <1>1, <1>2, <1>3 DEF CloseOutcomes

LEMMA CloseLegSound ==
  ASSUME Typed, Typed', Orderly, FirstHeld, faults' = 0,
         NEW w \in Workers, NEW l \in Legs, CloseLeg(w, l)
  PROVE  Orderly' /\ FirstHeld'
<1> DEFINE k == book[w]
           m == Market(k, l)
<1>1. /\ pc[w] = "closing" /\ k \in Strategies /\ m \in Markets
      /\ UNCHANGED <<sst, pst, pc, book, plan>>
  <2>1. k \in Strategies
    BY DEF CloseLeg, Typed, BookInHand, HeldStages
  <2> QED
    BY <2>1, MarketType DEF CloseLeg, database
<1>2. PICK o \in CloseOutcomes(w, m) :
        /\ Call(m, o)
        /\ local' = [local EXCEPT ![w][l] = LegAfter(w, o.ok)]
        /\ err' = [err EXCEPT ![w] = @ \/ ~o.ok]
  BY DEF CloseLeg
<1>3. LegAfter(w, o.ok) \in {"closed", "error"}
  BY <1>1, <1>2, FaultlessCall DEF LegAfter
<1>4. sst[k] # "none" /\ k \in Spots
  BY <1>1 DEF Orderly, NoCrossRow, WorkerOrderly
<1>5. /\ Stands(w) /\ \A v \in Workers \ {w} : local'[v] = local[v] /\ err'[v] = err[v]
      /\ local'[w] = [local[w] EXCEPT ![l] = LegAfter(w, o.ok)]
  BY <1>1, <1>2 DEF Stands, Typed, TypeOK
<1>6. local[w] \in [Legs -> Statuses \cup {"kept"}]
  BY DEF Typed, TypeOK
<1>7. venue' = [venue EXCEPT ![m] = @ - o.n]
  BY <1>2 DEF Call
<1> HIDE DEF k, m
<1>8. Apart(w)
  BY <1>1, <1>5 DEF Apart
<1>9. WorkerOrderly(w)' /\ NoCrossRow'
  BY <1>1, <1>3, <1>5, <1>6 DEF WorkerOrderly, NoCrossRow, Orderly, Opening
<1>10. FirstHeld'
  <2> SUFFICES ASSUME NEW q \in Strategies, Alone(q)', NEW x \in Legs
               PROVE  /\ (\E v \in Workers : Filled(v, q, x)') => venue'[Market(q, x)] > 0
                      /\ pst[q][x] = "open" =>
                           venue'[Market(q, x)] > 0 \/ \E v \in Workers : Dropped(v, q, x)'
    BY <1>1 DEF FirstHeld, HeldFor, Market
  <2>1. HeldFor(q) /\ Market(q, x) \in Markets /\ Alone(q)
    BY <1>1, MarketType DEF FirstHeld, Alone
  <2>2. \A v \in Workers : /\ Filled(v, q, x)' => Filled(v, q, x)
                           /\ Dropped(v, q, x) => Dropped(v, q, x)'
    BY <1>1, <1>3, <1>5, <1>6 DEF Filled, Dropped, Stands
  <2>3. CASE Market(q, x) # m
    <3>1. venue'[Market(q, x)] = venue[Market(q, x)]
      BY <1>1, <1>7, <2>1, <2>3 DEF Typed, TypeOK
    <3> QED
      BY <2>1, <2>2, <3>1 DEF HeldFor
  <2>4. CASE Market(q, x) = m
    <3>1. q = k
      BY <1>1, <1>4, <2>1, <2>4 DEF Market, m, Alone
    <3>2. x = l
      BY <1>4, <2>4, <3>1 DEF Market, m, Legs
    <3>3. Dropped(w, q, x)'
      BY <1>1, <1>3, <1>5, <1>6, <3>1, <3>2 DEF Dropped, k
    <3>4. ASSUME NEW v \in Workers, Filled(v, q, x) PROVE FALSE
      BY <1>4, <3>1, <3>4 DEF Filled, Orderly, WorkerOrderly, Opening
    <3> QED
      BY <2>2, <3>3, <3>4
  <2> QED
    BY <2>3, <2>4
<1> QED
  BY <1>8, <1>9, <1>10, OthersOrderly

LEMMA SkipLegSound ==
  ASSUME Typed, Orderly, FirstHeld, NEW w \in Workers, NEW l \in Legs, SkipLeg(w, l)
  PROVE  Orderly' /\ FirstHeld'
<1>1. /\ pc[w] = "closing" /\ UNCHANGED <<sst, pst, venue, pc, book, local, plan>>
      /\ \A v \in Workers \ {w} : err'[v] = err[v]
  BY DEF SkipLeg, database, Typed, TypeOK
<1>2. Apart(w)
  BY <1>1 DEF Apart, Stands
<1>3. WorkerOrderly(w)' /\ NoCrossRow'
  BY <1>1 DEF WorkerOrderly, NoCrossRow, Orderly, Opening
<1>4. FirstHeld'
  BY <1>1, <1>2, HeldCarried DEF Filled, Dropped
<1> QED
  BY <1>2, <1>3, <1>4, OthersOrderly

LEMMA CloseEndSound ==
  ASSUME Typed, Orderly, FirstHeld, NEW w \in Workers, CloseEnd(w)
  PROVE  Orderly' /\ FirstHeld'
<1> DEFINE k == book[w]
<1>1. /\ pc[w] = "closing" /\ k \in Strategies /\ k # NoStrategy
      /\ pst' = [pst EXCEPT ![k] = Flushed(@, local[w])]
      /\ Release(w) /\ UNCHANGED <<venue, plan>>
  BY BookAssumption DEF CloseEnd, Typed, BookInHand, HeldStages
<1>2. sst[k] # "none" /\ k \in Spots
  BY <1>1 DEF Orderly, NoCrossRow, WorkerOrderly
<1>3. \A q \in Strategies : (sst'[q] = "none") = (sst[q] = "none")
  BY <1>1, <1>2 DEF CloseEnd, Typed, TypeOK
<1> HIDE DEF k
<1>4. ReleasedBy(w) /\ Stands(w)
  BY <1>1, ReleaseClears
<1>5. Apart(w)
  BY <1>1, <1>3, <1>4 DEF Apart, ReleasedBy
<1>6. WorkerOrderly(w)' /\ NoCrossRow'
  <2>1. plan[w] \subseteq Strategies
    BY DEF Typed, TypeOK
  <2> QED
    BY <1>1, <1>3, <1>4, <2>1
    DEF WorkerOrderly, NoCrossRow, Orderly, Opening, ReleasedBy
<1>7. ASSUME NEW q \in Strategies, NEW x \in Legs, pst'[q][x] = "open"
      PROVE  pst[q][x] = "open" /\ ~Dropped(w, q, x)
  <2>1. CASE q = k
    BY <1>1, <1>7, <2>1
    DEF Flushed, Dropped, Orderly, WorkerOrderly, Typed, TypeOK
  <2>2. CASE q # k
    BY <1>1, <1>7, <2>2 DEF Dropped, k, Typed, TypeOK
  <2> QED
    BY <2>1, <2>2
<1>8. FirstHeld'
  BY <1>1, <1>4, <1>5, <1>7, HeldCarried DEF Filled, ReleasedBy
<1> QED
  BY <1>5, <1>6, <1>8, OthersOrderly

LEMMA NextSound ==
  ASSUME Typed, Typed', Sound, [Next]_vars
  PROVE  Sound'
<1> SUFFICES ASSUME faults' = 0
             PROVE  Orderly' /\ FirstHeld'
  BY DEF Sound
<1>1. ASSUME NEW w \in Workers, Abort(w) \/ Crash
      PROVE  FALSE
  BY <1>1 DEF Abort, Crash, Typed, TypeOK
<1>2. faults = 0
  <2>1. ASSUME NEW m \in Markets, NEW w \in Workers, NEW o \in CloseOutcomes(w, m), Call(m, o)
        PROVE  faults = 0
    BY <2>1, CloseOutcomeType DEF Call, Typed, TypeOK
  <2>2. ASSUME NEW w \in Workers, NEW l \in Legs, book[w] \in Strategies
        PROVE  Market(book[w], l) \in Markets
    BY <2>2, MarketType
  <2>3. ASSUME NEW w \in Workers, Place(w) PROVE faults = 0
    <3>1. book[w] \in Strategies /\ PlacedLeg(w) \in Legs
      BY <2>3 DEF Place, Typed, BookInHand, HeldStages, PlacedLeg, First, Second, Legs
    <3>2. \E o \in PlaceOutcomes(Market(book[w], PlacedLeg(w))) : faults' = faults + o.f
      BY <2>3 DEF Place
    <3> QED
      BY <2>2, <3>1, <3>2, PlaceOutcomeType DEF Typed, TypeOK
  <2>4. ASSUME NEW w \in Workers, NEW l \in Legs, CloseLeg(w, l) PROVE faults = 0
    <3>1. book[w] \in Strategies
      BY <2>4 DEF CloseLeg, Typed, BookInHand, HeldStages
    <3> QED
      BY <2>1, <2>2, <2>4, <3>1 DEF CloseLeg
  <2>5. ASSUME NEW w \in Workers, Unwind(w) PROVE faults = 0
    <3>1. book[w] \in Strategies
      BY <2>5 DEF Unwind, Typed, BookInHand, HeldStages
    <3>2. todo[w] \subseteq Legs
      BY DEF Typed, TypeOK
    <3> QED
      BY <2>1, <2>2, <2>5, <3>1, <3>2 DEF Unwind
  <2>6. ASSUME NEW w \in Workers, OpenStep(w) PROVE faults = 0
    BY <2>3, <2>5, <2>6 DEF OpenStep, OpenBegin, ReportSpot, ReportCross, ReportError, Settle
  <2>7. ASSUME NEW w \in Workers, CloseStep(w) PROVE faults = 0
    BY <2>4, <2>7 DEF CloseStep, CloseCheck, CloseBegin, CloseEnd, EndPass, SkipLeg, BreakClose
  <2> QED
    BY <1>1, <2>6, <2>7
    DEF Next, StartRisk, StartAuto, DeleteExchange, vars, Workers
<1>3. Orderly /\ FirstHeld
  BY <1>2 DEF Sound
<1>4. ASSUME NEW w \in Workers, ReportError(w) \/ Unwind(w) \/ Settle(w)
      PROVE  FALSE
  BY <1>3, <1>4 DEF Orderly, WorkerOrderly, Opening, ReportError, Unwind, Settle
<1>5. ASSUME NEW w \in Workers, NEW l \in Legs, BreakClose(w, l)
      PROVE  FALSE
  <2>1. pc[w] = "closing" /\ book[w] \in Strategies \ Spots
    BY <1>5 DEF BreakClose, Typed, BookInHand, HeldStages
  <2> QED
    BY <1>3, <2>1 DEF Orderly, NoCrossRow, WorkerOrderly
<1>6. ASSUME NEW w \in Workers, OpenStep(w) PROVE Orderly' /\ FirstHeld'
  BY <1>3, <1>4, <1>6, OpenBeginSound, PlaceSound, ReportSpotSound, ReportCrossSound
  DEF OpenStep
<1>7. ASSUME NEW w \in Workers, CloseStep(w) PROVE Orderly' /\ FirstHeld'
  BY <1>3, <1>5, <1>7, LookSound, CloseBeginSound, CloseEndSound, CloseLegSound, SkipLegSound
  DEF CloseStep
<1>8. ASSUME UNCHANGED <<sst, pst, venue, pc, book, local, err, plan>>
      PROVE  Orderly' /\ FirstHeld'
  BY <1>3, <1>8
  DEF Orderly, NoCrossRow, WorkerOrderly, First, FirstHeld, HeldFor, Alone, Filled, Dropped, Market
<1> QED
  BY <1>1, <1>3, <1>6, <1>7, <1>8, LookSound
  DEF Next, DeleteExchange, locals, vars, database, Workers

(* However many threads close the first pair on a symbol at once, and whatever *)
(* exchange is deleted meanwhile: while no call fails, a pair the tables call  *)
(* active, with open rows and nobody at work on it, is hedged.                 *)
THEOREM FirstPairIsHedged == Spec => []FirstIsHeld
<1>1. Sound => FirstIsHeld
  BY DEF Sound, FirstHeld, HeldFor, Dropped, FirstIsHeld, ActiveIsHeld, Alone
<1> QED
  BY <1>1, InitTyped, NextTyped, InitSound, NextSound, PTL DEF Spec

-----------------------------------------------------------------------------
(* Whatever fails, exposure is on record.                                  *)
(*                                                                         *)
(* HeldIsPromised asks that somebody will still close what is held, which  *)
(* is too much after five failures.  What no number of failures takes away *)
(* is the row: a unit that is neither in flight nor was lost by an opener  *)
(* has a position that does not say it is closed.                          *)

(* A position that says its leg is or may be held, and that no session is   *)
(* about to write "closed" to.                                              *)
OnRow(k, l) ==
  pst[k][l] \in {"open", "error"} /\ \A w \in Workers : book[w] = k => local[w][l] # "closed"
Recorded(m) == {x \in Strategies \X Legs : Market(x[1], x[2]) = m /\ OnRow(x[1], x[2])}
Flying(m) ==
  {x \in Workers \X Legs : /\ pc[x[1]] \in {"second", "report"}
                           /\ local[x[1]][x[2]] = "open"
                           /\ Market(book[x[1]], x[2]) = m}
HeldIsRecorded ==
  \A m \in Markets : venue[m] <= Cardinality(Flying(m)) + stray[m] + Cardinality(Recorded(m))

(* A worker has uncommitted changes only to what it works on, an opener is    *)
(* alone with a strategy that has no row, and a closer works on one that has. *)
InOrder(w) ==
  /\ pc[w] \in {"idle", "pick", "checked", "first"} => local[w] = Kept
  /\ pc[w] = "second" => local[w][Second(book[w])] = "kept"
  /\ pc[w] \in Opening => /\ sst[book[w]] = "none"
                          /\ \A v \in Workers \ {w} : book[v] # book[w]
  /\ pc[w] \in {"checked", "closing", "unwind"} => sst[book[w]] # "none"
  /\ \A k \in plan[w] : sst[k] # "none"
NoRowYet == \A k \in Strategies : sst[k] = "none" => pst[k] = NoLegs
AllInOrder == NoRowYet /\ \A w \in Workers : InOrder(w)

OnTheBooks == AllInOrder /\ HeldIsRecorded

LEMMA InitOnTheBooks == Init => OnTheBooks
<1> SUFFICES ASSUME Init PROVE OnTheBooks
  OBVIOUS
<1>1. AllInOrder
  BY DEF Init, AllInOrder, NoRowYet, InOrder, Opening
<1>2. ASSUME NEW m \in Markets
      PROVE  venue[m] <= Cardinality(Flying(m)) + stray[m] + Cardinality(Recorded(m))
  <2>1. Flying(m) = {} /\ Recorded(m) = {}
    BY DEF Init, Flying, Recorded, OnRow, NoLegs
  <2> QED
    BY <2>1, FS_EmptySet DEF Init
<1> QED
  BY <1>1, <1>2 DEF OnTheBooks, HeldIsRecorded

(* Others are as they were in a step of w that is apart from them. *)
LEMMA OthersInOrder ==
  ASSUME Typed, AllInOrder, NEW w \in Workers, Apart(w), InOrder(w)', NoRowYet'
  PROVE  AllInOrder'
<1> SUFFICES ASSUME NEW v \in Workers, v # w PROVE InOrder(v)'
  BY DEF AllInOrder
<1>1. /\ pc'[v] = pc[v] /\ book'[v] = book[v] /\ local'[v] = local[v] /\ plan'[v] = plan[v]
  BY DEF Apart, Stands
<1>2. InOrder(v)
  BY DEF AllInOrder
<1>3. pc[v] \in HeldStages => book[v] \in Strategies
  BY DEF Typed, BookInHand
<1>4. plan[v] \subseteq Strategies
  BY DEF Typed, TypeOK
<1>5. ASSUME pc[v] \in Opening
      PROVE  sst'[book[v]] = "none" /\ \A u \in Workers \ {v} : book'[u] # book[v]
  <2>1. book[v] \in Strategies /\ book[v] # NoStrategy
    BY <1>3, <1>5, BookAssumption DEF Opening, HeldStages
  <2>2. sst[book[v]] = "none" /\ \A u \in Workers \ {v} : book[u] # book[v]
    BY <1>2, <1>5 DEF InOrder
  <2>3. sst'[book[v]] = "none"
    BY <2>1, <2>2 DEF Apart
  <2>4. book'[w] # book[v]
    BY <2>1, <2>2 DEF Apart
  <2> QED
    BY <2>2, <2>3, <2>4 DEF Apart, Stands
<1>6. pc[v] \in {"checked", "closing", "unwind"} => sst'[book[v]] # "none"
  BY <1>2, <1>3 DEF InOrder, HeldStages, Apart
<1>7. \A k \in plan[v] : sst'[k] # "none"
  BY <1>2, <1>4 DEF InOrder, Apart
<1>8. Second(book[v])' = Second(book[v])
  BY <1>1 DEF Second
<1> QED
  BY <1>1, <1>2, <1>5, <1>6, <1>7, <1>8 DEF InOrder

(* The counts. *)
LEMMA Counted ==
  ASSUME NEW m
  PROVE  /\ IsFiniteSet(Flying(m)) /\ IsFiniteSet(Flying(m)')
         /\ IsFiniteSet(Recorded(m)) /\ IsFiniteSet(Recorded(m)')
         /\ Cardinality(Flying(m)) \in Nat /\ Cardinality(Flying(m)') \in Nat
         /\ Cardinality(Recorded(m)) \in Nat /\ Cardinality(Recorded(m)') \in Nat
         /\ Flying(m) \subseteq Flying(m)' => Cardinality(Flying(m)) <= Cardinality(Flying(m)')
         /\ Recorded(m) \subseteq Recorded(m)' =>
              Cardinality(Recorded(m)) <= Cardinality(Recorded(m)')
<1>1. IsFiniteSet(Workers \X Legs) /\ IsFiniteSet(Strategies \X Legs)
  BY WorkersFinite, BookAssumption, FS_Product
<1>2. /\ Flying(m) \subseteq Workers \X Legs /\ Flying(m)' \subseteq Workers \X Legs
      /\ Recorded(m) \subseteq Strategies \X Legs /\ Recorded(m)' \subseteq Strategies \X Legs
  BY DEF Flying, Recorded
<1>3. /\ IsFiniteSet(Flying(m)) /\ IsFiniteSet(Flying(m)')
      /\ IsFiniteSet(Recorded(m)) /\ IsFiniteSet(Recorded(m)')
  BY <1>1, <1>2, FS_Subset
<1> QED
  BY <1>3, FS_CardinalityType, FS_Subset

(* A step that moves no unit. *)
LEMMA StillCovers ==
  ASSUME Typed, UNCHANGED <<venue, stray>>, NEW n \in Markets, Flying(n) \subseteq Flying(n)',
         NEW R, NEW Q, IsFiniteSet(R), IsFiniteSet(Q), R \subseteq Q,
         venue[n] <= Cardinality(Flying(n)) + stray[n] + Cardinality(R)
  PROVE  venue'[n] <= Cardinality(Flying(n)') + stray'[n] + Cardinality(Q)
<1>1. venue[n] \in Nat /\ stray[n] \in Nat
  BY DEF Typed, TypeOK
<1>2. Cardinality(R) <= Cardinality(Q) /\ Cardinality(R) \in Nat /\ Cardinality(Q) \in Nat
  BY FS_Subset, FS_CardinalityType
<1> QED
  BY <1>1, <1>2, Counted

(* A step that moves no unit and takes no mark away. *)
Wider(m) == Flying(m) \subseteq Flying(m)' /\ Recorded(m) \subseteq Recorded(m)'

LEMMA WiderKeeps ==
  ASSUME Typed, HeldIsRecorded, UNCHANGED <<venue, stray>>, \A m \in Markets : Wider(m)
  PROVE  HeldIsRecorded'
BY Counted, StillCovers DEF HeldIsRecorded, Wider

(* Only w can take a mark away. *)
Aside(w) == Stands(w) /\ \A v \in Workers \ {w} : local'[v] = local[v]

LEMMA RecordedKept ==
  ASSUME NEW w \in Workers, Aside(w), NEW m,
         \A k \in Strategies, l \in Legs : OnRow(k, l) =>
           pst'[k][l] \in {"open", "error"} /\ (book'[w] = k => local'[w][l] # "closed")
  PROVE  Recorded(m) \subseteq Recorded(m)'
<1> SUFFICES ASSUME NEW k \in Strategies, NEW l \in Legs, Market(k, l) = m, OnRow(k, l)
             PROVE  OnRow(k, l)'
  BY DEF Recorded, Market
<1> QED
  BY DEF OnRow, Aside, Stands

LEMMA FlyingKept ==
  ASSUME NEW w \in Workers, Aside(w), NEW m, pc[w] \notin {"second", "report"}
  PROVE  Flying(m) \subseteq Flying(m)'
BY DEF Flying, Aside, Stands, Market

LEMMA QuietKeeps ==
  ASSUME Typed, HeldIsRecorded, NEW w \in Workers, Aside(w), UNCHANGED <<venue, stray>>,
         pc[w] \notin {"second", "report"},
         \A k \in Strategies, l \in Legs : OnRow(k, l) =>
           pst'[k][l] \in {"open", "error"} /\ (book'[w] = k => local'[w][l] # "closed")
  PROVE  HeldIsRecorded'
BY RecordedKept, FlyingKept, WiderKeeps DEF Wider

LEMMA LookOnTheBooks ==
  ASSUME Typed, OnTheBooks,
         \/ \E w \in Workers, k \in Strategies : CloseCheck(w, k)
         \/ \E w \in Workers : EndPass(w)
         \/ StartRisk \/ StartAuto
  PROVE  OnTheBooks'
<1>1. PICK w \in Workers :
        \/ \E k \in Strategies : CloseCheck(w, k)
        \/ EndPass(w)
        \/ w = Risk /\ StartRisk
        \/ w = Engine /\ StartAuto
  BY DEF Workers
<1>2. UNCHANGED <<sst, pst, venue, stray, local, err>>
  BY <1>1 DEF CloseCheck, EndPass, StartRisk, StartAuto, database
<1>3. /\ Stands(w) /\ \A v \in Workers \ {w} : plan'[v] = plan[v]
      /\ pc[w] \in {"idle", "pick"}
      /\ \/ pc'[w] = "checked" /\ sst[book'[w]] # "none" /\ plan'[w] = plan[w]
         \/ /\ pc'[w] \in {"idle", "pick"} /\ book'[w] = book[w]
            /\ \A k \in plan'[w] : sst[k] # "none"
  <2>1. ASSUME NEW k \in Strategies, CloseCheck(w, k)
        PROVE  /\ Stands(w) /\ \A v \in Workers \ {w} : plan'[v] = plan[v]
               /\ pc[w] = "idle" /\ pc'[w] = "checked"
               /\ sst[book'[w]] # "none" /\ plan'[w] = plan[w]
    BY <2>1 DEF CloseCheck, Stands, Typed, TypeOK
  <2>2. CASE EndPass(w)
    BY <2>2 DEF EndPass, Stands, Typed, TypeOK
  <2>3. CASE w = Risk /\ StartRisk
    BY <2>3 DEF StartRisk, Stands, Typed, TypeOK
  <2>4. CASE w = Engine /\ StartAuto
    BY <2>4 DEF StartAuto, Stands, Typed, TypeOK
  <2> QED
    BY <1>1, <2>1, <2>2, <2>3, <2>4
<1>4. Apart(w)
  BY <1>2, <1>3 DEF Apart
<1>5. InOrder(w)' /\ NoRowYet'
  BY <1>2, <1>3 DEF InOrder, OnTheBooks, AllInOrder, NoRowYet, Opening
<1>6. local[w] = Kept
  BY <1>3 DEF OnTheBooks, AllInOrder, InOrder
<1>7. HeldIsRecorded'
  BY <1>2, <1>3, <1>6, QuietKeeps DEF OnTheBooks, Aside, Kept, OnRow
<1> QED
  BY <1>4, <1>5, <1>7, OthersInOrder DEF OnTheBooks

LEMMA OpenBeginOnTheBooks ==
  ASSUME Typed, OnTheBooks, NEW w \in Workers, NEW k \in Strategies, OpenBegin(w, k)
  PROVE  OnTheBooks'
<1>1. /\ pc'[w] = "first" /\ book'[w] = k /\ sst[k] = "none" /\ pc[w] \in {"idle", "pick"}
      /\ \A v \in Workers : book[v] # k
      /\ UNCHANGED <<sst, pst, venue, stray, local, err, plan>>
  BY DEF OpenBegin, database, Typed, TypeOK
<1>2. Stands(w)
  BY DEF OpenBegin, Stands, Typed, TypeOK
<1>3. Apart(w)
  BY <1>1, <1>2 DEF Apart
<1>4. local[w] = Kept
  BY <1>1 DEF OnTheBooks, AllInOrder, InOrder
<1>5. InOrder(w)' /\ NoRowYet'
  BY <1>1, <1>2, <1>4 DEF OnTheBooks, AllInOrder, NoRowYet, InOrder, Stands, Opening
<1>6. HeldIsRecorded'
  BY <1>1, <1>2, <1>4, QuietKeeps DEF OnTheBooks, Aside, Kept, OnRow
<1> QED
  BY <1>3, <1>5, <1>6, OthersInOrder DEF OnTheBooks

LEMMA CloseBeginOnTheBooks ==
  ASSUME Typed, OnTheBooks, NEW w \in Workers, NEW k \in Strategies, CloseBegin(w, k)
  PROVE  OnTheBooks'
<1>1. /\ pc[w] \in {"checked", "pick"} /\ sst[k] # "none" /\ local[w] = Kept
      /\ sst' = [sst EXCEPT ![k] = "closing"]
      /\ pc'[w] = "closing" /\ book'[w] = k
      /\ UNCHANGED <<pst, venue, stray, local, err>>
      /\ plan'[w] \subseteq plan[w] /\ plan[w] \subseteq Strategies
      /\ Stands(w) /\ \A v \in Workers \ {w} : plan'[v] = plan[v]
  BY DEF CloseBegin, Chosen, Stands, OnTheBooks, AllInOrder, InOrder, Typed, TypeOK
<1>2. Apart(w)
  BY <1>1 DEF Apart, Typed, TypeOK
<1>3. InOrder(w)' /\ NoRowYet'
  BY <1>1 DEF OnTheBooks, AllInOrder, NoRowYet, InOrder, Opening, Typed, TypeOK
<1>4. HeldIsRecorded'
  BY <1>1, QuietKeeps DEF OnTheBooks, Aside, Kept, OnRow
<1> QED
  BY <1>2, <1>3, <1>4, OthersInOrder DEF OnTheBooks

LEMMA SkipLegOnTheBooks ==
  ASSUME Typed, OnTheBooks, NEW w \in Workers, NEW l \in Legs, SkipLeg(w, l)
  PROVE  OnTheBooks'
<1>1. /\ pc[w] = "closing" /\ UNCHANGED <<sst, pst, venue, stray, pc, book, local, plan>>
      /\ \A v \in Workers \ {w} : err'[v] = err[v]
  BY DEF SkipLeg, database, Typed, TypeOK
<1>2. Apart(w)
  BY <1>1 DEF Apart, Stands
<1>3. InOrder(w)' /\ NoRowYet'
  BY <1>1 DEF OnTheBooks, AllInOrder, NoRowYet, InOrder, Opening, Second
<1>4. HeldIsRecorded'
  BY <1>1, QuietKeeps DEF OnTheBooks, Aside, Stands, OnRow
<1> QED
  BY <1>2, <1>3, <1>4, OthersInOrder DEF OnTheBooks

LEMMA BreakCloseOnTheBooks ==
  ASSUME Typed, OnTheBooks, NEW w \in Workers, NEW l \in Legs, BreakClose(w, l)
  PROVE  OnTheBooks'
<1>1. pc[w] = "closing" /\ Release(w) /\ UNCHANGED <<sst, pst, venue, stray, plan>>
  BY DEF BreakClose, database
<1>2. ReleasedBy(w) /\ Stands(w)
  BY <1>1, ReleaseClears
<1>3. Apart(w)
  BY <1>1, <1>2 DEF Apart, ReleasedBy
<1>4. InOrder(w)' /\ NoRowYet'
  BY <1>1, <1>2 DEF OnTheBooks, AllInOrder, NoRowYet, InOrder, Opening, ReleasedBy
<1>5. HeldIsRecorded'
  BY <1>1, <1>2, QuietKeeps DEF OnTheBooks, Aside, ReleasedBy, Kept, OnRow
<1> QED
  BY <1>3, <1>4, <1>5, OthersInOrder DEF OnTheBooks

(* The last commit of a close or of a failed open. *)
LEMMA FlushOnTheBooks ==
  ASSUME Typed, OnTheBooks, NEW w \in Workers, CloseEnd(w) \/ Settle(w)
  PROVE  OnTheBooks'
<1> DEFINE k == book[w]
<1>1. /\ pc[w] \in {"closing", "unwind"} /\ k \in Strategies /\ k # NoStrategy
      /\ pst' = [pst EXCEPT ![k] = Flushed(@, local[w])]
      /\ Release(w) /\ UNCHANGED <<venue, stray, plan>>
  BY BookAssumption DEF CloseEnd, Settle, Typed, BookInHand, HeldStages
<1>2. sst[k] # "none"
  BY <1>1 DEF OnTheBooks, AllInOrder, InOrder
<1>3. \A q \in Strategies : (sst'[q] = "none") = (sst[q] = "none")
  BY <1>1, <1>2 DEF CloseEnd, Settle, Typed, TypeOK
<1> HIDE DEF k
<1>4. ReleasedBy(w) /\ Stands(w)
  BY <1>1, ReleaseClears
<1>5. Apart(w)
  BY <1>1, <1>3, <1>4 DEF Apart, ReleasedBy
<1>6. InOrder(w)'
  <2>1. plan[w] \subseteq Strategies
    BY DEF Typed, TypeOK
  <2> QED
    BY <1>1, <1>3, <1>4, <2>1 DEF OnTheBooks, AllInOrder, InOrder, Opening, ReleasedBy
<1>7. NoRowYet'
  BY <1>1, <1>2, <1>3 DEF OnTheBooks, AllInOrder, NoRowYet, Typed, TypeOK
<1>8. ASSUME NEW q \in Strategies, NEW x \in Legs, OnRow(q, x)
      PROVE  pst'[q][x] \in {"open", "error"}
  <2>1. CASE q = k
    <3>1. local[w][x] # "closed" /\ local[w][x] \in Statuses \cup {"kept"}
      BY <1>8, <2>1 DEF OnRow, k, Typed, TypeOK
    <3>2. pst'[q][x] = IF local[w][x] = "kept" THEN pst[q][x] ELSE local[w][x]
      BY <1>1, <2>1 DEF Flushed, Typed, TypeOK
    <3> QED
      BY <1>8, <3>1, <3>2 DEF OnRow, Statuses
  <2>2. CASE q # k
    BY <1>1, <1>8, <2>2 DEF OnRow, Typed, TypeOK
  <2> QED
    BY <2>1, <2>2
<1>9. HeldIsRecorded'
  BY <1>1, <1>4, <1>8, QuietKeeps DEF OnTheBooks, Aside, ReleasedBy, Kept
<1> QED
  BY <1>5, <1>6, <1>7, <1>9, OthersInOrder DEF OnTheBooks

(* A call that closes a leg: when it says so, it has closed a unit or there  *)
(* was none, so that the market holds less by what the row gives up.         *)
LEMMA OkTakesAUnit ==
  ASSUME Typed, NEW w \in Workers, NEW m \in Markets, NEW o \in CloseOutcomes(w, m), o.ok
  PROVE  o.n >= 1 \/ venue[m] = 0
<1>1. venue[m] \in Nat
  BY DEF Typed, TypeOK
<1>2. ASSUME NEW h \in Nat, o \in HedgeOutcomes(h) PROVE o.n >= 1 \/ h = 0
  BY <1>2 DEF HedgeOutcomes
<1>3. ASSUME NEW h \in Nat, NEW spot \in BOOLEAN, o \in SweepOutcomes(h, spot)
      PROVE  o.n >= 1 \/ h = 0
  <2>1. CASE h > 0 /\ o \in RestOutcomes(h, 0, 1, spot)
    BY <2>1 DEF RestOutcomes
  <2>2. CASE h > 0 /\ o \in RestOutcomes(h, 1, 1, spot)
    BY <2>2 DEF RestOutcomes
  <2> QED
    BY <1>3, <2>1, <2>2 DEF SweepOutcomes
<1> QED
  BY <1>1, <1>2, <1>3 DEF CloseOutcomes

(* The sum of what is in flight, stray and on a set of rows still covers what *)
(* a market holds when R becomes Q: a call that says "ok" may take the row it *)
(* is about out of the set.                                                   *)
LEMMA CallCovers ==
  ASSUME Typed, NEW w \in Workers, Aside(w), pc[w] \notin {"second", "report"},
         NEW l \in Legs, book[w] \in Strategies,
         NEW o \in CloseOutcomes(w, Market(book[w], l)), Call(Market(book[w], l), o),
         NEW n \in Markets, NEW R, NEW Q, IsFiniteSet(R), IsFiniteSet(Q),
         venue[n] <= Cardinality(Flying(n)) + stray[n] + Cardinality(R),
         R \ {<<book[w], l>>} \subseteq Q,
         \/ n = Market(book[w], l) /\ (o.ok \/ venue'[n] = 0)
         \/ R \subseteq Q
  PROVE  venue'[n] <= Cardinality(Flying(n)') + stray'[n] + Cardinality(Q)
<1> DEFINE k == book[w]
           m == Market(k, l)
<1>1. m \in Markets
  BY MarketType
<1>2. /\ o.n \in Nat /\ o.ok \in BOOLEAN /\ o.n <= venue[m]
      /\ o.ok => o.n >= 1 \/ venue[m] = 0
  BY <1>1, CloseOutcomeType, OkTakesAUnit DEF Typed
<1>3. /\ venue' = [venue EXCEPT ![m] = @ - o.n]
      /\ stray' = [stray EXCEPT ![m] = Lesser(@, venue[m] - o.n)]
  BY DEF Call
<1>4. (n = m /\ (o.ok \/ venue'[n] = 0)) \/ R \subseteq Q
  OBVIOUS
<1> HIDE DEF k, m
<1>5. venue[n] \in Nat /\ stray[n] \in Nat
  BY DEF Typed, TypeOK
<1>6. Cardinality(R) \in Nat /\ Cardinality(Q) \in Nat
  BY FS_CardinalityType
<1>7. Cardinality(Flying(n)) <= Cardinality(Flying(n)')
  BY FlyingKept, Counted
<1>8. R \subseteq Q => Cardinality(R) <= Cardinality(Q)
  BY FS_Subset
<1>9. CASE n # m
  <2>1. venue'[n] = venue[n] /\ stray'[n] = stray[n]
    BY <1>3, <1>9 DEF Typed, TypeOK
  <2> QED
    BY <1>4, <1>5, <1>6, <1>7, <1>8, <1>9, <2>1, Counted
<1>10. CASE n = m
  <2>1. /\ venue'[n] = venue[n] - o.n
        /\ stray'[n] = Lesser(stray[n], venue[n] - o.n)
    BY <1>1, <1>3, <1>10 DEF Typed, TypeOK
  <2>2. Cardinality(R) <= Cardinality(Q) + 1
    <3>1. \/ Cardinality(R \ {<<book[w], l>>}) = Cardinality(R) - 1
          \/ Cardinality(R \ {<<book[w], l>>}) = Cardinality(R)
      BY FS_RemoveElement, Zenon
    <3>2. Cardinality(R \ {<<book[w], l>>}) <= Cardinality(Q)
      BY FS_Subset, Zenon
    <3> QED
      BY <1>6, <3>1, <3>2
  <2>3. venue'[n] \in Nat /\ venue[n] = venue[m]
    BY <1>2, <1>5, <1>10, <2>1
  <2>4. CASE stray'[n] = venue'[n] \/ venue'[n] = 0
    <3>1. stray'[n] \in Nat
      BY <1>5, <2>1, <2>3 DEF Lesser
    <3> QED
      BY <1>6, <2>3, <2>4, <3>1, Counted
  <2>5. CASE stray'[n] = stray[n] /\ venue'[n] # 0
    <3>1. CASE o.ok /\ o.n >= 1
      BY <1>2, <1>5, <1>6, <1>7, <2>1, <2>2, <2>5, <3>1, Counted
    <3>2. CASE R \subseteq Q
      BY <1>2, <1>5, <1>6, <1>7, <1>8, <2>1, <2>5, <3>2, Counted
    <3> QED
      BY <1>2, <1>4, <1>10, <2>1, <2>3, <2>5, <3>1, <3>2
  <2> QED
    BY <2>1, <2>4, <2>5 DEF Lesser
<1> QED
  BY <1>9, <1>10

LEMMA CallKeepsRecord ==
  ASSUME Typed, HeldIsRecorded, NEW w \in Workers, Aside(w), UNCHANGED <<pst, book>>,
         pc[w] \notin {"second", "report"}, NEW l \in Legs,
         book[w] \in Strategies,
         NEW o \in CloseOutcomes(w, Market(book[w], l)), Call(Market(book[w], l), o),
         \A x \in Legs \ {l} : local'[w][x] = local[w][x],
         local'[w][l] = "closed" => o.ok
  PROVE  HeldIsRecorded'
<1> SUFFICES ASSUME NEW n \in Markets
             PROVE  venue'[n] <= Cardinality(Flying(n)') + stray'[n] + Cardinality(Recorded(n)')
  BY DEF HeldIsRecorded
<1>1. venue[n] <= Cardinality(Flying(n)) + stray[n] + Cardinality(Recorded(n))
  BY DEF HeldIsRecorded
<1>2. ASSUME NEW q \in Strategies, NEW x \in Legs, <<q, x>> \in Recorded(n),
             <<q, x>> # <<book[w], l>> \/ ~o.ok
      PROVE  <<q, x>> \in Recorded(n)'
  BY <1>2 DEF Recorded, OnRow, Aside, Market
<1>3. Recorded(n) \ {<<book[w], l>>} \subseteq Recorded(n)'
  BY <1>2 DEF Recorded
<1>4. (n = Market(book[w], l) /\ o.ok) \/ Recorded(n) \subseteq Recorded(n)'
  <2>1. <<book[w], l>> \in Recorded(n) => n = Market(book[w], l)
    BY DEF Recorded
  <2>2. o.ok \in BOOLEAN
    BY MarketType, CloseOutcomeType DEF Typed
  <2> QED
    BY <1>2, <2>1, <2>2 DEF Recorded
<1> QED
  BY <1>1, <1>3, <1>4, Counted, CallCovers

LEMMA CloseLegOnTheBooks ==
  ASSUME Typed, Typed', OnTheBooks, NEW w \in Workers, NEW l \in Legs, CloseLeg(w, l)
  PROVE  OnTheBooks'
<1>1. /\ pc[w] = "closing" /\ book[w] \in Strategies
      /\ UNCHANGED <<sst, pst, pc, book, plan>>
  BY DEF CloseLeg, Typed, BookInHand, HeldStages, database
<1>2. PICK o \in CloseOutcomes(w, Market(book[w], l)) :
        /\ Call(Market(book[w], l), o)
        /\ local' = [local EXCEPT ![w][l] = LegAfter(w, o.ok)]
        /\ err' = [err EXCEPT ![w] = @ \/ ~o.ok]
  BY DEF CloseLeg
<1>3. /\ Stands(w) /\ \A v \in Workers \ {w} : local'[v] = local[v] /\ err'[v] = err[v]
      /\ local'[w] = [local[w] EXCEPT ![l] = LegAfter(w, o.ok)]
  BY <1>1, <1>2 DEF Stands, Typed, TypeOK
<1>4. Apart(w)
  BY <1>1, <1>3 DEF Apart
<1>5. InOrder(w)' /\ NoRowYet'
  BY <1>1 DEF OnTheBooks, AllInOrder, NoRowYet, InOrder, Opening
<1>6. /\ \A x \in Legs \ {l} : local'[w][x] = local[w][x]
      /\ local'[w][l] = "closed" => o.ok
  BY <1>3 DEF LegAfter, Typed, TypeOK
<1>7. HeldIsRecorded'
  BY <1>1, <1>2, <1>3, <1>6, CallKeepsRecord DEF OnTheBooks, Aside
<1> QED
  BY <1>4, <1>5, <1>7, OthersInOrder DEF OnTheBooks

LEMMA UnwindOnTheBooks ==
  ASSUME Typed, Typed', OnTheBooks, NEW w \in Workers, Unwind(w)
  PROVE  OnTheBooks'
<1>1. /\ pc[w] = "unwind" /\ book[w] \in Strategies
      /\ UNCHANGED <<sst, pst, pc, book, err, plan>>
  BY DEF Unwind, Typed, BookInHand, HeldStages, database
<1>2. PICK l \in todo[w] : \E o \in CloseOutcomes(w, Market(book[w], l)) :
        /\ Call(Market(book[w], l), o)
        /\ local' = [local EXCEPT ![w][l] =
              IF o.ok THEN "closed" ELSE IF book[w] \in Spots THEN "open" ELSE "kept"]
  BY DEF Unwind
<1>3. PICK o \in CloseOutcomes(w, Market(book[w], l)) :
        /\ Call(Market(book[w], l), o)
        /\ local' = [local EXCEPT ![w][l] =
              IF o.ok THEN "closed" ELSE IF book[w] \in Spots THEN "open" ELSE "kept"]
  BY <1>2
<1>4. l \in Legs
  BY DEF Typed, TypeOK
<1>5. /\ Stands(w) /\ \A v \in Workers \ {w} : local'[v] = local[v] /\ err'[v] = err[v]
      /\ local'[w] = [local[w] EXCEPT ![l] =
              IF o.ok THEN "closed" ELSE IF book[w] \in Spots THEN "open" ELSE "kept"]
  BY <1>1, <1>3 DEF Stands, Typed, TypeOK
<1>6. Apart(w)
  BY <1>1, <1>5 DEF Apart
<1>7. InOrder(w)' /\ NoRowYet'
  BY <1>1 DEF OnTheBooks, AllInOrder, NoRowYet, InOrder, Opening
<1>8. /\ \A x \in Legs \ {l} : local'[w][x] = local[w][x]
      /\ local'[w][l] = "closed" => o.ok
  BY <1>4, <1>5 DEF Typed, TypeOK
<1>9. HeldIsRecorded'
  BY <1>1, <1>3, <1>4, <1>5, <1>8, CallKeepsRecord DEF OnTheBooks, Aside
<1> QED
  BY <1>6, <1>7, <1>9, OthersInOrder DEF OnTheBooks

(* The two legs of a strategy are never in one market. *)
LEMMA LegsApart ==
  ASSUME NEW k \in Strategies, NEW x \in Legs, NEW y \in Legs, Market(k, x) = Market(k, y)
  PROVE  x = y
BY DEF Market, Legs

(* An opener that writes its legs: each it has filled gets an open row. *)
LEMMA ReportCovers ==
  ASSUME Typed, NEW w \in Workers, pc[w] = "report", Aside(w), UNCHANGED <<venue, stray>>,
         NEW n \in Markets, NEW R, NEW Q, IsFiniteSet(R), IsFiniteSet(Q), R \subseteq Q,
         \A l \in Legs : <<w, l>> \in Flying(n) =>
           <<book[w], l>> \in Q /\ <<book[w], l>> \notin R,
         venue[n] <= Cardinality(Flying(n)) + stray[n] + Cardinality(R)
  PROVE  venue'[n] <= Cardinality(Flying(n)') + stray'[n] + Cardinality(Q)
<1> PICK k \in Strategies : k = book[w]
  BY DEF Typed, BookInHand, HeldStages
<1>1. venue[n] \in Nat /\ stray[n] \in Nat
  BY DEF Typed, TypeOK
<1>2. Cardinality(R) \in Nat /\ Cardinality(Q) \in Nat
  BY FS_CardinalityType
<1>3. CASE \E l \in Legs : <<w, l>> \in Flying(n)
  <2>1. PICK l \in Legs : <<w, l>> \in Flying(n)
    BY <1>3
  <2>2. local[w][l] = "open" /\ Market(k, l) = n
    BY <2>1 DEF Flying
  <2>3. Flying(n) \ {<<w, l>>} \subseteq Flying(n)'
    <3> SUFFICES ASSUME NEW v \in Workers, NEW x \in Legs, <<v, x>> \in Flying(n),
                        <<v, x>> # <<w, l>>
                 PROVE  <<v, x>> \in Flying(n)'
      BY DEF Flying
    <3>1. v # w
      BY <2>2, LegsApart DEF Flying
    <3> QED
      BY <3>1 DEF Flying, Aside, Stands, Market
  <2>4. <<k, l>> \in Q /\ <<k, l>> \notin R
    BY <2>1
  <2>5. Cardinality(R) + 1 <= Cardinality(Q)
    <3>1. Cardinality(R \cup {<<k, l>>}) = Cardinality(R) + 1
      BY <2>4, FS_AddElement, Zenon
    <3>2. Cardinality(R \cup {<<k, l>>}) <= Cardinality(Q)
      BY <2>4, FS_Subset
    <3> QED
      BY <3>1, <3>2
  <2>6. Cardinality(Flying(n)) - 1 <= Cardinality(Flying(n)')
    <3>1. Cardinality(Flying(n) \ {<<w, l>>}) = Cardinality(Flying(n)) - 1
      BY <2>1, Counted, FS_RemoveElement, Zenon
    <3>2. Cardinality(Flying(n) \ {<<w, l>>}) <= Cardinality(Flying(n)')
      BY <2>3, Counted, FS_Subset, Zenon
    <3> QED
      BY <3>1, <3>2
  <2> QED
    BY <1>1, <1>2, <2>5, <2>6, Counted
<1>4. CASE \A l \in Legs : <<w, l>> \notin Flying(n)
  <2>1. Flying(n) \subseteq Flying(n)'
    <3> SUFFICES ASSUME NEW v \in Workers, NEW x \in Legs, <<v, x>> \in Flying(n)
                 PROVE  <<v, x>> \in Flying(n)'
      BY DEF Flying
    <3> QED
      BY <1>4 DEF Flying, Aside, Stands, Market
  <2> QED
    BY <2>1, StillCovers
<1> QED
  BY <1>3, <1>4

LEMMA ReportKeepsRecord ==
  ASSUME Typed, OnTheBooks, NEW w \in Workers, pc[w] = "report", Aside(w),
         pst' = [pst EXCEPT ![book[w]] = local[w]], UNCHANGED <<venue, stray>>,
         local'[w] = Kept, book'[w] \in {book[w], NoStrategy}
  PROVE  HeldIsRecorded'
<1> PICK k \in Strategies : k = book[w]
  BY DEF Typed, BookInHand, HeldStages
<1>1. /\ sst[k] = "none" /\ pst[k] = NoLegs
      /\ \A v \in Workers \ {w} : book[v] # k
  BY DEF OnTheBooks, AllInOrder, NoRowYet, InOrder, Opening
<1>2. \A v \in Workers \ {w} : book'[v] # k
  BY <1>1 DEF Aside, Stands
<1>3. pst'[k] = local[w] /\ \A q \in Strategies \ {k} : pst'[q] = pst[q]
  BY <1>1 DEF Typed, TypeOK
<1> SUFFICES ASSUME NEW m \in Markets
             PROVE  venue'[m] <= Cardinality(Flying(m)') + stray'[m] + Cardinality(Recorded(m)')
  BY DEF HeldIsRecorded
<1>4. venue[m] <= Cardinality(Flying(m)) + stray[m] + Cardinality(Recorded(m))
  BY DEF OnTheBooks, HeldIsRecorded
<1>5. \A l \in Legs : <<k, l>> \notin Recorded(m)
  BY <1>1 DEF Recorded, OnRow, NoLegs
<1>6. Recorded(m) \subseteq Recorded(m)'
  <2> SUFFICES ASSUME NEW q \in Strategies, NEW x \in Legs, Market(q, x) = m, OnRow(q, x)
               PROVE  OnRow(q, x)'
    BY DEF Recorded, Market
  <2>1. q # k
    BY <1>1 DEF OnRow, NoLegs
  <2> QED
    BY <1>3, <2>1 DEF OnRow, Aside, Stands, Kept
<1>7. ASSUME NEW l \in Legs, <<w, l>> \in Flying(m) PROVE <<k, l>> \in Recorded(m)'
  <2>1. local[w][l] = "open" /\ Market(k, l) = m
    BY <1>7 DEF Flying
  <2>2. OnRow(k, l)'
    BY <1>2, <1>3, <2>1 DEF OnRow, Kept
  <2> QED
    BY <1>1, <2>1, <2>2 DEF Recorded, Market
<1> QED
  BY <1>4, <1>5, <1>6, <1>7, Counted, ReportCovers

LEMMA ReportSpotOnTheBooks ==
  ASSUME Typed, OnTheBooks, NEW w \in Workers, ReportSpot(w)
  PROVE  OnTheBooks'
<1> DEFINE k == book[w]
<1>1. /\ pc[w] = "report" /\ k \in Strategies /\ k # NoStrategy
      /\ sst' = [sst EXCEPT ![k] = "active"]
      /\ pst' = [pst EXCEPT ![k] = local[w]]
      /\ Release(w) /\ UNCHANGED <<venue, stray, plan>>
  BY BookAssumption DEF ReportSpot
<1>2. ReleasedBy(w) /\ Stands(w)
  BY <1>1, ReleaseClears
<1>3. HeldIsRecorded'
  BY <1>1, <1>2, ReportKeepsRecord DEF Aside, ReleasedBy
<1> HIDE DEF k
<1>4. Apart(w)
  BY <1>1, <1>2 DEF Apart, ReleasedBy, k, Typed, TypeOK
<1>5. InOrder(w)' /\ NoRowYet'
  BY <1>1, <1>2
  DEF OnTheBooks, AllInOrder, NoRowYet, InOrder, Opening, ReleasedBy, Typed, TypeOK
<1> QED
  BY <1>3, <1>4, <1>5, OthersInOrder DEF OnTheBooks

LEMMA ReportErrorOnTheBooks ==
  ASSUME Typed, OnTheBooks, NEW w \in Workers, ReportError(w)
  PROVE  OnTheBooks'
<1> DEFINE k == book[w]
<1>1. /\ pc[w] = "report" /\ k \in Strategies /\ k # NoStrategy
      /\ sst' = [sst EXCEPT ![k] = "error"]
      /\ pst' = [pst EXCEPT ![k] = local[w]]
      /\ UNCHANGED <<venue, stray, book, plan, err>>
  BY BookAssumption DEF ReportError, Typed, BookInHand, HeldStages
<1>2. /\ pc'[w] = "unwind" /\ local'[w] = Kept /\ Stands(w)
      /\ \A v \in Workers \ {w} : local'[v] = local[v]
  BY DEF ReportError, Stands, Typed, TypeOK
<1>3. HeldIsRecorded'
  BY <1>1, <1>2, ReportKeepsRecord DEF Aside
<1> HIDE DEF k
<1>4. Apart(w)
  BY <1>1, <1>2 DEF Apart, k, Typed, TypeOK
<1>5. InOrder(w)' /\ NoRowYet'
  BY <1>1, <1>2 DEF OnTheBooks, AllInOrder, NoRowYet, InOrder, Opening, k, Typed, TypeOK
<1> QED
  BY <1>3, <1>4, <1>5, OthersInOrder DEF OnTheBooks

(* A unit an opener has filled is in flight or stray. *)
LEMMA PlaceCovers ==
  ASSUME Typed, AllInOrder, NEW w \in Workers, Place(w), NEW n \in Markets,
         NEW R, NEW Q, IsFiniteSet(R), IsFiniteSet(Q), R \subseteq Q,
         venue[n] <= Cardinality(Flying(n)) + stray[n] + Cardinality(R)
  PROVE  venue'[n] <= Cardinality(Flying(n)') + stray'[n] + Cardinality(Q)
<1> PICK k \in Strategies : k = book[w]
  BY DEF Place, Typed, BookInHand, HeldStages
<1> PICK l \in Legs : l = PlacedLeg(w)
  BY DEF PlacedLeg, First, Second, Legs
<1> DEFINE m == Market(k, l)
<1>1. /\ pc[w] \in {"first", "second"} /\ m \in Markets
      /\ book' = book
  BY MarketType DEF Place
<1>2. PICK o \in PlaceOutcomes(m) :
        /\ venue' = [venue EXCEPT ![m] = @ + o.n]
        /\ stray' = [stray EXCEPT ![m] = @ + o.n - (IF o.ok THEN 1 ELSE 0)]
        /\ IF ~o.ok /\ k \in Spots /\ pc[w] = "first"
           THEN /\ local' = [local EXCEPT ![w] = [x \in Legs |-> "error"]]
                /\ pc' = [pc EXCEPT ![w] = "report"]
           ELSE /\ local' = [local EXCEPT ![w][l] = IF o.ok THEN "open" ELSE "error"]
                /\ pc' = [pc EXCEPT ![w] = IF @ = "first" THEN "second" ELSE "report"]
  BY DEF Place
<1>3. o.n \in Nat /\ o.ok \in BOOLEAN /\ (o.ok => o.n >= 1)
  BY <1>1, PlaceOutcomeType
<1>4. /\ Stands(w)
      /\ \A v \in Workers \ {w} : local'[v] = local[v]
      /\ pc[w] = "second" => pc'[w] = "report"
      /\ pc'[w] \in {"second", "report"}
  BY <1>1, <1>2 DEF Stands, Typed, TypeOK
<1>5. \/ ~o.ok /\ pc[w] = "first"
      \/ local'[w] = [local[w] EXCEPT ![l] = IF o.ok THEN "open" ELSE "error"]
  BY <1>1, <1>2 DEF Typed, TypeOK
<1>6. local[w][l] = "kept" /\ (pc[w] = "first" => \A x \in Legs : local[w][x] = "kept")
  BY <1>1 DEF AllInOrder, InOrder, PlacedLeg, Kept
<1>7. local[w] \in [Legs -> Statuses \cup {"kept"}]
  BY DEF Typed, TypeOK
<1> HIDE DEF m
<1>8. /\ venue[n] \in Nat /\ stray[n] \in Nat
      /\ Cardinality(R) <= Cardinality(Q) /\ Cardinality(R) \in Nat /\ Cardinality(Q) \in Nat
  BY FS_Subset, FS_CardinalityType DEF Typed, TypeOK
<1>9. Flying(n) \subseteq Flying(n)'
  <2> SUFFICES ASSUME NEW v \in Workers, NEW x \in Legs, <<v, x>> \in Flying(n)
               PROVE  <<v, x>> \in Flying(n)'
    BY DEF Flying
  <2>1. CASE v = w
    <3>1. pc[w] = "second" /\ local[w][x] = "open" /\ Market(book[w], x) = n
      BY <1>1, <2>1 DEF Flying
    <3>2. x # l /\ pc'[w] = "report"
      BY <1>4, <1>6, <3>1
    <3>3. local'[w][x] = "open"
      BY <1>5, <1>7, <3>1, <3>2
    <3> QED
      BY <1>1, <2>1, <3>1, <3>2, <3>3 DEF Flying, Market
  <2>2. CASE v # w
    BY <1>1, <1>4, <2>2 DEF Flying, Stands, Market
  <2> QED
    BY <2>1, <2>2
<1>10. CASE n # m
  <2>1. venue'[n] = venue[n] /\ stray'[n] = stray[n]
    BY <1>2, <1>10 DEF Typed, TypeOK
  <2> QED
    BY <1>8, <1>9, <2>1, Counted
<1>11. CASE n = m /\ ~o.ok
  <2>1. venue'[n] = venue[n] + o.n /\ stray'[n] = stray[n] + o.n - 0
    BY <1>1, <1>2, <1>11 DEF Typed, TypeOK
  <2> QED
    BY <1>3, <1>8, <1>9, <2>1, Counted
<1>12. CASE n = m /\ o.ok
  <2>1. venue'[n] = venue[n] + o.n /\ stray'[n] = stray[n] + o.n - 1
    BY <1>1, <1>2, <1>12 DEF Typed, TypeOK
  <2>2. <<w, l>> \notin Flying(n) /\ <<w, l>> \in Flying(n)'
    <3>1. local'[w][l] = "open"
      BY <1>5, <1>7, <1>12
    <3>2. Market(book[w], l)' = n
      BY <1>1, <1>12 DEF m, Market
    <3> QED
      BY <1>4, <1>6, <3>1, <3>2 DEF Flying
  <2>3. Cardinality(Flying(n)) + 1 <= Cardinality(Flying(n)')
    <3>1. Cardinality(Flying(n) \cup {<<w, l>>}) = Cardinality(Flying(n)) + 1
      BY <2>2, Counted, FS_AddElement, Zenon
    <3>2. Flying(n) \cup {<<w, l>>} \subseteq Flying(n)'
      BY <1>9, <2>2
    <3>3. Cardinality(Flying(n) \cup {<<w, l>>}) <= Cardinality(Flying(n)')
      BY <3>2, Counted, FS_Subset, Zenon
    <3> QED
      BY <3>1, <3>3
  <2> QED
    BY <1>3, <1>8, <2>1, <2>3, Counted
<1> QED
  BY <1>3, <1>10, <1>11, <1>12

LEMMA PlaceOnTheBooks ==
  ASSUME Typed, OnTheBooks, NEW w \in Workers, Place(w)
  PROVE  OnTheBooks'
<1> PICK k \in Strategies : k = book[w]
  BY DEF Place, Typed, BookInHand, HeldStages
<1> PICK l \in Legs : l = PlacedLeg(w)
  BY DEF PlacedLeg, First, Second, Legs
<1>1. /\ pc[w] \in {"first", "second"} /\ pc'[w] \in {"second", "report"}
      /\ pc[w] = "second" => pc'[w] = "report"
      /\ UNCHANGED <<sst, pst, book, plan>>
      /\ \A v \in Workers \ {w} : local'[v] = local[v] /\ err'[v] = err[v]
      /\ Stands(w)
  BY DEF Place, Stands, database, Typed, TypeOK
<1>2. /\ \A x \in Legs : local'[w][x] # "closed" \/ local'[w][x] = local[w][x]
      /\ pc'[w] = "second" => \A x \in Legs \ {l} : local'[w][x] = local[w][x]
  BY DEF Place, Typed, TypeOK
<1>3. /\ InOrder(w)
      /\ l = IF pc[w] = "first" THEN First(k) ELSE Second(k)
      /\ First(k) # Second(k) /\ Second(k) \in Legs
  BY DEF OnTheBooks, AllInOrder, PlacedLeg, First, Second, Legs
<1>4. Apart(w)
  BY <1>1 DEF Apart
<1>5. InOrder(w)' /\ NoRowYet'
  <2>1. sst[k] = "none" /\ \A v \in Workers \ {w} : book[v] # k
    BY <1>1, <1>3 DEF InOrder, Opening
  <2>2. pc'[w] = "second" => local'[w][Second(k)] = "kept"
    BY <1>1, <1>2, <1>3 DEF InOrder, Kept
  <2>3. Second(book[w])' = Second(k)
    BY <1>1 DEF Second
  <2>4. \A q \in plan'[w] : sst'[q] # "none"
    BY <1>1, <1>3 DEF InOrder
  <2>5. InOrder(w)'
    BY <1>1, <2>1, <2>2, <2>3, <2>4 DEF InOrder
  <2> QED
    BY <1>1, <2>5 DEF OnTheBooks, AllInOrder, NoRowYet
<1>6. ASSUME NEW n \in Markets PROVE Recorded(n) \subseteq Recorded(n)'
  BY <1>1, <1>2, RecordedKept DEF Aside, OnRow
<1>7. HeldIsRecorded'
  BY <1>6, Counted, PlaceCovers DEF OnTheBooks, HeldIsRecorded
<1> QED
  BY <1>4, <1>5, <1>7, OthersInOrder DEF OnTheBooks

(* What workers have in flight and lose is counted as stray. *)
Lost(S, m) == {x \in S \X Legs : /\ pc[x[1]] \in {"second", "report"}
                                 /\ local[x[1]][x[2]] = "open"
                                 /\ Market(book[x[1]], x[2]) = m}

LEMMA LostCovers ==
  ASSUME Typed, NEW S \in SUBSET Workers, UNCHANGED venue,
         \A v \in Workers \ S : pc'[v] = pc[v] /\ book'[v] = book[v] /\ local'[v] = local[v],
         NEW m \in Markets,
         stray'[m] \in Nat /\ stray'[m] >= stray[m] + Cardinality(Lost(S, m)),
         NEW R, NEW Q, IsFiniteSet(R), IsFiniteSet(Q), R \subseteq Q,
         venue[m] <= Cardinality(Flying(m)) + stray[m] + Cardinality(R)
  PROVE  venue'[m] <= Cardinality(Flying(m)') + stray'[m] + Cardinality(Q)
<1>1. /\ venue[m] \in Nat /\ stray[m] \in Nat
      /\ Cardinality(R) <= Cardinality(Q) /\ Cardinality(R) \in Nat /\ Cardinality(Q) \in Nat
  BY FS_Subset, FS_CardinalityType DEF Typed, TypeOK
<1>2. Lost(S, m) \subseteq Flying(m)
  BY DEF Lost, Flying
<1>3. Flying(m) \ Lost(S, m) \subseteq Flying(m)'
  <2> SUFFICES ASSUME NEW v \in Workers, NEW x \in Legs, <<v, x>> \in Flying(m),
                      <<v, x>> \notin Lost(S, m)
               PROVE  <<v, x>> \in Flying(m)'
    BY DEF Flying
  <2>1. v \notin S
    BY DEF Lost, Flying
  <2> QED
    BY <2>1 DEF Flying, Market
<1>4. Cardinality(Flying(m)) <= Cardinality(Flying(m)') + Cardinality(Lost(S, m))
  <2> DEFINE F == Flying(m)
             A == Lost(S, m)
             D == F \ A
  <2>1. IsFiniteSet(F) /\ IsFiniteSet(A) /\ IsFiniteSet(D) /\ D \cup A = F
    BY <1>2, Counted, FS_Subset
  <2>2. Cardinality(F) <= Cardinality(D) + Cardinality(A)
    <3>1. /\ Cardinality(D \cup A) = Cardinality(D) + Cardinality(A) - Cardinality(D \cap A)
          /\ IsFiniteSet(D \cap A)
      BY <2>1, FS_Union, FS_Intersection
    <3> HIDE DEF F, A, D
    <3>2. Cardinality(D) \in Nat /\ Cardinality(A) \in Nat /\ Cardinality(D \cap A) \in Nat
      BY <2>1, <3>1, FS_CardinalityType
    <3>3. Cardinality(F) = Cardinality(D \cup A)
      BY <2>1, Zenon
    <3> QED
      BY <3>1, <3>2, <3>3
  <2>3. Cardinality(D) <= Cardinality(Flying(m)')
    BY <1>3, Counted, FS_Subset
  <2>4. Cardinality(F) \in Nat /\ Cardinality(A) \in Nat /\ Cardinality(D) \in Nat
    BY <2>1, FS_CardinalityType
  <2> HIDE DEF F, A, D
  <2>5. Cardinality(F) <= Cardinality(Flying(m)') + Cardinality(A)
    BY <2>2, <2>3, <2>4, Counted
  <2> QED
    BY <2>5 DEF F, A
<1>5. Cardinality(Lost(S, m)) \in Nat
  BY <1>2, Counted, FS_Subset, FS_CardinalityType
<1> QED
  BY <1>1, <1>4, <1>5, Counted

LEMMA LostKeepsRecord ==
  ASSUME Typed, HeldIsRecorded, NEW S \in SUBSET Workers, UNCHANGED <<pst, venue>>,
         \A v \in Workers \ S : pc'[v] = pc[v] /\ book'[v] = book[v] /\ local'[v] = local[v],
         \A v \in S : local'[v] = Kept,
         \A m \in Markets : stray'[m] \in Nat /\ stray'[m] >= stray[m] + Cardinality(Lost(S, m))
  PROVE  HeldIsRecorded'
<1> SUFFICES ASSUME NEW m \in Markets
             PROVE  venue'[m] <= Cardinality(Flying(m)') + stray'[m] + Cardinality(Recorded(m)')
  BY DEF HeldIsRecorded
<1>1. Recorded(m) \subseteq Recorded(m)'
  <2> SUFFICES ASSUME NEW q \in Strategies, NEW x \in Legs, OnRow(q, x)
               PROVE  OnRow(q, x)'
    BY DEF Recorded, Market
  <2>1. \A v \in S : local'[v][x] # "closed"
    BY DEF Kept
  <2> QED
    BY <2>1 DEF OnRow
<1> QED
  BY <1>1, Counted, LostCovers DEF HeldIsRecorded

(* The legs of a cross_exchange strategy that are dropped on success. *)
LEMMA CrossLost ==
  ASSUME Typed, Typed', NEW w \in Workers, ReportCross(w), NEW m \in Markets
  PROVE  stray'[m] \in Nat /\ stray'[m] >= stray[m] + Cardinality(Lost({w}, m))
<1> DEFINE L == {l \in Legs : Market(book[w], l) = m}
           A == Lost({w}, m)
<1>1. stray'[m] = stray[m] + Cardinality(L) /\ pc[w] = "report"
  BY DEF ReportCross
<1>2. IsFiniteSet(L) /\ Cardinality(L) \in Nat /\ stray[m] \in Nat /\ stray'[m] \in Nat
  <2>1. IsFiniteSet(L)
    BY WorkersFinite, FS_Subset
  <2> QED
    BY <2>1, FS_CardinalityType DEF Typed, TypeOK
<1>3. Cardinality(A) <= Cardinality(L) /\ Cardinality(A) \in Nat
  <2>1. CASE A = {}
    BY <1>2, <2>1, FS_EmptySet
  <2>2. CASE A # {}
    <3>1. PICK l \in Legs : <<w, l>> \in A
      BY <2>2 DEF Lost
    <3>2. book[w] \in Strategies
      BY <1>1 DEF Typed, BookInHand, HeldStages
    <3>3. A = {<<w, l>>}
      BY <3>1, <3>2, LegsApart DEF Lost
    <3>4. {l} \subseteq L
      BY <3>1 DEF Lost
    <3>5. Cardinality(A) = 1 /\ Cardinality({l}) = 1
      BY <3>3, FS_Singleton
    <3>6. Cardinality({l}) <= Cardinality(L)
      BY <1>2, <3>4, FS_Subset
    <3> QED
      BY <3>5, <3>6
  <2> QED
    BY <2>1, <2>2
<1> QED
  BY <1>1, <1>2, <1>3

LEMMA AbandonedLost ==
  ASSUME Typed', NEW S \in SUBSET Workers, stray' = Abandoned(S), NEW m \in Markets
  PROVE  stray'[m] \in Nat /\ stray'[m] >= stray[m] + Cardinality(Lost(S, m))
<1>1. stray'[m] = stray[m] + Cardinality(Lost(S, m))
  BY DEF Abandoned, Lost
<1>2. stray'[m] \in Nat
  BY DEF Typed, TypeOK
<1> QED
  BY <1>1, <1>2

LEMMA ReportCrossOnTheBooks ==
  ASSUME Typed, Typed', OnTheBooks, NEW w \in Workers, ReportCross(w)
  PROVE  OnTheBooks'
<1>1. pc[w] = "report" /\ Release(w) /\ UNCHANGED <<sst, pst, venue, plan>>
  BY DEF ReportCross, database
<1>2. ReleasedBy(w) /\ Stands(w)
  BY <1>1, ReleaseClears
<1>3. Apart(w)
  BY <1>1, <1>2 DEF Apart, ReleasedBy
<1>4. InOrder(w)' /\ NoRowYet'
  BY <1>1, <1>2 DEF OnTheBooks, AllInOrder, NoRowYet, InOrder, Opening, ReleasedBy
<1>5. HeldIsRecorded'
  BY <1>1, <1>2, CrossLost, LostKeepsRecord DEF OnTheBooks, ReleasedBy, Stands
<1> QED
  BY <1>3, <1>4, <1>5, OthersInOrder DEF OnTheBooks

LEMMA FailuresOnTheBooks ==
  ASSUME Typed, Typed', OnTheBooks, Crash \/ \E w \in Workers : Abort(w)
  PROVE  OnTheBooks'
<1>1. CASE Crash
  <2>1. UNCHANGED <<sst, pst, venue>> /\ stray' = Abandoned(Workers)
    BY <1>1 DEF Crash, database
  <2>2. \A v \in Workers : pc'[v] = "idle" /\ local'[v] = Kept /\ plan'[v] = {}
    BY <1>1 DEF Crash
  <2>3. HeldIsRecorded'
    BY <2>1, <2>2, AbandonedLost, LostKeepsRecord DEF OnTheBooks
  <2>4. AllInOrder'
    BY <2>1, <2>2 DEF OnTheBooks, AllInOrder, NoRowYet, InOrder, Opening
  <2> QED
    BY <2>3, <2>4 DEF OnTheBooks
<1>2. ASSUME NEW w \in Workers, Abort(w)
      PROVE  OnTheBooks'
  <2>1. /\ UNCHANGED <<sst, pst, venue>> /\ stray' = Abandoned({w})
        /\ pc'[w] = "idle" /\ book'[w] = NoStrategy /\ local'[w] = Kept /\ plan'[w] = {}
        /\ Stands(w)
        /\ \A v \in Workers \ {w} : local'[v] = local[v] /\ err'[v] = err[v] /\ plan'[v] = plan[v]
    BY <1>2 DEF Abort, Leave, Stands, database, Typed, TypeOK
  <2>2. Apart(w)
    BY <2>1 DEF Apart
  <2>3. InOrder(w)' /\ NoRowYet'
    BY <2>1 DEF OnTheBooks, AllInOrder, NoRowYet, InOrder, Opening
  <2>4. HeldIsRecorded'
    BY <2>1, AbandonedLost, LostKeepsRecord DEF OnTheBooks, Stands
  <2> QED
    BY <2>2, <2>3, <2>4, OthersInOrder DEF OnTheBooks
<1> QED
  BY <1>1, <1>2

LEMMA NextOnTheBooks ==
  ASSUME Typed, Typed', OnTheBooks, [Next]_vars
  PROVE  OnTheBooks'
<1>1. ASSUME NEW w \in Workers, OpenStep(w) PROVE OnTheBooks'
  BY <1>1, OpenBeginOnTheBooks, PlaceOnTheBooks, ReportSpotOnTheBooks, ReportCrossOnTheBooks,
     ReportErrorOnTheBooks, UnwindOnTheBooks, FlushOnTheBooks DEF OpenStep
<1>2. ASSUME NEW w \in Workers, CloseStep(w) PROVE OnTheBooks'
  BY <1>2, LookOnTheBooks, CloseBeginOnTheBooks, FlushOnTheBooks, CloseLegOnTheBooks,
     SkipLegOnTheBooks, BreakCloseOnTheBooks DEF CloseStep
<1>3. ASSUME UNCHANGED <<sst, pst, venue, stray, pc, book, local, plan>> PROVE OnTheBooks'
  <2>1. AllInOrder'
    BY <1>3 DEF OnTheBooks, AllInOrder, NoRowYet, InOrder, Second
  <2>2. \A m \in Markets : Wider(m)
    BY <1>3 DEF Wider, Flying, Recorded, OnRow, Market
  <2> QED
    BY <1>3, <2>1, <2>2, WiderKeeps DEF OnTheBooks
<1> QED
  BY <1>1, <1>2, <1>3, LookOnTheBooks, FailuresOnTheBooks
  DEF Next, DeleteExchange, locals, vars, database

(* However often calls and threads fail, whatever exchange is deleted, and    *)
(* whoever closes at once: the units an exchange holds are in an opener's      *)
(* hands, were lost by one, or have a position each that does not say closed. *)
(* No close gives up more rows than it sold units, and no late commit of a    *)
(* session (Flushed) overwrites what keeps a unit on record (open and close    *)
(* of the two strategies, the risk manager's _close_strategy).                 *)
THEOREM ExposureIsOnRecord == Spec => []HeldIsRecorded
<1>1. OnTheBooks => HeldIsRecorded
  BY DEF OnTheBooks
<1> QED
  BY <1>1, InitTyped, NextTyped, InitOnTheBooks, NextOnTheBooks, PTL DEF Spec

-----------------------------------------------------------------------------
(* Up to four failures, exposure is on the list of somebody who closes it. *)
(*                                                                         *)
(* What loses a unit from the lists is a spot hedge whose opener reopens a *)
(* row, in a session that has not seen it go to "error", and calls the     *)
(* strategy closed.  It takes a failed leg, a failed unwind, a failed close *)
(* that made the strategy active again and a close of the risk manager     *)
(* that failed twice: five failures.  The invariant counts them.           *)

(* Where a step of a worker leaves the others. *)
Solo(w) ==
  \A v \in Workers \ {w} :
    /\ pc'[v] = pc[v] /\ book'[v] = book[v] /\ todo'[v] = todo[v]
    /\ local'[v] = local[v] /\ err'[v] = err[v] /\ plan'[v] = plan[v]

(* Only the risk manager writes "error" in a close; an opener is not the risk *)
(* manager, has met a failure before it unwinds, and unwinds alone.           *)
InRole(w) ==
  /\ pc[w] \in Opening \cup {"unwind"} => w # Risk
  /\ pc[w] \in {"idle", "pick"} \cup Opening /\ err[w] => faults >= 1
  /\ pc[w] = "unwind" =>
       /\ \A v \in Workers \ {w} : pc[v] = "unwind" => book[v] # book[w]
       /\ book[w] \notin Spots => \A l \in Legs : local[w][l] # "open"
  /\ pc[w] = "closing" =>
       \A l \in Legs : local[w][l] \in {"kept", "closed"} \cup (IF w = Risk THEN {"error"} ELSE {})
AllInRole == \A w \in Workers : InRole(w)

LEMMA InitInRole == Init => AllInRole
BY DEF Init, AllInRole, InRole, Opening

LEMMA CloseFaults ==
  ASSUME Typed, NEW w \in Workers, NEW m \in Markets, NEW o \in CloseOutcomes(w, m), Call(m, o)
  PROVE  /\ faults' = faults + o.f /\ o.f \in Nat /\ o.ok \in BOOLEAN
         /\ ~o.ok /\ w # Risk => o.f >= 1
         /\ ~o.ok => o.f >= 2 \/ venue'[m] = 0 \/ w # Risk
<1>1. /\ faults' = faults + o.f /\ o.f \in Nat /\ o.ok \in BOOLEAN /\ o.n \in Nat
      /\ venue'[m] = venue[m] - o.n /\ venue[m] \in Nat
  BY CloseOutcomeType DEF Call, Typed, TypeOK
<1>2. ASSUME NEW h \in Nat, o \in HedgeOutcomes(h), ~o.ok PROVE o.f >= 1
  BY <1>2 DEF HedgeOutcomes
<1>3. ASSUME NEW h \in Nat, NEW spot \in BOOLEAN, o \in SweepOutcomes(h, spot), ~o.ok
      PROVE  /\ o.f >= 2 \/ o.n = h
             /\ spot => o.f >= 1
  <2>1. CASE h = 0
    BY <1>3, <2>1 DEF SweepOutcomes, RestOutcomes
  <2>2. CASE h > 0 /\ o \in RestOutcomes(h, 0, 1, spot)
    BY <1>3, <2>2 DEF RestOutcomes
  <2>3. CASE h > 0 /\ o \in RestOutcomes(h, 1, 1, spot)
    BY <1>3, <2>3 DEF RestOutcomes
  <2> QED
    BY <1>3, <2>1, <2>2, <2>3 DEF SweepOutcomes
<1>4. CASE m[2] = "spot"
  <2>1. o \in SweepOutcomes(venue[m], TRUE)
    BY <1>4 DEF CloseOutcomes
  <2>2. ~o.ok => o.f >= 1 /\ (o.f >= 2 \/ o.n = venue[m])
    BY <1>1, <1>3, <2>1
  <2> QED
    BY <1>1, <2>2
<1>5. CASE m[2] # "spot" /\ w = Risk
  <2>1. o \in SweepOutcomes(venue[m], FALSE)
    BY <1>5 DEF CloseOutcomes
  <2>2. ~o.ok => o.f >= 2 \/ o.n = venue[m]
    BY <1>1, <1>3, <2>1
  <2> QED
    BY <1>1, <1>5, <2>2
<1>6. CASE m[2] # "spot" /\ w # Risk
  BY <1>1, <1>2, <1>6 DEF CloseOutcomes
<1> QED
  BY <1>4, <1>5, <1>6

LEMMA WorkerSolo ==
  ASSUME Typed, NEW w \in Workers, OpenStep(w) \/ CloseStep(w) \/ Abort(w)
  PROVE  Solo(w)
<1>1. ASSUME Release(w), plan' = plan PROVE Solo(w)
  BY <1>1 DEF Release, Leave, Solo, Typed, TypeOK
<1>2. ASSUME NEW k \in Strategies, OpenBegin(w, k) PROVE Solo(w)
  BY <1>2 DEF OpenBegin, Solo, Typed, TypeOK
<1>3. CASE Place(w)
  BY <1>3 DEF Place, Solo, Typed, TypeOK
<1>4. CASE ReportSpot(w) \/ ReportCross(w) \/ Settle(w) \/ CloseEnd(w)
  BY <1>1, <1>4 DEF ReportSpot, ReportCross, Settle, CloseEnd
<1>5. CASE ReportError(w)
  BY <1>5 DEF ReportError, Solo, Typed, TypeOK
<1>6. CASE Unwind(w)
  BY <1>6 DEF Unwind, Solo, Typed, TypeOK
<1>7. ASSUME NEW k \in Strategies, CloseCheck(w, k) \/ CloseBegin(w, k) PROVE Solo(w)
  BY <1>7 DEF CloseCheck, CloseBegin, Solo, Typed, TypeOK
<1>8. CASE EndPass(w)
  BY <1>8 DEF EndPass, Solo, Typed, TypeOK
<1>9. ASSUME NEW l \in Legs, CloseLeg(w, l) PROVE Solo(w)
  BY <1>9 DEF CloseLeg, Solo, database, Typed, TypeOK
<1>10. ASSUME NEW l \in Legs, SkipLeg(w, l) PROVE Solo(w)
  BY <1>10 DEF SkipLeg, Solo, Typed, TypeOK
<1>11. ASSUME NEW l \in Legs, BreakClose(w, l) PROVE Solo(w)
  BY <1>1, <1>11 DEF BreakClose
<1>12. CASE Abort(w)
  BY <1>12 DEF Abort, Leave, Solo, Typed, TypeOK
<1> QED
  BY <1>2, <1>3, <1>4, <1>5, <1>6, <1>7, <1>8, <1>9, <1>10, <1>11, <1>12 DEF OpenStep, CloseStep

LEMMA OthersInRole ==
  ASSUME Typed, AllInRole, NEW w \in Workers, Solo(w), faults' \in Nat, faults' >= faults,
         InRole(w)',
         pc'[w] = "unwind" => \/ pc[w] = "unwind" /\ book'[w] = book[w]
                             \/ \A v \in Workers \ {w} : book[v] # book'[w]
  PROVE  AllInRole'
<1> SUFFICES ASSUME NEW v \in Workers, v # w PROVE InRole(v)'
  BY DEF AllInRole
<1>1. InRole(v) /\ InRole(w)
  BY DEF AllInRole
<1>2. /\ pc'[v] = pc[v] /\ book'[v] = book[v] /\ local'[v] = local[v] /\ err'[v] = err[v]
      /\ \A u \in Workers \ {w} : pc'[u] = pc[u] /\ book'[u] = book[u]
  BY DEF Solo
<1>3. pc[v] = "unwind" => \A u \in Workers \ {v} : pc'[u] = "unwind" => book'[u] # book[v]
  BY <1>1, <1>2 DEF InRole
<1>4. faults \in Nat
  BY DEF Typed, TypeOK, BookAssumption
<1> QED
  BY <1>1, <1>2, <1>3, <1>4 DEF InRole

LEMMA FaultsGrow ==
  ASSUME Typed, Typed', [Next]_vars
  PROVE  faults \in Nat /\ faults' \in Nat /\ faults' >= faults
<1>1. faults \in Nat /\ faults' \in Nat
  BY BookAssumption DEF Typed, TypeOK
<1>2. ASSUME NEW w \in Workers, Place(w) PROVE faults' >= faults
  <2>1. PICK o \in PlaceOutcomes(Market(book[w], PlacedLeg(w))) : faults' = faults + o.f
    BY <1>2 DEF Place
  <2> QED
    BY <1>1, <2>1 DEF PlaceOutcomes
<1>3. ASSUME NEW w \in Workers, NEW m \in Markets, NEW o \in CloseOutcomes(w, m), Call(m, o)
      PROVE  faults' >= faults
  BY <1>1, <1>3, CloseFaults
<1>4. ASSUME NEW w \in Workers, Unwind(w) PROVE faults' >= faults
  <2>1. PICK l \in todo[w] : \E o \in CloseOutcomes(w, Market(book[w], l)) :
          Call(Market(book[w], l), o)
    BY <1>4 DEF Unwind
  <2>2. l \in Legs /\ book[w] \in Strategies
    BY <1>4 DEF Unwind, Typed, TypeOK, BookInHand, HeldStages
  <2> QED
    BY <1>3, <2>1, <2>2, MarketType
<1>5. ASSUME NEW w \in Workers, NEW l \in Legs, CloseLeg(w, l) PROVE faults' >= faults
  <2>1. book[w] \in Strategies
    BY <1>5 DEF CloseLeg, Typed, BookInHand, HeldStages
  <2> QED
    BY <1>3, <1>5, <2>1, MarketType DEF CloseLeg
<1>6. ASSUME NEW w \in Workers, OpenStep(w) PROVE faults' >= faults
  BY <1>1, <1>2, <1>4, <1>6
  DEF OpenStep, OpenBegin, ReportSpot, ReportCross, ReportError, Settle
<1>7. ASSUME NEW w \in Workers, CloseStep(w) PROVE faults' >= faults
  <2>1. ASSUME NEW l \in Legs, SkipLeg(w, l) \/ BreakClose(w, l) PROVE faults' = faults
    BY <2>1 DEF SkipLeg, BreakClose
  <2>2. ASSUME NEW k \in Strategies, CloseCheck(w, k) \/ CloseBegin(w, k) PROVE faults' = faults
    BY <2>2 DEF CloseCheck, CloseBegin
  <2>3. CASE EndPass(w) \/ CloseEnd(w)
    BY <1>1, <2>3 DEF EndPass, CloseEnd
  <2> QED
    BY <1>1, <1>5, <1>7, <2>1, <2>2, <2>3 DEF CloseStep
<1>8. ASSUME Crash \/ \E w \in Workers : Abort(w) PROVE faults' >= faults
  <2>1. faults' = faults + 1
    BY <1>8 DEF Crash, Abort
  <2> QED
    BY <1>1, <2>1
<1>9. ASSUME UNCHANGED faults PROVE faults' >= faults
  BY <1>1, <1>9
<1> QED
  BY <1>1, <1>6, <1>7, <1>8, <1>9 DEF Next, StartRisk, StartAuto, DeleteExchange, vars

(* What a step that lets go of the strategy, or only looks, leaves behind. *)
LEMMA FreeInRole ==
  ASSUME NEW w \in Workers, pc'[w] \in {"idle", "pick", "checked"},
         ~err'[w] \/ pc'[w] = "checked"
  PROVE  InRole(w)'
BY DEF InRole, Opening

LEMMA OpenInRole ==
  ASSUME Typed, Typed', AllInOrder, AllInRole, faults' >= faults, faults \in Nat, faults' \in Nat,
         NEW w \in Workers, OpenStep(w)
  PROVE  AllInRole'
<1>1. Solo(w) /\ InRole(w) /\ InOrder(w)
  BY WorkerSolo DEF AllInRole, AllInOrder
<1>2. ASSUME NEW k \in Strategies, OpenBegin(w, k) PROVE AllInRole'
  <2>1. /\ pc'[w] = "first" /\ pc[w] \in {"idle", "pick"} /\ err'[w] = err[w] /\ w # Risk
    BY <1>2, BookAssumption DEF OpenBegin, Risk, Engine, Typed, TypeOK
  <2>2. InRole(w)'
    BY <1>1, <2>1 DEF InRole, Opening
  <2> QED
    BY <1>1, <2>1, <2>2, OthersInRole
<1>3. CASE Place(w)
  <2>1. PICK o \in PlaceOutcomes(Market(book[w], PlacedLeg(w))) :
          faults' = faults + o.f /\ err' = [err EXCEPT ![w] = @ \/ ~o.ok]
    BY <1>3 DEF Place
  <2>2. pc[w] \in Opening /\ pc'[w] \in {"second", "report"}
    BY <1>3 DEF Place, Opening, Typed, TypeOK
  <2>3. o.f \in Nat /\ o.ok \in BOOLEAN /\ (~o.ok => o.f >= 1)
    BY <2>1 DEF PlaceOutcomes
  <2>4. err'[w] => err[w] \/ ~o.ok
    BY <2>1 DEF Typed, TypeOK
  <2>5. err'[w] => faults' >= 1
    BY <1>1, <2>1, <2>2, <2>3, <2>4 DEF InRole
  <2>6. InRole(w)'
    BY <1>1, <2>2, <2>5 DEF InRole, Opening
  <2> QED
    BY <1>1, <2>2, <2>6, OthersInRole
<1>4. CASE ReportSpot(w) \/ ReportCross(w) \/ Settle(w)
  <2>1. ReleasedBy(w)
    BY <1>4, ReleaseClears DEF ReportSpot, ReportCross, Settle
  <2> QED
    BY <1>1, <2>1, FreeInRole, OthersInRole DEF ReleasedBy
<1>5. CASE ReportError(w)
  <2>1. /\ pc[w] = "report" /\ pc'[w] = "unwind" /\ book'[w] = book[w] /\ local'[w] = Kept
    BY <1>5 DEF ReportError, Typed, TypeOK
  <2>2. \A v \in Workers \ {w} : book[v] # book[w] /\ book'[v] = book[v]
    BY <1>1, <2>1 DEF InOrder, Opening, Solo
  <2>3. InRole(w)'
    BY <1>1, <2>1, <2>2 DEF InRole, Opening, Kept
  <2> QED
    BY <1>1, <2>1, <2>2, <2>3, OthersInRole
<1>6. CASE Unwind(w)
  <2>1. pc[w] = "unwind" /\ pc' = pc /\ book' = book
    BY <1>6 DEF Unwind
  <2>2. book[w] \notin Spots => \A l \in Legs : local'[w][l] # "open"
    BY <1>1, <1>6, <2>1 DEF Unwind, InRole, Typed, TypeOK
  <2>3. InRole(w)'
    BY <1>1, <2>1, <2>2 DEF InRole, Opening
  <2> QED
    BY <1>1, <2>1, <2>3, OthersInRole
<1> QED
  BY <1>2, <1>3, <1>4, <1>5, <1>6 DEF OpenStep

LEMMA CloseInRole ==
  ASSUME Typed, Typed', AllInOrder, AllInRole, faults' >= faults, faults \in Nat, faults' \in Nat,
         NEW w \in Workers, CloseStep(w) \/ Abort(w)
  PROVE  AllInRole'
<1>1. Solo(w) /\ InRole(w) /\ InOrder(w)
  BY WorkerSolo DEF AllInRole, AllInOrder
<1>2. ASSUME NEW k \in Strategies, CloseCheck(w, k) PROVE AllInRole'
  <2>1. pc'[w] = "checked"
    BY <1>2 DEF CloseCheck, Typed, TypeOK
  <2> QED
    BY <1>1, <2>1, FreeInRole, OthersInRole
<1>3. CASE EndPass(w)
  <2>1. pc[w] = "pick" /\ pc'[w] = "idle" /\ err'[w] = err[w]
    BY <1>3 DEF EndPass, Typed, TypeOK
  <2>2. InRole(w)'
    BY <1>1, <2>1 DEF InRole, Opening
  <2> QED
    BY <1>1, <2>1, <2>2, OthersInRole
<1>4. ASSUME NEW k \in Strategies, CloseBegin(w, k) PROVE AllInRole'
  <2>1. pc[w] \in {"checked", "pick"} /\ pc'[w] = "closing" /\ local'[w] = local[w]
    BY <1>4 DEF CloseBegin, Chosen, Typed, TypeOK
  <2>2. InRole(w)'
    BY <1>1, <2>1 DEF InRole, InOrder, Opening, Kept
  <2> QED
    BY <1>1, <2>1, <2>2, OthersInRole
<1>5. ASSUME NEW l \in Legs, CloseLeg(w, l) PROVE AllInRole'
  <2>1. /\ pc[w] = "closing" /\ pc' = pc
        /\ \A x \in Legs : \/ local'[w][x] = local[w][x]
                           \/ \E ok \in BOOLEAN : local'[w][x] = LegAfter(w, ok)
    <3>1. PICK o \in CloseOutcomes(w, Market(book[w], l)) :
            local' = [local EXCEPT ![w][l] = LegAfter(w, o.ok)]
      BY <1>5 DEF CloseLeg
    <3>2. o.ok \in BOOLEAN
      <4>1. book[w] \in Strategies
        BY <1>5 DEF CloseLeg, Typed, BookInHand, HeldStages
      <4> QED
        BY <4>1, MarketType, CloseOutcomeType DEF Typed
    <3> QED
      BY <1>5, <3>1, <3>2 DEF CloseLeg, Typed, TypeOK
  <2>2. InRole(w)'
    BY <1>1, <2>1 DEF InRole, Opening, LegAfter
  <2> QED
    BY <1>1, <2>1, <2>2, OthersInRole
<1>6. ASSUME NEW l \in Legs, SkipLeg(w, l) PROVE AllInRole'
  <2>1. pc[w] = "closing" /\ pc' = pc /\ local' = local
    BY <1>6 DEF SkipLeg
  <2>2. InRole(w)'
    BY <1>1, <2>1 DEF InRole, Opening
  <2> QED
    BY <1>1, <2>1, <2>2, OthersInRole
<1>7. CASE CloseEnd(w) \/ \E l \in Legs : BreakClose(w, l)
  <2>1. ReleasedBy(w)
    BY <1>7, ReleaseClears DEF CloseEnd, BreakClose
  <2> QED
    BY <1>1, <2>1, FreeInRole, OthersInRole DEF ReleasedBy
<1>8. CASE Abort(w)
  <2>1. pc'[w] = "idle" /\ ~err'[w]
    BY <1>8 DEF Abort, Leave, Typed, TypeOK
  <2> QED
    BY <1>1, <2>1, FreeInRole, OthersInRole
<1> QED
  BY <1>2, <1>3, <1>4, <1>5, <1>6, <1>7, <1>8 DEF CloseStep

LEMMA NextInRole ==
  ASSUME Typed, Typed', AllInOrder, AllInRole, [Next]_vars
  PROVE  AllInRole'
<1>1. faults \in Nat /\ faults' \in Nat /\ faults' >= faults
  BY FaultsGrow
<1>2. ASSUME NEW w \in Workers, pc[w] = "idle", pc' = [pc EXCEPT ![w] = "pick"],
             UNCHANGED <<book, local, err, faults>>
      PROVE  AllInRole'
  <2>1. pc'[w] = "pick" /\ \A v \in Workers \ {w} : pc'[v] = pc[v]
    BY <1>2 DEF Typed, TypeOK
  <2> SUFFICES ASSUME NEW v \in Workers PROVE InRole(v)'
    BY DEF AllInRole
  <2>2. InRole(v)
    BY DEF AllInRole
  <2> QED
    BY <1>2, <2>1, <2>2 DEF InRole, Opening
<1>3. CASE StartRisk \/ StartAuto
  BY <1>2, <1>3 DEF StartRisk, StartAuto, Workers
<1>4. CASE Crash
  BY <1>4 DEF Crash, AllInRole, InRole, Opening
<1>5. ASSUME UNCHANGED <<pc, book, local, err, faults>> PROVE AllInRole'
  BY <1>5 DEF AllInRole, InRole
<1> QED
  BY <1>1, <1>3, <1>4, <1>5, OpenInRole, CloseInRole DEF Next, DeleteExchange, locals, vars

(* The failures behind a row that an opener may reopen, at least: its own leg, *)
(* its unwind, the close that kept the strategy on a list of the risk manager, *)
(* and the two orders the risk manager sent.                                   *)
One(b) == IF b THEN 1 ELSE 0
Missed(k, l) ==
  \/ pst[k][l] = "error"
  \/ /\ pst[k][l] = "open"
     /\ \/ sst[k] = "active" \/ k \in plan[Risk]
        \/ \E v \in Workers \ {Risk} : book[v] = k /\ pc[v] = "closing" /\ l \notin todo[v]
  \/ book[Risk] = k /\ pc[Risk] = "closing"
Refused(k, l) == pst[k][l] = "error" \/ (book[Risk] = k /\ local[Risk][l] = "error")
Cost(w, k, l) == 1 + One(local[w][l] = "open") + One(Missed(k, l)) + 2 * One(Refused(k, l))

(* A closer that will call the strategy closed whatever the table says, and an *)
(* opener that may write "open" once more.                                     *)
Finishes(w, k) == book[w] = k /\ pc[w] = "closing" /\ (w = Risk \/ k \notin Spots) /\ ~err[w]
Reopens(w, k, l) ==
  k \in Spots /\ book[w] = k /\ pc[w] = "unwind" /\ (l \in todo[w] \/ local[w][l] = "open")

(* A row on record whose unit somebody will still close: it does not stay      *)
(* behind in a closed strategy.                                                *)
Attended(k, l) ==
  pst[k][l] = "open" =>
    sst[k] # "closed" /\ \A w \in Workers : Finishes(w, k) => l \in todo[w]
Paid(k, l) == \A w \in Workers : Reopens(w, k, l) => faults >= Cost(w, k, l)
Sure(k, l) == OnRow(k, l) /\ Attended(k, l) /\ Paid(k, l)

SureRows(m) == {x \in Strategies \X Legs : Market(x[1], x[2]) = m /\ Sure(x[1], x[2])}
HeldForSure ==
  \A m \in Markets \ gone :
    venue[m] <= Cardinality(Flying(m)) + stray[m] + Cardinality(SureRows(m))

LEMMA SureCounted ==
  ASSUME NEW m
  PROVE  IsFiniteSet(SureRows(m)) /\ IsFiniteSet(SureRows(m)')
<1>1. IsFiniteSet(Strategies \X Legs)
  BY WorkersFinite, BookAssumption, FS_Product
<1>2. SureRows(m) \subseteq Strategies \X Legs /\ SureRows(m)' \subseteq Strategies \X Legs
  BY DEF SureRows
<1> QED
  BY <1>1, <1>2, FS_Subset

(* A step of w that makes a failure count pays for it. *)
LEMMA PaidKept ==
  ASSUME NEW w \in Workers, Solo(w), NEW k \in Strategies, NEW l \in Legs, Paid(k, l),
         faults \in Nat, faults' \in Nat, faults' >= faults,
         \/ (Missed(k, l)' => Missed(k, l)) /\ (Refused(k, l)' => Refused(k, l))
         \/ (Refused(k, l)' => Refused(k, l)) /\ faults' >= faults + 1
         \/ (Missed(k, l)' => Missed(k, l)) /\ faults' >= faults + 2,
         Reopens(w, k, l)' => faults' >= Cost(w, k, l)'
  PROVE  Paid(k, l)'
<1> SUFFICES ASSUME NEW v \in Workers, v # w, Reopens(v, k, l)'
             PROVE  faults' >= Cost(v, k, l)'
  BY DEF Paid
<1>1. Reopens(v, k, l) /\ local'[v] = local[v]
  BY DEF Reopens, Solo
<1>2. faults >= Cost(v, k, l)
  BY <1>1 DEF Paid
<1>3. One(local'[v][l] = "open") = One(local[v][l] = "open")
  BY <1>1
<1>4. /\ One(local[v][l] = "open") \in {0, 1}
      /\ One(Missed(k, l)) = IF Missed(k, l) THEN 1 ELSE 0
      /\ One(Refused(k, l)) = IF Refused(k, l) THEN 1 ELSE 0
      /\ One(Missed(k, l)') = IF Missed(k, l)' THEN 1 ELSE 0
      /\ One(Refused(k, l)') = IF Refused(k, l)' THEN 1 ELSE 0
  BY DEF One
<1>5. Cost(v, k, l)' =
        1 + One(local[v][l] = "open") + One(Missed(k, l)') + 2 * One(Refused(k, l)')
  BY <1>3 DEF Cost, One
<1> QED
  BY <1>2, <1>4, <1>5 DEF Cost

LEMMA SureKept ==
  ASSUME NEW w \in Workers, Solo(w), NEW k \in Strategies, NEW l \in Legs, Sure(k, l),
         faults \in Nat, faults' \in Nat, faults' >= faults,
         pst'[k][l] \in {"open", "error"},
         book'[w] = k => local'[w][l] # "closed",
         pst'[k][l] = "open" => /\ pst[k][l] = "open" /\ sst'[k] # "closed"
                                /\ Finishes(w, k)' => l \in todo'[w],
         \/ (Missed(k, l)' => Missed(k, l)) /\ (Refused(k, l)' => Refused(k, l))
         \/ (Refused(k, l)' => Refused(k, l)) /\ faults' >= faults + 1
         \/ (Missed(k, l)' => Missed(k, l)) /\ faults' >= faults + 2,
         Reopens(w, k, l)' => faults' >= Cost(w, k, l)'
  PROVE  Sure(k, l)'
<1>1. OnRow(k, l)'
  BY DEF Sure, OnRow, Solo
<1>2. Attended(k, l)'
  <2>1. ASSUME NEW v \in Workers, v # w PROVE /\ Finishes(v, k)' <=> Finishes(v, k)
                                             /\ todo'[v] = todo[v]
    BY <2>1 DEF Finishes, Solo
  <2> QED
    BY <2>1 DEF Sure, Attended
<1>3. Paid(k, l)'
  BY PaidKept DEF Sure
<1> QED
  BY <1>1, <1>2, <1>3 DEF Sure

(* What makes a failed close count: it did before, or w has just done its part. *)
LEMMA MissedKept ==
  ASSUME NEW w \in Workers, Solo(w), NEW k \in Strategies, NEW l \in Legs,
         pst'[k][l] = pst[k][l],
         pst[k][l] = "open" /\ sst'[k] = "active" => Missed(k, l),
         pst[k][l] = "open" /\ k \in plan'[w] /\ w = Risk => Missed(k, l),
         pst[k][l] = "open" /\ w # Risk /\ book'[w] = k /\ pc'[w] = "closing" /\ l \notin todo'[w]
           => Missed(k, l),
         w = Risk /\ book'[w] = k /\ pc'[w] = "closing" => Missed(k, l),
         Missed(k, l)'
  PROVE  Missed(k, l)
<1>1. CASE pst[k][l] = "error"
  BY <1>1 DEF Missed
<1>2. CASE pst[k][l] = "open" /\ sst'[k] = "active"
  BY <1>2
<1>3. Risk \in Workers
  BY DEF Workers
<1>4. CASE pst[k][l] = "open" /\ k \in plan'[Risk]
  BY <1>3, <1>4 DEF Missed, Solo
<1>5. ASSUME pst[k][l] = "open",
             NEW v \in Workers \ {Risk}, book'[v] = k, pc'[v] = "closing", l \notin todo'[v]
      PROVE  Missed(k, l)
  BY <1>5 DEF Missed, Solo
<1>6. CASE book'[Risk] = k /\ pc'[Risk] = "closing"
  BY <1>3, <1>6 DEF Missed, Solo
<1> QED
  BY <1>1, <1>2, <1>4, <1>5, <1>6 DEF Missed

(* A step of w on another strategy, or that only looks at this one. *)
LEMMA OtherRowSure ==
  ASSUME NEW w \in Workers, Solo(w), NEW k \in Strategies, NEW l \in Legs, Sure(k, l),
         faults \in Nat, faults' \in Nat, faults' >= faults,
         pst'[k] = pst[k], sst'[k] = sst[k],
         k \in plan'[w] => w # Risk \/ k \in plan[w] \/ sst[k] = "active",
         book'[w] = k => local'[w] = Kept /\ pc'[w] \notin {"closing", "unwind"}
  PROVE  Sure(k, l)'
<1>1. Missed(k, l)' => Missed(k, l)
  <2>1. pst[k][l] = "open" /\ sst'[k] = "active" => Missed(k, l)
    BY DEF Missed
  <2>2. pst[k][l] = "open" /\ k \in plan'[w] /\ w = Risk => Missed(k, l)
    BY DEF Missed
  <2> QED
    BY <2>1, <2>2, MissedKept
<1>2. Refused(k, l)' => Refused(k, l)
  BY DEF Refused, Solo, Kept, Workers
<1>3. ~Finishes(w, k)' /\ ~Reopens(w, k, l)'
  BY DEF Finishes, Reopens
<1>4. pst'[k][l] \in {"open", "error"} /\ (pst'[k][l] = "open" => sst'[k] # "closed")
  BY DEF Sure, OnRow, Attended
<1> QED
  BY <1>1, <1>2, <1>3, <1>4, SureKept DEF Kept

LEMMA CloseBeginSure ==
  ASSUME Typed, AllInOrder, NEW w \in Workers, NEW q \in Strategies, CloseBegin(w, q),
         faults \in Nat, NEW k \in Strategies, NEW l \in Legs, Sure(k, l)
  PROVE  Sure(k, l)'
<1>1. /\ Solo(w) /\ faults' = faults /\ pst' = pst
      /\ sst' = [sst EXCEPT ![q] = "closing"]
      /\ pc'[w] = "closing" /\ book'[w] = q /\ local'[w] = Kept
      /\ todo'[w] = {x \in Legs : pst[q][x] = "open"}
      /\ plan'[w] = plan[w] \ {q}
      /\ w = Risk => q \in plan[w]
  <2>1. Solo(w)
    BY WorkerSolo DEF CloseStep
  <2>2. pc[w] \in {"checked", "pick"}
    BY DEF CloseBegin, Chosen
  <2>3. local[w] = Kept
    BY <2>2 DEF AllInOrder, InOrder
  <2>4. w = Risk => q \in plan[w]
    BY BookAssumption DEF CloseBegin, Chosen
  <2> QED
    BY <2>1, <2>3, <2>4 DEF CloseBegin, Typed, TypeOK
<1>2. CASE k # q
  <2>1. sst'[k] = sst[k]
    BY <1>1, <1>2 DEF Typed, TypeOK
  <2> QED
    BY <1>1, <1>2, <2>1, OtherRowSure
<1>3. CASE k = q
  <2>1. sst'[k] = "closing"
    BY <1>1, <1>3 DEF Typed, TypeOK
  <2>2. pst[k][l] \in {"open", "error"}
    BY DEF Sure, OnRow
  <2>3. w = Risk => Missed(k, l)
    BY <1>1, <1>3, <2>2 DEF Missed
  <2>4. Missed(k, l)' => Missed(k, l)
    BY <1>1, <1>3, <2>1, <2>3, MissedKept
  <2>5. Refused(k, l)' => Refused(k, l)
    BY <1>1 DEF Refused, Solo, Kept, Workers
  <2>6. ~Reopens(w, k, l)'
    BY <1>1 DEF Reopens
  <2>7. pst[k][l] = "open" => l \in todo'[w]
    BY <1>1, <1>3
  <2> QED
    BY <1>1, <2>1, <2>2, <2>4, <2>5, <2>6, <2>7, SureKept DEF Kept
<1> QED
  BY <1>2, <1>3

(* A leg that a closer passes: its own row may go, every other one stays. *)
LEMMA LegPassedSure ==
  ASSUME Typed, NEW w \in Workers, Solo(w), pc[w] = "closing", NEW x \in Legs,
         UNCHANGED <<sst, pst, pc, book, plan>>,
         todo'[w] = todo[w] \ {x}, \A l \in Legs \ {x} : local'[w][l] = local[w][l],
         err[w] => err'[w],
         faults \in Nat, faults' \in Nat, faults' >= faults,
         NEW k \in Strategies, NEW l \in Legs, Sure(k, l), <<k, l>> # <<book[w], x>>
  PROVE  Sure(k, l)'
<1>1. CASE k # book[w]
  BY <1>1, OtherRowSure
<1>2. CASE k = book[w]
  <2>1. l # x /\ local'[w][l] = local[w][l] /\ (l \in todo'[w] <=> l \in todo[w])
    BY <1>2
  <2>2. pst[k][l] \in {"open", "error"} /\ local[w][l] # "closed"
    BY <1>2 DEF Sure, OnRow
  <2>3. pst[k][l] = "open" => sst[k] # "closed" /\ (Finishes(w, k)' => l \in todo'[w])
    BY <2>1 DEF Sure, Attended, Finishes
  <2>4. Missed(k, l)' => Missed(k, l)
    <3>1. pst[k][l] = "open" /\ w # Risk /\ l \notin todo'[w] => Missed(k, l)
      BY <1>2, <2>1 DEF Missed
    <3>2. pst[k][l] = "open" /\ sst'[k] = "active" => Missed(k, l)
      BY DEF Missed
    <3>3. w = Risk => Missed(k, l)
      BY <1>2 DEF Missed
    <3> QED
      BY <3>1, <3>2, <3>3, MissedKept
  <2>5. Refused(k, l)' => Refused(k, l)
    BY <2>1 DEF Refused, Solo, Workers
  <2>6. ~Reopens(w, k, l)'
    BY DEF Reopens
  <2> QED
    BY <2>1, <2>2, <2>3, <2>4, <2>5, <2>6, SureKept
<1> QED
  BY <1>1, <1>2

(* A close that failed counts as missed, one of the risk manager as refused *)
(* too, at two failures unless nothing is held any more.                    *)
LEMMA LegRefusedSure ==
  ASSUME Typed, NEW w \in Workers, Solo(w), pc[w] = "closing", NEW l \in Legs,
         UNCHANGED <<sst, pst, pc, book, plan>>,
         local'[w][l] = LegAfter(w, FALSE), err'[w],
         faults \in Nat, faults' \in Nat, faults' >= faults,
         w # Risk => faults' >= faults + 1,
         w = Risk => faults' >= faults + 2,
         Sure(book[w], l), book[w] \in Strategies
  PROVE  Sure(book[w], l)'
<1> PICK k \in Strategies : k = book[w]
  OBVIOUS
<1>1. pst[k][l] \in {"open", "error"} /\ local'[w][l] # "closed"
  BY DEF Sure, OnRow, LegAfter
<1>2. pst[k][l] = "open" => sst[k] # "closed" /\ ~Finishes(w, k)'
  BY DEF Sure, Attended, Finishes
<1>3. ~Reopens(w, k, l)'
  BY DEF Reopens
<1>4. CASE w # Risk
  <2>1. Refused(k, l)' => Refused(k, l)
    BY <1>4 DEF Refused, Solo, Workers
  <2>2. Sure(k, l)'
    BY <1>1, <1>2, <1>3, <1>4, <2>1, SureKept
  <2> QED
    BY <2>2
<1>5. CASE w = Risk
  <2>1. Missed(k, l)
    BY <1>5 DEF Missed
  <2>2. Sure(k, l)'
    BY <1>1, <1>2, <1>3, <1>5, <2>1, SureKept
  <2> QED
    BY <2>2
<1> QED
  BY <1>4, <1>5

LEMMA CloseEndSure ==
  ASSUME Typed, AllInRole, NEW w \in Workers, CloseEnd(w), faults \in Nat,
         NEW k \in Strategies, NEW l \in Legs, Sure(k, l)
  PROVE  Sure(k, l)'
<1>1. /\ Solo(w) /\ faults' = faults /\ ReleasedBy(w) /\ plan' = plan
      /\ pc[w] = "closing" /\ todo[w] = {} /\ book[w] \in Strategies
      /\ pst' = [pst EXCEPT ![book[w]] = Flushed(@, local[w])]
      /\ sst' = [sst EXCEPT ![book[w]] =
                   IF w # Risk /\ book[w] \in Spots
                   THEN IF Remaining(w, book[w]) THEN "active" ELSE "closed"
                   ELSE IF err[w] THEN "error" ELSE "closed"]
  BY WorkerSolo, ReleaseClears DEF CloseStep, CloseEnd, Typed, BookInHand, HeldStages
<1>2. book'[w] # k
  BY <1>1, BookAssumption DEF ReleasedBy
<1>3. CASE k # book[w]
  <2>1. sst'[k] = sst[k] /\ pst'[k] = pst[k]
    BY <1>1, <1>3 DEF Typed, TypeOK
  <2> QED
    BY <1>1, <1>2, <2>1, OtherRowSure
<1>4. CASE k = book[w]
  <2>1. pst[k][l] \in {"open", "error"} /\ local[w][l] # "closed"
    BY <1>4 DEF Sure, OnRow
  <2>2. local[w][l] = "kept" \/ (w = Risk /\ local[w][l] = "error")
    BY <1>1, <2>1 DEF AllInRole, InRole
  <2>3. pst'[k][l] = IF local[w][l] = "kept" THEN pst[k][l] ELSE local[w][l]
    BY <1>1, <1>4 DEF Flushed, Typed, TypeOK
  <2>4. pst[k][l] = "open" => sst[k] # "closed" /\ ~Finishes(w, k)
    BY <1>1 DEF Sure, Attended
  <2>5. ASSUME pst[k][l] = "open"
        PROVE  /\ sst'[k] \in {"active", "error"}
               /\ sst'[k] = "active" => w # Risk
    <3>1. Remaining(w, k)
      BY <2>5 DEF Remaining
    <3>2. ~(w # Risk /\ k \in Spots) => err[w]
      BY <1>1, <1>4, <2>4, <2>5 DEF Finishes
    <3> QED
      BY <1>1, <1>4, <3>1, <3>2 DEF Typed, TypeOK
  <2>6. pst[k][l] = "open" => Missed(k, l)
    BY <1>1, <1>4 DEF Missed
  <2>7. Missed(k, l)
    BY <2>1, <2>6 DEF Missed
  <2>8. Refused(k, l)' => Refused(k, l)
    <3>1. book'[Risk] = k => w # Risk /\ book[Risk] = k /\ local'[Risk] = local[Risk]
      BY <1>1, <1>2 DEF Solo, Workers
    <3>2. pst'[k][l] = "error" => Refused(k, l)
      BY <1>4, <2>2, <2>3 DEF Refused
    <3> QED
      BY <3>1, <3>2 DEF Refused
  <2>9. ~Reopens(w, k, l)' /\ ~Finishes(w, k)'
    BY <1>2 DEF Reopens, Finishes
  <2> QED
    BY <1>1, <1>2, <2>1, <2>2, <2>3, <2>5, <2>7, <2>8, <2>9, SureKept
<1> QED
  BY <1>3, <1>4

(* The unwind of the opener: a failure of its own, on top of the failed leg. *)
LEMMA UnwindSure ==
  ASSUME Typed, AllInRole, NEW w \in Workers, Solo(w), pc[w] = "unwind",
         UNCHANGED <<sst, pst, pc, book, plan>>, NEW x \in Legs, x \in todo[w], todo'[w] = {},
         NEW ok \in BOOLEAN,
         local'[w] = [local[w] EXCEPT ![x] =
                        IF ok THEN "closed" ELSE IF book[w] \in Spots THEN "open" ELSE "kept"],
         faults \in Nat, faults' \in Nat, faults' >= faults, ~ok => faults' >= faults + 1,
         NEW k \in Strategies, NEW l \in Legs, Sure(k, l), <<k, l>> # <<book[w], x>> \/ ~ok
  PROVE  Sure(k, l)'
<1>1. CASE k # book[w]
  BY <1>1, OtherRowSure
<1>2. CASE k = book[w]
  <2>1. local[w] \in [Legs -> Statuses \cup {"kept"}] /\ w # Risk
    BY DEF Typed, TypeOK, AllInRole, InRole
  <2>2. pst[k][l] \in {"open", "error"} /\ local[w][l] # "closed"
    BY <1>2 DEF Sure, OnRow
  <2>3. /\ local'[w][l] # "closed"
        /\ local'[w][l] = "open" => local[w][l] = "open" \/ (l = x /\ ~ok)
    BY <1>2, <2>1, <2>2
  <2>4. Missed(k, l)' => Missed(k, l)
    <3>1. pst[k][l] = "open" /\ sst'[k] = "active" => Missed(k, l)
      BY DEF Missed
    <3> QED
      BY <2>1, <3>1, MissedKept
  <2>5. Refused(k, l)' => Refused(k, l)
    BY <2>1 DEF Refused, Solo, Workers
  <2>6. ASSUME Reopens(w, k, l)' PROVE faults' >= Cost(w, k, l)'
    <3>1. local'[w][l] = "open"
      BY <2>6 DEF Reopens
    <3>2. Reopens(w, k, l)
      BY <2>3, <2>6, <3>1 DEF Reopens
    <3>3. faults >= Cost(w, k, l)
      BY <3>2 DEF Sure, Paid
    <3>4. One(local[w][l] = "open") = 1 \/ (One(local[w][l] = "open") = 0 /\ faults' >= faults + 1)
      BY <2>3, <3>1 DEF One
    <3>5. Cost(w, k, l)' <= 2 + One(Missed(k, l)) + 2 * One(Refused(k, l))
      <4>1. Cost(w, k, l)' = 1 + 1 + One(Missed(k, l)') + 2 * One(Refused(k, l)')
        BY <3>1 DEF Cost, One
      <4> QED
        BY <2>4, <2>5, <4>1 DEF One
    <3>6. One(Missed(k, l)) \in {0, 1} /\ One(Refused(k, l)) \in {0, 1} /\ Cost(w, k, l)' \in Nat
      BY DEF One, Cost
    <3> QED
      BY <3>3, <3>4, <3>5, <3>6 DEF Cost
  <2>7. pst[k][l] = "open" => sst[k] # "closed" /\ ~Finishes(w, k)'
    BY DEF Sure, Attended, Finishes
  <2> QED
    BY <2>2, <2>3, <2>4, <2>5, <2>6, <2>7, SureKept
<1> QED
  BY <1>1, <1>2

(* The last commit of a failed open: what it reopens in a strategy it calls    *)
(* closed cost five failures.                                                  *)
LEMMA SettleSure ==
  ASSUME Typed, AllInRole, NEW w \in Workers, Settle(w), faults \in Nat, faults <= 4,
         NEW k \in Strategies, NEW l \in Legs, Sure(k, l)
  PROVE  Sure(k, l)'
<1>1. /\ Solo(w) /\ faults' = faults /\ ReleasedBy(w) /\ plan' = plan
      /\ pc[w] = "unwind" /\ book[w] \in Strategies
      /\ pst' = [pst EXCEPT ![book[w]] = Flushed(@, local[w])]
      /\ sst' = [sst EXCEPT ![book[w]] =
                   IF book[w] \notin Spots THEN @
                   ELSE IF Remaining(w, book[w]) THEN "active" ELSE "closed"]
  BY WorkerSolo, ReleaseClears DEF OpenStep, Settle, Typed, BookInHand, HeldStages
<1>2. book'[w] # k
  BY <1>1, BookAssumption DEF ReleasedBy
<1>3. CASE k # book[w]
  <2>1. sst'[k] = sst[k] /\ pst'[k] = pst[k]
    BY <1>1, <1>3 DEF Typed, TypeOK
  <2> QED
    BY <1>1, <1>2, <2>1, OtherRowSure
<1>4. CASE k = book[w]
  <2>1. /\ pst[k][l] \in {"open", "error"} /\ local[w][l] # "closed"
        /\ pst[k][l] = "open" => sst[k] # "closed"
    BY <1>4 DEF Sure, OnRow, Attended
  <2>2. InRole(w) /\ local[w][l] \in Statuses \cup {"kept"}
    BY DEF AllInRole, Typed, TypeOK
  <2>3. pst'[k][l] = IF local[w][l] = "kept" THEN pst[k][l] ELSE local[w][l]
    BY <1>1, <1>4 DEF Flushed, Typed, TypeOK
  <2>4. local[w][l] = "open" => pst[k][l] = "open"
    <3> SUFFICES ASSUME local[w][l] = "open", pst[k][l] = "error" PROVE FALSE
      BY <2>1
    <3>1. k \in Spots
      BY <1>1, <1>4, <2>2 DEF InRole
    <3>2. faults >= Cost(w, k, l)
      BY <1>1, <1>4, <3>1 DEF Sure, Paid, Reopens
    <3>3. Cost(w, k, l) = 5
      BY DEF Cost, One, Missed, Refused
    <3> QED
      BY <3>2, <3>3
  <2>5. pst'[k][l] \in {"open", "error"} /\ (pst'[k][l] = "open" => pst[k][l] = "open")
    BY <2>1, <2>2, <2>3, <2>4 DEF Statuses
  <2>6. pst[k][l] = "open" => sst'[k] # "closed"
    BY <1>1, <1>4, <2>1 DEF Remaining, Typed, TypeOK
  <2>7. OnRow(k, l)'
    BY <1>1, <1>2, <2>5 DEF Sure, OnRow, Solo
  <2>8. Attended(k, l)'
    <3>1. \A v \in Workers : Finishes(v, k)' => Finishes(v, k) /\ todo'[v] = todo[v]
      BY <1>1, <1>2 DEF Finishes, Solo
    <3> QED
      BY <2>5, <2>6, <3>1 DEF Sure, Attended
  <2>9. \A v \in Workers : ~Reopens(v, k, l)'
    <3> SUFFICES ASSUME NEW v \in Workers, book'[v] = k, pc'[v] = "unwind" PROVE FALSE
      BY DEF Reopens
    <3>1. v # w /\ book[v] = k /\ pc[v] = "unwind"
      BY <1>1, <1>2 DEF Solo
    <3> QED
      BY <1>1, <1>4, <2>2, <3>1 DEF InRole
  <2> QED
    BY <2>7, <2>8, <2>9 DEF Sure, Paid
<1> QED
  BY <1>3, <1>4

(* An opener has no row yet: what it writes is new, and attended. *)
LEMMA OpenerHasNoRow ==
  ASSUME AllInOrder, NEW w \in Workers, pc[w] \in Opening, NEW k \in Strategies, NEW l \in Legs,
         Sure(k, l)
  PROVE  k # book[w]
BY DEF AllInOrder, NoRowYet, InOrder, NoLegs, Sure, OnRow

LEMMA ReportedSure ==
  ASSUME Typed, AllInOrder, AllInRole, NEW w \in Workers, ReportSpot(w) \/ ReportError(w),
         faults \in Nat, NEW k \in Strategies, k = book[w], NEW l \in Legs, local[w][l] = "open"
  PROVE  Sure(k, l)'
<1>1. /\ Solo(w) /\ faults' = faults /\ plan' = plan /\ pc[w] = "report"
      /\ pst'[k][l] = "open" /\ sst'[k] \in {"active", "error"}
      /\ sst'[k] = "active" => book'[w] # k
      /\ book'[w] = k => pc'[w] = "unwind" /\ err[w]
      /\ local'[w] = Kept
  <2>1. Solo(w)
    BY WorkerSolo DEF OpenStep
  <2>2. CASE ReportSpot(w)
    <3>1. ReleasedBy(w)
      BY <2>2, ReleaseClears DEF ReportSpot
    <3> QED
      BY <2>1, <2>2, <3>1, BookAssumption DEF ReportSpot, ReleasedBy, Typed, TypeOK
  <2>3. CASE ReportError(w)
    BY <2>1, <2>3 DEF ReportError, Typed, TypeOK
  <2> QED
    BY <2>2, <2>3
<1>2. sst[k] = "none" /\ \A v \in Workers \ {w} : book'[v] # k
  BY <1>1 DEF AllInOrder, InOrder, Opening, Solo
<1>3. OnRow(k, l)'
  BY <1>1, <1>2 DEF OnRow, Kept
<1>4. Attended(k, l)'
  BY <1>1, <1>2 DEF Attended, Finishes
<1>5. ASSUME NEW v \in Workers, Reopens(v, k, l)' PROVE faults' >= Cost(v, k, l)'
  <2>1. v = w /\ book'[w] = k /\ pc'[w] = "unwind" /\ err[w] /\ sst'[k] = "error"
    BY <1>1, <1>2, <1>5 DEF Reopens
  <2>2. faults >= 1 /\ w # Risk
    BY <1>1, <2>1 DEF AllInRole, InRole, Opening
  <2>3. k \notin plan[Risk]
    BY <1>2 DEF AllInOrder, InOrder, Workers
  <2>4. ~Missed(k, l)' /\ ~Refused(k, l)'
    BY <1>1, <1>2, <2>1, <2>2, <2>3 DEF Missed, Refused, Workers
  <2>5. Cost(v, k, l)' = 1
    BY <1>1, <2>1, <2>4 DEF Cost, One, Kept
  <2> QED
    BY <1>1, <2>2, <2>5
<1> QED
  BY <1>3, <1>4, <1>5 DEF Sure, Paid

LEMMA CrashSure ==
  ASSUME Crash, NEW k \in Strategies, NEW l \in Legs, Sure(k, l)
  PROVE  Sure(k, l)'
<1>1. /\ UNCHANGED <<sst, pst>>
      /\ \A v \in Workers : pc'[v] = "idle" /\ local'[v][l] = "kept"
  BY DEF Crash, database, Kept
<1>2. OnRow(k, l)'
  BY <1>1 DEF Sure, OnRow
<1>3. Attended(k, l)'
  BY <1>1 DEF Sure, Attended, Finishes
<1>4. Paid(k, l)'
  BY <1>1 DEF Paid, Reopens
<1> QED
  BY <1>2, <1>3, <1>4 DEF Sure

-----------------------------------------------------------------------------
(* The units and the rows that are sure.                                   *)

LEMMA SureGrows ==
  ASSUME \A k \in Strategies, l \in Legs : Sure(k, l) => Sure(k, l)', NEW m
  PROVE  SureRows(m) \subseteq SureRows(m)'
BY DEF SureRows, Market

(* A step that moves no unit and no opener. *)
LEMMA StillSure ==
  ASSUME Typed, HeldForSure, NEW w \in Workers, Solo(w), pc[w] \notin {"second", "report"},
         UNCHANGED <<venue, stray, gone>>,
         \A k \in Strategies, l \in Legs : Sure(k, l) => Sure(k, l)'
  PROVE  HeldForSure'
<1> SUFFICES ASSUME NEW m \in Markets \ gone
             PROVE  venue'[m] <= Cardinality(Flying(m)') + stray'[m] + Cardinality(SureRows(m)')
  BY DEF HeldForSure
<1>1. Aside(w)
  BY DEF Aside, Stands, Solo
<1> QED
  BY <1>1, SureGrows, SureCounted, FlyingKept, StillCovers DEF HeldForSure

LEMMA QuietStepsSure ==
  ASSUME Typed, AllInOrder, AllInRole, HeldForSure, faults \in Nat, faults <= 4,
         NEW w \in Workers,
         \/ \E k \in Strategies : OpenBegin(w, k) \/ CloseCheck(w, k) \/ CloseBegin(w, k)
         \/ EndPass(w) \/ Settle(w) \/ CloseEnd(w) \/ \E l \in Legs : BreakClose(w, l)
  PROVE  HeldForSure'
<1>1. /\ Solo(w) /\ pc[w] \notin {"second", "report"} /\ faults' = faults
      /\ UNCHANGED <<venue, stray, gone>>
  <2>1. Solo(w)
    BY WorkerSolo DEF OpenStep, CloseStep
  <2> QED
    BY <2>1 DEF OpenBegin, CloseCheck, CloseBegin, Chosen, EndPass, Settle, CloseEnd, BreakClose,
                database
<1> SUFFICES ASSUME NEW k \in Strategies, NEW l \in Legs, Sure(k, l) PROVE Sure(k, l)'
  BY <1>1, StillSure
<1>2. ASSUME NEW q \in Strategies, OpenBegin(w, q) \/ CloseCheck(w, q) PROVE Sure(k, l)'
  <2>1. pc[w] \in {"idle", "pick"} /\ UNCHANGED <<sst, pst, plan, local>> /\ pc'[w] \in {"first", "checked"}
    BY <1>2 DEF OpenBegin, CloseCheck, database, Typed, TypeOK
  <2>2. local'[w] = Kept
    BY <2>1 DEF AllInOrder, InOrder
  <2> QED
    BY <1>1, <2>1, <2>2, OtherRowSure
<1>3. CASE EndPass(w)
  <2>1. pc[w] = "pick" /\ UNCHANGED <<sst, pst, local>> /\ pc'[w] = "idle" /\ plan'[w] = {}
    BY <1>3 DEF EndPass, database, Typed, TypeOK
  <2>2. local'[w] = Kept
    BY <2>1 DEF AllInOrder, InOrder
  <2> QED
    BY <1>1, <2>1, <2>2, OtherRowSure
<1>4. ASSUME NEW x \in Legs, BreakClose(w, x) PROVE Sure(k, l)'
  <2>1. ReleasedBy(w) /\ UNCHANGED <<sst, pst, plan>>
    BY <1>4, ReleaseClears DEF BreakClose, database
  <2> QED
    BY <1>1, <2>1, OtherRowSure DEF ReleasedBy
<1>5. ASSUME NEW q \in Strategies, CloseBegin(w, q) PROVE Sure(k, l)'
  BY <1>5, CloseBeginSure
<1>6. CASE CloseEnd(w)
  BY <1>6, CloseEndSure
<1>7. CASE Settle(w)
  BY <1>7, SettleSure
<1> QED
  BY <1>2, <1>3, <1>4, <1>5, <1>6, <1>7

LEMMA PlaceHeldSure ==
  ASSUME Typed, AllInOrder, HeldForSure, faults \in Nat, faults' \in Nat, faults' >= faults,
         NEW w \in Workers, Place(w)
  PROVE  HeldForSure'
<1>1. /\ Solo(w) /\ pc[w] \in Opening /\ pc'[w] \in Opening /\ book' = book
      /\ UNCHANGED <<sst, pst, gone, plan>>
  <2>1. Solo(w)
    BY WorkerSolo DEF OpenStep
  <2> QED
    BY <2>1 DEF Place, Opening, database, Typed, TypeOK
<1>2. ASSUME NEW k \in Strategies, NEW l \in Legs, Sure(k, l) PROVE Sure(k, l)'
  <2>1. k # book[w]
    BY <1>1, <1>2, OpenerHasNoRow
  <2> QED
    BY <1>1, <1>2, <2>1, OtherRowSure
<1>3. \A m \in Markets : SureRows(m) \subseteq SureRows(m)'
  BY <1>2, SureGrows
<1> QED
  BY <1>1, <1>3, SureCounted, PlaceCovers DEF HeldForSure

LEMMA ReportHeldSure ==
  ASSUME Typed, AllInOrder, AllInRole, HeldForSure, faults \in Nat,
         NEW w \in Workers, ReportSpot(w) \/ ReportError(w)
  PROVE  HeldForSure'
<1> PICK b \in Strategies : b = book[w]
  BY DEF ReportSpot, ReportError, Typed, BookInHand, HeldStages
<1>1. /\ Solo(w) /\ Aside(w) /\ pc[w] = "report" /\ faults' = faults
      /\ UNCHANGED <<venue, stray, gone, plan>>
      /\ \A k \in Strategies \ {b} : sst'[k] = sst[k] /\ pst'[k] = pst[k]
      /\ \A k \in Strategies \ {b} : book'[w] # k
  <2>1. Solo(w)
    BY WorkerSolo DEF OpenStep
  <2>2. ReportSpot(w) => ReleasedBy(w)
    BY ReleaseClears DEF ReportSpot
  <2> QED
    BY <2>1, <2>2, BookAssumption
    DEF ReportSpot, ReportError, ReleasedBy, Aside, Stands, Solo, Typed, TypeOK
<1>2. ASSUME NEW k \in Strategies, NEW l \in Legs, Sure(k, l) PROVE Sure(k, l)' /\ k # b
  <2>1. k # b
    BY <1>1, <1>2, OpenerHasNoRow DEF Opening
  <2> QED
    BY <1>1, <1>2, <2>1, OtherRowSure
<1> SUFFICES ASSUME NEW m \in Markets \ gone
             PROVE  venue'[m] <= Cardinality(Flying(m)') + stray'[m] + Cardinality(SureRows(m)')
  BY <1>1 DEF HeldForSure
<1>3. SureRows(m) \subseteq SureRows(m)'
  BY <1>2, SureGrows
<1>4. ASSUME NEW l \in Legs, <<w, l>> \in Flying(m)
      PROVE  <<book[w], l>> \in SureRows(m)' /\ <<book[w], l>> \notin SureRows(m)
  <2>1. local[w][l] = "open" /\ Market(b, l) = m
    BY <1>4 DEF Flying
  <2>2. Sure(b, l)'
    BY <2>1, ReportedSure
  <2>3. ~Sure(b, l)
    BY <1>2
  <2> QED
    BY <2>1, <2>2, <2>3 DEF SureRows, Market
<1> QED
  BY <1>1, <1>3, <1>4, SureCounted, ReportCovers DEF HeldForSure

LEMMA CloseLegHeldSure ==
  ASSUME Typed, HeldForSure, faults \in Nat, faults' \in Nat, faults' >= faults,
         NEW w \in Workers, NEW l \in Legs, CloseLeg(w, l)
  PROVE  HeldForSure'
<1> PICK b \in Strategies : b = book[w]
  BY DEF CloseLeg, Typed, BookInHand, HeldStages
<1> DEFINE m == Market(book[w], l)
<1>1. PICK o \in CloseOutcomes(w, m) :
        /\ Call(m, o)
        /\ local' = [local EXCEPT ![w][l] = LegAfter(w, o.ok)]
        /\ err' = [err EXCEPT ![w] = @ \/ ~o.ok]
  BY DEF CloseLeg
<1>2. /\ Solo(w) /\ Aside(w) /\ pc[w] = "closing"
      /\ UNCHANGED <<sst, pst, pc, book, plan, gone>>
      /\ todo'[w] = todo[w] \ {l}
  <2>1. Solo(w)
    BY WorkerSolo DEF CloseStep
  <2> QED
    BY <2>1 DEF CloseLeg, Aside, Stands, Solo, database, Typed, TypeOK
<1>3. /\ m \in Markets /\ o.ok \in BOOLEAN
      /\ ~o.ok /\ w # Risk => faults' >= faults + 1
      /\ ~o.ok /\ w = Risk => faults' >= faults + 2 \/ venue'[m] = 0
  <2>1. m \in Markets
    BY MarketType
  <2>2. /\ faults' = faults + o.f /\ o.f \in Nat /\ o.ok \in BOOLEAN
        /\ ~o.ok /\ w # Risk => o.f >= 1
        /\ ~o.ok => o.f >= 2 \/ venue'[m] = 0 \/ w # Risk
    BY <1>1, <2>1, CloseFaults
  <2> QED
    BY <2>1, <2>2
<1>4. /\ \A x \in Legs \ {l} : local'[w][x] = local[w][x]
      /\ local'[w][l] = LegAfter(w, o.ok)
      /\ err[w] \/ ~o.ok => err'[w]
  BY <1>1, <1>3 DEF Typed, TypeOK
<1>5. ASSUME NEW k \in Strategies, NEW x \in Legs, Sure(k, x), <<k, x>> # <<book[w], l>>
      PROVE  Sure(k, x)'
  BY <1>2, <1>4, <1>5, LegPassedSure
<1>6. ASSUME Sure(b, l), ~o.ok, venue'[m] # 0 PROVE Sure(b, l)'
  <2>1. LegAfter(w, o.ok) = LegAfter(w, FALSE)
    BY <1>3, <1>6
  <2> QED
    BY <1>2, <1>3, <1>4, <1>6, <2>1, LegRefusedSure
<1> SUFFICES ASSUME NEW n \in Markets \ gone
             PROVE  venue'[n] <= Cardinality(Flying(n)') + stray'[n] + Cardinality(SureRows(n)')
  BY <1>2 DEF HeldForSure
<1>7. SureRows(n) \ {<<book[w], l>>} \subseteq SureRows(n)'
  BY <1>5 DEF SureRows, Market
<1>8. \/ n = m /\ (o.ok \/ venue'[n] = 0)
      \/ SureRows(n) \subseteq SureRows(n)'
  <2>1. CASE n # m
    <3>1. <<book[w], l>> \notin SureRows(n)
      BY <2>1 DEF SureRows
    <3> QED
      BY <1>7, <3>1
  <2>2. CASE n = m /\ ~o.ok /\ venue'[n] # 0
    <3>1. <<book[w], l>> \in SureRows(n) => <<book[w], l>> \in SureRows(n)'
      BY <1>6, <2>2 DEF SureRows, Market
    <3> QED
      BY <1>7, <3>1
  <2> QED
    BY <2>1, <2>2
<1>9. venue[n] <= Cardinality(Flying(n)) + stray[n] + Cardinality(SureRows(n))
  BY <1>2 DEF HeldForSure
<1> QED
  BY <1>1, <1>2, <1>7, <1>8, <1>9, SureCounted, CallCovers

LEMMA SkipLegHeldSure ==
  ASSUME Typed, HeldForSure, faults \in Nat, NEW w \in Workers, NEW l \in Legs, SkipLeg(w, l)
  PROVE  HeldForSure'
<1>1. /\ Solo(w) /\ Aside(w) /\ pc[w] = "closing" /\ faults' = faults
      /\ UNCHANGED <<sst, pst, pc, book, plan, gone, venue, stray, local>>
      /\ todo'[w] = todo[w] \ {l} /\ (err[w] => err'[w])
      /\ Market(book[w], l) \in gone
  <2>1. Solo(w)
    BY WorkerSolo DEF CloseStep
  <2> QED
    BY <2>1 DEF SkipLeg, Aside, Stands, Solo, database, Typed, TypeOK
<1>2. ASSUME NEW k \in Strategies, NEW x \in Legs, Sure(k, x), <<k, x>> # <<book[w], l>>
      PROVE  Sure(k, x)'
  BY <1>1, <1>2, LegPassedSure
<1> SUFFICES ASSUME NEW n \in Markets \ gone
             PROVE  venue'[n] <= Cardinality(Flying(n)') + stray'[n] + Cardinality(SureRows(n)')
  BY <1>1 DEF HeldForSure
<1>3. SureRows(n) \subseteq SureRows(n)'
  BY <1>1, <1>2 DEF SureRows, Market
<1>4. venue[n] <= Cardinality(Flying(n)) + stray[n] + Cardinality(SureRows(n))
  BY DEF HeldForSure
<1> QED
  BY <1>1, <1>3, <1>4, SureCounted, FlyingKept, StillCovers

LEMMA UnwindHeldSure ==
  ASSUME Typed, AllInRole, HeldForSure, faults \in Nat, faults' \in Nat, faults' >= faults,
         NEW w \in Workers, Unwind(w)
  PROVE  HeldForSure'
<1> PICK b \in Strategies : b = book[w]
  BY DEF Unwind, Typed, BookInHand, HeldStages
<1>1. PICK l \in todo[w] : \E o \in CloseOutcomes(w, Market(b, l)) :
        /\ Call(Market(b, l), o)
        /\ local' = [local EXCEPT ![w][l] =
                       IF o.ok THEN "closed" ELSE IF b \in Spots THEN "open" ELSE "kept"]
        /\ todo' = [todo EXCEPT ![w] = {}]
  BY DEF Unwind
<1>2. l \in Legs
  BY DEF Typed, TypeOK
<1> DEFINE m == Market(book[w], l)
<1>3. PICK o \in CloseOutcomes(w, m) :
        /\ Call(m, o)
        /\ local' = [local EXCEPT ![w][l] =
                       IF o.ok THEN "closed" ELSE IF b \in Spots THEN "open" ELSE "kept"]
        /\ todo' = [todo EXCEPT ![w] = {}]
  BY <1>1
<1>4. /\ Solo(w) /\ Aside(w) /\ pc[w] = "unwind"
      /\ UNCHANGED <<sst, pst, pc, book, plan, gone>>
      /\ todo'[w] = {}
  <2>1. Solo(w)
    BY WorkerSolo DEF OpenStep
  <2> QED
    BY <1>3, <2>1 DEF Unwind, Aside, Stands, Solo, database, Typed, TypeOK
<1>5. m \in Markets /\ o.ok \in BOOLEAN /\ (~o.ok => faults' >= faults + 1)
  <2>1. m \in Markets
    BY <1>2, MarketType
  <2>2. w # Risk
    BY <1>4 DEF AllInRole, InRole
  <2>3. faults' = faults + o.f /\ o.f \in Nat /\ o.ok \in BOOLEAN /\ (~o.ok => o.f >= 1)
    BY <1>3, <2>1, <2>2, CloseFaults
  <2> QED
    BY <2>1, <2>3
<1>6. local'[w] = [local[w] EXCEPT ![l] =
                     IF o.ok THEN "closed" ELSE IF book[w] \in Spots THEN "open" ELSE "kept"]
  BY <1>3 DEF Typed, TypeOK
<1>7. ASSUME NEW k \in Strategies, NEW x \in Legs, Sure(k, x), <<k, x>> # <<book[w], l>> \/ ~o.ok
      PROVE  Sure(k, x)'
  BY <1>1, <1>2, <1>4, <1>5, <1>6, <1>7, UnwindSure
<1> SUFFICES ASSUME NEW n \in Markets \ gone
             PROVE  venue'[n] <= Cardinality(Flying(n)') + stray'[n] + Cardinality(SureRows(n)')
  BY <1>4 DEF HeldForSure
<1>8. SureRows(n) \ {<<book[w], l>>} \subseteq SureRows(n)'
  BY <1>7 DEF SureRows, Market
<1>9. (n = m /\ o.ok) \/ SureRows(n) \subseteq SureRows(n)'
  <2>1. n # m => <<book[w], l>> \notin SureRows(n)
    BY DEF SureRows
  <2>2. ~o.ok => SureRows(n) \subseteq SureRows(n)'
    BY <1>7 DEF SureRows, Market
  <2> QED
    BY <1>5, <1>8, <2>1, <2>2
<1>10. venue[n] <= Cardinality(Flying(n)) + stray[n] + Cardinality(SureRows(n))
  BY <1>4 DEF HeldForSure
<1> QED
  BY <1>2, <1>3, <1>4, <1>8, <1>9, <1>10, SureCounted, CallCovers

(* Workers S give up what they hold; every row that was sure stays so. *)
LEMMA LostHeldSure ==
  ASSUME Typed, HeldForSure, NEW S \in SUBSET Workers, UNCHANGED <<venue, gone>>,
         \A v \in Workers \ S : pc'[v] = pc[v] /\ book'[v] = book[v] /\ local'[v] = local[v],
         \A m \in Markets : stray'[m] \in Nat /\ stray'[m] >= stray[m] + Cardinality(Lost(S, m)),
         \A k \in Strategies, l \in Legs : Sure(k, l) => Sure(k, l)'
  PROVE  HeldForSure'
<1> SUFFICES ASSUME NEW m \in Markets \ gone
             PROVE  venue'[m] <= Cardinality(Flying(m)') + stray'[m] + Cardinality(SureRows(m)')
  BY DEF HeldForSure
<1>1. venue[m] <= Cardinality(Flying(m)) + stray[m] + Cardinality(SureRows(m))
  BY DEF HeldForSure
<1>2. SureRows(m) \subseteq SureRows(m)'
  BY SureGrows
<1> QED
  BY <1>1, <1>2, SureCounted, LostCovers

LEMMA LossesHeldSure ==
  ASSUME Typed, Typed', AllInOrder, HeldForSure, faults \in Nat, faults' \in Nat,
         faults' >= faults, Crash \/ \E w \in Workers : ReportCross(w) \/ Abort(w)
  PROVE  HeldForSure'
<1>1. CASE Crash
  <2>1. UNCHANGED <<venue, gone>> /\ stray' = Abandoned(Workers)
    BY <1>1 DEF Crash, database
  <2> QED
    BY <1>1, <2>1, AbandonedLost, CrashSure, LostHeldSure
<1>2. ASSUME NEW w \in Workers, Abort(w) PROVE HeldForSure'
  <2> Solo(w)
    BY <1>2, WorkerSolo
  <2>1. /\ UNCHANGED <<sst, pst, venue, gone>> /\ stray' = Abandoned({w})
        /\ book'[w] = NoStrategy /\ plan'[w] = {}
    BY <1>2 DEF Abort, Leave, database, Typed, TypeOK
  <2>2. ASSUME NEW k \in Strategies, NEW l \in Legs, Sure(k, l) PROVE Sure(k, l)'
    BY <2>1, <2>2, OtherRowSure, BookAssumption
  <2> QED
    BY <2>1, <2>2, AbandonedLost, LostHeldSure DEF Solo
<1>3. ASSUME NEW w \in Workers, ReportCross(w) PROVE HeldForSure'
  <2>1. /\ Solo(w) /\ UNCHANGED <<sst, pst, venue, gone, plan>>
        /\ pc[w] \in Opening /\ ReleasedBy(w)
    BY <1>3, WorkerSolo, ReleaseClears DEF ReportCross, OpenStep, Opening, database
  <2>2. ASSUME NEW k \in Strategies, NEW l \in Legs, Sure(k, l) PROVE Sure(k, l)'
    BY <2>1, <2>2, OtherRowSure, BookAssumption DEF ReleasedBy
  <2> QED
    BY <1>3, <2>1, <2>2, CrossLost, LostHeldSure DEF Solo
<1> QED
  BY <1>1, <1>2, <1>3

(* A job lists what it will look at. *)
LEMMA ListSure ==
  ASSUME Typed, AllInOrder, HeldForSure, faults \in Nat, StartRisk \/ StartAuto
  PROVE  HeldForSure'
<1>1. PICK w \in {Risk, Engine} :
        /\ pc[w] = "idle" /\ pc'[w] = "pick" /\ faults' = faults /\ Solo(w)
        /\ UNCHANGED <<sst, pst, gone, venue, stray, local, book>>
        /\ w = Risk => plan'[w] = {k \in Strategies : sst[k] = "active"}
  <2>1. CASE StartRisk
    BY <2>1 DEF StartRisk, Solo, Workers, database, Typed, TypeOK
  <2>2. CASE StartAuto
    BY <2>2 DEF StartAuto, Solo, Workers, Risk, Engine, database, Typed, TypeOK
  <2> QED
    BY <2>1, <2>2
<1>2. w \in Workers
  BY DEF Workers
<1>3. local[w] = Kept
  BY <1>1, <1>2 DEF AllInOrder, InOrder
<1>4. ASSUME NEW k \in Strategies, NEW l \in Legs, Sure(k, l) PROVE Sure(k, l)'
  BY <1>1, <1>2, <1>3, <1>4, OtherRowSure
<1> QED
  BY <1>1, <1>2, <1>4, StillSure

(* The market of a deleted exchange is not counted any more. *)
LEMMA DeletedHeldSure ==
  ASSUME HeldForSure, gone \subseteq gone',
         UNCHANGED <<sst, pst, venue, stray, faults>>, UNCHANGED locals
  PROVE  HeldForSure'
<1> SUFFICES ASSUME NEW n \in Markets \ gone
             PROVE  venue'[n] <= Cardinality(Flying(n)') + stray'[n] + Cardinality(SureRows(n)')
  BY DEF HeldForSure
<1>2. Flying(n)' = Flying(n)
  BY DEF Flying, Market, locals
<1>3. SureRows(n)' = SureRows(n)
  BY DEF SureRows, Sure, OnRow, Attended, Paid, Finishes, Reopens, Cost, Missed, Refused,
              Market, locals
<1> QED
  BY <1>2, <1>3 DEF HeldForSure

LEMMA NextHeldSure ==
  ASSUME Typed, Typed', AllInOrder, AllInRole, faults <= 4 => HeldForSure, faults' <= 4, [Next]_vars
  PROVE  HeldForSure'
<1>1. faults \in Nat /\ faults' \in Nat /\ faults' >= faults
  BY FaultsGrow
<1>2. faults <= 4 /\ HeldForSure
  BY <1>1
<1>3. ASSUME NEW w \in Workers, OpenStep(w) PROVE HeldForSure'
  BY <1>1, <1>2, <1>3, QuietStepsSure, PlaceHeldSure, ReportHeldSure, LossesHeldSure, UnwindHeldSure
  DEF OpenStep
<1>4. ASSUME NEW w \in Workers, CloseStep(w) PROVE HeldForSure'
  <2>1. ASSUME NEW l \in Legs, CloseLeg(w, l) PROVE HeldForSure'
    BY <1>1, <1>2, <2>1, CloseLegHeldSure
  <2>2. ASSUME NEW l \in Legs, SkipLeg(w, l) PROVE HeldForSure'
    BY <1>1, <1>2, <2>2, SkipLegHeldSure
  <2> QED
    BY <1>1, <1>2, <1>4, <2>1, <2>2, QuietStepsSure DEF CloseStep
<1>5. CASE Crash \/ \E w \in Workers : Abort(w)
  BY <1>1, <1>2, <1>5, LossesHeldSure
<1>6. CASE StartRisk \/ StartAuto
  BY <1>1, <1>2, <1>6, ListSure
<1>7. ASSUME NEW m \in Markets, DeleteExchange(m) PROVE HeldForSure'
  BY <1>2, <1>7, DeletedHeldSure DEF DeleteExchange
<1>8. CASE UNCHANGED vars
  BY <1>2, <1>8, DeletedHeldSure DEF database, vars
<1> QED
  BY <1>3, <1>4, <1>5, <1>6, <1>7, <1>8 DEF Next

LEMMA InitHeldSure == Init => HeldForSure
<1> SUFFICES ASSUME Init, NEW m \in Markets
             PROVE  venue[m] <= Cardinality(Flying(m)) + stray[m] + Cardinality(SureRows(m))
  BY DEF HeldForSure
<1>1. Flying(m) = {} /\ SureRows(m) = {}
  BY DEF Init, Flying, SureRows, Sure, OnRow, NoLegs
<1> QED
  BY <1>1, FS_EmptySet DEF Init

(* Who is sure is promised: nobody has just closed it. *)
LEMMA SureIsPromised ==
  ASSUME Typed, HeldForSure
  PROVE  HeldIsPromised
<1> SUFFICES ASSUME NEW m \in Markets \ gone
             PROVE  venue[m] <= InFlight(m) + stray[m]
                                  + Cardinality({x \in Strategies \X Legs :
                                      Market(x[1], x[2]) = m /\ Promised(x[1], x[2])})
  BY DEF HeldIsPromised
<1> DEFINE P == {x \in Strategies \X Legs : Market(x[1], x[2]) = m /\ Promised(x[1], x[2])}
<1>1. SureRows(m) \subseteq P
  BY DEF SureRows, Sure, OnRow, Attended, Promised
<1>2. IsFiniteSet(P)
  <2>1. IsFiniteSet(Strategies \X Legs)
    BY WorkersFinite, BookAssumption, FS_Product
  <2> QED
    BY <2>1, FS_Subset
<1>3. InFlight(m) = Cardinality(Flying(m))
  BY Zenon DEF InFlight, Flying
<1>4. venue[m] <= Cardinality(Flying(m)) + stray[m] + Cardinality(SureRows(m))
  BY DEF HeldForSure
<1>5. venue[m] \in Nat /\ stray[m] \in Nat /\ Cardinality(Flying(m)) \in Nat
  BY Counted DEF Typed, TypeOK
<1>6. Cardinality(SureRows(m)) <= Cardinality(P) /\ Cardinality(SureRows(m)) \in Nat
      /\ Cardinality(P) \in Nat
  BY <1>1, <1>2, SureCounted, FS_Subset, FS_CardinalityType
<1> QED
  BY <1>3, <1>4, <1>5, <1>6

(* Up to four failed calls, aborts and crashes, no exposure is forgotten: each *)
(* unit an exchange holds (unless the exchange was deleted) is in an opener's  *)
(* hands, was lost by one, or has a position that failed or that is open in a  *)
(* strategy nobody has called closed, so that a later close finds it: whoever  *)
(* opens, unwinds and closes at once, and whatever sessions overwrite.  Five   *)
(* failures are too many (SpotHedgeOpenMixin.open and its unwind, the close    *)
(* methods, the risk manager's _close_strategy).                               *)
THEOREM FourFailuresForgetNothing == Spec => [](faults <= 4 => HeldIsPromised)
<1> DEFINE Inv == /\ Typed /\ OnTheBooks /\ AllInRole
                  /\ faults <= 4 => HeldForSure
<1>1. Init => Inv
  BY InitTyped, InitOnTheBooks, InitInRole, InitHeldSure
<1>2. Inv /\ [Next]_vars => Inv'
  <2> SUFFICES ASSUME Inv, [Next]_vars PROVE Inv'
    OBVIOUS
  <2>1. Typed' /\ OnTheBooks'
    BY NextTyped, NextOnTheBooks
  <2>2. AllInRole'
    BY <2>1, NextInRole DEF OnTheBooks
  <2>3. ASSUME faults' <= 4 PROVE HeldForSure'
    BY <2>1, <2>3, NextHeldSure DEF OnTheBooks
  <2> QED
    BY <2>1, <2>2, <2>3
<1>3. Inv => (faults <= 4 => HeldIsPromised)
  BY SureIsPromised
<1> HIDE DEF Inv
<1> QED
  BY <1>1, <1>2, <1>3, PTL DEF Spec

=============================================================================
