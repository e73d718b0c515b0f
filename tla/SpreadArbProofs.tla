--------------------------- MODULE SpreadArbProofs ---------------------------
(***************************************************************************)
(* What SpreadArb guarantees for every number of rows, symbols, request    *)
(* threads, retries and faults.                                            *)
(***************************************************************************)
EXTENDS SpreadArb, FiniteSetTheorems, TLAPS

Placing == {"placeShort", "placeLong", "cancel", "persist"}
Working == {"checked", "due", "send", "verify", "finish"}

(* The row a worker has in hand. *)
RowInHand ==
  \A w \in Workers :
    /\ pc[w] \in {"idle", "pick"} <=> row[w] = NoRow
    /\ pc[w] \in Placing => w = Fast /\ status[row[w]] = "none"
    /\ pc[w] \in Working => status[row[w]] # "none"

(* Rows that were loaded by a query exist. *)
LoadedRowsExist ==
  \A w \in Workers :
    job[w] \in {"prerecover", "recover", "exit"} =>
      \A r \in todo[w] \cap Rows : status[r] # "none"

Bookkeeping == TypeOK /\ RowInHand /\ LoadedRowsExist

-----------------------------------------------------------------------------
(* The initial state and every step keep the bookkeeping.                  *)

LEMMA InitBookkeeping == Init => Bookkeeping
BY ConstantsAssumption
DEF Init, Bookkeeping, TypeOK, RowInHand, LoadedRowsExist, Workers, Legs,
    Unflagged, Placing, Working, Fast, Sched

(* Whatever a call to an exchange does, it leaves a count of units. *)
LEMMA CloseCallType ==
  ASSUME TypeOK, NEW s \in Symbols, NEW l \in Legs, NEW left \in BOOLEAN,
         NEW o \in CloseOutcomes(venue[s][l]), CloseCall(s, l, o, left)
  PROVE  /\ venue' \in [Symbols -> [Legs -> Nat]]
         /\ stray' \in [Symbols -> [Legs -> BOOLEAN]]
         /\ faults' \in 0 .. MaxFaults
<1>1. /\ o.k \in Nat /\ o.k <= venue[s][l] /\ o.ok \in BOOLEAN
      /\ LostReplies(o) \in Nat
  BY DEF CloseOutcomes, CloseVariants, TypeOK, LostReplies
<1>2. venue[s][l] - o.k \in Nat
  BY <1>1 DEF TypeOK
<1>3. venue' \in [Symbols -> [Legs -> Nat]]
  BY <1>2 DEF CloseCall, TypeOK
<1>4. stray' \in [Symbols -> [Legs -> BOOLEAN]]
  BY DEF CloseCall, TypeOK
<1>5. faults' \in 0 .. MaxFaults
  BY <1>1, ConstantsAssumption DEF CloseCall, TypeOK
<1> QED
  BY <1>3, <1>4, <1>5

(* Where the leg machine leaves worker w: it goes on to an order or to the end *)
(* of its row, no other worker moves, and unless an exchange is missing its    *)
(* memory holds the flags m.                                                   *)
MovesOn(w, m, missing) ==
  /\ pc' \in [Workers -> {"idle", "pick", "placeShort", "placeLong", "cancel",
                          "persist", "checked", "due", "send", "verify", "finish"}]
  /\ leg' \in [Workers -> Legs]
  /\ tries' \in [Workers -> 0 .. MaxTries - 1]
  /\ mem' \in [Workers -> [Legs -> BOOLEAN]]
  /\ \A v \in Workers \ {w} : pc'[v] = pc[v] /\ mem'[v] = mem[v]
  /\ pc'[w] \in {"send", "finish"}
  /\ missing = {} => mem'[w] = m

LEMMA PassedType ==
  ASSUME NEW m \in [Legs -> BOOLEAN], NEW missing, NEW l \in Legs,
         NEW closing \in BOOLEAN
  PROVE  /\ Passed(m, missing, l, closing) \in [Legs -> BOOLEAN]
         /\ missing = {} => Passed(m, missing, l, closing) = m
BY DEF Passed, Legs

LEMMA EnterLongMoves ==
  ASSUME TypeOK, NEW w \in Workers, NEW m \in [Legs -> BOOLEAN], NEW missing,
         NEW closing \in BOOLEAN, EnterLong(w, m, missing, closing)
  PROVE  MovesOn(w, m, missing)
<1>1. "long" \in Legs
  BY DEF Legs
<1>2. 0 \in 0 .. MaxTries - 1
  BY ConstantsAssumption
<1>3. CASE Needs(m, missing, "long")
  BY <1>1, <1>2, <1>3 DEF EnterLong, MovesOn, TypeOK
<1>4. CASE ~Needs(m, missing, "long")
  <2>1. /\ Passed(m, missing, "long", closing) \in [Legs -> BOOLEAN]
        /\ missing = {} => Passed(m, missing, "long", closing) = m
    BY <1>1, PassedType
  <2> QED
    BY <1>1, <1>2, <1>4, <2>1 DEF EnterLong, MovesOn, TypeOK
<1> QED
  BY <1>3, <1>4

LEMMA EnterShortMoves ==
  ASSUME TypeOK, NEW w \in Workers, NEW m \in [Legs -> BOOLEAN], NEW missing,
         NEW closing \in BOOLEAN, EnterShort(w, m, missing, closing)
  PROVE  MovesOn(w, m, missing)
<1>1. "short" \in Legs
  BY DEF Legs
<1>2. 0 \in 0 .. MaxTries - 1
  BY ConstantsAssumption
<1>3. CASE /\ tries' = [tries EXCEPT ![w] = 0]
           /\ leg' = [leg EXCEPT ![w] = "short"]
           /\ pc' = [pc EXCEPT ![w] = "send"]
           /\ mem' = [mem EXCEPT ![w] = m]
  BY <1>1, <1>2, <1>3 DEF MovesOn, TypeOK
<1>4. CASE EnterLong(w, Passed(m, missing, "short", closing), missing, closing)
  <2> DEFINE p == Passed(m, missing, "short", closing)
  <2>1. p \in [Legs -> BOOLEAN] /\ (missing = {} => p = m)
    BY <1>1, PassedType
  <2>2. EnterLong(w, p, missing, closing)
    BY <1>4
  <2>3. MovesOn(w, p, missing)
    BY <2>1, <2>2, EnterLongMoves
  <2> QED
    BY <2>1, <2>3 DEF MovesOn
<1> QED
  BY <1>3, <1>4 DEF EnterShort

LEMMA AdvanceMoves ==
  ASSUME TypeOK, NEW w \in Workers, NEW m \in [Legs -> BOOLEAN], Advance(w, m)
  PROVE  MovesOn(w, m, noex[w])
<1>1. CASE leg[w] = "short" /\ EnterLong(w, m, noex[w], Closing(w))
  <2>1. Closing(w) \in BOOLEAN
    BY DEF Closing
  <2> QED
    BY <1>1, <2>1, EnterLongMoves
<1>2. CASE leg[w] = "long"
  <2>1. 0 \in 0 .. MaxTries - 1
    BY ConstantsAssumption
  <2> QED
    BY <1>2, <2>1 DEF Advance, MovesOn, TypeOK
<1> QED
  BY <1>1, <1>2 DEF Advance

LEMMA RetryMoves ==
  ASSUME TypeOK, NEW w \in Workers, Retry(w)
  PROVE  MovesOn(w, mem[w], noex[w])
<1>1. mem[w] \in [Legs -> BOOLEAN]
  BY DEF TypeOK
<1>2. CASE /\ tries[w] + 1 < MaxTries
           /\ tries' = [tries EXCEPT ![w] = @ + 1]
           /\ pc' = [pc EXCEPT ![w] = "send"]
           /\ UNCHANGED <<leg, mem>>
  <2>1. tries[w] + 1 \in 0 .. MaxTries - 1
    BY <1>2, ConstantsAssumption DEF TypeOK
  <2> QED
    BY <1>2, <2>1 DEF MovesOn, TypeOK
<1>3. CASE Advance(w, mem[w])
  BY <1>1, <1>3, AdvanceMoves
<1> QED
  BY <1>2, <1>3 DEF Retry

-----------------------------------------------------------------------------
(* Every action keeps the bookkeeping.                                     *)

(* A worker that lets go of its row, and nobody else moves. *)
Released(w, p) ==
  /\ pc' \in [Workers -> {"idle", "pick", "placeShort", "placeLong", "cancel",
                          "persist", "checked", "due", "send", "verify", "finish"}]
  /\ row' \in [Workers -> Rows \cup {NoRow}]
  /\ leg' \in [Workers -> Legs]
  /\ tries' \in [Workers -> 0 .. MaxTries - 1]
  /\ mem' \in [Workers -> [Legs -> BOOLEAN]]
  /\ noex' \in [Workers -> SUBSET Legs]
  /\ why' \in [Workers -> Reasons \cup {"none", "manual"}]
  /\ pc'[w] = p /\ row'[w] = NoRow /\ mem'[w] = Unflagged
  /\ \A v \in Workers \ {w} :
       pc'[v] = pc[v] /\ row'[v] = row[v] /\ mem'[v] = mem[v]

LEMMA ReleaseType ==
  ASSUME TypeOK, NEW w \in Workers, NEW p \in {"idle", "pick"}, Release(w, p)
  PROVE  Released(w, p)
<1>1. 0 \in 0 .. MaxTries - 1
  BY ConstantsAssumption
<1>2. Unflagged \in [Legs -> BOOLEAN] /\ "short" \in Legs
  BY DEF Unflagged, Legs
<1> QED
  BY <1>1, <1>2 DEF Release, TypeOK, Released

(* A worker lets go of its row and no row appears or disappears. *)
LEMMA RowInHandByStatus ==
  ASSUME TypeOK, RowInHand, NEW w \in Workers, NEW p \in {"idle", "pick"}, Released(w, p),
         \A q \in Rows : status'[q] = "none" <=> status[q] = "none"
  PROVE  RowInHand'
<1> SUFFICES ASSUME NEW v \in Workers
             PROVE  /\ pc'[v] \in {"idle", "pick"} <=> row'[v] = NoRow
                    /\ pc'[v] \in Placing => v = Fast /\ status'[row'[v]] = "none"
                    /\ pc'[v] \in Working => status'[row'[v]] # "none"
  BY DEF RowInHand
<1>1. CASE v = w
  BY <1>1 DEF Released, Placing, Working
<1>2. CASE v # w
  <2>1. pc'[v] = pc[v] /\ row'[v] = row[v]
    BY <1>2 DEF Released
  <2>2. pc[v] \in Placing \cup Working => row[v] \in Rows
    <3>1. pc[v] \in Placing \cup Working => row[v] # NoRow
      BY DEF RowInHand, Placing, Working
    <3> QED
      BY <3>1 DEF TypeOK
  <2>3. pc[v] \in Placing => status'[row[v]] = "none"
    BY <2>2 DEF RowInHand
  <2>4. pc[v] \in Working => status'[row[v]] # "none"
    BY <2>2 DEF RowInHand
  <2> QED
    BY <2>1, <2>3, <2>4 DEF RowInHand
<1> QED
  BY <1>1, <1>2

LEMMA CycleKeepsBooks ==
  ASSUME Bookkeeping, StartFast \/ StartSched \/ \E w \in Workers : NextPass(w)
  PROVE  Bookkeeping'
<1>1. ASSUME StartFast
      PROVE  Bookkeeping'
  <2>1. Fast \in Workers
    BY DEF Workers
  <2>2. PICK opps \in SUBSET Symbols : Load(Fast, "entry", opps)
    BY <1>1 DEF StartFast
  <2>3. TypeOK'
    BY <1>1, <2>1, <2>2 DEF StartFast, Load, Bookkeeping, TypeOK, database
  <2>4. RowInHand'
    BY <1>1, <2>1, <2>2 DEF StartFast, Load, Bookkeeping, TypeOK, RowInHand, database, Placing, Working
  <2>5. LoadedRowsExist'
    BY <1>1, <2>1, <2>2 DEF StartFast, Load, Bookkeeping, TypeOK, LoadedRowsExist, database
  <2> QED
    BY <2>3, <2>4, <2>5 DEF Bookkeeping
<1>2. ASSUME StartSched
      PROVE  Bookkeeping'
  <2>1. Sched \in Workers
    BY DEF Workers
  <2>2. Stuck \in SUBSET Rows /\ \A r \in Stuck : status[r] # "none"
    BY DEF Stuck
  <2>3. TypeOK'
    BY <1>2, <2>1, <2>2 DEF StartSched, Load, Bookkeeping, TypeOK, database
  <2>4. RowInHand'
    BY <1>2, <2>1 DEF StartSched, Load, Bookkeeping, TypeOK, RowInHand, database, Placing, Working
  <2>5. LoadedRowsExist'
    BY <1>2, <2>1, <2>2 DEF StartSched, Load, Bookkeeping, TypeOK, LoadedRowsExist, database
  <2> QED
    BY <2>3, <2>4, <2>5 DEF Bookkeeping
<1>3. ASSUME NEW w \in Workers, NextPass(w)
      PROVE  Bookkeeping'
  <2>1. /\ Stuck \in SUBSET Rows /\ \A r \in Stuck : status[r] # "none"
        /\ OpenRows \in SUBSET Rows /\ \A r \in OpenRows : status[r] # "none"
    BY DEF Stuck, OpenRows
  <2>2. ASSUME NEW j \in {"prerecover", "recover", "exit"}, NEW rows \in {Stuck, OpenRows},
               Load(w, j, rows), pc[w] = "pick",
               UNCHANGED <<database, venue, cool, stray, faults>>
        PROVE  Bookkeeping'
    <3>1. TypeOK'
      BY <2>1, <2>2 DEF Load, Bookkeeping, TypeOK, database
    <3>2. RowInHand'
      BY <2>2 DEF Load, Bookkeeping, TypeOK, RowInHand, database, Placing, Working
    <3>3. LoadedRowsExist'
      BY <2>1, <2>2 DEF Load, Bookkeeping, TypeOK, LoadedRowsExist, database
    <3> QED
      BY <3>1, <3>2, <3>3 DEF Bookkeeping
  <2>3. CASE /\ job[w] = "exit"
             /\ Release(w, "idle")
             /\ job' = [job EXCEPT ![w] = "none"]
             /\ UNCHANGED todo
    <3>1. Released(w, "idle")
      BY <2>3, ReleaseType DEF Bookkeeping
    <3>2. UNCHANGED <<database, venue, cool, stray, faults>>
      BY <1>3 DEF NextPass
    <3>3. TypeOK'
      BY <2>3, <3>1, <3>2 DEF Bookkeeping, TypeOK, database, Released
    <3>4. RowInHand'
      <4>1. SUFFICES ASSUME NEW v \in Workers
                     PROVE  /\ pc'[v] \in {"idle", "pick"} <=> row'[v] = NoRow
                            /\ pc'[v] \in Placing => v = Fast /\ status'[row'[v]] = "none"
                            /\ pc'[v] \in Working => status'[row'[v]] # "none"
        BY DEF RowInHand
      <4>2. CASE v = w
        <5>1. pc'[v] = "idle" /\ row'[v] = NoRow
          BY <3>1, <4>2 DEF Released
        <5> QED
          BY <5>1 DEF Placing, Working
      <4>3. CASE v # w
        <5>1. pc'[v] = pc[v] /\ row'[v] = row[v] /\ status' = status
          BY <3>1, <3>2, <4>3 DEF Released, database
        <5> QED
          BY <5>1 DEF Bookkeeping, RowInHand
      <4> QED
        BY <4>2, <4>3
    <3>5. LoadedRowsExist'
      BY <2>3, <3>2 DEF Bookkeeping, TypeOK, LoadedRowsExist, database
    <3> QED
      BY <3>3, <3>4, <3>5 DEF Bookkeeping
  <2> QED
    BY <1>3, <2>2, <2>3 DEF NextPass
<1> QED
  BY <1>1, <1>2, <1>3

LEMMA EntryKeepsBooks ==
  ASSUME Bookkeeping, EntryStep
  PROVE  Bookkeeping'
<1>1. ASSUME EntrySkip
      PROVE  Bookkeeping'
  <2>1. Fast \in Workers
    BY DEF Workers
  <2>2. TypeOK'
    BY <1>1, <2>1 DEF EntrySkip, Bookkeeping, TypeOK, database
  <2>3. RowInHand'
    BY <1>1, <2>1 DEF EntrySkip, Bookkeeping, TypeOK, RowInHand, database
  <2>4. LoadedRowsExist'
    BY <1>1, <2>1 DEF EntrySkip, Bookkeeping, TypeOK, LoadedRowsExist, database
  <2> QED
    BY <2>2, <2>3, <2>4 DEF Bookkeeping
<1>2. ASSUME NEW r \in Rows, EntryBegin(r)
      PROVE  Bookkeeping'
  <2>1. Fast \in Workers /\ r # NoRow
    BY ConstantsAssumption DEF Workers
  <2>2. TypeOK'
    BY <1>2, <2>1 DEF EntryBegin, Bookkeeping, TypeOK, database
  <2>3. RowInHand'
    BY <1>2, <2>1 DEF EntryBegin, Bookkeeping, TypeOK, RowInHand, database, Placing, Working
  <2>4. LoadedRowsExist'
    BY <1>2, <2>1 DEF EntryBegin, Bookkeeping, TypeOK, LoadedRowsExist, database
  <2> QED
    BY <2>2, <2>3, <2>4 DEF Bookkeeping
<1>3. ASSUME PlaceFilled
      PROVE  Bookkeeping'
  <2>1. /\ Fast \in Workers
        /\ row[Fast] \in Rows /\ SymbolOf[row[Fast]] \in Symbols /\ PlacedLeg \in Legs
        /\ 0 \in 0 .. MaxTries - 1
    BY <1>3, ConstantsAssumption
    DEF Workers, PlaceFilled, Bookkeeping, TypeOK, RowInHand, PlacedLeg, Legs
  <2>2. TypeOK'
    BY <1>3, <2>1 DEF PlaceFilled, Bookkeeping, TypeOK, database
  <2>3. RowInHand'
    BY <1>3, <2>1 DEF PlaceFilled, Bookkeeping, TypeOK, RowInHand, database, Placing, Working
  <2>4. LoadedRowsExist'
    BY <1>3, <2>1 DEF PlaceFilled, Bookkeeping, TypeOK, LoadedRowsExist, database
  <2> QED
    BY <2>2, <2>3, <2>4 DEF Bookkeeping
<1>4. ASSUME NEW landed \in BOOLEAN, PlaceFailed(landed)
      PROVE  Bookkeeping'
  <2>1. /\ Fast \in Workers
        /\ row[Fast] \in Rows /\ SymbolOf[row[Fast]] \in Symbols /\ PlacedLeg \in Legs
        /\ 0 \in 0 .. MaxTries - 1
    BY <1>4, ConstantsAssumption
    DEF Workers, PlaceFailed, Bookkeeping, TypeOK, RowInHand, PlacedLeg, Legs
  <2>2. /\ faults' \in 0 .. MaxFaults
        /\ venue' \in [Symbols -> [Legs -> Nat]]
        /\ stray' \in [Symbols -> [Legs -> BOOLEAN]]
    <3>1. faults < MaxFaults /\ faults' = faults + 1
      BY <1>4 DEF PlaceFailed
    <3>2. ASSUME landed
          PROVE  /\ venue' \in [Symbols -> [Legs -> Nat]]
                 /\ stray' \in [Symbols -> [Legs -> BOOLEAN]]
      <4> DEFINE s == SymbolOf[row[Fast]]
                 l == PlacedLeg
      <4>1. /\ venue' = [venue EXCEPT ![s][l] = @ + 1]
            /\ stray' = [stray EXCEPT ![s][l] = TRUE]
        BY <1>4, <3>2 DEF PlaceFailed
      <4>2. s \in Symbols /\ l \in Legs
        BY <2>1
      <4> HIDE DEF s, l
      <4> QED
        BY <4>1, <4>2 DEF Bookkeeping, TypeOK
    <3>3. ASSUME ~landed
          PROVE  /\ venue' \in [Symbols -> [Legs -> Nat]]
                 /\ stray' \in [Symbols -> [Legs -> BOOLEAN]]
      BY <1>4, <3>3 DEF PlaceFailed, Bookkeeping, TypeOK
    <3>4. /\ venue' \in [Symbols -> [Legs -> Nat]]
          /\ stray' \in [Symbols -> [Legs -> BOOLEAN]]
      BY <3>2, <3>3
    <3>5. faults' \in 0 .. MaxFaults
      BY <3>1, ConstantsAssumption DEF Bookkeeping, TypeOK
    <3> QED
      BY <3>4, <3>5
  <2>3. UNCHANGED <<database, cool, job, todo>>
    BY <1>4 DEF PlaceFailed
  <2>4. CASE /\ tries[Fast] + 1 < MaxTries
             /\ tries' = [tries EXCEPT ![Fast] = @ + 1]
             /\ UNCHANGED <<pc, row, leg, mem, noex, why>>
    <3>1. tries[Fast] + 1 \in 0 .. MaxTries - 1
      BY <2>1, <2>4, ConstantsAssumption DEF Bookkeeping, TypeOK
    <3>2. TypeOK'
      BY <2>1, <2>2, <2>3, <2>4, <3>1 DEF Bookkeeping, TypeOK, database
    <3> QED
      BY <2>3, <2>4, <3>2 DEF Bookkeeping, RowInHand, LoadedRowsExist, database
  <2>5. CASE pc[Fast] = "placeShort" /\ Release(Fast, "pick")
    <3>1. Released(Fast, "pick")
      BY <2>1, <2>5, ReleaseType DEF Bookkeeping
    <3>2. TypeOK'
      BY <2>2, <2>3, <3>1 DEF Bookkeeping, TypeOK, database, Released
    <3>3. RowInHand'
      BY <2>3, <3>1 DEF Bookkeeping, RowInHand, database, Released, Placing, Working
    <3> QED
      BY <2>3, <3>2, <3>3 DEF Bookkeeping, LoadedRowsExist, database
  <2>6. CASE /\ pc[Fast] = "placeLong"
             /\ pc' = [pc EXCEPT ![Fast] = "cancel"]
             /\ tries' = [tries EXCEPT ![Fast] = 0]
             /\ UNCHANGED <<row, leg, mem, noex, why>>
    <3>1. TypeOK'
      BY <2>1, <2>2, <2>3, <2>6 DEF Bookkeeping, TypeOK, database
    <3>2. RowInHand'
      BY <2>1, <2>3, <2>6 DEF Bookkeeping, TypeOK, RowInHand, database, Placing, Working
    <3> QED
      BY <2>3, <3>1, <3>2 DEF Bookkeeping, LoadedRowsExist, database
  <2> QED
    BY <1>4, <2>4, <2>5, <2>6 DEF PlaceFailed
<1>5. ASSUME Cancel
      PROVE  Bookkeeping'
  <2> DEFINE s == SymbolOf[row[Fast]]
  <2>1. Fast \in Workers /\ s \in Symbols /\ "short" \in Legs
    BY <1>5, ConstantsAssumption
    DEF Workers, Cancel, Bookkeeping, TypeOK, RowInHand, Legs
  <2>2. PICK o \in CloseOutcomes(venue[s]["short"]) : CloseCall(s, "short", o, o.k = 0)
    BY <1>5 DEF Cancel
  <2>3. /\ venue' \in [Symbols -> [Legs -> Nat]]
        /\ stray' \in [Symbols -> [Legs -> BOOLEAN]]
        /\ faults' \in 0 .. MaxFaults
    BY <2>1, <2>2, CloseCallType DEF Bookkeeping
  <2>4. Release(Fast, "pick") /\ UNCHANGED <<database, cool, job, todo>>
    BY <1>5 DEF Cancel
  <2>5. Released(Fast, "pick")
    BY <2>1, <2>4, ReleaseType DEF Bookkeeping
  <2>6. TypeOK'
    BY <2>3, <2>4, <2>5 DEF Bookkeeping, TypeOK, database, Released
  <2>7. RowInHand'
    BY <2>4, <2>5 DEF Bookkeeping, RowInHand, database, Released, Placing, Working
  <2> QED
    BY <2>4, <2>6, <2>7 DEF Bookkeeping, LoadedRowsExist, database
<1>6. ASSUME Persist
      PROVE  Bookkeeping'
  <2>1. Fast \in Workers /\ row[Fast] \in Rows /\ Unflagged \in [Legs -> BOOLEAN]
    BY <1>6 DEF Workers, Persist, Bookkeeping, TypeOK, RowInHand, Unflagged
  <2>2. /\ Release(Fast, "pick")
        /\ status' = [status EXCEPT ![row[Fast]] = "open"]
        /\ flag' = [flag EXCEPT ![row[Fast]] = Unflagged]
        /\ UNCHANGED <<stops, funding, gone, venue, cool, stray, faults, job, todo>>
    BY <1>6 DEF Persist
  <2>3. Released(Fast, "pick")
    BY <2>1, <2>2, ReleaseType DEF Bookkeeping
  <2>4. TypeOK'
    BY <2>1, <2>2, <2>3 DEF Bookkeeping, TypeOK, Released
  <2>5. RowInHand'
    BY <2>1, <2>2, <2>3 DEF Bookkeeping, TypeOK, RowInHand, Released, Placing, Working
  <2>6. LoadedRowsExist'
    BY <2>1, <2>2 DEF Bookkeeping, TypeOK, LoadedRowsExist
  <2> QED
    BY <2>4, <2>5, <2>6 DEF Bookkeeping
<1> QED
  BY <1>1, <1>2, <1>3, <1>4, <1>5, <1>6 DEF EntryStep

(* A worker with a row in hand works on an existing row of a known symbol. *)
LEMMA WorkingRow ==
  ASSUME Bookkeeping, NEW w \in Workers, pc[w] \in Working
  PROVE  /\ row[w] \in Rows /\ status[row[w]] # "none"
         /\ SymbolOf[row[w]] \in Symbols
         /\ leg[w] \in Legs /\ mem[w] \in [Legs -> BOOLEAN]
<1>1. row[w] # NoRow /\ status[row[w]] # "none"
  BY DEF Bookkeeping, RowInHand, Working
<1>2. row[w] \in Rows
  BY <1>1 DEF Bookkeeping, TypeOK
<1>3. SymbolOf[row[w]] \in Symbols
  BY <1>2, ConstantsAssumption
<1> QED
  BY <1>1, <1>2, <1>3 DEF Bookkeeping, TypeOK

LEMMA LegKeepsBooks ==
  ASSUME Bookkeeping, NEW w \in Workers, LegStep(w)
  PROVE  Bookkeeping'
<1> DEFINE s == SymbolOf[row[w]]
<1>1. ASSUME SendClose(w)
      PROVE  Bookkeeping'
  <2>1. /\ pc[w] = "send"
        /\ UNCHANGED <<database, cool, job, row, todo, noex, why>>
    BY <1>1 DEF SendClose
  <2>2. /\ row[w] \in Rows /\ status[row[w]] # "none" /\ s \in Symbols
        /\ leg[w] \in Legs /\ mem[w] \in [Legs -> BOOLEAN]
    BY <2>1, WorkingRow DEF Working
  <2>3. PICK o \in CloseOutcomes(venue[s][leg[w]]) :
          /\ CloseCall(s, leg[w], o, FALSE)
          /\ \/ /\ pc' = [pc EXCEPT ![w] = "verify"]
                /\ UNCHANGED <<leg, tries, mem>>
             \/ Retry(w)
    BY <1>1 DEF SendClose
  <2>4. /\ venue' \in [Symbols -> [Legs -> Nat]]
        /\ stray' \in [Symbols -> [Legs -> BOOLEAN]]
        /\ faults' \in 0 .. MaxFaults
    BY <2>2, <2>3, CloseCallType DEF Bookkeeping
  <2>5. /\ pc' \in [Workers -> {"idle", "pick", "placeShort", "placeLong", "cancel",
                          "persist", "checked", "due", "send", "verify", "finish"}]
        /\ leg' \in [Workers -> Legs]
        /\ tries' \in [Workers -> 0 .. MaxTries - 1]
        /\ mem' \in [Workers -> [Legs -> BOOLEAN]]
        /\ \A v \in Workers \ {w} : pc'[v] = pc[v]
        /\ pc'[w] \in Working
    <3>1. CASE /\ pc' = [pc EXCEPT ![w] = "verify"]
               /\ UNCHANGED <<leg, tries, mem>>
      BY <3>1 DEF Bookkeeping, TypeOK, Working
    <3>2. CASE Retry(w)
      <4>1. MovesOn(w, mem[w], noex[w])
        BY <3>2, RetryMoves DEF Bookkeeping
      <4> QED
        BY <4>1 DEF MovesOn, Working
    <3> QED
      BY <2>3, <3>1, <3>2
  <2>6. TypeOK'
    BY <2>1, <2>4, <2>5 DEF Bookkeeping, TypeOK, database
  <2>7. RowInHand'
    BY <2>1, <2>2, <2>5 DEF Bookkeeping, RowInHand, TypeOK, database, Placing, Working
  <2> QED
    BY <2>1, <2>6, <2>7 DEF Bookkeeping, LoadedRowsExist, database
<1>2. ASSUME VerifiedFlat(w)
      PROVE  Bookkeeping'
  <2> DEFINE m == [mem[w] EXCEPT ![leg[w]] = TRUE]
             f == Flagged(flag[row[w]], m)
  <2>1. /\ pc[w] = "verify"
        /\ UNCHANGED <<status, stops, funding, gone, venue, cool, stray, faults>>
        /\ UNCHANGED <<job, row, todo, noex, why>>
    BY <1>2 DEF VerifiedFlat
  <2>2. /\ row[w] \in Rows /\ status[row[w]] # "none"
        /\ leg[w] \in Legs /\ mem[w] \in [Legs -> BOOLEAN]
    BY <2>1, WorkingRow DEF Working
  <2>3. m \in [Legs -> BOOLEAN] /\ f \in [Legs -> BOOLEAN]
    BY <2>2 DEF Flagged, Bookkeeping, TypeOK
  <2>4. \/ flag' = [flag EXCEPT ![row[w]] = f] /\ Advance(w, f)
        \/ UNCHANGED flag /\ Advance(w, m)
    BY <1>2 DEF VerifiedFlat
  <2> HIDE DEF m, f
  <2>5. flag' \in [Rows -> [Legs -> BOOLEAN]]
    BY <2>2, <2>3, <2>4 DEF Bookkeeping, TypeOK
  <2>6. PICK n \in [Legs -> BOOLEAN] : MovesOn(w, n, noex[w])
    BY <2>3, <2>4, AdvanceMoves DEF Bookkeeping
  <2>7. TypeOK'
    BY <2>1, <2>5, <2>6 DEF Bookkeeping, TypeOK, MovesOn
  <2>8. RowInHand'
    BY <2>1, <2>2, <2>6 DEF Bookkeeping, RowInHand, TypeOK, MovesOn, Placing, Working
  <2> QED
    BY <2>1, <2>7, <2>8 DEF Bookkeeping, LoadedRowsExist
<1>3. ASSUME VerifiedOpen(w)
      PROVE  Bookkeeping'
  <2>1. /\ pc[w] = "verify"
        /\ UNCHANGED <<database, venue, cool, stray, job, row, todo, noex, why>>
    BY <1>3 DEF VerifiedOpen
  <2>2. /\ row[w] \in Rows /\ status[row[w]] # "none"
    BY <2>1, WorkingRow DEF Working
  <2>3. faults' \in 0 .. MaxFaults
    BY <1>3, ConstantsAssumption DEF VerifiedOpen, Bookkeeping, TypeOK
  <2>4. MovesOn(w, mem[w], noex[w])
    BY <1>3, RetryMoves DEF VerifiedOpen, Bookkeeping
  <2>5. TypeOK'
    BY <2>1, <2>3, <2>4 DEF Bookkeeping, TypeOK, MovesOn, database
  <2>6. RowInHand'
    BY <2>1, <2>2, <2>4 DEF Bookkeeping, RowInHand, TypeOK, MovesOn, Placing, Working, database
  <2> QED
    BY <2>1, <2>5, <2>6 DEF Bookkeeping, LoadedRowsExist, database
<1> QED
  BY <1>1, <1>2, <1>3 DEF LegStep

(* What a worker that begins to close row r does. *)
LEMMA BeginCloseKeepsBooks ==
  ASSUME Bookkeeping, NEW w \in Workers, NEW r \in Rows, BeginClose(w, r),
         status[r] # "none",
         row' = [row EXCEPT ![w] = r],
         todo' \in [Workers -> SUBSET (Rows \cup Symbols)],
         \A v \in Workers : todo'[v] \subseteq todo[v],
         why' \in [Workers -> Reasons \cup {"none", "manual"}]
  PROVE  Bookkeeping' /\ MovesOn(w, flag[r], Missing(r))
<1>1. Missing(r) \subseteq Legs /\ flag[r] \in [Legs -> BOOLEAN] /\ r # NoRow
  BY ConstantsAssumption DEF Missing, Bookkeeping, TypeOK
<1>2. MovesOn(w, flag[r], Missing(r))
  BY <1>1, EnterShortMoves DEF BeginClose, Bookkeeping
<1>3. /\ status' = [status EXCEPT ![r] = "closing"]
      /\ noex' = [noex EXCEPT ![w] = Missing(r)]
      /\ UNCHANGED <<flag, stops, funding, gone, venue, cool, stray, faults, job>>
  BY DEF BeginClose
<1>4. TypeOK'
  BY <1>1, <1>2, <1>3 DEF Bookkeeping, TypeOK, MovesOn
<1>5. RowInHand'
  BY <1>1, <1>2, <1>3 DEF Bookkeeping, RowInHand, TypeOK, MovesOn, Placing, Working
<1>6. LoadedRowsExist'
  BY <1>3 DEF Bookkeeping, TypeOK, LoadedRowsExist
<1> QED
  BY <1>2, <1>4, <1>5, <1>6 DEF Bookkeeping

LEMMA ExitKeepsBooks ==
  ASSUME Bookkeeping, NEW w \in Workers,
         ExitStep(w) \/ ManualClose(w) \/ \E r \in Rows : ManualCheck(w, r)
  PROVE  Bookkeeping'
<1>1. ASSUME ExitSkip(w)
      PROVE  Bookkeeping'
  <2>1. TypeOK'
    BY <1>1 DEF ExitSkip, Bookkeeping, TypeOK, database
  <2>2. RowInHand'
    BY <1>1 DEF ExitSkip, Bookkeeping, RowInHand, database
  <2>3. LoadedRowsExist'
    BY <1>1 DEF ExitSkip, Bookkeeping, TypeOK, LoadedRowsExist, database
  <2> QED
    BY <2>1, <2>2, <2>3 DEF Bookkeeping
<1>2. ASSUME NEW r \in Rows, NEW reason \in Reasons, ExitClose(w, r, reason)
      PROVE  Bookkeeping'
  <2>1. status[r] # "none"
    BY <1>2 DEF ExitClose, Bookkeeping, LoadedRowsExist
  <2>2. /\ todo' \in [Workers -> SUBSET (Rows \cup Symbols)]
        /\ \A v \in Workers : todo'[v] \subseteq todo[v]
        /\ why' \in [Workers -> Reasons \cup {"none", "manual"}]
    BY <1>2 DEF ExitClose, Bookkeeping, TypeOK
  <2> QED
    BY <1>2, <2>1, <2>2, BeginCloseKeepsBooks DEF ExitClose
<1>3. ASSUME FinishClose(w)
      PROVE  Bookkeeping'
  <2> DEFINE r == row[w]
             f == Flagged(flag[r], mem[w])
  <2>1. /\ pc[w] = "finish"
        /\ flag' = [flag EXCEPT ![r] = f]
        /\ status' = [status EXCEPT ![r] = FinalStatus(mem[w])]
        /\ UNCHANGED <<funding, gone, venue, cool, stray, faults, todo>>
    BY <1>3 DEF FinishClose
  <2>2. r \in Rows /\ status[r] # "none" /\ mem[w] \in [Legs -> BOOLEAN]
    BY <2>1, WorkingRow DEF Working
  <2>3. stops' \in SUBSET Rows
    BY <1>3, <2>2 DEF FinishClose, Bookkeeping, TypeOK
  <2>4. PICK p \in {"idle", "pick"} :
          /\ Released(w, p)
          /\ \/ UNCHANGED job
             \/ job' = [job EXCEPT ![w] = "none"]
    BY <1>3, ReleaseType DEF FinishClose, Bookkeeping
  <2>5. f \in [Legs -> BOOLEAN] /\ FinalStatus(mem[w]) \in {"closed", "error"}
    BY <2>2 DEF Flagged, FinalStatus, Bookkeeping, TypeOK
  <2> HIDE DEF r, f
  <2>6. TypeOK'
    BY <2>1, <2>2, <2>3, <2>4, <2>5 DEF Bookkeeping, TypeOK, Released
  <2>7. \A q \in Rows : status'[q] = "none" <=> status[q] = "none"
    BY <2>1, <2>2, <2>5 DEF Bookkeeping, TypeOK
  <2>8. RowInHand'
    BY <2>4, <2>7, RowInHandByStatus DEF Bookkeeping
  <2>9. LoadedRowsExist'
    BY <2>1, <2>4, <2>7 DEF Bookkeeping, TypeOK, LoadedRowsExist
  <2> QED
    BY <2>6, <2>8, <2>9 DEF Bookkeeping
<1>4. ASSUME ManualClose(w)
      PROVE  Bookkeeping'
  <2>1. row[w] \in Rows /\ status[row[w]] # "none"
    BY <1>4, WorkingRow DEF ManualClose, Working
  <2>2. BeginClose(w, row[w]) /\ UNCHANGED <<row, todo, why>>
    BY <1>4 DEF ManualClose
  <2>3. row' = [row EXCEPT ![w] = row[w]]
    BY <2>2 DEF Bookkeeping, TypeOK
  <2>4. /\ todo' \in [Workers -> SUBSET (Rows \cup Symbols)]
        /\ \A v \in Workers : todo'[v] \subseteq todo[v]
        /\ why' \in [Workers -> Reasons \cup {"none", "manual"}]
    BY <2>2 DEF Bookkeeping, TypeOK
  <2> QED
    BY <2>1, <2>2, <2>3, <2>4, BeginCloseKeepsBooks
<1>5. ASSUME NEW r \in Rows, ManualCheck(w, r)
      PROVE  Bookkeeping'
  <2>1. r # NoRow
    BY ConstantsAssumption
  <2>2. TypeOK'
    BY <1>5 DEF ManualCheck, Bookkeeping, TypeOK, database
  <2>3. RowInHand'
    BY <1>5, <2>1 DEF ManualCheck, Bookkeeping, RowInHand, TypeOK, database, Placing, Working
  <2>4. LoadedRowsExist'
    BY <1>5 DEF ManualCheck, Bookkeeping, TypeOK, LoadedRowsExist, database
  <2> QED
    BY <2>2, <2>3, <2>4 DEF Bookkeeping
<1> QED
  BY <1>1, <1>2, <1>3, <1>4, <1>5 DEF ExitStep

LEMMA RecoverKeepsBooks ==
  ASSUME Bookkeeping, NEW w \in Workers, RecoverStep(w)
  PROVE  Bookkeeping'
<1>1. ASSUME NEW r \in Rows, RecoverStatus(w, r)
      PROVE  Bookkeeping'
  <2>1. status[r] # "none"
    BY <1>1 DEF RecoverStatus, Recovering, Bookkeeping, LoadedRowsExist
  <2>2. TypeOK'
    BY <1>1 DEF RecoverStatus, Bookkeeping, TypeOK
  <2>3. RowInHand'
    BY <1>1, <2>1 DEF RecoverStatus, Bookkeeping, RowInHand, TypeOK
  <2>4. LoadedRowsExist'
    BY <1>1 DEF RecoverStatus, Bookkeeping, TypeOK, LoadedRowsExist
  <2> QED
    BY <2>2, <2>3, <2>4 DEF Bookkeeping
<1>2. ASSUME NEW r \in Rows, RecoverLater(w, r)
      PROVE  Bookkeeping'
  <2>1. TypeOK'
    BY <1>2 DEF RecoverLater, Bookkeeping, TypeOK, database
  <2>2. RowInHand'
    BY <1>2 DEF RecoverLater, Bookkeeping, RowInHand, database
  <2>3. LoadedRowsExist'
    BY <1>2 DEF RecoverLater, Bookkeeping, TypeOK, LoadedRowsExist, database
  <2> QED
    BY <2>1, <2>2, <2>3 DEF Bookkeeping
<1>3. ASSUME NEW r \in Rows, RecoverCheck(w, r)
      PROVE  Bookkeeping'
  <2>1. status[r] # "none" /\ r # NoRow
    BY <1>3, ConstantsAssumption
    DEF RecoverCheck, Recovering, Bookkeeping, LoadedRowsExist
  <2>2. TypeOK'
    BY <1>3 DEF RecoverCheck, Bookkeeping, TypeOK, database
  <2>3. RowInHand'
    BY <1>3, <2>1 DEF RecoverCheck, Bookkeeping, RowInHand, TypeOK, database, Placing, Working
  <2>4. LoadedRowsExist'
    BY <1>3 DEF RecoverCheck, Bookkeeping, TypeOK, LoadedRowsExist, database
  <2> QED
    BY <2>2, <2>3, <2>4 DEF Bookkeeping
<1>4. ASSUME RecoverBegin(w)
      PROVE  Bookkeeping'
  <2> DEFINE r == row[w]
  <2>1. /\ pc[w] = "due"
        /\ cool' = cool \cup {r}
        /\ noex' = [noex EXCEPT ![w] = Missing(r)]
        /\ UNCHANGED <<database, venue, stray, faults, job, row, todo, why>>
    BY <1>4 DEF RecoverBegin
  <2>2. /\ r \in Rows /\ status[r] # "none" /\ Missing(r) \subseteq Legs
        /\ mem[w] \in [Legs -> BOOLEAN]
    BY <2>1, WorkingRow DEF Working, Missing
  <2>3. MovesOn(w, mem[w], Missing(r))
    BY <1>4, <2>2, EnterShortMoves DEF RecoverBegin, Bookkeeping
  <2>4. TypeOK'
    BY <2>1, <2>2, <2>3 DEF Bookkeeping, TypeOK, MovesOn, database
  <2>5. RowInHand'
    BY <2>1, <2>2, <2>3 DEF Bookkeeping, RowInHand, TypeOK, MovesOn, Placing, Working, database
  <2> QED
    BY <2>1, <2>4, <2>5 DEF Bookkeeping, LoadedRowsExist, database
<1>5. ASSUME FinishRecover(w)
      PROVE  Bookkeeping'
  <2> DEFINE r == row[w]
             f == Flagged(flag[r], mem[w])
             st == IF \A l \in Legs : mem[w][l] THEN "closed" ELSE status[r]
  <2>1. /\ pc[w] = "finish"
        /\ flag' = [flag EXCEPT ![r] = f]
        /\ status' = [status EXCEPT ![r] = st]
        /\ Release(w, "pick")
        /\ UNCHANGED <<stops, funding, gone, venue, cool, stray, faults, job, todo>>
    BY <1>5 DEF FinishRecover
  <2>2. r \in Rows /\ status[r] # "none" /\ mem[w] \in [Legs -> BOOLEAN]
    BY <2>1, WorkingRow DEF Working
  <2>3. Released(w, "pick")
    BY <2>1, ReleaseType DEF Bookkeeping
  <2>4. /\ f \in [Legs -> BOOLEAN]
        /\ st \in {"open", "closing", "closed", "error"}
    BY <2>2 DEF Flagged, Bookkeeping, TypeOK
  <2> HIDE DEF r, f, st
  <2>5. TypeOK'
    BY <2>1, <2>2, <2>3, <2>4 DEF Bookkeeping, TypeOK, Released
  <2>6. \A q \in Rows : status'[q] = "none" <=> status[q] = "none"
    BY <2>1, <2>2, <2>4 DEF Bookkeeping, TypeOK
  <2>7. RowInHand'
    BY <2>3, <2>6, RowInHandByStatus DEF Bookkeeping
  <2>8. LoadedRowsExist'
    BY <2>1, <2>6 DEF Bookkeeping, TypeOK, LoadedRowsExist
  <2> QED
    BY <2>5, <2>7, <2>8 DEF Bookkeeping
<1> QED
  BY <1>1, <1>2, <1>3, <1>4, <1>5 DEF RecoverStep

LEMMA EnvironmentKeepsBooks ==
  ASSUME Bookkeeping, Environment \/ UNCHANGED vars
  PROVE  Bookkeeping'
<1>1. ASSUME NEW w \in Workers, Abort(w)
      PROVE  Bookkeeping'
  <2>1. /\ Released(w, "idle")
        /\ job' = [job EXCEPT ![w] = "none"]
        /\ todo' = [todo EXCEPT ![w] = {}]
        /\ UNCHANGED <<database, venue, cool>>
    BY <1>1, ReleaseType DEF Abort, Bookkeeping
  <2>2. faults' \in 0 .. MaxFaults
    BY <1>1, ConstantsAssumption DEF Abort, Bookkeeping, TypeOK
  <2>3. stray' \in [Symbols -> [Legs -> BOOLEAN]]
    <3>1. CASE Abandon
      BY <3>1 DEF Abandon, Bookkeeping, TypeOK
    <3>2. CASE UNCHANGED stray
      BY <3>2 DEF Bookkeeping, TypeOK
    <3> QED
      BY <1>1, <3>1, <3>2 DEF Abort
  <2>4. TypeOK'
    BY <2>1, <2>2, <2>3 DEF Bookkeeping, TypeOK, Released, database
  <2>5. RowInHand'
    BY <2>1, RowInHandByStatus DEF Bookkeeping, database
  <2>6. LoadedRowsExist'
    BY <2>1 DEF Bookkeeping, TypeOK, LoadedRowsExist, database
  <2> QED
    BY <2>4, <2>5, <2>6 DEF Bookkeeping
<1>2. ASSUME Crash
      PROVE  Bookkeeping'
  <2>1. faults' \in 0 .. MaxFaults
    BY <1>2, ConstantsAssumption DEF Crash, Bookkeeping, TypeOK
  <2>2. stray' \in [Symbols -> [Legs -> BOOLEAN]]
    BY <1>2 DEF Crash, Abandon, Bookkeeping, TypeOK
  <2>3. /\ 0 \in 0 .. MaxTries - 1 /\ "short" \in Legs
        /\ Unflagged \in [Legs -> BOOLEAN]
    BY ConstantsAssumption DEF Legs, Unflagged
  <2>4. TypeOK'
    BY <1>2, <2>1, <2>2, <2>3 DEF Crash, Bookkeeping, TypeOK, database
  <2>5. RowInHand'
    BY <1>2 DEF Crash, RowInHand, Placing, Working
  <2>6. LoadedRowsExist'
    BY <1>2 DEF Crash, LoadedRowsExist
  <2> QED
    BY <2>4, <2>5, <2>6 DEF Bookkeeping
<1>3. ASSUME NEW r \in Rows, CooldownOver(r) \/ StopWindowOver(r)
      PROVE  Bookkeeping'
  BY <1>3 DEF CooldownOver, StopWindowOver, Bookkeeping, TypeOK, RowInHand,
              LoadedRowsExist, database, locals
<1>4. ASSUME OpenFunding \/ CloseFunding
      PROVE  Bookkeeping'
  BY <1>4, ConstantsAssumption
  DEF OpenFunding, CloseFunding, Bookkeeping, TypeOK, RowInHand,
      LoadedRowsExist, database, locals
<1>5. ASSUME NEW s \in Symbols, NEW l \in Legs, DeleteExchange(s, l)
      PROVE  Bookkeeping'
  BY <1>5 DEF DeleteExchange, Bookkeeping, TypeOK, RowInHand,
              LoadedRowsExist, database, locals
<1>6. CASE UNCHANGED vars
  BY <1>6 DEF vars, Bookkeeping, TypeOK, RowInHand, LoadedRowsExist, database, locals
<1> QED
  BY <1>1, <1>2, <1>3, <1>4, <1>5, <1>6 DEF Environment

LEMMA StepsKeepBooks ==
  Bookkeeping /\ [Next]_vars => Bookkeeping'
<1> SUFFICES ASSUME Bookkeeping, [Next]_vars PROVE Bookkeeping'
  OBVIOUS
<1>1. /\ Fast \in Workers /\ Sched \in Workers /\ Requests \subseteq Workers
  BY DEF Workers
<1>2. ASSUME NEW w \in Workers, Step(w)
      PROVE  Bookkeeping'
  BY <1>2, CycleKeepsBooks, LegKeepsBooks, ExitKeepsBooks, RecoverKeepsBooks DEF Step
<1>3. CASE FastStep
  BY <1>1, <1>2, <1>3, CycleKeepsBooks, EntryKeepsBooks DEF FastStep
<1>4. CASE SchedStep
  BY <1>1, <1>2, <1>4, CycleKeepsBooks DEF SchedStep
<1>5. ASSUME NEW w \in Requests, Step(w) \/ \E r \in Rows : ManualCheck(w, r)
      PROVE  Bookkeeping'
  BY <1>1, <1>2, <1>5, ExitKeepsBooks
<1>6. CASE Environment \/ UNCHANGED vars
  BY <1>6, EnvironmentKeepsBooks
<1> QED
  BY <1>3, <1>4, <1>5, <1>6 DEF Next

(* Every variable keeps its type: in particular a leg never holds a negative *)
(* number of units, no order is attempted more than MaxTries times, and a    *)
(* worker only ever works on rows of the table.                              *)
THEOREM TypeCorrect == Spec => []TypeOK
<1>1. Init => Bookkeeping
  BY InitBookkeeping
<1>2. Bookkeeping /\ [Next]_vars => Bookkeeping'
  BY StepsKeepBooks
<1>3. Bookkeeping => TypeOK
  BY DEF Bookkeeping
<1> QED
  BY <1>1, <1>2, <1>3, PTL DEF Spec

-----------------------------------------------------------------------------
(* What one step can do to a row of the table, whoever takes it.           *)

RowUnchanged(r) == status'[r] = status[r] /\ flag'[r] = flag[r]

RowCreated(r) ==
  /\ Persist
  /\ r = row[Fast]
  /\ status[r] = "none" /\ status'[r] = "open" /\ flag'[r] = Unflagged

RowAdvanced(r) ==
  /\ status[r] # "none"
  /\ status'[r] \in {status[r], "closing", "error", "closed"}
  /\ \A l \in Legs : flag[r][l] => flag'[r][l]
  /\ status'[r] = "closed" => status[r] = "closed" \/ \A l \in Legs : flag'[r][l]

RowsMove == \A r \in Rows : RowUnchanged(r) \/ RowCreated(r) \/ RowAdvanced(r)

LEMMA StepsMoveRows ==
  ASSUME Bookkeeping, [Next]_vars
  PROVE  RowsMove
<1>1. ASSUME UNCHANGED <<status, flag>> PROVE RowsMove
  BY <1>1 DEF RowsMove, RowUnchanged
<1>2. ASSUME NEW w \in Workers, NEW r \in Rows, status[r] # "none",
             status' = [status EXCEPT ![r] = "closing"], UNCHANGED flag
      PROVE  RowsMove
  BY <1>2 DEF RowsMove, RowUnchanged, RowAdvanced, Bookkeeping, TypeOK
<1>3. CASE Persist
  <2>1. row[Fast] \in Rows /\ status[row[Fast]] = "none"
    BY <1>3 DEF Persist, Bookkeeping, TypeOK, RowInHand, Workers, Placing
  <2> QED
    BY <1>3, <2>1 DEF Persist, RowsMove, RowUnchanged, RowCreated, Bookkeeping, TypeOK
<1>4. CASE EntryStep
  BY <1>1, <1>3, <1>4
  DEF EntryStep, EntrySkip, EntryBegin, PlaceFilled, PlaceFailed, Cancel, database
<1>5. ASSUME NEW w \in Workers, LegStep(w) PROVE RowsMove
  <2>1. CASE SendClose(w) \/ VerifiedOpen(w)
    BY <1>1, <2>1 DEF SendClose, VerifiedOpen, database
  <2>2. CASE VerifiedFlat(w)
    <3> DEFINE m == [mem[w] EXCEPT ![leg[w]] = TRUE]
               f == Flagged(flag[row[w]], m)
    <3>1. row[w] \in Rows /\ status[row[w]] # "none"
      BY <2>2, WorkingRow DEF VerifiedFlat, Working
    <3>2. status' = status /\ (UNCHANGED flag \/ flag' = [flag EXCEPT ![row[w]] = f])
      BY <2>2 DEF VerifiedFlat
    <3>3. \A l \in Legs : flag[row[w]][l] => f[l]
      BY DEF Flagged
    <3> HIDE DEF m, f
    <3> QED
      BY <3>1, <3>2, <3>3 DEF RowsMove, RowUnchanged, RowAdvanced, Bookkeeping, TypeOK
  <2> QED
    BY <1>5, <2>1, <2>2 DEF LegStep
<1>6. ASSUME NEW w \in Workers, ExitStep(w) \/ ManualClose(w) PROVE RowsMove
  <2>1. CASE ExitSkip(w)
    BY <1>1, <2>1 DEF ExitSkip, database
  <2>2. ASSUME NEW r \in Rows, NEW reason \in Reasons, ExitClose(w, r, reason)
        PROVE  RowsMove
    <3>1. status[r] # "none"
      BY <2>2 DEF ExitClose, Bookkeeping, LoadedRowsExist
    <3> QED
      BY <1>2, <2>2, <3>1 DEF ExitClose, BeginClose
  <2>3. CASE ManualClose(w)
    <3>1. row[w] \in Rows /\ status[row[w]] # "none"
      BY <2>3, WorkingRow DEF ManualClose, Working
    <3> QED
      BY <1>2, <2>3, <3>1 DEF ManualClose, BeginClose
  <2>4. CASE FinishClose(w)
    <3> DEFINE f == Flagged(flag[row[w]], mem[w])
               st == FinalStatus(mem[w])
    <3>1. row[w] \in Rows /\ status[row[w]] # "none"
      BY <2>4, WorkingRow DEF FinishClose, Working
    <3>2. /\ flag' = [flag EXCEPT ![row[w]] = f]
          /\ status' = [status EXCEPT ![row[w]] = st]
      BY <2>4 DEF FinishClose
    <3>3. /\ \A l \in Legs : flag[row[w]][l] => f[l]
          /\ st \in {"closed", "error"}
          /\ st = "closed" => \A l \in Legs : f[l]
      BY DEF Flagged, FinalStatus
    <3> HIDE DEF f, st
    <3> QED
      BY <3>1, <3>2, <3>3 DEF RowsMove, RowUnchanged, RowAdvanced, Bookkeeping, TypeOK
  <2> QED
    BY <1>6, <2>1, <2>2, <2>3, <2>4 DEF ExitStep
<1>7. ASSUME NEW w \in Workers, RecoverStep(w) PROVE RowsMove
  <2>1. ASSUME NEW r \in Rows, RecoverStatus(w, r) PROVE RowsMove
    <3>1. status[r] # "none"
      BY <2>1 DEF RecoverStatus, Recovering, Bookkeeping, LoadedRowsExist
    <3> QED
      BY <2>1, <3>1
      DEF RecoverStatus, RowsMove, RowUnchanged, RowAdvanced, Bookkeeping, TypeOK
  <2>2. ASSUME NEW r \in Rows, RecoverLater(w, r) \/ RecoverCheck(w, r) PROVE RowsMove
    BY <1>1, <2>2 DEF RecoverLater, RecoverCheck, database
  <2>3. CASE RecoverBegin(w)
    BY <1>1, <2>3 DEF RecoverBegin, database
  <2>4. CASE FinishRecover(w)
    <3> DEFINE f == Flagged(flag[row[w]], mem[w])
               st == IF \A l \in Legs : mem[w][l] THEN "closed" ELSE status[row[w]]
    <3>1. row[w] \in Rows /\ status[row[w]] # "none"
      BY <2>4, WorkingRow DEF FinishRecover, Working
    <3>2. /\ flag' = [flag EXCEPT ![row[w]] = f]
          /\ status' = [status EXCEPT ![row[w]] = st]
      BY <2>4 DEF FinishRecover
    <3>3. /\ \A l \in Legs : flag[row[w]][l] => f[l]
          /\ st \in {"closed", status[row[w]]}
          /\ st = "closed" => status[row[w]] = "closed" \/ \A l \in Legs : f[l]
      BY DEF Flagged
    <3> HIDE DEF f, st
    <3> QED
      BY <3>1, <3>2, <3>3 DEF RowsMove, RowUnchanged, RowAdvanced, Bookkeeping, TypeOK
  <2> QED
    BY <1>7, <2>1, <2>2, <2>3, <2>4 DEF RecoverStep
<1>8. ASSUME NEW w \in Workers, Step(w) PROVE RowsMove
  <2>1. CASE NextPass(w)
    BY <1>1, <2>1 DEF NextPass, database
  <2> QED
    BY <1>5, <1>6, <1>7, <1>8, <2>1 DEF Step
<1>9. CASE FastStep \/ SchedStep
  <2>1. CASE StartFast \/ StartSched
    BY <1>1, <2>1 DEF StartFast, StartSched, database
  <2> QED
    BY <1>4, <1>8, <1>9, <2>1 DEF FastStep, SchedStep, Workers
<1>10. ASSUME NEW w \in Requests, NEW r \in Rows, ManualCheck(w, r) PROVE RowsMove
  BY <1>1, <1>10 DEF ManualCheck, database
<1>11. CASE Environment
  BY <1>1, <1>11
  DEF Environment, Abort, Crash, CooldownOver, StopWindowOver, OpenFunding,
      CloseFunding, DeleteExchange, database
<1>12. CASE UNCHANGED vars
  BY <1>1, <1>12 DEF vars, database
<1> QED
  BY <1>8, <1>9, <1>10, <1>11, <1>12 DEF Next, Workers

(* A row that does not exist yet has no flag to lose. *)
Confirmation ==
  /\ ClosedMeansConfirmed
  /\ \A r \in Rows : status[r] = "none" => flag[r] = Unflagged

LEMMA StepsKeepConfirmation ==
  ASSUME Bookkeeping, Confirmation, [Next]_vars
  PROVE  /\ Confirmation'
         /\ \A r \in Rows, l \in Legs : flag[r][l] => flag'[r][l]
         /\ \A r \in Rows : status[r] = "closed" /\ status'[r] # "closed" =>
              status'[r] \in {"closing", "error"} /\ \A l \in Legs : flag'[r][l]
<1>1. RowsMove
  BY StepsMoveRows
<1>2. ASSUME NEW r \in Rows
      PROVE  /\ status'[r] = "closed" => \A l \in Legs : flag'[r][l]
             /\ status'[r] = "none" => flag'[r] = Unflagged
             /\ \A l \in Legs : flag[r][l] => flag'[r][l]
             /\ status[r] = "closed" /\ status'[r] # "closed" =>
                  status'[r] \in {"closing", "error"} /\ \A l \in Legs : flag'[r][l]
  <2>1. CASE RowUnchanged(r)
    BY <2>1 DEF RowUnchanged, Confirmation, ClosedMeansConfirmed
  <2>2. CASE RowCreated(r)
    BY <2>2 DEF RowCreated, Confirmation, ClosedMeansConfirmed, Unflagged
  <2>3. CASE RowAdvanced(r)
    BY <2>3 DEF RowAdvanced, Confirmation, ClosedMeansConfirmed
  <2> QED
    BY <1>1, <2>1, <2>2, <2>3 DEF RowsMove
<1> QED
  BY <1>2 DEF Confirmation, ClosedMeansConfirmed

LEMMA ConfirmationInvariant == Spec => [](Bookkeeping /\ Confirmation)
<1>1. Init => Bookkeeping /\ Confirmation
  <2>1. Init => Confirmation
    BY DEF Init, Confirmation, ClosedMeansConfirmed
  <2> QED
    BY <2>1, InitBookkeeping
<1>2. Bookkeeping /\ Confirmation /\ [Next]_vars => (Bookkeeping /\ Confirmation)'
  BY StepsKeepBooks, StepsKeepConfirmation
<1> QED
  BY <1>1, <1>2, PTL DEF Spec

(* A row is marked closed only when both its legs were read flat, however the *)
(* exits, manual closes and recoveries of the three kinds of thread overlap.  *)
THEOREM ClosedIsConfirmed == Spec => []ClosedMeansConfirmed
<1>1. Confirmation => ClosedMeansConfirmed
  BY DEF Confirmation
<1> QED
  BY <1>1, ConfirmationInvariant, PTL

(* No step of any thread, crash or rollback takes a confirmation back. *)
THEOREM ConfirmationIsStable == Spec => FlagsNeverRevert
<1>1. Bookkeeping /\ Confirmation /\ [Next]_vars =>
        [\A r \in Rows, l \in Legs : flag[r][l] => flag'[r][l]]_vars
  BY StepsKeepConfirmation
<1> QED
  BY <1>1, ConfirmationInvariant, PTL DEF Spec, FlagsNeverRevert

(* A late writer may move a closed row back to closing or error, never to open *)
(* and never with a leg unconfirmed.                                           *)
THEOREM ClosedStaysConfirmed == Spec => ClosedReopensOnlyConfirmed
<1>1. Bookkeeping /\ Confirmation /\ [Next]_vars =>
        [\A r \in Rows : status[r] = "closed" /\ status'[r] # "closed" =>
           /\ status'[r] \in {"closing", "error"}
           /\ \A l \in Legs : flag'[r][l]]_vars
  BY StepsKeepConfirmation
<1> QED
  BY <1>1, ConfirmationInvariant, PTL DEF Spec, ClosedReopensOnlyConfirmed

-----------------------------------------------------------------------------
(* Entries are serial: what the entry checks saw of the open rows still     *)
(* bounds them when the row is written.                                     *)

\* No step but EntryBegin lets the fast worker place orders for another row, and
\* only an order that filled brings an entry further.
SameEntry ==
  pc'[Fast] \in Placing =>
    /\ pc[Fast] \in Placing /\ row'[Fast] = row[Fast]
    /\ pc'[Fast] \in {pc[Fast], "cancel"} \/ PlaceFilled

LEMMA StepsKeepEntry ==
  ASSUME Bookkeeping, [Next]_vars, ~\E r \in Rows : EntryBegin(r)
  PROVE  SameEntry
<1>1. ASSUME NEW w \in Workers, pc'[w] \notin Placing,
             \A v \in Workers \ {w} : pc'[v] = pc[v] /\ row'[v] = row[v]
      PROVE  SameEntry
  BY <1>1 DEF SameEntry, Workers
<1>2. ASSUME UNCHANGED <<pc, row>> PROVE SameEntry
  BY <1>2 DEF SameEntry
<1>3. ASSUME NEW w \in Workers, NEW p \in {"idle", "pick"}, Release(w, p)
      PROVE  SameEntry
  <2>1. Released(w, p)
    BY <1>3, ReleaseType DEF Bookkeeping
  <2> QED
    BY <1>1, <2>1 DEF Released, Placing
<1>4. ASSUME NEW w \in Workers, NEW m \in [Legs -> BOOLEAN], NEW missing,
             MovesOn(w, m, missing),
             UNCHANGED row \/ \E r \in Rows : row' = [row EXCEPT ![w] = r]
      PROVE  SameEntry
  BY <1>1, <1>4 DEF MovesOn, Placing, Bookkeeping, TypeOK
<1>5. ASSUME NEW w \in Workers, NEW j, NEW rows, Load(w, j, rows) PROVE SameEntry
  BY <1>1, <1>5 DEF Load, Placing, Bookkeeping, TypeOK
<1>6. CASE EntryStep
  <2>1. CASE EntrySkip
    BY <1>2, <2>1 DEF EntrySkip
  <2>2. CASE PlaceFilled
    BY <2>2 DEF PlaceFilled, SameEntry, Placing
  <2>3. ASSUME NEW landed \in BOOLEAN, PlaceFailed(landed) PROVE SameEntry
    <3>1. \/ UNCHANGED <<pc, row>>
          \/ Release(Fast, "pick")
          \/ pc[Fast] = "placeLong" /\ pc'[Fast] = "cancel" /\ UNCHANGED row
      BY <2>3 DEF PlaceFailed, Workers, Bookkeeping, TypeOK
    <3> QED
      BY <1>2, <1>3, <3>1 DEF SameEntry, Placing, Workers
  <2>4. CASE Cancel \/ Persist
    BY <1>3, <2>4 DEF Cancel, Persist, Workers
  <2> QED
    BY <1>6, <2>1, <2>2, <2>3, <2>4 DEF EntryStep
<1>7. ASSUME NEW w \in Workers, LegStep(w) PROVE SameEntry
  <2>1. ASSUME Retry(w), UNCHANGED row PROVE SameEntry
    <3>1. MovesOn(w, mem[w], noex[w]) /\ mem[w] \in [Legs -> BOOLEAN]
      BY <2>1, RetryMoves DEF Bookkeeping, TypeOK
    <3> QED
      BY <1>4, <2>1, <3>1
  <2>2. CASE SendClose(w)
    <3>1. UNCHANGED row /\ (pc' = [pc EXCEPT ![w] = "verify"] \/ Retry(w))
      BY <2>2 DEF SendClose
    <3>2. CASE pc' = [pc EXCEPT ![w] = "verify"]
      BY <1>1, <3>1, <3>2 DEF Placing, Bookkeeping, TypeOK
    <3> QED
      BY <2>1, <3>1, <3>2
  <2>3. CASE VerifiedOpen(w)
    BY <2>1, <2>3 DEF VerifiedOpen
  <2>4. CASE VerifiedFlat(w)
    <3>1. UNCHANGED row /\ \E m : m \in [Legs -> BOOLEAN] /\ Advance(w, m)
      <4> DEFINE m == [mem[w] EXCEPT ![leg[w]] = TRUE]
                 f == Flagged(flag[row[w]], m)
      <4>1. /\ row[w] \in Rows /\ leg[w] \in Legs /\ mem[w] \in [Legs -> BOOLEAN]
        BY <2>4, WorkingRow DEF VerifiedFlat, Working
      <4>2. m \in [Legs -> BOOLEAN] /\ f \in [Legs -> BOOLEAN]
        BY <4>1 DEF Flagged, Bookkeeping, TypeOK
      <4>3. UNCHANGED row /\ (Advance(w, f) \/ Advance(w, m))
        BY <2>4 DEF VerifiedFlat
      <4> QED
        BY <4>2, <4>3
    <3>2. PICK m : m \in [Legs -> BOOLEAN] /\ Advance(w, m)
      BY <3>1
    <3>3. MovesOn(w, m, noex[w])
      BY <3>2, AdvanceMoves DEF Bookkeeping
    <3> QED
      BY <1>4, <3>1, <3>2, <3>3
  <2> QED
    BY <1>7, <2>2, <2>3, <2>4 DEF LegStep
<1>8. ASSUME NEW w \in Workers, NEW r \in Rows, BeginClose(w, r),
             UNCHANGED row \/ row' = [row EXCEPT ![w] = r]
      PROVE  SameEntry
  <2>1. flag[r] \in [Legs -> BOOLEAN]
    BY DEF Bookkeeping, TypeOK
  <2>2. MovesOn(w, flag[r], Missing(r))
    BY <1>8, <2>1, EnterShortMoves DEF BeginClose, Bookkeeping
  <2> QED
    BY <1>4, <1>8, <2>1, <2>2
<1>9. ASSUME NEW w \in Workers, ExitStep(w) \/ ManualClose(w) PROVE SameEntry
  <2>1. CASE ExitSkip(w)
    BY <1>2, <2>1 DEF ExitSkip
  <2>2. ASSUME NEW r \in Rows, NEW reason \in Reasons, ExitClose(w, r, reason)
        PROVE  SameEntry
    BY <1>8, <2>2 DEF ExitClose
  <2>3. CASE ManualClose(w)
    <3>1. row[w] \in Rows
      BY <2>3, WorkingRow DEF ManualClose, Working
    <3> QED
      BY <1>8, <2>3, <3>1 DEF ManualClose
  <2>4. CASE FinishClose(w)
    BY <1>3, <2>4 DEF FinishClose
  <2> QED
    BY <1>9, <2>1, <2>2, <2>3, <2>4 DEF ExitStep
<1>10. ASSUME NEW w \in Workers, RecoverStep(w) PROVE SameEntry
  <2>1. ASSUME NEW r \in Rows, RecoverStatus(w, r) \/ RecoverLater(w, r) PROVE SameEntry
    BY <1>2, <2>1 DEF RecoverStatus, RecoverLater
  <2>2. ASSUME NEW r \in Rows, RecoverCheck(w, r) PROVE SameEntry
    BY <1>1, <2>2 DEF RecoverCheck, Placing, Bookkeeping, TypeOK
  <2>3. CASE RecoverBegin(w)
    <3>1. mem[w] \in [Legs -> BOOLEAN]
      BY DEF Bookkeeping, TypeOK
    <3>2. MovesOn(w, mem[w], Missing(row[w])) /\ UNCHANGED row
      BY <2>3, <3>1, EnterShortMoves DEF RecoverBegin, Bookkeeping
    <3> QED
      BY <1>4, <3>1, <3>2
  <2>4. CASE FinishRecover(w)
    BY <1>3, <2>4 DEF FinishRecover
  <2> QED
    BY <1>10, <2>1, <2>2, <2>3, <2>4 DEF RecoverStep
<1>11. ASSUME NEW w \in Workers, NextPass(w) PROVE SameEntry
  BY <1>3, <1>5, <1>11 DEF NextPass
<1>12. ASSUME NEW w \in Workers, Step(w) PROVE SameEntry
  BY <1>7, <1>9, <1>10, <1>11, <1>12 DEF Step
<1>13. CASE FastStep
  <2>1. CASE StartFast
    BY <1>5, <2>1 DEF StartFast, Workers
  <2> QED
    BY <1>6, <1>12, <1>13, <2>1 DEF FastStep, Workers
<1>14. CASE SchedStep
  <2>1. CASE StartSched
    BY <1>5, <2>1 DEF StartSched, Workers
  <2> QED
    BY <1>12, <1>14, <2>1 DEF SchedStep, Workers
<1>15. ASSUME NEW w \in Requests, Step(w) \/ \E r \in Rows : ManualCheck(w, r)
       PROVE  SameEntry
  <2>1. ASSUME NEW r \in Rows, ManualCheck(w, r) PROVE SameEntry
    BY <1>1, <2>1 DEF ManualCheck, Placing, Workers, Bookkeeping, TypeOK
  <2> QED
    BY <1>12, <1>15, <2>1 DEF Workers
<1>16. CASE Environment
  <2>1. ASSUME NEW w \in Workers, Abort(w) PROVE SameEntry
    BY <1>3, <2>1 DEF Abort
  <2>2. CASE Crash
    BY <2>2 DEF Crash, SameEntry, Placing, Workers
  <2> QED
    BY <1>2, <1>16, <2>1, <2>2
    DEF Environment, CooldownOver, StopWindowOver, OpenFunding, CloseFunding,
        DeleteExchange, locals
<1>17. CASE UNCHANGED vars
  BY <1>2, <1>17 DEF vars, locals
<1> QED
  BY <1>13, <1>14, <1>15, <1>16, <1>17 DEF Next

EntryChecked ==
  pc[Fast] \in Placing =>
    ~HasOpenRow(SymbolOf[row[Fast]]) /\ Cardinality(OpenRows) < SpreadMax

SerialEntry ==
  EntryChecked /\ OneOpenRow /\ SpreadCap

LEMMA StepsKeepSerialEntry ==
  ASSUME Bookkeeping, SerialEntry, [Next]_vars
  PROVE  SerialEntry'
<1>1. IsFiniteSet(OpenRows) /\ OpenRows \subseteq Rows /\ Cardinality(OpenRows) \in Nat
  BY ConstantsAssumption, FS_Subset, FS_CardinalityType DEF OpenRows
<1>2. RowsMove /\ Fast \in Workers
  BY StepsMoveRows DEF Workers
<1>3. CASE Persist
  <2>1. row[Fast] \in Rows /\ pc[Fast] \in Placing
    BY <1>2, <1>3 DEF Persist, Bookkeeping, TypeOK, RowInHand, Placing
  <2>2. OpenRows' = OpenRows \cup {row[Fast]}
    BY <1>3, <2>1 DEF Persist, OpenRows, Bookkeeping, TypeOK
  <2>3. /\ Cardinality(OpenRows') <= Cardinality(OpenRows) + 1
        /\ Cardinality(OpenRows') \in Nat
    <3>1. IsFiniteSet(OpenRows \cup {row[Fast]})
      BY <1>1, FS_AddElement
    <3>2. Cardinality(OpenRows \cup {row[Fast]}) <= Cardinality(OpenRows) + 1
      BY <1>1, FS_AddElement
    <3>3. Cardinality(OpenRows \cup {row[Fast]}) \in Nat
      BY <3>1, FS_CardinalityType
    <3> QED
      BY <2>2, <3>2, <3>3
  <2>4. SpreadCap'
    BY <1>1, <2>1, <2>3, ConstantsAssumption DEF SerialEntry, EntryChecked, SpreadCap
  <2>5. OneOpenRow'
    BY <2>1, <2>2 DEF SerialEntry, EntryChecked, OneOpenRow, HasOpenRow
  <2>6. EntryChecked'
    BY <1>2, <1>3 DEF Persist, Release, EntryChecked, Placing, Bookkeeping, TypeOK
  <2> QED
    BY <2>4, <2>5, <2>6 DEF SerialEntry
<1>4. CASE ~Persist
  <2>1. OpenRows' \subseteq OpenRows
    BY <1>2, <1>4 DEF RowsMove, RowUnchanged, RowCreated, RowAdvanced, OpenRows
  <2>2. Cardinality(OpenRows') <= Cardinality(OpenRows) /\ Cardinality(OpenRows') \in Nat
    BY <1>1, <2>1, FS_Subset, FS_CardinalityType
  <2>3. SpreadCap' /\ OneOpenRow'
    BY <1>1, <2>1, <2>2, ConstantsAssumption DEF SerialEntry, SpreadCap, OneOpenRow
  <2>4. CASE \E r \in Rows : EntryBegin(r)
    <3>1. PICK r \in Rows : EntryBegin(r)
      BY <2>4
    <3>2. row'[Fast] = r /\ ~HasOpenRow(SymbolOf[r]) /\ Cardinality(OpenRows) < SpreadMax
      BY <1>2, <3>1 DEF EntryBegin, BelowCaps, Bookkeeping, TypeOK
    <3>3. OpenRows' = OpenRows
      BY <3>1 DEF EntryBegin, database, OpenRows
    <3> QED
      BY <2>3, <3>2, <3>3 DEF SerialEntry, EntryChecked, HasOpenRow
  <2>5. CASE ~\E r \in Rows : EntryBegin(r)
    <3>1. SameEntry
      BY <2>5, StepsKeepEntry
    <3>2. EntryChecked'
      BY <1>1, <2>1, <2>2, <3>1, ConstantsAssumption
      DEF SerialEntry, EntryChecked, HasOpenRow, SameEntry
    <3> QED
      BY <2>3, <3>2 DEF SerialEntry
  <2> QED
    BY <2>4, <2>5
<1> QED
  BY <1>3, <1>4

LEMMA InitSerialEntry == Init => SerialEntry
<1>1. Init => OpenRows = {}
  BY DEF Init, OpenRows
<1>2. Cardinality({}) = 0
  BY FS_EmptySet
<1>3. Init => pc[Fast] = "idle"
  BY DEF Init, Workers
<1> QED
  BY <1>1, <1>2, <1>3, ConstantsAssumption
  DEF SerialEntry, EntryChecked, OneOpenRow, SpreadCap, Placing

LEMMA SerialEntryInvariant == Spec => [](Bookkeeping /\ SerialEntry)
<1>1. Bookkeeping /\ SerialEntry /\ [Next]_vars => (Bookkeeping /\ SerialEntry)'
  BY StepsKeepBooks, StepsKeepSerialEntry
<1> QED
  BY <1>1, InitSerialEntry, InitBookkeeping, PTL DEF Spec

(* The duplicate check is made before two slow orders and never repeated; it  *)
(* still holds when the row is written, because one thread makes the entries. *)
THEOREM NoDuplicateOpen == Spec => []OneOpenRow
<1>1. SerialEntry => OneOpenRow
  BY DEF SerialEntry
<1> QED
  BY <1>1, SerialEntryInvariant, PTL

(* Nor do the open rows ever exceed spread_max_positions. *)
THEOREM CapHolds == Spec => []SpreadCap
<1>1. SerialEntry => SpreadCap
  BY DEF SerialEntry
<1> QED
  BY <1>1, SerialEntryInvariant, PTL

-----------------------------------------------------------------------------
(* An open row is hedged: nobody sends a close for a row that is still open.  *)

Marked == {"due", "send", "verify", "finish"}
MarkedBy(w) ==
  /\ pc[w] \in Marked => status[row[w]] # "open"
  /\ job[w] \in {"prerecover", "recover"} => \A r \in todo[w] \cap Rows : status[r] # "open"
ClosesAreMarked == \A w \in Workers : MarkedBy(w)

LEMMA StepsKeepMarks ==
  ASSUME Bookkeeping, Bookkeeping', ClosesAreMarked, [Next]_vars
  PROVE  ClosesAreMarked'
<1>1. \A r \in Rows : status[r] \notin {"none", "open"} => status'[r] # "open"
  BY StepsMoveRows DEF RowsMove, RowUnchanged, RowCreated, RowAdvanced
<1>2. ASSUME NEW v \in Workers, job'[v] = job[v], todo'[v] \subseteq todo[v],
             pc'[v] \in Marked =>
               (pc[v] \in Marked /\ row'[v] = row[v]) \/ status'[row'[v]] # "open"
      PROVE  MarkedBy(v)'
  BY <1>1, <1>2, WorkingRow
  DEF ClosesAreMarked, MarkedBy, Bookkeeping, LoadedRowsExist, RowInHand, Marked, Working
<1>3. ASSUME NEW w \in Workers, MarkedBy(w)',
             \A v \in Workers \ {w} : /\ pc'[v] = pc[v] /\ row'[v] = row[v]
                                      /\ job'[v] = job[v] /\ todo'[v] = todo[v]
      PROVE  ClosesAreMarked'
  BY <1>2, <1>3 DEF ClosesAreMarked
<1>4. ASSUME UNCHANGED <<pc, row, job>>, \A v \in Workers : todo'[v] \subseteq todo[v]
      PROVE  ClosesAreMarked'
  BY <1>2, <1>4 DEF ClosesAreMarked
<1>5. ASSUME NEW w \in Workers, NEW p \in {"idle", "pick"}, Release(w, p),
             \/ UNCHANGED <<job, todo>>
             \/ job' = [job EXCEPT ![w] = "none"] /\ \A v \in Workers \ {w} : todo'[v] = todo[v]
      PROVE  ClosesAreMarked'
  <2>1. /\ pc'[w] = p /\ \A v \in Workers \ {w} : pc'[v] = pc[v] /\ row'[v] = row[v]
        /\ \A v \in Workers \ {w} : job'[v] = job[v] /\ todo'[v] = todo[v]
        /\ \/ job'[w] = "none"
           \/ job'[w] = job[w] /\ todo'[w] = todo[w]
    BY <1>5 DEF Release, Bookkeeping, TypeOK
  <2>2. MarkedBy(w)'
    BY <1>1, <2>1 DEF ClosesAreMarked, MarkedBy, Marked, Bookkeeping, LoadedRowsExist
  <2> QED
    BY <1>3, <2>1, <2>2
<1>6. ASSUME NEW w \in Workers, NEW m \in [Legs -> BOOLEAN], NEW missing,
             MovesOn(w, m, missing), pc[w] \in Marked, UNCHANGED <<row, job, todo>>
      PROVE  ClosesAreMarked'
  <2>1. MarkedBy(w)'
    BY <1>2, <1>6
  <2> QED
    BY <1>3, <1>6, <2>1 DEF MovesOn
<1>7. ASSUME NEW w \in Workers, NEW j, NEW rows, Load(w, j, rows), UNCHANGED status,
             j \in {"prerecover", "recover"} => rows = Stuck
      PROVE  ClosesAreMarked'
  <2>1. /\ pc'[w] = "pick" /\ job'[w] = j /\ todo'[w] = rows
        /\ \A v \in Workers \ {w} : /\ pc'[v] = pc[v] /\ row'[v] = row[v]
                                    /\ job'[v] = job[v] /\ todo'[v] = todo[v]
    BY <1>7 DEF Load, Bookkeeping, TypeOK
  <2>2. MarkedBy(w)'
    BY <1>7, <2>1 DEF MarkedBy, Marked, Stuck
  <2> QED
    BY <1>3, <2>1, <2>2
<1>8. CASE EntryStep
  <2>1. CASE EntrySkip
    BY <1>4, <2>1 DEF EntrySkip, Bookkeeping, TypeOK
  <2>2. ASSUME NEW p \in Placing, pc' = [pc EXCEPT ![Fast] = p], UNCHANGED job,
               \A v \in Workers \ {Fast} : row'[v] = row[v],
               \A v \in Workers : todo'[v] \subseteq todo[v]
        PROVE  ClosesAreMarked'
    BY <1>2, <2>2 DEF ClosesAreMarked, Marked, Placing, Workers, Bookkeeping, TypeOK
  <2>3. ASSUME NEW r \in Rows, EntryBegin(r) PROVE ClosesAreMarked'
    BY <2>2, <2>3 DEF EntryBegin, Placing, Bookkeeping, TypeOK
  <2>4. CASE PlaceFilled
    BY <2>2, <2>4 DEF PlaceFilled, Placing, Workers, Bookkeeping, TypeOK
  <2>5. ASSUME NEW landed \in BOOLEAN, PlaceFailed(landed) PROVE ClosesAreMarked'
    <3>1. UNCHANGED <<job, todo>>
      BY <2>5 DEF PlaceFailed
    <3>2. \/ UNCHANGED <<pc, row>>
          \/ Release(Fast, "pick")
          \/ pc' = [pc EXCEPT ![Fast] = "cancel"] /\ UNCHANGED row
      BY <2>5 DEF PlaceFailed
    <3> QED
      BY <1>4, <1>5, <2>2, <3>1, <3>2 DEF Workers, Placing
  <2>6. CASE Cancel \/ Persist
    BY <1>5, <2>6 DEF Cancel, Persist, Workers
  <2> QED
    BY <1>8, <2>1, <2>3, <2>4, <2>5, <2>6 DEF EntryStep
<1>9. ASSUME NEW w \in Workers, LegStep(w) PROVE ClosesAreMarked'
  <2>1. ASSUME Retry(w), pc[w] \in Marked, UNCHANGED <<row, job, todo>>
        PROVE  ClosesAreMarked'
    <3>1. MovesOn(w, mem[w], noex[w]) /\ mem[w] \in [Legs -> BOOLEAN]
      BY <2>1, RetryMoves DEF Bookkeeping, TypeOK
    <3> QED
      BY <1>6, <2>1, <3>1
  <2>2. CASE SendClose(w)
    <3>1. /\ UNCHANGED <<row, job, todo>> /\ pc[w] \in Marked
          /\ pc' = [pc EXCEPT ![w] = "verify"] \/ Retry(w)
      BY <2>2 DEF SendClose, Marked
    <3>2. CASE pc' = [pc EXCEPT ![w] = "verify"]
      <4>1. MarkedBy(w)'
        BY <1>2, <3>1, <3>2 DEF Bookkeeping, TypeOK
      <4> QED
        BY <1>3, <3>1, <3>2, <4>1 DEF Bookkeeping, TypeOK
    <3> QED
      BY <2>1, <3>1, <3>2
  <2>3. CASE VerifiedOpen(w)
    BY <2>1, <2>3 DEF VerifiedOpen, Marked
  <2>4. CASE VerifiedFlat(w)
    <3> DEFINE m == [mem[w] EXCEPT ![leg[w]] = TRUE]
               f == Flagged(flag[row[w]], m)
    <3>1. /\ row[w] \in Rows /\ leg[w] \in Legs /\ mem[w] \in [Legs -> BOOLEAN]
      BY <2>4, WorkingRow DEF VerifiedFlat, Working
    <3>2. m \in [Legs -> BOOLEAN] /\ f \in [Legs -> BOOLEAN]
      BY <3>1 DEF Flagged, Bookkeeping, TypeOK
    <3>3. /\ UNCHANGED <<row, job, todo>> /\ pc[w] \in Marked
          /\ Advance(w, f) \/ Advance(w, m)
      BY <2>4 DEF VerifiedFlat, Marked
    <3>4. MovesOn(w, f, noex[w]) \/ MovesOn(w, m, noex[w])
      BY <3>2, <3>3, AdvanceMoves DEF Bookkeeping
    <3> QED
      BY <1>6, <3>2, <3>3, <3>4
  <2> QED
    BY <1>9, <2>2, <2>3, <2>4 DEF LegStep
<1>10. ASSUME NEW w \in Workers, NEW r \in Rows, BeginClose(w, r), UNCHANGED job,
              row'[w] = r, \A v \in Workers \ {w} : row'[v] = row[v],
              \A v \in Workers : todo'[v] \subseteq todo[v]
       PROVE  ClosesAreMarked'
  <2>1. flag[r] \in [Legs -> BOOLEAN]
    BY DEF Bookkeeping, TypeOK
  <2>2. MovesOn(w, flag[r], Missing(r))
    BY <1>10, <2>1, EnterShortMoves DEF BeginClose, Bookkeeping
  <2>3. status'[r] = "closing"
    BY <1>10 DEF BeginClose, Bookkeeping, TypeOK
  <2> QED
    BY <1>2, <1>10, <2>2, <2>3 DEF MovesOn, ClosesAreMarked
<1>11. ASSUME NEW w \in Workers, ExitStep(w) \/ ManualClose(w) PROVE ClosesAreMarked'
  <2>1. CASE ExitSkip(w)
    BY <1>4, <2>1 DEF ExitSkip, Bookkeeping, TypeOK
  <2>2. ASSUME NEW r \in Rows, NEW reason \in Reasons, ExitClose(w, r, reason)
        PROVE  ClosesAreMarked'
    <3>1. /\ row'[w] = r /\ \A v \in Workers \ {w} : row'[v] = row[v]
          /\ \A v \in Workers : todo'[v] \subseteq todo[v]
      BY <2>2 DEF ExitClose, Bookkeeping, TypeOK
    <3>2. UNCHANGED job /\ BeginClose(w, r)
      BY <2>2 DEF ExitClose, BeginClose
    <3> QED
      BY <1>10, <3>1, <3>2
  <2>3. CASE ManualClose(w)
    <3>1. row[w] \in Rows /\ UNCHANGED <<row, todo, job>> /\ BeginClose(w, row[w])
      BY <2>3, WorkingRow DEF ManualClose, BeginClose, Working
    <3> QED
      BY <1>10, <3>1
  <2>4. CASE FinishClose(w)
    BY <1>5, <2>4 DEF FinishClose
  <2> QED
    BY <1>11, <2>1, <2>2, <2>3, <2>4 DEF ExitStep
<1>12. ASSUME NEW w \in Workers, RecoverStep(w) PROVE ClosesAreMarked'
  <2>1. ASSUME NEW r \in Rows, RecoverStatus(w, r) \/ RecoverLater(w, r)
        PROVE  ClosesAreMarked'
    <3>1. UNCHANGED <<pc, row, job>> /\ todo' = [todo EXCEPT ![w] = @ \ {r}]
      BY <2>1 DEF RecoverStatus, RecoverLater
    <3>2. \A v \in Workers : todo'[v] \subseteq todo[v]
      BY <3>1 DEF Bookkeeping, TypeOK
    <3> QED
      BY <1>4, <3>1, <3>2
  <2>2. ASSUME NEW r \in Rows, RecoverCheck(w, r) PROVE ClosesAreMarked'
    <3>1. status[r] # "open" /\ UNCHANGED status
      BY <2>2 DEF RecoverCheck, Recovering, ClosesAreMarked, MarkedBy, database
    <3>2. /\ row'[w] = r /\ UNCHANGED job /\ \A v \in Workers : todo'[v] \subseteq todo[v]
          /\ \A v \in Workers \ {w} : row'[v] = row[v] /\ pc'[v] = pc[v]
      BY <2>2 DEF RecoverCheck, Bookkeeping, TypeOK
    <3> QED
      BY <1>2, <3>1, <3>2 DEF ClosesAreMarked
  <2>3. CASE RecoverBegin(w)
    <3>1. mem[w] \in [Legs -> BOOLEAN]
      BY DEF Bookkeeping, TypeOK
    <3>2. /\ MovesOn(w, mem[w], Missing(row[w]))
          /\ pc[w] \in Marked /\ UNCHANGED <<row, job, todo>>
      BY <2>3, <3>1, EnterShortMoves DEF RecoverBegin, Bookkeeping, Marked
    <3> QED
      BY <1>6, <3>1, <3>2
  <2>4. CASE FinishRecover(w)
    BY <1>5, <2>4 DEF FinishRecover
  <2> QED
    BY <1>12, <2>1, <2>2, <2>3, <2>4 DEF RecoverStep
<1>13. ASSUME NEW w \in Workers, NextPass(w) PROVE ClosesAreMarked'
  <2>1. UNCHANGED status
    BY <1>13 DEF NextPass, database
  <2>2. \/ \E j, rows : Load(w, j, rows) /\ (j \in {"prerecover", "recover"} => rows = Stuck)
        \/ Release(w, "idle") /\ job' = [job EXCEPT ![w] = "none"] /\ UNCHANGED todo
    BY <1>13 DEF NextPass
  <2> QED
    BY <1>5, <1>7, <2>1, <2>2
<1>14. ASSUME NEW w \in Workers, Step(w) PROVE ClosesAreMarked'
  BY <1>9, <1>11, <1>12, <1>13, <1>14 DEF Step
<1>15. CASE FastStep
  <2>1. ASSUME StartFast PROVE ClosesAreMarked'
    BY <1>7, <2>1 DEF StartFast, Workers, database
  <2> QED
    BY <1>8, <1>14, <1>15, <2>1 DEF FastStep, Workers
<1>16. CASE SchedStep
  <2>1. ASSUME StartSched PROVE ClosesAreMarked'
    BY <1>7, <2>1 DEF StartSched, Workers, database
  <2> QED
    BY <1>14, <1>16, <2>1 DEF SchedStep, Workers
<1>17. ASSUME NEW w \in Requests, Step(w) \/ \E r \in Rows : ManualCheck(w, r)
       PROVE  ClosesAreMarked'
  <2>1. ASSUME NEW r \in Rows, ManualCheck(w, r) PROVE ClosesAreMarked'
    <3>1. /\ pc'[w] = "checked" /\ job'[w] = "manual"
          /\ \A v \in Workers \ {w} : /\ pc'[v] = pc[v] /\ row'[v] = row[v]
                                      /\ job'[v] = job[v] /\ todo'[v] = todo[v]
      BY <2>1 DEF ManualCheck, Workers, Bookkeeping, TypeOK
    <3>2. MarkedBy(w)'
      BY <3>1 DEF MarkedBy, Marked
    <3> QED
      BY <1>3, <3>1, <3>2 DEF Workers
  <2> QED
    BY <1>14, <1>17, <2>1 DEF Workers
<1>18. CASE Environment
  <2>1. ASSUME NEW w \in Workers, Abort(w) PROVE ClosesAreMarked'
    BY <1>5, <2>1 DEF Abort, Bookkeeping, TypeOK
  <2>2. CASE Crash
    BY <2>2 DEF Crash, ClosesAreMarked, MarkedBy, Marked
  <2> QED
    BY <1>4, <1>18, <2>1, <2>2
    DEF Environment, CooldownOver, StopWindowOver, OpenFunding, CloseFunding,
        DeleteExchange, locals
<1>19. CASE UNCHANGED vars
  BY <1>4, <1>19 DEF vars, locals
<1> QED
  BY <1>15, <1>16, <1>17, <1>18, <1>19 DEF Next

(* Units leave a leg only through a close that was sent for a row of its symbol, *)
(* or through the cancel of an entry.                                            *)
NotLess(s) == \A l \in Legs : venue'[s][l] >= venue[s][l]
TakenBack(s) ==
  \/ \E w \in Workers : pc[w] = "send" /\ SymbolOf[row[w]] = s
  \/ pc[Fast] = "cancel" /\ SymbolOf[row[Fast]] = s

(* The row of an entry in progress. *)
LEMMA PlacingRow ==
  ASSUME Bookkeeping, pc[Fast] \in Placing
  PROVE  row[Fast] \in Rows /\ SymbolOf[row[Fast]] \in Symbols
<1>1. row[Fast] \in Rows
  BY DEF Bookkeeping, RowInHand, TypeOK, Placing, Workers
<1> QED
  BY <1>1, ConstantsAssumption

(* No other step takes a unit away. *)
LEMMA UnitsAreKept ==
  ASSUME Bookkeeping, [Next]_vars, NEW s \in Symbols
  PROVE  NotLess(s) \/ TakenBack(s)
<1>1. ASSUME UNCHANGED venue PROVE NotLess(s)
  BY <1>1 DEF NotLess, Bookkeeping, TypeOK
<1>2. ASSUME NEW t \in Symbols, t # s, NEW l \in Legs, NEW o, NEW left, CloseCall(t, l, o, left)
      PROVE  NotLess(s)
  BY <1>2 DEF CloseCall, NotLess, Bookkeeping, TypeOK
<1>3. CASE EntryStep
  <2>1. ASSUME NEW t \in Symbols, NEW l \in Legs,
               venue' = [venue EXCEPT ![t][l] = @ + 1]
        PROVE  NotLess(s)
    BY <2>1 DEF NotLess, Bookkeeping, TypeOK
  <2>2. pc[Fast] \in Placing => SymbolOf[row[Fast]] \in Symbols
    BY PlacingRow
  <2>3. CASE PlaceFilled \/ \E landed \in BOOLEAN : PlaceFailed(landed)
    <3>1. pc[Fast] \in Placing /\ PlacedLeg \in Legs
      BY <2>3 DEF PlaceFilled, PlaceFailed, Placing, PlacedLeg, Legs
    <3>2. \/ UNCHANGED venue
          \/ venue' = [venue EXCEPT ![SymbolOf[row[Fast]]][PlacedLeg] = @ + 1]
      BY <2>3 DEF PlaceFilled, PlaceFailed
    <3> QED
      BY <1>1, <2>1, <2>2, <3>1, <3>2
  <2>4. CASE Cancel
    <3>1. /\ pc[Fast] = "cancel" /\ SymbolOf[row[Fast]] \in Symbols
          /\ \E o : CloseCall(SymbolOf[row[Fast]], "short", o, o.k = 0)
      BY <2>2, <2>4 DEF Cancel, Placing
    <3> QED
      BY <1>2, <3>1 DEF TakenBack, Legs
  <2> QED
    BY <1>1, <1>3, <2>3, <2>4 DEF EntryStep, EntrySkip, EntryBegin, Persist
<1>4. ASSUME NEW w \in Workers, LegStep(w) PROVE NotLess(s) \/ TakenBack(s)
  <2>1. CASE SendClose(w)
    <3>1. /\ pc[w] = "send" /\ SymbolOf[row[w]] \in Symbols /\ leg[w] \in Legs
          /\ \E o : CloseCall(SymbolOf[row[w]], leg[w], o, FALSE)
      BY <2>1, WorkingRow DEF SendClose, Working
    <3> QED
      BY <1>2, <3>1 DEF TakenBack
  <2> QED
    BY <1>1, <1>4, <2>1 DEF LegStep, VerifiedFlat, VerifiedOpen
<1>5. ASSUME NEW w \in Workers, Step(w) PROVE NotLess(s) \/ TakenBack(s)
  BY <1>1, <1>4, <1>5
  DEF Step, NextPass, ExitStep, ExitSkip, ExitClose, BeginClose, ManualClose, FinishClose,
      RecoverStep, RecoverStatus, RecoverLater, RecoverCheck, RecoverBegin, FinishRecover
<1>6. CASE Environment
  BY <1>1, <1>6
  DEF Environment, Abort, Crash, CooldownOver, StopWindowOver, OpenFunding,
      CloseFunding, DeleteExchange
<1> QED
  BY <1>1, <1>3, <1>5, <1>6
  DEF Next, FastStep, SchedStep, StartFast, StartSched, ManualCheck, Workers, vars

(* The entry of a symbol that has no row yet holds what its orders filled. *)
Untouched(s) == \A q \in Rows : SymbolOf[q] = s => status[q] = "none"
EntryHolds ==
  pc[Fast] \in Placing /\ Untouched(SymbolOf[row[Fast]]) =>
    /\ pc[Fast] \in {"placeLong", "persist"} => venue[SymbolOf[row[Fast]]]["short"] > 0
    /\ pc[Fast] = "persist" => venue[SymbolOf[row[Fast]]]["long"] > 0

Hedging == EntryHolds /\ FirstOpenRowIsHedged

LEMMA StepsKeepHedging ==
  ASSUME Bookkeeping, Bookkeeping', SerialEntry, ClosesAreMarked, Hedging, [Next]_vars
  PROVE  Hedging'
<1>1. /\ \A r \in Rows : status'[r] = "none" => status[r] = "none"
      /\ \A r \in Rows : status'[r] = "open" => status[r] = "open" \/ RowCreated(r)
  BY StepsMoveRows DEF RowsMove, RowUnchanged, RowCreated, RowAdvanced
<1>2. /\ Fast \in Workers
      /\ \A s \in Symbols, l \in Legs : venue[s][l] \in Nat /\ venue'[s][l] \in Nat
  BY DEF Bookkeeping, TypeOK, Workers
<1>3. pc[Fast] \in Placing => row[Fast] \in Rows /\ SymbolOf[row[Fast]] \in Symbols
  BY PlacingRow
<1>4. ASSUME NEW w \in Workers, pc[w] = "send"
      PROVE  row[w] \in Rows /\ status[row[w]] \notin {"none", "open"}
  BY <1>4, WorkingRow DEF Working, ClosesAreMarked, MarkedBy, Marked
<1>5. EntryHolds'
  <2> SUFFICES ASSUME pc'[Fast] \in Placing, Untouched(SymbolOf[row[Fast]])'
               PROVE  /\ pc'[Fast] \in {"placeLong", "persist"} =>
                           venue'[SymbolOf[row'[Fast]]]["short"] > 0
                      /\ pc'[Fast] = "persist" => venue'[SymbolOf[row'[Fast]]]["long"] > 0
    BY DEF EntryHolds
  <2>1. CASE \E r \in Rows : EntryBegin(r)
    BY <1>2, <2>1 DEF EntryBegin, Bookkeeping, TypeOK
  <2>2. CASE ~\E r \in Rows : EntryBegin(r)
    <3> DEFINE s == SymbolOf[row[Fast]]
    <3>1. /\ pc[Fast] \in Placing /\ row'[Fast] = row[Fast]
          /\ pc'[Fast] \in {pc[Fast], "cancel"} \/ PlaceFilled
      BY <2>2, StepsKeepEntry DEF SameEntry
    <3>2. Untouched(s) /\ s \in Symbols
      BY <1>1, <1>3, <3>1 DEF Untouched
    <3>3. /\ pc[Fast] \in {"placeLong", "persist"} => venue[s]["short"] > 0
          /\ pc[Fast] = "persist" => venue[s]["long"] > 0
      BY <3>1, <3>2 DEF Hedging, EntryHolds
    <3>4. CASE PlaceFilled
      <4>1. CASE pc[Fast] = "placeShort"
        BY <1>2, <3>1, <3>2, <3>4, <4>1
        DEF PlaceFilled, PlacedLeg, Legs, Bookkeeping, TypeOK
      <4>2. CASE pc[Fast] = "placeLong"
        BY <1>2, <3>1, <3>2, <3>3, <3>4, <4>2
        DEF PlaceFilled, PlacedLeg, Legs, Bookkeeping, TypeOK
      <4> QED
        BY <3>4, <4>1, <4>2 DEF PlaceFilled
    <3>5. CASE pc'[Fast] = "cancel"
      BY <3>5
    <3>6. CASE pc'[Fast] = pc[Fast] /\ pc[Fast] # "cancel"
      <4>1. ~TakenBack(s)
        BY <1>4, <3>2, <3>6 DEF TakenBack, Untouched
      <4>2. NotLess(s)
        BY <3>2, <4>1, UnitsAreKept
      <4> QED
        BY <1>2, <3>1, <3>2, <3>3, <3>6, <4>2 DEF NotLess, Legs
    <3> QED
      BY <3>1, <3>4, <3>5, <3>6
  <2> QED
    BY <2>1, <2>2
<1>6. FirstOpenRowIsHedged'
  <2> SUFFICES ASSUME NEW r \in Rows, status'[r] = "open",
                      \A q \in Rows \ {r} : SymbolOf[q] = SymbolOf[r] => status'[q] = "none"
               PROVE  \A l \in Legs : venue'[SymbolOf[r]][l] > 0
    BY DEF FirstOpenRowIsHedged, OpenRows, HoldsBothLegs
  <2> DEFINE s == SymbolOf[r]
  <2>1. \A q \in Rows \ {r} : SymbolOf[q] = s => status[q] = "none"
    BY <1>1
  <2>2. s \in Symbols
    BY ConstantsAssumption
  <2>3. CASE RowCreated(r)
    <3>1. pc[Fast] = "persist" /\ r = row[Fast] /\ status[r] = "none" /\ UNCHANGED venue
      BY <2>3 DEF RowCreated, Persist
    <3>2. Untouched(s)
      BY <2>1, <3>1 DEF Untouched
    <3>3. venue[s]["short"] > 0 /\ venue[s]["long"] > 0
      BY <3>1, <3>2 DEF Hedging, EntryHolds, Placing
    <3> QED
      BY <3>1, <3>3 DEF Legs
  <2>4. CASE status[r] = "open"
    <3>1. \A l \in Legs : venue[s][l] > 0
      BY <2>1, <2>4 DEF Hedging, FirstOpenRowIsHedged, OpenRows, HoldsBothLegs
    <3>2. ~(pc[Fast] = "cancel" /\ SymbolOf[row[Fast]] = s)
      BY <2>4 DEF SerialEntry, EntryChecked, HasOpenRow, OpenRows, Placing
    <3>3. ~TakenBack(s)
      BY <1>4, <2>1, <2>4, <3>2 DEF TakenBack
    <3>4. NotLess(s)
      BY <2>2, <3>3, UnitsAreKept
    <3> QED
      BY <1>2, <2>2, <3>1, <3>4 DEF NotLess
  <2> QED
    BY <1>1, <2>3, <2>4
<1> QED
  BY <1>5, <1>6 DEF Hedging

(* The first position on a symbol is hedged as long as its row is open: it is *)
(* written when both orders have filled, and marked before a close is sent.   *)
THEOREM FirstPositionIsHedged == Spec => []FirstOpenRowIsHedged
<1>1. Init => ClosesAreMarked /\ Hedging
  BY DEF Init, ClosesAreMarked, MarkedBy, Marked, Hedging, EntryHolds, FirstOpenRowIsHedged,
         OpenRows, Placing, Workers
<1>2. /\ Bookkeeping /\ SerialEntry /\ Bookkeeping' /\ ClosesAreMarked /\ Hedging
      /\ [Next]_vars
      => (ClosesAreMarked /\ Hedging)'
  BY StepsKeepMarks, StepsKeepHedging
<1>3. ClosesAreMarked /\ Hedging => FirstOpenRowIsHedged
  BY DEF Hedging
<1> QED
  BY <1>1, <1>2, <1>3, SerialEntryInvariant, PTL DEF Spec

-----------------------------------------------------------------------------
(* No exposure is forgotten.  A step may take units from a leg, lose track of *)
(* some (stray), or flag a leg; the invariant survives it when no owner of a  *)
(* leg that still holds something is lost.                                    *)

NoneMissing == gone = {} /\ \A w \in Workers : noex[w] = {}

OwnersKept ==
  \A r \in Rows, l \in Legs :
    Owns(r, l) => Owns(r, l)' \/ venue'[SymbolOf[r]][l] = 0

StraysKept ==
  \A s \in Symbols, l \in Legs : stray[s][l] => stray'[s][l] \/ venue'[s][l] = 0

\* What is held beyond the entry in progress was so before, or is recorded now.
HeldKept ==
  \A s \in Symbols, l \in Legs :
    venue'[s][l] > InFlight(s, l)' =>
      \/ venue[s][l] > InFlight(s, l)
      \/ stray'[s][l]
      \/ \E r \in Rows : SymbolOf[r] = s /\ Owns(r, l)'

LEMMA CarryHeld ==
  ASSUME TypeOK', HeldIsOwned, OwnersKept, StraysKept, HeldKept
  PROVE  HeldIsOwned'
<1> SUFFICES ASSUME NEW s \in Symbols, NEW l \in Legs, venue'[s][l] > InFlight(s, l)'
             PROVE  stray'[s][l] \/ \E r \in Rows : SymbolOf[r] = s /\ Owns(r, l)'
  BY DEF HeldIsOwned
<1>1. venue'[s][l] # 0
  BY DEF TypeOK, InFlight
<1>2. CASE venue[s][l] > InFlight(s, l)
  <2>1. stray[s][l] \/ \E r \in Rows : SymbolOf[r] = s /\ Owns(r, l)
    BY <1>2 DEF HeldIsOwned
  <2> QED
    BY <1>1, <2>1 DEF OwnersKept, StraysKept
<1> QED
  BY <1>2 DEF HeldKept

LEMMA FlightSame ==
  ASSUME \/ pc'[Fast] = pc[Fast] /\ row'[Fast] = row[Fast]
         \/ pc[Fast] \notin Placing /\ pc'[Fast] \notin Placing
  PROVE  \A s \in Symbols, l \in Legs : InFlight(s, l)' = InFlight(s, l)
BY DEF InFlight, Placing

(* A worker that has no entry in hand and takes or loses no unit. *)
LEMMA QuietStep ==
  ASSUME TypeOK', HeldIsOwned, OwnersKept, UNCHANGED venue,
         \A s \in Symbols, l \in Legs : stray[s][l] => stray'[s][l],
         \/ pc'[Fast] = pc[Fast] /\ row'[Fast] = row[Fast]
         \/ pc[Fast] \notin Placing /\ pc'[Fast] \notin Placing
  PROVE  HeldIsOwned'
<1>1. \A s \in Symbols, l \in Legs : InFlight(s, l)' = InFlight(s, l)
  BY FlightSame
<1>2. StraysKept /\ HeldKept
  BY <1>1 DEF StraysKept, HeldKept
<1> QED
  BY <1>2, CarryHeld

(* Owners survive a step that flags nothing and loads nothing. *)
LEMMA OwnersSame ==
  ASSUME Bookkeeping, UNCHANGED <<status, flag>>,
         \A v \in Workers : \/ row'[v] = row[v] /\ mem'[v] = mem[v]
                            \/ row'[v] = NoRow
                            \/ row'[v] \in Rows /\ status[row'[v]] = "none"
                            \/ row'[v] \in Rows /\ mem'[v] = flag[row'[v]]
  PROVE  OwnersKept
<1> SUFFICES ASSUME NEW r \in Rows, NEW l \in Legs, Owns(r, l)
             PROVE  Owns(r, l)'
  BY DEF OwnersKept
<1>1. r # NoRow
  BY ConstantsAssumption
<1> QED
  BY <1>1 DEF Owns

LEMMA LegsKeepHeld ==
  ASSUME Bookkeeping, Bookkeeping', HeldIsOwned, NoneMissing, NEW w \in Workers, LegStep(w)
  PROVE  HeldIsOwned' /\ NoneMissing'
<1> DEFINE s == SymbolOf[row[w]]
<1>1. noex[w] = {}
  BY DEF NoneMissing
<1>2. ASSUME pc[w] \in Working, pc'[w] \in Working,
             \A v \in Workers \ {w} : pc'[v] = pc[v], UNCHANGED row
      PROVE  \/ pc'[Fast] = pc[Fast] /\ row'[Fast] = row[Fast]
             \/ pc[Fast] \notin Placing /\ pc'[Fast] \notin Placing
  BY <1>2 DEF Placing, Working, Workers
<1>3. CASE SendClose(w)
  <2>1. /\ pc[w] = "send"
        /\ UNCHANGED <<status, flag, gone, row, noex>>
    BY <1>3 DEF SendClose, database
  <2>2. /\ row[w] \in Rows /\ s \in Symbols
        /\ leg[w] \in Legs /\ mem[w] \in [Legs -> BOOLEAN]
    BY <2>1, WorkingRow DEF Working
  <2>3. PICK o \in CloseOutcomes(venue[s][leg[w]]) :
          /\ CloseCall(s, leg[w], o, FALSE)
          /\ \/ /\ pc' = [pc EXCEPT ![w] = "verify"]
                /\ UNCHANGED mem
             \/ Retry(w)
    BY <1>3 DEF SendClose
  <2>4. /\ mem' = mem /\ pc'[w] \in Working
        /\ \A v \in Workers \ {w} : pc'[v] = pc[v]
    <3>1. CASE /\ pc' = [pc EXCEPT ![w] = "verify"]
               /\ UNCHANGED mem
      BY <3>1 DEF Bookkeeping, TypeOK, Working
    <3>2. CASE Retry(w)
      <4>1. MovesOn(w, mem[w], noex[w])
        BY <3>2, RetryMoves DEF Bookkeeping
      <4> QED
        BY <1>1, <4>1 DEF MovesOn, Bookkeeping, TypeOK, Working
    <3> QED
      BY <2>3, <3>1, <3>2
  <2>5. OwnersKept
    BY <2>1, <2>4, OwnersSame
  <2>6. /\ o.k \in Nat
        /\ venue' = [venue EXCEPT ![s][leg[w]] = @ - o.k]
        /\ stray' = [stray EXCEPT ![s][leg[w]] = (@ \/ FALSE) /\ venue[s][leg[w]] > o.k]
    BY <2>3 DEF CloseCall, CloseOutcomes
  <2> HIDE DEF s
  <2>7. /\ o.k <= venue[s][leg[w]]
        /\ venue[s][leg[w]] \in Nat
    BY <2>2, <2>3 DEF CloseOutcomes, Bookkeeping, TypeOK
  <2>8. ASSUME NEW t \in Symbols, NEW l \in Legs
        PROVE  /\ venue'[t][l] <= venue[t][l]
               /\ stray[t][l] => stray'[t][l] \/ venue'[t][l] = 0
    <3>1. venue[t][l] \in Nat
      BY DEF Bookkeeping, TypeOK
    <3>2. CASE t = s /\ l = leg[w]
      BY <2>6, <2>7, <3>1, <3>2 DEF Bookkeeping, TypeOK
    <3>3. CASE ~(t = s /\ l = leg[w])
      BY <2>2, <2>6, <3>1, <3>3 DEF Bookkeeping, TypeOK
    <3> QED
      BY <3>2, <3>3
  <2>9. \A t \in Symbols, l \in Legs : InFlight(t, l)' = InFlight(t, l)
    BY <1>2, <2>1, <2>4, FlightSame DEF Working
  <2>10. HeldKept /\ StraysKept
    <3>1. \A t \in Symbols, l \in Legs : venue[t][l] \in Nat /\ venue'[t][l] \in Nat
      BY DEF Bookkeeping, TypeOK
    <3>2. \A t \in Symbols, l \in Legs : InFlight(t, l) \in {0, 1}
      BY DEF InFlight
    <3> QED
      BY <2>8, <2>9, <3>1, <3>2 DEF HeldKept, StraysKept
  <2> QED
    BY <2>1, <2>5, <2>10, CarryHeld DEF NoneMissing, Bookkeeping
<1>4. CASE VerifiedOpen(w)
  <2>1. /\ pc[w] = "verify" /\ Retry(w)
        /\ UNCHANGED <<status, flag, gone, venue, stray, row, noex>>
    BY <1>4 DEF VerifiedOpen, database
  <2>2. MovesOn(w, mem[w], noex[w])
    BY <2>1, RetryMoves DEF Bookkeeping
  <2>3. mem' = mem
    BY <1>1, <2>2 DEF MovesOn, Bookkeeping, TypeOK
  <2>4. OwnersKept
    BY <2>1, <2>3, OwnersSame
  <2>5. \/ pc'[Fast] = pc[Fast] /\ row'[Fast] = row[Fast]
        \/ pc[Fast] \notin Placing /\ pc'[Fast] \notin Placing
    BY <1>2, <2>1, <2>2 DEF MovesOn, Working
  <2> QED
    BY <2>1, <2>4, <2>5, QuietStep DEF NoneMissing, Bookkeeping
<1>5. CASE VerifiedFlat(w)
  <2> DEFINE m == [mem[w] EXCEPT ![leg[w]] = TRUE]
             f == Flagged(flag[row[w]], m)
  <2>1. /\ pc[w] = "verify" /\ venue[s][leg[w]] = 0
        /\ UNCHANGED <<status, gone, venue, stray, row, noex>>
        /\ \/ flag' = [flag EXCEPT ![row[w]] = f] /\ Advance(w, f)
           \/ UNCHANGED flag /\ Advance(w, m)
    BY <1>5 DEF VerifiedFlat
  <2>2. /\ row[w] \in Rows /\ s \in Symbols
        /\ leg[w] \in Legs /\ mem[w] \in [Legs -> BOOLEAN]
    BY <2>1, WorkingRow DEF Working
  <2>3. /\ m \in [Legs -> BOOLEAN] /\ f \in [Legs -> BOOLEAN]
        /\ \A l \in Legs \ {leg[w]} : m[l] = mem[w][l]
        /\ \A l \in Legs \ {leg[w]} : f[l] = (flag[row[w]][l] \/ mem[w][l])
    BY <2>2 DEF Flagged, Bookkeeping, TypeOK
  <2> HIDE DEF m, f
  <2>4. /\ mem'[w] \in {m, f}
        /\ pc'[w] \in Working
        /\ \A v \in Workers \ {w} : pc'[v] = pc[v] /\ mem'[v] = mem[v]
    <3>1. CASE Advance(w, f)
      <4>1. MovesOn(w, f, noex[w])
        BY <2>3, <3>1, AdvanceMoves DEF Bookkeeping
      <4> QED
        BY <1>1, <4>1 DEF MovesOn, Working
    <3>2. CASE Advance(w, m)
      <4>1. MovesOn(w, m, noex[w])
        BY <2>3, <3>2, AdvanceMoves DEF Bookkeeping
      <4> QED
        BY <1>1, <4>1 DEF MovesOn, Working
    <3> QED
      BY <2>1, <3>1, <3>2
  <2>5. ASSUME NEW q \in Rows, NEW l \in Legs, Owns(q, l),
               ~(q = row[w] /\ l = leg[w])
        PROVE  Owns(q, l)'
    <3>1. CASE q = row[w]
      <4>1. ~m[l] /\ ~f[l] /\ ~flag[q][l]
        BY <2>3, <2>5, <3>1 DEF Owns
      <4>2. flag'[q][l] \in {flag[q][l], f[l]}
        BY <2>1, <2>2, <3>1 DEF Bookkeeping, TypeOK
      <4>3. \A v \in Workers : row'[v] = q => ~mem'[v][l]
        BY <2>1, <2>4, <2>5, <4>1 DEF Owns
      <4> QED
        BY <2>1, <2>5, <4>1, <4>2, <4>3 DEF Owns
    <3>2. CASE q # row[w]
      <4>1. flag'[q] = flag[q]
        BY <2>1, <2>2, <3>2 DEF Bookkeeping, TypeOK
      <4> QED
        BY <2>1, <2>4, <2>5, <3>2, <4>1 DEF Owns
    <3> QED
      BY <3>1, <3>2
  <2>6. OwnersKept
    BY <2>1, <2>5 DEF OwnersKept
  <2>7. \/ pc'[Fast] = pc[Fast] /\ row'[Fast] = row[Fast]
        \/ pc[Fast] \notin Placing /\ pc'[Fast] \notin Placing
    BY <1>2, <2>1, <2>4 DEF Working
  <2> QED
    BY <2>1, <2>6, <2>7, QuietStep DEF NoneMissing, Bookkeeping
<1> QED
  BY <1>3, <1>4, <1>5 DEF LegStep

LEMMA WorkersKeepHeld ==
  ASSUME Bookkeeping, Bookkeeping', HeldIsOwned, NoneMissing, NEW w \in Workers,
         Step(w) \/ \E r \in Rows : ManualCheck(w, r)
  PROVE  HeldIsOwned' /\ NoneMissing'
<1> DEFINE Quiet ==
      \/ pc'[Fast] = pc[Fast] /\ row'[Fast] = row[Fast]
      \/ pc[Fast] \notin Placing /\ pc'[Fast] \notin Placing
<1>1. ASSUME pc[w] \notin Placing, pc'[w] \notin Placing,
             \A v \in Workers \ {w} : pc'[v] = pc[v] /\ row'[v] = row[v]
      PROVE  Quiet
  BY <1>1 DEF Workers
<1>2. ASSUME NEW p \in {"idle", "pick"}, Release(w, p), pc[w] \notin Placing
      PROVE  Quiet /\ Released(w, p) /\ (NoneMissing => \A v \in Workers : noex'[v] = {})
  <2>1. Released(w, p)
    BY <1>2, ReleaseType DEF Bookkeeping
  <2>2. Quiet
    BY <1>1, <1>2, <2>1 DEF Released, Placing
  <2>3. NoneMissing => \A v \in Workers : noex'[v] = {}
    BY <1>2 DEF Release, NoneMissing, Bookkeeping, TypeOK
  <2> QED
    BY <2>1, <2>2, <2>3
<1>3. ASSUME UNCHANGED <<status, flag, venue, stray, row, mem, noex, gone>>, Quiet
      PROVE  HeldIsOwned' /\ NoneMissing'
  <2>1. OwnersKept
    BY <1>3, OwnersSame
  <2> QED
    BY <1>3, <2>1, QuietStep DEF NoneMissing, Bookkeeping
<1>4. ASSUME NEW r \in Rows, BeginClose(w, r), pc[w] \notin Placing,
             status[r] # "none", row' = [row EXCEPT ![w] = r]
      PROVE  HeldIsOwned' /\ NoneMissing'
  <2>1. flag[r] \in [Legs -> BOOLEAN] /\ Missing(r) = {}
    BY DEF Bookkeeping, TypeOK, NoneMissing, Missing
  <2>2. MovesOn(w, flag[r], Missing(r))
    BY <1>4, <2>1, EnterShortMoves DEF BeginClose, Bookkeeping
  <2>3. /\ mem'[w] = flag[r] /\ pc'[w] \notin Placing /\ row'[w] = r
        /\ \A v \in Workers \ {w} : pc'[v] = pc[v] /\ mem'[v] = mem[v] /\ row'[v] = row[v]
    BY <1>4, <2>1, <2>2 DEF MovesOn, Placing, Bookkeeping, TypeOK
  <2>4. /\ status' = [status EXCEPT ![r] = "closing"]
        /\ noex' = [noex EXCEPT ![w] = Missing(r)]
        /\ UNCHANGED <<flag, gone, venue, stray>>
    BY <1>4 DEF BeginClose
  <2>5. OwnersKept
    <3> SUFFICES ASSUME NEW q \in Rows, NEW l \in Legs, Owns(q, l)
                 PROVE  Owns(q, l)'
      BY DEF OwnersKept
    <3>1. status'[q] # "none"
      BY <2>4 DEF Owns, Bookkeeping, TypeOK
    <3>2. \A v \in Workers : row'[v] = q => ~mem'[v][l]
      BY <2>3 DEF Owns
    <3> QED
      BY <2>4, <3>1, <3>2 DEF Owns
  <2>6. NoneMissing'
    BY <2>1, <2>4 DEF NoneMissing, Bookkeeping, TypeOK
  <2>7. Quiet
    BY <1>1, <1>4, <2>3
  <2> QED
    BY <2>4, <2>5, <2>6, <2>7, QuietStep DEF Bookkeeping
<1>5. ASSUME pc[w] = "finish", NEW p \in {"idle", "pick"}, Release(w, p),
             NEW st, status' = [status EXCEPT ![row[w]] = st], st # "none",
             flag' = [flag EXCEPT ![row[w]] = Flagged(@, mem[w])],
             UNCHANGED <<gone, venue, stray>>
      PROVE  HeldIsOwned' /\ NoneMissing'
  <2>1. /\ Quiet /\ Released(w, p)
        /\ NoneMissing => \A v \in Workers : noex'[v] = {}
    BY <1>2, <1>5 DEF Placing
  <2>2. row[w] \in Rows
    BY <1>5, WorkingRow DEF Working
  <2>3. OwnersKept
    <3> SUFFICES ASSUME NEW q \in Rows, NEW l \in Legs, Owns(q, l)
                 PROVE  Owns(q, l)'
      BY DEF OwnersKept
    <3>1. status'[q] # "none"
      BY <1>5 DEF Owns, Bookkeeping, TypeOK
    <3>2. \A v \in Workers : row'[v] = q => ~mem'[v][l]
      <4>1. q # NoRow
        BY ConstantsAssumption
      <4> QED
        BY <2>1, <4>1 DEF Owns, Released
    <3>3. ~flag'[q][l]
      BY <1>5, <2>2 DEF Owns, Flagged, Bookkeeping, TypeOK
    <3> QED
      BY <3>1, <3>2, <3>3 DEF Owns
  <2> QED
    BY <1>5, <2>1, <2>3, QuietStep DEF NoneMissing, Bookkeeping
<1>6. CASE NextPass(w)
  <2>1. /\ pc[w] = "pick"
        /\ UNCHANGED <<status, flag, gone, venue, stray>>
        /\ \/ pc' = [pc EXCEPT ![w] = "pick"] /\ UNCHANGED <<row, mem, noex>>
           \/ Release(w, "idle")
    BY <1>6 DEF NextPass, Load, database
  <2>2. CASE pc' = [pc EXCEPT ![w] = "pick"] /\ UNCHANGED <<row, mem, noex>>
    <3>1. Quiet
      BY <2>1, <2>2 DEF Bookkeeping, TypeOK
    <3> QED
      BY <1>3, <2>1, <2>2, <3>1
  <2>3. CASE Release(w, "idle")
    <3>1. /\ Quiet /\ Released(w, "idle")
          /\ NoneMissing => \A v \in Workers : noex'[v] = {}
      BY <1>2, <2>1, <2>3 DEF Placing
    <3>2. OwnersKept
      BY <2>1, <3>1, OwnersSame DEF Released
    <3> QED
      BY <2>1, <3>1, <3>2, QuietStep DEF NoneMissing, Bookkeeping
  <2> QED
    BY <2>1, <2>2, <2>3
<1>7. CASE ExitStep(w)
  <2>1. CASE ExitSkip(w)
    BY <1>3, <2>1 DEF ExitSkip, database
  <2>2. ASSUME NEW r \in Rows, NEW reason \in Reasons, ExitClose(w, r, reason)
        PROVE  HeldIsOwned' /\ NoneMissing'
    <3>1. status[r] # "none" /\ pc[w] \notin Placing
      BY <2>2 DEF ExitClose, Placing, Bookkeeping, LoadedRowsExist
    <3> QED
      BY <1>4, <2>2, <3>1 DEF ExitClose
  <2>3. CASE FinishClose(w)
    <3>1. FinalStatus(mem[w]) # "none"
      BY DEF FinalStatus
    <3> QED
      BY <1>5, <2>3, <3>1 DEF FinishClose
  <2> QED
    BY <1>7, <2>1, <2>2, <2>3 DEF ExitStep
<1>8. CASE ManualClose(w)
  <2>1. row[w] \in Rows /\ status[row[w]] # "none" /\ pc[w] \notin Placing
    BY <1>8, WorkingRow DEF ManualClose, Working, Placing
  <2>2. row' = [row EXCEPT ![w] = row[w]]
    BY <1>8 DEF ManualClose, Bookkeeping, TypeOK
  <2> QED
    BY <1>4, <1>8, <2>1, <2>2 DEF ManualClose
<1>9. ASSUME NEW r \in Rows, ManualCheck(w, r)
      PROVE  HeldIsOwned' /\ NoneMissing'
  <2>1. /\ pc[w] = "idle" /\ pc' = [pc EXCEPT ![w] = "checked"]
        /\ row' = [row EXCEPT ![w] = r] /\ mem' = [mem EXCEPT ![w] = flag[r]]
        /\ UNCHANGED <<status, flag, gone, venue, stray, noex>>
    BY <1>9 DEF ManualCheck, database
  <2>2. /\ row'[w] = r /\ pc'[w] = "checked" /\ mem'[w] = flag[r]
        /\ \A v \in Workers \ {w} : pc'[v] = pc[v] /\ row'[v] = row[v] /\ mem'[v] = mem[v]
    BY <2>1 DEF Bookkeeping, TypeOK
  <2>3. OwnersKept
    BY <2>1, <2>2, OwnersSame
  <2>4. Quiet
    BY <1>1, <2>1, <2>2 DEF Placing
  <2> QED
    BY <2>1, <2>3, <2>4, QuietStep DEF NoneMissing, Bookkeeping
<1>10. CASE RecoverStep(w)
  <2>1. ASSUME NEW r \in Rows, RecoverStatus(w, r) PROVE HeldIsOwned' /\ NoneMissing'
    <3>1. status' = [status EXCEPT ![r] = "closed"]
          /\ UNCHANGED <<flag, gone, venue, stray, pc, row, mem, noex>>
      BY <2>1 DEF RecoverStatus
    <3>2. OwnersKept
      BY <3>1 DEF OwnersKept, Owns, Bookkeeping, TypeOK
    <3> QED
      BY <3>1, <3>2, QuietStep DEF NoneMissing, Bookkeeping
  <2>2. ASSUME NEW r \in Rows, RecoverLater(w, r) PROVE HeldIsOwned' /\ NoneMissing'
    BY <1>3, <2>2 DEF RecoverLater, database
  <2>3. ASSUME NEW r \in Rows, RecoverCheck(w, r) PROVE HeldIsOwned' /\ NoneMissing'
    <3>1. /\ pc[w] = "pick"
          /\ pc' = [pc EXCEPT ![w] = "due"]
          /\ row' = [row EXCEPT ![w] = r]
          /\ mem' = [mem EXCEPT ![w] = flag[r]]
          /\ UNCHANGED <<status, flag, gone, venue, stray, noex>>
      BY <2>3 DEF RecoverCheck, database
    <3>2. /\ row'[w] = r /\ mem'[w] = flag[r] /\ pc'[w] = "due"
          /\ \A v \in Workers \ {w} : pc'[v] = pc[v] /\ row'[v] = row[v] /\ mem'[v] = mem[v]
      BY <3>1 DEF Bookkeeping, TypeOK
    <3>3. OwnersKept
      BY <3>1, <3>2, OwnersSame
    <3>4. Quiet
      BY <1>1, <3>1, <3>2 DEF Placing
    <3> QED
      BY <3>1, <3>3, <3>4, QuietStep DEF NoneMissing, Bookkeeping
  <2>4. CASE RecoverBegin(w)
    <3>1. /\ pc[w] = "due" /\ noex' = [noex EXCEPT ![w] = Missing(row[w])]
          /\ UNCHANGED <<status, flag, gone, venue, stray, row>>
          /\ mem[w] \in [Legs -> BOOLEAN] /\ Missing(row[w]) = {}
      BY <2>4 DEF RecoverBegin, database, Bookkeeping, TypeOK, NoneMissing, Missing
    <3>2. MovesOn(w, mem[w], Missing(row[w]))
      BY <2>4, <3>1, EnterShortMoves DEF RecoverBegin, Bookkeeping
    <3>3. mem' = mem /\ pc'[w] \notin Placing /\ \A v \in Workers \ {w} : pc'[v] = pc[v]
      BY <3>1, <3>2 DEF MovesOn, Placing, Bookkeeping, TypeOK
    <3>4. OwnersKept
      BY <3>1, <3>3, OwnersSame
    <3>5. Quiet
      BY <1>1, <3>1, <3>3 DEF Placing
    <3>6. NoneMissing'
      BY <3>1 DEF NoneMissing, Bookkeeping, TypeOK
    <3> QED
      BY <3>1, <3>4, <3>5, <3>6, QuietStep DEF Bookkeeping
  <2>5. CASE FinishRecover(w)
    <3> DEFINE st == IF \A l \in Legs : mem[w][l] THEN "closed" ELSE status[row[w]]
    <3>1. pc[w] = "finish"
      BY <2>5 DEF FinishRecover
    <3>2. st # "none"
      BY <3>1, WorkingRow DEF Working
    <3>3. /\ status' = [status EXCEPT ![row[w]] = st]
          /\ flag' = [flag EXCEPT ![row[w]] = Flagged(@, mem[w])]
          /\ Release(w, "pick")
          /\ UNCHANGED <<gone, venue, stray>>
      BY <2>5 DEF FinishRecover
    <3> HIDE DEF st
    <3> QED
      BY <1>5, <3>1, <3>2, <3>3
  <2> QED
    BY <1>10, <2>1, <2>2, <2>3, <2>4, <2>5 DEF RecoverStep
<1> QED
  BY <1>6, <1>7, <1>8, <1>9, <1>10, LegsKeepHeld DEF Step

(* The units of an entry become its row's when the row is written, or strays *)
(* when the entry fails.                                                     *)
LEMMA EntryKeepsHeld ==
  ASSUME Bookkeeping, Bookkeeping', HeldIsOwned, NoneMissing, EntryStep
  PROVE  HeldIsOwned' /\ NoneMissing'
<1>1. /\ Fast \in Workers
      /\ \A s \in Symbols, l \in Legs : venue[s][l] \in Nat /\ venue'[s][l] \in Nat
  BY DEF Workers, Bookkeeping, TypeOK
<1>2. ASSUME pc[Fast] \in Placing
      PROVE  /\ row[Fast] \in Rows /\ SymbolOf[row[Fast]] \in Symbols
             /\ status[row[Fast]] = "none"
             /\ \A v \in Workers \ {Fast} : row[v] # row[Fast]
  <2>1. row[Fast] \in Rows /\ status[row[Fast]] = "none"
    <3>1. row[Fast] # NoRow
      BY <1>1, <1>2 DEF Bookkeeping, RowInHand, Placing
    <3> QED
      BY <1>1, <1>2, <3>1 DEF Bookkeeping, TypeOK, RowInHand
  <2>2. ASSUME NEW v \in Workers \ {Fast}, row[v] = row[Fast] PROVE FALSE
    <3>1. row[v] # NoRow
      BY <2>1, <2>2, ConstantsAssumption
    <3>2. pc[v] \in Placing \/ pc[v] \in Working
      BY <3>1 DEF Bookkeeping, TypeOK, RowInHand, Placing, Working
    <3> QED
      BY <2>1, <2>2, <3>2 DEF Bookkeeping, RowInHand
  <2> QED
    BY <2>1, <2>2, ConstantsAssumption
<1>3. ASSUME Release(Fast, "pick")
      PROVE  /\ Released(Fast, "pick")
             /\ \A s \in Symbols, l \in Legs : InFlight(s, l)' = 0
             /\ \A v \in Workers : noex'[v] = {}
  <2>1. Released(Fast, "pick")
    BY <1>1, <1>3, ReleaseType DEF Bookkeeping
  <2>2. row'[Fast] = NoRow
    BY <2>1 DEF Released
  <2>3. \A v \in Workers : noex'[v] = {}
    BY <1>3 DEF Release, NoneMissing, Bookkeeping, TypeOK
  <2> QED
    BY <2>1, <2>2, <2>3 DEF InFlight
<1>4. CASE EntrySkip
  <2>1. UNCHANGED <<status, flag, gone, venue, stray, pc, row, mem, noex>>
    BY <1>4 DEF EntrySkip, database
  <2>2. OwnersKept
    BY <2>1, OwnersSame
  <2> QED
    BY <2>1, <2>2, QuietStep DEF NoneMissing, Bookkeeping
<1>5. ASSUME NEW r \in Rows, EntryBegin(r)
      PROVE  HeldIsOwned' /\ NoneMissing'
  <2>1. /\ pc[Fast] = "pick" /\ pc'[Fast] = "placeShort" /\ row'[Fast] = r
        /\ \A v \in Workers \ {Fast} : row'[v] = row[v]
        /\ status[r] = "none"
        /\ UNCHANGED <<status, flag, gone, venue, stray, mem, noex>>
    BY <1>1, <1>5 DEF EntryBegin, database, Bookkeeping, TypeOK
  <2>2. OwnersKept
    BY <2>1, OwnersSame
  <2>3. \A s \in Symbols, l \in Legs : InFlight(s, l) = 0 /\ InFlight(s, l)' = 0
    BY <2>1 DEF InFlight
  <2>4. StraysKept /\ HeldKept
    BY <2>1, <2>3 DEF StraysKept, HeldKept
  <2> QED
    BY <2>1, <2>2, <2>4, CarryHeld DEF NoneMissing, Bookkeeping
<1>6. CASE PlaceFilled
  <2> DEFINE s == SymbolOf[row[Fast]]
             l == PlacedLeg
  <2>1. /\ pc[Fast] \in {"placeShort", "placeLong"}
        /\ venue' = [venue EXCEPT ![s][l] = @ + 1]
        /\ UNCHANGED <<status, flag, gone, stray, row, mem, noex>>
    BY <1>6 DEF PlaceFilled, database
  <2>2. pc'[Fast] = IF pc[Fast] = "placeShort" THEN "placeLong" ELSE "persist"
    BY <1>1, <1>6 DEF PlaceFilled, Bookkeeping, TypeOK
  <2>3. l \in Legs /\ s \in Symbols /\ row[Fast] \in Rows /\ row[Fast] # NoRow
    BY <1>2, <2>1, ConstantsAssumption DEF Placing, PlacedLeg, Legs
  <2>4. OwnersKept
    BY <2>1, OwnersSame
  <2>5. ASSUME NEW t \in Symbols, NEW k \in Legs
        PROVE  venue'[t][k] > InFlight(t, k)' => venue[t][k] > InFlight(t, k)
    <3>1. CASE t = s /\ k = l
      <4>1. venue'[t][k] = venue[t][k] + 1
        BY <2>1, <2>3, <3>1 DEF Bookkeeping, TypeOK
      <4>2. InFlight(t, k) = 0 /\ InFlight(t, k)' = 1
        BY <2>1, <2>2, <2>3, <3>1 DEF InFlight, PlacedLeg
      <4> QED
        BY <1>1, <4>1, <4>2
    <3>2. CASE ~(t = s /\ k = l)
      <4> HIDE DEF l
      <4>1. venue'[t][k] = venue[t][k]
        BY <2>1, <2>3, <3>2 DEF Bookkeeping, TypeOK
      <4>2. InFlight(t, k)' = InFlight(t, k)
        BY <2>1, <2>2, <2>3, <3>2 DEF InFlight, PlacedLeg, Legs, l
      <4> QED
        BY <4>1, <4>2
    <3> QED
      BY <3>1, <3>2
  <2>6. StraysKept /\ HeldKept
    BY <2>1, <2>5 DEF StraysKept, HeldKept
  <2> QED
    BY <2>1, <2>4, <2>6, CarryHeld DEF NoneMissing, Bookkeeping
<1>7. ASSUME NEW landed \in BOOLEAN, PlaceFailed(landed)
      PROVE  HeldIsOwned' /\ NoneMissing'
  <2> DEFINE s == SymbolOf[row[Fast]]
             l == PlacedLeg
  <2>1. /\ pc[Fast] \in {"placeShort", "placeLong"}
        /\ \/ venue' = [venue EXCEPT ![s][l] = @ + 1] /\ stray' = [stray EXCEPT ![s][l] = TRUE]
           \/ UNCHANGED <<venue, stray>>
        /\ UNCHANGED <<status, flag, gone>>
    BY <1>7 DEF PlaceFailed, database
  <2>2. \/ UNCHANGED <<pc, row, mem, noex>>
        \/ pc[Fast] = "placeShort" /\ Release(Fast, "pick")
        \/ /\ pc[Fast] = "placeLong" /\ pc' = [pc EXCEPT ![Fast] = "cancel"]
           /\ UNCHANGED <<row, mem, noex>>
    BY <1>7 DEF PlaceFailed
  <2>3. l \in Legs /\ s \in Symbols
    BY <1>2, <2>1 DEF Placing, PlacedLeg, Legs
  <2> HIDE DEF s, l
  <2>4. /\ \A t \in Symbols, k \in Legs : InFlight(t, k)' = InFlight(t, k)
        /\ OwnersKept
        /\ NoneMissing'
    <3>1. CASE UNCHANGED <<pc, row, mem, noex>>
      <4>1. OwnersKept
        BY <2>1, <3>1, OwnersSame
      <4> QED
        BY <2>1, <3>1, <4>1 DEF InFlight, NoneMissing
    <3>2. CASE pc[Fast] = "placeShort" /\ Release(Fast, "pick")
      <4>1. /\ Released(Fast, "pick") /\ \A v \in Workers : noex'[v] = {}
            /\ \A t \in Symbols, k \in Legs : InFlight(t, k)' = 0
        BY <1>3, <3>2
      <4>2. OwnersKept
        BY <2>1, <4>1, OwnersSame DEF Released
      <4> QED
        BY <2>1, <3>2, <4>1, <4>2 DEF InFlight, NoneMissing
    <3>3. CASE /\ pc[Fast] = "placeLong" /\ pc' = [pc EXCEPT ![Fast] = "cancel"]
               /\ UNCHANGED <<row, mem, noex>>
      <4>1. OwnersKept
        BY <2>1, <3>3, OwnersSame
      <4>2. pc'[Fast] = "cancel"
        BY <1>1, <3>3 DEF Bookkeeping, TypeOK
      <4> QED
        BY <2>1, <3>3, <4>1, <4>2 DEF InFlight, NoneMissing
    <3> QED
      BY <2>2, <3>1, <3>2, <3>3
  <2>5. StraysKept /\ HeldKept
    <3>1. CASE venue' = [venue EXCEPT ![s][l] = @ + 1] /\ stray' = [stray EXCEPT ![s][l] = TRUE]
      <4>1. stray'[s][l]
        BY <2>3, <3>1 DEF Bookkeeping, TypeOK
      <4>2. \A t \in Symbols, k \in Legs : ~(t = s /\ k = l) =>
              venue'[t][k] = venue[t][k] /\ stray'[t][k] = stray[t][k]
        BY <2>3, <3>1 DEF Bookkeeping, TypeOK
      <4> QED
        BY <2>4, <4>1, <4>2 DEF StraysKept, HeldKept
    <3>2. CASE UNCHANGED <<venue, stray>>
      BY <2>4, <3>2 DEF StraysKept, HeldKept
    <3> QED
      BY <2>1, <3>1, <3>2
  <2> QED
    BY <2>4, <2>5, CarryHeld DEF Bookkeeping
<1>8. CASE Cancel
  <2> DEFINE s == SymbolOf[row[Fast]]
  <2>1. PICK o \in CloseOutcomes(venue[s]["short"]) : CloseCall(s, "short", o, o.k = 0)
    BY <1>8 DEF Cancel
  <2>2. /\ pc[Fast] = "cancel" /\ Release(Fast, "pick")
        /\ UNCHANGED <<status, flag, gone>>
    BY <1>8 DEF Cancel, database
  <2>3. /\ row[Fast] \in Rows /\ row[Fast] # NoRow /\ s \in Symbols /\ "short" \in Legs
    BY <1>2, <2>2, ConstantsAssumption DEF Placing, Legs
  <2>4. /\ o.k \in Nat /\ o.k <= venue[s]["short"]
        /\ venue' = [venue EXCEPT ![s]["short"] = @ - o.k]
        /\ stray' = [stray EXCEPT ![s]["short"] = (@ \/ o.k = 0) /\ venue[s]["short"] > o.k]
    BY <2>1 DEF CloseCall, CloseOutcomes
  <2>5. /\ Released(Fast, "pick") /\ \A v \in Workers : noex'[v] = {}
        /\ \A t \in Symbols, k \in Legs : InFlight(t, k)' = 0
    BY <1>3, <2>2
  <2>6. OwnersKept
    BY <2>2, <2>5, OwnersSame DEF Released
  <2>7. InFlight(s, "short") = 1
    BY <2>2, <2>3 DEF InFlight
  <2>8. \A t \in Symbols, k \in Legs : ~(t = s /\ k = "short") => InFlight(t, k) = 0
    BY <2>2, <2>3 DEF InFlight, Legs
  <2> HIDE DEF s
  <2>9. /\ venue'[s]["short"] = venue[s]["short"] - o.k
        /\ stray'[s]["short"] <=> ((stray[s]["short"] \/ o.k = 0) /\ venue[s]["short"] > o.k)
    BY <2>3, <2>4 DEF Bookkeeping, TypeOK
  <2>10. \A t \in Symbols, k \in Legs : ~(t = s /\ k = "short") =>
           venue'[t][k] = venue[t][k] /\ stray'[t][k] = stray[t][k]
    BY <2>3, <2>4 DEF Bookkeeping, TypeOK
  <2>11. /\ venue'[s]["short"] > 0 => venue[s]["short"] > 1 \/ stray'[s]["short"]
         /\ stray[s]["short"] => stray'[s]["short"] \/ venue'[s]["short"] = 0
    <3>1. venue[s]["short"] \in Nat
      BY <1>1, <2>3
    <3>2. CASE o.k = 0
      BY <2>9, <3>1, <3>2
    <3>3. CASE o.k # 0
      BY <2>4, <2>9, <3>1, <3>3
    <3> QED
      BY <3>2, <3>3
  <2>12. StraysKept /\ HeldKept
    BY <2>5, <2>7, <2>8, <2>10, <2>11 DEF StraysKept, HeldKept
  <2> QED
    BY <2>2, <2>5, <2>6, <2>12, CarryHeld DEF NoneMissing, Bookkeeping
<1>9. CASE Persist
  <2> PICK r : r = row[Fast]
    OBVIOUS
  <2>1. /\ pc[Fast] = "persist" /\ Release(Fast, "pick")
        /\ status' = [status EXCEPT ![r] = "open"]
        /\ flag' = [flag EXCEPT ![r] = Unflagged]
        /\ UNCHANGED <<gone, venue, stray>>
    BY <1>9 DEF Persist
  <2>2. /\ r \in Rows /\ r # NoRow /\ status[r] = "none"
        /\ \A v \in Workers \ {Fast} : row[v] # r
    BY <1>2, <2>1, ConstantsAssumption DEF Placing
  <2>3. /\ Released(Fast, "pick") /\ \A v \in Workers : noex'[v] = {}
        /\ \A t \in Symbols, k \in Legs : InFlight(t, k)' = 0
    BY <1>3, <2>1
  <2>4. \A t \in Symbols, k \in Legs : t # SymbolOf[r] => InFlight(t, k) = 0
    BY DEF InFlight
  <2>5. \A l \in Legs : Owns(r, l)'
    <3>1. \A v \in Workers : row'[v] # r
      BY <2>2, <2>3 DEF Released
    <3>2. \A l \in Legs : status'[r] # "none" /\ ~flag'[r][l]
      BY <2>1, <2>2 DEF Unflagged, Bookkeeping, TypeOK
    <3> QED
      BY <3>1, <3>2 DEF Owns
  <2>6. ASSUME NEW q \in Rows, NEW l \in Legs, Owns(q, l) PROVE Owns(q, l)'
    <3>1. q # r /\ q # NoRow
      BY <2>2, <2>6, ConstantsAssumption DEF Owns
    <3>2. status'[q] = status[q] /\ flag'[q] = flag[q]
      BY <2>1, <2>2, <3>1 DEF Bookkeeping, TypeOK
    <3>3. \A v \in Workers : row'[v] = q => ~mem'[v][l]
      BY <2>3, <2>6, <3>1 DEF Released, Owns
    <3> QED
      BY <2>6, <3>2, <3>3 DEF Owns
  <2>7. StraysKept /\ HeldKept /\ OwnersKept
    BY <2>1, <2>2, <2>3, <2>4, <2>5, <2>6 DEF StraysKept, HeldKept, OwnersKept
  <2> QED
    BY <2>1, <2>3, <2>7, CarryHeld DEF NoneMissing, Bookkeeping
<1> QED
  BY <1>4, <1>5, <1>6, <1>7, <1>8, <1>9 DEF EntryStep

LEMMA EnvironmentKeepsHeld ==
  ASSUME gone' = {}, Bookkeeping, Bookkeeping', HeldIsOwned, NoneMissing,
         StartFast \/ StartSched \/ Environment \/ UNCHANGED vars
  PROVE  HeldIsOwned' /\ NoneMissing'
<1>1. ASSUME UNCHANGED <<status, flag, venue, stray, row, mem, noex, gone>>,
             \/ pc'[Fast] = pc[Fast]
             \/ pc[Fast] \notin Placing /\ pc'[Fast] \notin Placing
      PROVE  HeldIsOwned' /\ NoneMissing'
  <2>1. OwnersKept
    BY <1>1, OwnersSame
  <2> QED
    BY <1>1, <2>1, QuietStep DEF NoneMissing, Bookkeeping
<1>2. ASSUME Abandon, UNCHANGED <<status, flag, gone, venue>>, row'[Fast] = NoRow,
             \A v \in Workers : noex'[v] = {}, OwnersKept
      PROVE  HeldIsOwned' /\ NoneMissing'
  <2>1. \A s \in Symbols, l \in Legs : InFlight(s, l)' = 0 /\ InFlight(s, l) \in {0, 1}
    BY <1>2 DEF InFlight
  <2>2. \A s \in Symbols, l \in Legs :
          stray'[s][l] = (stray[s][l] \/ (InFlight(s, l) = 1 /\ venue[s][l] > 0))
    BY <1>2 DEF Abandon
  <2>3. StraysKept /\ HeldKept
    BY <1>2, <2>1, <2>2 DEF StraysKept, HeldKept
  <2> QED
    BY <1>2, <2>3, CarryHeld DEF NoneMissing, Bookkeeping
<1>3. Fast \in Workers /\ Sched \in Workers /\ Fast # Sched
  BY DEF Workers, Fast, Sched
<1>4. CASE StartFast
  <2>1. pc[Fast] = "idle" /\ pc'[Fast] = "pick"
    BY <1>3, <1>4 DEF StartFast, Load, Bookkeeping, TypeOK
  <2> QED
    BY <1>1, <1>4, <2>1 DEF StartFast, Load, database, Placing
<1>5. CASE StartSched
  <2>1. pc'[Fast] = pc[Fast]
    BY <1>3, <1>5 DEF StartSched, Load, Bookkeeping, TypeOK
  <2> QED
    BY <1>1, <1>5, <2>1 DEF StartSched, Load, database
<1>6. ASSUME NEW w \in Workers, Abort(w)
      PROVE  HeldIsOwned' /\ NoneMissing'
  <2>1. Released(w, "idle")
    BY <1>6, ReleaseType DEF Abort, Bookkeeping
  <2>2. /\ UNCHANGED <<status, flag, gone, venue>>
        /\ \A v \in Workers : noex'[v] = {}
    BY <1>6 DEF Abort, database, Release, NoneMissing, Bookkeeping, TypeOK
  <2>3. OwnersKept
    BY <2>1, <2>2, OwnersSame DEF Released
  <2>4. CASE w = Fast
    BY <1>2, <1>6, <2>1, <2>2, <2>3, <2>4 DEF Abort, Released
  <2>5. CASE w # Fast
    <3>1. pc'[Fast] = pc[Fast] /\ row'[Fast] = row[Fast] /\ UNCHANGED stray
      BY <1>3, <1>6, <2>1, <2>5 DEF Abort, Released
    <3> QED
      BY <2>2, <2>3, <3>1, QuietStep DEF NoneMissing, Bookkeeping
  <2> QED
    BY <2>4, <2>5
<1>7. CASE Crash
  <2>1. /\ Abandon /\ UNCHANGED <<status, flag, gone, venue>>
        /\ \A v \in Workers : row'[v] = NoRow /\ noex'[v] = {}
    BY <1>7 DEF Crash, database
  <2>2. OwnersKept
    BY <2>1, OwnersSame
  <2> QED
    BY <1>2, <1>3, <2>1, <2>2
<1>8. CASE \/ \E r \in Rows : CooldownOver(r) \/ StopWindowOver(r)
           \/ OpenFunding \/ CloseFunding
           \/ UNCHANGED vars
  BY <1>1, <1>8
  DEF CooldownOver, StopWindowOver, OpenFunding, CloseFunding, vars, database, locals
<1> QED
  BY <1>4, <1>5, <1>6, <1>7, <1>8 DEF Environment, DeleteExchange

\* A deleted exchange does not come back.
LEMMA GoneStaysGone == [Next]_vars => gone \subseteq gone'
<1> SUFFICES ASSUME [Next]_vars PROVE gone \subseteq gone'
  OBVIOUS
<1>1. CASE EntryStep
  BY <1>1
  DEF EntryStep, EntrySkip, EntryBegin, PlaceFilled, PlaceFailed, Cancel, Persist, database
<1>2. ASSUME NEW w \in Workers, Step(w) PROVE gone \subseteq gone'
  <2>1. CASE LegStep(w)
    BY <2>1 DEF LegStep, SendClose, VerifiedFlat, VerifiedOpen, database
  <2>2. CASE ExitStep(w)
    BY <2>2 DEF ExitStep, ExitSkip, ExitClose, BeginClose, FinishClose, database
  <2>3. CASE RecoverStep(w)
    BY <2>3 DEF RecoverStep, RecoverStatus, RecoverLater, RecoverCheck, RecoverBegin,
                FinishRecover, database
  <2>4. CASE NextPass(w) \/ ManualClose(w)
    BY <2>4 DEF NextPass, ManualClose, BeginClose, database
  <2> QED
    BY <1>2, <2>1, <2>2, <2>3, <2>4 DEF Step
<1>3. ASSUME NEW w \in Workers, NEW r \in Rows, ManualCheck(w, r)
      PROVE  gone \subseteq gone'
  BY <1>3 DEF ManualCheck, database
<1>4. CASE StartFast \/ StartSched
  BY <1>4 DEF StartFast, StartSched, database
<1>5. CASE Environment
  BY <1>5 DEF Environment, Abort, Crash, CooldownOver, StopWindowOver, OpenFunding,
              CloseFunding, DeleteExchange, database
<1>6. CASE UNCHANGED vars
  BY <1>6 DEF vars, database
<1> QED
  BY <1>1, <1>2, <1>3, <1>4, <1>5, <1>6 DEF Next, FastStep, SchedStep, Workers

(* Until the user deletes an exchange in use, every unit an exchange holds has *)
(* a row that still promises to close it, or was never given a row; no        *)
(* interleaving of closers, recoveries and crashes makes a row forget one.    *)
THEOREM NothingForgotten == Spec => []OwnedUntilDeleted
<1> DEFINE Kept == gone = {} => HeldIsOwned /\ NoneMissing
<1>1. Init => Kept
  BY DEF Init, HeldIsOwned, NoneMissing, InFlight, Workers
<1>2. Bookkeeping /\ Kept /\ [Next]_vars => (Bookkeeping /\ Kept)'
  <2> SUFFICES ASSUME Bookkeeping, Kept, [Next]_vars, gone' = {}
               PROVE  HeldIsOwned' /\ NoneMissing'
    BY StepsKeepBooks
  <2> HeldIsOwned /\ NoneMissing
    BY GoneStaysGone
  <2>1. Bookkeeping' /\ Fast \in Workers /\ Sched \in Workers
    BY StepsKeepBooks DEF Workers
  <2>2. CASE EntryStep
    BY <2>1, <2>2, EntryKeepsHeld
  <2>3. ASSUME NEW w \in Workers, Step(w) \/ \E r \in Rows : ManualCheck(w, r)
        PROVE  HeldIsOwned' /\ NoneMissing'
    BY <2>1, <2>3, WorkersKeepHeld
  <2>4. CASE StartFast \/ StartSched \/ Environment \/ UNCHANGED vars
    BY <2>1, <2>4, EnvironmentKeepsHeld
  <2> QED
    BY <2>1, <2>2, <2>3, <2>4 DEF Next, FastStep, SchedStep, Workers
<1>3. Kept => OwnedUntilDeleted
  BY DEF OwnedUntilDeleted
<1> QED
  BY <1>1, <1>2, <1>3, InitBookkeeping, PTL DEF Spec

-----------------------------------------------------------------------------
(* The engine implements SpreadLife.  What a worker knows of a leg it took from *)
(* the row's flags, or from a look at a leg that was flat or whose exchange was  *)
(* deleted; the missing exchanges it remembers really are deleted.               *)

NoexIsGone ==
  \A w \in Workers : \A l \in noex[w] : row[w] \in Rows /\ <<SymbolOf[row[w]], l>> \in gone

NothingInHand == \A w \in Workers : row[w] = NoRow => mem[w] = Unflagged

MemoryIsTrue == NoexIsGone /\ NothingInHand

FlatNow(r) == Life!Flat(r)
LearnsNothing == \A q \in Rows : Known(q)' \subseteq Known(q)
Learns(r, S) ==
  \A q \in Rows : Known(q)' \subseteq Known(q) \cup (IF q = r THEN S ELSE {})
Lives ==
  [Life!LifeNext]_<<status, [r \in Rows |-> Confirmed(r)], [r \in Rows |-> Known(r)], venue, gone>>

LEMMA KnownLegs == [r \in Rows |-> Known(r)]' \in [Rows -> SUBSET Legs]
BY DEF Known

LEMMA LearnsNothingShown == ASSUME LearnsNothing PROVE Life!LearnNothing
BY KnownLegs DEF LearnsNothing, Life!LearnNothing

LEMMA LearnsShown ==
  ASSUME NEW r \in Rows, NEW S, Learns(r, S) PROVE Life!Learn(r, S)
BY KnownLegs DEF Learns, Life!Learn

LEMMA ConfirmedSame ==
  ASSUME UNCHANGED flag
  PROVE  [r \in Rows |-> Confirmed(r)]' = [r \in Rows |-> Confirmed(r)]
BY DEF Confirmed

(* Each step of SpreadLife in the engine's variables. *)
LEMMA ShowForget ==
  ASSUME LearnsNothing, UNCHANGED <<status, flag, venue, gone>> PROVE Lives
<1>1. Life!Forget
  BY LearnsNothingShown, ConfirmedSame DEF Life!Forget
<1> QED BY <1>1 DEF Lives, Life!LifeNext

LEMMA ShowDelete ==
  ASSUME LearnsNothing, NEW s \in Symbols, NEW l \in Legs, gone' = gone \cup {<<s, l>>},
         UNCHANGED <<status, flag, venue>>
  PROVE  Lives
<1>1. Life!Delete(s, l)
  BY LearnsNothingShown, ConfirmedSame DEF Life!Delete
<1> QED BY <1>1 DEF Lives, Life!LifeNext

LEMMA ShowFill ==
  ASSUME LearnsNothing, NEW s \in Symbols, NEW l \in Legs, ~HasOpenRow(s),
         venue' = [venue EXCEPT ![s][l] = @ + 1], UNCHANGED <<status, flag, gone>>
  PROVE  Lives
<1>1. Life!NotOpen(s)
  BY DEF Life!NotOpen, HasOpenRow, OpenRows
<1>2. Life!Fill(s, l)
  BY <1>1, LearnsNothingShown, ConfirmedSame DEF Life!Fill
<1> QED BY <1>2 DEF Lives, Life!LifeNext

LEMMA ShowGiveBack ==
  ASSUME LearnsNothing, NEW s \in Symbols, ~HasOpenRow(s), NEW k \in 0 .. venue[s]["short"],
         venue' = [venue EXCEPT ![s]["short"] = @ - k], UNCHANGED <<status, flag, gone>>
  PROVE  Lives
<1>1. Life!NotOpen(s)
  BY DEF Life!NotOpen, HasOpenRow, OpenRows
<1>2. Life!GiveBack(s, k)
  BY <1>1, LearnsNothingShown, ConfirmedSame DEF Life!GiveBack
<1> QED BY <1>2 DEF Lives, Life!LifeNext

LEMMA ShowOpen ==
  ASSUME LearnsNothing, NEW r \in Rows, status[r] = "none", flag[r] = Unflagged,
         ~HasOpenRow(SymbolOf[r]), status' = [status EXCEPT ![r] = "open"],
         UNCHANGED <<flag, venue, gone>>
  PROVE  Lives
<1>1. Life!NotOpen(SymbolOf[r])
  BY DEF Life!NotOpen, HasOpenRow, OpenRows
<1>2. [q \in Rows |-> Confirmed(q)][r] = {}
  BY DEF Confirmed, Unflagged
<1>3. Life!Open(r)
  BY <1>1, <1>2, LearnsNothingShown, ConfirmedSame DEF Life!Open
<1> QED BY <1>3 DEF Lives, Life!LifeNext

LEMMA ShowMark ==
  ASSUME NEW r \in Rows, Learns(r, FlatNow(r)), status[r] # "none",
         status' = [status EXCEPT ![r] = "closing"], UNCHANGED <<flag, venue, gone>>
  PROVE  Lives
<1>1. Life!Mark(r)
  BY LearnsShown, ConfirmedSame DEF Life!Mark, FlatNow
<1> QED BY <1>1 DEF Lives, Life!LifeNext

LEMMA ShowSell ==
  ASSUME NEW r \in Rows, Learns(r, FlatNow(r)), status[r] \in {"closing", "error", "closed"},
         NEW l \in Legs, NEW k \in 0 .. venue[SymbolOf[r]][l],
         venue' = [venue EXCEPT ![SymbolOf[r]][l] = @ - k], UNCHANGED <<status, flag, gone>>
  PROVE  Lives
<1>1. Life!Sell(r, l, k)
  BY LearnsShown, ConfirmedSame DEF Life!Sell, Life!Marked, FlatNow
<1> QED BY <1>1 DEF Lives, Life!LifeNext

(* A commit adds what a worker had in memory to the flags of its row. *)
LEMMA ConfirmedByCommit ==
  ASSUME TypeOK, NEW r \in Rows, NEW m, flag' = [flag EXCEPT ![r] = Flagged(@, m)]
  PROVE  [q \in Rows |-> Confirmed(q)]' =
           [[q \in Rows |-> Confirmed(q)] EXCEPT ![r] = @ \cup {l \in Legs : m[l]}]
BY DEF TypeOK, Flagged, Confirmed

LEMMA ShowConfirm ==
  ASSUME TypeOK, NEW r \in Rows, Learns(r, FlatNow(r)),
         status[r] \in {"closing", "error", "closed"}, NEW m,
         {l \in Legs : m[l]} \subseteq Known(r) \cup FlatNow(r),
         flag' = [flag EXCEPT ![r] = Flagged(@, m)], UNCHANGED <<status, venue, gone>>
  PROVE  Lives
<1>1. Life!Confirm(r, {l \in Legs : m[l]})
  BY LearnsShown, ConfirmedByCommit DEF Life!Confirm, Life!Marked, FlatNow
<1>2. {l \in Legs : m[l]} \in SUBSET Legs
  OBVIOUS
<1> QED BY <1>1, <1>2 DEF Lives, Life!LifeNext

LEMMA ShowEnd ==
  ASSUME TypeOK, NEW r \in Rows, LearnsNothing, status[r] \in {"closing", "error", "closed"},
         NEW m, {l \in Legs : m[l]} \subseteq Known(r),
         NEW s, s \in {status[r], "error"} \/ (s = "closed" /\ \A l \in Legs : m[l]),
         status' = [status EXCEPT ![r] = s],
         flag' = [flag EXCEPT ![r] = Flagged(@, m)], UNCHANGED <<venue, gone>>
  PROVE  Lives
<1> DEFINE C == {l \in Legs : m[l]}
<1>1. s = "closed" /\ (\A l \in Legs : m[l]) => Confirmed(r) \cup C = Legs
  BY DEF Confirmed
<1>2. Life!End(r, C, s)
  BY <1>1, LearnsNothingShown, ConfirmedByCommit DEF Life!End, Life!Marked
<1>3. C \in SUBSET Legs /\ s \in {"closing", "error", "closed"}
  OBVIOUS
<1> QED BY <1>2, <1>3 DEF Lives, Life!LifeNext

-----------------------------------------------------------------------------
(* What a step of one worker may teach.                                     *)

Others(w) == \A v \in Workers \ {w} : row'[v] = row[v] /\ mem'[v] = mem[v]

LEMMA NothingLearned ==
  ASSUME NEW w \in Workers, Others(w), UNCHANGED flag,
         \A q \in Rows, l \in Legs : row'[w] = q /\ mem'[w][l] => l \in Known(q)
  PROVE  LearnsNothing
BY DEF Others, Known, LearnsNothing

LEMMA LegsLearned ==
  ASSUME NEW w \in Workers, Others(w), NEW r \in Rows, NEW S,
         \A q \in Rows \ {r} : flag'[q] = flag[q],
         \A l \in Legs : flag'[r][l] => l \in Known(r) \cup S,
         row'[w] = r, \A l \in Legs : mem'[w][l] => l \in Known(r) \cup S
  PROVE  Learns(r, S)
BY DEF Others, Known, Learns

LEMMA NothingTouched == ASSUME UNCHANGED <<flag, row, mem>> PROVE LearnsNothing
BY DEF Known, LearnsNothing

LEMMA InHandIsKnown ==
  ASSUME NEW w \in Workers, row[w] \in Rows
  PROVE  \A l \in Legs : mem[w][l] \/ flag[row[w]][l] => l \in Known(row[w])
BY DEF Known

LEMMA ReleaseTeachesNothing ==
  ASSUME TypeOK, NEW w \in Workers, NEW p \in {"idle", "pick"}, Release(w, p), UNCHANGED flag
  PROVE  LearnsNothing
<1>1. Released(w, p)
  BY ReleaseType
<1>2. Others(w) /\ row'[w] = NoRow
  BY <1>1 DEF Released, Others
<1> QED BY <1>2, NothingLearned, ConstantsAssumption

(* The leg machine adds legs of missing exchanges to the flags it was given. *)
Gains(w, m, missing) == \A l \in Legs : mem'[w][l] => m[l] \/ l \in missing

LEMMA PassedGains ==
  ASSUME NEW m \in [Legs -> BOOLEAN], NEW missing, NEW x \in Legs, NEW closing
  PROVE  \A l \in Legs : Passed(m, missing, x, closing)[l] => m[l] \/ l \in missing
BY DEF Passed

LEMMA EnterLongGains ==
  ASSUME TypeOK, NEW w \in Workers, NEW m \in [Legs -> BOOLEAN], NEW missing,
         NEW closing, EnterLong(w, m, missing, closing)
  PROVE  Gains(w, m, missing)
<1>1. mem'[w] = m \/ mem'[w] = Passed(m, missing, "long", closing)
  BY DEF EnterLong, TypeOK
<1> QED BY <1>1, PassedGains DEF Gains, Legs

LEMMA EnterShortGains ==
  ASSUME TypeOK, NEW w \in Workers, NEW m \in [Legs -> BOOLEAN], NEW missing,
         NEW closing \in BOOLEAN, EnterShort(w, m, missing, closing)
  PROVE  Gains(w, m, missing)
<1>1. CASE mem' = [mem EXCEPT ![w] = m]
  BY <1>1 DEF TypeOK, Gains
<1>2. CASE EnterLong(w, Passed(m, missing, "short", closing), missing, closing)
  <2> DEFINE p == Passed(m, missing, "short", closing)
  <2>1. p \in [Legs -> BOOLEAN]
    BY PassedType DEF Legs
  <2>2. Gains(w, p, missing)
    BY <1>2, <2>1, EnterLongGains
  <2>3. \A l \in Legs : p[l] => m[l] \/ l \in missing
    BY PassedGains DEF Legs
  <2> QED BY <2>2, <2>3 DEF Gains
<1> QED BY <1>1, <1>2 DEF EnterShort

LEMMA AdvanceGains ==
  ASSUME TypeOK, NEW w \in Workers, NEW m \in [Legs -> BOOLEAN], Advance(w, m)
  PROVE  Gains(w, m, noex[w])
<1>1. CASE EnterLong(w, m, noex[w], Closing(w))
  BY <1>1, EnterLongGains
<1>2. CASE mem' = [mem EXCEPT ![w] = m]
  BY <1>2 DEF TypeOK, Gains
<1> QED BY <1>1, <1>2 DEF Advance

LEMMA RetryGains ==
  ASSUME TypeOK, NEW w \in Workers, Retry(w)
  PROVE  Gains(w, mem[w], noex[w])
<1>1. CASE UNCHANGED mem
  BY <1>1 DEF Gains
<1>2. CASE Advance(w, mem[w])
  BY <1>2, AdvanceGains DEF TypeOK
<1> QED BY <1>1, <1>2 DEF Retry

(* What the missing exchanges teach is true, and remains so. *)
LEMMA GoneIsClosed ==
  ASSUME NoexIsGone, NEW w \in Workers, NEW l \in noex[w], l \in Legs
  PROVE  l \in FlatNow(row[w])
BY DEF NoexIsGone, FlatNow, Life!Flat

LEMMA MissingIsClosed == ASSUME NEW r PROVE Missing(r) \subseteq FlatNow(r)
BY DEF Missing, FlatNow, Life!Flat

LEMMA StepsKeepMemory ==
  ASSUME Bookkeeping, MemoryIsTrue, [Next]_vars
  PROVE  MemoryIsTrue'
<1>1. gone \subseteq gone'
  BY GoneStaysGone
<1>2. ASSUME NEW w \in Workers, Others(w), \A v \in Workers \ {w} : noex'[v] = noex[v],
             row'[w] = NoRow => mem'[w] = Unflagged,
             \A l \in noex'[w] : row'[w] \in Rows /\ <<SymbolOf[row'[w]], l>> \in gone'
      PROVE  MemoryIsTrue'
  BY <1>1, <1>2 DEF MemoryIsTrue, NoexIsGone, NothingInHand, Others
<1>3. ASSUME UNCHANGED <<noex, row, mem>> PROVE MemoryIsTrue'
  BY <1>1, <1>3 DEF MemoryIsTrue, NoexIsGone, NothingInHand
<1>4. ASSUME NEW w \in Workers, NEW p, Release(w, p) PROVE MemoryIsTrue'
  BY <1>2, <1>4 DEF Release, Others, Bookkeeping, TypeOK
<1>5. ASSUME NEW w \in Workers, NEW r \in Rows, row[w] = NoRow,
             row' = [row EXCEPT ![w] = r], UNCHANGED noex,
             \A v \in Workers \ {w} : mem'[v] = mem[v]
      PROVE  MemoryIsTrue'
  <2>1. \A l \in noex'[w] : FALSE
    BY <1>5, ConstantsAssumption DEF MemoryIsTrue, NoexIsGone
  <2>2. row'[w] = r /\ Others(w) /\ r # NoRow /\ \A v \in Workers \ {w} : noex'[v] = noex[v]
    BY <1>5, ConstantsAssumption DEF Others, Bookkeeping, TypeOK
  <2> QED BY <1>2, <2>1, <2>2
<1>6. ASSUME NEW w \in Workers, NEW r \in Rows, noex' = [noex EXCEPT ![w] = Missing(r)],
             row'[w] = r, Others(w)
      PROVE  MemoryIsTrue'
  BY <1>1, <1>2, <1>6, ConstantsAssumption DEF Missing, Bookkeeping, TypeOK
<1>7. ASSUME NEW w \in Workers, row[w] \in Rows, UNCHANGED <<noex, row>>, Others(w)
      PROVE  MemoryIsTrue'
  BY <1>1, <1>2, <1>7, ConstantsAssumption DEF MemoryIsTrue, NoexIsGone
<1>8. \A w \in Workers : pc[w] \in {"idle", "pick"} => row[w] = NoRow
  BY DEF Bookkeeping, RowInHand
<1>9. CASE EntryStep
  <2>1. ASSUME NEW r \in Rows, EntryBegin(r) PROVE MemoryIsTrue'
    BY <1>5, <1>8, <2>1 DEF EntryBegin, Workers
  <2>2. ASSUME NEW landed \in BOOLEAN, PlaceFailed(landed) PROVE MemoryIsTrue'
    BY <1>3, <1>4, <2>2 DEF PlaceFailed, Workers
  <2> QED
    BY <1>3, <1>4, <1>9, <2>1, <2>2
    DEF EntryStep, EntrySkip, PlaceFilled, Cancel, Persist, Workers
<1>10. ASSUME NEW w \in Workers, LegStep(w) PROVE MemoryIsTrue'
  <2>1. /\ pc[w] \in Working /\ UNCHANGED <<noex, row>>
        /\ UNCHANGED mem \/ Retry(w) \/ VerifiedFlat(w)
    BY <1>10 DEF LegStep, SendClose, VerifiedFlat, VerifiedOpen, Working
  <2>2. row[w] \in Rows /\ mem[w] \in [Legs -> BOOLEAN] /\ leg[w] \in Legs
    BY <2>1, WorkingRow
  <2>3. CASE Retry(w)
    <3>1. Others(w)
      BY <2>1, <2>3, RetryMoves DEF MovesOn, Bookkeeping, Others
    <3> QED BY <1>7, <2>1, <2>2, <3>1
  <2>4. CASE VerifiedFlat(w)
    <3> DEFINE m == [mem[w] EXCEPT ![leg[w]] = TRUE]
               f == Flagged(flag[row[w]], m)
    <3>1. m \in [Legs -> BOOLEAN] /\ f \in [Legs -> BOOLEAN]
      BY <2>2 DEF Flagged, Bookkeeping, TypeOK
    <3>2. Advance(w, f) \/ Advance(w, m)
      BY <2>4 DEF VerifiedFlat
    <3>3. \A v \in Workers \ {w} : mem'[v] = mem[v]
      BY <3>1, <3>2, AdvanceMoves DEF MovesOn, Bookkeeping
    <3> QED BY <1>7, <2>1, <2>2, <3>3 DEF Others
  <2>5. CASE UNCHANGED mem
    BY <1>3, <2>1, <2>5
  <2> QED
    BY <2>1, <2>3, <2>4, <2>5
<1>11. ASSUME NEW w \in Workers, NEW r \in Rows, BeginClose(w, r),
              row'[w] = r, \A v \in Workers \ {w} : row'[v] = row[v]
       PROVE  MemoryIsTrue'
  <2>1. flag[r] \in [Legs -> BOOLEAN]
    BY DEF Bookkeeping, TypeOK
  <2>2. MovesOn(w, flag[r], Missing(r)) /\ noex' = [noex EXCEPT ![w] = Missing(r)]
    BY <1>11, <2>1, EnterShortMoves DEF BeginClose, Bookkeeping
  <2> QED BY <1>6, <1>11, <2>2 DEF MovesOn, Others
<1>12. ASSUME NEW w \in Workers, Step(w) PROVE MemoryIsTrue'
  <2>1. CASE NextPass(w)
    BY <1>3, <1>4, <2>1 DEF NextPass, Load
  <2>2. ASSUME NEW r \in Rows, NEW reason \in Reasons, ExitClose(w, r, reason)
        PROVE  MemoryIsTrue'
    BY <1>11, <2>2 DEF ExitClose, Bookkeeping, TypeOK
  <2>3. CASE ManualClose(w)
    <3>1. row[w] \in Rows
      BY <2>3, WorkingRow DEF ManualClose, Working
    <3> QED BY <1>11, <2>3, <3>1 DEF ManualClose
  <2>4. CASE ExitSkip(w) \/ FinishClose(w)
    BY <1>3, <1>4, <2>4 DEF ExitSkip, FinishClose
  <2>5. ASSUME NEW r \in Rows, RecoverStatus(w, r) \/ RecoverLater(w, r) PROVE MemoryIsTrue'
    BY <1>3, <2>5 DEF RecoverStatus, RecoverLater
  <2>6. ASSUME NEW r \in Rows, RecoverCheck(w, r) PROVE MemoryIsTrue'
    <3>1. \A v \in Workers \ {w} : mem'[v] = mem[v]
      BY <2>6 DEF RecoverCheck, Bookkeeping, TypeOK
    <3> QED BY <1>5, <1>8, <2>6, <3>1 DEF RecoverCheck
  <2>7. CASE RecoverBegin(w)
    <3>1. row[w] \in Rows /\ mem[w] \in [Legs -> BOOLEAN]
      BY <2>7, WorkingRow DEF RecoverBegin, Working
    <3>2. MovesOn(w, mem[w], Missing(row[w])) /\ UNCHANGED row
      BY <2>7, <3>1, EnterShortMoves DEF RecoverBegin, Bookkeeping
    <3> QED BY <1>6, <2>7, <3>1, <3>2 DEF RecoverBegin, MovesOn, Others
  <2>8. CASE FinishRecover(w)
    BY <1>4, <2>8 DEF FinishRecover
  <2> QED
    BY <1>10, <1>12, <2>1, <2>2, <2>3, <2>4, <2>5, <2>6, <2>7, <2>8
    DEF Step, ExitStep, RecoverStep
<1>13. ASSUME NEW w \in Workers, NEW r \in Rows, ManualCheck(w, r) PROVE MemoryIsTrue'
  <2>1. \A v \in Workers \ {w} : mem'[v] = mem[v]
    BY <1>13 DEF ManualCheck, Bookkeeping, TypeOK
  <2> QED BY <1>5, <1>8, <1>13, <2>1 DEF ManualCheck
<1>14. CASE Environment
  <2>1. CASE Crash
    BY <2>1 DEF Crash, MemoryIsTrue, NoexIsGone, NothingInHand
  <2> QED
    BY <1>3, <1>4, <1>14, <2>1
    DEF Environment, Abort, CooldownOver, StopWindowOver, OpenFunding, CloseFunding,
        DeleteExchange, locals
<1> QED
  BY <1>3, <1>9, <1>12, <1>13, <1>14
  DEF Next, FastStep, SchedStep, StartFast, StartSched, Load, Workers, vars, locals

-----------------------------------------------------------------------------
(* Every step of the engine is one of SpreadLife, or shows nothing.          *)

LEMMA MarkedRow ==
  ASSUME Bookkeeping, ClosesAreMarked, NEW w \in Workers, pc[w] \in Marked
  PROVE  /\ row[w] \in Rows /\ SymbolOf[row[w]] \in Symbols
         /\ status[row[w]] \in {"closing", "error", "closed"}
         /\ leg[w] \in Legs /\ mem[w] \in [Legs -> BOOLEAN]
         /\ flag[row[w]] \in [Legs -> BOOLEAN]
<1>1. pc[w] \in Working
  BY DEF Marked, Working
<1> QED
  BY <1>1, WorkingRow DEF ClosesAreMarked, MarkedBy, Bookkeeping, TypeOK

LEMMA EntryLives ==
  ASSUME Bookkeeping, Confirmation, SerialEntry, MemoryIsTrue, EntryStep
  PROVE  Lives
<1> Fast \in Workers
  BY DEF Workers
<1>1. pc[Fast] \in Placing =>
        /\ row[Fast] \in Rows /\ SymbolOf[row[Fast]] \in Symbols
        /\ ~HasOpenRow(SymbolOf[row[Fast]])
  BY PlacingRow DEF SerialEntry, EntryChecked
<1>2. PlacedLeg \in Legs
  BY DEF PlacedLeg, Legs
<1>3. CASE EntrySkip
  BY <1>3, NothingTouched, ShowForget DEF EntrySkip, database
<1>4. ASSUME NEW r \in Rows, EntryBegin(r) PROVE Lives
  <2>1. row[Fast] = NoRow
    BY <1>4 DEF EntryBegin, Bookkeeping, RowInHand
  <2>2. Others(Fast) /\ row'[Fast] = r /\ mem'[Fast] = mem[Fast]
    BY <1>4 DEF EntryBegin, Others, Bookkeeping, TypeOK
  <2>3. LearnsNothing
    BY <1>4, <2>1, <2>2, NothingLearned
    DEF EntryBegin, MemoryIsTrue, NothingInHand, Unflagged, database
  <2> QED
    BY <1>4, <2>3, ShowForget DEF EntryBegin, database
<1>5. CASE PlaceFilled
  BY <1>1, <1>2, <1>5, NothingTouched, ShowFill DEF PlaceFilled, Placing, database
<1>6. ASSUME NEW landed \in BOOLEAN, PlaceFailed(landed) PROVE Lives
  <2>1. UNCHANGED <<row, mem>> \/ Release(Fast, "pick")
    BY <1>6 DEF PlaceFailed
  <2>2. UNCHANGED <<status, flag, gone>>
    BY <1>6 DEF PlaceFailed, database
  <2>3. LearnsNothing
    BY <2>1, <2>2, NothingTouched, ReleaseTeachesNothing DEF Bookkeeping
  <2>4. \/ UNCHANGED venue
        \/ venue' = [venue EXCEPT ![SymbolOf[row[Fast]]][PlacedLeg] = @ + 1]
    BY <1>6 DEF PlaceFailed
  <2>5. pc[Fast] \in Placing
    BY <1>6 DEF PlaceFailed, Placing
  <2> QED
    BY <1>1, <1>2, <2>2, <2>3, <2>4, <2>5, ShowFill, ShowForget
<1>7. CASE Cancel
  <2>1. PICK o \in CloseOutcomes(venue[SymbolOf[row[Fast]]]["short"]) :
          CloseCall(SymbolOf[row[Fast]], "short", o, o.k = 0)
    BY <1>7 DEF Cancel
  <2>2. o.k \in 0 .. venue[SymbolOf[row[Fast]]]["short"]
    BY DEF CloseOutcomes
  <2>3. LearnsNothing /\ pc[Fast] \in Placing /\ UNCHANGED <<status, flag, gone>>
    BY <1>7, ReleaseTeachesNothing DEF Cancel, Bookkeeping, Placing, database
  <2> QED
    BY <1>1, <2>1, <2>2, <2>3, ShowGiveBack DEF CloseCall
<1>8. CASE Persist
  <2>1. /\ row[Fast] \in Rows /\ status[row[Fast]] = "none" /\ flag[row[Fast]] = Unflagged
        /\ ~HasOpenRow(SymbolOf[row[Fast]])
    BY <1>1, <1>8 DEF Persist, Placing, Bookkeeping, RowInHand, Confirmation
  <2>2. UNCHANGED flag
    BY <1>8, <2>1 DEF Persist, Bookkeeping, TypeOK
  <2>3. LearnsNothing
    BY <1>8, <2>2, ReleaseTeachesNothing DEF Persist, Bookkeeping
  <2> QED
    BY <1>8, <2>1, <2>2, <2>3, ShowOpen DEF Persist
<1> QED
  BY <1>3, <1>4, <1>5, <1>6, <1>7, <1>8 DEF EntryStep

(* A look at the legs of a marked row. *)
LEMMA ShowLook ==
  ASSUME Bookkeeping, NEW r \in Rows, Learns(r, FlatNow(r)),
         status[r] \in {"closing", "error", "closed"}, UNCHANGED <<status, flag, venue, gone>>
  PROVE  Lives
<1>1. SymbolOf[r] \in Symbols /\ "short" \in Legs
  BY ConstantsAssumption DEF Legs
<1>2. venue[SymbolOf[r]]["short"] \in Nat /\ 0 \in 0 .. venue[SymbolOf[r]]["short"]
  BY <1>1 DEF Bookkeeping, TypeOK
<1>3. venue[SymbolOf[r]]["short"] - 0 = venue[SymbolOf[r]]["short"]
  BY <1>2
<1>4. venue' = [venue EXCEPT ![SymbolOf[r]]["short"] = @ - 0]
  BY <1>1, <1>3, Zenon DEF Bookkeeping, TypeOK
<1> QED BY <1>1, <1>2, <1>4, ShowSell

LEMMA RetryTeaches ==
  ASSUME Bookkeeping, ClosesAreMarked, NoexIsGone, NEW w \in Workers, pc[w] \in Marked,
         Retry(w), UNCHANGED <<row, flag>>
  PROVE  Learns(row[w], FlatNow(row[w]))
<1>1. row[w] \in Rows /\ mem[w] \in [Legs -> BOOLEAN]
  BY MarkedRow
<1>2. Others(w) /\ Gains(w, mem[w], noex[w])
  BY RetryMoves, RetryGains DEF Others, MovesOn, Bookkeeping
<1>3. \A l \in Legs : mem'[w][l] => l \in Known(row[w]) \cup FlatNow(row[w])
  BY <1>1, <1>2, InHandIsKnown, GoneIsClosed DEF Gains
<1>4. \A l \in Legs : flag'[row[w]][l] => l \in Known(row[w]) \cup FlatNow(row[w])
  BY <1>1, InHandIsKnown
<1> QED BY <1>1, <1>2, <1>3, <1>4, LegsLearned

LEMMA LegLives ==
  ASSUME Bookkeeping, ClosesAreMarked, NoexIsGone, NEW w \in Workers, LegStep(w)
  PROVE  Lives
<1> DEFINE r == row[w]
<1>1. pc[w] \in Marked /\ UNCHANGED row
  BY DEF LegStep, SendClose, VerifiedFlat, VerifiedOpen, Marked
<1>2. /\ r \in Rows /\ SymbolOf[r] \in Symbols /\ leg[w] \in Legs
      /\ status[r] \in {"closing", "error", "closed"}
      /\ mem[w] \in [Legs -> BOOLEAN] /\ flag[r] \in [Legs -> BOOLEAN]
  BY <1>1, MarkedRow
<1>3. CASE SendClose(w)
  <2>1. PICK o \in CloseOutcomes(venue[SymbolOf[r]][leg[w]]) :
          /\ CloseCall(SymbolOf[r], leg[w], o, FALSE)
          /\ UNCHANGED mem \/ Retry(w)
    BY <1>3 DEF SendClose
  <2>2. o.k \in 0 .. venue[SymbolOf[r]][leg[w]]
    BY DEF CloseOutcomes
  <2>3. UNCHANGED <<status, flag, gone>>
    BY <1>3 DEF SendClose, database
  <2>4. Learns(r, FlatNow(r))
    BY <1>1, <2>1, <2>3, NothingTouched, RetryTeaches DEF LearnsNothing, Learns
  <2> QED
    BY <1>2, <2>1, <2>2, <2>3, <2>4, ShowSell DEF CloseCall
<1>4. CASE VerifiedOpen(w)
  BY <1>1, <1>2, <1>4, RetryTeaches, ShowLook DEF VerifiedOpen, database
<1>5. CASE VerifiedFlat(w)
  <2> DEFINE m == [mem[w] EXCEPT ![leg[w]] = TRUE]
             f == Flagged(flag[r], m)
  <2>1. m \in [Legs -> BOOLEAN] /\ f \in [Legs -> BOOLEAN]
    BY <1>2 DEF Flagged
  <2>2. /\ UNCHANGED <<status, venue, gone, row>>
        /\ \/ flag' = [flag EXCEPT ![r] = f] /\ Advance(w, f)
           \/ UNCHANGED flag /\ Advance(w, m)
    BY <1>5 DEF VerifiedFlat
  <2>3. leg[w] \in FlatNow(r)
    BY <1>2, <1>5 DEF VerifiedFlat, FlatNow, Life!Flat
  <2>4. /\ \A l \in Legs : m[l] => l \in Known(r) \cup FlatNow(r)
        /\ \A l \in Legs : f[l] => l \in Known(r) \cup FlatNow(r)
    BY <1>2, <2>3, InHandIsKnown DEF Flagged
  <2>5. \A l \in noex[w] : l \in Legs => l \in FlatNow(r)
    BY GoneIsClosed
  <2>6. flag' = [flag EXCEPT ![r] = Flagged(@, m)] \/ UNCHANGED flag
    BY <1>2, <2>2 DEF Bookkeeping, TypeOK
  <2>7. {l \in Legs : m[l]} \subseteq Known(r) \cup FlatNow(r)
    BY <2>4
  <2> HIDE DEF m, f
  <2>8. ASSUME NEW n \in {m, f}, Advance(w, n) PROVE Learns(r, FlatNow(r))
    <3>1. Others(w) /\ Gains(w, n, noex[w])
      BY <1>1, <2>1, <2>8, AdvanceMoves, AdvanceGains DEF Others, MovesOn, Bookkeeping
    <3>2. \A l \in Legs : mem'[w][l] => l \in Known(r) \cup FlatNow(r)
      BY <2>4, <2>5, <2>8, <3>1 DEF Gains
    <3>3. \A l \in Legs : flag'[r][l] => l \in Known(r) \cup FlatNow(r)
      BY <1>2, <2>2, <2>4, InHandIsKnown DEF Bookkeeping, TypeOK
    <3>4. \A q \in Rows \ {r} : flag'[q] = flag[q]
      BY <2>2 DEF Bookkeeping, TypeOK
    <3> QED BY <1>2, <2>2, <3>1, <3>2, <3>3, <3>4, LegsLearned
  <2>9. Learns(r, FlatNow(r))
    BY <2>2, <2>8
  <2> QED
    BY <1>2, <2>2, <2>6, <2>7, <2>9, ShowConfirm, ShowLook DEF Bookkeeping
<1> QED
  BY <1>3, <1>4, <1>5 DEF LegStep

(* A close begins: the row is marked, and what the worker takes into its memory *)
(* are the flags and the missing exchanges.                                     *)
LEMMA BeginLives ==
  ASSUME Bookkeeping, NEW w \in Workers, NEW r \in Rows, status[r] # "none",
         BeginClose(w, r), row'[w] = r, \A v \in Workers \ {w} : row'[v] = row[v]
  PROVE  Lives
<1>1. flag[r] \in [Legs -> BOOLEAN] /\ TRUE \in BOOLEAN
  BY DEF Bookkeeping, TypeOK
<1>2. Others(w) /\ Gains(w, flag[r], Missing(r))
  BY <1>1, EnterShortMoves, EnterShortGains DEF BeginClose, Bookkeeping, MovesOn, Others
<1>3. /\ \A l \in Legs : flag'[r][l] => l \in Known(r) \cup FlatNow(r)
      /\ \A l \in Legs : mem'[w][l] => l \in Known(r) \cup FlatNow(r)
  BY <1>2, MissingIsClosed DEF BeginClose, Gains, Known
<1>4. Learns(r, FlatNow(r))
  BY <1>2, <1>3, LegsLearned DEF BeginClose
<1> QED BY <1>4, ShowMark DEF BeginClose

(* The last commit of a close or of a recovery. *)
LEMMA EndLives ==
  ASSUME Bookkeeping, ClosesAreMarked, NEW w \in Workers, pc[w] \in Marked,
         NEW p \in {"idle", "pick"}, Release(w, p),
         NEW s, s \in {status[row[w]], "error"} \/ (s = "closed" /\ \A l \in Legs : mem[w][l]),
         status' = [status EXCEPT ![row[w]] = s],
         flag' = [flag EXCEPT ![row[w]] = Flagged(@, mem[w])], UNCHANGED <<venue, gone>>
  PROVE  Lives
<1> DEFINE r == row[w]
<1>1. r \in Rows /\ status[r] \in {"closing", "error", "closed"}
  BY MarkedRow
<1>2. Others(w) /\ row'[w] = NoRow
  BY ReleaseType DEF Bookkeeping, Released, Others
<1>3. /\ \A l \in Legs : flag'[r][l] => l \in Known(r)
      /\ \A q \in Rows \ {r} : flag'[q] = flag[q]
  BY <1>1, InHandIsKnown DEF Flagged, Bookkeeping, TypeOK
<1>4. LearnsNothing
  BY <1>1, <1>2, <1>3, ConstantsAssumption DEF LearnsNothing, Known, Others
<1>5. {l \in Legs : mem[w][l]} \subseteq Known(r)
  BY <1>1, InHandIsKnown
<1> QED BY <1>1, <1>4, <1>5, ShowEnd DEF Bookkeeping

(* A worker takes a row in hand and reads its flags. *)
LEMMA TakeLives ==
  ASSUME Bookkeeping, NEW w \in Workers, NEW r \in Rows, row' = [row EXCEPT ![w] = r],
         mem' = [mem EXCEPT ![w] = flag[r]], UNCHANGED <<status, flag, venue, gone>>
  PROVE  Lives
<1>1. Others(w) /\ row'[w] = r /\ mem'[w] = flag[r]
  BY DEF Others, Bookkeeping, TypeOK
<1>2. LearnsNothing
  BY <1>1, NothingLearned DEF Known
<1> QED BY <1>2, ShowForget

LEMMA StatusLives ==
  ASSUME Bookkeeping, NEW r \in Rows, status[r] \in {"closing", "error", "closed"},
         \A l \in Legs : flag[r][l], status' = [status EXCEPT ![r] = "closed"],
         UNCHANGED <<flag, row, mem, venue, gone>>
  PROVE  Lives
<1>1. flag[r] = Flagged(flag[r], flag[r]) /\ flag = [flag EXCEPT ![r] = flag[r]]
  BY DEF Bookkeeping, TypeOK, Flagged
<1>2. flag' = [flag EXCEPT ![r] = Flagged(@, flag[r])]
  BY <1>1 DEF Bookkeeping, TypeOK
<1>3. {l \in Legs : flag[r][l]} \subseteq Known(r)
  BY DEF Known
<1> QED BY <1>2, <1>3, NothingTouched, ShowEnd DEF Bookkeeping

LEMMA WorkerLives ==
  ASSUME Bookkeeping, ClosesAreMarked, MemoryIsTrue, NEW w \in Workers, Step(w)
  PROVE  Lives
<1>1. ASSUME UNCHANGED <<row, mem, status, flag, venue, gone>> PROVE Lives
  BY <1>1, NothingTouched, ShowForget
<1>2. ASSUME NEW p \in {"idle", "pick"}, Release(w, p), UNCHANGED <<status, flag, venue, gone>>
      PROVE  Lives
  BY <1>2, ReleaseTeachesNothing, ShowForget DEF Bookkeeping
<1>3. CASE NextPass(w)
  BY <1>1, <1>2, <1>3 DEF NextPass, Load, database
<1>4. CASE LegStep(w)
  BY <1>4, LegLives DEF MemoryIsTrue
<1>5. CASE ExitSkip(w)
  BY <1>1, <1>5 DEF ExitSkip, database
<1>6. ASSUME NEW r \in Rows, NEW reason \in Reasons, ExitClose(w, r, reason) PROVE Lives
  <2>1. status[r] # "none"
    BY <1>6 DEF ExitClose, Bookkeeping, LoadedRowsExist
  <2> QED
    BY <1>6, <2>1, BeginLives DEF ExitClose, Bookkeeping, TypeOK
<1>7. CASE ManualClose(w)
  <2>1. row[w] \in Rows /\ status[row[w]] # "none"
    BY <1>7, WorkingRow DEF ManualClose, Working
  <2> QED BY <1>7, <2>1, BeginLives DEF ManualClose
<1>8. CASE FinishClose(w)
  <2>1. FinalStatus(mem[w]) = "error" \/ (FinalStatus(mem[w]) = "closed" /\ \A l \in Legs : mem[w][l])
    BY DEF FinalStatus
  <2>2. PICK p \in {"idle", "pick"} : Release(w, p)
    BY <1>8 DEF FinishClose
  <2>3. /\ pc[w] \in Marked /\ UNCHANGED <<venue, gone>>
        /\ status' = [status EXCEPT ![row[w]] = FinalStatus(mem[w])]
        /\ flag' = [flag EXCEPT ![row[w]] = Flagged(@, mem[w])]
    BY <1>8 DEF FinishClose, Marked
  <2> QED BY <2>1, <2>2, <2>3, EndLives
<1>9. ASSUME NEW r \in Rows, RecoverStatus(w, r) PROVE Lives
  <2>1. status[r] \in {"closing", "error", "closed"}
    BY <1>9 DEF RecoverStatus, Recovering, ClosesAreMarked, MarkedBy, Bookkeeping, LoadedRowsExist,
                TypeOK
  <2> QED BY <1>9, <2>1, StatusLives DEF RecoverStatus
<1>10. ASSUME NEW r \in Rows, RecoverLater(w, r) PROVE Lives
  BY <1>1, <1>10 DEF RecoverLater, database
<1>11. ASSUME NEW r \in Rows, RecoverCheck(w, r) PROVE Lives
  BY <1>11, TakeLives DEF RecoverCheck, database
<1>12. CASE RecoverBegin(w)
  <2>1. pc[w] \in Marked
    BY <1>12 DEF RecoverBegin, Marked
  <2>2. /\ row[w] \in Rows /\ status[row[w]] \in {"closing", "error", "closed"}
        /\ mem[w] \in [Legs -> BOOLEAN]
    BY <2>1, MarkedRow
  <2>3. Others(w) /\ Gains(w, mem[w], Missing(row[w])) /\ UNCHANGED <<row, flag>>
    BY <1>12, <2>2, EnterShortMoves, EnterShortGains
    DEF RecoverBegin, Bookkeeping, MovesOn, Others, database
  <2>4. /\ \A l \in Legs : mem'[w][l] => l \in Known(row[w]) \cup FlatNow(row[w])
        /\ \A l \in Legs : flag'[row[w]][l] => l \in Known(row[w]) \cup FlatNow(row[w])
    BY <2>2, <2>3, InHandIsKnown, MissingIsClosed DEF Gains
  <2>5. Learns(row[w], FlatNow(row[w]))
    BY <2>2, <2>3, <2>4, LegsLearned
  <2> QED BY <1>12, <2>2, <2>5, ShowLook DEF RecoverBegin, database
<1>13. CASE FinishRecover(w)
  <2> DEFINE s == IF \A l \in Legs : mem[w][l] THEN "closed" ELSE status[row[w]]
  <2>1. s \in {status[row[w]], "error"} \/ (s = "closed" /\ \A l \in Legs : mem[w][l])
    OBVIOUS
  <2>2. /\ pc[w] \in Marked /\ UNCHANGED <<venue, gone>> /\ Release(w, "pick")
        /\ status' = [status EXCEPT ![row[w]] = s]
        /\ flag' = [flag EXCEPT ![row[w]] = Flagged(@, mem[w])]
    BY <1>13 DEF FinishRecover, Marked
  <2> HIDE DEF s
  <2> QED BY <2>1, <2>2, EndLives
<1> QED
  BY <1>3, <1>4, <1>5, <1>6, <1>7, <1>8, <1>9, <1>10, <1>11, <1>12, <1>13
  DEF Step, ExitStep, RecoverStep

LEMMA EnvironmentLives ==
  ASSUME Bookkeeping, Environment \/ UNCHANGED vars
  PROVE  Lives
<1>1. ASSUME UNCHANGED <<row, mem, status, flag, venue, gone>> PROVE Lives
  BY <1>1, NothingTouched, ShowForget
<1>2. ASSUME NEW w \in Workers, Abort(w) PROVE Lives
  BY <1>2, ReleaseTeachesNothing, ShowForget DEF Abort, Bookkeeping, database
<1>3. CASE Crash
  <2>1. LearnsNothing
    BY <1>3, ConstantsAssumption DEF Crash, LearnsNothing, Known, database
  <2> QED BY <1>3, <2>1, ShowForget DEF Crash, database
<1>4. ASSUME NEW s \in Symbols, NEW l \in Legs, DeleteExchange(s, l) PROVE Lives
  BY <1>4, NothingTouched, ShowDelete DEF DeleteExchange, locals
<1> QED
  BY <1>1, <1>2, <1>3, <1>4
  DEF Environment, CooldownOver, StopWindowOver, OpenFunding, CloseFunding, locals, vars, database

LEMMA StepsLive ==
  ASSUME Bookkeeping, Confirmation, SerialEntry, ClosesAreMarked, MemoryIsTrue, [Next]_vars
  PROVE  Lives
<1>1. ASSUME NEW w \in Workers, NEW r \in Rows, ManualCheck(w, r) PROVE Lives
  BY <1>1, TakeLives DEF ManualCheck, database
<1>2. CASE StartFast \/ StartSched
  BY <1>2, NothingTouched, ShowForget DEF StartFast, StartSched, Load, database
<1> QED
  BY <1>1, <1>2, EntryLives, WorkerLives, EnvironmentLives
  DEF Next, FastStep, SchedStep, Workers

(* The engine implements SpreadLife: whatever exits, manual closes, recoveries, *)
(* retries, crashes and deleted exchanges do to one another, a leg is sold only *)
(* for a marked row, and its flag is set only on evidence from this row.        *)
THEOREM EngineImplementsLife == Spec => RowsLive
<1>1. Init => Confirmation /\ SerialEntry /\ ClosesAreMarked /\ MemoryIsTrue /\ Life!LifeInit
  <2> SUFFICES ASSUME Init
               PROVE  Confirmation /\ SerialEntry /\ ClosesAreMarked /\ MemoryIsTrue /\ Life!LifeInit
    OBVIOUS
  <2>1. Confirmation
    BY DEF Init, Confirmation, ClosedMeansConfirmed
  <2>2. SerialEntry
    BY InitSerialEntry
  <2>3. ClosesAreMarked /\ MemoryIsTrue
    BY DEF Init, ClosesAreMarked, MarkedBy, Marked, MemoryIsTrue, NoexIsGone, NothingInHand
  <2>4. Life!LifeInit
    BY DEF Init, Life!LifeInit, Confirmed, Known, Unflagged
  <2> QED BY <2>1, <2>2, <2>3, <2>4
<1>2. /\ Bookkeeping /\ Confirmation /\ SerialEntry /\ ClosesAreMarked /\ MemoryIsTrue
      /\ [Next]_vars
      => /\ (Bookkeeping /\ Confirmation /\ SerialEntry /\ ClosesAreMarked /\ MemoryIsTrue)'
         /\ Lives
  BY StepsKeepBooks, StepsKeepConfirmation, StepsKeepSerialEntry, StepsKeepMarks,
     StepsKeepMemory, StepsLive
<1> QED
  BY <1>1, <1>2, InitBookkeeping, PTL DEF Spec, RowsLive, Life!LifeSpec, Lives
=============================================================================
