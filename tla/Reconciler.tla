------------------------------ MODULE Reconciler ------------------------------
(***************************************************************************)
(* The reconciler of spot hedges, core/spot_basis_reconciler/, at work on  *)
(* the book of StrategyBook while its workers open and close.              *)
(*                                                                         *)
(* One pass (_RECON_LOCK lets no two overlap) closes strategies without    *)
(* open legs, reads the open legs from the tables, asks the exchanges what *)
(* they hold, first the short positions and then the spot wallets, and     *)
(* writes a strategy for every pair that is held and was not tracked.      *)
(* Between these steps anything may happen, and each of them is a read of  *)
(* a world the others have gone on changing.                               *)
(***************************************************************************)
EXTENDS StrategyBook

\* An exchange lists finitely many symbols.
ASSUME ReconcilerAssumption == IsFiniteSet(Symbols)

VARIABLES
  step,      \* where the pass is: "idle", "tracking", "shorts", "spots", "pairing"
  listed,    \* markets of the exchanges the pass knows
  tracked,   \* units per market the tables accounted for
  live,      \* units per market the exchanges reported
  todoSyms,  \* symbols of the pass not paired yet
  quiet      \* no worker had a strategy in hand since "tracking"

pass  == <<step, listed, tracked, live, todoSyms>>
rvars == <<vars, pass, quiet>>

Nothing == [m \in Markets |-> 0]

RInit ==
  /\ Init
  /\ step = "idle"
  /\ listed = {}
  /\ tracked = Nothing
  /\ live = Nothing
  /\ todoSyms = {}
  /\ quiet = FALSE

LegsOpen(k) == {l \in Legs : pst[k][l] = "open"}

\* Legs of market m the tables account for: open ones of spot hedges that are
\* not closed.  The positions of every other engine count as untracked.
TrackedLegs(m) ==
  {x \in Spots \X Legs :
     /\ sst[x[1]] \in {"active", "closing", "error"}
     /\ pst[x[1]][x[2]] = "open"
     /\ Market(x[1], x[2]) = m}

\* Mutant: one leg that is not open is enough.
EmptyIfHalf(k) == sst[k] \in {"active", "closing"} /\ LegsOpen(k) # Legs

Empty(k) == sst[k] \in {"active", "closing"} /\ LegsOpen(k) = {}

\* Mutant: only active strategies are looked at.
SweptIfActive(k) == sst[k] = "active" /\ Empty(k)

Swept(k) == k \in Spots /\ Empty(k)

\* The exchanges are listed, then
\* _close_active_or_closing_without_open_legs does its commit.
CloseEmpty ==
  /\ step = "idle"
  /\ step' = "tracking"
  /\ sst' = [k \in Strategies |->
               IF Swept(k) THEN "closed" ELSE sst[k]]
  /\ listed' = Markets \ gone
  /\ UNCHANGED <<pst, gone, venue, locals, stray, adrift, opens, faults>>
  /\ UNCHANGED <<tracked, live, todoSyms, quiet>>

\* Somebody opens, unwinds or closes.
Busy == \E w \in Workers : book[w] # NoStrategy

LoadTracked ==
  /\ step = "tracking"
  /\ step' = "shorts"
  /\ tracked' = [m \in Markets |-> Cardinality(TrackedLegs(m))]
  /\ quiet' = ~Busy
  /\ UNCHANGED <<vars, listed, live, todoSyms>>

\* What the exchanges report of one kind of market.  An exchange that cannot be
\* read is passed over, as if it held nothing.
Read(kind, next) ==
  \E failed \in SUBSET {m \in listed : m[2] = kind} :
    /\ faults + Cardinality(failed) <= MaxFaults
    /\ faults' = faults + Cardinality(failed)
    /\ live' = [m \in Markets |->
                  IF m[2] # kind THEN live[m]
                  ELSE IF m \in listed \ failed THEN venue[m] ELSE 0]
    /\ step' = next
    /\ UNCHANGED <<database, venue, locals, stray, adrift, opens, listed, tracked, quiet>>

ReadShorts == step = "shorts" /\ Read("short", "spots") /\ UNCHANGED todoSyms
ReadSpots  == step = "spots" /\ Read("spot", "pairing") /\ todoSyms' = Symbols

Residual(m) == IF live[m] > tracked[m] THEN live[m] - tracked[m] ELSE 0

\* Mutant: any untracked short is taken to be half of a pair.
ShortAlone(s) == Residual(<<s, "short">>) = 1

\* An untracked short and an untracked coin of about the same size.  Only pairs
\* of one unit are modelled.
Matched(s) ==
  LET perp == Residual(<<s, "short">>)
      spot == Residual(<<s, "spot">>)
  IN perp = 1 /\ 10 * spot >= 6 * perp /\ 10 * spot <= 14 * perp

\* A strategy of the same pair with an open leg: looked for right before the write.
AlreadyTracked(s) ==
  \E k \in Spots :
    SymbolOf[k] = s /\ sst[k] \in {"active", "closing", "error"} /\ LegsOpen(k) # {}

\* Mutant: a pair on which nothing is tracked is passed over.
RecoverableIfKnown(s) == Matched(s) /\ AlreadyTracked(s)

\* A pair to write a strategy for; the rows of both exchanges are still there.
Recoverable(s) ==
  /\ Matched(s)
  /\ ~AlreadyTracked(s)
  /\ gone \cap ({s} \X {"spot", "short"}) = {}

Free(k) == sst[k] = "none" /\ \A w \in Workers : book[w] # k

\* The pair gets a strategy and two open positions, in one commit.
Recover(s, k) ==
  /\ step = "pairing"
  /\ s \in todoSyms
  /\ Recoverable(s)
  /\ k \in Spots /\ SymbolOf[k] = s /\ Free(k)
  /\ sst' = [sst EXCEPT ![k] = "active"]
  /\ pst' = [pst EXCEPT ![k] = [l \in Legs |-> "open"]]
  /\ stray' = [m \in Markets |->
                 IF \E l \in Legs : Market(k, l) = m /\ stray[m] > 0
                 THEN stray[m] - 1 ELSE stray[m]]
  /\ todoSyms' = todoSyms \ {s}
  /\ UNCHANGED <<gone, venue, locals, adrift, opens, faults, step, listed, tracked, live, quiet>>

\* Nothing to recover, or no slot left for it (a bound of the model).
SkipSymbol(s) ==
  /\ step = "pairing"
  /\ s \in todoSyms
  /\ Recoverable(s) => ~\E k \in Spots : SymbolOf[k] = s /\ Free(k)
  /\ todoSyms' = todoSyms \ {s}
  /\ UNCHANGED <<vars, step, listed, tracked, live, quiet>>

EndPassR ==
  /\ step = "pairing"
  /\ todoSyms = {}
  /\ step' = "idle"
  /\ listed' = {}
  /\ tracked' = Nothing
  /\ live' = Nothing
  /\ UNCHANGED <<vars, todoSyms, quiet>>

\* An exception: the session is rolled back and the pass is over.
AbortPass ==
  /\ step # "idle"
  /\ faults < MaxFaults
  /\ faults' = faults + 1
  /\ step' = "idle"
  /\ listed' = {}
  /\ tracked' = Nothing
  /\ live' = Nothing
  /\ todoSyms' = {}
  /\ UNCHANGED <<database, venue, locals, stray, adrift, opens, quiet>>

Pass ==
  \/ CloseEmpty \/ LoadTracked \/ ReadShorts \/ ReadSpots \/ EndPassR
  \/ \E s \in Symbols : SkipSymbol(s) \/ \E k \in Strategies : Recover(s, k)

\* A crash takes the pass with it.
BookStep ==
  /\ Next
  /\ quiet' = (quiet /\ ~(\E w \in Workers : book'[w] # NoStrategy))
  /\ UNCHANGED pass

RNext == BookStep \/ Pass \/ AbortPass

RSpec == RInit /\ [][RNext]_rvars
RFair == RSpec /\ WF_rvars(Pass)

-----------------------------------------------------------------------------
(* Properties.                                                             *)

RTypeOK ==
  /\ TypeOK
  /\ step \in {"idle", "tracking", "shorts", "spots", "pairing"}
  /\ listed \in SUBSET Markets
  /\ tracked \in [Markets -> Nat]
  /\ live \in [Markets -> Nat]
  /\ todoSyms \in SUBSET Symbols
  /\ quiet \in BOOLEAN

\* A recovery in a pass no worker disturbed writes rows for units that are
\* there: afterwards no market of its strategy has more open rows than units.
QuietRecoveryIsHeld ==
  [][\A s \in Symbols, k \in Strategies :
       Recover(s, k) /\ quiet =>
         \A l \in Legs : Cardinality(TrackedLegs(Market(k, l)))' <= venue[Market(k, l)]]_rvars

\* A pair at the exchanges, of which the tables know nothing: the units of an
\* open that died before its commit.
Orphaned(s) ==
  /\ venue[<<s, "short">>] = 1 /\ venue[<<s, "spot">>] = 1
  /\ \A k \in Spots : SymbolOf[k] = s => LegsOpen(k) = {}
  /\ \E k \in Spots : SymbolOf[k] = s /\ Free(k)
  /\ gone = {}

\* It does not stay so: the reconciler recovers it, whatever reads fail and
\* whatever the workers do.
OrphanIsRecovered == \A s \in Symbols : Orphaned(s) ~> ~Orphaned(s)

\* A spot hedge that has lost its open legs does not stay active, although every
\* close that sells both of them leaves it so.
EmptyIsClosed ==
  \A k \in Spots : Empty(k) ~> ~Empty(k)

\* "Avoid duplicate recovered rows": a pair that was opened once, without any
\* failure, has one strategy.
OneRowPerPair ==
  faults = 0 /\ opens <= 1 =>
    \A k, q \in Spots :
      SymbolOf[k] = SymbolOf[q] /\ LegsOpen(k) # {} /\ LegsOpen(q) # {} => k = q
=============================================================================
