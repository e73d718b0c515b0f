------------------------------ MODULE SpreadLife ------------------------------
(***************************************************************************)
(* What the engine promises about the rows of spread_positions, whoever     *)
(* works on them and however their work overlaps.  A row is opened, marked, *)
(* and only then are its legs sold.  A leg is confirmed on evidence alone:  *)
(* somebody who works on this row saw its symbol's leg flat while the row   *)
(* was marked, or its exchange deleted.  What is confirmed stays so, and a  *)
(* row is closed when both legs are confirmed.  Evidence lives in somebody's*)
(* memory until it is written; it may get lost, it is never made up.        *)
(***************************************************************************)
EXTENDS Integers

CONSTANTS Rows, Symbols, SymbolOf, Legs

VARIABLES
  life,        \* the status of a row
  confirmed,   \* its legs that are confirmed closed
  seen,        \* its legs somebody knows to be closed
  held,        \* units an exchange holds, per symbol and leg
  gone         \* legs whose exchange was deleted

Marked(r) == life[r] \in {"closing", "error", "closed"}
NotOpen(s) == \A r \in Rows : SymbolOf[r] = s => life[r] # "open"
Flat(r) == {l \in Legs : held[SymbolOf[r]][l] = 0 \/ <<SymbolOf[r], l>> \in gone}

\* Nobody learns anything but what S says of row r; anything may be forgotten.
Learn(r, S) ==
  /\ seen' \in [Rows -> SUBSET Legs]
  /\ \A q \in Rows : seen'[q] \subseteq seen[q] \cup (IF q = r THEN S ELSE {})
LearnNothing ==
  /\ seen' \in [Rows -> SUBSET Legs]
  /\ \A q \in Rows : seen'[q] \subseteq seen[q]

LifeInit ==
  /\ life = [r \in Rows |-> "none"]
  /\ confirmed = [r \in Rows |-> {}]
  /\ seen = [r \in Rows |-> {}]
  /\ held = [s \in Symbols |-> [l \in Legs |-> 0]]
  /\ gone = {}

\* An entry buys a leg, gives its short leg back, or ends in an open row.  It
\* never adds to an open row of its symbol nor takes from it.
Fill(s, l) ==
  /\ NotOpen(s)
  /\ held' = [held EXCEPT ![s][l] = @ + 1]
  /\ LearnNothing
  /\ UNCHANGED <<life, confirmed, gone>>

GiveBack(s, k) ==
  /\ NotOpen(s)
  /\ held' = [held EXCEPT ![s]["short"] = @ - k]
  /\ LearnNothing
  /\ UNCHANGED <<life, confirmed, gone>>

Open(r) ==
  /\ life[r] = "none"
  /\ NotOpen(SymbolOf[r])
  /\ confirmed[r] = {}
  /\ life' = [life EXCEPT ![r] = "open"]
  /\ LearnNothing
  /\ UNCHANGED <<confirmed, held, gone>>

\* A close begins, of an open row or of one that was marked since it was chosen.
Mark(r) ==
  /\ life[r] # "none"
  /\ life' = [life EXCEPT ![r] = "closing"]
  /\ Learn(r, Flat(r))
  /\ UNCHANGED <<confirmed, held, gone>>

\* Orders for a leg of a marked row, or a look at its legs (k = 0).
Sell(r, l, k) ==
  /\ Marked(r)
  /\ held' = [held EXCEPT ![SymbolOf[r]][l] = @ - k]
  /\ Learn(r, Flat(r))
  /\ UNCHANGED <<life, confirmed, gone>>

\* Legs known to be closed are confirmed.
Confirm(r, C) ==
  /\ Marked(r)
  /\ C \subseteq seen[r] \cup Flat(r)
  /\ confirmed' = [confirmed EXCEPT ![r] = @ \cup C]
  /\ Learn(r, Flat(r))
  /\ UNCHANGED <<life, held, gone>>

\* A close or a recovery ends: with both legs confirmed the row is closed.
End(r, C, s) ==
  /\ Marked(r)
  /\ C \subseteq seen[r]
  /\ s \in {life[r], "error"} \/ (s = "closed" /\ confirmed[r] \cup C = Legs)
  /\ life' = [life EXCEPT ![r] = s]
  /\ confirmed' = [confirmed EXCEPT ![r] = @ \cup C]
  /\ LearnNothing
  /\ UNCHANGED <<held, gone>>

\* A rollback or a crash; the user deletes an exchange.
Forget == LearnNothing /\ UNCHANGED <<life, confirmed, held, gone>>
Delete(s, l) ==
  /\ gone' = gone \cup {<<s, l>>}
  /\ LearnNothing
  /\ UNCHANGED <<life, confirmed, held>>

LifeNext ==
  \/ \E s \in Symbols, l \in Legs : Fill(s, l) \/ Delete(s, l)
  \/ \E s \in Symbols : \E k \in 0 .. held[s]["short"] : GiveBack(s, k)
  \/ \E r \in Rows :
       \/ Open(r) \/ Mark(r)
       \/ \E l \in Legs : \E k \in 0 .. held[SymbolOf[r]][l] : Sell(r, l, k)
       \/ \E C \in SUBSET Legs :
            \/ Confirm(r, C)
            \/ \E s \in {"closing", "error", "closed"} : End(r, C, s)
  \/ Forget

LifeSpec == LifeInit /\ [][LifeNext]_<<life, confirmed, seen, held, gone>>
=============================================================================
