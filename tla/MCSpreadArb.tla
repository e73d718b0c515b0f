----------------------------- MODULE MCSpreadArb -----------------------------
(* Instances of SpreadArb for TLC. *)
EXTENDS SpreadArb, TLC

CONSTANTS r1, r2, s1, s2, q1, q2

\* Two rows of the same symbol: a symbol that is entered again.
SameSymbol == r1 :> s1 @@ r2 :> s1

\* A single row.
OneRow == r1 :> s1

\* The rows of one symbol are interchangeable (sound: the run that uses it has
\* no liveness property).
RowSymmetry == Permutations(Rows)
=============================================================================
