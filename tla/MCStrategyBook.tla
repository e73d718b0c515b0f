---- MODULE MCStrategyBook ----
(* Instances of StrategyBook: cross-exchange and spot-hedge strategies. *)
EXTENDS StrategyBook, TLC

CONSTANTS x1, p1, p2, s1

\* A cross-exchange and a spot-hedge strategy on one symbol.
MixedSpots == {p1}
MixedSymbolOf == (x1 :> s1) @@ (p1 :> s1)

\* Two spot hedges on one symbol.
PairSpots == {p1, p2}
PairSymbolOf == (p1 :> s1) @@ (p2 :> s1)
====
