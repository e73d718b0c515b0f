---- MODULE MCAutoCycle ----
(* Instances of AutoCycle: two strategies on one pair. *)
EXTENDS AutoCycle, TLC

CONSTANTS k1, k2, pair

SamePair == (k1 :> pair) @@ (k2 :> pair)
====
