---- MODULE MCReconciler ----
(* Instances of Reconciler: spot hedges on one symbol. *)
EXTENDS Reconciler, TLC

CONSTANTS p1, p2, s1

TwoSymbolOf == (p1 :> s1) @@ (p2 :> s1)
====
