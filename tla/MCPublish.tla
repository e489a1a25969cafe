----------------------------- MODULE MCPublish -----------------------------
(* Publish instantiated for TLC: a type that another reaches twice, and a  *)
(* cycle.                                                                  *)
EXTENDS Publish, TLC

CONSTANTS root, mid, leaf, r1, r2, q1, nowhere

(* leaf is a root as a mid and by itself, and root is declared a leaf.     *)
Hierarchy == leaf :> <<mid, root>> @@ mid :> <<root>> @@ root :> <<leaf>>

(* The host consumes a type and an ancestor of it, with a handler that is  *)
(* registered for both; it does not know of mid, which is sent to it too.  *)
KnownAt == q1 :> {leaf, root}
HierarchyAt == q1 :> (leaf :> <<mid, root>> @@ mid :> <<>> @@ root :> <<leaf>>)
HandlersAt == q1 :> (leaf :> <<r1>> @@ mid :> <<>> @@ root :> <<r2, r1>>)
OthersAt == q1 :> {}
LateHandlers == {<<q1, root, r1>>}
Lists == {<<nowhere, q1>>}
=============================================================================
