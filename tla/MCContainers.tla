---------------------------- MODULE MCContainers -----------------------------
(* Two equal keys and a third that collides with them. *)
EXTENDS Containers, TLC

CONSTANTS a, twin, b

MCClass == [k \in Keys |-> IF k = b THEN 2 ELSE 1]
MCHash == [k \in Keys |-> 1]
Twins == Permutations({a, twin})
==============================================================================
