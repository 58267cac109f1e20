----------------------------- MODULE MCRootDriver ------------------------------
(* Instances of RootDriver for TLC. *)
EXTENDS RootDriver, TLC

(* Roots are interchangeable in every safety property. *)
DriverSymmetry == Permutations(Roots)
==============================================================================
