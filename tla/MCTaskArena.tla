----------------------------- MODULE MCTaskArena -----------------------------
(* Instances of TaskArena for TLC. *)
EXTENDS TaskArena, TLC

(* Roots are interchangeable in every safety property. *)
RootSymmetry == Permutations(Roots)

(* A bound: the timer of a host callback and a cancellation request are not  *)
(* both used in one behaviour.  (A request numbers itself from 1.)          *)
TimerOrRequest ==
  (\A tm \in Timers : timer[tm].state = "unset") \/ nextRequest = 1
=============================================================================
