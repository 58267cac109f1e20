---------------------------- MODULE RootContract -----------------------------
(***************************************************************************)
(* What the executor facade promises about one submitted root, with no     *)
(* slots, wakers or call stack: it gets exactly one outcome, its runtime   *)
(* activation is entered only while the outcome is open, and an activation *)
(* that did not finish by itself is released exactly once, outside resume. *)
(* TaskArena implements it.                                                *)
(***************************************************************************)
EXTENDS Naturals

CONSTANT Roots

VARIABLES
  outcome,   \* "unsubmitted", "pending", then how the root ended
  inside,    \* is its resume callback running?
  released   \* how often its drop_fn was called

vars == <<outcome, inside, released>>

Init ==
  /\ outcome = [h \in Roots |-> "unsubmitted"]
  /\ inside = [h \in Roots |-> FALSE]
  /\ released = [h \in Roots |-> 0]

Submit(h) ==
  /\ outcome[h] = "unsubmitted"
  /\ outcome' = [outcome EXCEPT ![h] = "pending"]
  /\ UNCHANGED <<inside, released>>

Enter(h) ==
  /\ outcome[h] = "pending"
  /\ ~inside[h]
  /\ inside' = [inside EXCEPT ![h] = TRUE]
  /\ UNCHANGED <<outcome, released>>

(* Resume returns: the root suspends, or finishes by itself. *)
Leave(h) ==
  /\ outcome[h] = "pending"
  /\ inside[h]
  /\ inside' = [inside EXCEPT ![h] = FALSE]
  /\ outcome' = outcome \/ outcome' = [outcome EXCEPT ![h] = "Runtime"]
  /\ UNCHANGED released

(* The root is dropped or shut down while suspended, and released. *)
Abandon(h) ==
  /\ outcome[h] = "pending"
  /\ ~inside[h]
  /\ \E kind \in {"Dropped", "Shutdown"} :
       outcome' = [outcome EXCEPT ![h] = kind]
  /\ released' = [released EXCEPT ![h] = @ + 1]
  /\ UNCHANGED inside

(* Shutdown reaches a root inside its resume: the release waits ... *)
Interrupt(h) ==
  /\ outcome[h] = "pending"
  /\ inside[h]
  /\ outcome' = [outcome EXCEPT ![h] = "Shutdown"]
  /\ UNCHANGED <<inside, released>>

(* ... until resume returns. *)
Unwind(h) ==
  /\ outcome[h] = "Shutdown"
  /\ inside[h]
  /\ inside' = [inside EXCEPT ![h] = FALSE]
  /\ released' = [released EXCEPT ![h] = @ + 1]
  /\ UNCHANGED outcome

Next ==
  \E h \in Roots :
    Submit(h) \/ Enter(h) \/ Leave(h) \/ Abandon(h) \/ Interrupt(h) \/ Unwind(h)

Spec == Init /\ [][Next]_vars
=============================================================================
