---------------------------- MODULE MCManagedHeap ---------------------------
(* Instances of ManagedHeap for TLC. *)
EXTENDS ManagedHeap

(* One program is about hooks and weak references, the other about captured *)
(* builtins, buffers and exceptions.                                        *)
Hooks == [kinds |-> {"instance", "generator", "weakref", "container"},
          allocations |-> 3, raising |-> FALSE]
Buffers == [kinds |-> {"plain", "function", "view"}, allocations |-> 4, raising |-> TRUE]
MCPrograms == {Hooks, Buffers}
=============================================================================
