----------------------------- MODULE MCSuspended -----------------------------
(* A generator, a coroutine, an async generator, operations on it and anext()  *)
(* with a default.                                                            *)
EXTENDS Suspended

CONSTANTS plain, coro, agen, first, second, third, default

MCKind == [g \in Generators |-> CASE g = plain -> "generator"
                                  [] g = coro -> "coroutine"
                                  [] g = agen -> "async_generator"]
MCReceiver == [a \in Operations |-> agen]
MCProtocol == [a \in Operations |-> CASE a = first -> "next" [] a = second -> "close" [] a = third -> "throw"]
MCWrapped == [d \in Defaults |-> first]
==============================================================================
