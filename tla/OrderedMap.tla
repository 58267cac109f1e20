----------------------------- MODULE OrderedMap ------------------------------
(***************************************************************************)
(* What a dictionary or a set promises, whatever the code of its keys does *)
(* during an operation: every operation takes effect at once, the keys are *)
(* pairwise unequal and in the order of their insertion, a key that was    *)
(* stored is kept when an equal one is stored again, and a weak container  *)
(* loses nothing but the entries of dead objects.  Containers implements   *)
(* it.                                                                     *)
(***************************************************************************)
EXTENDS Naturals, Sequences, FiniteSets

CONSTANTS
    Keys, Values,
    Class      \* keys of one class are equal

VARIABLES
    content,   \* the entries, in order
    event      \* the operation that took effect last

vars == <<content, event>>

Same(k) == {i \in DOMAIN content : Class[content[i].key] = Class[k]}

\* The n-th member of a set of positions, and the entries at other positions than S.
Nth(S, n) == CHOOSE i \in S : Cardinality({j \in S : j <= i}) = n
Without(S) ==
    LET left == DOMAIN content \ S
    IN  [n \in 1 .. Cardinality(left) |-> content[Nth(left, n)]]

Init == content = <<>> /\ event = <<"new">>

Get(k) == event' = <<"get", k, Same(k) # {}>> /\ UNCHANGED content

Put(k, v) ==
    /\ content' = IF Same(k) = {} THEN Append(content, [key |-> k, value |-> v])
                  ELSE [i \in DOMAIN content |->
                          IF i \in Same(k) THEN [content[i] EXCEPT !.value = v] ELSE content[i]]
    /\ event' = <<"put", k, v>>

Take(k) ==
    /\ content' = Without(Same(k))
    /\ event' = <<"take", k, Same(k) # {}>>

Pop(i) ==
    /\ i \in {1, Len(content)} \cap DOMAIN content
    /\ content' = Without({i})
    /\ event' = <<"pop">>

Clear == content' = <<>> /\ event' = <<"clear">>

\* An operator of sets assigns in place a result computed before.
Assign(s) ==
    /\ \A i, j \in DOMAIN s : i # j => Class[s[i].key] # Class[s[j].key]
    /\ content' = s
    /\ event' = <<"assign">>

\* A collection: an object died that entries only hold weakly.
Lose(x) ==
    /\ content' = Without({i \in DOMAIN content : x \in {content[i].key, content[i].value}})
    /\ event' = <<"lose", x>>

Next ==
    \/ \E k \in Keys : Get(k) \/ Take(k) \/ \E v \in Values : Put(k, v)
    \/ \E i \in DOMAIN content : Pop(i)
    \/ Clear \/ Assign(content')
    \/ \E x \in Keys \cup Values : Lose(x)

Spec == Init /\ [][Next]_vars
=============================================================================
