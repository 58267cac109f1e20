----------------------------- MODULE Containers ------------------------------
(***************************************************************************)
(* A dictionary, a set or a weak container (operations.rs, call.rs,        *)
(* context.rs, OrderedHashTable in object.rs) whose keys have code: every  *)
(* __hash__ and __eq__ an operation calls may run further operations on    *)
(* the same container, raise, or let the collector run.                    *)
(*                                                                         *)
(* `stack` holds the operations in progress, innermost last; each of them  *)
(* waits for code to come back, so code can always run.  An operation does *)
(* in one step what it does between two calls of code.  Entries are known  *)
(* by the identifier they get when they are inserted: the position in      *)
(* OrderedHashTable::entries, the push into WeakContainerObject::entries.  *)
(***************************************************************************)
EXTENDS Integers, Sequences, FiniteSets

CONSTANTS
    Kinds,         \* the containers, of "dict", "set", "weakkey", "weakvalue", "weakset"
    Keys, Values,  \* handles; a container without mapped values has one value
    Class, Hash,   \* keys of one class are equal, and equal keys hash alike
    MaxDepth,      \* bound on operations in progress
    MaxOperations, \* bound on operations that are begun
    Exposed        \* behaviours that are explored although the code is known
                   \* to go wrong in them:
                   \*   "clear"  the table is thrown away while an operation or
                   \*            an iterator on it is in progress
                   \*   "put"    a weak container is assigned to while an
                   \*            operation on it is in progress
                   \*   "prune"  a weak dictionary loses entries while it replaces
                   \*            a value

ASSUME ContainersAssumption ==
    /\ Kinds \subseteq {"dict", "set", "weakkey", "weakvalue", "weakset"}
    /\ DOMAIN Class = Keys /\ DOMAIN Hash = Keys
    /\ \A j, k \in Keys : Class[j] = Class[k] => Hash[j] = Hash[k]
    /\ MaxDepth \in Nat /\ MaxOperations \in Nat
    /\ Exposed \subseteq {"clear", "put", "prune"}
    /\ "None" \notin Keys \cup Values

VARIABLES
    kind,
    table,      \* the live entries, by identifier
    next,       \* the identifier of the next entry
    version,    \* OrderedHashTable::version, WeakContainerObject::mutation_version
    iterator,   \* one iterator on the container, with what it has seen
    stack,
    dead,       \* objects that were collected
    event,      \* history: the operation that took effect last
    operations  \* history: how many were begun

vars == <<kind, table, next, version, iterator, stack, dead, event, operations>>

None == "None"
Weak == kind \in {"weakkey", "weakvalue", "weakset"}
Live == DOMAIN table
Least(S) == CHOOSE i \in S : \A j \in S : i <= j
Greatest(S) == CHOOSE i \in S : \A j \in S : j <= i
Rank(i) == Cardinality({j \in Live : j <= i})
At(n) == {i \in Live : Rank(i) = n}

Equal(j, k) == Class[j] = Class[k]
Bucket(k) == {i \in Live : Hash[table[i].key] = Hash[k]}

\* `weak` is the handle of the weak reference the entry owns.
Entry(k, v, w) == [key |-> k, value |-> v, weak |-> w]
Fresh(s) == [i \in DOMAIN s |-> Entry(s[i], None, i)]

\* The entries in order: OrderedHashTable::snapshot.
Content == [n \in 1 .. Cardinality(Live) |-> LET i == CHOOSE i \in At(n) : TRUE
                                             IN [key |-> table[i].key, value |-> table[i].value]]

\* An operation in progress.  It waits for __hash__ of `key` (or for the next
\* item of its source), for the comparison with the candidate `at`, or for the
\* allocation of a weak reference; `rest` are the keys it still has to store.
Operation(op, k, v, rest) ==
    [op |-> op, key |-> k, value |-> v, rest |-> rest, phase |-> "hash",
     at |-> Entry(k, v, 0), id |-> 0, place |-> 0, todo |-> {}, version |-> 0, since |-> 0]

\* The iterator after entries came or went.
Touched(live) ==
    IF iterator.state # "open" THEN iterator
    ELSE [iterator EXCEPT !.touched = TRUE, !.keep = @ \cap live]

\* `keep` are the entries it has to yield, unless they go; `pending` the
\* snapshot an iterator of a weak container holds.
Iterator(reverse) ==
    [state |-> "open", touched |-> FALSE, keep |-> Live, yielded |-> {}, expected |-> version,
     index |-> IF reverse THEN Cardinality(Live) - 1 ELSE 0, reverse |-> reverse,
     pending |-> IF Weak THEN Live ELSE {}]

UnchangedTable == UNCHANGED <<table, next, version, iterator>>

Insert(k, v) ==
    /\ table' = [i \in Live \cup {next} |-> IF i = next THEN Entry(k, v, next) ELSE table[i]]
    /\ next' = next + 1
    /\ version' = version + 1
    /\ iterator' = Touched(Live)

\* A removal no iterator notices.
RemoveSilently(i) ==
    /\ table' = [j \in Live \ {i} |-> table[j]]
    /\ iterator' = Touched(Live \ {i})
    /\ UNCHANGED <<next, version>>

Remove(i) ==
    /\ table' = [j \in Live \ {i} |-> table[j]]
    /\ version' = version + 1
    /\ iterator' = Touched(Live \ {i})
    /\ UNCHANGED next

------------------------------------------------------------------------------
(* Looking a key up. *)

\* The operation is over, or goes on with the next key of its source.
Following(rest, f) ==
    stack' = IF f.rest = <<>> THEN rest
             ELSE Append(rest, Operation(f.op, Head(f.rest), f.value, Tail(f.rest)))

\* Before an entry of a weak container is written, its weak reference is
\* allocated: the collector and finalizers may run.
Allocate(rest, f, i) ==
    /\ stack' = Append(rest, [f EXCEPT !.phase = "allocate", !.id = i, !.todo = {},
                                       !.at = IF i = 0 THEN Entry(f.key, f.value, 0) ELSE table[i],
                                       !.place = IF i = 0 THEN 0 ELSE Rank(i)])
    /\ UnchangedTable /\ UNCHANGED event

\* The key is in entry i, or (0) in none.
Conclude(rest, f, i) ==
    \/ /\ f.op = "get" \/ (f.op = "default" /\ i # 0)
       /\ IF i = 0 THEN stack' = rest ELSE Following(rest, f)
       /\ event' = <<"get", f.key, i # 0>>
       /\ UnchangedTable
    \/ /\ f.op = "take"
       /\ stack' = rest
       /\ event' = <<"take", f.key, i # 0>>
       /\ IF i = 0 THEN UnchangedTable ELSE Remove(i)
    \/ /\ f.op = "default" /\ i = 0 /\ kind # "weakkey"
       /\ stack' = Append(rest, Operation("put", f.key, f.value, <<>>))
       /\ event' = <<"get", f.key, FALSE>>
       /\ UnchangedTable
    \/ /\ f.op = "put" /\ IF i = 0 THEN ~Weak ELSE kind # "weakvalue"
       /\ Following(rest, f)
       /\ event' = <<"put", f.key, f.value>>
       /\ IF i = 0 THEN Insert(f.key, f.value) ELSE UnchangedTable
    \/ /\ \/ f.op = "put" /\ IF i = 0 THEN Weak ELSE kind = "weakvalue"
          \/ f.op = "default" /\ i = 0 /\ kind = "weakkey"
       /\ Allocate(rest, f, i)

\* Candidates are taken in the order of their identifiers.  Those that are gone
\* are passed over, and those of a weak container whose weak reference was
\* replaced since the search began.  Only dictionaries and sets look at identity
\* first.
Search(rest, f, todo) ==
    LET left == {i \in todo \cap Live : Weak => table[i].weak < f.since}
        i == Least(left)
    IN IF left = {} THEN Conclude(rest, f, 0)
       ELSE IF ~Weak /\ table[i].key = f.key THEN Conclude(rest, f, i)
       ELSE /\ stack' = Append(rest, [f EXCEPT !.phase = "compare", !.id = i, !.at = table[i],
                                               !.todo = left \ {i}, !.version = version])
            /\ UnchangedTable /\ UNCHANGED event

Top == stack[Len(stack)]
Below == SubSeq(stack, 1, Len(stack) - 1)

\* __hash__ returned.
Hashed ==
    /\ stack # <<>> /\ Top.phase = "hash" /\ Top.op # "assign"
    /\ Search(Below, [Top EXCEPT !.since = IF Weak THEN next ELSE 0], Bucket(Top.key))
    /\ UNCHANGED <<kind, dead, operations>>

\* The entry counts although it is gone.
ThereOnce(f) == f.id # 0

\* Is the candidate still the entry it was?
StillThere(f) ==
    /\ f.id \in Live
    /\ IF Weak THEN table[f.id].weak = f.at.weak ELSE table[f.id].key = f.at.key

\* The search goes on in a table that changed.
OnwardAnyway(rest, f) == Search(rest, f, f.todo)

\* The candidate is not the key: on to the next, or, when the table of a
\* dictionary or a set changed, once more from the start.
Onward(rest, f) ==
    Search(rest, f, IF ~Weak /\ version # f.version THEN Bucket(f.key) ELSE f.todo)

\* __eq__ returned.
Compared ==
    /\ stack # <<>> /\ Top.phase = "compare"
    /\ IF ~Equal(Top.at.key, Top.key) THEN Onward(Below, Top)
       ELSE IF StillThere(Top) THEN Conclude(Below, Top, Top.id)
       ELSE IF Weak THEN Conclude(Below, Top, 0)
       ELSE IF kind = "set" /\ Top.op = "put"
            THEN Following(Below, Top) /\ UnchangedTable /\ UNCHANGED event
       ELSE Onward(Below, Top)
    /\ UNCHANGED <<kind, dead, operations>>

\* The weak reference is there.  A new entry is pushed; the value of an old one
\* is replaced at the place the entry had, if there is such a place.
Allocated ==
    /\ stack # <<>> /\ Top.phase = "allocate"
    /\ stack' = Below
    /\ \/ /\ Top.id = 0
          /\ Insert(Top.key, Top.value)
          /\ event' = <<"put", Top.key, Top.value>>
       \/ /\ Top.id # 0
          /\ table' = [i \in Live |-> IF Rank(i) = Top.place THEN Entry(table[i].key, Top.value, next)
                                      ELSE table[i]]
          /\ next' = next + 1
          /\ event' = IF At(Top.place) = {} THEN event ELSE <<"put", Top.key, Top.value>>
          /\ UNCHANGED <<version, iterator>>
    /\ UNCHANGED <<kind, dead, operations>>

\* Code, or an allocation, raises: the operation ends where it is.
Raise ==
    /\ stack # <<>>
    /\ stack' = Below
    /\ UnchangedTable
    /\ UNCHANGED <<kind, dead, event, operations>>

------------------------------------------------------------------------------
(* What code can do, at any point. *)

MayRun == Len(stack) < MaxDepth /\ operations < MaxOperations

Nested == stack # <<>>
Replacing == \E n \in DOMAIN stack : stack[n].phase = "allocate" /\ stack[n].id # 0
Iterating == iterator.state = "open"

Mapped == IF kind = "weakvalue" THEN Values \ dead ELSE {None}
Usable == IF kind = "weakvalue" THEN Keys ELSE Keys \ dead

Push(f) ==
    /\ MayRun
    /\ stack' = Append(stack, f)
    /\ operations' = operations + 1
    /\ UnchangedTable /\ UNCHANGED <<kind, dead, event>>

\* in, get() and [].
Contains(k) == Push(Operation("get", k, None, <<>>))
GetItem(k) == kind \notin {"set", "weakset"} /\ Contains(k)

\* Comparisons of dictionaries and sets, and issubset(), look up one key after
\* the other until one is absent.
Compare(k, j) == ~Weak /\ Push(Operation("get", k, None, <<j>>))

\* del, pop() and remove(); discard().
Delete(k) == (Replacing => "prune" \in Exposed) /\ Push(Operation("take", k, None, <<>>))
Discard(k) == kind \in {"set", "weakset"} /\ Delete(k)

MayPut == Weak /\ Nested => "put" \in Exposed

\* []= and add().
Put(k, v) == MayPut /\ Push(Operation("put", k, v, <<>>))

\* update(), |= of a dictionary and ** in a display, of a source with two keys.
Update(k, j, v) == ~Weak /\ Push(Operation("put", k, v, <<j>>))

SetDefault(k, v) ==
    /\ MayPut /\ kind \notin {"set", "weakset"}
    /\ Push(Operation("default", k, v, <<>>))

\* popitem() of a dictionary, pop() of a set.
Pop ==
    /\ MayRun /\ ~Weak /\ Live # {}
    /\ Remove(IF kind = "dict" THEN Greatest(Live) ELSE Least(Live))
    /\ event' = <<"pop">>
    /\ operations' = operations + 1
    /\ UNCHANGED <<kind, stack, dead>>

Clear ==
    /\ MayRun
    /\ table' = <<>>
    /\ IF Weak THEN /\ Replacing => "prune" \in Exposed
                    /\ version' = IF Live = {} THEN version ELSE version + 1
                    /\ next' = next
       ELSE /\ Nested \/ Iterating => "clear" \in Exposed
            /\ version' = 0 /\ next' = 1
    /\ iterator' = IF Live = {} THEN iterator ELSE Touched({})
    /\ event' = <<"clear">>
    /\ operations' = operations + 1
    /\ UNCHANGED <<kind, stack, dead>>

\* What an operator of sets leaves, with one key in its other operand.
Wanted(operator, k) ==
    LET here == {table[i].key : i \in Live}
        same == {j \in here : Equal(j, k)}
        added == IF same = {} THEN {k} ELSE {}
    IN CASE operator = "and" -> same
         [] operator = "minus" -> here \ same
         [] operator = "or" -> here \cup added
         [] operator = "xor" -> (here \ same) \cup added

\* set() of these keys, which stores no two equal ones; their order is not
\* modelled here.
Results(keys) ==
    {s \in [1 .. Cardinality(keys) -> keys] :
        \A m, n \in DOMAIN s : m # n => ~Equal(s[m], s[n])}

\* The operator computes from a snapshot, and code runs while it does ...
Assign(operator, k, method) ==
    /\ kind = "set"
    /\ \E s \in Results(Wanted(operator, k)) : Push(Operation("assign", k, method, s))

\* ... then the table is replaced: by a statement like |= with the version of
\* the new table, by a method like intersection_update with the next version.
Assigned ==
    /\ stack # <<>> /\ Top.op = "assign"
    /\ ~Top.value /\ (Len(stack) > 1 \/ Iterating) => "clear" \in Exposed
    /\ table' = Fresh(Top.rest)
    /\ next' = Len(Top.rest) + 1
    /\ version' = IF Top.value THEN version + 1 ELSE Len(Top.rest)
    /\ iterator' = Touched({})
    /\ stack' = Below
    /\ event' = <<"assign">>
    /\ UNCHANGED <<kind, dead, operations>>

\* iter(), and reversed() of a dictionary.
NewIterator(reverse) ==
    /\ MayRun /\ ~Iterating
    /\ reverse => kind = "dict"
    /\ iterator' = Iterator(reverse)
    /\ operations' = operations + 1
    /\ UNCHANGED <<kind, table, next, version, stack, dead, event>>

Yield(it, i) ==
    [it EXCEPT !.yielded = @ \cup {i}, !.state = IF i \in it.yielded THEN "repeated" ELSE "open"]

NextOfTable(it) ==
    LET here == At(it.index + 1)
        on == [it EXCEPT !.index = IF it.reverse THEN @ - 1 ELSE @ + 1]
    IN IF version # it.expected THEN [it EXCEPT !.state = "raised"]
       ELSE IF here = {} THEN [it EXCEPT !.state = "exhausted"]
       ELSE Yield(on, CHOOSE i \in here : TRUE)

NextOfWeak(it) ==
    LET left == it.pending \cap Live
        i == Least(left)
    IN IF it.pending # {} /\ version # it.expected THEN [it EXCEPT !.state = "raised"]
       ELSE IF left = {} THEN [it EXCEPT !.state = "exhausted"]
       ELSE Yield([it EXCEPT !.pending = left \ {i}], i)

IteratorNext ==
    /\ Iterating
    /\ iterator' = IF Weak THEN NextOfWeak(iterator) ELSE NextOfTable(iterator)
    /\ UNCHANGED <<kind, table, next, version, stack, dead, event, operations>>

\* What operations in progress keep alive.
Held == UNION {{stack[n].key, stack[n].value} \cup {stack[n].rest[m] : m \in DOMAIN stack[n].rest}
                 \cup (IF stack[n].id = 0 THEN {}
                       ELSE IF stack[n].phase = "compare" THEN {stack[n].at.key}
                       ELSE {stack[n].at.key, stack[n].at.value}) : n \in DOMAIN stack}

Dies(i) == IF kind = "weakvalue" THEN table[i].value ELSE table[i].key

\* A collection finds that entries are all that refers to x.
Collect(x) ==
    /\ Weak /\ x \notin Held
    /\ \E i \in Live : Dies(i) = x
    /\ kind = "weakvalue" => \A i \in Live : table[i].key # x
    /\ Replacing => "prune" \in Exposed
    /\ table' = [i \in {i \in Live : Dies(i) # x} |-> table[i]]
    /\ iterator' = [iterator EXCEPT !.keep = {i \in @ \cap Live : Dies(i) # x}]
    /\ dead' = dead \cup {x}
    /\ event' = <<"lose", x>>
    /\ UNCHANGED <<kind, next, version, stack, operations>>

------------------------------------------------------------------------------
Init ==
    /\ kind \in Kinds
    /\ table = <<>> /\ next = 1 /\ version = 0
    /\ iterator = [state |-> "none", touched |-> FALSE, keep |-> {}, yielded |-> {}, expected |-> 0,
                   index |-> 0, reverse |-> FALSE, pending |-> {}]
    /\ stack = <<>> /\ dead = {}
    /\ event = <<"new">> /\ operations = 0

Code ==
    \/ \E k \in Usable : Contains(k) \/ GetItem(k) \/ Delete(k) \/ Discard(k)
    \/ \E k \in Usable, v \in Mapped : Put(k, v) \/ SetDefault(k, v)
    \/ \E k, j \in Usable, v \in Mapped : k # j /\ (Compare(k, j) \/ Update(k, j, v))
    \/ \E k \in Usable, operator \in {"and", "minus", "or", "xor"}, method \in BOOLEAN :
         Assign(operator, k, method)
    \/ Pop \/ Clear
    \/ \E reverse \in BOOLEAN : NewIterator(reverse)
    \/ IteratorNext
    \/ \E x \in Keys \cup Values : Collect(x)

Next == Hashed \/ Compared \/ Allocated \/ Assigned \/ Raise \/ Code

Spec == Init /\ [][Next]_vars
------------------------------------------------------------------------------
(* No two entries have equal keys, whatever the code of keys did while they  *)
(* were searched: value_dictionary_find_entry, set_add, weak_container_find. *)
UniqueKeys ==
    \A i, j \in Live : i # j => ~Equal(table[i].key, table[j].key)

(* An iterator yields no entry twice, yields every entry that stays, and      *)
(* raises only, and for a dictionary or a set always, when entries came or    *)
(* went in between (iterator_next).                                           *)
IterationFaithful ==
    /\ iterator.state # "repeated"
    /\ iterator.state = "exhausted" => iterator.keep \subseteq iterator.yielded
    /\ iterator.state = "raised" => iterator.touched
    /\ iterator.state = "exhausted" /\ ~Weak => ~iterator.touched

Map == INSTANCE OrderedMap WITH content <- Content, Values <- Values \cup {None}

(* Every operation takes effect at once on an ordered map with unequal keys,  *)
(* although it searches in several steps with code in between.                *)
ImplementsMap == Map!Spec
=============================================================================
