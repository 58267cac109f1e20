------------------------------ MODULE Indexing -------------------------------
(***************************************************************************)
(* Subscripts, slices and the methods of lists (item_get, item_set,        *)
(* item_delete, slice_item, slice_assign, slice_delete in operations.rs;   *)
(* insert, pop, remove, index and sort in call.rs), and the same slices of *)
(* ranges and memory views, which keep bounds instead of items.            *)
(*                                                                         *)
(* An operation reads something of its receiver, then runs code of the     *)
(* program (__index__ of a bound, iteration of what is assigned, __eq__ of *)
(* an item, a key function), which may change the list, and then finishes. *)
(***************************************************************************)
EXTENDS Integers, Sequences, FiniteSets, SequencesExt

CONSTANTS
    Lists,      \* the contents a list may have, sequences of numbers
    Ranges,     \* the ranges, records of start, stop and step
    Views,      \* the memory views: records of cells, offset, length and stride
    Bounds,     \* the numbers used as subscripts and as bounds of slices
    Steps,      \* the numbers used as steps of slices
    Changes,    \* what the code run by an operation leaves in the list
    Largest,    \* isize::MAX
    Exposed     \* divergences that are explored although they are known:
                \*   "snapshot"  reading, searching and sorting go on with a copy
                \*               when the program changes the list in between
                \*   "stale"     slices are applied with the length the list had
                \*               before the program changed it
                \*   "none_step" a memory view refuses a slice whose step is None

IndexingAssumption ==
    /\ Largest \in Nat
    /\ \A r \in Ranges : r.step # 0

(* What may be given or not: a bound of a slice, an argument. *)
NotGiven == <<>>
Given(n) == <<n>>
NoneGiven == <<0, "None">>     \* None written out, which only a step keeps apart
Slices == [start : {NotGiven} \cup {Given(b) : b \in Bounds},
           stop : {NotGiven} \cup {Given(b) : b \in Bounds},
           step : {NotGiven, NoneGiven} \cup {Given(s) : s \in Steps}]
Slice(start, stop, step) == [start |-> start, stop |-> stop, step |-> step]

VARIABLES
    thing,     \* what is operated on
    frame,     \* the operation in progress and what it has read, or <<>>
    done       \* history: the operation that has just finished

vars == <<thing, frame, done>>

List(items) == [is |-> "list", items |-> items]
Result(answer, items) == [answer |-> answer, values |-> items, after |-> <<>>]
Leaves(answer, items, after) == [answer |-> answer, values |-> items, after |-> after]
Fails(error) == Result(error, <<>>)

-----------------------------------------------------------------------------
(* What the code does. *)

Clamp(n, low, high) == IF n < low THEN low ELSE IF n > high THEN high ELSE n
BigintToIsize(n) == Clamp(n, -Largest - 1, Largest)
FitsIsize(n) == BigintToIsize(n) = n

StepOf(slice) == IF slice.step \in {NotGiven, NoneGiven} THEN 1 ELSE BigintToIsize(slice.step[1])

(* A version whose backward slices cannot go past the first item. *)
NormalizeSliceBoundsAtZero(slice, length) ==
    LET step    == StepOf(slice)
        low     == 0
        high    == IF step > 0 THEN length ELSE length - 1
        wrap(n) == IF n < 0 THEN BigintToIsize(n + length) ELSE n
        at(bound, otherwise) ==
            IF bound = NotGiven THEN otherwise ELSE Clamp(wrap(BigintToIsize(bound[1])), low, high)
    IN  [start |-> at(slice.start, IF step > 0 THEN 0 ELSE high),
         stop  |-> at(slice.stop, IF step > 0 THEN length ELSE -1),
         step  |-> step]

NormalizeSliceBounds(slice, length) ==
    LET step    == StepOf(slice)
        low     == IF step > 0 THEN 0 ELSE -1
        high    == IF step > 0 THEN length ELSE length - 1
        wrap(n) == IF n < 0 THEN BigintToIsize(n + length) ELSE n
        at(bound, otherwise) ==
            IF bound = NotGiven THEN otherwise ELSE Clamp(wrap(BigintToIsize(bound[1])), low, high)
    IN  [start |-> at(slice.start, IF step > 0 THEN 0 ELSE high),
         stop  |-> at(slice.stop, IF step > 0 THEN length ELSE -1),
         step  |-> step]

(* The positions a slice selects, in its order, counted from 0. *)
NormalizeSlice(slice, length) ==
    LET b == NormalizeSliceBounds(slice, length)
        within(k) == IF b.step > 0 THEN b.start + k * b.step < b.stop ELSE b.start + k * b.step > b.stop
    IN  [k \in 1..Cardinality({k \in 0..length : within(k)}) |-> b.start + (k - 1) * b.step]

(* The position of a subscript, or -1. *)
Position(index, length) ==
    LET i == IF index < 0 THEN length + index ELSE index
    IN  IF FitsIsize(index) /\ 0 <= i /\ i < length THEN i ELSE -1
At(items, position) == items[position + 1]
Pick(items, positions) == [k \in DOMAIN positions |-> At(items, positions[k])]
Without(items, positions) ==
    LET kept == {i \in DOMAIN items : i - 1 \notin {positions[k] : k \in DOMAIN positions}}
    IN  Pick(items, [k \in 1..Cardinality(kept) |->
                        (CHOOSE i \in kept : Cardinality({j \in kept : j <= i}) = k) - 1])
Splice(items, from, to, values) ==
    SubSeq(items, 1, from) \o values \o SubSeq(items, to + 1, Len(items))

ItemGet(read, index) ==
    LET p == Position(index, Len(read))
    IN  IF p < 0 THEN Fails("IndexError") ELSE Result("value", <<At(read, p)>>)
SliceItem(read, slice) == Result("value", Pick(read, NormalizeSlice(slice, Len(read))))

ItemSet(items, index, value) ==
    LET p == Position(index, Len(items))
    IN  IF p < 0 THEN Leaves("IndexError", <<>>, items)
        ELSE Leaves("done", <<>>, [items EXCEPT ![p + 1] = value])
ItemDelete(items, index) ==
    LET p == Position(index, Len(items))
    IN  IF p < 0 THEN Leaves("IndexError", <<>>, items)
        ELSE Leaves("done", <<>>, Splice(items, p, p + 1, <<>>))

(* The bounds come from the length that was read. *)
SliceAssign(items, length, slice, values) ==
    LET b         == NormalizeSliceBounds(slice, length)
        end       == IF b.stop < b.start THEN b.start ELSE b.stop
        positions == NormalizeSlice(slice, length)
        outside   == \E k \in DOMAIN positions : positions[k] >= Len(items)
    IN  IF b.step = 1
        THEN IF end > Len(items) THEN Leaves("panic", <<>>, items)
             ELSE Leaves("done", <<>>, Splice(items, b.start, end, values))
        ELSE IF Len(positions) # Len(values) THEN Leaves("ValueError", <<>>, items)
        ELSE IF outside THEN Leaves("panic", <<>>, items)
        ELSE Leaves("done", <<>>, [i \in DOMAIN items |->
                IF \E k \in DOMAIN positions : positions[k] = i - 1
                THEN values[CHOOSE k \in DOMAIN positions : positions[k] = i - 1] ELSE items[i]])

(* The greatest position is removed first. *)
SliceDelete(items, length, slice) ==
    LET positions == NormalizeSlice(slice, length)
    IN  IF \E k \in DOMAIN positions : positions[k] >= Len(items) THEN Leaves("panic", <<>>, items)
        ELSE Leaves("done", <<>>, Without(items, positions))

ListInsert(items, index, value) ==
    LET raw == BigintToIsize(index)
        p   == IF raw < 0 THEN Clamp(Len(items) + raw, 0, Len(items)) ELSE Clamp(raw, 0, Len(items))
    IN  Leaves("done", <<>>, Splice(items, p, p, <<value>>))

ListPop(items, index) ==
    LET i == IF index < 0 THEN index + Len(items) ELSE index
    IN  IF i < 0 \/ i >= Len(items) THEN Leaves("IndexError", <<>>, items)
        ELSE Leaves("value", <<At(items, i)>>, Splice(items, i, i + 1, <<>>))

(* The first equal item of a copy; its position is removed from the list. *)
ListRemove(items, read, value) ==
    LET equal == {i \in DOMAIN read : read[i] = value}
        first == CHOOSE i \in equal : \A j \in equal : i <= j
    IN  IF equal = {} THEN Leaves("ValueError", <<>>, items)
        ELSE IF first > Len(items) THEN Leaves("panic", <<>>, items)
        ELSE Leaves("done", <<>>, Splice(items, first - 1, first, <<>>))

ListIndex(read, value, start, stop) ==
    LET length  == Len(read)
        wrap(n) == Clamp(IF n < 0 THEN n + length ELSE n, 0, length)
        equal   == {i \in (wrap(start) + 1)..wrap(stop) : read[i] = value}
    IN  IF equal = {} THEN Fails("ValueError")
        ELSE Result("value", <<(CHOOSE i \in equal : \A j \in equal : i <= j) - 1>>)

(* Insertion: an item moves down past those that it is strictly before.  Items *)
(* are compared by their tens only, so that equal items can be told apart.     *)
Key(item) == item \div 10
Before(a, b, reverse) == IF reverse THEN Key(a) > Key(b) ELSE Key(a) < Key(b)
InsertSorted(sorted, item, reverse) ==
    LET after == {i \in DOMAIN sorted : \A j \in i..Len(sorted) : Before(item, sorted[j], reverse)}
    IN  Splice(sorted, Len(sorted) - Cardinality(after), Len(sorted) - Cardinality(after), <<item>>)
Sorted(read, reverse) ==
    FoldLeft(LAMBDA acc, item : InsertSorted(acc, item, reverse), <<>>, read)

(* Ranges: their length, and a slice or the reverse of one as a range again. *)
RangeLength(r) ==
    IF r.step < 0 THEN IF r.start <= r.stop THEN 0 ELSE ((r.start - r.stop - 1) \div (-r.step)) + 1
    ELSE IF r.start >= r.stop THEN 0 ELSE ((r.stop - r.start - 1) \div r.step) + 1
Range_(start, stop, step) == [is |-> "range", start |-> start, stop |-> stop, step |-> step]
RangeItem(r, index) ==
    LET length == RangeLength(r)
        i == IF index < 0 THEN index + length ELSE index
    IN  IF i < 0 \/ i >= length THEN Fails("IndexError") ELSE Result("value", <<r.start + r.step * i>>)

(* No width here: these bounds are big integers. *)
NormalizeSliceBigint(slice, length) ==
    LET step    == IF slice.step \in {NotGiven, NoneGiven} THEN 1 ELSE slice.step[1]
        low     == IF step > 0 THEN 0 ELSE -1
        high    == IF step > 0 THEN length ELSE length - 1
        at(bound, otherwise) ==
            IF bound = NotGiven THEN otherwise
            ELSE Clamp(IF bound[1] < 0 THEN bound[1] + length ELSE bound[1], low, high)
    IN  [start |-> at(slice.start, IF step > 0 THEN 0 ELSE high),
         stop  |-> at(slice.stop, IF step > 0 THEN length ELSE -1),
         step  |-> step]
RangeSlice(r, slice) ==
    LET b == NormalizeSliceBigint(slice, RangeLength(r))
    IN  Range_(r.start + r.step * b.start, r.start + r.step * b.stop, r.step * b.step)
RangeReversed(r) ==
    IF RangeLength(r) = 0 THEN Range_(0, 0, 1)
    ELSE Range_(r.start + r.step * (RangeLength(r) - 1), r.start - r.step, -r.step)
(* Remainders and quotients are truncated towards zero, as in num_bigint. *)
Truncated(a, b) == LET q == (IF a < 0 THEN -a ELSE a) \div (IF b < 0 THEN -b ELSE b)
                   IN  IF (a < 0) = (b < 0) THEN q ELSE -q
RangePosition(r, value) ==
    LET delta == value - r.start
        p     == Truncated(delta, r.step)
    IN  IF RangeLength(r) = 0 \/ delta # p * r.step \/ p < 0 \/ p >= RangeLength(r)
        THEN Fails("ValueError") ELSE Result("value", <<p>>)
RangesEqual(a, b) ==
    /\ RangeLength(a) = RangeLength(b)
    /\ RangeLength(a) = 0
         \/ (a.start = b.start /\ (RangeLength(a) = 1 \/ a.step = b.step))

RangeValues(r) ==
    LET active(v) == IF r.step < 0 THEN v > r.stop ELSE v < r.stop
        span == IF r.stop > r.start THEN r.stop - r.start ELSE r.start - r.stop
    IN  [k \in 1..Cardinality({k \in 0..span : active(r.start + k * r.step)}) |-> r.start + (k - 1) * r.step]

(* Views: a slice of a view shares its cells. *)
ViewValues(v) == [i \in 1..v.length |-> v.cells[v.offset + (i - 1) * v.stride + 1]]
ViewSlice(v, slice) ==
    LET positions == NormalizeSlice(slice, v.length)
    IN  [v EXCEPT !.offset = IF positions = <<>> THEN @ ELSE @ + positions[1] * v.stride,
                  !.length = Len(positions),
                  !.stride = @ * StepOf(slice)]

Values(t) == CASE t.is = "list" -> t.items [] t.is = "range" -> RangeValues(t) [] OTHER -> ViewValues(t)

-----------------------------------------------------------------------------
(* The operations. *)

Op(is, index, slice, values) == [is |-> is, index |-> index, slice |-> slice, values |-> values]
NoSlice == Slice(NotGiven, NotGiven, NotGiven)
New == 90
ListOps ==
    {Op(is, i, NoSlice, <<New>>) : is \in {"get", "set", "delete", "insert", "pop"}, i \in Bounds}
    \cup {Op(is, 0, s, <<>>) : is \in {"get slice", "delete slice"}, s \in Slices}
    \cup {Op("set slice", 0, s, values) : s \in Slices, values \in {<<>>, <<New>>, <<New, New + 1>>}}
    \cup {Op("remove", 0, NoSlice, <<v>>) : v \in {11, New}}
    \cup {Op("index", i, NoSlice, <<11>>) : i \in Bounds}
    \cup {Op("sort", i, NoSlice, <<>>) : i \in {0, 1}}
RangeOps ==
    {Op("get", i, NoSlice, <<>>) : i \in Bounds} \cup {Op("get slice", 0, s, <<>>) : s \in Slices}
    \cup {Op("position", i, NoSlice, <<>>) : i \in Bounds} \cup {Op("reversed", 0, NoSlice, <<>>)}
ViewOps == {Op("get slice", 0, s, <<>>) : s \in Slices}

(* What an operation reads before the code of the program runs: a copy of the *)
(* list, which stands for its length where only that is used.  An assignment  *)
(* to a slice iterates the new values first and reads the length then.        *)
ReadsFirst == {"get", "get slice", "delete slice", "remove", "index", "sort"}

(* step = 0 is noticed before the list is touched. *)
ZeroStep(op) == op.slice.step = Given(0)

Code(op, items, read) ==
    CASE op.is = "get" -> [ItemGet(read, op.index) EXCEPT !.after = items]
      [] ZeroStep(op) -> Leaves("ValueError", <<>>, items)
      [] op.is = "get slice" -> [SliceItem(read, op.slice) EXCEPT !.after = items]
      [] op.is = "set" -> ItemSet(items, op.index, op.values[1])
      [] op.is = "delete" -> ItemDelete(items, op.index)
      [] op.is = "set slice" -> SliceAssign(items, Len(read), op.slice, op.values)
      [] op.is = "delete slice" -> SliceDelete(items, Len(read), op.slice)
      [] op.is = "insert" -> ListInsert(items, op.index, op.values[1])
      [] op.is = "pop" -> ListPop(items, op.index)
      [] op.is = "remove" -> ListRemove(items, read, op.values[1])
      [] op.is = "index" -> [ListIndex(read, op.values[1], op.index, Largest) EXCEPT !.after = items]
      [] OTHER -> Leaves("done", <<>>, Sorted(read, op.index = 1))

CodeOfRange(op, r) ==
    CASE op.is = "get" -> RangeItem(r, op.index)
      [] ZeroStep(op) -> Fails("ValueError")
      [] op.is = "get slice" -> Result("value", RangeValues(RangeSlice(r, op.slice)))
      [] op.is = "position" -> RangePosition(r, op.index)
      [] OTHER -> Result("value", RangeValues(RangeReversed(r)))
CodeOfView(op, v) ==
    IF ZeroStep(op) THEN Fails("ValueError")
    ELSE IF op.slice.step = NoneGiven THEN Fails("TypeError")
    ELSE Result("value", ViewValues(ViewSlice(v, op.slice)))

Init ==
    /\ thing \in {List(items) : items \in Lists} \cup Ranges \cup Views
    /\ frame = <<>> /\ done = <<>>

Idle == frame = <<>> /\ done = <<>>

Begin(op) ==
    /\ frame' = <<[op |-> op, changed |-> FALSE,
                   read |-> IF op.is \in ReadsFirst THEN <<thing.items>> ELSE NotGiven]>>
    /\ UNCHANGED <<thing, done>>

(* The code of the program that the operation runs changes the list, once. *)
Interfere(items) ==
    /\ ~frame[1].changed /\ items # thing.items
    /\ thing' = List(items)
    /\ frame' = <<[frame[1] EXCEPT !.changed = TRUE]>>
    /\ UNCHANGED done

(* The values of a slice assignment have been iterated. *)
ReadLength ==
    /\ frame # <<>> /\ frame[1].op.is = "set slice" /\ frame[1].read = NotGiven
    /\ frame' = <<[frame[1] EXCEPT !.read = <<thing.items>>]>>
    /\ UNCHANGED <<thing, done>>

Finish ==
    /\ frame # <<>>
    /\ frame[1].op.is = "set slice" => frame[1].read # NotGiven
    /\ LET f    == frame[1]
           read == IF f.read = NotGiven THEN thing.items ELSE f.read[1]
           code == Code(f.op, thing.items, read)
       IN  /\ thing' = List(code.after)
           /\ done' = <<[op |-> f.op, on |-> thing, read |-> read, outcome |-> code]>>
    /\ frame' = <<>>

Evaluate(op) ==
    /\ done' = <<[op |-> op, on |-> thing, read |-> <<>>,
                  outcome |-> IF thing.is = "range" THEN CodeOfRange(op, thing) ELSE CodeOfView(op, thing)]>>
    /\ UNCHANGED <<thing, frame>>

Next ==
    \/ Idle /\ thing.is = "list" /\ \E op \in ListOps : Begin(op)
    \/ frame # <<>> /\ \E items \in Changes : Interfere(items)
    \/ ReadLength
    \/ Finish
    \/ Idle /\ thing.is = "range" /\ \E op \in RangeOps : Evaluate(op)
    \/ Idle /\ thing.is = "view" /\ \E op \in ViewOps : Evaluate(op)
Spec == Init /\ [][Next]_vars

-----------------------------------------------------------------------------
(* What the language says: s[i:j:k] has the items whose positions are between *)
(* the ends that i and j give, and a multiple of k away from the first.        *)
LanguageSlice(slice, length) ==
    LET k == IF slice.step \in {NotGiven, NoneGiven} THEN 1 ELSE slice.step[1]
        from(bound, otherwise) ==
            IF bound = NotGiven THEN otherwise ELSE IF bound[1] < 0 THEN bound[1] + length ELSE bound[1]
        i == from(slice.start, IF k > 0 THEN 0 ELSE length - 1)
        j == from(slice.stop, IF k > 0 THEN length ELSE -1)
        first == IF k > 0 THEN Clamp(i, 0, length) ELSE Clamp(i, -1, length - 1)
        chosen == IF k > 0 THEN {x \in 0..(length - 1) : first <= x /\ x < j /\ (x - first) % k = 0}
                  ELSE {x \in 0..(length - 1) : j < x /\ x <= first /\ (first - x) % (-k) = 0}
        rank(x) == Cardinality({y \in chosen : IF k > 0 THEN y <= x ELSE y >= x})
    IN  [n \in 1..Cardinality(chosen) |-> CHOOSE x \in chosen : rank(x) = n]

(* Where a slice of step 1 is spliced in. *)
LanguageStart(slice, length) ==
    IF slice.start = NotGiven THEN 0
    ELSE Clamp(IF slice.start[1] < 0 THEN slice.start[1] + length ELSE slice.start[1], 0, length)

LanguageRead(op, values) ==
    LET length == Len(values)
        i == IF op.index < 0 THEN op.index + length ELSE op.index
        here == {x \in 0..(length - 1) : At(values, x) = op.index}
    IN  CASE op.is = "get" -> IF i \in 0..(length - 1) THEN Result("value", <<At(values, i)>>)
                              ELSE Fails("IndexError")
          [] op.is = "get slice" -> IF ZeroStep(op) THEN Fails("ValueError")
                                    ELSE Result("value", Pick(values, LanguageSlice(op.slice, length)))
          [] op.is = "position" -> IF here = {} THEN Fails("ValueError")
                                   ELSE Result("value", <<CHOOSE x \in here : TRUE>>)
          [] OTHER -> Result("value", Reverse(values))

InOrder(items, reverse) ==
    \A i, j \in DOMAIN items : i < j => ~Before(items[j], items[i], reverse)
KeepsOrder(before, after) ==
    \A key \in {Key(before[i]) : i \in DOMAIN before} :
        SelectSeq(after, LAMBDA x : Key(x) = key) = SelectSeq(before, LAMBDA x : Key(x) = key)

(* What is left of `items` and what is answered. *)
LanguageAllows(op, items, outcome) ==
    LET length == Len(items)
        i == IF op.index < 0 THEN op.index + length ELSE op.index
        inside == i \in 0..(length - 1)
        chosen == LanguageSlice(op.slice, length)
        start == LanguageStart(op.slice, length)
        equal == {x \in 0..(length - 1) : At(items, x) = op.values[1]}
        first == CHOOSE x \in equal : \A y \in equal : x <= y
        place == Clamp(i, 0, length)
        kept(answer) == Leaves(answer, <<>>, items)
    IN  CASE op.is \in {"get", "get slice"} -> outcome = [LanguageRead(op, items) EXCEPT !.after = items]
          [] op.is = "set" -> outcome = IF inside THEN Leaves("done", <<>>, [items EXCEPT ![i + 1] = New])
                                        ELSE kept("IndexError")
          [] op.is = "delete" -> outcome = IF inside THEN Leaves("done", <<>>, Without(items, <<i>>))
                                           ELSE kept("IndexError")
          [] op.is = "pop" -> outcome = IF inside THEN Leaves("value", <<At(items, i)>>, Without(items, <<i>>))
                                        ELSE kept("IndexError")
          [] op.is = "insert" -> outcome = Leaves("done", <<>>, Splice(items, place, place, <<New>>))
          [] op.is = "remove" -> outcome = IF equal = {} THEN kept("ValueError")
                                           ELSE Leaves("done", <<>>, Without(items, <<first>>))
          [] op.is = "index" -> LET there == {x \in equal : x >= place}
                                IN  outcome = IF there = {} THEN kept("ValueError")
                                              ELSE Leaves("value", <<CHOOSE x \in there : \A y \in there : x <= y>>, items)
          [] op.is = "sort" -> /\ outcome.answer = "done" /\ Len(outcome.after) = length
                               /\ InOrder(outcome.after, op.index = 1) /\ KeepsOrder(items, outcome.after)
          [] ZeroStep(op) -> outcome = kept("ValueError")
          [] op.is = "delete slice" -> outcome = Leaves("done", <<>>, Without(items, chosen))
          [] StepOf(op.slice) = 1 -> outcome = Leaves("done", <<>>,
                                        Splice(items, start, start + Len(chosen), op.values))
          [] Len(chosen) # Len(op.values) -> outcome = kept("ValueError")
          [] OTHER -> outcome = Leaves("done", <<>>, [x \in DOMAIN items |->
                                   IF \E n \in DOMAIN chosen : chosen[n] = x - 1
                                   THEN op.values[CHOOSE n \in DOMAIN chosen : chosen[n] = x - 1] ELSE items[x]])

(* Where the code is known to differ: the list changed after it was read. *)
Known(d) ==
    LET changed == d.on.is = "list" /\ d.read # d.on.items
    IN  \/ "snapshot" \notin Exposed /\ changed /\ d.op.is \in {"get", "get slice", "index", "sort", "remove"}
        \/ "stale" \notin Exposed /\ changed /\ d.op.is \in {"set slice", "delete slice"}
        \/ "none_step" \notin Exposed /\ d.on.is = "view" /\ d.op.slice.step = NoneGiven

(* An operation on a list does to the list that is there when it finishes what the
   language says of its bounds, however these compare with the length and with the
   native width, and whatever the program did to the list while they were computed;
   a slice, an item, a search or the reverse of a range or a view, which are made of
   bounds and strides, has the values that the same operation on a list has, and two
   ranges are equal when their values are.                                            *)
SubscriptsFollowLanguage ==
    /\ done # <<>> /\ ~Known(done[1]) =>
          LET d == done[1]
          IN  IF d.on.is = "list" THEN LanguageAllows(d.op, d.on.items, d.outcome)
              ELSE d.outcome = LanguageRead(d.op, Values(d.on))
    /\ thing.is = "range" =>
          \A r \in Ranges : RangesEqual(thing, r) <=> RangeValues(thing) = RangeValues(r)
==============================================================================
