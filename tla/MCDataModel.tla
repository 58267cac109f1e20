----------------------------- MODULE MCDataModel ------------------------------
(***************************************************************************)
(* One instance of the modules that compare what the runtime does with the *)
(* data model of the language (attributes have MCAttributes): a behaviour  *)
(* belongs to one topic and leaves the variables of the other modules      *)
(* alone.                                                                  *)
(***************************************************************************)
EXTENDS Integers, Sequences, FiniteSets

CONSTANTS
    Exposed,                                             \* the divergences to explore
    Start, MaxClasses, MaxBases, Slots, MaxDepth,        \* of ClassHierarchy
    MaxAssignments, Reentrant, SlotReuse,
    Hierarchies, Natives,                                \* of Operators
    Codes, MaxDefaults, Argued, Through,                 \* of Calls
    Lists, Ranges, Views, Bounds, Steps, Changes, Largest \* of Indexing

VARIABLES
    topic,                                                       \* the module that is checked
    bases, order, own, slots, making,                            \* of ClassHierarchy
    assigned, repeated, overtaken,
    mro, defines, left, right, symbol, answers, op, outcome,     \* of Operators
    function, called,                                            \* of Calls
    thing, frame, done                                           \* of Indexing

classes == <<bases, order, own, slots, making, assigned, repeated, overtaken>>
operators == <<mro, defines, left, right, symbol, answers, op, outcome>>
calls == <<function, called>>
indexing == <<thing, frame, done>>
NoClass ==
    /\ bases = <<>> /\ order = <<>> /\ own = <<>> /\ slots = <<>>
    /\ making = <<>> /\ assigned = <<>> /\ repeated = <<>> /\ overtaken = <<>>
NoOperators ==
    /\ mro = <<>> /\ defines = <<>> /\ left = <<>> /\ right = <<>>
    /\ symbol = <<>> /\ answers = <<>> /\ op = <<>> /\ outcome = <<>>
NoCalls == function = <<>> /\ called = <<>>
NoIndexing == thing = <<>> /\ frame = <<>> /\ done = <<>>

-----------------------------------------------------------------------------
(* Classes: every hierarchy is made from `object`. *)
NoClasses == <<>>
H == INSTANCE ClassHierarchy WITH mro <- order

(* Operators: Right is unrelated to Left, below it, or shares its base. *)
Orders ==
    {h \in [Left : {<<"Left">>, <<"Left", "Base">>},
            Right : {<<"Right">>, <<"Right", "Base">>, <<"Right", "Left">>, <<"Right", "Left", "Base">>}] :
        ("Left" \in {h.Right[i] : i \in DOMAIN h.Right}) => h.Right = <<"Right">> \o h.Left}
O == INSTANCE Operators

(* Calls: functions with up to two parameters that take positions and one of each *)
(* other kind, classes of every layout, and calls with up to three parts.         *)
If(condition, name, kind) == IF condition THEN <<[name |-> name, kind |-> kind]>> ELSE <<>>
FunctionCodes ==
    {[parameters |-> If(p, "p", "posonly") \o If(n > 0, "a", "either") \o If(n > 1, "b", "either")
                       \o If(v, "args", "varargs") \o If(k, "k", "kwonly") \o If(w, "kw", "varkw"),
      kind |-> "normal", free |-> 0] : p, v, k, w \in BOOLEAN, n \in 0..2}
    \cup {[parameters |-> If(n > 0, "a", "either") \o If(k, "k", "kwonly"),
           kind |-> kind, free |-> free] :
        k \in BOOLEAN, n \in 0..1, kind \in {"normal", "coroutine"}, free \in 0..1}

Positional == [is |-> "positional"]
Starred(n) == [is |-> "starred", length |-> n]
Keyword(n) == [is |-> "keyword", name |-> n]
Unpack(names) == [is |-> "unpack", names |-> names]
Part == {Positional, Starred(0), Starred(2), Keyword("p"), Keyword("a"), Keyword("b"), Keyword("k"),
         Keyword("args"), Unpack(<<>>), Unpack(<<"a", "zz">>), Unpack(<<"k", "a">>),
         Unpack(<<"not a string">>)}
Short == UNION {[1..n -> Part] : n \in 0..2}
NoKeyword == {s \in Short : \A i \in DOMAIN s : s[i].is \in {"positional", "starred"}}
ArgumentLists == Short \cup {s \o <<Positional>> : s \in NoKeyword} \cup {<<Positional>> \o s : s \in Short}

Class(layout, init, new, name) == [layout |-> layout, init |-> init, new |-> new, name |-> name]
Layouts == {"object", "list", "tuple", "exception", "type", "abstract"}
CallableClasses ==
    {Class(l, i, "none", "its own") : l \in Layouts, i \in {"none", "passes", "value", "fails"}}
    \cup {Class("type", i, n, "its own") :
            i \in {"none", "passes", "value", "fails"}, n \in {"own", "foreign", "fails"}}
    \cup {Class("object", "passes", "own", "its own"), Class("object", "passes", "none", "built-in")}
Wrap(names) == [i \in DOMAIN names |-> [is |-> names[i]]]
Wrapped ==
    {Wrap(<<"bound", "function">>), Wrap(<<"bound", "bound", "function">>),
     Wrap(<<"proxy", "instance", "function">>), Wrap(<<"instance", "bound", "function">>),
     Wrap(<<"reference">>), Wrap(<<"dead proxy">>), Wrap(<<"object">>), Wrap(<<"static">>)}
Constructed == {Wrap(w) \o <<c>> : w \in {<<>>, <<"bound">>}, c \in CallableClasses}
Few == {<<>>, <<Keyword("a")>>, <<Starred(2)>>, <<Positional, Positional, Positional>>}
Some == Few \cup {<<Starred(2), Keyword("k")>>, <<Positional>>, <<Positional, Keyword("a")>>,
                  <<Keyword("k"), Unpack(<<"k", "a">>)>>}
Routes == (Wrapped \X Some) \cup (Constructed \X Few)
F == INSTANCE Calls

(* Indexing: lists of up to four items, with items that compare equal; bounds at, *)
(* in and beyond the ends and beyond the native width.                            *)
View(offset, length, stride) ==
    [is |-> "view", cells |-> <<1, 2, 3, 4, 5>>, offset |-> offset, length |-> length, stride |-> stride]
SomeLists == {<<>>, <<11>>, <<12, 11>>, <<21, 11, 12>>, <<11, 22, 21, 12>>}
OtherLists == {<<>>, <<22>>, <<12, 11, 13, 21>>}
SomeRanges == [is : {"range"}, start : {-2, 0, 1}, stop : {-3, 0, 2, 4}, step : {-2, -1, 1, 3}]
SomeViews == {View(0, 5, 1), View(1, 2, 2), View(4, 3, -1)}
SomeBounds == {-12, -4, -1, 0, 1, 3, 12}
SomeSteps == {-12, -2, -1, 0, 1, 2}
I == INSTANCE Indexing

ASSUME ConstantsFit ==
    H!HierarchyAssumption /\ O!OperatorsAssumption /\ F!CallsAssumption /\ I!IndexingAssumption

-----------------------------------------------------------------------------
Init ==
    \/ /\ topic = "classes" /\ H!Init
       /\ NoOperators /\ NoCalls /\ NoIndexing
    \/ /\ topic = "operators" /\ O!Init
       /\ NoClass /\ NoCalls /\ NoIndexing
    \/ /\ topic = "calls" /\ F!Init
       /\ NoClass /\ NoOperators /\ NoIndexing
    \/ /\ topic = "indexing" /\ I!Init
       /\ NoClass /\ NoOperators /\ NoCalls

Next ==
    \/ topic = "classes" /\ H!Next /\ UNCHANGED <<topic, operators, calls, indexing>>
    \/ topic = "operators" /\ O!Next /\ UNCHANGED <<topic, classes, calls, indexing>>
    \/ topic = "calls" /\ F!Next /\ UNCHANGED <<topic, classes, operators, indexing>>
    \/ topic = "indexing" /\ I!Next /\ UNCHANGED <<topic, classes, operators, calls>>

Spec == Init /\ [][Next]_<<topic, classes, operators, calls, indexing>>

(* The orders of the classes are the C3 linearizations of their bases. *)
MroIsC3Undisturbed == topic = "classes" => H!MroIsC3Undisturbed
(* Bases are refused only when their orders disagree. *)
RefusedOnlyOnConflict == topic = "classes" => H!RefusedOnlyOnConflict
(* Operators ask the methods of their operands in the language's order. *)
OperatorsFollowDataModel == topic = "operators" => O!OperatorsFollowDataModel
(* Calls bind what the language binds, or are refused (bind, invoke). *)
CallsBindLikePython == topic = "calls" => F!CallsBindLikePython
(* Subscripts, slices and the methods of lists and ranges have the language's result. *)
SubscriptsFollowLanguage == topic = "indexing" => I!SubscriptsFollowLanguage
==============================================================================
