------------------------------ MODULE Operators ------------------------------
(***************************************************************************)
(* Which functions of the program an operator asks, in which order, and    *)
(* what becomes of it (generic_binary, generic_inplace, generic_compare    *)
(* and their kin in context.rs; binary, inplace, compare, contains,        *)
(* length, truthy and hash in operations.rs; divmod and pow in call.rs).   *)
(*                                                                         *)
(* An operand is of a native sort or of one of the classes Left and Right. *)
(* The methods of an operator have the roles "direct", "reflected" and     *)
(* "inplace"; == and != use "eq" and "ne".  A case fixes the classes, the  *)
(* operands, and what every method answers; one step evaluates it.         *)
(***************************************************************************)
EXTENDS Integers, Sequences, FiniteSets

CONSTANTS
    Hierarchies,   \* method resolution orders of Left and Right
    Natives,       \* the native sorts that take part
    Exposed        \* divergences that are explored although they are known:
                   \*   "same"       the reflected method of an operand of the same
                   \*                class is asked too
                   \*   "inherited"  a subclass on the right goes first although
                   \*                it shares the method with the left class
                   \*   "shared"     a subclass on the right does not go first in a
                   \*                comparison whose method it has from the left class
                   \*   "negated"    != asks __eq__ of an operand that has __ne__
                   \*   "repeat"     * refuses an object beside a sequence unasked
                   \*   "mixed"      bytes and bytearray do not concatenate
                   \*   "extend"     += on a list takes lists only
                   \*   "sets"       -=, &= and |= on a set refuse what the reflected method
                   \*                of the other operand has answered
                   \*   "view"       == does not ask an object beside a memoryview
                   \*   "length"     len() accepts a negative length
                   \*   "iteration"  `in` goes on after __iter__ has failed

Classes == {"Base", "Left", "Right"}
Numbers == {"int", "float", "complex"}
BytesLike == {"bytes", "bytearray"}
Sequential == {"list", "tuple"}
SetLike == {"set", "frozenset"}
NativeSorts == Numbers \cup BytesLike \cup Sequential \cup SetLike
           \cup {"dict", "str", "memoryview", "range", "slice"}
Symbols == {"add", "sub", "mul", "floordiv", "mod", "truediv", "pow", "lshift", "and", "or", "matmul"}

OperatorsAssumption ==
    /\ Hierarchies \subseteq [{"Left", "Right"} -> Seq(Classes)]
    /\ Natives \subseteq NativeSorts

VARIABLES
    mro, defines,   \* the classes: their orders, and the methods each defines
    left, right,    \* the operands: a class or a native sort
    symbol,         \* the operator, where it matters to native operands
    answers,        \* what a method of an operand answers
    op,             \* the operation
    outcome         \* what came of it: the calls made and the result

vars == <<mro, defines, left, right, symbol, answers, op, outcome>>

None == "none"
NotImplemented == "NotImplemented"
Operand(side) == IF side = "left" THEN left ELSE right
Native(sort) == sort \in NativeSorts

(* The class that gives an operand a method (class_attribute_with_owner). *)
Lookup(type, method) ==
    LET order == IF Native(type) THEN <<>> ELSE mro[type]
        holders == {i \in DOMAIN order : method \in defines[order[i]]}
    IN  IF holders = {} THEN None ELSE order[CHOOSE i \in holders : \A j \in holders : i <= j]
Has(side, method) == Lookup(Operand(side), method) # None
IsSubclass(type, of) == type = of \/ (~Native(type) /\ \E i \in DOMAIN mro[type] : mro[type][i] = of)

Result(calls, result) == [calls |-> calls, result |-> result]
Answer(call) == answers[call]
After(first, then) == Result(first.calls \o then.calls, then.result)

(* Asks the candidates that exist until one does not answer NotImplemented. *)
AskInTurn(candidates, otherwise) ==
    LET there   == SelectSeq(candidates, LAMBDA c : Has(c[1], c[2]))
        decided == {i \in DOMAIN there : Answer(there[i]) # NotImplemented}
        first   == CHOOSE i \in decided : \A j \in decided : i <= j
    IN  IF decided = {} THEN Result(there, otherwise)
        ELSE Result(SubSeq(there, 1, first), Answer(there[first]))

-----------------------------------------------------------------------------
(* What the code does. *)

ReflectedFirst(reflected) ==
    /\ left # right /\ IsSubclass(right, left)
    /\ Lookup(right, reflected) \notin {None, left}

(* A version that never lets the right operand go first. *)
CandidatesLeftFirst(direct, reflected) == << <<"left", direct>>, <<"right", reflected>> >>

(* The list of methods that were invoked holds bound methods, which are new    *)
(* objects each time: it never keeps a candidate back.                         *)
Candidates(direct, reflected) ==
    LET own   == <<"left", direct>>
        other == <<"right", reflected>>
    IN  IF ReflectedFirst(reflected) THEN <<other, own>> ELSE <<own, other>>

GenericBinary == AskInTurn(Candidates("direct", "reflected"), "unsupported")
GenericDivmod == AskInTurn(Candidates("direct", "reflected"), "unsupported")
GenericTernaryPower == AskInTurn(<< <<"left", "direct">> >>, "unsupported")
GenericUnary ==
    IF Has("left", "direct") THEN Result(<< <<"left", "direct">> >>, Answer(<<"left", "direct">>))
    ELSE Result(<<>>, "unsupported")

Both(sorts) == left \in sorts /\ right \in sorts
Either(sorts) == left \in sorts \/ right \in sorts

(* The native cases of binary_rooted, in its order: whether the operation is    *)
(* carried out, refused at once, or left to the methods.                        *)
NativeBinary ==
    IF "complex" \in {left, right} /\ Both(Numbers)
    THEN IF symbol \in {"add", "sub", "mul", "truediv", "pow"} THEN "native" ELSE "generic"
    ELSE IF symbol = "or" /\ Both({"dict"}) THEN "native"
    ELSE IF symbol \in {"sub", "and", "or"} /\ Both(SetLike) THEN "native"
    ELSE IF symbol = "add" /\ Both({"str"}) THEN "native"
    ELSE IF symbol = "add" /\ (Both(BytesLike) \/ Both(Sequential))
    THEN IF left = right THEN "native" ELSE "unsupported"
    ELSE IF symbol = "mul" /\ Either(BytesLike \cup Sequential)
    THEN IF "int" \in {left, right} THEN "native" ELSE "unsupported"
    ELSE IF "float" \in {left, right} /\ Both(Numbers)
    THEN IF symbol \in {"lshift", "and", "or", "matmul"} THEN "generic" ELSE "native"
    ELSE IF Both({"int"}) /\ symbol # "matmul" THEN "native"
    ELSE "generic"

Binary == IF NativeBinary = "generic" THEN GenericBinary ELSE Result(<<>>, NativeBinary)

(* divmod of numbers goes to // and %, pow of three integers is carried out. *)
Divmod == IF Both(Numbers \ {"complex"}) THEN Result(<<>>, "native") ELSE GenericDivmod
Power == IF Both({"int"}) THEN Result(<<>>, "native") ELSE GenericTernaryPower

GenericInplace ==
    IF Has("left", "inplace") THEN Result(<< <<"left", "inplace">> >>, Answer(<<"left", "inplace">>))
    ELSE Result(<<>>, NotImplemented)

\* What a dictionary is updated from: another one, or pairs.
Pairs(sort) == sort \in Sequential \cup SetLike \cup {"dict"}

(* A set takes the contents of the result of the operation; an answer that is   *)
(* no set is an internal error.                                                 *)
InplaceSet == IF Binary.result = "value" THEN Result(Binary.calls, "internal error") ELSE Binary

Inplace ==
    IF left = "list" /\ symbol = "add" /\ right = "list" THEN Result(<<>>, "native")
    ELSE IF left = "list" /\ symbol = "mul"
    THEN Result(<<>>, IF right = "int" THEN "native" ELSE "unsupported")
    ELSE IF left = "dict" /\ symbol = "or"
    THEN Result(<<>>, IF Pairs(right) THEN "native" ELSE "unsupported")
    ELSE IF left = "set" /\ symbol \in {"sub", "and", "or"} THEN InplaceSet
    ELSE LET own == GenericInplace
         IN  IF own.result # NotImplemented THEN own ELSE After(own, Binary)

(* == is not asked for again after != : each is tried on both operands. *)
GenericEqual == AskInTurn(Candidates("eq", "eq"), "identity")
Opposite(result) == CASE result = "true" -> "false" [] result = "false" -> "true"
                      [] result = "value" -> "not value" [] result = "identity" -> "not identity"
                      [] OTHER -> result
GenericCompare ==
    IF op = "eq" THEN GenericEqual
    ELSE IF op = "ne"
    THEN LET asked == AskInTurn(Candidates("ne", "ne"), None)
         IN  IF asked.result # None THEN asked
             ELSE After(asked, Result(GenericEqual.calls, Opposite(GenericEqual.result)))
    ELSE AskInTurn(Candidates("direct", "reflected"), "unsupported")

Equality == op \in {"eq", "ne"}
NativeCompare ==
    IF Either({"complex"}) THEN IF Equality /\ Both(Numbers) THEN "native" ELSE "generic"
    ELSE IF Either({"float"}) THEN IF Both(Numbers) THEN "native" ELSE "generic"
    ELSE IF Either({"memoryview"}) THEN IF Equality THEN "native" ELSE "generic"
    ELSE IF \/ Both(BytesLike) \/ Both(SetLike) \/ Both({"slice"})
            \/ Both({"int"}) \/ Both({"str"}) \/ (Both(Sequential) /\ left = right)
    THEN "native"
    ELSE IF Both({"dict"}) \/ Both({"range"}) \/ Both(Sequential)
    THEN IF Equality THEN "native" ELSE "generic"
    ELSE "generic"
Compare == IF NativeCompare = "generic" THEN GenericCompare ELSE Result(<<>>, NativeCompare)

(* __bool__, then __len__, then true. *)
Truthy ==
    LET bool == <<"left", "bool">>
        len  == <<"left", "len">>
    IN  IF Has("left", "bool")
        THEN Result(<<bool>>, IF Answer(bool) \in {"true", "false", "error"} THEN Answer(bool) ELSE "unsupported")
        ELSE IF Has("left", "len")
        THEN Result(<<len>>, CASE Answer(len) = "positive" -> "true" [] Answer(len) = "zero" -> "false"
                               [] Answer(len) = "error" -> "error" [] OTHER -> "unsupported")
        ELSE Result(<<>>, "true")

Length ==
    LET len == <<"left", "len">>
    IN  IF ~Has("left", "len") THEN Result(<<>>, "unsupported")
        ELSE Result(<<len>>, IF Answer(len) \in {"positive", "zero", "negative", "error"}
                             THEN Answer(len) ELSE "unsupported")

(* The container is the left operand.  One item is got, which is or is not it.  *)
ByIndex(calls) ==
    LET item == <<"left", "getitem">>
    IN  IF ~Has("left", "getitem") THEN Result(calls, "unsupported")
        ELSE Result(Append(calls, item),
                    CASE Answer(item) = "item" -> "true" [] Answer(item) = "IndexError" -> "false"
                      [] OTHER -> "error")
Contains ==
    LET contains == <<"left", "contains">>
        iter     == <<"left", "iter">>
    IN  IF Has("left", "contains") THEN Result(<<contains>>, Answer(contains))
        ELSE IF Has("left", "iter")
        THEN IF Answer(iter) = "iterator" THEN Result(<<iter>>, "true") ELSE ByIndex(<<iter>>)
        ELSE ByIndex(<<>>)

(* The method None makes a class unhashable; without one the identity is hashed. *)
Hashing ==
    LET hash == <<"left", "hash">>
    IN  IF ~Has("left", "hash") THEN Result(<<>>, "identity")
        ELSE IF Answer(hash) = "None" THEN Result(<<>>, "unsupported")
        ELSE Result(<<hash>>, IF Answer(hash) = "other" THEN "unsupported" ELSE Answer(hash))

Operation ==
    CASE op = "binary" -> Binary
      [] op = "inplace" -> Inplace
      [] op = "divmod" -> Divmod
      [] op = "power" -> Power
      [] op = "unary" -> GenericUnary
      [] op \in {"eq", "ne", "lt"} -> Compare
      [] op = "truth" -> Truthy
      [] op = "len" -> Length
      [] op = "in" -> Contains
      [] OTHER -> Hashing

-----------------------------------------------------------------------------
Three == {"value", NotImplemented, "error"}
AnswersOf(method) ==
    CASE method = "bool" -> {"true", "false", "other", "error"}
      [] method = "len" -> {"positive", "zero", "negative", "other", "error"}
      [] method = "contains" -> {"true", "false", "error"}
      [] method = "iter" -> {"iterator", "other", "error"}
      [] method = "getitem" -> {"item", "IndexError", "error"}
      [] method = "hash" -> {"value", "None", "other", "error"}
      [] OTHER -> Three

(* The methods an operation may ask for: of the left and of the right operand. *)
Asked ==
    CASE op \in {"binary", "divmod", "lt"} -> {<<"left", "direct">>, <<"right", "reflected">>}
      [] op \in {"power", "unary"} -> {<<"left", "direct">>}
      [] op = "inplace" -> {<<"left", "inplace">>, <<"left", "direct">>, <<"right", "reflected">>}
      [] op = "eq" -> {<<"left", "eq">>, <<"right", "eq">>}
      [] op = "ne" -> {"left", "right"} \X {"eq", "ne"}
      [] op = "truth" -> {<<"left", "bool">>, <<"left", "len">>}
      [] op = "len" -> {<<"left", "len">>}
      [] op = "in" -> {<<"left", "contains">>, <<"left", "iter">>, <<"left", "getitem">>}
      [] OTHER -> {<<"left", "hash">>}
Methods == {call[2] : call \in Asked}
AllAnswers == UNION {AnswersOf(method) : method \in Methods}
Binaries == {"binary", "inplace", "divmod", "power", "eq", "ne", "lt"}

Init ==
    /\ op \in Binaries \cup {"unary", "truth", "len", "in", "hash"}
    /\ mro \in Hierarchies
    /\ defines \in [Classes -> SUBSET Methods]
    /\ defines["Base"] \cap {"inplace", "bool", "len", "iter", "hash"} = {}
    /\ left \in {"Left"} \cup (IF op \in Binaries THEN Natives ELSE {})
    /\ right \in (IF op \in Binaries THEN {"Left", "Right"} \cup Natives ELSE {"Left"})
    /\ symbol \in (IF op \in {"binary", "inplace"} /\ Either(Natives) THEN Symbols ELSE {"add"})
    \* with a native operand one class is enough
    /\ Either(Natives) => defines["Right"] = {} /\ defines["Base"] = {} /\ right # "Right"
                          /\ mro = CHOOSE h \in Hierarchies : TRUE
    /\ answers \in [Asked -> AllAnswers]
    /\ \A call \in Asked :
          /\ answers[call] \in AnswersOf(call[2])
          /\ ~Has(call[1], call[2]) => answers[call] = CHOOSE a \in AnswersOf(call[2]) : TRUE
    /\ outcome = Result(<<>>, None)

Evaluate ==
    /\ outcome.result = None
    /\ outcome' = Operation
    /\ UNCHANGED <<mro, defines, left, right, symbol, answers, op>>

Next == Evaluate
Spec == Init /\ [][Next]_vars

-----------------------------------------------------------------------------
(* What the language says.  A subclass on the right goes first if it has the   *)
(* reflected method and it is not the one the left class has; one class is     *)
(* asked once, by its direct method, except in comparisons.                    *)
Overloads(reflected) ==
    /\ Lookup(right, reflected) # None
    /\ Lookup(right, reflected) # Lookup(left, reflected)
Below == left # right /\ IsSubclass(right, left)

LanguageCandidates(direct, reflected, comparing) ==
    LET own   == <<"left", direct>>
        other == <<"right", reflected>>
    IN  IF left = right /\ ~comparing THEN <<own>>
        ELSE IF Below /\ (comparing \/ Overloads(reflected)) THEN <<other, own>>
        ELSE <<own, other>>

Commutes(a, b, sorts) == (a \in sorts /\ b = "int") \/ (b \in sorts /\ a = "int")
Supported ==
    \/ Both(Numbers) /\ symbol \in {"add", "sub", "mul", "truediv", "pow"}
    \/ Both(Numbers \ {"complex"}) /\ symbol \in {"floordiv", "mod"}
    \/ Both({"int"}) /\ symbol \in {"lshift", "and", "or"}
    \/ symbol = "add" /\ (Both(BytesLike) \/ Both({"str"}) \/ (Both(Sequential) /\ left = right))
    \/ symbol = "mul" /\ Commutes(left, right, BytesLike \cup Sequential)
    \/ symbol = "or" /\ Both({"dict"})
    \/ symbol \in {"sub", "and", "or"} /\ Both(SetLike)
Iterable(sort) == sort \in BytesLike \cup Sequential \cup SetLike \cup {"dict", "str", "memoryview", "range"}

LanguageBinary ==
    IF Both(NativeSorts) THEN Result(<<>>, IF Supported THEN "native" ELSE "unsupported")
    ELSE AskInTurn(LanguageCandidates("direct", "reflected", FALSE), "unsupported")

LanguageInplace ==
    LET own == <<"left", "inplace">>
    IN  IF \/ Both(NativeSorts) /\ Supported
           \/ left = "list" /\ symbol = "add" /\ Iterable(right)
        THEN Result(<<>>, "native")
        \* __ior__ of a dictionary never answers NotImplemented
        ELSE IF left = "dict" /\ symbol = "or"
        THEN Result(<<>>, IF Pairs(right) THEN "native" ELSE "unsupported")
        ELSE IF ~Has("left", "inplace") THEN LanguageBinary
        ELSE IF Answer(own) = NotImplemented THEN After(Result(<<own>>, None), LanguageBinary)
        ELSE Result(<<own>>, Answer(own))

(* A class without __ne__ has one that asks its __eq__ and gives the opposite. *)
EqualsFor(side) == IF Has(side, "ne") THEN <<side, "ne">> ELSE <<side, "eq">>
LanguageNotEqual ==
    LET turns   == IF Below THEN <<EqualsFor("right"), EqualsFor("left")>>
                   ELSE <<EqualsFor("left"), EqualsFor("right")>>
        asked   == AskInTurn(turns, "not identity")
        last    == asked.calls[Len(asked.calls)]
    IN  IF asked.result = "not identity" \/ last[2] = "ne" THEN asked
        ELSE Result(asked.calls, Opposite(asked.result))

Ordered == \/ Both(Numbers \ {"complex"}) \/ Both(BytesLike) \/ Both(SetLike)
           \/ left = right /\ left \in Sequential \cup {"str", "slice"}
LanguageCompare ==
    IF Both(NativeSorts)
    THEN Result(<<>>, IF op # "lt" \/ Ordered THEN "native" ELSE "unsupported")
    ELSE CASE op = "eq" -> AskInTurn(LanguageCandidates("eq", "eq", TRUE), "identity")
           [] op = "ne" -> LanguageNotEqual
           [] OTHER -> AskInTurn(LanguageCandidates("direct", "reflected", TRUE), "unsupported")

(* pow() of three does not try a reflected method, and a unary operator hands   *)
(* on whatever its method answers.                                              *)
Direct == <<"left", "direct">>
LanguagePower ==
    CASE Both({"int"}) -> Result(<<>>, "native")
      [] ~Both({"int"}) /\ ~Has("left", "direct") -> Result(<<>>, "unsupported")
      [] OTHER -> Result(<<Direct>>, IF Answer(Direct) = NotImplemented THEN "unsupported" ELSE Answer(Direct))
LanguageUnary ==
    Result(SelectSeq(<<Direct>>, LAMBDA c : Has(c[1], c[2])),
           IF Has("left", "direct") THEN Answer(Direct) ELSE "unsupported")

(* Of the methods in the order of preference the first that there is decides.   *)
FirstOf(methods, means, otherwise) ==
    LET there == SelectSeq(methods, LAMBDA m : Has("left", m))
        call  == <<"left", Head(there)>>
    IN  IF there = <<>> THEN Result(<<>>, otherwise)
        ELSE Result(<<call>>, CASE Answer(call) = "error" -> "error"
                                [] Answer(call) \in DOMAIN means -> means[Answer(call)]
                                [] OTHER -> "unsupported")

LanguageTruth ==
    FirstOf(<<"bool", "len">>,
            [true |-> "true", false |-> "false", positive |-> "true", zero |-> "false"], "true")
LanguageLength == FirstOf(<<"len">>, [positive |-> "positive", zero |-> "zero"], "unsupported")
LanguageContains ==
    FirstOf(<<"contains", "iter", "getitem">>,
            [true |-> "true", false |-> "false", iterator |-> "true", item |-> "true",
             IndexError |-> "false"], "unsupported")
LanguageHash == FirstOf(<<"hash">>, [value |-> "value"], "identity")
\* The name None in place of __hash__ is looked at, not called.
Uncalled(result) == IF Has("left", "hash") /\ Answer(<<"left", "hash">>) = "None"
                    THEN Result(<<>>, result.result) ELSE result

Language ==
    CASE op = "binary" -> LanguageBinary
      [] op = "inplace" -> LanguageInplace
      [] op = "divmod" ->
            IF Both(NativeSorts) THEN Result(<<>>, IF Both(Numbers \ {"complex"}) THEN "native" ELSE "unsupported")
            ELSE LanguageBinary
      [] op \in {"eq", "ne", "lt"} -> LanguageCompare
      [] op = "len" -> LanguageLength
      [] op = "in" -> LanguageContains
      [] op = "power" -> LanguagePower
      [] op = "unary" -> LanguageUnary
      [] op = "truth" -> LanguageTruth
      [] OTHER -> Uncalled(LanguageHash)

(* Where the code is known to differ. *)
Known ==
    LET hides(name, condition) == name \notin Exposed /\ condition
        \* the right class has the method from the left one or above it
        common(method) == Lookup(right, method) # None /\ Lookup(right, method) = Lookup(left, method)
        reflected == IF op = "eq" THEN {"eq"} ELSE IF op = "ne" THEN {"ne", "eq"} ELSE {"reflected"}
        beside(sorts) == Either(sorts) /\ ~Both(NativeSorts)
    IN  \/ hides("same", op \in {"binary", "inplace", "divmod"} /\ left = right /\ ~Native(left))
        \/ hides("inherited", op \in {"binary", "inplace", "divmod"} /\ Below /\ common("reflected"))
        \/ hides("shared", op \in {"eq", "ne", "lt"} /\ Below /\ \E method \in reflected : common(method))
        \/ hides("negated", op = "ne" /\ (Has("left", "ne") \/ Has("right", "ne")))
        \/ hides("repeat", symbol = "mul" /\ beside(BytesLike \cup Sequential))
        \/ hides("mixed", symbol = "add" /\ Both(BytesLike) /\ left # right)
        \/ hides("extend", op = "inplace" /\ left = "list" /\ symbol = "add" /\ right # "list")
        \/ hides("sets", op = "inplace" /\ left = "set" /\ symbol \in {"sub", "and", "or"}
                          /\ Binary.result = "value")
        \/ hides("view", op \in {"eq", "ne"} /\ beside({"memoryview"}))
        \/ hides("length", op = "len" /\ Length.result = "negative")
        \/ hides("iteration", op = "in" /\ Has("left", "iter") /\ ~Has("left", "contains"))

(* Between native operands the identity decides == only if nothing else does. *)
Normal(result) == IF Both(NativeSorts) /\ result \in {"identity", "not identity"} THEN "native" ELSE result

(* An operator asks the methods of its operands that the data model names, in the
   data model's order and each at most as often, until one does not answer
   NotImplemented, and ends in that answer, in a native result or in a refusal.    *)
OperatorsFollowDataModel ==
    outcome.result # None /\ ~Known =>
       /\ outcome.calls = Language.calls
       /\ Normal(outcome.result) = Normal(Language.result)
==============================================================================
