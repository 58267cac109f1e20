-------------------------------- MODULE Calls ---------------------------------
(***************************************************************************)
(* Calls: the arguments are prepared part by part (call_argument_add), the *)
(* callable is taken apart until a function or a class is left (invoke),   *)
(* and the arguments are bound to its parameters (bind), or passed on      *)
(* unchecked when the metadata cached with the function says that nothing  *)
(* needs binding (exact_positional_target, invoke_ready_coroutine_rooted). *)
(*                                                                         *)
(* One function is watched while the program replaces its __code__,        *)
(* __defaults__ and __kwdefaults__.  A value is named by where it comes    *)
(* from.                                                                   *)
(***************************************************************************)
EXTENDS Integers, Sequences, FiniteSets, SequencesExt

CONSTANTS
    Codes,      \* code objects: parameters, kind, number of free variables
    MaxDefaults,\* bound on the length of __defaults__
    Argued,     \* the calls that are tried: sequences of argument parts
    Through,    \* the calls that are tried of what wraps the function, or of a
                \* class: pairs of a callable and argument parts
    Exposed     \* divergences that are explored although they are known:
                \*   "named"      a class with the name of a built-in one is taken for it
                \*   "new"        __new__ of a class is not called
                \*   "metaclass"  a metaclass called without its three arguments
                \*                gives an ordinary instance
                \*   "result"     what the __init__ of a metaclass returns is not looked at
                \*   "static"     a static method is not callable by itself

ParameterKinds == {"posonly", "either", "varargs", "kwonly", "varkw"}
Kinds == {"normal", "coroutine"}
Fixed == {"posonly", "either"}

CallsAssumption ==
    /\ MaxDefaults \in Nat
    /\ \A c \in Codes : c.kind \in Kinds /\ c.free \in Nat
         /\ \A i \in DOMAIN c.parameters : c.parameters[i].kind \in ParameterKinds

VARIABLES
    function,   \* FunctionObject: code, fast_call, defaults, keyword_defaults, closure
    called      \* history: the last call and what came of it

vars == <<function, called>>

Value(from, index) == <<from, index>>
Argument(i, j) == Value("part", <<i, j>>)
Packed(values) == Value("packed", values)
NoCode == [parameters |-> <<>>, kind |-> "none", free |-> 0]
Ran(how, code, arguments) == [ran |-> how, code |-> code, arguments |-> arguments]
Refused(error) == Ran("nothing", NoCode, <<Value("error", error)>>)
Idle == [parts |-> <<>>, callable |-> <<>>, outcome |-> Refused("none")]

-----------------------------------------------------------------------------
(* Preparing arguments. *)

Prepared(positional, keywords, error) ==
    [positional |-> positional, keywords |-> keywords, error |-> error]
Names(keywords) == {keywords[i][1] : i \in DOMAIN keywords}

(* One keyword: its name must be new and a string. *)
AddKeyword(prepared, name, value) ==
    IF prepared.error # "none" THEN prepared
    ELSE IF name = "not a string" \/ name \in Names(prepared.keywords)
    THEN [prepared EXCEPT !.error = "TypeError"]
    ELSE [prepared EXCEPT !.keywords = Append(@, <<name, value>>)]

(* Part number i; an unpacked part carries what its iteration gives. *)
CallArgumentAdd(prepared, part, i) ==
    IF prepared.error # "none" THEN prepared
    ELSE CASE part.is = "positional" -> [prepared EXCEPT !.positional = Append(@, Argument(i, 1))]
           [] part.is = "starred" ->
                [prepared EXCEPT !.positional = @ \o [j \in 1..part.length |-> Argument(i, j)]]
           [] part.is = "keyword" -> AddKeyword(prepared, part.name, Argument(i, 1))
           [] OTHER -> FoldLeftDomain(
                LAMBDA acc, j : AddKeyword(acc, part.names[j], Argument(i, j)), prepared, part.names)

Prepare(parts) ==
    FoldLeftDomain(LAMBDA acc, i : CallArgumentAdd(acc, parts[i], i),
                   Prepared(<<>>, <<>>, "none"), parts)

-----------------------------------------------------------------------------
(* Binding arguments to parameters. *)

Unbound == Value("unbound", 0)
Kind(code, i) == code.parameters[i].kind
FixedCount(code) == Cardinality({i \in DOMAIN code.parameters : Kind(code, i) \in Fixed})
Index(code, kind) == {i \in DOMAIN code.parameters : Kind(code, i) = kind}
AllFixed(code) == \A i \in DOMAIN code.parameters : Kind(code, i) \in Fixed

(* A keyword goes to its parameter or to the mapping of the others. *)
BindKeyword(code, state, name, value) ==
    LET matching == {i \in DOMAIN code.parameters : code.parameters[i].name = name}
        kinds    == {Kind(code, i) : i \in matching}
        catches  == Index(code, "varkw") # {}
        fail     == [state EXCEPT !.error = "TypeError"]
    IN  IF state.error # "none" THEN state
        ELSE IF kinds = {"posonly"} /\ ~catches THEN fail
        ELSE IF kinds \cap {"either", "kwonly"} # {}
        THEN IF \E i \in matching : state.bound[i] # Unbound THEN fail
             ELSE [state EXCEPT !.bound = [i \in DOMAIN @ |-> IF i \in matching THEN value ELSE @[i]]]
        ELSE IF catches THEN [state EXCEPT !.extras = Append(@, <<name, value>>)]
        ELSE fail

(* The defaults belong to the last parameters; too many lose the first ones. *)
PositionalDefault(f, position) ==
    LET count     == FixedCount(f.code)
        effective == IF f.defaults < count THEN f.defaults ELSE count
        start     == count - effective
        skipped   == f.defaults - effective
    IN  IF position > start THEN Value("default", skipped + position - start) ELSE Unbound

WithDefaults(f, bound) ==
    [i \in DOMAIN bound |->
        IF bound[i] # Unbound THEN bound[i]
        ELSE CASE Kind(f.code, i) \in Fixed -> PositionalDefault(f, i)
               [] Kind(f.code, i) = "kwonly" /\ f.code.parameters[i].name \in f.keywordDefaults ->
                     Value("keyword default", f.code.parameters[i].name)
               [] OTHER -> Unbound]

Bind(f, positional, keywords) ==
    LET code   == f.code
        count  == FixedCount(code)
        first  == [i \in DOMAIN code.parameters |->
                     IF Kind(code, i) \in Fixed /\ i <= Len(positional) THEN positional[i] ELSE Unbound]
        state  == FoldLeft(LAMBDA acc, k : BindKeyword(code, acc, k[1], k[2]),
                           [bound |-> first, extras |-> <<>>, error |-> "none"], keywords)
        packed == [i \in DOMAIN code.parameters |->
                     CASE Kind(code, i) = "varargs" -> Packed(SubSeq(positional, count + 1, Len(positional)))
                       [] Kind(code, i) = "varkw" -> Packed(state.extras)
                       [] OTHER -> state.bound[i]]
        full   == WithDefaults(f, packed)
    IN  IF keywords = <<>> /\ Len(positional) = Len(code.parameters) /\ AllFixed(code)
        THEN [error |-> "none", bound |-> positional]
        ELSE IF state.error # "none" THEN state
        ELSE IF Len(positional) > count /\ Index(code, "varargs") = {}
        THEN [state EXCEPT !.error = "TypeError"]
        ELSE IF \E i \in DOMAIN full : full[i] = Unbound THEN [state EXCEPT !.error = "TypeError"]
        ELSE [error |-> "none", bound |-> full]

-----------------------------------------------------------------------------
(* The metadata kept with a function, and the paths that trust it. *)

NoArity == -1
FastCallMetadata(code, ready) ==
    [code |-> code, kind |-> code.kind, ready |-> ready,
     arity |-> IF AllFixed(code) THEN Len(code.parameters) ELSE NoArity]

(* A suspended body keeps its arguments until it is resumed. *)
Enter(code, kind, arguments) ==
    Ran(IF kind = "normal" THEN "body" ELSE "suspended", code, arguments)

ExactPositionalTarget(f, positional) == f.fast.arity = Len(positional)
InvokeExactPositional(f, positional) == Enter(f.fast.code, f.fast.kind, positional)

InvokeFunction(f, positional, keywords) ==
    IF keywords = <<>> /\ ExactPositionalTarget(f, positional) THEN InvokeExactPositional(f, positional)
    ELSE LET b == Bind(f, positional, keywords)
         IN  IF b.error # "none" THEN Refused(b.error) ELSE Enter(f.code, f.code.kind, b.bound)

(* await f(args): a body that never suspends is run at once. *)
InvokeReadyCoroutine(f, positional) ==
    IF f.fast.arity = Len(positional) /\ f.fast.kind = "coroutine" /\ f.fast.ready
    THEN Ran("at once", f.fast.code, positional)
    ELSE InvokeFunction(f, positional, <<>>)

-----------------------------------------------------------------------------
(* Taking the callable apart.  A callable is a sequence of wrappers that ends *)
(* in "function", in something that cannot be called, or in a class.          *)

Receiver(chain) == Value("receiver", Len(chain))
IsClass(thing) == "layout" \in DOMAIN thing
Wrapper(is) == [is |-> is]
Mutable == {"list", "dict", "set", "bytearray"}

Performed(events, result) == Ran("class", NoCode, <<Value("steps", events), Value("gives", result)>>)

(* A new instance: the storage of a built-in base is filled, then __init__ runs. *)
Instantiate(class, positional, keywords) ==
    LET nothing   == positional = <<>> /\ keywords = <<>>
        fills     == class.layout # "object" /\ ~(class.layout \in Mutable /\ class.init # "none")
        filled    == IF fills THEN {"fill"} ELSE {}
        initiated == IF class.init # "none" THEN filled \cup {"init"} ELSE filled
    IN  CASE class.init = "value" -> Refused("TypeError")
          [] class.init = "fails" -> Refused("Other")
          [] class.init = "none" /\ class.layout = "object" /\ ~nothing -> Refused("TypeError")
          [] OTHER -> Performed(initiated, "instance")

NewException(class, positional, keywords) ==
    CASE class.init = "value" -> Refused("TypeError")
      [] class.init = "fails" -> Refused("Other")
      [] class.init = "none" /\ keywords # <<>> -> Refused("TypeError")
      [] OTHER -> Performed({"fill"} \cup (IF class.init = "none" THEN {} ELSE {"init"}), "instance")

(* __new__, then __init__ if that gave a class of this metaclass: what either *)
(* raises is raised, what __init__ returns is dropped.  The three arguments    *)
(* are a string, a tuple and a namespace.                                      *)
InvokeMetaclassConstructor(class) ==
    LET initiates == class.new # "foreign" /\ class.init # "none"
        made      == IF class.new = "none" THEN {"fill"} ELSE {"new"}
    IN  IF class.new = "fails" \/ (initiates /\ class.init = "fails") THEN Refused("Other")
        ELSE Performed(IF initiates THEN made \cup {"init"} ELSE made,
                       IF class.new = "foreign" THEN "foreign" ELSE "class")

InvokeClass(class, positional, keywords) ==
    IF class.name = "built-in" THEN Performed({"built-in"}, "instance")
    ELSE IF class.layout = "type" /\ Len(positional) = 3 THEN InvokeMetaclassConstructor(class)
    ELSE IF class.layout = "exception" THEN NewException(class, positional, keywords)
    ELSE IF class.layout = "abstract" THEN Refused("TypeError")
    ELSE Instantiate([class EXCEPT !.layout = IF @ = "type" THEN "object" ELSE @], positional, keywords)

RECURSIVE Invoke(_, _, _, _)
Invoke(f, chain, positional, keywords) ==
    LET head == Head(chain)
        next(arguments) == Invoke(f, Tail(chain), arguments, keywords)
    IN  IF IsClass(head) THEN InvokeClass(head, positional, keywords)
        ELSE CASE head.is = "function" -> InvokeFunction(f, positional, keywords)
               [] head.is = "reference" -> IF positional = <<>> /\ keywords = <<>>
                                           THEN Ran("referent", NoCode, <<>>) ELSE Refused("TypeError")
               [] head.is = "dead proxy" -> Refused("ReferenceError")
               [] head.is = "proxy" -> next(positional)
               [] head.is = "bound" -> next(<<Receiver(chain)>> \o positional)
               \* __call__ is a function of the class: it is bound to the instance
               [] head.is = "instance" -> next(<<Receiver(chain)>> \o positional)
               [] OTHER -> Refused("TypeError")

(* callable(x), without calling it. *)
IsCallableValue(chain) ==
    LET head == Head(chain)
    IN  IsClass(head) \/ head.is \in {"function", "bound", "instance", "reference", "proxy"}

(* What generated code does: arguments without names or stars are not prepared. *)
InvokeRootedPositional(f, chain, positional) ==
    IF Head(chain) = Wrapper("function") /\ ExactPositionalTarget(f, positional)
    THEN InvokeExactPositional(f, positional)
    ELSE Invoke(f, chain, positional, <<>>)

InvokePrepared(f, chain, parts) ==
    LET p == Prepare(parts)
    IN  IF p.error # "none" THEN Refused(p.error) ELSE Invoke(f, chain, p.positional, p.keywords)

Plainly(parts) == \A i \in DOMAIN parts : parts[i].is = "positional"
CallOf(f, chain, parts) ==
    IF Plainly(parts)
    THEN InvokeRootedPositional(f, chain, [i \in DOMAIN parts |-> Argument(i, 1)])
    ELSE InvokePrepared(f, chain, parts)

-----------------------------------------------------------------------------
(* Creating the function and changing it. *)

FunctionNew(code, ready) ==
    [code |-> code, fast |-> FastCallMetadata(code, ready), closure |-> code.free,
     defaults |-> 0, keywordDefaults |-> {}]

Init ==
    /\ \E code \in Codes, ready \in BOOLEAN :
          /\ ready => code.kind = "coroutine"
          /\ function = FunctionNew(code, ready)
    /\ called = Idle

(* Mutant: the cached metadata stays that of the first code object. *)
SetCodeStale(code) ==
    /\ code.free = function.closure
    /\ function' = [function EXCEPT !.code = code]
    /\ UNCHANGED called

(* __code__ needs as many free variables as the closure has. *)
SetCode(code) ==
    /\ code.free = function.closure
    /\ function' = [function EXCEPT !.code = code, !.fast = FastCallMetadata(code, FALSE)]
    /\ UNCHANGED called
SetDefaults(n) ==
    function' = [function EXCEPT !.defaults = n] /\ UNCHANGED called
SetKeywordDefaults(names) ==
    function' = [function EXCEPT !.keywordDefaults = names] /\ UNCHANGED called

Call(parts) ==
    LET f == << Wrapper("function") >>
    IN  /\ called' = [parts |-> parts, callable |-> f, outcome |-> CallOf(function, f, parts)]
        /\ UNCHANGED function
Await(parts) ==
    LET f == << Wrapper("function") >>
        positional == [i \in DOMAIN parts |-> Argument(i, 1)]
    IN  /\ Plainly(parts)
        /\ called' = [parts |-> parts, callable |-> f,
                      outcome |-> InvokeReadyCoroutine(function, positional)]
        /\ UNCHANGED function
CallThrough(chain, parts) ==
    /\ called' = [parts |-> parts, callable |-> chain, outcome |-> CallOf(function, chain, parts)]
    /\ UNCHANGED function

KeywordNames == {"k"}
(* A call changes nothing of the function: a behaviour ends with the first one. *)
Next ==
    /\ called = Idle
    /\ \/ \E code \in Codes : SetCode(code)
       \/ \E n \in 0..MaxDefaults : SetDefaults(n)
       \/ \E names \in SUBSET KeywordNames : SetKeywordDefaults(names)
       \/ \E parts \in Argued : Call(parts)
       \/ \E parts \in Argued : Await(parts)
       \/ \E through \in Through : CallThrough(through[1], through[2])
Spec == Init /\ [][Next]_vars

-----------------------------------------------------------------------------
(* What the language says.  All arguments of a call, in order. *)
Given(parts) ==
    LET p(i) == CASE parts[i].is = "positional" -> <<Argument(i, 1)>>
                  [] parts[i].is = "starred" -> [j \in 1..parts[i].length |-> Argument(i, j)]
                  [] OTHER -> <<>>
    IN  FoldLeftDomain(LAMBDA acc, i : acc \o p(i), <<>>, parts)
Named(parts) ==
    LET k(i) == CASE parts[i].is = "keyword" -> << <<parts[i].name, Argument(i, 1)>> >>
                  [] parts[i].is = "unpack" -> [j \in DOMAIN parts[i].names |->
                                                   <<parts[i].names[j], Argument(i, j)>>]
                  [] OTHER -> <<>>
    IN  FoldLeftDomain(LAMBDA acc, i : acc \o k(i), <<>>, parts)

LanguageBinds(f, positional, keywords) ==
    LET code    == f.code
        count   == FixedCount(code)
        named(n) == {i \in DOMAIN keywords : keywords[i][1] = n}
        takes(i) == Kind(code, i) \in {"either", "kwonly"}
        owned   == {code.parameters[i].name : i \in {j \in DOMAIN code.parameters : takes(j)}}
        passed(i) == Kind(code, i) \in Fixed /\ i <= Len(positional)
        byName(i) == takes(i) /\ named(code.parameters[i].name) # {}
        \* default number d of n stands at the d-th place before the end
        default(i) == IF Kind(code, i) = "kwonly"
                      THEN IF code.parameters[i].name \in f.keywordDefaults
                           THEN {Value("keyword default", code.parameters[i].name)} ELSE {}
                      ELSE {Value("default", d) : d \in {d \in 1..f.defaults : f.defaults - d = count - i}}
        value(i) == CASE Kind(code, i) = "varargs" -> Packed(SubSeq(positional, count + 1, Len(positional)))
                      [] Kind(code, i) = "varkw" ->
                            Packed(SelectSeq(keywords, LAMBDA k : k[1] \notin owned))
                      [] passed(i) -> positional[i]
                      [] byName(i) -> keywords[CHOOSE j \in named(code.parameters[i].name) : TRUE][2]
                      [] OTHER -> CHOOSE d \in default(i) : TRUE
        wrong == \/ \E i, j \in DOMAIN keywords : i # j /\ keywords[i][1] = keywords[j][1]
                 \/ \E i \in DOMAIN keywords : keywords[i][1] = "not a string"
                 \/ Len(positional) > count /\ Index(code, "varargs") = {}
                 \/ \E i \in DOMAIN code.parameters : passed(i) /\ byName(i)
                 \/ Index(code, "varkw") = {} /\ ~(Names(keywords) \subseteq owned)
                 \/ \E i \in DOMAIN code.parameters :
                       /\ Kind(code, i) \in Fixed \cup {"kwonly"}
                       /\ ~passed(i) /\ ~byName(i) /\ default(i) = {}
    IN  IF wrong THEN Refused("TypeError")
        ELSE Enter(code, code.kind, [i \in DOMAIN code.parameters |-> value(i)])

(* type.__call__ with a __new__ of the program's or that of `type`: an error ends *)
(* the call, a foreign object is handed over as it is, and __init__ gives None.   *)
LanguageCreates(class) ==
    LET gives == IF class.layout = "type" THEN "class" ELSE "instance"
        made  == IF class.new = "none" THEN "fill" ELSE "new"
    IN  CASE class.new = "fails"    -> Refused("Other")
          [] class.new = "foreign"  -> Performed({made}, "foreign")
          [] class.init = "none"    -> Performed({made}, gives)
          [] class.init = "passes"  -> Performed({made, "init"}, gives)
          [] class.init = "value"   -> Refused("TypeError")
          [] OTHER                  -> Refused("Other")

(* type.__call__: __new__, then __init__ of what it gave. *)
LanguageConstructs(class, positional, keywords) ==
    LET count == Len(positional)
        three == class.layout = "type" => count = 3
    IN  CASE class.layout = "abstract" \/ ~three -> Refused("TypeError")
          \* a class with a __new__ of its own, whatever it derives from
          [] class.layout = "type" \/ class.new # "none" -> LanguageCreates(class)
          [] class.init = "value" -> Refused("TypeError")
          [] class.init = "fails" -> Refused("Other")
          [] class.init = "none" /\ class.layout = "object" /\ (count > 0 \/ keywords # <<>>) ->
                Refused("TypeError")
          [] class.init = "none" /\ class.layout = "exception" /\ keywords # <<>> -> Refused("TypeError")
          \* the __init__ of a mutable built-in class fills it, unless it is overridden
          [] OTHER -> Performed((IF class.layout = "object" \/ (class.layout \in Mutable /\ class.init # "none")
                             THEN {} ELSE {"fill"})
                              \cup (IF class.init = "none" THEN {} ELSE {"init"}), "instance")

Target(chain) == chain[Len(chain)]
Wrapping(chain) == SubSeq(chain, 1, Len(chain) - 1)
(* The receivers of the bound methods and instances, the innermost first. *)
Receivers(chain) ==
    FoldLeftDomain(LAMBDA acc, i :
        IF chain[i].is \in {"bound", "instance"} THEN <<Value("receiver", Len(chain) - i + 1)>> \o acc
        ELSE acc, <<>>, Wrapping(chain))

LanguageCalls(f, chain, parts) ==
    LET positional == Receivers(chain) \o Given(parts)
        keywords   == Named(parts)
        target     == Target(chain)
        twice      == \E i, j \in DOMAIN keywords : i # j /\ keywords[i][1] = keywords[j][1]
    IN  IF twice \/ "not a string" \in Names(keywords) THEN Refused("TypeError")
        ELSE IF IsClass(target) THEN LanguageConstructs(target, positional, keywords)
        ELSE CASE target.is = "function" -> LanguageBinds(f, positional, keywords)
               [] target.is = "reference" -> IF positional = <<>> /\ keywords = <<>>
                                             THEN Ran("referent", NoCode, <<>>) ELSE Refused("TypeError")
               [] target.is = "dead proxy" -> Refused("ReferenceError")
               [] target.is = "static" -> LanguageBinds(f, positional, keywords)
               [] OTHER -> Refused("TypeError")

Known(chain, parts) ==
    LET target == Target(chain)
        hides(name, condition) == name \notin Exposed /\ condition
    IN  \/ hides("static", target = Wrapper("static"))
        \/ IsClass(target) /\
             \/ hides("named", target.name = "built-in")
             \/ hides("new", target.layout # "type" /\ target.new # "none")
             \/ hides("metaclass", target.layout = "type" /\ Len(Receivers(chain) \o Given(parts)) # 3)
             \/ hides("result", target.layout = "type" /\ target.init = "value")

(* A body that is run at once does what the coroutine would do when it is awaited. *)
Awaited(outcome) == IF outcome.ran = "at once" THEN [outcome EXCEPT !.ran = "suspended"] ELSE outcome

(* A call, whatever was done to the function before it and however its arguments
   are written, runs the code the function has now with the values that the language
   binds to its parameters, or is refused exactly when the language refuses it; what
   was entered is something that callable() accepts.                                 *)
CallsBindLikePython ==
    /\ called # Idle /\ ~Known(called.callable, called.parts) =>
          Awaited(called.outcome) = LanguageCalls(function, called.callable, called.parts)
    /\ called.outcome.ran # "nothing" => IsCallableValue(called.callable)
==============================================================================
