----------------------------- MODULE Attributes ------------------------------
(***************************************************************************)
(* Reading, setting and deleting an attribute (attribute_get,              *)
(* attribute_set, attribute_delete and the descriptors in context.rs;      *)
(* getattr, setattr, delattr, hasattr and super in call.rs).               *)
(*                                                                         *)
(* The classes are C, its base B and their metaclass Meta; x is an         *)
(* instance of C, an ordinary object or an exception.  One attribute name  *)
(* is watched.  What a class holds under it is a kind of object: what it   *)
(* is natively, and the functions it has.  An operation on the attribute   *)
(* calls functions of the program in an order and ends in a result; the    *)
(* answers of these functions are an input.                                *)
(***************************************************************************)
EXTENDS Integers, Sequences, FiniteSets

CONSTANTS
    KindsOf,   \* class |-> the kinds of object the program puts into it
    Slotted,   \* whether B is created with the name among its __slots__
    HookSets,  \* the hooks of B and Meta, as functions from classes
    Sorts,     \* of "instance" and "exception": what x is
    Exposed    \* divergences that are explored although they are known:
               \*   "setter_first"  a descriptor that has __set__ and no __get__
               \*                   hides the dictionary of the instance
               \*   "no_fallback"   __getattr__ is not asked after a descriptor
               \*                   raised AttributeError
               \*   "metaclass"     setting and deleting on a class ignore the
               \*                   data descriptors of its metaclass
               \*   "exception"     the hooks of an exception's class are ignored

Types == {"C", "B", "Meta", "type"}
Mro == [C |-> <<"C", "B">>, B |-> <<"B">>, Meta |-> <<"Meta">>, type |-> <<>>]
Functions == {"get", "set", "delete"}
Hooks == {"getattribute", "getattr", "setattr", "delattr"}
Callers == {"getattribute", "getattr", "setattr", "delattr"} \cup Functions

Kind(is, has) == [is |-> is, has |-> has]
Missing == Kind("missing", {})
Plain == Kind("object", {})
Member == Kind("member", Functions)
Kinds == {Missing, Plain, Member} \cup {Kind(n, {"get"}) : n \in {"function", "static", "class"}}
           \cup {Kind(n, has) : n \in {"property", "object"}, has \in SUBSET Functions}

AttributesAssumption ==
    /\ KindsOf \in [{"C", "B", "Meta"} -> SUBSET (Kinds \ {Missing, Member})]
    /\ HookSets \subseteq [Types -> SUBSET Hooks]
    /\ \A h \in HookSets : h["C"] = {} /\ h["type"] = {}
    /\ Slotted \in SUBSET BOOLEAN
    /\ Sorts \subseteq {"instance", "exception"}

VARIABLES
    namespace,   \* TypeObject::namespace, under the watched name
    dictionary,  \* InstanceObject::dictionary: "none", or whether it has the name
    slot,        \* InstanceObject::slots: whether the member is set
    title,       \* TypeObject::name of C
    hooks,       \* the hooks each class defines
    sort,        \* what x is
    told         \* history: classes whose version tag the last step moved

vars == <<namespace, dictionary, slot, title, hooks, sort, told>>

TypeOf(r) == CASE r = "x" -> "C" [] r \in {"C", "B"} -> "Meta" [] OTHER -> "type"
IsClass(r) == r # "x"

Given(what, kind) == [is |-> "value", of |-> what, kind |-> kind]
Raised(what) == [is |-> "error", of |-> what, kind |-> Missing]
Answers == {Given("answer", Plain), Raised("AttributeError"), Raised("Other")}
Outcome(calls, result) == [calls |-> calls, result |-> result]
Gives(what) == Outcome(<<>>, Given(what, Missing))
Itself(kind) == Outcome(<<>>, Given("itself", kind))
Fails(what) == Outcome(<<>>, Raised(what))
Asks(class, function, answers) == Outcome(<< <<class, function>> >>, answers[function])
After(first, then) == Outcome(first.calls \o then.calls, then.result)

-----------------------------------------------------------------------------
(* What the code does. *)

(* The class of `order` that holds the name first; "type" stands for none. *)
OwnerIn(order) ==
    LET holders == {i \in DOMAIN order : namespace[order[i]] # Missing}
    IN  IF holders = {} THEN "type" ELSE order[CHOOSE i \in holders : \A j \in holders : i <= j]
Owner(class) == OwnerIn(Mro[class])
Hooked(class, hook) == \E i \in DOMAIN Mro[class] : hook \in hooks[Mro[class][i]]

DescriptorIsData(kind) == kind.is \in {"property", "member"} \/ kind.has \cap {"set", "delete"} # {}

DescriptorGet(owner, bound, answers) ==
    LET kind == namespace[owner]
        get  == "get" \in kind.has
    IN  CASE kind.is = "function" -> IF bound THEN Gives("method") ELSE Itself(kind)
          [] kind.is = "static" -> Gives("callable")
          [] kind.is = "class" -> Gives("class method")
          [] kind.is = "member" -> IF ~bound THEN Itself(kind)
                                   ELSE IF slot THEN Gives("slot") ELSE Fails("AttributeError")
          [] kind.is = "property" -> IF ~bound THEN Itself(kind)
                                     ELSE IF get THEN Asks(owner, "get", answers) ELSE Fails("RuntimeError")
          [] OTHER -> IF get THEN Asks(owner, "get", answers) ELSE Itself(kind)

IsAttributeError(result) == result = Raised("AttributeError")

(* __getattribute__, and __getattr__ when that raised AttributeError. *)
GetThroughHook(class, answers) ==
    LET got == Asks(class, "getattribute", answers)
    IN  IF IsAttributeError(got.result) /\ Hooked(class, "getattr")
        THEN After(got, Asks(class, "getattr", answers)) ELSE got

GetAtLast(class, answers) ==
    IF Hooked(class, "getattr") THEN Asks(class, "getattr", answers) ELSE Fails("AttributeError")

GetOfInstance(answers) ==
    LET owner == Owner("C")
        kind  == namespace[owner]
    IN  IF Hooked("C", "getattribute") THEN GetThroughHook("C", answers)
        ELSE IF DescriptorIsData(kind) THEN DescriptorGet(owner, TRUE, answers)
        ELSE IF dictionary = "set" THEN Gives("dictionary")
        ELSE IF kind # Missing THEN DescriptorGet(owner, TRUE, answers)
        ELSE GetAtLast("C", answers)

GetOfException(answers) ==
    LET owner == Owner("C")
        kind  == namespace[owner]
    IN  IF DescriptorIsData(kind) THEN DescriptorGet(owner, TRUE, answers)
        ELSE IF dictionary = "set" THEN Gives("dictionary")
        ELSE IF kind # Missing THEN DescriptorGet(owner, TRUE, answers)
        ELSE Fails("AttributeError")

(* Mutant: the class's own bases before the data descriptors of its metaclass. *)
GetOfTypeOwnFirst(r, answers) ==
    LET meta == TypeOf(r)
        own  == Owner(r)
        high == Owner(meta)
    IN  IF Hooked(meta, "getattribute") THEN GetThroughHook(meta, answers)
        ELSE IF namespace[own] # Missing THEN DescriptorGet(own, FALSE, answers)
        ELSE IF namespace[high] # Missing THEN DescriptorGet(high, TRUE, answers)
        ELSE GetAtLast(meta, answers)

GetOfType(r, answers) ==
    LET meta == TypeOf(r)
        own  == Owner(r)
        high == Owner(meta)
    IN  IF Hooked(meta, "getattribute") THEN GetThroughHook(meta, answers)
        ELSE IF DescriptorIsData(namespace[high]) THEN DescriptorGet(high, TRUE, answers)
        ELSE IF namespace[own] # Missing THEN DescriptorGet(own, FALSE, answers)
        ELSE IF namespace[high] # Missing THEN DescriptorGet(high, TRUE, answers)
        ELSE GetAtLast(meta, answers)

AttributeGet(r, answers) ==
    IF IsClass(r) THEN GetOfType(r, answers)
    ELSE IF sort = "exception" THEN GetOfException(answers) ELSE GetOfInstance(answers)

(* super(start, x): the classes after `start` only, without the dictionary. *)
SuperGet(start, answers) ==
    LET owner == OwnerIn(IF start = "C" THEN <<"B">> ELSE <<>>)
    IN  IF namespace[owner] = Missing THEN Fails("AttributeError")
        ELSE DescriptorGet(owner, TRUE, answers)

(* C.__name__ comes after the hook and the data descriptors of the metaclass, *)
(* which the program does not define for this name.                           *)
NameGet(answers) ==
    IF Hooked("Meta", "getattribute") THEN GetThroughHook("Meta", answers) ELSE Gives(title)

HasAttribute(outcome) ==
    IF outcome.result.is = "value" THEN After(outcome, Gives("true"))
    ELSE IF IsAttributeError(outcome.result) THEN After(outcome, Gives("false"))
    ELSE outcome
GetAttribute(outcome) ==
    IF IsAttributeError(outcome.result) THEN After(outcome, Gives("default")) ELSE outcome

(* An operation that writes: its outcome and the world it leaves. *)
World == [namespace |-> namespace, dictionary |-> dictionary, slot |-> slot, title |-> title,
          told |-> {}]
Leaves(outcome, world) == [calls |-> outcome.calls, result |-> outcome.result, world |-> world]
Keeps(outcome) == Leaves(outcome, World)
Done == Gives("none")

(* Mutant: classes reached through their metaclass are forgotten. *)
ObserversBelow(r) == {t \in Types : t = r \/ \E i \in DOMAIN Mro[t] : Mro[t][i] = r}

Observers(r) ==
    {t \in Types : \/ t = r
                   \/ \E i \in DOMAIN Mro[t] : Mro[t][i] = r
                   \/ \E j \in DOMAIN Mro[TypeOf(t)] : Mro[TypeOf(t)][j] = r}

DescriptorSet(owner, answers) ==
    LET kind == namespace[owner]
    IN  IF kind.is = "member" THEN Leaves(Done, [World EXCEPT !.slot = TRUE])
        ELSE IF "set" \in kind.has
        THEN LET set == Asks(owner, "set", answers)
             IN  Keeps(IF set.result.is = "value" THEN After(set, Done) ELSE set)
        ELSE Keeps(Fails("RuntimeError"))

(* Mutant: the slot is taken before it is known whether it was set. *)
DescriptorDeleteQuietly(owner, answers) ==
    LET kind == namespace[owner]
    IN  IF kind.is = "member" THEN Leaves(Done, [World EXCEPT !.slot = FALSE])
        ELSE IF "delete" \in kind.has
        THEN LET delete == Asks(owner, "delete", answers)
             IN  Keeps(IF delete.result.is = "value" THEN After(delete, Done) ELSE delete)
        ELSE Keeps(Fails("RuntimeError"))

DescriptorDelete(owner, answers) ==
    LET kind == namespace[owner]
    IN  IF kind.is = "member"
        THEN IF slot THEN Leaves(Done, [World EXCEPT !.slot = FALSE])
             ELSE Keeps(Fails("AttributeError"))
        ELSE IF "delete" \in kind.has
        THEN LET delete == Asks(owner, "delete", answers)
             IN  Keeps(IF delete.result.is = "value" THEN After(delete, Done) ELSE delete)
        ELSE Keeps(Fails("RuntimeError"))

ThroughHook(r, hook, answers) ==
    LET called == Asks(TypeOf(r), hook, answers)
    IN  Keeps(IF called.result.is = "value" THEN After(called, Done) ELSE called)

HookApplies(r, hook) == ~(r = "x" /\ sort = "exception") /\ Hooked(TypeOf(r), hook)

AttributeSet(r, kind, answers) ==
    LET owner == Owner("C")
    IN  IF HookApplies(r, "setattr") THEN ThroughHook(r, "setattr", answers)
        ELSE IF IsClass(r)
        THEN Leaves(Done, [World EXCEPT !.namespace[r] = kind, !.told = Observers(r)])
        ELSE IF DescriptorIsData(namespace[owner]) THEN DescriptorSet(owner, answers)
        ELSE IF dictionary = "none" THEN Keeps(Fails("AttributeError"))
        ELSE Leaves(Done, [World EXCEPT !.dictionary = "set"])

AttributeDelete(r, answers) ==
    LET owner == Owner("C")
    IN  IF HookApplies(r, "delattr") THEN ThroughHook(r, "delattr", answers)
        ELSE IF IsClass(r)
        THEN IF namespace[r] = Missing THEN Keeps(Fails("AttributeError"))
             ELSE Leaves(Done, [World EXCEPT !.namespace[r] = Missing, !.told = Observers(r)])
        ELSE IF DescriptorIsData(namespace[owner]) THEN DescriptorDelete(owner, answers)
        ELSE IF dictionary = "set" THEN Leaves(Done, [World EXCEPT !.dictionary = "unset"])
        ELSE Keeps(Fails("AttributeError"))

(* C.__name__ = a string or something else; del C.__name__. *)
NameSet(text, answers) ==
    IF HookApplies("C", "setattr") THEN ThroughHook("C", "setattr", answers)
    ELSE IF ~text THEN Keeps(Fails("TypeError"))
    ELSE Leaves(Done, [World EXCEPT !.title = "new", !.told = Observers("C")])
NameDelete(answers) ==
    IF HookApplies("C", "delattr") THEN ThroughHook("C", "delattr", answers)
    ELSE Keeps(Fails("TypeError"))

(* property.getter, setter and deleter give a new property. *)
PropertyReplace(kind, function) == [kind EXCEPT !.has = @ \cup {function}]

-----------------------------------------------------------------------------
Init ==
    /\ sort \in Sorts
    /\ hooks \in HookSets
    /\ \E slotted \in Slotted :
          namespace = [t \in Types |-> IF t = "B" /\ slotted THEN Member ELSE Missing]
    /\ dictionary \in (IF sort = "exception" THEN {"unset"} ELSE {"none", "unset"})
    /\ (sort = "exception" => namespace["B"] = Missing)
    /\ slot = FALSE /\ title = "old" /\ told = {}

Become(written) ==
    /\ namespace' = written.world.namespace
    /\ dictionary' = written.world.dictionary
    /\ slot' = written.world.slot
    /\ title' = written.world.title
    /\ told' = written.world.told
    /\ UNCHANGED <<hooks, sort>>

(* What the steps need of the answers: whether the hook lets the call pass. *)
Yes == [c \in Callers |-> Given("answer", Plain)]

SetOfInstance == Become(AttributeSet("x", Plain, Yes))
SetOfClass == \E r \in {"C", "B", "Meta"} : \E kind \in KindsOf[r] : Become(AttributeSet(r, kind, Yes))
SetName == \E text \in BOOLEAN : Become(NameSet(text, Yes))
Delete == \E r \in {"x", "C", "B", "Meta"} : Become(AttributeDelete(r, Yes))
ReplaceProperty ==
    \E r \in {"C", "B", "Meta"}, function \in Functions :
       /\ namespace[r].is = "property"
       /\ PropertyReplace(namespace[r], function) \in KindsOf[r]
       /\ Become(AttributeSet(r, PropertyReplace(namespace[r], function), Yes))

Next == SetOfInstance \/ SetOfClass \/ SetName \/ Delete \/ ReplaceProperty
Spec == Init /\ [][Next]_vars

-----------------------------------------------------------------------------
(* What the language says: an object is a descriptor through the functions   *)
(* of its type, a native descriptor has all of them whatever it was given.   *)
Protocol(kind) == IF kind.is \in {"property", "member"} THEN Functions ELSE kind.has
Data(kind) == Protocol(kind) \cap {"set", "delete"} # {}

Bound(owner, bound, answers) ==
    LET got == DescriptorGet(owner, bound, answers)
    IN  IF got = Fails("RuntimeError") THEN Fails("AttributeError") ELSE got

GenericGet(r, answers) ==
    LET class == Owner(TypeOf(r))
        own   == Owner(r)
    IN  IF Data(namespace[class]) /\ "get" \in Protocol(namespace[class]) THEN Bound(class, TRUE, answers)
        ELSE IF ~IsClass(r) /\ dictionary = "set" THEN Gives("dictionary")
        ELSE IF IsClass(r) /\ namespace[own] # Missing THEN Bound(own, FALSE, answers)
        ELSE IF namespace[class] # Missing THEN Bound(class, TRUE, answers)
        ELSE Fails("AttributeError")

LanguageGet(r, answers) ==
    LET class == TypeOf(r)
        got   == IF Hooked(class, "getattribute") THEN Asks(class, "getattribute", answers)
                 ELSE GenericGet(r, answers)
    IN  IF IsAttributeError(got.result) /\ Hooked(class, "getattr")
        THEN After(got, Asks(class, "getattr", answers)) ELSE got

(* `change` is what setting or deleting does without a hook or a descriptor. *)
LanguageWrite(r, hook, function, answers, change) ==
    LET class == TypeOf(r)
        owner == Owner(class)
        kind  == namespace[owner]
        ask(who, f) == LET a == Asks(who, f, answers)
                       IN  Keeps(IF a.result.is = "value" THEN After(a, Done) ELSE a)
    IN  IF Hooked(class, hook) THEN ask(class, hook)
        ELSE IF ~Data(kind) THEN change
        ELSE IF kind.is = "member"
        THEN IF function = "delete" /\ ~slot THEN Keeps(Fails("AttributeError"))
             ELSE Leaves(Done, [World EXCEPT !.slot = (function = "set")])
        ELSE IF function \in kind.has THEN ask(owner, function)
        ELSE Keeps(Fails("AttributeError"))

LanguageSet(r, kind, answers) ==
    LanguageWrite(r, "setattr", "set", answers,
        IF IsClass(r) THEN Leaves(Done, [World EXCEPT !.namespace[r] = kind, !.told = Observers(r)])
        ELSE IF dictionary = "none" THEN Keeps(Fails("AttributeError"))
        ELSE Leaves(Done, [World EXCEPT !.dictionary = "set"]))

LanguageDelete(r, answers) ==
    LanguageWrite(r, "delattr", "delete", answers,
        IF (IF IsClass(r) THEN namespace[r] = Missing ELSE dictionary # "set")
        THEN Keeps(Fails("AttributeError"))
        ELSE IF IsClass(r)
        THEN Leaves(Done, [World EXCEPT !.namespace[r] = Missing, !.told = Observers(r)])
        ELSE Leaves(Done, [World EXCEPT !.dictionary = "unset"]))

(* Where the code is known to differ. *)
KnownGet(r, answers) ==
    LET class == TypeOf(r)
        kind  == namespace[Owner(class)]
    IN  \/ /\ "setter_first" \notin Exposed
           /\ Data(kind) /\ "get" \notin Protocol(kind)
           /\ (dictionary = "set" \/ IsClass(r))
        \/ /\ "no_fallback" \notin Exposed
           /\ Hooked(class, "getattr") /\ ~Hooked(class, "getattribute")
           /\ IsAttributeError(GenericGet(r, answers).result) /\ kind # Missing
        \/ /\ "no_fallback" \notin Exposed
           /\ Hooked(class, "getattr") /\ ~Hooked(class, "getattribute") /\ IsClass(r)
           /\ IsAttributeError(GenericGet(r, answers).result) /\ namespace[Owner(r)] # Missing
        \/ /\ "exception" \notin Exposed
           /\ r = "x" /\ sort = "exception" /\ hooks["B"] # {}
KnownWrite(r) ==
    \/ /\ "metaclass" \notin Exposed
       /\ IsClass(r) /\ Data(namespace[Owner(TypeOf(r))])
    \/ /\ "exception" \notin Exposed
       /\ r = "x" /\ sort = "exception" /\ hooks["B"] # {}

(* A refusal is a RuntimeError in the code where the language has AttributeError. *)
AgreeUpToRefusal(coded, said) ==
    /\ coded.calls = said.calls
    /\ \/ coded.result = said.result
       \/ /\ coded.result = Raised("RuntimeError")
          /\ said.result = Raised("AttributeError")

GetAnswers ==
    {[Yes EXCEPT !["getattribute"] = a, !["getattr"] = b, !["get"] = c] : a, b, c \in Answers}

(* Reading an attribute of an instance, an exception or a class, directly, with
   getattr or hasattr, calls the functions that the data model calls, in its order,
   and ends as it says: data descriptors, then the dictionary, then the class; the
   metaclass around the bases of a class; __getattr__ last.                         *)
ReadsFollowDataModel ==
    \A answers \in GetAnswers :
       /\ \A r \in {"x", "C", "B", "Meta"} :
             LET coded == AttributeGet(r, answers)
                 said  == LanguageGet(r, answers)
             IN  ~KnownGet(r, answers) =>
                    /\ AgreeUpToRefusal(coded, said)
                    /\ coded.result # Raised("RuntimeError") =>
                          /\ AgreeUpToRefusal(HasAttribute(coded), HasAttribute(said))
                          /\ AgreeUpToRefusal(GetAttribute(coded), GetAttribute(said))
       /\ \A start \in {"C", "B"} :
             AgreeUpToRefusal(SuperGet(start, answers),
                IF start = "C" /\ namespace["B"] # Missing THEN Bound("B", TRUE, answers)
                ELSE Fails("AttributeError"))

(* Setting and deleting call the hook or the data descriptor of the class, and
   only without one change the dictionary; a refused or failing operation leaves
   everything as it was, and so does one that a function of the program took over. *)
WritesFollowDataModel ==
    \A answer \in Answers :
       LET answers == [c \in Callers |-> answer]
           agree(coded, said) ==
              AgreeUpToRefusal(coded, said) /\ coded.world = said.world
       IN  \A r \in {"x", "C", "B", "Meta"} : ~KnownWrite(r) =>
              /\ agree(AttributeSet(r, Plain, answers), LanguageSet(r, Plain, answers))
              /\ agree(AttributeDelete(r, answers), LanguageDelete(r, answers))

Seen(t) == <<namespace[Owner(t)], namespace[Owner(TypeOf(t))]>>

(* Every class for which a lookup, on itself or on its instances, has come to find
   something else had its version tag moved (invalidate_type_observers): a subclass
   of the changed class, and a class whose metaclass changed.                        *)
SeenIsTold == \A t \in Types : Seen(t)' # Seen(t) => t \in told'
ObserversTold == [][SeenIsTold]_vars
==============================================================================
