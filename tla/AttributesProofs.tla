-------------------------- MODULE AttributesProofs --------------------------
(***************************************************************************)
(* Proofs about Attributes, for any kinds of object in the classes, any    *)
(* hooks of B and Meta and any answers of the functions of the program.    *)
(***************************************************************************)
EXTENDS Attributes, TLAPS

(* What a state keeps: "type" has nothing under the name, C and type have no *)
(* hooks.                                                                  *)
Kept ==
    /\ namespace \in [Types -> Kinds] /\ namespace["type"] = Missing
    /\ dictionary \in {"none", "unset", "set"}
    /\ slot \in BOOLEAN /\ title \in {"old", "new"}
    /\ hooks \in [Types -> SUBSET Hooks] /\ hooks["C"] = {} /\ hooks["type"] = {}
    /\ sort \in {"instance", "exception"}
    /\ told \subseteq Types

(* No known divergence is explored. *)
NoneExposed == Exposed \cap {"setter_first", "no_fallback", "metaclass", "exception"} = {}

-----------------------------------------------------------------------------
(* Operators *)

(* The first class of an order that holds the name. *)
LEMMA OwnerOfTwo ==
    ASSUME NEW a, NEW b
    PROVE  OwnerIn(<<a, b>>) = IF namespace[a] # Missing THEN a
                               ELSE IF namespace[b] # Missing THEN b ELSE "type"
<1> DEFINE holders == {i \in DOMAIN <<a, b>> : namespace[<<a, b>>[i]] # Missing}
<1>1. DOMAIN <<a, b>> = {1, 2} /\ <<a, b>>[1] = a /\ <<a, b>>[2] = b
    OBVIOUS
<1>2. CASE namespace[a] # Missing
    <2>1. 1 \in holders /\ \A j \in holders : 1 <= j
        BY <1>1, <1>2
    <2>2. \A i \in holders : (\A j \in holders : i <= j) => i = 1
        BY <1>1, <2>1
    <2> HIDE DEF holders
    <2>3. (CHOOSE i \in holders : \A j \in holders : i <= j) = 1
        BY <2>1, <2>2
    <2> QED
        BY <1>1, <1>2, <2>1, <2>3 DEF OwnerIn, holders
<1>3. CASE namespace[a] = Missing /\ namespace[b] # Missing
    <2>1. holders = {2}
        BY <1>1, <1>3
    <2> QED
        BY <1>1, <1>3, <2>1 DEF OwnerIn
<1>4. CASE namespace[a] = Missing /\ namespace[b] = Missing
    <2>1. holders = {}
        BY <1>1, <1>4
    <2> QED
        BY <1>4, <2>1 DEF OwnerIn
<1> QED
    BY <1>2, <1>3, <1>4

LEMMA OwnerOfOne ==
    ASSUME NEW a
    PROVE  OwnerIn(<<a>>) = IF namespace[a] # Missing THEN a ELSE "type"
<1> DEFINE holders == {i \in DOMAIN <<a>> : namespace[<<a>>[i]] # Missing}
<1>1. DOMAIN <<a>> = {1} /\ <<a>>[1] = a
    OBVIOUS
<1>2. CASE namespace[a] # Missing
    <2>1. holders = {1}
        BY <1>1, <1>2
    <2> QED
        BY <1>1, <1>2, <2>1 DEF OwnerIn
<1>3. CASE namespace[a] = Missing
    <2>1. holders = {}
        BY <1>1, <1>3
    <2> QED
        BY <1>3, <2>1 DEF OwnerIn
<1> QED
    BY <1>2, <1>3

LEMMA OwnerOfNone == OwnerIn(<<>>) = "type"
<1>1. {i \in DOMAIN <<>> : namespace[<<>>[i]] # Missing} = {}
    OBVIOUS
<1> QED
    BY <1>1 DEF OwnerIn

(* Who holds the name for each class, and which hooks apply. *)
LEMMA Owners ==
    /\ Owner("C") = IF namespace["C"] # Missing THEN "C"
                    ELSE IF namespace["B"] # Missing THEN "B" ELSE "type"
    /\ Owner("B") = IF namespace["B"] # Missing THEN "B" ELSE "type"
    /\ Owner("Meta") = IF namespace["Meta"] # Missing THEN "Meta" ELSE "type"
    /\ Owner("type") = "type"
BY OwnerOfTwo, OwnerOfOne, OwnerOfNone DEF Owner, Mro

LEMMA HookedBy ==
    ASSUME Kept, NEW hook
    PROVE  /\ Hooked("C", hook) <=> hook \in hooks["B"]
           /\ Hooked("type", hook) <=> FALSE
<1>1. Mro["C"] = <<"C", "B">> /\ Mro["type"] = <<>>
    BY DEF Mro
<1>2. DOMAIN <<"C", "B">> = {1, 2} /\ <<"C", "B">>[1] = "C" /\ <<"C", "B">>[2] = "B" /\ DOMAIN <<>> = {}
    OBVIOUS
<1> QED
    BY <1>1, <1>2 DEF Hooked, Kept

(* A native descriptor has all functions of the protocol. *)
LEMMA DataAlike == \A kind : DescriptorIsData(kind) <=> Data(kind)
BY DEF DescriptorIsData, Data, Protocol, Functions

LEMMA MissingPlain ==
    /\ ~Data(Missing) /\ ~DescriptorIsData(Missing)
    /\ Missing \in Kinds /\ Member \in Kinds
BY DEF DescriptorIsData, Data, Protocol, Missing, Member, Kind, Kinds

(* A call after none. *)
LEMMA Empty == \A x : <<>> \o <<x>> = <<x>>
OBVIOUS

(* The parts of an outcome. *)
LEMMA Parts == \A calls, result : Outcome(calls, result).calls = calls /\ Outcome(calls, result).result = result
BY DEF Outcome

-----------------------------------------------------------------------------
(* Reading *)

(* Outcomes that agree are read alike by hasattr and getattr. *)
LEMMA AgreeOnResult ==
    ASSUME NEW coded, NEW said, AgreeUpToRefusal(coded, said), coded.result # Raised("RuntimeError")
    PROVE  /\ AgreeUpToRefusal(HasAttribute(coded), HasAttribute(said))
           /\ AgreeUpToRefusal(GetAttribute(coded), GetAttribute(said))
<1>1. coded.calls = said.calls /\ coded.result = said.result
    BY DEF AgreeUpToRefusal
<1> QED
    BY <1>1 DEF AgreeUpToRefusal, HasAttribute, GetAttribute, After, Outcome

LEMMA AgreeSame == \A outcome : AgreeUpToRefusal(outcome, outcome)
BY DEF AgreeUpToRefusal

(* A descriptor found by the code and by the language. *)
LEMMA AgreeBound ==
    ASSUME NEW owner, NEW bound, NEW answers
    PROVE  AgreeUpToRefusal(DescriptorGet(owner, bound, answers), Bound(owner, bound, answers))
<1>1. CASE DescriptorGet(owner, bound, answers) = Fails("RuntimeError")
    BY <1>1 DEF AgreeUpToRefusal, Bound, Fails, Outcome
<1>2. CASE DescriptorGet(owner, bound, answers) # Fails("RuntimeError")
    BY <1>2 DEF AgreeUpToRefusal, Bound
<1> QED
    BY <1>1, <1>2

(* A hook of the class does the whole reading in both. *)
LEMMA AgreeHooked ==
    ASSUME NEW r, NEW answers, Hooked(TypeOf(r), "getattribute")
    PROVE  GetThroughHook(TypeOf(r), answers) = LanguageGet(r, answers)
BY DEF GetThroughHook, LanguageGet

(* Nothing is found: __getattr__ is asked in both. *)
LEMMA AgreeAtLast ==
    ASSUME NEW r, NEW answers, ~Hooked(TypeOf(r), "getattribute"),
           GenericGet(r, answers) = Fails("AttributeError")
    PROVE  AgreeUpToRefusal(GetAtLast(TypeOf(r), answers), LanguageGet(r, answers))
<1>1. Fails("AttributeError").result = Raised("AttributeError") /\ Fails("AttributeError").calls = <<>>
    BY DEF Fails, Outcome
<1>2. CASE Hooked(TypeOf(r), "getattr")
    <2>1. LanguageGet(r, answers) = After(Fails("AttributeError"), Asks(TypeOf(r), "getattr", answers))
        BY <1>1, <1>2 DEF LanguageGet, IsAttributeError
    <2>2. PICK call : call = <<TypeOf(r), "getattr">>
        OBVIOUS
    <2>3. /\ Asks(TypeOf(r), "getattr", answers).calls = <<call>>
          /\ Asks(TypeOf(r), "getattr", answers).result = answers["getattr"]
        <3>1. Asks(TypeOf(r), "getattr", answers) = Outcome(<<call>>, answers["getattr"])
            BY <2>2, Zenon DEF Asks
        <3> QED
            BY <3>1, Parts
    <2>4. <<>> \o <<call>> = <<call>>
        BY Empty
    <2>5. LanguageGet(r, answers).calls = <<call>> /\ LanguageGet(r, answers).result = answers["getattr"]
        <3>1. PICK asked : asked = Asks(TypeOf(r), "getattr", answers)
            OBVIOUS
        <3>2. LanguageGet(r, answers) = Outcome(Fails("AttributeError").calls \o asked.calls, asked.result)
            BY <2>1, <3>1, Zenon DEF After
        <3>3. LanguageGet(r, answers) = Outcome(<<call>>, answers["getattr"])
            BY <1>1, <2>3, <2>4, <3>1, <3>2
        <3> QED
            BY <3>3, Parts
    <2> QED
        BY <1>2, <2>3, <2>5 DEF GetAtLast, AgreeUpToRefusal
<1>3. CASE ~Hooked(TypeOf(r), "getattr")
    BY <1>3, AgreeSame DEF GetAtLast, LanguageGet
<1> QED
    BY <1>2, <1>3

(* Something is found: __getattr__ is not asked, which the language only does *)
(* after an AttributeError.                                                 *)
LEMMA AgreeFound ==
    ASSUME NEW r, NEW answers, NEW got,
           ~Hooked(TypeOf(r), "getattribute"),
           Hooked(TypeOf(r), "getattr") => ~IsAttributeError(GenericGet(r, answers).result),
           AgreeUpToRefusal(got, GenericGet(r, answers))
    PROVE  AgreeUpToRefusal(got, LanguageGet(r, answers))
BY DEF LanguageGet

LEMMA ReadInstance ==
    ASSUME Kept, NoneExposed, sort = "instance", NEW answers, ~KnownGet("x", answers)
    PROVE  AgreeUpToRefusal(AttributeGet("x", answers), LanguageGet("x", answers))
<1>1. TypeOf("x") = "C" /\ ~IsClass("x")
    BY DEF TypeOf, IsClass
<1>2. AttributeGet("x", answers) = GetOfInstance(answers)
    BY <1>1 DEF AttributeGet
<1> DEFINE owner == Owner("C")
           kind  == namespace[owner]
<1>3. CASE Hooked("C", "getattribute")
    BY <1>1, <1>2, <1>3, AgreeHooked, AgreeSame DEF GetOfInstance
<1>4. CASE ~Hooked("C", "getattribute")
    <2>1. /\ Data(kind) /\ "get" \notin Protocol(kind) => dictionary # "set"
          /\ Hooked("C", "getattr") /\ kind # Missing => ~IsAttributeError(GenericGet("x", answers).result)
        BY <1>1, <1>4 DEF KnownGet, NoneExposed
    <2>2. CASE Data(kind) /\ "get" \in Protocol(kind)
        <3>1. GenericGet("x", answers) = Bound(owner, TRUE, answers) /\ kind # Missing
            BY <1>1, <2>2, MissingPlain DEF GenericGet
        <3>2. GetOfInstance(answers) = DescriptorGet(owner, TRUE, answers)
            BY <1>4, <2>2, DataAlike DEF GetOfInstance
        <3> QED
            BY <1>1, <1>2, <1>4, <2>1, <3>1, <3>2, AgreeBound, AgreeFound
    <2>3. CASE ~(Data(kind) /\ "get" \in Protocol(kind)) /\ dictionary = "set"
        <3>1. GenericGet("x", answers) = Gives("dictionary")
            BY <1>1, <2>3 DEF GenericGet
        <3>2. GetOfInstance(answers) = Gives("dictionary")
            BY <1>4, <2>1, <2>3, DataAlike DEF GetOfInstance
        <3>3. ~IsAttributeError(Gives("dictionary").result)
            BY DEF IsAttributeError, Gives, Outcome, Given, Raised
        <3> QED
            BY <1>1, <1>2, <1>4, <3>1, <3>2, <3>3, AgreeSame, AgreeFound
    <2>4. CASE ~(Data(kind) /\ "get" \in Protocol(kind)) /\ dictionary # "set" /\ kind # Missing
        <3>1. GenericGet("x", answers) = Bound(owner, TRUE, answers)
            BY <1>1, <2>4 DEF GenericGet
        <3>2. GetOfInstance(answers) = DescriptorGet(owner, TRUE, answers)
            BY <1>4, <2>4 DEF GetOfInstance
        <3> QED
            BY <1>1, <1>2, <1>4, <2>1, <2>4, <3>1, <3>2, AgreeBound, AgreeFound
    <2>5. CASE dictionary # "set" /\ kind = Missing
        <3>1. GenericGet("x", answers) = Fails("AttributeError")
            BY <1>1, <2>5, MissingPlain DEF GenericGet
        <3>2. GetOfInstance(answers) = GetAtLast("C", answers)
            BY <1>4, <2>5, MissingPlain DEF GetOfInstance
        <3> QED
            BY <1>1, <1>2, <1>4, <3>1, <3>2, AgreeAtLast
    <2> QED
        BY <2>2, <2>3, <2>4, <2>5
<1> QED
    BY <1>3, <1>4

LEMMA ReadException ==
    ASSUME Kept, NoneExposed, sort = "exception", NEW answers, ~KnownGet("x", answers)
    PROVE  AgreeUpToRefusal(AttributeGet("x", answers), LanguageGet("x", answers))
<1>1. TypeOf("x") = "C" /\ ~IsClass("x")
    BY DEF TypeOf, IsClass
<1>2. AttributeGet("x", answers) = GetOfException(answers)
    BY <1>1 DEF AttributeGet
<1> DEFINE owner == Owner("C")
           kind  == namespace[owner]
<1>3. /\ Data(kind) /\ "get" \notin Protocol(kind) => dictionary # "set"
      /\ hooks["B"] = {}
    BY <1>1 DEF KnownGet, NoneExposed
<1>4. LanguageGet("x", answers) = GenericGet("x", answers)
    BY <1>1, <1>3, HookedBy DEF LanguageGet
<1>5. CASE Data(kind) /\ "get" \in Protocol(kind)
    BY <1>1, <1>2, <1>4, <1>5, AgreeBound, DataAlike DEF GenericGet, GetOfException
<1>6. CASE ~(Data(kind) /\ "get" \in Protocol(kind)) /\ dictionary = "set"
    BY <1>1, <1>2, <1>3, <1>4, <1>6, AgreeSame, DataAlike DEF GenericGet, GetOfException
<1>7. CASE ~(Data(kind) /\ "get" \in Protocol(kind)) /\ dictionary # "set"
    <2>1. CASE kind # Missing
        BY <1>1, <1>2, <1>4, <1>7, <2>1, AgreeBound DEF GenericGet, GetOfException
    <2>2. CASE kind = Missing
        BY <1>1, <1>2, <1>4, <1>7, <2>2, AgreeSame, MissingPlain DEF GenericGet, GetOfException
    <2> QED
        BY <2>1, <2>2
<1> QED
    BY <1>5, <1>6, <1>7

LEMMA ReadClass ==
    ASSUME Kept, NoneExposed, NEW r \in {"C", "B", "Meta"}, NEW answers, ~KnownGet(r, answers)
    PROVE  AgreeUpToRefusal(AttributeGet(r, answers), LanguageGet(r, answers))
<1>1. IsClass(r) /\ r # "x"
    BY DEF IsClass
<1>2. AttributeGet(r, answers) = GetOfType(r, answers)
    BY <1>1 DEF AttributeGet
<1> DEFINE meta == TypeOf(r)
           own  == Owner(r)
           high == Owner(meta)
<1>3. CASE Hooked(meta, "getattribute")
    BY <1>2, <1>3, AgreeHooked, AgreeSame DEF GetOfType
<1>4. CASE ~Hooked(meta, "getattribute")
    <2>1. /\ Data(namespace[high]) => "get" \in Protocol(namespace[high])
          /\ Hooked(meta, "getattr") /\ (namespace[high] # Missing \/ namespace[own] # Missing) =>
               ~IsAttributeError(GenericGet(r, answers).result)
        BY <1>1, <1>4 DEF KnownGet, NoneExposed
    <2>2. CASE Data(namespace[high])
        <3>1. GenericGet(r, answers) = Bound(high, TRUE, answers) /\ namespace[high] # Missing
            BY <2>1, <2>2, MissingPlain DEF GenericGet
        <3>2. GetOfType(r, answers) = DescriptorGet(high, TRUE, answers)
            BY <1>4, <2>2, DataAlike DEF GetOfType
        <3> QED
            BY <1>2, <1>4, <2>1, <3>1, <3>2, AgreeBound, AgreeFound
    <2>3. CASE ~Data(namespace[high]) /\ namespace[own] # Missing
        <3>1. GenericGet(r, answers) = Bound(own, FALSE, answers)
            BY <1>1, <2>3 DEF GenericGet
        <3>2. GetOfType(r, answers) = DescriptorGet(own, FALSE, answers)
            BY <1>4, <2>3, DataAlike DEF GetOfType
        <3> QED
            BY <1>2, <1>4, <2>1, <2>3, <3>1, <3>2, AgreeBound, AgreeFound
    <2>4. CASE ~Data(namespace[high]) /\ namespace[own] = Missing /\ namespace[high] # Missing
        <3>1. GenericGet(r, answers) = Bound(high, TRUE, answers)
            BY <1>1, <2>4 DEF GenericGet
        <3>2. GetOfType(r, answers) = DescriptorGet(high, TRUE, answers)
            BY <1>4, <2>4, DataAlike DEF GetOfType
        <3> QED
            BY <1>2, <1>4, <2>1, <2>4, <3>1, <3>2, AgreeBound, AgreeFound
    <2>5. CASE namespace[own] = Missing /\ namespace[high] = Missing
        <3>1. GenericGet(r, answers) = Fails("AttributeError")
            BY <1>1, <2>5, MissingPlain DEF GenericGet
        <3>2. GetOfType(r, answers) = GetAtLast(meta, answers)
            BY <1>4, <2>5, MissingPlain DEF GetOfType
        <3> QED
            BY <1>2, <1>4, <3>1, <3>2, AgreeAtLast
    <2> QED
        BY <2>2, <2>3, <2>4, <2>5
<1> QED
    BY <1>3, <1>4

(* super() finds what is in B only, and nothing beyond B. *)
LEMMA ReadSuper ==
    ASSUME Kept, NEW start \in {"C", "B"}, NEW answers
    PROVE  AgreeUpToRefusal(SuperGet(start, answers),
                IF start = "C" /\ namespace["B"] # Missing THEN Bound("B", TRUE, answers)
                ELSE Fails("AttributeError"))
<1>1. CASE start = "C"
    <2>1. CASE namespace["B"] # Missing
        <3>1. OwnerIn(IF start = "C" THEN <<"B">> ELSE <<>>) = "B"
            BY <1>1, <2>1, OwnerOfOne
        <3>2. SuperGet(start, answers) = IF namespace["B"] = Missing THEN Fails("AttributeError")
                                         ELSE DescriptorGet("B", TRUE, answers)
            <4>1. PICK order : order = IF start = "C" THEN <<"B">> ELSE <<>>
                OBVIOUS
            <4>2. OwnerIn(order) = "B"
                BY <3>1, <4>1, Zenon
            <4> QED
                BY <4>1, <4>2, Zenon DEF SuperGet
        <3> QED
            BY <1>1, <2>1, <3>2, AgreeBound
    <2>2. CASE namespace["B"] = Missing
        BY <1>1, <2>2, OwnerOfOne, AgreeSame DEF SuperGet, Kept
    <2> QED
        BY <2>1, <2>2
<1>2. CASE start # "C"
    BY <1>2, OwnerOfNone, AgreeSame DEF SuperGet, Kept
<1> QED
    BY <1>1, <1>2

LEMMA Reads == Kept /\ NoneExposed => ReadsFollowDataModel
<1> SUFFICES ASSUME Kept, NoneExposed, NEW answers \in GetAnswers
             PROVE  /\ \A r \in {"x", "C", "B", "Meta"} : ~KnownGet(r, answers) =>
                         AgreeUpToRefusal(AttributeGet(r, answers), LanguageGet(r, answers))
                    /\ \A start \in {"C", "B"} :
                         AgreeUpToRefusal(SuperGet(start, answers),
                            IF start = "C" /\ namespace["B"] # Missing THEN Bound("B", TRUE, answers)
                            ELSE Fails("AttributeError"))
    BY AgreeOnResult DEF ReadsFollowDataModel
<1>1. ~KnownGet("x", answers) => AgreeUpToRefusal(AttributeGet("x", answers), LanguageGet("x", answers))
    BY ReadInstance, ReadException DEF Kept
<1> QED
    BY <1>1, ReadClass, ReadSuper

-----------------------------------------------------------------------------
(* Writing *)

(* Outcomes of an operation that writes agree when the worlds they leave do too. *)
Alike(coded, said) == AgreeUpToRefusal(coded, said) /\ coded.world = said.world

LEMMA AlikeSame == \A outcome : Alike(outcome, outcome)
BY DEF Alike, AgreeUpToRefusal

LEMMA AlikeRefused == Alike(Keeps(Fails("RuntimeError")), Keeps(Fails("AttributeError")))
BY DEF Alike, AgreeUpToRefusal, Keeps, Leaves, Fails, Outcome

(* A function of the program is asked in the same way by both. *)
Asked(class, function, answers) ==
    Keeps(IF Asks(class, function, answers).result.is = "value"
          THEN After(Asks(class, function, answers), Done) ELSE Asks(class, function, answers))

(* The member is set or no longer set. *)
Slots(taken) == Leaves(Done, [World EXCEPT !.slot = taken])

LEMMA HooksApply ==
    ASSUME Kept, NoneExposed, NEW r \in {"x", "C", "B", "Meta"}, ~KnownWrite(r), NEW hook
    PROVE  HookApplies(r, hook) <=> Hooked(TypeOf(r), hook)
<1>1. CASE r = "x" /\ sort = "exception"
    <2>1. hooks["B"] = {} /\ TypeOf(r) = "C"
        BY <1>1 DEF KnownWrite, NoneExposed, TypeOf
    <2> QED
        BY <1>1, <2>1, HookedBy DEF HookApplies
<1>2. CASE ~(r = "x" /\ sort = "exception")
    BY <1>2 DEF HookApplies
<1> QED
    BY <1>1, <1>2

(* What the language does when the hook is there, and when it is not. *)
LEMMA LanguageSets ==
    ASSUME NEW r, NEW answers, NEW change
    PROVE  LET class == TypeOf(r)
               owner == Owner(class)
               kind  == namespace[owner]
               said  == LanguageWrite(r, "setattr", "set", answers, change)
           IN  /\ Hooked(class, "setattr") => said = Asked(class, "setattr", answers)
               /\ ~Hooked(class, "setattr") /\ ~Data(kind) => said = change
               /\ ~Hooked(class, "setattr") /\ Data(kind) /\ kind.is = "member" =>
                    said = Slots(TRUE)
               /\ ~Hooked(class, "setattr") /\ Data(kind) /\ kind.is # "member" =>
                    /\ "set" \in kind.has => said = Asked(owner, "set", answers)
                    /\ "set" \notin kind.has => said = Keeps(Fails("AttributeError"))
<1>1. PICK class : class = TypeOf(r)
    OBVIOUS
<1>2. PICK owner : owner = Owner(class)
    OBVIOUS
<1>3. PICK kind : kind = namespace[owner]
    OBVIOUS
<1>4. PICK said : said = LanguageWrite(r, "setattr", "set", answers, change)
    OBVIOUS
<1>5. PICK taken : taken = ("set" = "set")
    OBVIOUS
<1>6. PICK deletes : deletes = ("set" = "delete")
    OBVIOUS
<1>7. said = IF Hooked(class, "setattr") THEN Asked(class, "setattr", answers)
             ELSE IF ~Data(kind) THEN change
             ELSE IF kind.is = "member"
             THEN IF deletes /\ ~slot THEN Keeps(Fails("AttributeError")) ELSE Slots(taken)
             ELSE IF "set" \in kind.has THEN Asked(owner, "set", answers)
             ELSE Keeps(Fails("AttributeError"))
    BY <1>1, <1>2, <1>3, <1>4, <1>5, <1>6, Zenon DEF LanguageWrite, Asked, Slots
<1>8. taken = TRUE /\ ~deletes
    BY <1>5, <1>6
<1> QED
    BY <1>1, <1>2, <1>3, <1>4, <1>7, <1>8

LEMMA LanguageDeletes ==
    ASSUME NEW r, NEW answers, NEW change
    PROVE  LET class == TypeOf(r)
               owner == Owner(class)
               kind  == namespace[owner]
               said  == LanguageWrite(r, "delattr", "delete", answers, change)
           IN  /\ Hooked(class, "delattr") => said = Asked(class, "delattr", answers)
               /\ ~Hooked(class, "delattr") /\ ~Data(kind) => said = change
               /\ ~Hooked(class, "delattr") /\ Data(kind) /\ kind.is = "member" =>
                    said = IF slot THEN Slots(FALSE) ELSE Keeps(Fails("AttributeError"))
               /\ ~Hooked(class, "delattr") /\ Data(kind) /\ kind.is # "member" =>
                    /\ "delete" \in kind.has => said = Asked(owner, "delete", answers)
                    /\ "delete" \notin kind.has => said = Keeps(Fails("AttributeError"))
<1>1. PICK class : class = TypeOf(r)
    OBVIOUS
<1>2. PICK owner : owner = Owner(class)
    OBVIOUS
<1>3. PICK kind : kind = namespace[owner]
    OBVIOUS
<1>4. PICK said : said = LanguageWrite(r, "delattr", "delete", answers, change)
    OBVIOUS
<1>5. PICK taken : taken = ("delete" = "set")
    OBVIOUS
<1>6. PICK deletes : deletes = ("delete" = "delete")
    OBVIOUS
<1>7. said = IF Hooked(class, "delattr") THEN Asked(class, "delattr", answers)
             ELSE IF ~Data(kind) THEN change
             ELSE IF kind.is = "member"
             THEN IF deletes /\ ~slot THEN Keeps(Fails("AttributeError")) ELSE Slots(taken)
             ELSE IF "delete" \in kind.has THEN Asked(owner, "delete", answers)
             ELSE Keeps(Fails("AttributeError"))
    BY <1>1, <1>2, <1>3, <1>4, <1>5, <1>6, Zenon DEF LanguageWrite, Asked, Slots
<1>8. taken = FALSE /\ deletes
    BY <1>5, <1>6
<1> QED
    BY <1>1, <1>2, <1>3, <1>4, <1>7, <1>8

LEMMA SetAlike ==
    ASSUME Kept, NoneExposed, NEW r \in {"x", "C", "B", "Meta"}, ~KnownWrite(r), NEW new, NEW answers
    PROVE  Alike(AttributeSet(r, new, answers), LanguageSet(r, new, answers))
<1>1. PICK class : class = TypeOf(r)
    OBVIOUS
<1>2. PICK owner : owner = Owner(class)
    OBVIOUS
<1>3. PICK kind : kind = namespace[owner]
    OBVIOUS
<1>4. PICK change : change = IF IsClass(r) THEN Leaves(Done, [World EXCEPT !.namespace[r] = new, !.told = Observers(r)])
                             ELSE IF dictionary = "none" THEN Keeps(Fails("AttributeError"))
                             ELSE Leaves(Done, [World EXCEPT !.dictionary = "set"])
    OBVIOUS
<1>5. PICK said : said = LanguageWrite(r, "setattr", "set", answers, change)
    OBVIOUS
<1>6. LanguageSet(r, new, answers) = said
    BY <1>4, <1>5, Zenon DEF LanguageSet
<1>7. /\ Hooked(class, "setattr") => said = Asked(class, "setattr", answers)
      /\ ~Hooked(class, "setattr") /\ ~Data(kind) => said = change
      /\ ~Hooked(class, "setattr") /\ Data(kind) /\ kind.is = "member" =>
           said = Slots(TRUE)
      /\ ~Hooked(class, "setattr") /\ Data(kind) /\ kind.is # "member" /\ "set" \in kind.has =>
           said = Asked(owner, "set", answers)
      /\ ~Hooked(class, "setattr") /\ Data(kind) /\ kind.is # "member" /\ "set" \notin kind.has =>
           said = Keeps(Fails("AttributeError"))
    BY <1>1, <1>2, <1>3, <1>5, LanguageSets
<1>8. HookApplies(r, "setattr") <=> Hooked(class, "setattr")
    BY <1>1, HooksApply
<1>9. CASE Hooked(class, "setattr")
    <2>1. AttributeSet(r, new, answers) = Asked(class, "setattr", answers)
        BY <1>1, <1>8, <1>9, Zenon DEF AttributeSet, ThroughHook, Asked
    <2> QED
        BY <1>6, <1>7, <1>9, <2>1, AlikeSame
<1>10. CASE ~Hooked(class, "setattr") /\ IsClass(r)
    <2>1. AttributeSet(r, new, answers) = change
        BY <1>4, <1>8, <1>10, Zenon DEF AttributeSet
    <2>2. ~Data(kind)
        BY <1>1, <1>2, <1>3, <1>10 DEF KnownWrite, NoneExposed
    <2> QED
        BY <1>6, <1>7, <1>10, <2>1, <2>2, AlikeSame
<1>11. CASE ~Hooked(class, "setattr") /\ ~IsClass(r)
    <2>1. class = "C"
        BY <1>1, <1>11 DEF IsClass, TypeOf
    <2>2. AttributeSet(r, new, answers) = IF DescriptorIsData(kind) THEN DescriptorSet(owner, answers) ELSE change
        BY <1>2, <1>3, <1>4, <1>8, <1>11, <2>1, Zenon DEF AttributeSet
    <2>3. CASE ~Data(kind)
        BY <1>6, <1>7, <1>11, <2>2, <2>3, AlikeSame, DataAlike
    <2>4. CASE Data(kind) /\ kind.is = "member"
        <3>1. DescriptorSet(owner, answers) = Slots(TRUE)
            BY <1>3, <2>4, Zenon DEF DescriptorSet, Slots
        <3> QED
            BY <1>6, <1>7, <1>11, <2>2, <2>4, <3>1, AlikeSame, DataAlike
    <2>5. CASE Data(kind) /\ kind.is # "member" /\ "set" \in kind.has
        <3>1. DescriptorSet(owner, answers) = Asked(owner, "set", answers)
            BY <1>3, <2>5, Zenon DEF DescriptorSet, Asked
        <3> QED
            BY <1>6, <1>7, <1>11, <2>2, <2>5, <3>1, AlikeSame, DataAlike
    <2>6. CASE Data(kind) /\ kind.is # "member" /\ "set" \notin kind.has
        <3>1. DescriptorSet(owner, answers) = Keeps(Fails("RuntimeError"))
            BY <1>3, <2>6, Zenon DEF DescriptorSet
        <3> QED
            BY <1>6, <1>7, <1>11, <2>2, <2>6, <3>1, AlikeRefused, DataAlike
    <2> QED
        BY <2>3, <2>4, <2>5, <2>6
<1> QED
    BY <1>9, <1>10, <1>11

LEMMA DeleteAlike ==
    ASSUME Kept, NoneExposed, NEW r \in {"x", "C", "B", "Meta"}, ~KnownWrite(r), NEW answers
    PROVE  Alike(AttributeDelete(r, answers), LanguageDelete(r, answers))
<1>1. PICK class : class = TypeOf(r)
    OBVIOUS
<1>2. PICK owner : owner = Owner(class)
    OBVIOUS
<1>3. PICK kind : kind = namespace[owner]
    OBVIOUS
<1>4. PICK gone : gone = IF IsClass(r) THEN namespace[r] = Missing ELSE dictionary # "set"
    OBVIOUS
<1>5. PICK taken : taken = IF IsClass(r) THEN Leaves(Done, [World EXCEPT !.namespace[r] = Missing, !.told = Observers(r)])
                           ELSE Leaves(Done, [World EXCEPT !.dictionary = "unset"])
    OBVIOUS
<1>6. PICK change : change = IF gone THEN Keeps(Fails("AttributeError")) ELSE taken
    OBVIOUS
<1>7. PICK said : said = LanguageWrite(r, "delattr", "delete", answers, change)
    OBVIOUS
<1>8. LanguageDelete(r, answers) = said
    BY <1>4, <1>5, <1>6, <1>7, Zenon DEF LanguageDelete
<1>9. /\ Hooked(class, "delattr") => said = Asked(class, "delattr", answers)
      /\ ~Hooked(class, "delattr") /\ ~Data(kind) => said = change
      /\ ~Hooked(class, "delattr") /\ Data(kind) /\ kind.is = "member" =>
           said = IF slot THEN Slots(FALSE) ELSE Keeps(Fails("AttributeError"))
      /\ ~Hooked(class, "delattr") /\ Data(kind) /\ kind.is # "member" /\ "delete" \in kind.has =>
           said = Asked(owner, "delete", answers)
      /\ ~Hooked(class, "delattr") /\ Data(kind) /\ kind.is # "member" /\ "delete" \notin kind.has =>
           said = Keeps(Fails("AttributeError"))
    BY <1>1, <1>2, <1>3, <1>7, LanguageDeletes
<1>10. HookApplies(r, "delattr") <=> Hooked(class, "delattr")
    BY <1>1, HooksApply
<1>11. CASE Hooked(class, "delattr")
    <2>1. AttributeDelete(r, answers) = Asked(class, "delattr", answers)
        BY <1>1, <1>10, <1>11, Zenon DEF AttributeDelete, ThroughHook, Asked
    <2> QED
        BY <1>8, <1>9, <1>11, <2>1, AlikeSame
<1>12. CASE ~Hooked(class, "delattr") /\ IsClass(r)
    <2>1. AttributeDelete(r, answers) = IF namespace[r] = Missing THEN Keeps(Fails("AttributeError")) ELSE taken
        BY <1>5, <1>10, <1>12, Zenon DEF AttributeDelete
    <2>2. ~Data(kind)
        BY <1>1, <1>2, <1>3, <1>12 DEF KnownWrite, NoneExposed
    <2>3. gone <=> namespace[r] = Missing
        BY <1>4, <1>12
    <2> QED
        BY <1>6, <1>8, <1>9, <1>12, <2>1, <2>2, <2>3, AlikeSame
<1>13. CASE ~Hooked(class, "delattr") /\ ~IsClass(r)
    <2>1. class = "C"
        BY <1>1, <1>13 DEF IsClass, TypeOf
    <2>2. AttributeDelete(r, answers) = IF DescriptorIsData(kind) THEN DescriptorDelete(owner, answers)
                                        ELSE IF dictionary = "set" THEN taken
                                        ELSE Keeps(Fails("AttributeError"))
        BY <1>2, <1>3, <1>5, <1>10, <1>13, <2>1, Zenon DEF AttributeDelete
    <2>3. gone <=> dictionary # "set"
        BY <1>4, <1>13
    <2>4. CASE ~Data(kind)
        BY <1>6, <1>8, <1>9, <1>13, <2>2, <2>3, <2>4, AlikeSame, DataAlike
    <2>5. CASE Data(kind) /\ kind.is = "member"
        <3>1. DescriptorDelete(owner, answers) = IF slot THEN Slots(FALSE) ELSE Keeps(Fails("AttributeError"))
            BY <1>3, <2>5, Zenon DEF DescriptorDelete, Slots
        <3>2. said = IF slot THEN Slots(FALSE) ELSE Keeps(Fails("AttributeError"))
            BY <1>9, <1>13, <2>5
        <3>3. said = DescriptorDelete(owner, answers)
            BY <3>1, <3>2, Zenon
        <3>4. AttributeDelete(r, answers) = said
            BY <2>2, <2>5, <3>3, DataAlike
        <3> QED
            BY <1>8, <3>4, AlikeSame
    <2>6. CASE Data(kind) /\ kind.is # "member" /\ "delete" \in kind.has
        <3>1. DescriptorDelete(owner, answers) = Asked(owner, "delete", answers)
            BY <1>3, <2>6, Zenon DEF DescriptorDelete, Asked
        <3> QED
            BY <1>8, <1>9, <1>13, <2>2, <2>6, <3>1, AlikeSame, DataAlike
    <2>7. CASE Data(kind) /\ kind.is # "member" /\ "delete" \notin kind.has
        <3>1. DescriptorDelete(owner, answers) = Keeps(Fails("RuntimeError"))
            BY <1>3, <2>7, Zenon DEF DescriptorDelete
        <3> QED
            BY <1>8, <1>9, <1>13, <2>2, <2>7, <3>1, AlikeRefused, DataAlike
    <2> QED
        BY <2>4, <2>5, <2>6, <2>7
<1> QED
    BY <1>11, <1>12, <1>13

LEMMA Writes == Kept /\ NoneExposed => WritesFollowDataModel
BY SetAlike, DeleteAlike DEF WritesFollowDataModel, Alike

-----------------------------------------------------------------------------
(* Steps *)

(* An operation leaves the namespaces alone, or changes what one class holds and *)
(* tells the observers of the class.                                            *)
Typed(world) ==
    /\ world.dictionary \in {"none", "unset", "set"}
    /\ world.slot \in BOOLEAN /\ world.title \in {"old", "new"}
    /\ world.told \subseteq Types
Leaving(world) == Typed(world) /\ world.namespace = namespace
Rebinding(world, r, kind) ==
    Typed(world) /\ world.namespace = [namespace EXCEPT ![r] = kind] /\ world.told = Observers(r)

LEMMA ObserversAre ==
    /\ Observers("C") = {"C"} /\ Observers("B") = {"C", "B"} /\ Observers("Meta") = {"C", "B", "Meta"}
    /\ \A r : Observers(r) \subseteq Types
<1>1. Mro["C"] = <<"C", "B">> /\ Mro["B"] = <<"B">> /\ Mro["Meta"] = <<"Meta">> /\ Mro["type"] = <<>>
    BY DEF Mro
<1>2. /\ DOMAIN <<"C", "B">> = {1, 2} /\ <<"C", "B">>[1] = "C" /\ <<"C", "B">>[2] = "B"
      /\ DOMAIN <<"B">> = {1} /\ <<"B">>[1] = "B"
      /\ DOMAIN <<"Meta">> = {1} /\ <<"Meta">>[1] = "Meta" /\ DOMAIN <<>> = {}
    OBVIOUS
<1>3. \A r : \A t \in Types : t \in Observers(r) <=>
                 \/ t = r
                 \/ \E i \in DOMAIN Mro[t] : Mro[t][i] = r
                 \/ \E j \in DOMAIN Mro[TypeOf(t)] : Mro[TypeOf(t)][j] = r
    BY DEF Observers
<1>4. \A r : Observers(r) \subseteq Types
    <2> SUFFICES ASSUME NEW r PROVE Observers(r) \subseteq Types
        OBVIOUS
    <2> DEFINE sees(t) == \/ t = r
                          \/ \E i \in DOMAIN Mro[t] : Mro[t][i] = r
                          \/ \E j \in DOMAIN Mro[TypeOf(t)] : Mro[TypeOf(t)][j] = r
    <2>1. Observers(r) = {t \in Types : sees(t)}
        BY DEF Observers
    <2> HIDE DEF sees
    <2> QED
        BY <2>1
<1>5. TypeOf("C") = "Meta" /\ TypeOf("B") = "Meta" /\ TypeOf("Meta") = "type" /\ TypeOf("type") = "type"
    BY DEF TypeOf
<1>6. /\ \A r : "C" \in Observers(r) <=> r \in {"C", "B", "Meta"}
      /\ \A r : "B" \in Observers(r) <=> r \in {"B", "Meta"}
      /\ \A r : "Meta" \in Observers(r) <=> r = "Meta"
      /\ \A r : "type" \in Observers(r) <=> r = "type"
    BY <1>1, <1>2, <1>3, <1>5 DEF Types
<1> QED
    BY <1>4, <1>6 DEF Types

LEMMA WorldStays ==
    ASSUME Kept
    PROVE  /\ Leaving(World)
           /\ \A b \in BOOLEAN : Leaving([World EXCEPT !.slot = b])
           /\ \A d \in {"unset", "set"} : Leaving([World EXCEPT !.dictionary = d])
           /\ Leaving([World EXCEPT !.title = "new", !.told = Observers("C")])
BY ObserversAre DEF Kept, Leaving, Typed, World

LEMMA WorldChanges ==
    ASSUME Kept, NEW r, NEW kind
    PROVE  Rebinding([World EXCEPT !.namespace[r] = kind, !.told = Observers(r)], r, kind)
BY ObserversAre DEF Kept, Rebinding, Typed, World

LEMMA WorldOf == \A o, w : Leaves(o, w).world = w /\ Keeps(o).world = World
BY DEF Leaves, Keeps

LEMMA SetLeaves ==
    ASSUME Kept, NEW r \in {"x", "C", "B", "Meta"}, NEW kind, NEW answers,
           NEW world, world = AttributeSet(r, kind, answers).world
    PROVE  Leaving(world) \/ (r # "x" /\ Rebinding(world, r, kind))
<1>1. CASE HookApplies(r, "setattr")
    BY <1>1, WorldOf, WorldStays DEF AttributeSet, ThroughHook
<1>2. CASE ~HookApplies(r, "setattr") /\ IsClass(r)
    <2>1. PICK w : w = [World EXCEPT !.namespace[r] = kind, !.told = Observers(r)]
        OBVIOUS
    <2>2. Rebinding(w, r, kind)
        BY <2>1, WorldChanges
    <2>3. AttributeSet(r, kind, answers) = Leaves(Done, w)
        BY <1>2, <2>1, Zenon DEF AttributeSet
    <2> QED
        BY <1>2, <2>2, <2>3, WorldOf DEF IsClass
<1>3. CASE ~HookApplies(r, "setattr") /\ ~IsClass(r)
    <2>1. PICK held, filed : held = [World EXCEPT !.slot = TRUE] /\ filed = [World EXCEPT !.dictionary = "set"]
        OBVIOUS
    <2>2. Leaving(World) /\ Leaving(held) /\ Leaving(filed)
        BY <2>1, WorldStays
    <2>3. PICK owner : owner = Owner("C")
        OBVIOUS
    <2>4. AttributeSet(r, kind, answers) = IF DescriptorIsData(namespace[owner]) THEN DescriptorSet(owner, answers)
                                           ELSE IF dictionary = "none" THEN Keeps(Fails("AttributeError"))
                                           ELSE Leaves(Done, filed)
        BY <1>3, <2>1, <2>3, Zenon DEF AttributeSet
    <2>5. DescriptorSet(owner, answers).world \in {World, held}
        <3>1. CASE namespace[owner].is = "member"
            BY <2>1, <3>1, WorldOf, Zenon DEF DescriptorSet
        <3>2. CASE namespace[owner].is # "member"
            BY <3>2, WorldOf, Zenon DEF DescriptorSet
        <3> QED
            BY <3>1, <3>2
    <2> QED
        BY <2>2, <2>4, <2>5, WorldOf
<1> QED
    BY <1>1, <1>2, <1>3

LEMMA DeleteLeaves ==
    ASSUME Kept, NEW r \in {"x", "C", "B", "Meta"}, NEW answers,
           NEW world, world = AttributeDelete(r, answers).world
    PROVE  Leaving(world) \/ (r # "x" /\ Rebinding(world, r, Missing))
<1>1. CASE HookApplies(r, "delattr")
    BY <1>1, WorldOf, WorldStays DEF AttributeDelete, ThroughHook
<1>2. CASE ~HookApplies(r, "delattr") /\ IsClass(r)
    <2>1. PICK w : w = [World EXCEPT !.namespace[r] = Missing, !.told = Observers(r)]
        OBVIOUS
    <2>2. Rebinding(w, r, Missing) /\ Leaving(World)
        BY <2>1, WorldChanges, WorldStays
    <2>3. AttributeDelete(r, answers) =
            IF namespace[r] = Missing THEN Keeps(Fails("AttributeError")) ELSE Leaves(Done, w)
        BY <1>2, <2>1, Zenon DEF AttributeDelete
    <2> QED
        BY <1>2, <2>2, <2>3, WorldOf DEF IsClass
<1>3. CASE ~HookApplies(r, "delattr") /\ ~IsClass(r)
    <2>1. PICK freed, erased : freed = [World EXCEPT !.slot = FALSE] /\ erased = [World EXCEPT !.dictionary = "unset"]
        OBVIOUS
    <2>2. Leaving(World) /\ Leaving(freed) /\ Leaving(erased)
        BY <2>1, WorldStays
    <2>3. PICK owner : owner = Owner("C")
        OBVIOUS
    <2>4. AttributeDelete(r, answers) = IF DescriptorIsData(namespace[owner]) THEN DescriptorDelete(owner, answers)
                                        ELSE IF dictionary = "set" THEN Leaves(Done, erased)
                                        ELSE Keeps(Fails("AttributeError"))
        BY <1>3, <2>1, <2>3, Zenon DEF AttributeDelete
    <2>5. DescriptorDelete(owner, answers).world \in {World, freed}
        <3>1. CASE namespace[owner].is = "member"
            BY <2>1, <3>1, WorldOf, Zenon DEF DescriptorDelete
        <3>2. CASE namespace[owner].is # "member"
            BY <3>2, WorldOf, Zenon DEF DescriptorDelete
        <3> QED
            BY <3>1, <3>2
    <2> QED
        BY <2>2, <2>4, <2>5, WorldOf
<1> QED
    BY <1>1, <1>2, <1>3

LEMMA NameLeaves ==
    ASSUME Kept, NEW text, NEW answers, NEW world, world = NameSet(text, answers).world
    PROVE  Leaving(world)
BY WorldOf, WorldStays DEF NameSet, ThroughHook

(* What a step does: the namespaces stay, or one class holds something else and *)
(* its observers are told.                                                     *)
Stays ==
    /\ namespace' = namespace
    /\ dictionary' \in {"none", "unset", "set"} /\ slot' \in BOOLEAN /\ title' \in {"old", "new"}
    /\ told' \subseteq Types
Rebinds(r, kind) ==
    /\ namespace' = [namespace EXCEPT ![r] = kind]
    /\ dictionary' \in {"none", "unset", "set"} /\ slot' \in BOOLEAN /\ title' \in {"old", "new"}
    /\ told' = Observers(r)

LEMMA Becoming ==
    ASSUME Kept, NEW written, Become(written)
    PROVE  /\ Leaving(written.world) => Stays
           /\ \A r, kind : Rebinding(written.world, r, kind) => Rebinds(r, kind)
           /\ hooks' = hooks /\ sort' = sort
<1>1. PICK world : world = written.world
    OBVIOUS
<1>2. /\ namespace' = world.namespace /\ dictionary' = world.dictionary /\ slot' = world.slot
      /\ title' = world.title /\ told' = world.told
    BY <1>1 DEF Become
<1>3. Leaving(world) => Stays
    BY <1>2 DEF Leaving, Typed, Stays
<1>4. \A r, kind : Rebinding(world, r, kind) => Rebinds(r, kind)
    <2> SUFFICES ASSUME NEW r, NEW kind, Rebinding(world, r, kind) PROVE Rebinds(r, kind)
        OBVIOUS
    <2>1. Typed(world) /\ world.namespace = [namespace EXCEPT ![r] = kind] /\ world.told = Observers(r)
        BY Zenon DEF Rebinding
    <2>2. namespace' = [namespace EXCEPT ![r] = kind]
        BY <1>2, <2>1, Zenon
    <2> QED
        BY <1>2, <2>1, <2>2, Zenon DEF Rebinds, Typed
<1> QED
    BY <1>1, <1>3, <1>4 DEF Become

LEMMA StepDoes ==
    ASSUME AttributesAssumption, Kept, [Next]_vars
    PROVE  /\ Stays \/ \E r \in {"C", "B", "Meta"}, kind \in Kinds : Rebinds(r, kind)
           /\ hooks' = hooks /\ sort' = sort
<1>1. CASE SetOfInstance
    <2>1. PICK written : written = AttributeSet("x", Plain, Yes)
        OBVIOUS
    <2>2. Become(written)
        BY <1>1, <2>1 DEF SetOfInstance
    <2>3. Leaving(written.world)
        BY <2>1, SetLeaves
    <2> QED
        BY <2>2, <2>3, Becoming
<1>2. ASSUME NEW r \in {"C", "B", "Meta"}, NEW kind \in Kinds, Become(AttributeSet(r, kind, Yes))
      PROVE  /\ Stays \/ Rebinds(r, kind)
             /\ hooks' = hooks /\ sort' = sort
    <2>1. PICK written : written = AttributeSet(r, kind, Yes)
        OBVIOUS
    <2>2. Become(written)
        BY <1>2, <2>1
    <2>3. Leaving(written.world) \/ Rebinding(written.world, r, kind)
        BY <2>1, SetLeaves
    <2> QED
        BY <2>2, <2>3, Becoming
<1>3. \A r \in {"C", "B", "Meta"} : KindsOf[r] \subseteq Kinds
    BY DEF AttributesAssumption
<1>4. CASE SetOfClass
    BY <1>2, <1>3, <1>4 DEF SetOfClass
<1>5. CASE SetName
    <2>1. PICK text \in BOOLEAN : Become(NameSet(text, Yes))
        BY <1>5 DEF SetName
    <2>2. PICK written : written = NameSet(text, Yes)
        OBVIOUS
    <2>3. Leaving(written.world)
        BY <2>2, NameLeaves
    <2> QED
        BY <2>1, <2>2, <2>3, Becoming
<1>6. CASE Delete
    <2>1. PICK r \in {"x", "C", "B", "Meta"} : Become(AttributeDelete(r, Yes))
        BY <1>6 DEF Delete
    <2>2. PICK written : written = AttributeDelete(r, Yes)
        OBVIOUS
    <2>3. Leaving(written.world) \/ (r # "x" /\ Rebinding(written.world, r, Missing))
        BY <2>2, DeleteLeaves
    <2>4. Stays \/ (r # "x" /\ Rebinds(r, Missing))
        BY <2>1, <2>2, <2>3, Becoming
    <2> QED
        BY <2>1, <2>2, <2>4, Becoming, MissingPlain
<1>7. CASE ReplaceProperty
    BY <1>2, <1>3, <1>7 DEF ReplaceProperty
<1>8. CASE UNCHANGED vars
    BY <1>8 DEF vars, Stays, Kept
<1> QED
    BY <1>1, <1>4, <1>5, <1>6, <1>7, <1>8 DEF Next

LEMMA KeptInit == AttributesAssumption /\ Init => Kept
<1> SUFFICES ASSUME AttributesAssumption, Init PROVE Kept
    OBVIOUS
<1>1. PICK slotted \in Slotted :
         namespace = [t \in Types |-> IF t = "B" /\ slotted THEN Member ELSE Missing]
    BY DEF Init
<1>2. namespace \in [Types -> Kinds] /\ namespace["type"] = Missing
    BY <1>1, MissingPlain DEF Types
<1>3. hooks \in [Types -> SUBSET Hooks] /\ hooks["C"] = {} /\ hooks["type"] = {}
    BY DEF AttributesAssumption, Init
<1>4. /\ dictionary \in {"none", "unset", "set"} /\ slot \in BOOLEAN /\ title \in {"old", "new"}
      /\ told \subseteq Types
    BY DEF Init
<1>5. sort \in {"instance", "exception"}
    BY DEF AttributesAssumption, Init
<1> QED
    BY <1>2, <1>3, <1>4, <1>5 DEF Kept

LEMMA KeptStep == AttributesAssumption /\ Kept /\ [Next]_vars => Kept'
<1> SUFFICES ASSUME AttributesAssumption, Kept, [Next]_vars
             PROVE  Kept'
    OBVIOUS
<1>1. hooks' = hooks /\ sort' = sort
    BY StepDoes
<1>2. CASE Stays
    BY <1>1, <1>2 DEF Kept, Stays
<1>3. CASE \E r \in {"C", "B", "Meta"}, kind \in Kinds : Rebinds(r, kind)
    <2>1. PICK r \in {"C", "B", "Meta"}, kind \in Kinds : Rebinds(r, kind)
        BY <1>3
    <2>2. namespace' \in [Types -> Kinds] /\ namespace'["type"] = Missing
        BY <2>1 DEF Kept, Rebinds, Types
    <2>3. told' \subseteq Types
        BY <2>1, ObserversAre DEF Rebinds
    <2> QED
        BY <1>1, <2>1, <2>2, <2>3 DEF Kept, Rebinds
<1> QED
    BY <1>2, <1>3, StepDoes

LEMMA KeptAlways == AttributesAssumption => (Spec => []Kept)
<1> SUFFICES ASSUME AttributesAssumption PROVE Spec => []Kept
    OBVIOUS
<1>1. Init => Kept
    BY KeptInit
<1>2. Kept /\ [Next]_vars => Kept'
    BY KeptStep
<1> QED
    BY <1>1, <1>2, PTL DEF Spec

(* What is found after a step. *)
LEMMA OwnersNext ==
    /\ Owner("C")' = IF namespace'["C"] # Missing THEN "C"
                     ELSE IF namespace'["B"] # Missing THEN "B" ELSE "type"
    /\ Owner("B")' = IF namespace'["B"] # Missing THEN "B" ELSE "type"
    /\ Owner("Meta")' = IF namespace'["Meta"] # Missing THEN "Meta" ELSE "type"
    /\ Owner("type")' = "type"
<1>1. (/\ Owner("C") = IF namespace["C"] # Missing THEN "C"
                       ELSE IF namespace["B"] # Missing THEN "B" ELSE "type"
       /\ Owner("B") = IF namespace["B"] # Missing THEN "B" ELSE "type"
       /\ Owner("Meta") = IF namespace["Meta"] # Missing THEN "Meta" ELSE "type"
       /\ Owner("type") = "type")'
    BY Owners, PTL
<1> QED
    BY <1>1

LEMMA ToldStep == AttributesAssumption /\ Kept /\ [Next]_vars => SeenIsTold
<1> SUFFICES ASSUME AttributesAssumption, Kept, [Next]_vars,
                    NEW t \in Types, Seen(t)' # Seen(t)
             PROVE  t \in told'
    BY DEF SeenIsTold
<1>1. /\ TypeOf("C") = "Meta" /\ TypeOf("B") = "Meta" /\ TypeOf("Meta") = "type" /\ TypeOf("type") = "type"
      /\ t \in {"C", "B", "Meta", "type"}
    BY DEF TypeOf, Types
<1>2. Seen(t) = <<namespace[Owner(t)], namespace[Owner(TypeOf(t))]>>
    BY DEF Seen
<1>3. Seen(t)' = <<namespace'[Owner(t)'], namespace'[Owner(TypeOf(t))']>>
    BY DEF Seen
<1>4. CASE Stays
    <2>1. namespace' = namespace
        BY <1>4 DEF Stays
    <2>2. \A c \in Types : Owner(c)' = Owner(c)
        BY <2>1, Owners, OwnersNext DEF Types
    <2>3. TypeOf(t) \in Types
        BY <1>1 DEF Types
    <2>4. Owner(t)' = Owner(t) /\ Owner(TypeOf(t))' = Owner(TypeOf(t))
        BY <2>2, <2>3
    <2> QED
        BY <1>2, <1>3, <2>1, <2>4
<1>5. CASE \E r \in {"C", "B", "Meta"}, kind \in Kinds : Rebinds(r, kind)
    <2>1. PICK r \in {"C", "B", "Meta"}, kind \in Kinds : Rebinds(r, kind)
        BY <1>5
    <2>2. namespace' = [namespace EXCEPT ![r] = kind] /\ told' = Observers(r)
        BY <2>1 DEF Rebinds
    <2>3. namespace \in [Types -> Kinds] /\ \A c \in Types : c # r => namespace'[c] = namespace[c]
        BY <2>2 DEF Kept
    <2>4. CASE r = "C"
        <3>1. ASSUME t # "C" PROVE Seen(t)' = Seen(t)
            BY <1>1, <1>2, <1>3, <2>3, <2>4, <3>1, Owners, OwnersNext DEF Types
        <3> QED
            BY <2>2, <2>4, <3>1, ObserversAre
    <2>5. CASE r = "B"
        <3>1. ASSUME t \notin {"C", "B"} PROVE Seen(t)' = Seen(t)
            BY <1>1, <1>2, <1>3, <2>3, <2>5, <3>1, Owners, OwnersNext DEF Types
        <3> QED
            BY <2>2, <2>5, <3>1, ObserversAre
    <2>6. CASE r = "Meta"
        <3>1. ASSUME t \notin {"C", "B", "Meta"} PROVE Seen(t)' = Seen(t)
            BY <1>1, <1>2, <1>3, <2>3, <2>6, <3>1, Owners, OwnersNext DEF Types
        <3> QED
            BY <2>2, <2>6, <3>1, ObserversAre
    <2> QED
        BY <2>1, <2>4, <2>5, <2>6
<1> QED
    BY <1>4, <1>5, StepDoes

-----------------------------------------------------------------------------
(* For every family of hooks and kinds: an attribute is read as the data model  *)
(* of the language says, save the refusals and the divergences that Exposed     *)
(* would include (attribute_get, get_attribute, has_attribute, super_get).      *)
THEOREM ReadsRight == AttributesAssumption /\ NoneExposed => (Spec => []ReadsFollowDataModel)
<1> SUFFICES ASSUME AttributesAssumption, NoneExposed PROVE Spec => []ReadsFollowDataModel
    OBVIOUS
<1>1. Spec => []Kept
    BY KeptAlways
<1>2. Kept => ReadsFollowDataModel
    BY Reads
<1> QED
    BY <1>1, <1>2, PTL

(* And set and deleted as it says, with the world left alone by what is refused *)
(* or taken over (attribute_set, attribute_delete).                             *)
THEOREM WritesRight == AttributesAssumption /\ NoneExposed => (Spec => []WritesFollowDataModel)
<1> SUFFICES ASSUME AttributesAssumption, NoneExposed PROVE Spec => []WritesFollowDataModel
    OBVIOUS
<1>1. Spec => []Kept
    BY KeptAlways
<1>2. Kept => WritesFollowDataModel
    BY Writes
<1> QED
    BY <1>1, <1>2, PTL

(* A class on which, or on whose instances, a lookup comes to find something    *)
(* else has its version tag moved by the same step (invalidate_type_observers). *)
THEOREM ObserversAreTold == AttributesAssumption => (Spec => ObserversTold)
<1> SUFFICES ASSUME AttributesAssumption PROVE Spec => ObserversTold
    OBVIOUS
<1>1. Spec => []Kept
    BY KeptAlways
<1>2. Kept /\ [Next]_vars => SeenIsTold
    BY ToldStep
<1> QED
    BY <1>1, <1>2, PTL DEF Spec, ObserversTold
==============================================================================
