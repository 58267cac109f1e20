---------------------------- MODULE MCControlFlow ----------------------------
(* Families of programs.  A label is used once in a program for each kind of *)
(* choice, so that a choice in the trace names its place in the source.      *)
EXTENDS ControlFlow, Execution

\* What a region contains: its labels start at 1.
Bodies == <<
    <<Raise(1)>>, <<RaiseGroup(1)>>, <<Await(1), Do(2)>>,
    <<Do(1), Return>>, <<Do(1), Continue>>, <<If(1, <<Do(2)>>, <<Break>>)>> >>

\* Every region a body can be in, with labels from n on.
Regions(n, b) == <<
    <<Try(b, <<ExceptAs(n, <<Do(n + 1)>>), ExceptAll(n + 2, <<Reraise(n + 3)>>)>>,
          <<Do(n + 4)>>, <<Do(n + 5)>>)>>,
    <<Try(b, <<>>, <<>>, <<Do(n)>>), Do(n + 1)>>,
    <<Try(b, <<ExceptAll(n, <<>>)>>, <<>>, <<>>)>>,
    <<Try(<<Raise(n)>>, <<ExceptAs(n + 1, b)>>, <<>>, <<Do(n + 2)>>)>>,
    <<Try(<<Do(n)>>, <<Except(n + 1, <<>>)>>, b, <<Do(n + 2)>>)>>,
    <<With(n, b)>>, <<AsyncWith(n, b), Do(n + 1)>>,
    <<AsyncFor(n, b, <<>>)>>, <<For(n, b, <<>>)>>, <<For(n, <<Do(n + 1)>>, b)>>, <<While(n, b)>>,
    <<If(n, <<Do(n + 1)>>, b)>>,
    <<TryStar(b, <<ExceptAs(n, <<Do(n + 1)>>), Except(n + 2, <<Reraise(n + 3)>>),
                   ExceptAs(n + 4, <<Raise(n + 5)>>)>>, <<Do(n + 6)>>)>> >>

\* The statement leaves the exception target of an outer region behind it
\* (emit_cleanups_from): what follows it in its own region is not protected.
RECURSIVE Leaks(_)
Leaks(body) ==
    \E i \in DOMAIN body :
        \/ body[i].k \in {"return", "break", "continue"}
        \/ body[i].k = "if" /\ (Leaks(body[i].then) \/ Leaks(body[i].else))
        \/ body[i].k = "while" /\ Leaks(body[i].body)
        \/ body[i].k \in {"for", "afor"} /\ (Leaks(body[i].body) \/ Leaks(body[i].else))

\* Nothing follows such a statement.
RECURSIVE Tidy(_)
Tidy(body) ==
    /\ \A i \in 1..Len(body) - 1 : ~Leaks(<<body[i]>>)
    /\ \A i \in DOMAIN body :
         LET s == body[i] IN
         CASE s.k = "if"   -> Tidy(s.then) /\ Tidy(s.else) /\ (Leaks(s.then) => s.else = <<>>)
           [] s.k \in {"for", "afor"} -> Tidy(s.body) /\ Tidy(s.else) /\ (Leaks(s.body) => s.else = <<>>)
           [] s.k \in {"while", "with"} -> Tidy(s.body)
           [] s.k \in {"try", "star"} ->
                /\ Tidy(s.body) /\ Tidy(s.else)
                /\ \A j \in DOMAIN s.handlers : Tidy(s.handlers[j].body)
           [] OTHER -> TRUE

Around(n, bodies) == FlattenSeq([i \in DOMAIN bodies |-> Regions(n, bodies[i])])

InLoop(body) == <<For(100, body, <<>>), Do(101)>>

All(bodies) == [i \in DOMAIN bodies |-> Compiled("function", TRUE, bodies[i])]

WellStructured ==
    LET nested == Around(20, Around(10, Bodies))
    IN  All(SelectSeq([i \in DOMAIN nested |-> InLoop(nested[i])], Tidy))

-----------------------------------------------------------------------------
(* Programs around one construct each: expressions, targets, patterns,       *)
(* definitions, comprehensions, and the bodies of classes and modules.       *)

\* The construct inside a protected region, so that every edge leads somewhere.
Protected(body) ==
    <<Try(body, <<Except(901, <<Do(902)>>)>>, <<>>, <<Do(903)>>)>>

Call2 == CallOf(30, Name(31), <<Part(32, Name(33), FALSE), Part(34, Name(35), FALSE)>>)
Spread == CallOf(30, Name(31), <<Part(32, Name(33), FALSE), Part(34, Name(35), TRUE)>>)

ExpressionKinds == <<
    Apply("binary", 1, <<Name(2), Apply("unary", 3, <<Name(4)>>)>>),
    DictionaryOf(1, <<Pair(2, Name(3), Name(4)), Unpacking(5, Name(6)), Pair(7, Name(8), None)>>),
    Lambda(1, <<Name(2), Name(3)>>),
    And(10, <<Name(1), Or(20, <<And(40, <<Name(2), Name(3)>>), Name(4)>>)>>),
    Chain(10, <<Name(1), Walrus(2, Name(3)), Name(4), Name(5)>>),
    Apply("binary", 1, <<Call2, Spread>>) ,
    CallOf(1, Name(2), <<Part(3, Walrus(4, Name(5)), FALSE), Part(6, And(10, <<Name(7), Name(8)>>), FALSE)>>),
    Spread,
    Joined(10, <<Formatted(1, Name(2), None), None,
                 Formatted(3, Name(4), Joined(20, <<None, Formatted(5, Name(6), None)>>))>>),
    Apply("binary", 1, <<YieldOf(2, Name(3)), YieldOf(4, Name(5))>>),
    AwaitOf(1, Call2), AwaitOf(1, Spread), AwaitOf(1, AwaitOf(2, Name(3))),
    ComprehensionOf(1, "list", Name(2), TRUE), ComprehensionOf(1, "generator", Name(2), TRUE) >>

Item(l)  == ItemTarget(l, Name(l + 1), Name(l + 2))
Field(l) == AttributeTarget(l, Name(l + 1))

StatementKinds == <<
    <<Assign(<<SequenceTarget(1, <<NameTarget(2), Field(3), Item(5)>>), NameTarget(8)>>, Name(9))>>,
    <<Augmented(1, Item(2), Name(5)), Augmented(6, Field(7), None), Augmented(9, NameTarget(10), Name(11))>>,
    <<Delete(<<SequenceTarget(0, <<Item(1), NameTarget(4)>>), Field(5)>>)>>,
    <<AssertThat(1, And(10, <<Name(2), Name(3)>>), <<Name(4)>>), AssertThat(5, Name(6), <<>>)>>,
    <<RaiseFrom(1, Name(2), <<Name(3)>>)>>,
    <<ForIn(1, SequenceTarget(2, <<NameTarget(3), Item(4)>>), Name(7), <<Do(8), Continue>>, <<Do(9)>>)>>,
    <<WithAs(1, Name(2), Field(3), <<ReturnWith(<<Call2>>)>>)>>,
    <<WhileSo(1, Or(10, <<Name(2), Name(3)>>), <<If(4, <<Break>>, <<Evaluated(Name(5))>>)>>)>>,
    <<Iff(1, Chain(10, <<Name(2), Name(3), Name(4)>>), <<ReturnWith(<<Name(5)>>)>>, <<Return>>)>>,
    <<Import(1, 3, TRUE), Import(5, 1, FALSE), ImportFrom(6, <<7, 8>>)>>,
    <<Annotated(1, Field(2), Name(4), <<Name(5)>>, FALSE), Annotated(6, Item(7), Name(10), <<>>, FALSE)>>,
    <<Def(10, <<Name(1), Name(2)>>, <<3>>, <<Name(4), Name(5)>>, <<Name(6)>>)>>,
    <<Class(10, <<>>, <<1, 2>>, <<Name(3)>>, <<>>, <<>>)>>,
    <<Class(10, <<>>, <<>>, <<Name(3)>>, <<Name(4)>>, <<Name(5)>>)>>,
    <<TypeAlias(1, <<2, 3>>, None)>>,
    <<Try(<<ReturnWith(<<AwaitOf(1, Call2)>>)>>, <<ExceptAll(2, <<ReturnWith(<<Name(3)>>)>>)>>, <<>>,
          <<Do(4)>>)>> >>

Patterns == <<
    OrPattern(<<SequencePattern(2, <<Capture(3), ValuePattern(4, Name(5))>>),
                MappingPattern(6, <<Name(7)>>, <<Capture(3)>>, <<>>)>>),
    AsPattern(SequencePattern(2, <<SingletonPattern(3), AsPattern(Wildcard, 4)>>), 5),
    MappingPattern(2, <<Name(3), Name(4)>>, <<Capture(5), SingletonPattern(6)>>, <<7>>),
    ClassPattern(2, Name(3), <<Capture(4), OrPattern(<<SingletonPattern(5), SequencePattern(6, <<>>)>>)>>),
    SequencePattern(2, <<MappingPattern(3, <<Name(4)>>, <<ClassPattern(5, Name(6), <<Capture(7)>>)>>, <<8>>),
                         Capture(9)>>) >>

MatchOf(p) ==
    <<Match(Name(1), <<Case(p, <<And(20, <<Name(22), Name(23)>>)>>, 24, <<Do(25)>>),
                       Case(SequencePattern(26, <<Capture(27)>>), <<>>, 28, <<Yield(28)>>)>>)>>

Clause(l, filters, async) ==
    [l |-> l, target |-> NameTarget(l), iterable |-> Name(l), filters |-> filters, async |-> async]
Comprehension(kind, key, clauses) ==
    [kind |-> kind, l |-> 90, key |-> key, element |-> Name(91), clauses |-> clauses]

Comprehensions == <<
    Comprehension("list", <<>>, <<Clause(1, <<Name(4), Or(20, <<Name(5), Name(6)>>)>>, FALSE), Clause(7, <<>>, FALSE)>>),
    Comprehension("set", <<>>, <<Clause(1, <<>>, TRUE), Clause(7, <<Name(4)>>, FALSE)>>),
    Comprehension("dict", <<Name(92)>>, <<Clause(1, <<Name(4)>>, FALSE), Clause(7, <<>>, TRUE)>>),
    Comprehension("generator", <<>>, <<Clause(1, <<Name(4)>>, FALSE), Clause(7, <<Name(5)>>, FALSE)>>),
    Comprehension("generator", <<>>, <<Clause(1, <<Name(4)>>, TRUE)>>) >>

Members == <<
    <<Annotated(1, NameTarget(1), Name(2), <<Name(3)>>, TRUE), Def(10, <<Name(4)>>, <<>>, <<Name(5)>>, <<Name(6)>>),
      If(7, <<Annotated(8, NameTarget(8), Name(9), <<>>, TRUE)>>, <<Assign(<<NameTarget(20)>>, Name(21))>>)>>,
    <<For(1, <<If(2, <<Do(3), Break>>, <<Continue>>)>>, <<Do(4)>>), Delete(<<NameTarget(5)>>)>>,
    <<Try(<<WithAs(1, Name(2), NameTarget(3), <<Raise(4)>>)>>, <<ExceptAs(5, <<Class(20, <<>>, <<>>, <<>>, <<>>, <<>>)>>)>>,
          <<>>, <<Augmented(6, Field(7), Name(10))>>)>>,
    <<While(1, <<Try(<<Continue>>, <<>>, <<>>, <<Do(2)>>)>>), AssertThat(3, Name(4), <<>>), TypeAlias(5, <<6>>, None)>> >>

ModuleBodies == <<
    <<While(1, <<Annotated(2, NameTarget(2), Name(3), <<>>, TRUE), Break>>), Annotated(5, Item(6), Name(9), <<Name(10)>>, FALSE)>>,
    <<Try(<<Do(1)>>, <<ExceptAs(2, <<Annotated(3, NameTarget(3), None, <<Name(4)>>, TRUE)>>)>>, <<>>, <<Do(5)>>)>> >>

\* A program around each construct, and all pairs of nested regions.
Programs ==
    LET functions ==
            [i \in DOMAIN ExpressionKinds |-> <<Assign(<<NameTarget(900)>>, ExpressionKinds[i])>>]
            \o StatementKinds \o [i \in DOMAIN Patterns |-> MatchOf(Patterns[i])]
        delegating == <<Assign(<<NameTarget(1)>>, YieldFrom(2, Name(3)))>>
    IN  WellStructured
        \o All([i \in DOMAIN functions |-> Protected(functions[i])])
        \o [i \in DOMAIN Comprehensions |-> CompiledComprehension(Comprehensions[i])]
        \o [i \in DOMAIN Members |-> Compiled("class", FALSE, Members[i])]
        \o [i \in DOMAIN ModuleBodies |-> Compiled("module", FALSE, ModuleBodies[i])]
        \o <<Compiled("function", FALSE, Protected(delegating))>>
=============================================================================
