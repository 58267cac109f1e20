------------------------------- MODULE MCScopes -------------------------------
(***************************************************************************)
(* Modules for Scopes and PythonScopes.  One name is bound, used and       *)
(* declared in scopes nested three deep (Nestings); nested scopes stand in  *)
(* every place of a statement that is visited (Shapes); jumps leave every  *)
(* nesting of loops and handlers (Jumps).                                  *)
(***************************************************************************)
EXTENDS PythonScopes

X == "x"
Nothing == Group(<<>>)
Maybe(s) == {<<>>, <<s>>}
Uses(at) == Name(X, at)
Binds(at) == Assignment(<<Target({X}, at, <<>>)>>, <<>>)
TakesX == Param(X, <<>>, <<>>)
Function(id, tparams, params, body) == Def("f", id, tparams, <<>>, params, <<>>, body, FALSE)
Class_(id, tparams, body) == Class("C", id, tparams, <<>>, body)

-----------------------------------------------------------------------------
(* Nestings: every choice of declarations, of a binding and of a use, and   *)
(* at most one nested scope.                                               *)

Bodies(id, inner) ==
  {g \o nl \o b \o u \o i :
     g \in Maybe(Global({X})), nl \in Maybe(Nonlocal({X})),
     b \in Maybe(Binds("bind in " \o id)), u \in Maybe(Expr(<<Uses("use in " \o id)>>)),
     i \in {<<>>} \cup {<<s>> : s \in inner}}

Plain(id, bodies) ==
  {Function(id, {}, ps, b) : ps \in Maybe(TakesX), b \in bodies}
    \cup {Class_(id, {}, b) : b \in bodies}

(* With a type parameter. *)
Generic(id, bodies) ==
  {Function(id, {X}, <<>>, b) : b \in bodies} \cup {Class_(id, {X}, b) : b \in bodies}

(* Lambdas and comprehensions, with a walrus and with another scope inside. *)
Leaves(id) ==
  LET use == Uses("in " \o id)
      walrus == Walrus(X, "walrus in " \o id, Nothing)
      nested == Lambda("inner " \o id, <<>>, Uses("deep in " \o id))
      Over(names, es) ==
        Comp(id, <<ForClause(Uses("over in " \o id), Target(names, "for in " \o id, <<>>), <<>>)>>, es)
      twice == Comp("inner " \o id, <<ForClause(use, Target({}, "-", <<>>), <<>>)>>,
                    <<Walrus(X, "deep in " \o id, Nothing)>>)
  IN {Expr(<<e>>) :
        e \in {Lambda(id, ps, use) : ps \in Maybe(TakesX)}
                \cup {Over(ns, <<use>>) : ns \in {{}, {X}}}
                \cup {Over(ns, <<walrus, nested>>) : ns \in {{}, {X}}}
                \cup {Lambda(id, <<>>, Group(<<walrus, nested>>)), Over({}, <<twice>>)}}

Innermost ==
  Plain("third", Bodies("third", {})) \cup Generic("third", Bodies("third", {}))
    \cup Leaves("third")

(* The outermost function binds the name, or has it as a parameter, or not. *)
Outermost(inner) ==
  {Function("first", {}, ps, b \o <<s>>) :
     ps \in Maybe(TakesX), b \in Maybe(Binds("bind in first")), s \in inner}
    \cup {Class_("first", {}, <<Binds("bind in first"), s>>) : s \in inner}

Nestings ==
  {<<s>> : s \in Outermost(Plain("second", Bodies("second", Innermost))) \cup Leaves("first")
                  \cup Outermost(Generic("second", Bodies("second", Plain("third", {<<>>}))))}

-----------------------------------------------------------------------------
(* Shapes: in every place of a statement stands a name or a nested scope.   *)

NoScope(at) == {Uses(at)}
Parts(at) ==
  {Uses(at), Lambda("lambda " \o at, <<>>, Uses(at)),
   Lambda("lambda " \o at, <<Param(X, <<Uses("default " \o at)>>, <<>>)>>, Uses(at)),
   Comp("comp " \o at,
        <<ForClause(Uses("over " \o at), Target({X}, "for " \o at, <<>>), <<Uses("if " \o at)>>)>>,
        <<Uses(at)>>)}

Body == <<Binds("bind in body"), Expr(<<Lambda("lambda in body", <<>>, Uses("in body"))>>)>>
Store(e) == Target({X}, "target", <<e>>)

AnnotatedBy(As, Bs) == {Annotated(Target({X}, "target", <<>>), a, <<b>>) : a \in As, b \in Bs}
WithAs(As, Bs) == {With(<<WithItem(a, <<Store(b)>>)>>, Body) : a \in As, b \in Bs}
Defined(As, Bs, Cs, Ds) ==
  {Def("f", "body", {}, <<a>>, <<Param(X, <<b>>, <<c>>), Param("y", <<d>>, <<>>)>>, <<>>, Body, FALSE) :
     a \in As, b \in Bs, c \in Cs, d \in Ds}

(* Statements that both passes visit in one order. *)
InOrder ==
  {Assignment(<<Store(a)>>, <<b>>) : a \in Parts("1"), b \in Parts("2")}
  \cup {Augmented(Target({}, "-", <<a>>), b) : a \in Parts("1"), b \in Parts("2")}
  \cup {Augmented(Target({X}, "target", <<>>), b) : b \in Parts("2")}
  \cup {Class("C", "body", {}, <<a>>, <<Binds("bind in body"), Expr(<<b>>)>>) :
          a \in Parts("1"), b \in Parts("2")}
  \cup {TypeAlias(X, "alias", {}, a) : a \in Parts("1")} \cup {Import({X}, "import")}
  \cup {If(a, <<Expr(<<b>>)>>, <<Expr(<<c>>)>>) :
          a \in Parts("1"), b \in Parts("2"), c \in Parts("3")}
  \cup {For(<<Store(a)>>, b, <<Expr(<<c>>)>>, <<>>) :
          a \in Parts("1"), b \in Parts("2"), c \in Parts("3")}
  \cup {Try(<<Expr(<<a>>)>>, <<ExceptHandler(<<b>>, {X}, "handler", Body)>>, <<>>, <<Expr(<<c>>)>>, FALSE) :
          a \in Parts("1"), b \in Parts("2"), c \in Parts("3")}

Matches ==
  {Match(a, <<MatchCase(<<Uses("value")>>, {X}, "case", <<b>>, <<Expr(<<c>>)>>)>>) :
     a \in Parts("1"), b \in Parts("2"), c \in Parts("3")}

Within(kind, s) ==
  LET last == Expr(<<Lambda("last", <<>>, Uses("in last"))>>) IN
  CASE kind = "module" -> <<s, last>>
    [] kind = "function" -> <<Function("outer", {}, <<>>, <<s, last>>)>>
    [] kind = "class" -> <<Class_("outer", {}, <<s, last>>)>>

(* Of the statements that the passes visit in different orders, those whose *)
(* nested scopes stand where that makes no difference.                     *)
Shapes ==
  {Within(k, s) : k \in {"module", "function", "class"},
     s \in InOrder \cup WithAs(Parts("1"), NoScope("2")) \cup AnnotatedBy(NoScope("1"), Parts("2"))}
  \cup {Within("class", s) : s \in Defined(NoScope("1"), Parts("2"), NoScope("3"), Parts("4"))}
  \cup {Within(k, s) : k \in {"module", "function"},
          s \in Matches \cup Defined(Parts("1"), Parts("2"), Parts("3"), Parts("4"))}

(* Every shape, for the claim that the two passes agree. *)
AllShapes ==
  {Within(k, s) : k \in {"module", "function", "class"},
     s \in InOrder \cup WithAs(Parts("1"), Parts("2")) \cup AnnotatedBy(Parts("1"), Parts("2"))
             \cup Defined(Parts("1"), Parts("2"), NoScope("3"), Parts("4"))}

-----------------------------------------------------------------------------
(* Jumps: out of up to three nested statements. *)

Around(s) ==
  {For(<<>>, Nothing, <<s>>, <<>>), For(<<>>, Nothing, <<>>, <<s>>),
   Try(<<s>>, <<>>, <<>>, <<>>, TRUE)}
  \cup {Try(<<>>, <<ExceptHandler(<<>>, {}, "-", <<s>>)>>, <<>>, <<>>, star) : star \in BOOLEAN}

Jumping == {Break, Continue, Return(<<>>), Return(<<Nothing>>), Return(<<Yield(Nothing)>>),
            Expr(<<Yield(Nothing)>>), Expr(<<Await(Nothing)>>),
            Expr(<<Lambda("body", <<>>, Await(Nothing))>>)}

Inside(S) == S \cup UNION {Around(s) : s \in S}

Jumps ==
  {<<s>> : s \in Inside(Inside(Jumping))}
    \cup {<<Class_("outer", {}, <<s>>)>> : s \in Inside(Inside(Jumping))}
    \cup {<<Def("f", "outer", {}, <<>>, <<>>, <<>>, y \o <<s>>, async)>> :
            y \in Maybe(Expr(<<Yield(Nothing)>>)), async \in BOOLEAN,
            s \in Inside(Inside(Inside(Jumping)))}

MostModules == Nestings \cup Shapes \cup Jumps
=============================================================================
