-------------------------------- MODULE Scopes --------------------------------
(***************************************************************************)
(* The semantic analyser (crates/rimera-compiler/src/sema/mod.rs) decides  *)
(* how every name of a module is bound.  It goes over the syntax twice.    *)
(* The first pass, RawScope, collects for every scope the names that are   *)
(* assigned, used and declared, and lists the nested scopes in the order   *)
(* in which it meets them; resolve_scope turns the result into plans.  The *)
(* second pass, Analyzer, builds the HIR; it takes the plan of a nested    *)
(* scope from the list BY ITS POSITION, so both passes must meet the       *)
(* nested scopes of a scope in the same order.                             *)
(*                                                                         *)
(* Syntax is abstract: see module Syntax.  A for loop without target is a  *)
(* while loop.                                                             *)
(***************************************************************************)
EXTENDS Naturals, Sequences, SequencesExt, Syntax

CONSTANTS
  Modules   \* the modules analysed: sequences of statements

VARIABLES
  code,     \* the module's syntax
  stage,    \* "syntax", "scanned", "planned", "done" or "refused"
  raw,      \* RawScope of the module
  plan,     \* ScopePlan of the module
  hir       \* what the Analyzer did

vars == <<code, stage, raw, plan, hir>>

-----------------------------------------------------------------------------
(* First pass: RawScope *)

(* RawScope::empty; `of` is the syntax it is made of. *)
EmptyScope(kind, id) ==
  [kind |-> kind, of |-> id, forced |-> {}, params |-> {}, assigned |-> {},
   used |-> {}, globals |-> {}, nonlocals |-> {}, yields |-> FALSE,
   children |-> <<>>]

Assign(scope, names) == [scope EXCEPT !.assigned = @ \cup names]
Use(scope, n) == [scope EXCEPT !.used = @ \cup {n}]
Nest(scope, child) == [scope EXCEPT !.children = Append(@, child)]

(* The names and parts of a list of parameters. *)
Names(params) == {params[k].n : k \in 1 .. Len(params)}
Defaults(params) == FlattenSeq([k \in 1 .. Len(params) |-> params[k].default])
Annotations(params) == FlattenSeq([k \in 1 .. Len(params) |-> params[k].annotation])

(* The scope of a lambda, before its body. *)
LambdaScope(e) == [EmptyScope("function", e.id) EXCEPT !.params = Names(e.params)]

(* collect_comprehension_walrus_names: not into the body of a lambda. *)
RECURSIVE WalrusNames(_)
WalrusNames(e) ==
  LET All(es) == UNION {WalrusNames(es[k]) : k \in 1 .. Len(es)}
      Clause(c) == WalrusNames(c.iter) \cup All(c.filters) IN
  CASE e.k = "name" -> {}
    [] e.k = "walrus" -> {e.n} \cup WalrusNames(e.e)
    [] e.k = "lambda" -> All(Defaults(e.params))
    [] e.k = "comp" -> All(e.es) \cup UNION {Clause(e.clauses[k]) : k \in 1 .. Len(e.clauses)}
    [] e.k = "group" -> All(e.es)
    [] e.k \in {"yield", "await"} -> WalrusNames(e.e)

RECURSIVE ScanExpression(_, _)
RECURSIVE ScanWithin(_, _, _, _)

ScanAll(scope, es) == FoldLeft(ScanExpression, scope, es)
ScanTarget(scope, t) == ScanAll(Assign(scope, t.names), t.es)

(* comprehension_scope: the iterable of the first clause is not in it. *)
ComprehensionScope(e, walrus, globals) ==
  LET Inside(scope, x) == ScanWithin(scope, x, walrus, globals)
      Clause(scope, k) ==
        LET c == e.clauses[k]
            entered == IF k = 1 THEN scope ELSE Inside(scope, c.iter) IN
        FoldLeft(Inside, ScanTarget(entered, c.target), c.filters)
      clauses == FoldLeft(Clause, EmptyScope("function", e.id),
                          [k \in 1 .. Len(e.clauses) |-> k]) IN
  FoldLeft(Inside, clauses, e.es)

(* scan_expression_in_comprehension: a walrus binds in the scope around. *)
ScanWithin(scope, e, walrus, globals) ==
  LET Inside(s, x) == ScanWithin(s, x, walrus, globals)
      All(s, es) == FoldLeft(Inside, s, es) IN
  CASE e.k = "name" -> Use(scope, e.n)
    [] e.k = "walrus" /\ e.n \in walrus \cap globals ->
         Inside([Use(scope, e.n) EXCEPT !.globals = @ \cup {e.n}], e.e)
    [] e.k = "walrus" /\ e.n \in walrus \ globals ->
         Inside([Use(scope, e.n) EXCEPT !.nonlocals = @ \cup {e.n}], e.e)
    [] e.k = "walrus" /\ e.n \notin walrus -> Inside(Assign(scope, {e.n}), e.e)
    [] e.k = "lambda" ->
         Nest(All(scope, Defaults(e.params)), ScanExpression(LambdaScope(e), e.e))
    [] e.k = "comp" ->
         Nest(Inside(scope, e.clauses[1].iter), ComprehensionScope(e, walrus, globals))
    [] e.k = "group" -> All(scope, e.es)
    [] e.k \in {"yield", "await"} -> Inside(scope, e.e)

(* scan_comprehension: the first iterable belongs to the scope around, and *)
(* so do the names bound by a walrus inside.                               *)
ScanComprehension(scope, e) ==
  LET walrus == WalrusNames(e)
      globals == IF scope.kind = "function" THEN walrus \cap scope.globals ELSE walrus
      outside == Assign(ScanExpression(scope, e.clauses[1].iter), walrus) IN
  Nest(outside, ComprehensionScope(e, walrus, globals))

ScanExpression(scope, e) ==
  CASE e.k = "name" -> Use(scope, e.n)
    [] e.k = "walrus" -> ScanExpression(Assign(scope, {e.n}), e.e)
    [] e.k = "lambda" ->
         Nest(ScanAll(scope, Defaults(e.params)), ScanExpression(LambdaScope(e), e.e))
    [] e.k = "comp" -> ScanComprehension(scope, e)
    [] e.k = "group" -> ScanAll(scope, e.es)
    [] e.k = "yield" -> ScanExpression([scope EXCEPT !.yields = TRUE], e.e)
    [] e.k = "await" -> ScanExpression(scope, e.e)

RECURSIVE ScanStatement(_, _)
ScanStatements(scope, body) == FoldLeft(ScanStatement, scope, body)

(* RawScope::function and RawScope::class *)
FunctionScope(s) ==
  ScanStatements([EmptyScope("function", s.id) EXCEPT
                    !.forced = s.tparams, !.params = Names(s.params)], s.body)
ClassScope(s) ==
  ScanStatements([EmptyScope("class", s.id) EXCEPT !.forced = s.tparams], s.body)

(* Mutant: a function is scanned parameter by parameter, like a method. *)
DefinitionInterleaved(scope, s) ==
  LET Parameter(k) == s.params[k].default \o s.params[k].annotation IN
  ScanAll(scope, s.decorators \o FlattenSeq([k \in 1 .. Len(s.params) |-> Parameter(k)]) \o s.returns)

(* What a `def` evaluates outside of its body. The defaults and annotations *)
(* of a method are taken parameter by parameter.                           *)
DefinitionOutside(scope, s) ==
  LET Parameter(k) == s.params[k].default \o s.params[k].annotation
      signature == IF scope.kind = "class"
                   THEN FlattenSeq([k \in 1 .. Len(s.params) |-> Parameter(k)])
                   ELSE Defaults(s.params) \o Annotations(s.params) IN
  ScanAll(scope, s.decorators \o signature \o s.returns)

(* A target of an augmented assignment is read as well. *)
ScanAugmented(scope, t) ==
  ScanAll([scope EXCEPT !.assigned = @ \cup t.names, !.used = @ \cup t.names], t.es)

(* The annotation of a variable is not scanned in a function. *)
ScanAnnotated(scope, s) ==
  LET bound == ScanAll(ScanTarget(scope, s.target), s.value) IN
  IF scope.kind = "function" THEN bound ELSE ScanExpression(bound, s.annotation)

ScanTry(scope, s) ==
  LET Handler(sc, h) == ScanStatements(Assign(ScanAll(sc, h.type), h.name), h.body)
      handled == FoldLeft(Handler, ScanStatements(scope, s.body), s.handlers) IN
  ScanStatements(ScanStatements(handled, s.orelse), s.final)

ScanWith(scope, s) ==
  LET Item(sc, i) == FoldLeft(ScanTarget, ScanExpression(sc, i.context), i.target) IN
  ScanStatements(FoldLeft(Item, scope, s.items), s.body)

(* The parts of a pattern: the expressions in it and the names it captures. *)
ScanMatch(scope, s) ==
  LET Case(sc, c) ==
        ScanStatements(ScanAll(Assign(ScanAll(sc, c.values), c.names), c.guard), c.body) IN
  FoldLeft(Case, ScanExpression(scope, s.subject), s.cases)

ScanLoop(scope, s) ==
  LET entered == ScanExpression(FoldLeft(ScanTarget, scope, s.target), s.e) IN
  ScanStatements(ScanStatements(entered, s.body), s.orelse)

(* scan_statements and scan_class_statements *)
ScanStatement(scope, s) ==
  CASE s.k \in {"expr", "return"} -> ScanAll(scope, s.es)
    [] s.k = "assign" -> ScanAll(FoldLeft(ScanTarget, scope, s.targets), s.es)
    [] s.k = "aug" -> ScanExpression(ScanAugmented(scope, s.target), s.e)
    [] s.k = "ann" -> ScanAnnotated(scope, s)
    [] s.k = "def" -> Nest(DefinitionOutside(Assign(scope, {s.n}), s), FunctionScope(s))
    [] s.k = "class" -> Nest(ScanAll(Assign(scope, {s.n}), s.args), ClassScope(s))
    [] s.k = "alias" -> ScanExpression(Assign(scope, {s.n}), s.e)
    [] s.k = "import" -> Assign(scope, s.names)
    [] s.k = "global" -> [scope EXCEPT !.globals = @ \cup s.names]
    [] s.k = "nonlocal" -> [scope EXCEPT !.nonlocals = @ \cup s.names]
    [] s.k = "if" ->
         ScanStatements(ScanStatements(ScanExpression(scope, s.e), s.body), s.orelse)
    [] s.k = "loop" -> ScanLoop(scope, s)
    [] s.k = "try" -> ScanTry(scope, s)
    [] s.k = "with" -> ScanWith(scope, s)
    [] s.k = "match" -> ScanMatch(scope, s)
    [] s.k \in {"break", "continue"} -> scope

(* RawScope::module *)
ModuleScope(body) == ScanStatements(EmptyScope("module", "module"), body)

-----------------------------------------------------------------------------
(* Resolution *)

(* Mutant: the names of a class are reached by its methods. *)
ReachableInClass(scope, locals) == IF scope.kind = "module" THEN {} ELSE locals

(* The names of a scope's own that nested scopes can reach. *)
Reachable(scope, locals) ==
  CASE scope.kind = "function" -> locals
    [] scope.kind = "class" -> {"__class__"}
    [] scope.kind = "module" -> {}

(* The errors that resolve_scope reports for one scope. *)
WellDeclared(scope, visible) ==
  /\ scope.globals \cap scope.nonlocals = {}
  /\ scope.params \cap (scope.globals \cup scope.nonlocals) = {}
  /\ scope.kind = "module" => scope.nonlocals = {}
  /\ scope.nonlocals \subseteq visible

(* resolve_scope; `visible` is the union of the ancestors' names. *)
RECURSIVE ResolveScope(_, _)
ResolveScope(scope, visible) ==
  LET locals == (scope.params \cup scope.assigned) \ (scope.globals \cup scope.nonlocals)
      inner == visible \cup Reachable(scope, locals)
      children == [k \in 1 .. Len(scope.children) |-> ResolveScope(scope.children[k], inner)]
      asked == UNION {children[k].free \ children[k].forced : k \in 1 .. Len(children)}
      cells == IF scope.kind = "function" THEN asked \cap locals ELSE {}
      outer == (((scope.used \cup scope.nonlocals) \ (locals \cup scope.globals))
                  \cup (asked \ cells)) \cap visible IN
  [kind |-> scope.kind, of |-> scope.of, forced |-> scope.forced, locals |-> locals,
   cells |-> cells,
   free |-> scope.forced \cup (IF scope.kind = "module" THEN {} ELSE outer),
   globals |-> scope.globals, nonlocals |-> scope.nonlocals, yields |-> scope.yields,
   children |-> children,
   legal |-> /\ WellDeclared(scope, visible)
             /\ \A k \in 1 .. Len(children) : children[k].legal]

-----------------------------------------------------------------------------
(* Second pass: Analyzer *)

(* An Analyzer: the plan it goes by and those around it, the position of    *)
(* the next nested scope, the context, what it bound so far, the scopes it  *)
(* analysed by another scope's plan, and whether it reported an error.      *)
Analyzer(p) ==
  [plan |-> p, around |-> <<>>, next |-> 1, function |-> FALSE, async |-> FALSE,
   loops |-> 0, star |-> FALSE, class |-> FALSE, tparams |-> {}, tof |-> "-",
   bound |-> {}, mixed |-> {}, ok |-> TRUE]

(* Analyzer::binding *)
Binding(a, n) ==
  LET p == a.plan IN
  CASE n \in a.tparams -> "free"
    [] n \notin a.tparams /\ p.kind = "class" ->
         (CASE n \in p.globals -> "global"
            [] n \notin p.globals /\ n \in p.nonlocals -> "free"
            [] n \notin p.globals \cup p.nonlocals /\ n \in p.free -> "class or free"
            [] OTHER -> "class")
    [] n \notin a.tparams /\ p.kind = "module" -> "global"
    [] n \notin a.tparams /\ p.kind = "function" ->
         (CASE n \in p.globals -> "global"
            [] n \notin p.globals /\ n \in p.cells -> "cell"
            [] n \notin p.globals \cup p.cells /\ n \in p.locals -> "local"
            [] n \notin p.globals \cup p.locals /\ n \in p.free -> "free"
            [] OTHER -> "global")

(* The scope whose cell a free name is: closures hand a name on from the    *)
(* nearest scope that has a cell for it, if every scope between asked for it. *)
Owner(a, n) ==
  LET chain == a.around
      cells == {k \in 1 .. Len(chain) : n \in chain[k].cells \cup chain[k].forced}
      nearest == CHOOSE k \in cells : \A j \in cells : j <= k IN
  CASE n \in a.tparams -> a.tof
    [] n \notin a.tparams /\ n \in a.plan.forced -> a.plan.of
    [] n \notin a.tparams \cup a.plan.forced ->
         IF cells = {} \/ \E j \in nearest + 1 .. Len(chain) : n \notin chain[j].free
         THEN "none" ELSE chain[nearest].of

Bind(a, n, at) ==
  LET b == Binding(a, n) IN
  [a EXCEPT !.bound = @ \cup
     {[n |-> n, at |-> at, kind |-> b,
       owner |-> IF b \in {"free", "class or free"} THEN Owner(a, n) ELSE "-"]}]

BindAll(a, names, at) ==
  [a EXCEPT !.bound = @ \cup UNION {Bind(a, n, at).bound : n \in names}]

Refuse(a) == [a EXCEPT !.ok = FALSE]
Require(a, condition) == IF condition THEN a ELSE Refuse(a)

(* A nested scope is analysed by the next plan, which may be that of another. *)
HasNext(a) == a.next <= Len(a.plan.children)
NextPlan(a) == IF HasNext(a) THEN a.plan.children[a.next] ELSE a.plan
Nested(a, async, class) ==
  [Analyzer(NextPlan(a)) EXCEPT
     !.around = Append(a.around, a.plan), !.function = ~class, !.async = async, !.class = class]

(* Back from the scope made of `id`. *)
Leave(a, id, class, inner) ==
  [a EXCEPT !.next = @ + 1,
            !.bound = @ \cup inner.bound,
            !.mixed = @ \cup inner.mixed \cup ({id} \ {NextPlan(a).of}),
            !.ok = @ /\ inner.ok /\ HasNext(a) /\ (class => NextPlan(a).kind = "class")]

(* validate_comprehension_expression *)
RECURSIVE ValidInside(_, _, _, _)
ValidInside(e, iterated, inIterable, inClass) ==
  LET All(es) == \A k \in 1 .. Len(es) : ValidInside(es[k], iterated, inIterable, inClass) IN
  CASE e.k = "name" -> TRUE
    [] e.k = "walrus" ->
         /\ ~inIterable /\ ~inClass /\ e.n \notin iterated
         /\ ValidInside(e.e, iterated, inIterable, inClass)
    [] e.k = "lambda" -> All(Defaults(e.params))
    [] e.k = "group" -> All(e.es)
    [] e.k \in {"yield", "await"} -> ValidInside(e.e, iterated, inIterable, inClass)
    [] e.k = "comp" ->
         LET names == iterated \cup UNION {e.clauses[k].target.names : k \in 1 .. Len(e.clauses)}
             Part(x) == ValidInside(x, names, FALSE, inClass) IN
         /\ \A k \in 1 .. Len(e.clauses) :
              /\ ValidInside(e.clauses[k].iter, names, TRUE, inClass)
              /\ \A j \in 1 .. Len(e.clauses[k].filters) : Part(e.clauses[k].filters[j])
         /\ \A k \in 1 .. Len(e.es) : Part(e.es[k])

RECURSIVE VisitExpression(_, _)
VisitAll(a, es) == FoldLeft(VisitExpression, a, es)

(* Analyzer::target *)
VisitTarget(a, t) == VisitAll(BindAll(a, t.names, t.at), t.es)

VisitComprehension(a, e) ==
  LET Clause(inner, k) ==
        LET c == e.clauses[k]
            entered == IF k = 1 THEN inner ELSE VisitExpression(inner, c.iter) IN
        VisitAll(VisitTarget(entered, c.target), c.filters)
      Inside(inner) ==
        VisitAll(FoldLeft(Clause, inner, [k \in 1 .. Len(e.clauses) |-> k]), e.es)
      valid == Require(a, (e.async => a.async) /\ ValidInside(e, {}, FALSE, a.class))
      outside == VisitExpression(valid, e.clauses[1].iter) IN
  Leave(outside, e.id, FALSE, Inside(Nested(outside, a.async, FALSE)))

(* Analyzer::expression *)
VisitExpression(a, e) ==
  CASE e.k = "name" -> Bind(a, e.n, e.at)
    [] e.k = "walrus" -> VisitExpression(Bind(a, e.n, e.at), e.e)
    [] e.k = "group" -> VisitAll(a, e.es)
    [] e.k = "yield" -> VisitExpression(Require(a, a.function), e.e)
    [] e.k = "await" -> VisitExpression(Require(a, a.async), e.e)
    [] e.k = "comp" -> VisitComprehension(a, e)
    [] e.k = "lambda" ->
         LET outside == VisitAll(a, Defaults(e.params)) IN
         Leave(outside, e.id, FALSE, VisitExpression(Nested(outside, FALSE, FALSE), e.e))

RECURSIVE VisitStatement(_, _)
VisitStatements(a, body) == FoldLeft(VisitStatement, a, body)

(* Annotations and the values of type aliases see the type parameters. *)
WithTypeParams(a, s, es) ==
  [VisitAll([a EXCEPT !.tparams = s.tparams, !.tof = s.id], es) EXCEPT
     !.tparams = a.tparams, !.tof = a.tof]

(* The decorators of a method are analysed after its body has its plan. *)
VisitFunction(a, s) ==
  LET Signature(b) == WithTypeParams(VisitAll(b, Defaults(s.params)), s,
                                     Annotations(s.params) \o s.returns)
      Definition(b) ==
        Leave(b, s.id, FALSE, VisitStatements(Nested(b, s.async, FALSE), s.body))
      analysed == IF a.class THEN VisitAll(Definition(Signature(a)), s.decorators)
                  ELSE Definition(Signature(VisitAll(a, s.decorators))) IN
  Bind(analysed, s.n, s.at)

(* Analyzer::class_body *)
VisitClass(a, s) ==
  LET outside == VisitAll(a, s.args)
      inner == VisitStatements(Nested(outside, FALSE, TRUE), s.body) IN
  Bind(Leave(outside, s.id, TRUE, inner), s.n, s.at)

VisitLoop(a, s) ==
  LET entered == VisitExpression(FoldLeft(VisitTarget, a, s.target), s.e)
      looped == VisitStatements([entered EXCEPT !.loops = @ + 1], s.body)
      left == Require([looped EXCEPT !.loops = a.loops], s.async => a.async) IN
  VisitStatements(left, s.orelse)

(* A handler of `except*` forbids to leave it; not in the body of a class. *)
VisitTry(a, s) ==
  LET Handler(b, h) ==
        LET entered == BindAll(VisitAll(b, h.type), h.name, h.at)
            star == IF a.class THEN b.star ELSE s.star IN
        [VisitStatements([entered EXCEPT !.star = star], h.body) EXCEPT !.star = b.star]
      handled == FoldLeft(Handler, VisitStatements(a, s.body), s.handlers) IN
  VisitStatements(VisitStatements(handled, s.orelse), s.final)

(* The target of an item is analysed before its context manager. *)
VisitWith(a, s) ==
  LET Item(b, i) == VisitExpression(FoldLeft(VisitTarget, b, i.target), i.context)
      entered == Require(FoldLeft(Item, a, s.items), s.async => a.async) IN
  VisitStatements(entered, s.body)

VisitMatch(a, s) ==
  LET Case(b, c) ==
        VisitStatements(VisitAll(BindAll(VisitAll(b, c.values), c.names, c.at), c.guard), c.body) IN
  FoldLeft(Case, VisitExpression(a, s.subject), s.cases)

(* What class_members_inner takes for a member of a class body. *)
ClassMembers ==
  {"expr", "assign", "aug", "ann", "def", "class", "alias", "import", "global", "nonlocal",
   "break", "continue", "if", "loop", "try", "with"}

(* Analyzer::statement *)
VisitStatement(outside, s) ==
  LET a == Require(outside, outside.class => s.k \in ClassMembers) IN
  CASE s.k = "expr" -> VisitAll(a, s.es)
    [] s.k = "assign" -> VisitAll(FoldLeft(VisitTarget, a, s.targets), s.es)
    [] s.k = "aug" -> VisitExpression(VisitTarget(a, s.target), s.e)
    [] s.k = "ann" ->
         VisitAll(VisitExpression(VisitTarget(a, s.target), s.annotation), s.value)
    [] s.k = "def" -> VisitFunction(a, s)
    [] s.k = "class" -> VisitClass(a, s)
    [] s.k = "alias" -> Bind(WithTypeParams(a, s, <<s.e>>), s.n, s.at)
    [] s.k = "import" -> BindAll(a, s.names, s.at)
    [] s.k \in {"global", "nonlocal"} -> a
    [] s.k = "return" ->
         VisitAll(Require(a, /\ a.function /\ ~a.star
                             /\ ~(a.async /\ a.plan.yields /\ s.es # <<>>)), s.es)
    [] s.k \in {"break", "continue"} -> Require(a, ~a.star /\ a.loops > 0)
    [] s.k = "if" ->
         VisitStatements(VisitStatements(VisitExpression(a, s.e), s.body), s.orelse)
    [] s.k = "loop" -> VisitLoop(a, s)
    [] s.k = "try" -> VisitTry(a, s)
    [] s.k = "with" -> VisitWith(a, s)
    [] s.k = "match" -> VisitMatch(a, s)

-----------------------------------------------------------------------------
(* analyze_with_dynamic_compilation: the passes one after the other *)

Init ==
  /\ code \in Modules
  /\ stage = "syntax"
  /\ raw = <<>> /\ plan = <<>> /\ hir = <<>>

Scan ==
  /\ stage = "syntax"
  /\ raw' = ModuleScope(code)
  /\ stage' = "scanned"
  /\ UNCHANGED <<code, plan, hir>>

Resolve ==
  /\ stage = "scanned"
  /\ plan' = ResolveScope(raw, {})
  /\ stage' = IF plan'.legal THEN "planned" ELSE "refused"
  /\ raw' = <<>>
  /\ UNCHANGED <<code, hir>>

Analyze ==
  /\ stage = "planned"
  /\ hir' = LET a == VisitStatements(Analyzer(plan), code) IN
            [bound |-> a.bound, mixed |-> a.mixed, ok |-> a.ok]
  /\ stage' = IF hir'.ok THEN "done" ELSE "refused"
  /\ plan' = <<>>
  /\ UNCHANGED <<code, raw>>

Next == Scan \/ Resolve \/ Analyze

Spec == Init /\ [][Next]_vars
=============================================================================
