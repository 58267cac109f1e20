-------------------------------- MODULE Syntax --------------------------------
LOCAL INSTANCE Sequences
(***************************************************************************)
(* The owned syntax tree (crates/rimera-compiler/src/syntax/mod.rs), as far *)
(* as the semantic analyser tells its nodes apart.  Optional parts are     *)
(* sequences of length 0 or 1.  `at` names a place of the source and `id` a *)
(* nested scope: they are spans.                                           *)
(***************************************************************************)

(* Expressions.  A group is any expression whose parts are only visited.    *)
Name(n, at) == [k |-> "name", n |-> n, at |-> at]
Group(es) == [k |-> "group", es |-> es]
Walrus(n, at, e) == [k |-> "walrus", n |-> n, at |-> at, e |-> e]
Yield(e) == [k |-> "yield", e |-> e]
Await(e) == [k |-> "await", e |-> e]
Param(n, default, annotation) == [n |-> n, default |-> default, annotation |-> annotation]
Lambda(id, params, e) == [k |-> "lambda", id |-> id, params |-> params, e |-> e]

(* A target: the names it binds and the expressions in it. *)
Target(names, at, es) == [names |-> names, at |-> at, es |-> es]

(* The elements of a comprehension: its key, if it has one, and its element. *)
ForClause(iter, target, filters) == [iter |-> iter, target |-> target, filters |-> filters]
Comp(id, clauses, es) ==
  [k |-> "comp", id |-> id, async |-> FALSE, clauses |-> clauses, es |-> es]

(* Statements *)
Expr(es) == [k |-> "expr", es |-> es]
Return(es) == [k |-> "return", es |-> es]
Break == [k |-> "break"]
Continue == [k |-> "continue"]
Global(names) == [k |-> "global", names |-> names]
Nonlocal(names) == [k |-> "nonlocal", names |-> names]
Import(names, at) == [k |-> "import", names |-> names, at |-> at]
Assignment(targets, es) == [k |-> "assign", targets |-> targets, es |-> es]
Augmented(target, e) == [k |-> "aug", target |-> target, e |-> e]
Annotated(target, annotation, value) ==
  [k |-> "ann", target |-> target, annotation |-> annotation, value |-> value]
TypeAlias(n, id, tparams, e) ==
  [k |-> "alias", n |-> n, at |-> id, id |-> id, tparams |-> tparams, e |-> e]
Def(n, id, tparams, decorators, params, returns, body, async) ==
  [k |-> "def", n |-> n, at |-> "name of " \o id, id |-> id, tparams |-> tparams,
   decorators |-> decorators, params |-> params, returns |-> returns, body |-> body,
   async |-> async]
Class(n, id, tparams, args, body) ==
  [k |-> "class", n |-> n, at |-> "name of " \o id, id |-> id, tparams |-> tparams,
   args |-> args, body |-> body]
If(e, body, orelse) == [k |-> "if", e |-> e, body |-> body, orelse |-> orelse]
For(target, e, body, orelse) ==
  [k |-> "loop", target |-> target, e |-> e, body |-> body, orelse |-> orelse, async |-> FALSE]
ExceptHandler(type, name, at, body) == [type |-> type, name |-> name, at |-> at, body |-> body]
Try(body, handlers, orelse, final, star) ==
  [k |-> "try", body |-> body, handlers |-> handlers, orelse |-> orelse, final |-> final,
   star |-> star]
WithItem(context, target) == [context |-> context, target |-> target]
With(items, body) == [k |-> "with", items |-> items, body |-> body, async |-> FALSE]
MatchCase(values, names, at, guard, body) ==
  [values |-> values, names |-> names, at |-> at, guard |-> guard, body |-> body]
Match(subject, cases) == [k |-> "match", subject |-> subject, cases |-> cases]
=============================================================================
