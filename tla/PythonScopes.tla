------------------------------ MODULE PythonScopes ------------------------------
(***************************************************************************)
(* How Python binds names, stated over the places where names occur, and   *)
(* the claim that the semantic analyser (Scopes) binds them so.            *)
(*                                                                         *)
(* An occurrence is a name or a jump with the lexical chain of the scopes  *)
(* around it, outermost first.  Syntax that a nested scope evaluates in    *)
(* the scope around it (defaults, decorators, the first iterable of a      *)
(* comprehension) has the chain of the scope around.                       *)
(***************************************************************************)
EXTENDS Scopes

Occurs(does, n, at, chain) == {[does |-> does, n |-> n, at |-> at, chain |-> chain, within |-> <<>>]}
Jump(does, chain, within) == {[does |-> does, n |-> "-", at |-> "-", chain |-> chain, within |-> within]}

In(chain, kind, id) == Append(chain, [kind |-> kind, id |-> id])

(* The nearest scope around that is no comprehension: a walrus binds there. *)
RECURSIVE Binder(_)
Binder(chain) == IF Last(chain).kind = "comp" THEN Binder(Front(chain)) ELSE chain

EachBinds(names, at, chain) == UNION {Occurs("bind", n, at, chain) : n \in names}

RECURSIVE OfExpression(_, _)
OfAll(es, chain) == UNION {OfExpression(es[k], chain) : k \in 1 .. Len(es)}
OfTarget(t, chain) == EachBinds(t.names, t.at, chain) \cup OfAll(t.es, chain)
OfTargets(ts, chain) == UNION {OfTarget(ts[k], chain) : k \in 1 .. Len(ts)}

OfComprehension(e, chain) ==
  LET inside == In(chain, "comp", e.id)
      Clause(k) == (IF k = 1 THEN OfExpression(e.clauses[k].iter, chain)
                             ELSE OfExpression(e.clauses[k].iter, inside))
                   \cup OfTarget(e.clauses[k].target, inside)
                   \cup OfAll(e.clauses[k].filters, inside) IN
  UNION {Clause(k) : k \in 1 .. Len(e.clauses)} \cup OfAll(e.es, inside)

OfExpression(e, chain) ==
  CASE e.k = "name" -> Occurs("use", e.n, e.at, chain)
    [] e.k = "group" -> OfAll(e.es, chain)
    [] e.k = "comp" -> OfComprehension(e, chain)
    [] e.k \in {"yield", "await"} -> Jump(e.k, chain, <<>>) \cup OfExpression(e.e, chain)
    [] e.k = "walrus" ->
         Occurs("walrus", e.n, e.at, chain) \cup OfExpression(e.e, chain)
           \cup Occurs("bind", e.n, "-", Binder(chain))
    [] e.k = "lambda" ->
         OfAll(Defaults(e.params), chain) \cup OfExpression(e.e, In(chain, "function", e.id))
           \cup UNION {Occurs("param", n, "-", In(chain, "function", e.id)) : n \in Names(e.params)}

RECURSIVE OfStatement(_, _, _)
OfBlock(body, chain, within) ==
  UNION {OfStatement(body[k], chain, within) : k \in 1 .. Len(body)}

(* The scope of the type parameters of s, if it has any. *)
Typed(s, chain) == IF s.tparams = {} THEN chain ELSE In(chain, "types", s.id)

OfFunction(s, chain) ==
  LET typed == Typed(s, chain)
      inside == In(typed, IF s.async THEN "async" ELSE "function", s.id) IN
  EachBinds({s.n}, s.at, chain) \cup OfAll(s.decorators \o Defaults(s.params), chain)
    \cup OfAll(Annotations(s.params) \o s.returns, typed)
    \cup UNION {Occurs("param", n, "-", typed) : n \in s.tparams}
    \cup UNION {Occurs("param", n, "-", inside) : n \in Names(s.params)}
    \cup OfBlock(s.body, inside, <<>>)

OfClass(s, chain) ==
  EachBinds({s.n}, s.at, chain) \cup OfAll(s.args, chain)
    \cup UNION {Occurs("param", n, "-", Typed(s, chain)) : n \in s.tparams}
    \cup OfBlock(s.body, In(Typed(s, chain), "class", s.id), <<>>)

OfTry(s, chain, within) ==
  LET kind == IF s.star THEN "star" ELSE "handler"
      Handler(h) == OfAll(h.type, chain) \cup EachBinds(h.name, h.at, chain)
                      \cup OfBlock(h.body, chain, Append(within, kind)) IN
  OfBlock(s.body \o s.orelse \o s.final, chain, within)
    \cup UNION {Handler(s.handlers[k]) : k \in 1 .. Len(s.handlers)}

OfStatement(s, chain, within) ==
  CASE s.k = "expr" -> OfAll(s.es, chain)
    [] s.k = "assign" -> OfTargets(s.targets, chain) \cup OfAll(s.es, chain)
    [] s.k = "aug" -> OfTarget(s.target, chain) \cup OfExpression(s.e, chain)
    [] s.k = "ann" ->
         OfTarget(s.target, chain) \cup OfAll(<<s.annotation>> \o s.value, chain)
    [] s.k = "def" -> OfFunction(s, chain)
    [] s.k = "class" -> OfClass(s, chain)
    [] s.k = "alias" -> EachBinds({s.n}, s.at, chain) \cup OfExpression(s.e, Typed(s, chain))
                          \cup UNION {Occurs("param", n, "-", Typed(s, chain)) : n \in s.tparams}
    [] s.k = "import" -> EachBinds(s.names, s.at, chain)
    [] s.k \in {"global", "nonlocal"} -> UNION {Occurs(s.k, n, "-", chain) : n \in s.names}
    [] s.k = "return" ->
         Jump(IF s.es = <<>> THEN "return" ELSE "return value", chain, within)
           \cup OfAll(s.es, chain)
    [] s.k \in {"break", "continue"} -> Jump("break", chain, within)
    [] s.k = "if" -> OfExpression(s.e, chain) \cup OfBlock(s.body \o s.orelse, chain, within)
    [] s.k = "loop" ->
         OfTargets(s.target, chain) \cup OfExpression(s.e, chain)
           \cup OfBlock(s.body, chain, Append(within, "loop")) \cup OfBlock(s.orelse, chain, within)
    [] s.k = "try" -> OfTry(s, chain, within)
    [] s.k = "with" ->
         UNION {OfExpression(s.items[k].context, chain) \cup OfTargets(s.items[k].target, chain)
                  : k \in 1 .. Len(s.items)} \cup OfBlock(s.body, chain, within)
    [] s.k = "match" ->
         OfExpression(s.subject, chain) \cup
         UNION {OfAll(s.cases[k].values \o s.cases[k].guard, chain)
                  \cup EachBinds(s.cases[k].names, s.cases[k].at, chain)
                  \cup OfBlock(s.cases[k].body, chain, within) : k \in 1 .. Len(s.cases)}

Occurrences(body) == OfBlock(body, <<[kind |-> "module", id |-> "module"]>>, <<>>)

-----------------------------------------------------------------------------
(* The rules of the language *)

Does(occ, does, n, chain) ==
  \E o \in occ : o.n = n /\ o.chain = chain /\ o.does \in does

IsFunction(chain) == Last(chain).kind \in {"function", "async", "comp"}

(* The chain of the scope that a free name belongs to: the nearest function *)
(* that binds it.  Classes are passed over; a `global` ends the search.    *)
RECURSIVE Enclosing(_, _, _)
Enclosing(occ, n, chain) ==
  CASE Len(chain) <= 1 -> <<>>
    [] Len(chain) > 1 /\ (Last(chain).kind = "class" \/ Does(occ, {"nonlocal"}, n, chain)) ->
         Enclosing(occ, n, Front(chain))
    [] Len(chain) > 1 /\ Last(chain).kind # "class" /\ Does(occ, {"global"}, n, chain) -> <<>>
    [] OTHER -> IF Does(occ, {"bind", "param"}, n, chain) THEN chain
                ELSE Enclosing(occ, n, Front(chain))

(* Does a scope nested in this one use the n of this one? *)
Shared(occ, n, chain) ==
  \E o \in occ :
    LET from == IF Last(o.chain).kind = "types" THEN Front(o.chain) ELSE o.chain IN
    /\ o.n = n /\ o.does \in {"use", "bind", "walrus", "nonlocal"}
    /\ Len(from) > Len(chain) /\ SubSeq(from, 1, Len(chain)) = chain
    /\ \/ Does(occ, {"nonlocal"}, n, from)
       \/ ~Does(occ, {"bind", "param", "global"}, n, from)
    /\ Enclosing(occ, n, Front(from)) = chain

(* How a name is bound in a scope, and by which scope. *)
RECURSIVE Rule(_, _, _)
Rule(occ, n, chain) ==
  LET scope == Last(chain)
      Is(kind, owner) == [kind |-> kind, owner |-> owner]
      owner == Enclosing(occ, n, Front(chain)) IN
  IF scope.kind = "types"
  THEN IF Does(occ, {"param"}, n, chain) THEN Is("free", scope.id)
       ELSE Rule(occ, n, Front(chain))
  ELSE IF scope.kind = "module" \/ Does(occ, {"global"}, n, chain) THEN Is("global", "-")
  ELSE IF Does(occ, {"nonlocal"}, n, chain) THEN Is("free", Last(owner).id)
  ELSE IF Does(occ, {"bind", "param"}, n, chain)
  THEN IF scope.kind = "class" THEN Is("class", "-")
       ELSE Is(IF Shared(occ, n, chain) THEN "cell" ELSE "local", "-")
  ELSE IF owner = <<>> THEN Is(IF scope.kind = "class" THEN "class" ELSE "global", "-")
  ELSE Is(IF scope.kind = "class" THEN "class or free" ELSE "free", Last(owner).id)

Expected(occ) ==
  {[n |-> o.n, at |-> o.at, kind |-> Rule(occ, o.n, o.chain).kind,
    owner |-> Rule(occ, o.n, o.chain).owner] :
      o \in {o \in occ : o.does \in {"use", "bind", "walrus"} /\ o.at # "-"}}

(* Declarations that Python accepts. *)
DeclarationsLegal(occ) ==
  /\ \A o \in occ : o.does = "global" =>
       ~Does(occ, {"nonlocal", "param"}, o.n, o.chain)
  /\ \A o \in occ : o.does = "nonlocal" =>
       /\ ~Does(occ, {"param"}, o.n, o.chain)
       /\ Len(o.chain) > 1
       /\ LET owner == Enclosing(occ, o.n, Front(o.chain)) IN
          owner # <<>> /\ Last(owner).kind # "types"

(* Jumps that Python accepts: out of a loop around, and not out of a        *)
(* handler of `except*`.                                                   *)
JumpLegal(occ, o) ==
  CASE o.does = "break" ->
         LET around == SelectSeq(o.within, LAMBDA w : w # "handler") IN
         around # <<>> /\ Last(around) = "loop"
    [] o.does = "return" -> IsFunction(o.chain) /\ "star" \notin Range(o.within)
    [] o.does = "return value" ->
         /\ IsFunction(o.chain) /\ "star" \notin Range(o.within)
         /\ Last(o.chain).kind = "async" =>
              ~\E y \in occ : y.does = "yield" /\ y.chain = o.chain
    [] o.does = "yield" -> IsFunction(o.chain)
    [] o.does = "await" -> Last(Binder(o.chain)).kind = "async"

(* A walrus in a comprehension binds no iteration variable around it.       *)
WalrusLegal(occ, o) ==
  /\ Last(Binder(o.chain)).kind = "class" => Binder(o.chain) = o.chain
  /\ \A k \in Len(Binder(o.chain)) + 1 .. Len(o.chain) :
       ~Does(occ, {"bind"}, o.n, SubSeq(o.chain, 1, k))

Legal(occ) ==
  /\ DeclarationsLegal(occ)
  /\ \A o \in occ :
       /\ o.does \in {"break", "return", "return value", "yield", "await"} => JumpLegal(occ, o)
       /\ o.does = "walrus" => WalrusLegal(occ, o)

-----------------------------------------------------------------------------
(* Properties *)

(* Is n not a name of the scope of this chain itself? *)
Free(occ, n, chain) ==
  Does(occ, {"nonlocal"}, n, chain) \/ ~Does(occ, {"bind", "param", "global"}, n, chain)

(* What is known to be refused or bound otherwise (README): a name that a    *)
(* function between its use and its binding declares global, ...           *)
GlobalBetween(occ) ==
  \E o, g \in occ :
    /\ g.does = "global" /\ IsFunction(g.chain) /\ o.n = g.n
    /\ Len(o.chain) > Len(g.chain) /\ SubSeq(o.chain, 1, Len(g.chain)) = g.chain
    /\ Free(occ, o.n, o.chain) /\ Enclosing(occ, o.n, Front(o.chain)) = <<>>
    /\ Enclosing(occ, o.n, Front(g.chain)) # <<>>

(* ... a type parameter that is used in a scope nested in its function or    *)
(* class, bound again in its class or declared nonlocal, ...               *)
TypeParameterNested(occ) ==
  \E o \in occ :
    LET owner == Enclosing(occ, o.n, Front(o.chain)) IN
    /\ owner # <<>> /\ Last(owner).kind = "types"
    /\ \/ /\ Len(o.chain) > Len(owner) + 1
          /\ ~Does(occ, {"bind", "param", "global", "nonlocal"}, o.n, o.chain)
       \/ o.does = "bind" /\ Last(o.chain).kind = "class"
       \/ o.does = "nonlocal"

(* ... a name that a class binds and its methods take from a scope around,   *)
(* ...                                                                     *)
ClassBindsAndPasses(occ) ==
  \E b, o \in occ :
    /\ b.does = "bind" /\ Last(b.chain).kind = "class" /\ o.n = b.n
    /\ o.does \in {"use", "walrus", "bind", "nonlocal"}
    /\ Len(o.chain) > Len(b.chain) /\ SubSeq(o.chain, 1, Len(b.chain)) = b.chain
    /\ Free(occ, o.n, o.chain)
    /\ Enclosing(occ, o.n, Front(o.chain)) # <<>>
    /\ Enclosing(occ, o.n, Front(o.chain)) = Enclosing(occ, o.n, Front(b.chain))

(* ... and jumps in a statement nested in a handler of `except*`.           *)
JumpInExceptStar(occ) ==
  \E o \in occ : /\ o.does \in {"break", "return", "return value"}
                 /\ "star" \in Range(o.within)
                 /\ Last(o.within) # "star" \/ Last(o.chain).kind = "class"

Known(occ) == GlobalBetween(occ) \/ TypeParameterNested(occ) \/ ClassBindsAndPasses(occ) \/ JumpInExceptStar(occ)

(* A module the analyser is done with is legal Python and every name in it  *)
(* is bound as Python binds it; a module it refuses is not legal.  The      *)
(* passes compute this with sets of names that travel up and down the tree *)
(* of scopes: resolve_scope, Analyzer::binding.                            *)
BindsLikePython ==
  stage \in {"done", "refused"} =>
    LET occ == Occurrences(code) IN
    \/ Known(occ)
    \/ stage = "refused" /\ ~Legal(occ)
    \/ stage = "done" /\ Legal(occ) /\ hir.bound = Expected(occ)

(* Every nested scope is analysed by the plan made of it: both passes meet  *)
(* the nested scopes in the same order.                                    *)
PlansMatch == stage = "done" => hir.mixed = {}
=============================================================================
