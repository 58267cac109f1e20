---------------------------- MODULE Evaluation ----------------------------
(***************************************************************************)
(* What expressions, assignments and patterns mean in Python, as an        *)
(* evaluation of the source that reads the choices of the environment in   *)
(* order, with the arguments each of them was made with.                   *)
(*                                                                         *)
(* A result is how the evaluation completed (out), the leaves of the       *)
(* exception it raises (exc), its value (val), the choices and the next    *)
(* one to read (pos), for a pattern whether it matched and what it         *)
(* captured (env), and the scope the evaluation is in.  "more": the        *)
(* choices ran out; "wrong": the next choice is not one that the source    *)
(* makes here.  A value is named by the choice that made it.               *)
(***************************************************************************)
EXTENDS Expressions

Begin(choices, scope) ==
    [choices |-> choices, pos |-> 1, out |-> "normal", exc |-> {}, val |-> {},
     matched |-> FALSE, env |-> {}, scope |-> scope]

Normal(r) == r.out = "normal"
Completed(r, out) == [r EXCEPT !.out = out]
Throws(r, leaves) == [r EXCEPT !.out = "raise", !.exc = leaves]
Giving(r, v) == [r EXCEPT !.val = v]

\* Reading the choice that l makes of args; Then is what its outcome leads to.
Read(r, l, args, Then(_, _)) ==
    IF ~Normal(r) THEN r
    ELSE IF r.pos > Len(r.choices) THEN Completed(r, "more")
    ELSE IF r.choices[r.pos].l # l \/ r.choices[r.pos].args # args THEN Completed(r, "wrong")
    ELSE LET o == r.choices[r.pos].o
             next == [r EXCEPT !.pos = @ + 1, !.val = {<<r.pos, 0>>}]
         IN  IF o \in {"raise", "fail"} THEN Throws(next, {<<r.pos, 0>>})
             ELSE Then(next, o)

Does(r, l, args) == Read(r, l, args, LAMBDA next, o : next)

\* The delegate r.val is driven once; a suspension passes on what it yields.
Driven(r, l) ==
    Read(r, <<"drive", l>>, <<r.val>>,
         LAMBDA next, o : IF o = "pending" THEN Does(next, <<"resume", l>>, <<next.val, r.val>>)
                          ELSE next)

RunAwait(r, l) == Driven(Does(r, <<"awaited", l>>, <<r.val>>), l)

-----------------------------------------------------------------------------
(* Expressions.                                                            *)

RECURSIVE Evaluate(_, _)

EvaluateAll(es, r) ==
    FoldLeft(LAMBDA done, e : LET x == Evaluate(e, done.r)
                              IN  [r |-> x, vs |-> Append(done.vs, x.val)],
             [r |-> r, vs |-> <<>>], es)

\* and, or: parts after the first are evaluated while the value so far does
\* not decide.
RECURSIVE Deciding(_, _, _)
Deciding(e, i, r) ==
    IF i = Len(e.parts) THEN r
    ELSE Read(r, <<"if", e.l + i>>, <<r.val>>,
              LAMBDA next, o : IF (o = "true") = (e.op = "and")
                               THEN Deciding(e, i + 1, Evaluate(e.parts[i + 1], next))
                               ELSE Giving(next, r.val))

\* A chain of comparisons evaluates each operand once; left is the previous.
RECURSIVE Comparing(_, _, _, _)
Comparing(e, i, r, left) ==
    LET right == Evaluate(e.parts[i + 1], r)
        c == Does(right, <<"compare", e.l + i>>, <<left, right.val>>)
    IN  IF i + 1 = Len(e.parts) THEN c
        ELSE Read(c, <<"if", e.l + i>>, <<c.val>>,
                  LAMBDA next, o : IF o = "true" THEN Comparing(e, i + 1, next, right.val)
                                   ELSE Giving(next, c.val))

EvaluateDictionary(e, r) ==
    LET d == Does(r, <<"dict", e.l>>, <<>>)
        Entry(x, entry) ==
            LET done == EvaluateAll(entry.key \o <<entry.value>>, x)
            IN  Does(done.r, <<IF entry.key = <<>> THEN "merge" ELSE "setitem", entry.l>>,
                     <<d.val>> \o done.vs)
    IN  Giving(FoldLeft(Entry, d, e.entries), d.val)

EvaluateCall(e, r) ==
    LET f == Evaluate(e.callable, r)
        plain == EvaluateAll([i \in DOMAIN e.parts |-> e.parts[i].value], f)
        Add(x, part) == LET v == Evaluate(part.value, x)
                        IN  Does(v, <<"argument", part.l>>, <<{}, v.val>>)
    IN  IF \E i \in DOMAIN e.parts : e.parts[i].expanded
        THEN Does(FoldLeft(Add, f, e.parts), <<"call", e.l>>, <<f.val, {}>>)
        ELSE Does(plain.r, <<"call", e.l>>, <<f.val>> \o plain.vs)

\* A call that is awaited may run to its end at once ("ready").
EvaluateAwait(e, r) ==
    LET call == e.value
        f == Evaluate(call.callable, r)
        args == EvaluateAll([i \in DOMAIN call.parts |-> call.parts[i].value], f)
        use == <<f.val>> \o args.vs
    IN  IF call.k = "call" /\ \A i \in DOMAIN call.parts : ~call.parts[i].expanded
        THEN Read(args.r, <<"ready", e.l>>, use,
                  LAMBDA next, o : IF o = "done" THEN next
                                   ELSE RunAwait(Does(next, <<"call", call.l>>, use), e.l))
        ELSE RunAwait(Evaluate(call, r), e.l)

\* The iterable of the first clause is evaluated outside of the comprehension.
EvaluateComprehension(e, r) ==
    LET x == Evaluate(e.iterable, r)
        iterator == Does(x, <<"iter", e.l>>, <<x.val>>)
        make == Does(iterator, <<"make", e.l>>, <<>>)
        call == Does(make, <<"call", e.l>>, <<make.val, iterator.val>>)
    IN  IF e.async /\ e.kind # "generator" THEN RunAwait(call, e.l) ELSE call

EvaluateParts(e, r) ==
    CASE e.k = "apply"  -> LET done == EvaluateAll(e.parts, r)
                           IN  Does(done.r, <<e.kind, e.l>>, done.vs)
      [] e.k = "lambda" -> LET done == EvaluateAll(e.defaults, r)
                           IN  Does(done.r, <<"make", e.l>>, done.vs)
      [] e.k = "joined" -> LET done == EvaluateAll(e.parts, r)
                           IN  Giving(done.r, UNION ToSet(done.vs))
      [] e.k = "formatted" -> LET done == EvaluateAll(<<e.value, e.spec>>, r)
                              IN  Does(done.r, <<"format", e.l>>, done.vs)
      [] e.k = "walrus" -> LET x == Evaluate(e.value, r)
                           IN  Giving(Does(x, <<"bind", e.l>>, <<x.val>>), x.val)
      [] e.k = "yield"  -> LET x == Evaluate(e.value, r) IN Does(x, <<"resume", e.l>>, <<x.val>>)
      [] e.k = "from"   -> LET x == Evaluate(e.value, r)
                           IN  Driven(Does(x, <<"iter", e.l>>, <<x.val>>), e.l)

Evaluate(e, r) ==
    IF ~Normal(r) THEN r
    ELSE CASE e.k = "none"    -> Giving(r, {})
           [] e.k = "name"    -> Does(r, <<"load", e.l>>, <<>>)
           [] e.k = "dict"    -> EvaluateDictionary(e, r)
           [] e.k = "boolean" -> Deciding(e, 1, Evaluate(Head(e.parts), r))
           [] e.k = "chain"   -> LET left == Evaluate(Head(e.parts), r)
                                 IN  Comparing(e, 1, left, left.val)
           [] e.k = "call"    -> EvaluateCall(e, r)
           [] e.k = "await"   -> EvaluateAwait(e, r)
           [] e.k = "comprehension" -> EvaluateComprehension(e, r)
           [] OTHER           -> EvaluateParts(e, r)

-----------------------------------------------------------------------------
(* Targets.                                                                *)

RECURSIVE Write(_, _, _), Unset(_, _)

Write(t, v, r) ==
    CASE t.k = "name" -> Does(r, <<"bind", t.l>>, <<v>>)
      [] t.k = "sequence" ->
           LET u == Does(r, <<"unpack", t.l>>, <<v>>)
           IN  FoldLeft(LAMBDA x, i : Write(t.elements[i], Element(u.val, i), x),
                        u, [i \in DOMAIN t.elements |-> i])
      [] OTHER -> LET done == EvaluateAll(t.parts, r)
                  IN  Does(done.r, <<Verb[t.k].set, t.l>>, done.vs \o <<v>>)

Unset(t, r) ==
    CASE t.k = "name" -> Does(r, <<"unbind", t.l>>, <<>>)
      [] t.k = "sequence" -> FoldLeft(LAMBDA x, e : Unset(e, x), r, t.elements)
      [] OTHER -> LET done == EvaluateAll(t.parts, r)
                  IN  Does(done.r, <<Verb[t.k].del, t.l>>, done.vs)

\* The target is evaluated once and read before the operand is evaluated.
Augment(t, l, e, r) ==
    LET done == IF t.k = "name" THEN [r |-> r, vs |-> <<>>] ELSE EvaluateAll(t.parts, r)
        old == Does(done.r, <<IF t.k = "name" THEN "load" ELSE Verb[t.k].get, t.l>>, done.vs)
        operand == Evaluate(e, old)
        new == Does(operand, <<"inplace", l>>, <<old.val, operand.val>>)
    IN  Does(new, <<IF t.k = "name" THEN "bind" ELSE Verb[t.k].set, t.l>>, done.vs \o <<new.val>>)

-----------------------------------------------------------------------------
(* Patterns.                                                               *)

RECURSIVE Matching(_, _, _)

Matches(r, yes) == [r EXCEPT !.matched = yes]
Captures(r, name, v) == [r EXCEPT !.env = @ \cup {<<name, v>>}, !.matched = TRUE]

\* Element by element until one fails.
RECURSIVE MatchingAll(_, _, _, _)
MatchingAll(ps, i, values, r) ==
    IF i > Len(ps) THEN Matches(r, TRUE)
    ELSE LET m == Matching(ps[i], Element(values, i), r)
         IN  IF m.matched THEN MatchingAll(ps, i + 1, values, m) ELSE m

\* What a failed alternative captured is forgotten.
RECURSIVE MatchingAny(_, _, _, _)
MatchingAny(ps, i, v, r) ==
    LET m == Matching(ps[i], v, r)
    IN  IF m.matched \/ i = Len(ps) THEN m
        ELSE MatchingAny(ps, i + 1, v, [m EXCEPT !.env = r.env])

MatchingParts(p, l, args, r) ==
    Read(r, l, args,
         LAMBDA next, o : IF o = "match" THEN MatchingAll(p.patterns, 1, next.val, next)
                          ELSE Matches(next, FALSE))

MatchingMapping(p, v, r) ==
    LET Keys(x) ==
            LET keys == EvaluateAll(p.keys, x)
                m == MatchingParts(p, <<"keys", p.l>>, <<v>> \o keys.vs, keys.r)
            IN  IF m.matched /\ p.rest # <<>>
                THEN Captures(m, p.rest[1], Element({<<keys.r.pos, 0>>}, Len(p.patterns) + 1)) ELSE m
    IN  Read(r, <<"mapping", p.l>>, <<v>>,
             LAMBDA next, o : IF o = "match" THEN Keys(next) ELSE Matches(next, FALSE))

\* p against the value v; only a normal result can have matched.
Matching(p, v, before) ==
    LET r == Matches(before, FALSE)
        value == Evaluate(p.value, r)
        equal == Does(value, <<"compare", p.l>>, <<v, value.val>>)
        class == Evaluate(p.class, r)
        inner == Matching(p.pattern, v, r)
    IN  CASE ~Normal(r) -> r
          [] p.k = "value" -> Read(equal, <<"if", p.l>>, <<equal.val>>,
                                   LAMBDA next, o : Matches(next, o = "true"))
          [] p.k = "singleton" -> Read(r, <<"is", p.l>>, <<v, {}>>,
                                       LAMBDA next, o : Matches(next, o = "true"))
          [] p.k = "capture"  -> Captures(r, p.name, v)
          [] p.k = "wildcard" -> Matches(r, TRUE)
          [] p.k = "as" -> IF inner.matched THEN Captures(inner, p.name, v) ELSE inner
          [] p.k = "or" -> MatchingAny(p.patterns, 1, v, r)
          [] p.k = "sequence" -> MatchingParts(p, <<"sequence", p.l>>, <<v>>, r)
          [] p.k = "mapping"  -> MatchingMapping(p, v, r)
          [] p.k = "class" -> MatchingParts(p, <<"class", p.l>>, <<v, class.val>>, class)

\* The names are bound once the whole pattern has matched.
Binding(names, r) ==
    FoldLeft(LAMBDA x, name : LET v == (CHOOSE b \in r.env : b[1] = name)[2]
                              IN  Does(x, <<"bind", name>>, <<v>>),
             r, names)
=============================================================================
