----------------------------- MODULE Execution -----------------------------
(***************************************************************************)
(* What statements mean in Python, on top of Evaluation.                   *)
(***************************************************************************)
EXTENDS Evaluation

\* active: the leaves of the exception being handled, for a bare raise.
RECURSIVE Run(_, _, _)

-----------------------------------------------------------------------------
(* try, with and loops.                                                    *)

RECURSIVE RunHandler(_, _, _), RunHandlers(_, _, _, _), RunStar(_, _, _, _, _, _), RunLoop(_, _, _, _)

RunTry(s, r, active) ==
    LET body == Run(s.body, r, active)
        rest == CASE body.out = "raise" ->
                       IF s.k = "star" THEN RunStar(s.handlers, 1, body.exc, {}, body, active)
                       ELSE RunHandlers(s.handlers, 1, body, active)
                  [] body.out = "normal" -> Run(s.else, body, active)
                  [] OTHER -> body
        last == Run(s.fin, Completed(rest, "normal"),
                    IF rest.out = "raise" THEN rest.exc ELSE active)
    IN  IF rest.out \in {"more", "wrong"} THEN rest
        ELSE IF last.out = "normal" THEN [rest EXCEPT !.pos = last.pos] ELSE last

\* The name holds the exception until the handler ends, in whatever way, and
\* is unbound then: that it has been deleted before is no error.
RunHandler(h, r, exc) ==
    LET bound == Does(r, <<"bind", h.l>>, <<exc>>)
        body == Run(h.body, bound, exc)
    IN  IF ~h.named THEN Run(h.body, r, exc)
        ELSE IF ~Normal(bound) \/ body.out \in {"more", "wrong"} THEN body
        ELSE Read(Completed(body, "normal"), <<"forget", h.l>>, <<>>,
                  LAMBDA next, o : [body EXCEPT !.pos = next.pos])

RunHandlers(handlers, i, r, active) ==
    IF i > Len(handlers) THEN r
    ELSE LET h == handlers[i]
             go == Completed(r, "normal")
             typed == Does(go, <<"type", h.l>>, <<>>)
         IN  IF ~h.typed THEN RunHandler(h, go, r.exc)
             ELSE Read(typed, <<"match", h.l>>, <<r.exc, typed.val>>,
                       LAMBDA next, o : IF o = "match" THEN RunHandler(h, next, r.exc)
                                        ELSE RunHandlers(handlers, i + 1, Throws(next, r.exc), active))

\* Every handler whose part is not empty runs; their failures and what no
\* handler took are raised together.
RunStar(handlers, i, rest, failures, r, active) ==
    LET go == Completed(r, "normal") IN
    IF i > Len(handlers)
    THEN IF rest \cup failures = {} THEN go ELSE Throws(go, rest \cup failures)
    ELSE IF rest = {} THEN RunStar(handlers, i + 1, rest, failures, go, active)
    ELSE Read(go, <<IF i = Len(handlers) THEN "last" ELSE "split", handlers[i].l>>, <<rest>>,
              LAMBDA next, o :
                 LET taken == r.choices[r.pos].leaves
                     h == IF taken = {} THEN next ELSE RunHandler(handlers[i], next, taken)
                 IN  IF h.out \in {"more", "wrong"} THEN h
                     ELSE RunStar(handlers, i + 1, rest \ taken,
                                  failures \cup (IF h.out = "raise" THEN h.exc ELSE {}), h, active))

WriteAll(targets, v, r) == FoldLeft(LAMBDA x, t : Write(t, v, x), r, targets)

\* __exit__ gets the exception that leaves the body.
RunExit(r, s, exc) ==
    LET called == Does(r, <<"exit", s.l>>, <<{}, exc>>)
    IN  IF s.async THEN RunAwait(called, 10 * s.l + 1) ELSE called

RunWith(s, r, active) ==
    LET context == Evaluate(s.context, r)
        manager == Does(context, <<"manager", s.l>>, <<context.val>>)
        entered == IF s.async THEN RunAwait(manager, 10 * s.l) ELSE manager
        body == Run(s.body, WriteAll(s.target, entered.val, entered), active)
        exit == RunExit(Completed(body, "normal"), s, IF body.out = "raise" THEN body.exc ELSE {})
    IN  IF ~Normal(entered) THEN entered
        ELSE IF body.out \in {"more", "wrong"} THEN body
        ELSE IF ~Normal(exit) THEN exit
        ELSE IF body.out # "raise" THEN [body EXCEPT !.pos = exit.pos]
        ELSE Read(exit, <<"not", s.l>>, <<exit.val>>,
                  LAMBDA next, o : IF o = "true" THEN Throws(next, body.exc) ELSE next)

\* The next item of an asynchronous iterator: StopAsyncIteration ends it.
NextAwaited(r, l, iterator, Item(_), Ended(_)) ==
    LET item == RunAwait(Does(r, <<"anext", l>>, <<iterator>>), l)
    IN  CASE Normal(item) -> Item(item)
          [] item.out = "raise" ->
               Read(Completed(item, "normal"), <<"stop", l>>, <<item.exc>>,
                    LAMBDA next, o : IF o = "match" THEN Ended(next) ELSE Throws(next, item.exc))
          [] OTHER -> item

\* After a turn of a loop.
Again(s, r, iterator, active) ==
    CASE r.out \in {"normal", "continue"} -> RunLoop(s, Completed(r, "normal"), iterator, active)
      [] r.out = "break" -> Completed(r, "normal")
      [] OTHER -> r

RunLoop(s, r, iterator, active) ==
    LET test == Evaluate(s.test, r)
        Turn(item) == Again(s, Run(s.body, WriteAll(s.target, item.val, item), active), iterator, active)
        Else(x) == Run(s.else, x, active)
    IN  CASE s.k = "while" ->
               Read(test, <<"if", s.l>>, <<test.val>>,
                    LAMBDA next, o : IF o = "true" THEN Again(s, Run(s.body, next, active), {}, active)
                                     ELSE next)
          [] s.k = "afor" -> NextAwaited(r, s.l, iterator, Turn, Else)
          [] s.k = "for" -> Read(r, <<"next", s.l>>, <<iterator>>,
                                 LAMBDA next, o : IF o = "item" THEN Turn(next) ELSE Else(next))

RunFor(s, r, active) ==
    LET iterable == Evaluate(s.iterable, r)
        iterator == Does(iterable, <<"iter", s.l>>, <<iterable.val>>)
    IN  IF Normal(iterator) THEN RunLoop(s, iterator, iterator.val, active) ELSE iterator

-----------------------------------------------------------------------------
(* match: the names stay bound when the guard fails.                       *)

RECURSIVE RunCases(_, _, _, _, _)
RunCases(s, i, subject, r, active) ==
    IF i > Len(s.cases) \/ ~Normal(r) THEN r
    ELSE LET case == s.cases[i]
             m == Matching(case.pattern, subject, [r EXCEPT !.env = {}])
             bound == Binding(PatternBindings(case.pattern), m)
             guard == EvaluateAll(case.guard, bound)
         IN  IF ~Normal(m) THEN m
             ELSE IF ~m.matched THEN RunCases(s, i + 1, subject, m, active)
             ELSE IF case.guard = <<>> THEN Run(case.body, bound, active)
             ELSE Read(guard.r, <<"if", case.l>>, guard.vs,
                       LAMBDA next, o : IF o = "true" THEN Run(case.body, next, active)
                                        ELSE RunCases(s, i + 1, subject, next, active))

-----------------------------------------------------------------------------
(* Definitions.                                                            *)

TypeVariables(ls, r) ==
    FoldLeft(LAMBDA done, l : LET x == Does(done.r, <<"typevar", l>>, <<>>)
                              IN  [r |-> x, vs |-> Append(done.vs, x.val)],
             [r |-> r, vs |-> <<>>], ls)

SetIfAny(r, l, v, vs) == IF vs = <<>> THEN r ELSE Does(r, <<"setattr", l>>, <<v, {}>>)

\* Decorators are evaluated first, in order, and called last, in reverse.
Decorate(r, l, callables, v) ==
    FoldLeft(LAMBDA x, i : Does(x, <<"call", l + i>>, <<callables[i], x.val>>),
             Giving(r, v), Reverse([i \in DOMAIN callables |-> i]))

RunDef(s, r) ==
    LET decorators == EvaluateAll(s.decorators, r)
        defaults == EvaluateAll(s.defaults, decorators.r)
        types == TypeVariables(s.types, defaults.r)
        annotations == EvaluateAll(s.annotations, types.r)
        made == Does(annotations.r, <<"make", s.l>>, defaults.vs)
        set == SetIfAny(SetIfAny(made, s.l, made.val, annotations.vs), s.l + 1, made.val, types.vs)
        f == Decorate(set, s.l, decorators.vs, made.val)
    IN  Does(f, <<"bind", s.l>>, <<f.val>>)

\* The body runs in what __prepare__ returns, or in a plain namespace.
RunClass(s, r) ==
    LET decorators == EvaluateAll(s.decorators, r)
        types == TypeVariables(s.types, decorators.r)
        bases == EvaluateAll(s.bases, types.r)
        keywords == EvaluateAll(s.keywords, bases.r)
        metaclass == EvaluateAll(s.metaclass, keywords.r)
        by == s.metaclass # <<>>
        prepare == Does(metaclass.r, <<"getattr", s.l>>, metaclass.vs)
        namespace == IF by THEN Does(prepare, <<"call", s.l>>, <<prepare.val, {}>> \o keywords.vs)
                     ELSE Giving(metaclass.r, {})
        seeded == Does(Does(namespace, <<"module", s.l>>, <<namespace.val>>),
                       <<"qualname", s.l>>, <<namespace.val>>)
        body == Does(seeded, <<"make", s.l>>, <<>>)
        ran == Does(body, <<"call", s.l + 1>>, <<body.val, namespace.val>>)
        class == Does(ran, <<"class", s.l>>,
                      IF by THEN metaclass.vs \o <<{}, namespace.val>> \o keywords.vs
                      ELSE bases.vs \o <<namespace.val>> \o keywords.vs)
        set == SetIfAny(class, s.l, class.val, types.vs)
        decorated == Decorate(set, s.l + 1, decorators.vs, class.val)
    IN  Does(decorated, <<"bind", s.l>>, <<decorated.val>>)

\* The value of a type alias is not evaluated.
RunAlias(s, r) ==
    LET types == TypeVariables(s.types, r)
        alias == Does(types.r, <<"alias", s.l>>, <<{}, {}>>)
    IN  Does(alias, <<"bind", s.l>>, <<alias.val>>)

-----------------------------------------------------------------------------
(* The other statements.                                                   *)

RunAnnotated(s, r) ==
    LET value == IF s.value # <<>>
                 THEN LET v == Evaluate(s.value[1], r) IN Write(s.target, v.val, v)
                 ELSE IF s.target.k = "name" THEN r ELSE EvaluateAll(s.target.parts, r).r
        annotation == Evaluate(s.annotation, value)
        mapping == Does(annotation, <<"annotations", s.l>>, <<>>)
    IN  IF r.scope = "function" THEN value
        ELSE IF ~s.simple THEN annotation
        ELSE Does(mapping, <<"annotate", s.l>>, <<mapping.val, annotation.val>>)

RunAssert(s, r) ==
    LET test == Evaluate(s.test, r)
        Fails(x) == LET class == Does(x, <<"global", s.l>>, <<>>)
                        message == EvaluateAll(s.message, class)
                        error == Does(message.r, <<"call", s.l>>, <<class.val>> \o message.vs)
                    IN  Does(error, <<"raise", s.l>>, <<error.val>>)
    IN  Read(test, <<"if", s.l>>, <<test.val>>,
             LAMBDA next, o : IF o = "true" THEN next ELSE Fails(next))

\* import a.b.c binds a; import a.b.c as x reads b and then c.
RunImport(s, r) ==
    LET top == Does(r, <<"import", s.l>>, <<>>)
        leaf == FoldLeft(LAMBDA x, i : Does(x, <<"getattr", s.l + i>>, <<x.val>>),
                         top, [i \in 1..s.depth - 1 |-> i])
        bound == IF s.whole THEN leaf ELSE top
    IN  Does(bound, <<"bind", s.l>>, <<bound.val>>)

RunImportFrom(s, r) ==
    LET module == Does(r, <<"import", s.l>>, <<>>)
        One(x, l) == LET v == Does(x, <<"importfrom", l>>, <<module.val>>)
                     IN  Does(v, <<"bind", l>>, <<v.val>>)
    IN  FoldLeft(One, module, s.names)

RunReturn(s, r) ==
    LET value == EvaluateAll(s.value, r)
    IN  IF Normal(value.r)
        THEN Giving(Completed(value.r, "return"), UNION ToSet(value.vs)) ELSE value.r

RunRaise(s, r) ==
    LET parts == EvaluateAll(s.parts, r) IN Does(parts.r, <<"raise", s.l>>, parts.vs)

\* A new group of three exceptions.
RunGroup(s, r) ==
    Read(r, <<"group", s.l>>, <<>>, LAMBDA next, o : Throws(next, {<<r.pos, i>> : i \in 1..3}))

RunIf(s, r, active) ==
    LET test == Evaluate(s.test, r)
    IN  Read(test, <<"if", s.l>>, <<test.val>>,
             LAMBDA next, o : Run(IF o = "true" THEN s.then ELSE s.else, next, active))

RunSimple(s, r) ==
    CASE s.k = "do"     -> Does(r, <<"do", s.l>>, <<>>)
      [] s.k = "expr"   -> Evaluate(s.value, r)
      [] s.k = "assign" -> LET v == Evaluate(s.value, r) IN WriteAll(s.targets, v.val, v)
      [] s.k = "aug"    -> Augment(s.target, s.l, s.value, r)
      [] s.k = "del"    -> FoldLeft(LAMBDA x, t : Unset(t, x), r, s.targets)
      [] s.k = "ann"    -> RunAnnotated(s, r)
      [] s.k = "assert" -> RunAssert(s, r)
      [] s.k = "raise"  -> RunRaise(s, r)
      [] s.k = "group"  -> RunGroup(s, r)
      [] s.k = "return" -> RunReturn(s, r)
      [] s.k = "import" -> RunImport(s, r)
      [] s.k = "from"   -> RunImportFrom(s, r)
      [] s.k = "def"    -> RunDef(s, r)
      [] s.k = "class"  -> RunClass(s, r)
      [] s.k = "alias"  -> RunAlias(s, r)

RunStatement(s, r, active) ==
    CASE s.k = "reraise" -> IF active = {} THEN Does(r, <<"reraise", s.l>>, <<>>) ELSE Throws(r, active)
      [] s.k \in {"break", "continue"} -> Completed(r, s.k)
      [] s.k = "if"      -> RunIf(s, r, active)
      [] s.k = "while"   -> RunLoop(s, r, {}, active)
      [] s.k \in {"for", "afor"} -> RunFor(s, r, active)
      [] s.k = "with"    -> RunWith(s, r, active)
      [] s.k \in {"try", "star"} -> RunTry(s, r, active)
      [] s.k = "match"   -> LET v == Evaluate(s.subject, r) IN RunCases(s, 1, v.val, v, active)
      [] OTHER           -> RunSimple(s, r)

Run(body, r, active) ==
    IF body = <<>> \/ ~Normal(r) THEN r
    ELSE Run(Tail(body), RunStatement(Head(body), r, active), active)

\* The annotations of a module or class are set up when it has any, wherever
\* in its statements.
RECURSIVE Annotates(_)
Annotates(body) ==
    \E i \in DOMAIN body :
        LET s == body[i] IN
        CASE s.k = "ann" -> TRUE
          [] s.k = "if"  -> Annotates(s.then) \/ Annotates(s.else)
          [] s.k \in {"while", "with"} -> Annotates(s.body)
          [] s.k \in {"for", "afor"} -> Annotates(s.body) \/ Annotates(s.else)
          [] s.k \in {"try", "star"} ->
               \/ Annotates(s.body) \/ Annotates(s.else) \/ Annotates(s.fin)
               \/ \E j \in DOMAIN s.handlers : Annotates(s.handlers[j].body)
          [] s.k = "match" -> \E j \in DOMAIN s.cases : Annotates(s.cases[j].body)
          [] OTHER -> FALSE

RunScope(scope, body, choices) ==
    LET r == Begin(choices, scope)
    IN  Run(body, IF scope # "function" /\ Annotates(body) THEN Does(r, <<"ensure", 0>>, <<>>) ELSE r, {})

-----------------------------------------------------------------------------
(* Comprehensions: nested loops around the element, each clause with its   *)
(* filters; a generator gives its elements one by one.                     *)

RECURSIVE RunClause(_, _, _, _, _), Filtering(_, _, _, _, _)

Collect(s, r, container) ==
    LET key == EvaluateAll(s.key, r)
        element == Evaluate(s.element, key.r)
    IN  IF s.kind = "generator" THEN Does(element, <<"resume", s.l>>, <<element.val>>)
        ELSE Does(element, <<"insert", s.l>>, <<container>> \o key.vs \o <<element.val>>)

\* From filter n of clause i on.
Filtering(s, i, n, r, container) ==
    LET clause == s.clauses[i]
        test == Evaluate(clause.filters[n], r)
        iterable == Evaluate(s.clauses[i + 1].iterable, r)
        iterator == Does(iterable, <<"iter", s.clauses[i + 1].l>>, <<iterable.val>>)
    IN  IF n <= Len(clause.filters)
        THEN Read(test, <<"if", clause.l + n>>, <<test.val>>,
                  LAMBDA next, o : IF o = "true" THEN Filtering(s, i, n + 1, next, container) ELSE next)
        ELSE IF i = Len(s.clauses) THEN Collect(s, r, container)
        ELSE RunClause(s, i + 1, iterator, iterator.val, container)

RunClause(s, i, r, iterator, container) ==
    LET clause == s.clauses[i]
        Turn(item) ==
            LET turn == Filtering(s, i, 1, Write(clause.target, item.val, item), container)
            IN  RunClause(s, i, turn, iterator, container)
        Ended(x) == x
    IN  IF ~Normal(r) THEN r
        ELSE IF clause.async THEN NextAwaited(r, clause.l, iterator, Turn, Ended)
        ELSE Read(r, <<"next", clause.l>>, <<iterator>>,
                  LAMBDA next, o : IF o = "item" THEN Turn(next) ELSE next)

RunComprehension(s, choices) ==
    LET r == Begin(choices, "function")
        begun == IF s.kind = "generator" THEN r ELSE Does(r, <<"collect", s.l>>, <<>>)
        ended == RunClause(s, 1, begun, {}, begun.val)
    IN  IF Normal(ended) /\ s.kind # "generator" THEN Giving(Completed(ended, "return"), begun.val)
        ELSE ended

\* A program of the given scope, under the choices made so far.
MeaningOf(program, choices) ==
    LET source == program.body
    IN  IF program.scope = "comprehension" THEN RunComprehension(source, choices)
        ELSE RunScope(program.scope, source, choices)
=============================================================================
