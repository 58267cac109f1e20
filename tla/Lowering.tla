------------------------------ MODULE Lowering ------------------------------
(***************************************************************************)
(* How the statements of functions, modules and class bodies become basic  *)
(* blocks with exception edges and cleanup copies (rimera-compiler, lower) *)
(* and which values are roots at each safepoint (mir).                     *)
(***************************************************************************)
EXTENDS Expressions

-----------------------------------------------------------------------------
(* Source: statements.  An optional part is a sequence of at most one.     *)

Do(l)           == [k |-> "do", l |-> l]
Evaluated(e)    == [k |-> "expr", value |-> e]
Yield(l)        == Evaluated(YieldOf(l, None))
Await(l)        == Evaluated(AwaitOf(l, None))
Assign(ts, e)   == [k |-> "assign", targets |-> ts, value |-> e]
Augmented(l, t, e) == [k |-> "aug", l |-> l, target |-> t, value |-> e]
Delete(ts)      == [k |-> "del", targets |-> ts]
\* simple: the target is a name without parentheses.
Annotated(l, t, annotation, e, simple) ==
    [k |-> "ann", l |-> l, target |-> t, annotation |-> annotation, value |-> e, simple |-> simple]
AssertThat(l, e, message) == [k |-> "assert", l |-> l, test |-> e, message |-> message]
Raise(l)        == [k |-> "raise", l |-> l, parts |-> <<>>]
\* The exception and its cause.
RaiseFrom(l, e, cause) == [k |-> "raise", l |-> l, parts |-> <<e>> \o cause]
RaiseGroup(l)   == [k |-> "group", l |-> l]
Reraise(l)      == [k |-> "reraise", l |-> l]
ReturnWith(e)   == [k |-> "return", value |-> e]
Return          == ReturnWith(<<>>)
Break           == [k |-> "break"]
Continue        == [k |-> "continue"]
\* A module path of depth components, bound as a whole or by its top.
Import(l, depth, whole) == [k |-> "import", l |-> l, depth |-> depth, whole |-> whole]
ImportFrom(l, ls) == [k |-> "from", l |-> l, names |-> ls]
\* types: the labels of the type parameters.
Def(l, decorators, types, defaults, annotations) ==
    [k |-> "def", l |-> l, decorators |-> decorators, types |-> types,
     defaults |-> defaults, annotations |-> annotations]
\* The metaclass is the last keyword.
Class(l, decorators, types, bases, keywords, metaclass) ==
    [k |-> "class", l |-> l, decorators |-> decorators, types |-> types,
     bases |-> bases, keywords |-> keywords, metaclass |-> metaclass]
TypeAlias(l, types, e) == [k |-> "alias", l |-> l, types |-> types, value |-> e]
Iff(l, e, t, f) == [k |-> "if", l |-> l, test |-> e, then |-> t, else |-> f]
If(l, t, f)     == Iff(l, None, t, f)
WhileSo(l, e, b) == [k |-> "while", l |-> l, test |-> e, body |-> b]
While(l, b)     == WhileSo(l, None, b)
ForIn(l, t, e, b, f) ==
    [k |-> "for", l |-> l, target |-> <<t>>, iterable |-> e, body |-> b, else |-> f]
For(l, b, f)    == [ForIn(l, None, None, b, f) EXCEPT !.target = <<>>]
AsyncFor(l, b, f) == [For(l, b, f) EXCEPT !.k = "afor"]
WithAs(l, e, t, b) ==
    [k |-> "with", l |-> l, context |-> e, target |-> <<t>>, body |-> b, async |-> FALSE]
With(l, b)      == [WithAs(l, None, None, b) EXCEPT !.target = <<>>]
AsyncWith(l, b) == [With(l, b) EXCEPT !.async = TRUE]
\* An except clause: a bare one is not typed, one with `as` names the exception.
Except(l, b)    == [l |-> l, typed |-> TRUE, named |-> FALSE, body |-> b]
ExceptAs(l, b)  == [Except(l, b) EXCEPT !.named = TRUE]
ExceptAll(l, b) == [Except(l, b) EXCEPT !.typed = FALSE]
Try(b, h, e, f) == [k |-> "try", body |-> b, handlers |-> h, else |-> e, fin |-> f]
TryStar(b, h, f) == [k |-> "star", body |-> b, handlers |-> h, else |-> <<>>, fin |-> f]
Case(p, guard, l, b) == [pattern |-> p, guard |-> guard, l |-> l, body |-> b]
Match(e, cases) == [k |-> "match", subject |-> e, cases |-> cases]

-----------------------------------------------------------------------------
(* Lowering.                                                               *)

RECURSIVE Statements(_, _), Statement(_, _), ClassMember(_, _), Handlers(_, _, _, _, _, _),
          StarHandlers(_, _, _, _, _, _), Unwind(_, _, _, _)

PushCleanup(c, action) == [c EXCEPT !.cleanups = Append(@, action)]
PopCleanup(c) == [c EXCEPT !.cleanups = IF @ = <<>> THEN @ ELSE Front(@)]

PushLoop(c, next, exit) ==
    [c EXCEPT !.loops = Append(@, [continue |-> next, break |-> exit,
                                   depth |-> Len(c.cleanups)])]
PopLoop(c) == [c EXCEPT !.loops = Front(@)]

LowerIf(c, s) ==
    LET test == Expression(c, s.test)
        t == NextBlock(test)
        c1 == Terminate(NewBlocks(test, 3), Branch(<<"if", s.l>>, test.result, t, t + 1))
        c2 == JumpIfOpen(Statements([c1 EXCEPT !.cur = t], s.then), t + 2)
        c3 == JumpIfOpen(Statements([c2 EXCEPT !.cur = t + 1], s.else), t + 2)
    IN  [c3 EXCEPT !.cur = t + 2]

LowerWhile(c, s) ==
    LET header == NextBlock(c)
        test == Expression([Terminate(NewBlocks(c, 3), Goto(header)) EXCEPT !.cur = header], s.test)
        c1 == Terminate(test, Branch(<<"if", s.l>>, test.result, header + 1, header + 2))
        c2 == PushLoop([c1 EXCEPT !.cur = header + 1], header, header + 2)
        c3 == JumpIfOpen(PopLoop(Statements(c2, s.body)), header)
    IN  [c3 EXCEPT !.cur = header + 2]

\* write_class_target: as write_target, but a name is bound in the namespace.
WriteClassTarget(c, t, v) == WriteTarget(c, t, v)

WriteTo(c, targets, v) ==
    FoldLeft(LAMBDA d, t : IF c.scope = "class" THEN WriteClassTarget(d, t, v) ELSE WriteTarget(d, t, v),
             c, targets)

\* The item is written to the target before the loop is entered: the blocks
\* of the body, of the else body and of what follows come after next.
LoopBody(c, s, item, next, block) ==
    LET c1 == PushLoop(WriteTo([c EXCEPT !.cur = block], s.target, item), next, block + 2)
        c2 == JumpIfOpen(PopLoop(Statements(c1, s.body)), next)
        c3 == JumpIfOpen(Statements([c2 EXCEPT !.cur = block + 1], s.else), block + 2)
    IN  [c3 EXCEPT !.cur = block + 2]

\* IteratorNext: the item and whether there is one.
NextItem(c, l, iterator, body, exhausted) ==
    LET v == NextValue(c)
    IN  Terminate(Emit(c, Op("next", <<"next", l>>, <<v, v + 1>>, <<iterator>>)),
                  Branch(<<"silent", l>>, v + 1, body, exhausted))

\* lower_for_from_iterable: the iterator lives across the whole loop.
LowerFor(c, s) ==
    LET iterable == Expression(c, s.iterable)
        c1 == Eval(iterable, "iter", s.l, <<iterable.result>>)
        header == NextBlock(c1)
        c2 == [Terminate(NewBlocks(c1, 4), Goto(header)) EXCEPT !.cur = header]
        c3 == NextItem(c2, s.l, c1.result, header + 1, header + 2)
    IN  LoopBody(c3, s, NextValue(c2), header, header + 1)

\* The awaited item of an asynchronous iterator; StopAsyncIteration out of it
\* is consumed.  to names the blocks: stop takes the exceptions, item is where
\* the item goes, ended and failed are where the others go.
AsyncItem(c, l, iterator, to) ==
    LET outer == c.target
        c1 == LowerAwait(Eval([c EXCEPT !.target = to.stop], "anext", l, <<iterator>>), l)
        active == NextValue(c1)
        c2 == Emit(Emit(At(Terminate(c1, Goto(to.item)), to.stop, outer),
                        Op("active", <<"active", l>>, <<active>>, <<>>)),
                   Op("match", <<"stop", l>>, <<active + 1>>, <<active>>))
        chosen == NextBlock(c2)
        c3 == [Terminate(NewBlocks(c2, 2), Branch(<<"silent", l>>, active + 1, chosen, chosen + 1))
                  EXCEPT !.cur = chosen]
        c4 == Emit(Emit(c3, Op("enter", <<"enter", l>>, <<NextValue(c3)>>, <<>>)), Simple("leave", l))
        c5 == Emit([Terminate(c4, Goto(to.ended)) EXCEPT !.cur = chosen + 1], Simple("propagate", l))
    IN  [Terminate(c5, Goto(to.failed)) EXCEPT !.cur = to.item, !.result = c1.result]

\* lower_async_next_for_iteration.
AsyncNext(c, l, iterator, ended) ==
    LET stop == NextBlock(c)
    IN  AsyncItem(NewBlocks(c, 2), l, iterator,
                  [stop |-> stop, item |-> stop + 1, ended |-> ended, failed |-> ended])

LowerAsyncFor(c, s) ==
    LET iterable == Expression(c, s.iterable)
        c1 == Eval(iterable, "iter", s.l, <<iterable.result>>)
        header == NextBlock(c1)
        c2 == [Terminate(NewBlocks(c1, 5), Goto(header)) EXCEPT !.cur = header]
        c3 == AsyncItem(c2, s.l, c1.result, [stop |-> header + 4, item |-> header + 1,
                                             ended |-> header + 2, failed |-> header + 3])
    IN  LoopBody(c3, s, c3.result, header, header + 1)

\* emit_context_exit_call: __exit__ or __aexit__, awaited.
ExitCall(c, exit, l, use, async) ==
    LET c1 == Eval(c, "exit", l, <<exit>> \o use)
    IN  IF async THEN LowerAwait(c1, 10 * l + 1) ELSE c1

ExitNormally(c, exit, l, async) ==
    LET none == Constant(c) IN ExitCall(none, exit, l, <<none.result>>, async)

\* lower_context_exit_exception: the exception is handled while __exit__ runs
\* and its result decides between propagating and suppressing.
ExitOnException(c, exit, l, landing, join, outer, async) ==
    LET e == NextValue(c)
        failure == NextBlock(c)
        c1 == Emit(Emit(At(NewBlocks(c, 1), landing, outer),
                        Op("active", <<"active", l>>, <<e>>, <<>>)),
                   Op("enter", <<"enter", l>>, <<e + 1>>, <<>>))
        c2 == ExitCall([c1 EXCEPT !.target = failure], exit, l, <<e + 1>>, async)
        test == NextValue(c2)
        c3 == Emit(c2, Op("not", <<"not", l>>, <<test>>, <<c2.result>>))
        propagate == NextBlock(c3)
        c4 == Terminate(NewBlocks(c3, 2),
                        Branch(<<"silent", l>>, test, propagate, propagate + 1))
        Leave(d) == Emit(d, Simple("leave", l))
        Pass(d) == Terminate(Emit(d, Simple("propagate", l)), Goto(join))
        c5 == Pass(Leave(Emit(At(c4, propagate, outer),
                              Op("set", <<"set", l>>, <<>>, <<e>>))))
        c6 == Terminate(Leave(At(c5, propagate + 1, outer)), Goto(join))
    IN  Pass(Leave(At(c6, failure, outer)))

\* lower_with_kind for one item: entering is outside the protected region, and
\* writing to the target inside of it.
LowerWith(c, s) ==
    LET outer == c.target
        context == Expression(c, s.context)
        exit == NextValue(context)
        c1 == Eval(Emit(context, Op("load", <<"load", s.l>>, <<exit>>, <<context.result>>)),
                   "manager", s.l, <<context.result>>)
        c2 == IF s.async THEN LowerAwait(c1, 10 * s.l) ELSE c1
        landing == NextBlock(c2)
        c3 == PushCleanup([NewBlocks(c2, 2) EXCEPT !.target = landing],
                 [k |-> "exit", exit |-> exit, l |-> s.l, async |-> s.async, target |-> outer])
        c4 == PopCleanup(Statements(WriteTo(c3, s.target, c2.result), s.body))
        c5 == IF Open(c4)
              THEN JumpIfOpen(ExitNormally([c4 EXCEPT !.target = outer], exit, s.l, s.async),
                              landing + 1)
              ELSE c4
    IN  At(ExitOnException(c5, exit, s.l, landing, landing + 1, outer, s.async),
           landing + 1, outer)

\* The two copies of a finally body: one for a pending exception, which is
\* propagated afterwards, one for the normal end.
FinallyCopies(c, fin, pending, normal, join, outer) ==
    LET c1 == Statements(At(c, pending, outer), fin)
        c2 == IF Open(c1) THEN Terminate(Emit(c1, Simple("propagate", 0)), Goto(join)) ELSE c1
    IN  JumpIfOpen(Statements(At(c2, normal, outer), fin), join)

\* store_name for the name of a handler: locals and cells can always be set.
BindHandler(c, h, v) ==
    IF ~h.named THEN c
    ELSE IF c.scope = "function" THEN Emit(c, Op("name", <<"bind", h.l>>, <<>>, <<v>>))
    ELSE StoreName(c, h.l, v)

\* clear_name, then HandlerLeave.
ClearName(c, h) == IF h.named THEN Emit(c, Simple("forget", h.l)) ELSE c
LeaveHandler(c, h) == Emit(ClearName(c, h), Simple("leave", h.l))

\* One except clause after the other; the last test falls through to
\* propagating.  The name is bound outside the reach of the cleanup block and
\* cleared inside of it.  t names the blocks of the statement.
Handlers(c, s, i, active, next, t) ==
    IF i > Len(s.handlers)
    THEN Terminate(Emit(At(c, next, t.inner), Simple("propagate", 0)), Goto(t.join))
    ELSE LET h == s.handlers[i]
             selected == NextBlock(c)
             v == NextValue(c)
             c1 == IF h.typed
                   THEN Terminate(Emit(Eval(NewBlocks([c EXCEPT !.cur = next], 2), "type", h.l, <<>>),
                                       Op("match", <<"match", h.l>>, <<v + 1>>, <<active, v>>)),
                                  Branch(<<"silent", h.l>>, v + 1, selected, selected + 1))
                   ELSE Terminate(NewBlocks([c EXCEPT !.cur = next], 2), Goto(selected))
             cleanup == NextBlock(c1)
             c2 == Emit([NewBlocks(c1, 1) EXCEPT !.cur = selected],
                        Op("enter", <<"enter", h.l>>, <<NextValue(c1)>>, <<>>))
             c3 == PushCleanup([BindHandler(c2, h, c2.result) EXCEPT !.target = cleanup],
                               [k |-> "handler", h |-> h, target |-> t.inner])
             c4 == PopCleanup(Statements(c3, h.body))
             c5 == IF Open(c4)
                   THEN Terminate(Emit([ClearName(c4, h) EXCEPT !.target = t.inner],
                                       Simple("leave", h.l)), Goto(t.normal))
                   ELSE c4
             c6 == Terminate(Emit(LeaveHandler(At(c5, cleanup, t.inner), h),
                                  Simple("propagate", h.l)), Goto(t.join))
         IN  Handlers(At(c6, c6.cur, t.inner), s, i + 1, active, selected + 1, t)

\* The body, then the else body outside the reach of the handlers.
LowerProtected(c, s, dispatch, t) ==
    LET c1 == Statements([c EXCEPT !.target = IF dispatch # 0 THEN dispatch ELSE t.inner], s.body)
        c2 == At(Terminate(NewBlocks(c1, 1), Goto(NextBlock(c1))), NextBlock(c1), t.inner)
    IN  IF Open(c1) THEN JumpIfOpen(Statements(c2, s.else), t.normal) ELSE c1

LowerTry(c, s) ==
    LET outer == c.target
        join == NextBlock(c)
        guarded == s.fin # <<>>
        pending == IF guarded THEN join + 2 ELSE 0
        t == [join |-> join, normal |-> IF guarded THEN join + 1 ELSE join,
              inner |-> IF guarded THEN pending ELSE outer]
        c1 == NewBlocks(c, IF guarded THEN 3 ELSE 1)
        dispatch == IF s.handlers = <<>> THEN 0 ELSE NextBlock(c1)
        c2 == IF dispatch = 0 THEN c1 ELSE NewBlocks(c1, 1)
        c3 == IF guarded
              THEN PushCleanup(c2, [k |-> "finally", fin |-> s.fin, target |-> outer])
              ELSE c2
        c4 == LowerProtected(c3, s, dispatch, t)
        active == NextValue(c4)
        c5 == IF dispatch = 0 THEN c4
              ELSE Handlers(Emit(At(c4, dispatch, t.inner),
                                 Op("active", <<"active", 0>>, <<active>>, <<>>)),
                            s, 1, active, dispatch, t)
        c6 == IF guarded
              THEN FinallyCopies(PopCleanup(c5), s.fin, pending, t.normal, join, outer)
              ELSE c5
    IN  At(c6, join, outer)

\* One except* clause after the other: each splits what is left.  errors is
\* the cell that collects the failures of the handlers.
StarHandlers(c, s, i, remaining, errors, t) ==
    IF i > Len(s.handlers)
    THEN LET v == NextValue(c)
             failures == NextBlock(c)
             Pass(d, e) == Terminate(Emit(Emit(d, Op("set", <<"set", 0>>, <<>>, <<e>>)),
                                          Simple("propagate", 0)), Goto(t.join))
             c1 == Terminate(Emit(NewBlocks(c, 2), Op("copy", <<"get", 0>>, <<v>>, <<errors>>)),
                             Branch(<<"silent", 0>>, v, failures, failures + 1))
             c2 == Pass(Emit([c1 EXCEPT !.cur = failures],
                             Op("combine", <<"combine", 0>>, <<v + 1>>, <<v, remaining>>)), v + 1)
             c3 == Terminate([NewBlocks(c2, 2) EXCEPT !.cur = failures + 1],
                             Branch(<<"silent", 0>>, remaining, failures + 2, failures + 3))
             c4 == Pass([c3 EXCEPT !.cur = failures + 2], remaining)
         IN  Terminate([c4 EXCEPT !.cur = failures + 3], Goto(t.normal))
    ELSE LET h == s.handlers[i]
             v == NextValue(c)
             last == i = Len(s.handlers)
             selected == NextBlock(c)
             c1 == Terminate(Emit(NewBlocks(c, 3),
                                  Op("split", <<IF last THEN "last" ELSE "split", h.l>>,
                                     <<v, v + 1>>, <<remaining>>)),
                             Branch(<<"silent", 0>>, v, selected, selected + 1))
             c2 == Emit(Emit([c1 EXCEPT !.cur = selected], Op("set", <<"set", h.l>>, <<>>, <<v>>)),
                        Op("enter", <<"enter", h.l>>, <<v + 2>>, <<>>))
             c3 == PushCleanup([BindHandler(c2, h, v + 2) EXCEPT !.target = selected + 2],
                               [k |-> "handler", h |-> h, target |-> t.inner])
             c4 == PopCleanup(Statements(c3, h.body))
             c5 == IF Open(c4)
                   THEN Terminate(Emit([ClearName(c4, h) EXCEPT !.target = t.inner],
                                       Simple("leave", h.l)), Goto(selected + 1))
                   ELSE c4
             w == NextValue(c5)
             c6 == Emit(Emit(Emit(ClearName(At(c5, selected + 2, t.inner), h),
                                  Op("active", <<"active", h.l>>, <<w>>, <<>>)),
                             Simple("leave", h.l)),
                        Op("copy", <<"get", h.l>>, <<w + 1>>, <<errors>>))
             c7 == Emit(Emit(Emit(c6, Op("combine", <<"combine", h.l>>, <<w + 2>>, <<w + 1, w>>)),
                             Op("store", <<"store", h.l>>, <<>>, <<errors, w + 2>>)),
                        Simple("clear", h.l))
             c8 == Terminate(c7, Goto(selected + 1))
         IN  StarHandlers(At(c8, selected + 1, t.inner), s, i + 1, v + 1, errors, t)

LowerTryStar(c, s) ==
    LET outer == c.target
        join == NextBlock(c)
        guarded == s.fin # <<>>
        pending == IF guarded THEN join + 2 ELSE 0
        t == [join |-> join, normal |-> IF guarded THEN join + 1 ELSE join,
              inner |-> IF guarded THEN pending ELSE outer]
        c1 == NewBlocks(c, IF guarded THEN 4 ELSE 2)
        dispatch == NextBlock(c1) - 1
        c2 == IF guarded
              THEN PushCleanup(c1, [k |-> "finally", fin |-> s.fin, target |-> outer])
              ELSE c1
        c3 == LowerProtected(c2, s, dispatch, t)
        v == NextValue(c3)
        c4 == Emit(Emit(At(c3, dispatch, t.inner), Op("active", <<"active", 0>>, <<v>>, <<>>)),
                   Op("cell", <<"cell", 0>>, <<v + 1>>, <<>>))
        c5 == StarHandlers(c4, s, 1, v, v + 1, t)
        c6 == IF guarded
              THEN FinallyCopies(PopCleanup(c5), s.fin, pending, t.normal, join, outer)
              ELSE c5
    IN  At(c6, join, outer)

\* emit_cleanups_from: a copy of every cleanup between the transfer and its
\* target, innermost first, each under the exception target outside of it.
\* The function leaves the last of these targets in place, and the list cut
\* when a cleanup ends in a transfer of its own.
Unwind(c, original, i, floor) ==
    IF i <= floor
    THEN [c EXCEPT !.cleanups = original]
    ELSE LET a == original[i]
             c1 == [c EXCEPT !.cleanups = SubSeq(original, 1, i - 1), !.target = a.target]
             c2 == CASE a.k = "handler" -> LeaveHandler(c1, a.h)
                     [] a.k = "finally" -> Statements(c1, a.fin)
                     [] a.k = "exit"    -> ExitNormally(c1, a.exit, a.l, a.async)
         IN  IF Open(c2) THEN Unwind(c2, original, i - 1, floor) ELSE c2

CleanupsFrom(c, floor) == Unwind(c, c.cleanups, Len(c.cleanups), floor)

\* Mutant: the outermost cleanup is not run.
TransferSkipsOne(c, floor, terminator) ==
    LET d == CleanupsFrom(c, floor + 1) IN IF Open(d) THEN Terminate(d, terminator) ELSE d

Transfer(c, floor, terminator) ==
    LET d == CleanupsFrom(c, floor) IN IF Open(d) THEN Terminate(d, terminator) ELSE d


-----------------------------------------------------------------------------
(* Definitions.                                                            *)

\* install_type_parameters: each is made and put into a cell.
TypeParameters(c, ls) ==
    FoldLeft(LAMBDA done, l : LET d == Eval(done.c, "typevar", l, <<>>)
                              IN  [c |-> Emit(d, Op("new", <<"cell", l>>, <<NextValue(d)>>, <<d.result>>)),
                                   vs |-> Append(done.vs, d.result)],
             [c |-> c, vs |-> <<>>], ls)

Tuple(c, vs) == Emit(c, Op("new", <<"tuple", 0>>, <<NextValue(c)>>, vs))

\* What a definition gets after it was made: __annotations__ and
\* __type_params__ are set when there are any.
SetTuple(c, l, v, vs) ==
    IF vs = <<>> THEN c
    ELSE LET d == Tuple(c, vs) IN Perform(d, "setattr", l, <<v, d.result>>)

\* The decorators are called from the last to the first.
Decorated(c, l, callables, v) ==
    FoldLeft(LAMBDA d, i : Eval(d, "call", l + i, <<callables[i], d.result>>),
             [c EXCEPT !.result = v],
             Reverse([i \in DOMAIN callables |-> i]))

\* Function and method definitions; lower_function_annotations.
DefineFunction(c, s) ==
    LET decorators == Operands(c, s.decorators)
        defaults == Operands(decorators.c, s.defaults)
        types == TypeParameters(defaults.c, s.types)
        annotations == Operands(types.c, s.annotations)
        made == Eval(annotations.c, "make", s.l, defaults.vs)
        set == SetTuple(SetTuple(made, s.l, made.result, annotations.vs),
                        s.l + 1, made.result, types.vs)
        d == Decorated(set, s.l, decorators.vs, made.result)
    IN  StoreName(d, s.l, d.result)

\* The namespace a class body runs in: what __prepare__ returns.
ClassNamespace(c, s, name, bases, keywords, metaclass) ==
    LET prepare == Eval(Tuple(c, bases), "getattr", s.l, <<metaclass>>)
        called == Eval(prepare, "call", s.l, <<prepare.result, Tuple(c, bases).result>> \o keywords)
    IN  [c |-> called, bases |-> Tuple(c, bases).result]

\* The class itself, by its metaclass or as an ordinary class.  The cell of a
\* zero-argument super() is left out.
DefineClass(c, s) ==
    LET types == TypeParameters(c, s.types)
        bases == Operands(types.c, s.bases)
        keywords == Operands(bases.c, s.keywords)
        metaclass == Operands(keywords.c, s.metaclass)
        by == s.metaclass # <<>>
        prepared == ClassNamespace(metaclass.c, s, s.l, bases.vs, keywords.vs, metaclass.vs[1])
        begun == IF by THEN prepared.c ELSE Tuple(metaclass.c, <<>>)
        namespace == begun.result
        seeded == Perform(Perform(begun, "module", s.l, <<namespace>>), "qualname", s.l, <<namespace>>)
        body == Eval(seeded, "make", s.l, <<>>)
        ran == Eval(body, "call", s.l + 1, <<body.result, namespace>>)
        class == Eval(ran, "class", s.l,
                      IF by THEN <<metaclass.vs[1], prepared.bases, namespace>> \o keywords.vs
                      ELSE bases.vs \o <<namespace>>)
        typed == SetTuple(class, s.l, class.result, types.vs)
        Decorate(d, i) ==
            LET callable == Expression(d, s.decorators[i])
            IN  Eval(callable, "call", s.l + 1 + i, <<callable.result, d.result>>)
        d == FoldLeft(Decorate, [typed EXCEPT !.result = class.result],
                      Reverse([i \in DOMAIN s.decorators |-> i]))
    IN  StoreName(d, s.l, d.result)

DefineAlias(c, s) ==
    LET types == TypeParameters(c, s.types)
        value == Expression(types.c, s.value)
        d == Tuple(value, types.vs)
        alias == Eval(d, "alias", s.l, <<d.result, value.result>>)
    IN  StoreName(alias, s.l, alias.result)

-----------------------------------------------------------------------------
(* The other statements.                                                   *)

LowerAssign(c, s) ==
    LET value == Expression(c, s.value) IN WriteTo(value, s.targets, value.result)

\* record_annotation: into the __annotations__ of the scope.
RecordAnnotation(c, l, v) ==
    LET mapping == Eval(c, "annotations", l, <<>>)
    IN  Perform(mapping, "annotate", l, <<mapping.result, v>>)

\* A local variable's annotation is not evaluated.
LowerAnnotated(c, s) ==
    LET value == IF s.value = <<>> THEN AnnotationTarget(c, s.target)
                 ELSE LET v == Expression(c, s.value[1]) IN WriteTo(v, <<s.target>>, v.result)
        annotation == Expression(value, s.annotation)
    IN  IF c.scope = "function" THEN value
        ELSE IF s.simple THEN RecordAnnotation(annotation, s.l, annotation.result)
        ELSE annotation

\* The message is evaluated only when the test failed.
LowerAssert(c, s) ==
    LET test == Expression(c, s.test)
        passed == NextBlock(test)
        c1 == Terminate(NewBlocks(test, 2), Branch(<<"if", s.l>>, test.result, passed, passed + 1))
        class == Eval([c1 EXCEPT !.cur = passed + 1], "global", s.l, <<>>)
        message == Operands(class, s.message)
        exception == Eval(message.c, "call", s.l, <<class.result>> \o message.vs)
        failed == Emit(exception, Op("raise", <<"raise", s.l>>, <<>>, <<exception.result>>))
    IN  [JumpIfOpen(failed, passed) EXCEPT !.cur = passed]

LowerRaise(c, s) ==
    LET parts == Operands(c, s.parts)
    IN  Emit(parts.c, Op("raise", <<"raise", s.l>>, <<>>, parts.vs))

\* lower_import: the top module, then attribute by attribute down to the leaf.
LowerImport(c, s) ==
    LET top == Eval(c, "import", s.l, <<>>)
        leaf == FoldLeft(LAMBDA d, i : Eval(d, "getattr", s.l + i, <<d.result>>),
                         top, [i \in 1..s.depth - 1 |-> i])
    IN  StoreName(leaf, s.l, IF s.whole THEN leaf.result ELSE top.result)

LowerImportFrom(c, s) ==
    LET module == Eval(c, "import", s.l, <<>>)
        One(d, l) == LET value == Eval(d, "importfrom", l, <<module.result>>)
                     IN  StoreName(value, l, value.result)
    IN  FoldLeft(One, module, s.names)

\* The names of the pattern are bound only when all of it has matched, and
\* stay bound when the guard then fails.
LowerMatch(c, s) ==
    LET subject == Expression(c, s.subject)
        finish == NextBlock(subject)
        Bind(d, name, tentative) ==
            LET value == Emit(d, Op("fetch", <<"fetch", name>>, <<NextValue(d)>>, <<tentative>>))
            IN  StoreName(value, name, value.result)
        Guarded(d, case, next) ==
            LET d1 == Expression(NewBlocks(d, 1), case.guard[1])
            IN  IF case.guard = <<>> THEN d
                ELSE [Terminate(d1, Branch(<<"if", case.l>>, d1.result, NextBlock(d), next))
                         EXCEPT !.cur = NextBlock(d)]
        One(d, case) ==
            LET new == Emit(d, Op("new", <<"new", case.l>>, <<NextValue(d)>>, <<>>))
                matched == NextBlock(new)
                tested == PatternTest(NewBlocks(new, 2), subject.result, case.pattern, new.result,
                                      matched, matched + 1)
                bound == FoldLeft(LAMBDA x, name : Bind(x, name, new.result),
                                  [tested EXCEPT !.cur = matched], PatternBindings(case.pattern))
                body == Statements(Guarded(bound, case, matched + 1), case.body)
            IN  [JumpIfOpen(body, finish) EXCEPT !.cur = matched + 1]
    IN  [JumpIfOpen(FoldLeft(One, NewBlocks(subject, 1), s.cases), finish) EXCEPT !.cur = finish]

LowerReturn(c, s) ==
    LET value == Operands(c, s.value) IN Transfer(value.c, 0, ReturnOf(value.vs))

LowerBreak(c)    == Transfer(c, Last(c.loops).depth, Goto(Last(c.loops).break))
LowerContinue(c) == Transfer(c, Last(c.loops).depth, Goto(Last(c.loops).continue))

Statement(c, s) ==
    CASE s.k = "do"       -> Emit(c, Op("op", <<"do", s.l>>, <<>>, <<>>))
      [] s.k = "expr"     -> Expression(c, s.value)
      [] s.k = "assign"   -> LowerAssign(c, s)
      [] s.k = "aug"      -> AugmentedTarget(c, s.target, s.l, s.value)
      [] s.k = "del"      -> FoldLeft(DeleteTarget, c, s.targets)
      [] s.k = "ann"      -> LowerAnnotated(c, s)
      [] s.k = "assert"   -> LowerAssert(c, s)
      [] s.k = "raise"    -> LowerRaise(c, s)
      [] s.k = "group"    -> Emit(c, Op("raise", <<"group", s.l>>, <<>>, <<>>))
      [] s.k = "reraise"  -> Emit(c, Simple("reraise", s.l))
      [] s.k = "return"   -> LowerReturn(c, s)
      [] s.k = "break"    -> LowerBreak(c)
      [] s.k = "continue" -> LowerContinue(c)
      [] s.k = "import"   -> LowerImport(c, s)
      [] s.k = "from"     -> LowerImportFrom(c, s)
      [] s.k = "def"      -> DefineFunction(c, s)
      [] s.k = "class"    -> DefineClass(c, s)
      [] s.k = "alias"    -> DefineAlias(c, s)
      [] s.k = "if"       -> LowerIf(c, s)
      [] s.k = "while"    -> LowerWhile(c, s)
      [] s.k = "for"      -> LowerFor(c, s)
      [] s.k = "afor"     -> LowerAsyncFor(c, s)
      [] s.k = "with"     -> LowerWith(c, s)
      [] s.k = "try"      -> LowerTry(c, s)
      [] s.k = "star"     -> LowerTryStar(c, s)
      [] s.k = "match"    -> LowerMatch(c, s)

Statements(c, body) ==
    IF c.scope = "class" THEN FoldLeft(ClassMember, c, body)
    ELSE IF body = <<>> \/ ~Open(c) THEN c
    ELSE Statements(Statement(c, Head(body)), Tail(body))

-----------------------------------------------------------------------------
(* Class bodies have lowering functions of their own, which differ from    *)
(* those of statements in where a name is bound and in how a transfer ends.*)

\* The block must be open: what follows a transfer is not skipped either.
ClassTransfer(c, t) ==
    Terminate(CleanupsFrom(c, Last(c.loops).depth), Goto(t))

\* A decorator that is an attribute of a name reads that name in the
\* namespace of the class only, which the operation does not tell apart.
DefineMethod(c, s) == DefineFunction(c, s)

DefineNestedClass(c, s) == DefineClass(c, s)
ClassConditional(c, s)  == LowerIf(c, s)
ClassWhile(c, s)        == LowerWhile(c, s)
ClassFor(c, s)          == LowerFor(c, s)
ClassWith(c, s)         == LowerWith(c, s)
ClassTry(c, s)          == LowerTry(c, s)
ClassAugmented(c, s)    == AugmentedTarget(c, s.target, s.l, s.value)
DeleteClassTarget(c, t) == DeleteTarget(c, t)

\* match, await, return and yield are not members.
ClassMember(c, s) ==
    CASE s.k = "break"    -> ClassTransfer(c, Last(c.loops).break)
      [] s.k = "continue" -> ClassTransfer(c, Last(c.loops).continue)
      [] s.k = "aug"      -> ClassAugmented(c, s)
      [] s.k = "del"      -> FoldLeft(DeleteClassTarget, c, s.targets)
      [] s.k = "def"      -> DefineMethod(c, s)
      [] s.k = "class"    -> DefineNestedClass(c, s)
      [] s.k = "if"       -> ClassConditional(c, s)
      [] s.k = "while"    -> ClassWhile(c, s)
      [] s.k = "for"      -> ClassFor(c, s)
      [] s.k = "with"     -> ClassWith(c, s)
      [] s.k = "try"      -> ClassTry(c, s)
      [] s.k \in {"do", "expr", "assign", "ann", "assert", "raise", "group", "reraise",
                  "import", "from", "alias"} -> Statement(c, s)

\* statements_need_annotations and class_members_need_annotations: with and
\* match are not searched.
RECURSIVE NeedsAnnotations(_)
NeedsAnnotations(body) ==
    \E i \in DOMAIN body :
        LET s == body[i] IN
        \/ s.k = "ann"
        \/ s.k = "if" /\ (NeedsAnnotations(s.then) \/ NeedsAnnotations(s.else))
        \/ s.k = "while" /\ NeedsAnnotations(s.body)
        \/ s.k \in {"for", "afor"} /\ (NeedsAnnotations(s.body) \/ NeedsAnnotations(s.else))
        \/ s.k \in {"try", "star"} /\
              \/ NeedsAnnotations(s.body) \/ NeedsAnnotations(s.else) \/ NeedsAnnotations(s.fin)
              \/ \E j \in DOMAIN s.handlers : NeedsAnnotations(s.handlers[j].body)

ClassMembersNeedAnnotations(members) == NeedsAnnotations(members)

-----------------------------------------------------------------------------
(* The kind of a function: whether it yields is found by a walk over its   *)
(* statements that must agree with what is lowered.                        *)

SubExpressions(e) ==
    CASE e.k \in {"none", "name", "lambda"} -> <<>>
      [] e.k \in {"apply", "boolean", "chain", "joined"} -> e.parts
      [] e.k = "dict" -> FlattenSeq([i \in DOMAIN e.entries |->
                                       e.entries[i].key \o <<e.entries[i].value>>])
      [] e.k \in {"walrus", "yield", "from", "await"} -> <<e.value>>
      [] e.k = "formatted" -> <<e.value, e.spec>>
      [] e.k = "call" -> <<e.callable>> \o [i \in DOMAIN e.parts |-> e.parts[i].value]
      [] e.k = "comprehension" -> <<e.iterable>>

RECURSIVE ExpressionYields(_), TargetYields(_), Yields(_)
ExpressionYields(e) ==
    \/ e.k \in {"yield", "from"}
    \/ \E i \in DOMAIN SubExpressions(e) : ExpressionYields(SubExpressions(e)[i])

TargetYields(t) ==
    CASE t.k = "name" -> FALSE
      [] t.k = "sequence" -> \E i \in DOMAIN t.elements : TargetYields(t.elements[i])
      [] OTHER -> \E i \in DOMAIN t.parts : ExpressionYields(t.parts[i])

AnyYields(es) == \E i \in DOMAIN es : ExpressionYields(es[i])
AnyTarget(ts) == \E i \in DOMAIN ts : TargetYields(ts[i])

StatementYields(s) ==
    CASE s.k \in {"do", "group", "reraise", "break", "continue", "import", "from"} -> FALSE
      [] s.k \in {"expr", "alias"} -> ExpressionYields(s.value)
      [] s.k = "assign" -> AnyTarget(s.targets) \/ ExpressionYields(s.value)
      [] s.k = "aug"    -> TargetYields(s.target) \/ ExpressionYields(s.value)
      [] s.k = "del"    -> AnyTarget(s.targets)
      [] s.k = "ann"    -> TargetYields(s.target) \/ AnyYields(<<s.annotation>> \o s.value)
      [] s.k = "assert" -> AnyYields(<<s.test>> \o s.message)
      [] s.k = "raise"  -> AnyYields(s.parts)
      [] s.k = "return" -> AnyYields(s.value)
      [] s.k = "def"    -> AnyYields(s.decorators \o s.defaults \o s.annotations)
      [] s.k = "class"  -> AnyYields(s.decorators \o s.bases \o s.metaclass \o s.keywords)
      [] s.k = "if"     -> ExpressionYields(s.test) \/ Yields(s.then) \/ Yields(s.else)
      [] s.k = "while"  -> ExpressionYields(s.test) \/ Yields(s.body)
      [] s.k \in {"for", "afor"} -> \/ AnyTarget(s.target) \/ ExpressionYields(s.iterable)
                                    \/ Yields(s.body) \/ Yields(s.else)
      [] s.k = "with"   -> ExpressionYields(s.context) \/ AnyTarget(s.target) \/ Yields(s.body)
      [] s.k \in {"try", "star"} ->
            \/ Yields(s.body) \/ Yields(s.else) \/ Yields(s.fin)
            \/ \E j \in DOMAIN s.handlers : Yields(s.handlers[j].body)
      [] s.k = "match"  -> \/ ExpressionYields(s.subject)
                           \/ \E i \in DOMAIN s.cases : AnyYields(s.cases[i].guard)
                                                         \/ Yields(s.cases[i].body)

Yields(body) == \E i \in DOMAIN body : StatementYields(body[i])

KindOf(yields, async) ==
    CASE yields /\ async  -> "async generator"
      [] yields /\ ~async -> "generator"
      [] ~yields /\ async -> "coroutine"
      [] OTHER            -> "function"

-----------------------------------------------------------------------------
(* Whole functions.                                                        *)

EndScope(c) == IF Open(c) THEN Terminate(c, ReturnOf(<<>>)) ELSE c

\* AnnotationsEnsure.
EnsureAnnotations(c, needed) == IF needed THEN Perform(c, "ensure", 0, <<>>) ELSE c

\* lower_scope: a body that can fall off its end returns None.
LowerScope(scope, body) ==
    LET c == NewLowerer(scope)
    IN  EndScope(Statements(EnsureAnnotations(c, scope = "module" /\ NeedsAnnotations(body)), body))

\* lower_class_body: the namespace is the parameter of the function.
LowerClassBody(body) ==
    LET c == [NewLowerer("class") EXCEPT !.values = 1, !.params = <<1>>]
    IN  EndScope(Statements(EnsureAnnotations(c, ClassMembersNeedAnnotations(body)), body))

\* One for clause of a comprehension, and what is inside of it.  iterator is
\* that of the first clause, made by the caller; result is the container.
RECURSIVE ComprehensionLevel(_, _, _, _, _, _)

CollectElement(c, s, header, result) ==
    LET key == Operands(c, s.key)
        element == Expression(key.c, s.element)
        resumed == [Unreachable EXCEPT !.k = "yield", !.l = <<"resume", s.l>>,
                       !.use = <<element.result>>, !.to = <<header>>, !.exc = c.target]
    IN  IF s.kind = "generator" THEN Terminate(element, resumed)
        ELSE Terminate(Perform(element, "insert", s.l, <<result>> \o key.vs \o <<element.result>>),
                       Goto(header))

\* A filter that fails goes on with the next item of its clause.
LowerFilter(c, clause, i, header) ==
    LET test == Expression(c, clause.filters[i])
        passed == NextBlock(test)
    IN  [Terminate(NewBlocks(test, 1), Branch(<<"if", clause.l + i>>, test.result, passed, header))
            EXCEPT !.cur = passed]

ComprehensionLevel(c, s, i, iterator, result, ended) ==
    LET clause == s.clauses[i]
        iterable == Expression(c, clause.iterable)
        asked == Eval(iterable, "iter", clause.l, <<iterable.result>>)
        c1 == IF i = 1 THEN c ELSE asked
        header == NextBlock(c1)
        body == header + 1
        exhausted == header + 2
        from == IF i = 1 THEN iterator ELSE asked.result
        c2 == [Terminate(NewBlocks(c1, 3), Goto(header)) EXCEPT !.cur = header]
        awaited == AsyncNext(c2, clause.l, from, exhausted)
        c3 == IF clause.async THEN Terminate(awaited, Goto(body))
              ELSE NextItem(c2, clause.l, from, body, exhausted)
        c4 == WriteTarget([c3 EXCEPT !.cur = body], clause.target,
                          IF clause.async THEN awaited.result ELSE NextValue(c2))
        c5 == FoldLeft(LAMBDA d, n : LowerFilter(d, clause, n, header), c4,
                       [n \in DOMAIN clause.filters |-> n])
        c6 == IF i < Len(s.clauses) THEN ComprehensionLevel(c5, s, i + 1, 0, result, header)
              ELSE CollectElement(c5, s, header, result)
    IN  Terminate([c6 EXCEPT !.cur = exhausted], Goto(ended))

\* lower_comprehension: a function of the iterator of the first clause.
LowerComprehension(s) ==
    LET c == [NewLowerer("function") EXCEPT !.values = 1, !.params = <<1>>]
        c1 == IF s.kind = "generator" THEN Constant(c) ELSE Eval(c, "collect", s.l, <<>>)
        finish == NextBlock(c1)
        c2 == ComprehensionLevel(NewBlocks(c1, 1), s, 1, 1, c1.result, finish)
    IN  Terminate([c2 EXCEPT !.cur = finish],
                  ReturnOf(IF s.kind = "generator" THEN <<>> ELSE <<c1.result>>))

ComprehensionKind(s) ==
    KindOf(s.kind = "generator", \E i \in DOMAIN s.clauses : s.clauses[i].async)

-----------------------------------------------------------------------------
(* The safepoint plan: what the collector must find in the frame's roots   *)
(* at each operation and terminator that can collect.                      *)

\* Backwards through block b from the terminator (i = Len(ops) + 1).
RECURSIVE LiveBefore(_, _, _, _)

\* Mutant: exception edges are forgotten.
LiveBeforeNoEdge(code, live, b, i) ==
    LET ops == code[b].ops IN
    IF i > Len(ops)
    THEN UNION {live[t] : t \in ToSet(code[b].term.to)} \cup ToSet(code[b].term.use)
    ELSE (LiveBefore(code, live, b, i + 1) \ ToSet(ops[i].def)) \cup ToSet(ops[i].use)

LiveBefore(code, live, b, i) ==
    LET ops == code[b].ops IN
    IF i > Len(ops)
    THEN UNION {live[t] : t \in Successors(code[b].term)} \cup ToSet(code[b].term.use)
    ELSE LET edge == IF ops[i].edge = 0 THEN {} ELSE live[ops[i].edge]
         IN  ((LiveBefore(code, live, b, i + 1) \cup edge) \ ToSet(ops[i].def))
                 \cup ToSet(ops[i].use)

RECURSIVE LiveIn(_, _)
LiveIn(code, live) ==
    LET next == [b \in DOMAIN code |-> LiveBefore(code, live, b, 1) \ ToSet(code[b].params)]
    IN  IF next = live THEN live ELSE LiveIn(code, next)

IsSafepoint(op) == op.op # "const"

\* generator_persistent_values: what is saved in the slots of a suspended frame.
Persistent(code, live) ==
    UNION {UNION {live[t] : t \in Successors(code[b].term)} :
               b \in {x \in DOMAIN code : code[x].term.k \in {"yield", "await"}}}

SafepointPlan(code) ==
    LET live == LiveIn(code, [b \in DOMAIN code |-> {}])
    IN  [roots |-> [b \in DOMAIN code |->
                       [i \in 1..Len(code[b].ops) + 1 |-> LiveBefore(code, live, b, i)]],
         slots |-> Persistent(code, live)]

\* What the pipeline hands to code generation.
Assembled(scope, body, c, kind) ==
    LET plan == SafepointPlan(c.blocks)
    IN  [scope |-> scope, body |-> body, blocks |-> c.blocks, values |-> c.values,
         params |-> c.params, roots |-> plan.roots, slots |-> plan.slots \cup ToSet(c.params),
         accepted |-> Verifies(c, kind)]

Compiled(scope, async, body) ==
    IF scope = "class" THEN Assembled(scope, body, LowerClassBody(body), "class body")
    ELSE Assembled(scope, body, LowerScope(scope, body),
                   KindOf(scope = "function" /\ Yields(body), async))

CompiledComprehension(s) ==
    Assembled("comprehension", s, LowerComprehension(s), ComprehensionKind(s))
=============================================================================
