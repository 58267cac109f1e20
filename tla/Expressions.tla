---------------------------- MODULE Expressions ----------------------------
(***************************************************************************)
(* How expressions, the targets of assignments and the patterns of match   *)
(* become operations and blocks (rimera-compiler, lower).                  *)
(*                                                                         *)
(* Names, constants and operators are abstracted to a label; what is kept  *)
(* is the order of the operations, the values that flow between them and   *)
(* the blocks of what is evaluated conditionally.                          *)
(***************************************************************************)
EXTENDS Blocks

-----------------------------------------------------------------------------
(* Source: expressions.                                                    *)

None               == [k |-> "none"]
Name(l)            == [k |-> "name", l |-> l]
\* A display, subscript, attribute, unary or binary operation...: the parts
\* are evaluated in order, then the operation named by kind is done.
Apply(kind, l, es) == [k |-> "apply", kind |-> kind, l |-> l, parts |-> es]
\* An entry of a dictionary display is a pair or, without key, an unpacking.
Pair(l, key, e)    == [l |-> l, key |-> <<key>>, value |-> e]
Unpacking(l, e)    == [l |-> l, key |-> <<>>, value |-> e]
DictionaryOf(l, entries) == [k |-> "dict", l |-> l, entries |-> entries]
Lambda(l, defaults) == [k |-> "lambda", l |-> l, defaults |-> defaults]
And(l, es)         == [k |-> "boolean", l |-> l, op |-> "and", parts |-> es]
Or(l, es)          == [k |-> "boolean", l |-> l, op |-> "or", parts |-> es]
Chain(l, es)       == [k |-> "chain", l |-> l, parts |-> es]
Walrus(l, e)       == [k |-> "walrus", l |-> l, value |-> e]
Joined(l, es)      == [k |-> "joined", l |-> l, parts |-> es]
Formatted(l, e, spec) == [k |-> "formatted", l |-> l, value |-> e, spec |-> spec]
\* A part of a call is a value; expanded: it is unpacked into the arguments.
Part(l, e, expanded) == [l |-> l, value |-> e, expanded |-> expanded]
CallOf(l, e, parts) == [k |-> "call", l |-> l, callable |-> e, parts |-> parts]
YieldOf(l, e)      == [k |-> "yield", l |-> l, value |-> e]
YieldFrom(l, e)    == [k |-> "from", l |-> l, value |-> e]
AwaitOf(l, e)      == [k |-> "await", l |-> l, value |-> e]
\* kind is "list", "set", "dict" or "generator"; async: a clause is.
ComprehensionOf(l, kind, e, async) ==
    [k |-> "comprehension", l |-> l, kind |-> kind, iterable |-> e, async |-> async]

(* Targets. *)
NameTarget(l)            == [k |-> "name", l |-> l]
AttributeTarget(l, e)    == [k |-> "attr", l |-> l, parts |-> <<e>>]
ItemTarget(l, e, i)      == [k |-> "item", l |-> l, parts |-> <<e, i>>]
SequenceTarget(l, ts)    == [k |-> "sequence", l |-> l, elements |-> ts]

(* Patterns. *)
ValuePattern(l, e)       == [k |-> "value", l |-> l, value |-> e]
SingletonPattern(l)      == [k |-> "singleton", l |-> l]
\* A star in a sequence pattern is a capture or a wildcard.
Capture(name)            == [k |-> "capture", name |-> name]
Wildcard                 == [k |-> "wildcard"]
AsPattern(p, name)       == [k |-> "as", pattern |-> p, name |-> name]
OrPattern(ps)            == [k |-> "or", patterns |-> ps]
SequencePattern(l, ps)   == [k |-> "sequence", l |-> l, patterns |-> ps]
MappingPattern(l, keys, ps, rest) ==
    [k |-> "mapping", l |-> l, keys |-> keys, patterns |-> ps, rest |-> rest]
ClassPattern(l, e, ps)   == [k |-> "class", l |-> l, class |-> e, patterns |-> ps]

-----------------------------------------------------------------------------
(* Expressions.                                                            *)

RECURSIVE Expression(_, _)

\* The parts, in order: the lowerer after them and their values.
Operands(c, es) ==
    FoldLeft(LAMBDA done, e : LET d == Expression(done.c, e)
                              IN  [c |-> d, vs |-> Append(done.vs, d.result)],
             [c |-> c, vs |-> <<>>], es)

LowerApply(c, e) ==
    LET done == Operands(c, e.parts) IN Eval(done.c, e.kind, e.l, done.vs)

LowerName(c, e) == Eval(c, "load", e.l, <<>>)

\* Every entry is stored before the next one is evaluated.
LowerDictionary(c, e) ==
    LET new == Eval(c, "dict", e.l, <<>>)
        Store(d, entry) ==
            LET done == Operands(d, entry.key \o <<entry.value>>)
            IN  Perform(done.c, IF entry.key = <<>> THEN "merge" ELSE "setitem", entry.l,
                        <<new.result>> \o done.vs)
        filled == FoldLeft(Store, new, e.entries)
    IN  Emit(filled, Op("copy", <<"copy", e.l>>, <<NextValue(filled)>>, <<new.result>>))

LowerLambda(c, e) ==
    LET done == Operands(c, e.defaults) IN Eval(done.c, "make", e.l, done.vs)

\* lower_boolean_expression: the value that decides is the parameter of the
\* block in which both ways meet.
LowerBoolean(c, e) ==
    LET Next(done, i) ==
            LET n == NextBlock(done.c)
                d == Parameter(NewBlocks(done.c, 2), n + 1)
                test == <<"if", e.l + i>>
                d1 == Terminate(d, IF e.op = "and"
                                   THEN BranchWith(test, done.v, n, <<>>, n + 1, <<done.v>>)
                                   ELSE BranchWith(test, done.v, n + 1, <<done.v>>, n, <<>>))
                d2 == Expression([d1 EXCEPT !.cur = n], e.parts[i + 1])
                d3 == Terminate(d2, GotoWith(n + 1, d2.result))
            IN  [c |-> [d3 EXCEPT !.cur = n + 1], v |-> d.values]
        first == Expression(c, Head(e.parts))
        last == FoldLeft(Next, [c |-> first, v |-> first.result],
                         [i \in 1..Len(e.parts) - 1 |-> i])
    IN  Emit(last.c, Op("copy", <<"copy", e.l>>, <<NextValue(last.c)>>, <<last.v>>))

\* lower_compare_expression: the right operand of a comparison that holds is
\* carried to the next one.
LowerChain(c, e) ==
    LET n == Len(e.parts) - 1
        left == Expression(c, Head(e.parts))
        join == NextBlock(left)
        begun == Parameter(NewBlocks(left, 1), join)
        Compare(done, i) ==
            LET right == Expression(done.c, e.parts[i + 1])
                d == Eval(right, "compare", e.l + i, <<done.v, right.result>>)
                next == NextBlock(d)
                d1 == Parameter(NewBlocks(d, 1), next)
            IN  IF i = n
                THEN [c |-> Terminate(d, GotoWith(join, d.result)), v |-> 0]
                ELSE [c |-> [Terminate(d1, BranchWith(<<"if", e.l + i>>, d.result, next,
                                                      <<right.result>>, join, <<d.result>>))
                                EXCEPT !.cur = next],
                      v |-> d1.values]
        last == FoldLeft(Compare, [c |-> begun, v |-> left.result], [i \in 1..n |-> i]).c
    IN  Emit([last EXCEPT !.cur = join],
             Op("copy", <<"copy", e.l>>, <<NextValue(last)>>, <<begun.values>>))

LowerWalrus(c, e) ==
    LET d == Expression(c, e.value)
    IN  Emit(Perform(d, "bind", e.l, <<d.result>>),
             Op("copy", <<"copy", e.l>>, <<NextValue(d)>>, <<d.result>>))

\* The parts of an f-string are added up from the left.
LowerJoined(c, e) ==
    LET Add(done, i) ==
            LET part == Expression(done.c, e.parts[i])
                d == Emit(part, Op("join", <<"join", e.l + i>>, <<NextValue(part)>>,
                                   <<done.v, part.result>>))
            IN  [c |-> d, v |-> d.result]
        first == Expression(c, Head(e.parts))
        last == FoldLeft(Add, [c |-> first, v |-> first.result],
                         [i \in 1..Len(e.parts) - 1 |-> i + 1])
    IN  Emit(last.c, Op("copy", <<"copy", e.l>>, <<NextValue(last.c)>>, <<last.v>>))

LowerFormatted(c, e) ==
    LET d == Expression(c, e.value)
        spec == Expression(d, e.spec)
    IN  Eval(spec, "format", e.l, <<d.result, spec.result>>)

\* A call with an expanded part collects its arguments one by one.
LowerCall(c, e) ==
    LET f == Expression(c, e.callable)
        new == Emit(f, Op("new", <<"new", e.l>>, <<NextValue(f)>>, <<>>))
        Add(d, part) ==
            LET value == Expression(d, part.value)
            IN  Perform(value, "argument", part.l, <<new.result, value.result>>)
        plain == Operands(f, [i \in DOMAIN e.parts |-> e.parts[i].value])
    IN  IF \E i \in DOMAIN e.parts : e.parts[i].expanded
        THEN Eval(FoldLeft(Add, new, e.parts), "call", e.l, <<f.result, new.result>>)
        ELSE Eval(plain.c, "call", e.l, <<f.result>> \o plain.vs)

LowerYield(c, e) ==
    LET d == Expression(c, e.value)
        r == NextBlock(d)
        d1 == Parameter(NewBlocks(d, 1), r)
        d2 == Terminate(d1, [Unreachable EXCEPT !.k = "yield", !.l = <<"resume", e.l>>,
                                !.use = <<d.result>>, !.to = <<r>>, !.exc = c.target])
    IN  [d2 EXCEPT !.cur = r, !.result = d1.values]

\* A delegate is driven first; if it suspends, the function suspends too, and
\* both ways meet in the join block.  getting is how the delegate is asked for,
\* suspension how the function suspends.
LowerDriven(c, getting, suspension, l) ==
    LET asked == Eval(c, getting, l, <<c.result>>)
        iterator == asked.result
        item == NextValue(asked)
        join == NextBlock(asked)
        c1 == Emit(NewBlocks(asked, 2), Op("drive", <<"drive", l>>, <<item, item + 1, item + 2>>,
                                           <<iterator>>))
        c2 == Parameter(c1, join)
        c3 == Terminate(c2, BranchWith(<<"silent", l>>, item + 2, join, <<item + 1>>, join + 1, <<>>))
        c4 == Terminate([c3 EXCEPT !.cur = join + 1],
                        [Unreachable EXCEPT !.k = suspension, !.l = <<"resume", l>>,
                            !.use = <<item, iterator>>, !.to = <<join>>, !.exc = c.target])
    IN  [c4 EXCEPT !.cur = join, !.result = c2.values]

\* lower_await_value and lower_yield_from_expression.
LowerAwait(c, l) == LowerDriven(c, "awaited", "await", l)
LowerYieldFrom(c, e) == LowerDriven(Expression(c, e.value), "iter", "yield", e.l)

\* lower_await_expression: a call of positional arguments is tried as a
\* coroutine that finishes at once; on a miss it is called with the same values.
LowerAwaitOf(c, e) ==
    LET call == e.value
        f == Expression(c, call.callable)
        args == Operands(f, [i \in DOMAIN call.parts |-> call.parts[i].value])
        use == <<f.result>> \o args.vs
        v == args.c.values
        tried == Emit(args.c, Op("ready", <<"ready", e.l>>, <<v + 1, v + 2>>, use))
        fallback == NextBlock(tried)
        d == Parameter(NewBlocks(tried, 2), fallback + 1)
        d1 == Terminate(d, BranchWith(<<"silent", e.l>>, v + 2, fallback + 1, <<v + 1>>,
                                      fallback, <<>>))
        d2 == LowerAwait(Eval([d1 EXCEPT !.cur = fallback], "call", call.l, use), e.l)
        d3 == Terminate(d2, GotoWith(fallback + 1, d2.result))
    IN  IF call.k = "call" /\ \A i \in DOMAIN call.parts : ~call.parts[i].expanded
        THEN [d3 EXCEPT !.cur = fallback + 1, !.result = d.values]
        ELSE LowerAwait(Expression(c, call), e.l)

\* The call of the function that is made of a comprehension, with the
\* iterator of its first clause.
LowerComprehensionCall(c, e) ==
    LET it == Expression(c, e.iterable)
        iterator == Eval(it, "iter", e.l, <<it.result>>)
        make == Eval(iterator, "make", e.l, <<>>)
        call == Eval(make, "call", e.l, <<make.result, iterator.result>>)
    IN  IF e.async /\ e.kind # "generator" THEN LowerAwait(call, e.l) ELSE call

Expression(c, e) ==
    CASE e.k = "none"      -> Constant(c)
      [] e.k = "name"      -> LowerName(c, e)
      [] e.k = "apply"     -> LowerApply(c, e)
      [] e.k = "dict"      -> LowerDictionary(c, e)
      [] e.k = "lambda"    -> LowerLambda(c, e)
      [] e.k = "boolean"   -> LowerBoolean(c, e)
      [] e.k = "chain"     -> LowerChain(c, e)
      [] e.k = "walrus"    -> LowerWalrus(c, e)
      [] e.k = "joined"    -> LowerJoined(c, e)
      [] e.k = "formatted" -> LowerFormatted(c, e)
      [] e.k = "call"      -> LowerCall(c, e)
      [] e.k = "yield"     -> LowerYield(c, e)
      [] e.k = "from"      -> LowerYieldFrom(c, e)
      [] e.k = "await"     -> LowerAwaitOf(c, e)
      [] e.k = "comprehension" -> LowerComprehensionCall(c, e)

-----------------------------------------------------------------------------
(* Targets.                                                                *)

\* Element i of the value v, which is a set of parts of what was computed.
Element(v, i) == {Append(x, i) : x \in v}

RECURSIVE WriteTarget(_, _, _), DeleteTarget(_, _)

StoreName(c, l, v) == Perform(c, "bind", l, <<v>>)

\* The elements of an unpacked value, each written to its target.
WriteElements(c, elements, unpacked) ==
    FoldLeft(LAMBDA d, i : LET item == Emit(d, Op("element", <<"element", i>>,
                                                 <<NextValue(d)>>, <<unpacked>>))
                           IN  WriteTarget(item, elements[i], item.result),
             c, [i \in DOMAIN elements |-> i])

Verb == [attr |-> [get |-> "getattr", set |-> "setattr", del |-> "delattr"],
         item |-> [get |-> "getitem", set |-> "setitem", del |-> "delitem"]]

WriteTarget(c, t, v) ==
    IF t.k = "name" THEN StoreName(c, t.l, v)
    ELSE IF t.k = "sequence"
    THEN LET d == Eval(c, "unpack", t.l, <<v>>) IN WriteElements(d, t.elements, d.result)
    ELSE LET done == Operands(c, t.parts) IN Perform(done.c, Verb[t.k].set, t.l, done.vs \o <<v>>)

DeleteTarget(c, t) ==
    IF t.k = "name" THEN Perform(c, "unbind", t.l, <<>>)
    ELSE IF t.k = "sequence" THEN FoldLeft(DeleteTarget, c, t.elements)
    ELSE LET done == Operands(c, t.parts) IN Perform(done.c, Verb[t.k].del, t.l, done.vs)

\* The receiver and the index are evaluated once, before the value is read,
\* and the operand after it.
AugmentedTarget(c, t, l, e) ==
    LET done == IF t.k = "name" THEN [c |-> c, vs |-> <<>>] ELSE Operands(c, t.parts)
        current == Eval(done.c, IF t.k = "name" THEN "load" ELSE Verb[t.k].get, t.l, done.vs)
        right == Expression(current, e)
        result == Eval(right, "inplace", l, <<current.result, right.result>>)
    IN  IF t.k = "name" THEN StoreName(result, t.l, result.result)
        ELSE Perform(result, Verb[t.k].set, t.l, done.vs \o <<result.result>>)

\* evaluate_annotation_target: what an annotation without value evaluates.
AnnotationTarget(c, t) == IF t.k = "name" THEN c ELSE Operands(c, t.parts).c

-----------------------------------------------------------------------------
(* Patterns.  Captures go to a tentative dictionary until the whole        *)
(* pattern has matched; success and failure are the blocks to continue in. *)

RECURSIVE PatternTest(_, _, _, _, _, _)

Record(c, tentative, name, v) ==
    Emit(c, Op("record", <<"record", name>>, <<>>, <<tentative, v>>))

\* A test with a truth that needs no __bool__, on the value that comes last.
Tested(c, v, l, success, failure) ==
    Terminate(c, Branch(<<"silent", l>>, v, success, failure))

\* lower_extracted_pattern_refs: element by element, until one fails.
ExtractedPatterns(c, values, patterns, tentative, success, failure) ==
    LET One(d, i) ==
            LET next == IF i = Len(patterns) THEN success ELSE NextBlock(d)
                d1 == IF i = Len(patterns) THEN d ELSE NewBlocks(d, 1)
                item == Emit(d1, Op("element", <<"element", i>>, <<NextValue(d1)>>, <<values>>))
                d2 == PatternTest(item, item.result, patterns[i], tentative, next, failure)
            IN  IF i = Len(patterns) THEN d2 ELSE [d2 EXCEPT !.cur = next]
    IN  IF patterns = <<>> THEN Terminate(c, Goto(success))
        ELSE FoldLeft(One, c, [i \in DOMAIN patterns |-> i])

OrPatternTest(c, subject, p, tentative, success, failure) ==
    LET n == Len(p.patterns)
        Alternative(d, i) ==
            LET next == IF i = n THEN failure ELSE NextBlock(d)
                d1 == PatternTest(IF i = n THEN d ELSE NewBlocks(d, 1), subject, p.patterns[i],
                                  tentative, success, next)
            IN  IF i = n THEN d1 ELSE [d1 EXCEPT !.cur = next]
    IN  FoldLeft(Alternative, c, [i \in 1..n |-> i])

\* The values of a sequence, mapping or class pattern are extracted at once.
Extracted(c, kind, l, use, failure, Then(_, _)) ==
    LET v == NextValue(c)
        d == Emit(NewBlocks(c, 1), Op("extract", <<kind, l>>, <<v, v + 1>>, use))
        extracted == NextBlock(c)
    IN  Then([Tested(d, v + 1, l, extracted, failure) EXCEPT !.cur = extracted], v)

SequencePatternTest(c, subject, p, tentative, success, failure) ==
    Extracted(c, "sequence", p.l, <<subject>>, failure,
              LAMBDA d, values : ExtractedPatterns(d, values, p.patterns, tentative, success, failure))

\* The keys are evaluated only when the subject is a mapping of enough keys.
MappingPatternTest(c, subject, p, tentative, success, failure) ==
    LET ready == NextBlock(c)
        check == Emit(c, Op("match", <<"mapping", p.l>>, <<NextValue(c)>>, <<subject>>))
        c1 == [Tested(NewBlocks(check, 1), check.result, p.l, ready, failure) EXCEPT !.cur = ready]
        keys == Operands(c1, p.keys)
        Children(d, values) ==
            IF p.rest = <<>>
            THEN ExtractedPatterns(d, values, p.patterns, tentative, success, failure)
            ELSE LET after == NextBlock(d)
                     d1 == ExtractedPatterns(NewBlocks(d, 1), values, p.patterns, tentative,
                                             after, failure)
                     d2 == Emit([d1 EXCEPT !.cur = after],
                                Op("element", <<"element", Len(p.patterns) + 1>>,
                                   <<NextValue(d1)>>, <<values>>))
                 IN  Terminate(Record(d2, tentative, p.rest[1], d2.result), Goto(success))
    IN  Extracted(keys.c, "keys", p.l, <<subject>> \o keys.vs, failure, Children)

ClassPatternTest(c, subject, p, tentative, success, failure) ==
    LET class == Expression(c, p.class)
    IN  Extracted(class, "class", p.l, <<subject, class.result>>, failure,
                  LAMBDA d, values : ExtractedPatterns(d, values, p.patterns, tentative, success, failure))

\* A value pattern compares with ==, whose result is asked for its truth.
ValuePatternTest(c, subject, p, success, failure) ==
    LET d == Expression(c, p.value)
        equal == Eval(d, "compare", p.l, <<subject, d.result>>)
    IN  Terminate(equal, Branch(<<"if", p.l>>, equal.result, success, failure))

SingletonPatternTest(c, subject, p, success, failure) ==
    LET d == Constant(c)
        same == Emit(d, Op("is", <<"is", p.l>>, <<NextValue(d)>>, <<subject, d.result>>))
    IN  Tested(same, same.result, p.l, success, failure)

AsPatternTest(c, subject, p, tentative, success, failure) ==
    LET inner == NextBlock(c)
        d == PatternTest(NewBlocks(c, 1), subject, p.pattern, tentative, inner, failure)
    IN  Terminate(Record([d EXCEPT !.cur = inner], tentative, p.name, subject), Goto(success))

PatternTest(c, subject, p, tentative, success, failure) ==
    CASE p.k = "value"     -> ValuePatternTest(c, subject, p, success, failure)
      [] p.k = "singleton" -> SingletonPatternTest(c, subject, p, success, failure)
      [] p.k = "capture"   -> Terminate(Record(c, tentative, p.name, subject), Goto(success))
      [] p.k = "wildcard"  -> Terminate(c, Goto(success))
      [] p.k = "as"        -> AsPatternTest(c, subject, p, tentative, success, failure)
      [] p.k = "or"        -> OrPatternTest(c, subject, p, tentative, success, failure)
      [] p.k = "sequence"  -> SequencePatternTest(c, subject, p, tentative, success, failure)
      [] p.k = "mapping"   -> MappingPatternTest(c, subject, p, tentative, success, failure)
      [] p.k = "class"     -> ClassPatternTest(c, subject, p, tentative, success, failure)

\* collect_pattern_bindings: the names, in the order they are bound in.
RECURSIVE PatternBindings(_)
PatternBindings(p) ==
    CASE p.k = "capture" -> <<p.name>>
      [] p.k = "as"      -> Append(PatternBindings(p.pattern), p.name)
      [] p.k = "or"      -> PatternBindings(Head(p.patterns))
      [] p.k \in {"sequence", "mapping", "class"} ->
           FlattenSeq([i \in DOMAIN p.patterns |-> PatternBindings(p.patterns[i])])
               \o (IF p.k = "mapping" THEN p.rest ELSE <<>>)
      [] OTHER -> <<>>
=============================================================================
