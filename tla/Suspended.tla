----------------------------- MODULE Suspended -----------------------------
(***************************************************************************)
(* Suspended activations of rimera-runtime: generators, coroutines, async  *)
(* generators with the awaitable operations on them, and anext() with a    *)
(* default (context.rs, call.rs, and the dispatch codegen compiles).       *)
(*                                                                         *)
(* Compiled code and the runtime call each other: a body is resumed by a   *)
(* method, by an operation, or by a body that awaits it, and runs code     *)
(* that resumes others.  `stack` holds these calls, innermost last; `ret`  *)
(* is the result on its way to the caller.  What code does between calls   *)
(* (raise, handle, leave a handler, return in a finally) is free, as far   *)
(* as ControlFlow.tla lets compiled code do it.                            *)
(***************************************************************************)
EXTENDS Integers, Sequences, FiniteSets, SequencesExt

CONSTANTS
    Generators,     \* the suspended objects
    Kind,           \* "generator", "coroutine" or "async_generator" of each
    Operations,     \* __anext__(), asend(), athrow() and aclose() objects
    Receiver,       \* the async generator of each
    Protocol,       \* "next", "send", "throw" or "close" of each
    Defaults,       \* anext(_, default) objects
    Wrapped,        \* the operation each of them awaits
    Io,             \* an awaitable that is not a suspended object
    MaxExceptions,  \* bound: exceptions that exist at a time
    MaxHandled,     \* bound: handlers a code is in at a time
    MaxCalls,       \* bound: calls and awaits of a behaviour
    Exposed         \* behaviours that are explored although the code is
                    \* known to lose an exception in them:
                    \*   "nested"            a resumption by code that deals with
                    \*                       more than one exception
                    \*   "close_in_finally"  a collection while close allocates
                    \*                       GeneratorExit, with an exception
                    \*                       pending in the caller

ASSUME SuspendedAssumption ==
    /\ Kind \in [Generators -> {"generator", "coroutine", "async_generator"}]
    /\ Receiver \in [Operations -> {g \in Generators : Kind[g] = "async_generator"}]
    /\ Protocol \in [Operations -> {"next", "send", "throw", "close"}]
    /\ Wrapped \in [Defaults -> Operations]
    /\ Generators \cap ({Io} \cup Operations \cup Defaults) = {}
    /\ MaxExceptions \in Nat /\ MaxHandled \in Nat /\ MaxCalls \in Nat
    /\ Exposed \subseteq {"nested", "close_in_finally"}

\* RValue::NONE, and no exception in a register.
None == "None"
NoException == 0

VARIABLES
    ctx,    \* RimeraContext: raised, handled, ambient_exception_context and
            \* the exception objects of its heap
    gen,    \* GeneratorObject of each suspended object
    op,     \* AsyncGeneratorOperationObject of each operation
    next,   \* AsyncNextAwaitableObject of each anext() with a default
    stack,  \* the calls that are active, innermost last
    ret,    \* the result of the call that ended last; "none" while code runs
    calls   \* how many calls code has made

vars == <<ctx, gen, op, next, stack, ret, calls>>

\* The state as one record, so that a function of the runtime is an operator
\* from a state to the state it leaves behind.
State == [ctx |-> ctx, gen |-> gen, op |-> op, next |-> next, stack |-> stack, ret |-> ret,
          calls |-> calls]

\* Results; token: the value is what an await suspends with, not an item.
Gives(k, token) == [k |-> k, token |-> token]
Running == Gives("none", FALSE)
Error == Gives("error", FALSE)

-----------------------------------------------------------------------------
(* Exceptions.                                                             *)

Registers(c) == {c.raised} \cup ToSet(c.handled) \cup ToSet(c.ambient)

\* Exceptions that native code has published with with_temporary_roots: the
\* exception a delegate was resumed with, and the input of a throw.
Held(l) == CASE l.k = "delegate" -> {l.injected} [] l.k = "resume" -> {l.input} [] OTHER -> {}

\* What a collection marks (discover_roots, and the objects' own fields).
Roots(s) ==
    (Registers(s.ctx) \cup (UNION {ToSet(s.gen[g].handled) \cup {s.gen[g].raised} : g \in Generators})
                      \cup (UNION {Held(s.stack[i]) : i \in DOMAIN s.stack})) \ {NoException}

\* Marking follows the context and the cause of what is marked: the least set
\* that has the roots and is closed under both.
Marked(s) ==
    LET heap == DOMAIN s.ctx.exceptions
        Links(e) == {s.ctx.exceptions[e].context, s.ctx.exceptions[e].cause}
        closed == {S \in SUBSET heap : /\ Roots(s) \cap heap \subseteq S
                                       /\ \A e \in S : Links(e) \cap heap \subseteq S}
    IN  {e \in heap : \A S \in closed : e \in S}

\* Every step ends with a collection, the schedule that sweeps the most; only
\* between the exchange of the registers and the body is there none, except
\* for the allocation of GeneratorExit.
Collects(s) ==
    s.ret.k = "resumed" =>
        /\ Last(s.stack).op = "close"
        /\ Last(s.stack).previousRaised = NoException \/ "close_in_finally" \in Exposed

Becomes(s) ==
    /\ ctx' = IF Collects(s)
              THEN [s.ctx EXCEPT !.exceptions = [e \in Marked(s) |-> @[e]]]
              ELSE s.ctx
    /\ gen' = s.gen /\ op' = s.op /\ next' = s.next /\ stack' = s.stack /\ ret' = s.ret
    /\ calls' = s.calls

\* Every place that names an exception, the Rust locals of resume_generator
\* included: a new exception is none of these.
Named(s) ==
    Registers(s.ctx) \cup (UNION {ToSet(s.gen[g].handled) \cup {s.gen[g].raised} : g \in Generators})
    \cup UNION {Held(s.stack[i]) \cup
                (CASE s.stack[i].k = "resume" ->
                        {s.stack[i].previousRaised} \cup ToSet(s.stack[i].previousHandled)
                   [] s.stack[i].k \in {"start", "delegate"} -> {s.stack[i].ambient}
                   [] OTHER -> {}) : i \in DOMAIN s.stack}

Free(s) == (1..MaxExceptions) \ (DOMAIN s.ctx.exceptions \cup Named(s))

\* The name of a new exception; Room keeps some free for the steps that make one.
Fresh(s) == IF Free(s) = {} THEN MaxExceptions + 1
            ELSE CHOOSE e \in Free(s) : \A f \in Free(s) : e <= f

Room(n) == Cardinality(Free(State)) >= n

KindOf(s, e) == IF e \in DOMAIN s.ctx.exceptions THEN s.ctx.exceptions[e].kind ELSE "swept"

\* new_builtin_exception.
New(s, kind, token) ==
    LET e == Fresh(s) IN
    [s EXCEPT !.ctx.exceptions =
        [x \in DOMAIN @ \cup {e} |->
            IF x = e THEN [kind |-> kind, context |-> NoException, cause |-> NoException, token |-> token]
            ELSE @[x]]]

\* The exception that was being dealt with becomes the context of a new one.
ImplicitContext(c, e) ==
    LET active == IF c.handled # <<>> THEN Last(c.handled)
                  ELSE IF c.raised # NoException THEN c.raised
                  ELSE IF c.ambient # <<>> THEN Last(c.ambient)
                  ELSE NoException
    IN  IF active = e THEN NoException ELSE active

RaiseValue(s, e, cause) ==
    [s EXCEPT !.ctx.exceptions[e].context = IF @ = NoException THEN ImplicitContext(s.ctx, e) ELSE @,
              !.ctx.exceptions[e].cause = cause,
              !.ctx.raised = e]

RaiseNew(s, kind, token) == RaiseValue(New(s, kind, token), Fresh(s), NoException)
RaiseStopIteration(s, token) == RaiseNew(s, "stop", token)

\* raise_error: the call ends with an exception.
RaiseError(s, kind) == [RaiseNew(s, kind, FALSE) EXCEPT !.ret = Error]

-----------------------------------------------------------------------------
(* Resuming (context.rs, resume_generator).                                *)

Push(s, layer) == [s EXCEPT !.stack = Append(@, layer)]
Pop(s) == [s EXCEPT !.stack = Front(@)]

\* close and the first throw end a body that never ran.
Close(s, g) == [s EXCEPT !.gen[g].completed = TRUE]

\* The part that can run the body: the caller's exception is exchanged for
\* the generator's own, ...
EnterBody(s, g, o, input) ==
    LET own == [s EXCEPT !.ctx.raised = s.gen[g].raised]
        injected == IF o = "throw" THEN RaiseValue(own, input, NoException) ELSE own
    IN  Push([injected EXCEPT !.ret = Gives("resumed", FALSE)],
             [k |-> "resume", gen |-> g, op |-> o, input |-> input,
              previousRaised |-> s.ctx.raised, previousHandled |-> s.ctx.handled,
              mark |-> Len(s.ctx.ambient)])

Run(s, g) == [s EXCEPT !.gen[g].running = TRUE, !.gen[g].started = TRUE]

\* ... close allocates the exception it injects, the handlers are exchanged
\* too and the caller's exception becomes the ambient one.
\* Mutant: only an exception in a handler becomes ambient.
ActivateInHandler(s) ==
    LET l == Last(s.stack)
        injected == IF l.op = "close" THEN RaiseNew(s, "exit", FALSE) ELSE s
    IN  [Run(injected, l.gen) EXCEPT
            !.ctx.handled = s.gen[l.gen].handled,
            !.ctx.ambient = IF s.ctx.handled = <<>> THEN @ ELSE Append(@, Last(s.ctx.handled))]

Activate(s) ==
    LET l == Last(s.stack)
        around == IF s.ctx.handled # <<>> THEN Last(s.ctx.handled) ELSE l.previousRaised
        injected == IF l.op = "close" THEN RaiseNew(s, "exit", FALSE) ELSE s
    IN  [Run(injected, l.gen) EXCEPT
            !.ctx.handled = s.gen[l.gen].handled,
            !.ctx.ambient = IF around = NoException THEN @ ELSE Append(@, around)]

ResumeGenerator(s, g, o, input) ==
    LET object == s.gen[g]
        fresh == ~object.running /\ ~object.completed /\ ~object.started
        ended == ~object.running /\ object.completed
    IN  CASE object.running                    -> RaiseError(s, "error")
          [] ended /\ Kind[g] = "coroutine" /\ o \in {"next", "send"} -> RaiseError(s, "error")
          [] ended /\ o = "throw"              -> [RaiseValue(s, input, NoException) EXCEPT !.ret = Error]
          [] ended /\ (Kind[g] = "coroutine" => o = "close") /\ o # "throw" ->
                [s EXCEPT !.ret = Gives("returned", FALSE)]
          [] fresh /\ o = "send"               -> RaiseError(s, "error")
          [] fresh /\ o = "close"              -> [Close(s, g) EXCEPT !.ret = Gives("returned", FALSE)]
          [] fresh /\ o = "throw"              -> [RaiseValue(Close(s, g), input, NoException) EXCEPT !.ret = Error]
          [] OTHER                             -> EnterBody(s, g, o, input)

\* `raise e from c`, where c is pending.
RaiseFrom(s, e, c) ==
    [s EXCEPT !.ctx.exceptions[e].context = c, !.ctx.exceptions[e].cause = c, !.ctx.raised = e]

\* The caller's handlers and ambient exceptions come back; ...
Restore(s) ==
    [Pop(s) EXCEPT !.ctx.handled = Last(s.stack).previousHandled,
                   !.ctx.ambient = SubSeq(@, 1, Last(s.stack).mark)]

\* ... a GeneratorExit that close injected ends there, and a StopIteration does
\* not leave a body.
LeaveBody(s) ==
    LET back == Restore(s)
        kind == IF s.ret.k = "error" THEN KindOf(s, s.ctx.raised) ELSE "none"
    IN  CASE kind = "exit" /\ Last(s.stack).op = "close" ->
               [back EXCEPT !.ctx.raised = NoException, !.ret = Gives("returned", FALSE)]
          [] kind = "stop" ->
               RaiseFrom(New(back, "runtime", FALSE), Fresh(back), s.ctx.raised)
          [] OTHER -> back

\* What is pending is the generator's, or, when it ended, the caller's.
FinishResume(s) ==
    LET l == Last(s.stack)
        t == LeaveBody(s)
        terminal == t.ret.k \in {"error", "returned"}
    IN  [t EXCEPT
            !.gen[l.gen] = [started |-> @.started, owned |-> @.owned, running |-> FALSE,
                            handled |-> s.ctx.handled,
                            raised |-> IF terminal THEN NoException ELSE t.ctx.raised,
                            completed |-> terminal \/ @.completed,
                            delegate |-> IF terminal THEN None ELSE @.delegate],
            !.ctx.raised = IF t.ret.k = "error" THEN @ ELSE l.previousRaised]

-----------------------------------------------------------------------------
(* Methods and operations (call.rs).                                       *)

\* send, throw and close as Python sees them.
MethodReturns(s) ==
    LET l == Last(s.stack)
        up == Pop(s)
    IN  CASE s.ret.k \in {"yielded", "suspended"} ->
               IF l.op = "close" THEN RaiseError(up, "runtime")
               ELSE [up EXCEPT !.ret = Gives("value", s.ret.token)]
          [] s.ret.k = "returned" ->
               IF l.op = "close" THEN [up EXCEPT !.ret = Gives("value", FALSE)]
               ELSE [RaiseStopIteration(up, FALSE) EXCEPT !.ret = Error]
          [] OTHER -> up

Method(s, g, o, input) == ResumeGenerator(Push(s, [k |-> "method", op |-> o]), g, o, input)

Consume(s, a) == [s EXCEPT !.op[a].running = FALSE, !.op[a].completed = TRUE]
FinishOperation(s, a) == [Consume(s, a) EXCEPT !.gen[Receiver[a]].owned = FALSE]

Take(s, a) == [s EXCEPT !.gen[Receiver[a]].owned = TRUE, !.op[a].started = TRUE, !.op[a].running = TRUE]

\* resume_async_generator_operation up to the resumption; "default" is the
\* request that __next__ makes.  The exception that athrow() was given exists
\* from the start; here it is made when it is first used.
Acquire(s, a, o, input) ==
    LET g == Receiver[a]
        taken == Take(s, a)
        resume == IF o # "default" THEN o ELSE IF s.op[a].started THEN "next" ELSE Protocol[a]
        given == o = "default" /\ resume = "throw"
    IN  ResumeGenerator(Push(IF given THEN New(taken, "error", FALSE) ELSE taken,
                             [k |-> "operation", op |-> a]),
                        g, resume, IF given THEN Fresh(taken) ELSE input)

\* Mutant: a refused operation sets the generator free.
ResumeOperationFinishing(s, a, o, input) ==
    CASE s.op[a].completed \/ s.op[a].running -> RaiseError(s, "error")
      [] ~s.op[a].completed /\ ~s.op[a].started /\ s.gen[Receiver[a]].owned ->
            RaiseError(FinishOperation(s, a), "error")
      [] OTHER -> Acquire(s, a, o, input)

ResumeOperation(s, a, o, input) ==
    CASE s.op[a].completed \/ s.op[a].running -> RaiseError(s, "error")
      [] ~s.op[a].completed /\ ~s.op[a].started /\ s.gen[Receiver[a]].owned ->
            RaiseError(Consume(s, a), "error")
      [] OTHER -> Acquire(s, a, o, input)

OperationReturns(s) ==
    LET a == Last(s.stack).op
        rested == [Pop(s) EXCEPT !.op[a].running = FALSE]
        done == FinishOperation(Pop(s), a)
        kind == KindOf(s, s.ctx.raised)
        close == Protocol[a] = "close"
    IN  CASE s.ret.k = "suspended" -> [rested EXCEPT !.ret = Gives("value", s.ret.token)]
          [] s.ret.k = "yielded" ->
               IF close THEN RaiseError(done, "runtime")
               ELSE [RaiseStopIteration(done, s.ret.token) EXCEPT !.ret = Error]
          [] s.ret.k = "returned" -> RaiseError(done, IF close THEN "stop" ELSE "stopasync")
          [] s.ret.k = "error" /\ close /\ kind = "exit" ->
               RaiseError([done EXCEPT !.ctx.raised = NoException], "stop")
          [] s.ret.k = "error" /\ kind \in {"stop", "stopasync"} ->
               RaiseValue(New(done, "runtime", FALSE), Fresh(done), s.ctx.raised)
          [] OTHER -> done

\* The methods of an operation.  A wrong first send uses the object up; close
\* does too, and leaves the generator owned.
OperationMethod(s, a, o, input) ==
    CASE o = "next" -> ResumeOperation(s, a, "default", input)
      [] o = "send" ->
            IF s.op[a].started THEN ResumeOperation(s, a, "send", input)
            ELSE RaiseError(Consume(s, a), "error")
      [] o = "throw" -> ResumeOperation(s, a, "throw", input)
      [] o = "close" -> [(IF s.op[a].completed THEN s ELSE Consume(s, a)) EXCEPT
                            !.ret = Gives("value", FALSE)]

-----------------------------------------------------------------------------
(* Delegation: await and yield from (call.rs, generator_delegate_start and  *)
(* generator_delegate_resume).                                             *)

\* What an awaitable of the program answers.
Answers(s) == {[s EXCEPT !.ret = Gives(k, TRUE)] : k \in {"pending", "completed"}}
              \cup {RaiseError(s, "error"), RaiseError(s, "stopasync")}

FinishDefault(s, d, terminal) ==
    [s EXCEPT !.next[d] = [started |-> @.started, running |-> FALSE,
                           completed |-> terminal \/ @.completed]]

Start(s, x) ==
    LET started == Push(s, [k |-> "start", ambient |-> s.ctx.raised])
    IN  IF x \in Operations THEN {ResumeOperation(started, x, "default", NoException)}
        ELSE IF x \in Generators THEN {ResumeGenerator(started, x, "next", NoException)}
        ELSE Answers(s)

\* anext() with a default: advanced by Next and Send(None).
StartDefault(s, d) ==
    IF s.next[d].completed \/ s.next[d].running THEN {RaiseError(s, "error")}
    ELSE Start(Push([s EXCEPT !.next[d].running = TRUE, !.next[d].started = TRUE],
                    [k |-> "anext", next |-> d, op |-> "next"]), Wrapped[d])

DelegateStart(s, x) == IF x \in Defaults THEN StartDefault(s, x) ELSE Start(s, x)

\* A StopIteration is the value of the delegate; the exception that was
\* pending before stays pending.
TakeStopIteration(s, ambient) ==
    [s EXCEPT !.ctx.raised = ambient, !.ret = Gives("completed", FALSE)]

\* Mutant: the exception that was pending before is dropped.
StartReturnsBare(s) ==
    LET up == Pop(s) IN
    CASE s.ret.k \in {"yielded", "suspended", "value"} -> [up EXCEPT !.ret = Gives("pending", s.ret.token)]
      [] s.ret.k = "returned" -> [up EXCEPT !.ret = Gives("completed", FALSE)]
      [] s.ret.k = "error" -> IF KindOf(s, s.ctx.raised) = "stop" THEN TakeStopIteration(up, NoException)
                              ELSE up

StartReturns(s) ==
    LET up == Pop(s) IN
    CASE s.ret.k \in {"yielded", "suspended", "value"} -> [up EXCEPT !.ret = Gives("pending", s.ret.token)]
      [] s.ret.k = "returned" -> [up EXCEPT !.ret = Gives("completed", FALSE)]
      [] s.ret.k = "error" -> IF KindOf(s, s.ctx.raised) = "stop"
                              THEN TakeStopIteration(up, Last(s.stack).ambient) ELSE up

\* Send with a value, throw and close go through the delegate's method; throw
\* and close take the injected exception out of the register for the time.
DelegateMethod(s, x, o, input) ==
    LET injected == IF o \in {"throw", "close"} THEN s.ctx.raised ELSE NoException
        taken == IF injected = NoException THEN s ELSE [s EXCEPT !.ctx.raised = NoException]
        called == Push(taken, [k |-> "delegate", op |-> o, injected |-> injected,
                               ambient |-> taken.ctx.raised])
    IN  IF x \in Operations THEN {OperationMethod(called, x, o, input)}
        ELSE IF x \in Generators THEN {Method(called, x, o, input)}
        ELSE {[a EXCEPT !.ret = IF a.ret = Error THEN @ ELSE Gives("value", TRUE)] : a \in Answers(called)}
             \cup (IF injected = NoException THEN {}
                   ELSE {[RaiseValue(s, injected, NoException) EXCEPT !.ret = Gives("propagate", FALSE)]})

DelegateReturns(s) ==
    LET l == Last(s.stack)
        up == Pop(s)
        kind == IF s.ret.k = "error" THEN KindOf(s, s.ctx.raised) ELSE "none"
    IN  CASE l.op = "close" ->
               IF kind # "none" THEN up
               ELSE [RaiseValue(up, l.injected, NoException) EXCEPT !.ret = Gives("propagate", FALSE)]
          [] l.op # "close" /\ kind = "none" -> [up EXCEPT !.ret = Gives("pending", s.ret.token)]
          [] l.op # "close" /\ kind = "stop" ->
               TakeStopIteration(up, IF l.op = "send" THEN l.ambient ELSE NoException)
          [] OTHER -> [up EXCEPT !.ret = Gives("propagate", FALSE)]

\* anext() with a default, resumed otherwise than with Next.
ResumeDefault(s, d, o, input) ==
    IF s.next[d].completed \/ s.next[d].running \/ ~s.next[d].started THEN {RaiseError(s, "error")}
    ELSE DelegateMethod(Push([s EXCEPT !.next[d].running = TRUE], [k |-> "anext", next |-> d, op |-> o]),
                        Wrapped[d], o, input)

\* StopAsyncIteration gives the default; whatever was pending is gone.
DefaultReturns(s) ==
    LET l == Last(s.stack)
        done == FinishDefault(Pop(s), l.next, s.ret.k # "pending")
    IN  IF s.ret.k = "error" /\ l.op \in {"next", "send"} /\ KindOf(s, s.ctx.raised) = "stopasync"
        THEN [done EXCEPT !.ctx.raised = NoException, !.ret = Gives("completed", FALSE)]
        ELSE done

DelegateResume(s, x, o, input) ==
    IF x \in Defaults
    THEN IF o = "next" THEN StartDefault(s, x) ELSE ResumeDefault(s, x, o, input)
    ELSE IF o = "next" THEN Start(Push(s, [k |-> "forward"]), x)
    ELSE DelegateMethod(s, x, o, input)

\* A failing Next is the body's to handle.
ForwardReturns(s) ==
    [Pop(s) EXCEPT !.ret = IF s.ret = Error THEN Gives("propagate", FALSE) ELSE @]

\* rimera_generator_delegate_resume and the dispatch compiled into the body:
\* a delegate that goes on suspends the body again (with the outcome of a
\* yield), one that ends lets it run on, and an error is not the body's to
\* handle: it leaves the function.
DispatchReturns(s) ==
    LET l == Last(s.stack)
        up == Pop(s)
        free == [up EXCEPT !.gen[l.gen].delegate = None]
    IN  CASE s.ret.k = "pending" -> [up EXCEPT !.ret = Gives("yielded", s.ret.token)]
          [] s.ret.k \in {"completed", "propagate"} -> [free EXCEPT !.ret = Running]
          [] s.ret.k = "error" -> free

\* The code that awaits goes on: with a value, with an exception to handle, or
\* by suspending on what it awaits.
AwaitReturns(s) ==
    LET up == Pop(s)
        g == Last(up.stack).gen
    IN  IF s.ret.k = "pending"
        THEN [up EXCEPT
                 !.gen[g].delegate = Last(s.stack).on,
                 !.ret = Gives(IF Kind[g] = "generator" THEN "yielded" ELSE "suspended", s.ret.token)]
        ELSE [up EXCEPT !.ret = Running]

\* The body starts, runs on after its yield, or forwards the resumption to
\* the delegate it is suspended on.
StartBody(s) ==
    LET started == Activate(s)
        l == Last(s.stack)
        object == s.gen[l.gen]
        x == object.delegate
    IN  IF x = None THEN {[started EXCEPT !.ret = Running]}
        ELSE DelegateResume(Push(started, [k |-> "dispatch", on |-> x, gen |-> l.gen, op |-> l.op,
                                           raised |-> object.raised, handled |-> object.handled,
                                           ambient |-> started.ctx.ambient]),
                            x, l.op, l.input)

-----------------------------------------------------------------------------
(* What code does: the program at the bottom of the stack, or the body that *)
(* was resumed last.                                                        *)

Code == ret = Running
Body == IF stack = <<>> THEN None ELSE Last(stack).gen
Dealing == Len(ctx.handled) + (IF ctx.raised = NoException THEN 0 ELSE 1)

\* What the code that calls finds again when the call ends.
Calling(s, k, x) ==
    [Push(s, [k |-> k, on |-> x, raised |-> s.ctx.raised, handled |-> s.ctx.handled,
              ambient |-> s.ctx.ambient]) EXCEPT !.calls = @ + 1]

\* gen.send(...) and the like, and the methods of an operation.  throw() is
\* given a new exception or, again, the one that is being handled.
Called(s, x, o, again) ==
    LET calling == Calling(s, "call", x)
        made == IF o = "throw" /\ ~again THEN New(calling, "error", FALSE) ELSE calling
        input == IF o # "throw" THEN NoException
                 ELSE IF again THEN Last(s.ctx.handled) ELSE Fresh(calling)
    IN  IF x \in Generators THEN Method(made, x, o, input)
        ELSE OperationMethod(made, x, o, input)

MayCall == Code /\ Room(2) /\ calls < MaxCalls /\ (Dealing <= 1 \/ "nested" \in Exposed)

Raise ==
    /\ Code /\ Room(2)
    /\ Becomes(RaiseNew(State, "error", FALSE))

\* HandlerEnter, HandlerLeave and a bare raise.
Handle ==
    /\ Code /\ ctx.raised # NoException /\ Len(ctx.handled) < MaxHandled
    /\ Becomes([State EXCEPT !.ctx.raised = NoException, !.ctx.handled = Append(@, ctx.raised)])

Leave ==
    /\ Code /\ ctx.handled # <<>>
    /\ \E raised \in {ctx.raised, Last(ctx.handled)} :
          Becomes([State EXCEPT !.ctx.raised = raised, !.ctx.handled = Front(@)])

Call(x, o) ==
    /\ MayCall
    /\ \E again \in {FALSE} \cup (IF o = "throw" /\ ctx.handled # <<>> THEN {TRUE} ELSE {}) :
          Becomes(Called(State, x, o, again))

CallGenerator == \E g \in {h \in Generators : Kind[h] # "async_generator"} :
                    \E o \in {"next", "send", "throw", "close"} : Call(g, o)
CallOperation == \E a \in Operations : \E o \in {"next", "send", "throw", "close"} : Call(a, o)

\* `await x`, or `yield from x` in a generator.
Awaitables ==
    IF Kind[Body] = "generator" THEN {g \in Generators : Kind[g] = "generator"} \cup {Io}
    ELSE {g \in Generators : Kind[g] = "coroutine"} \cup Operations \cup Defaults \cup {Io}

\* What an aclose() object is asked for injects GeneratorExit.
Closes(x) ==
    \E a \in Operations : Protocol[a] = "close" /\ (x = a \/ (x \in Defaults /\ Wrapped[x] = a))

Await ==
    /\ MayCall /\ Body # None
    /\ \E x \in Awaitables :
         /\ Closes(x) /\ "close_in_finally" \notin Exposed => ctx.raised = NoException
         /\ \E s \in DelegateStart(Calling(State, "await", x), x) : Becomes(s)

Yield ==
    /\ Code /\ Body # None /\ Kind[Body] # "coroutine"
    /\ Becomes([State EXCEPT !.ret = Gives("yielded", FALSE)])

\* The end of a body; a return in a finally leaves the exception in `raised`.
Return ==
    /\ Code /\ Body # None
    /\ Becomes([State EXCEPT !.ret = Gives("returned", FALSE)])

Fail ==
    /\ Code /\ Body # None /\ ctx.raised # NoException
    /\ Becomes([State EXCEPT !.ret = Error])

-----------------------------------------------------------------------------
(* What the runtime does with a result.                                    *)

Returning(k) == stack # <<>> /\ ~Code /\ ret.k # "resumed" /\ Last(stack).k = k /\ Room(2)

Resume ==
    /\ ret.k = "resumed" /\ Room(2)
    /\ \E s \in StartBody(State) : Becomes(s)

ResumeReturns    == Returning("resume") /\ Becomes(FinishResume(State))
MethodEnds       == Returning("method") /\ Becomes(MethodReturns(State))
OperationEnds    == Returning("operation") /\ Becomes(OperationReturns(State))
StartEnds        == Returning("start") /\ Becomes(StartReturns(State))
ForwardEnds      == Returning("forward") /\ Becomes(ForwardReturns(State))
DelegateEnds     == Returning("delegate") /\ Becomes(DelegateReturns(State))
DefaultEnds      == Returning("anext") /\ Becomes(DefaultReturns(State))
DispatchEnds     == Returning("dispatch") /\ Becomes(DispatchReturns(State))

CallEnds         == Returning("call") /\ Becomes([Pop(State) EXCEPT !.ret = Running])
AwaitEnds        == Returning("await") /\ Becomes(AwaitReturns(State))

\* The bound on exceptions is reached.
Full == ~Room(2) /\ UNCHANGED vars

Init ==
    /\ ctx = [raised |-> NoException, handled |-> <<>>, ambient |-> <<>>, exceptions |-> [e \in {} |-> None]]
    /\ gen = [g \in Generators |-> [started |-> FALSE, running |-> FALSE, completed |-> FALSE, owned |-> FALSE,
                                     delegate |-> None, handled |-> <<>>, raised |-> NoException]]
    /\ op = [a \in Operations |-> [started |-> FALSE, running |-> FALSE, completed |-> FALSE]]
    /\ next = [d \in Defaults |-> [started |-> FALSE, running |-> FALSE, completed |-> FALSE]]
    /\ stack = <<>>
    /\ ret = Running
    /\ calls = 0

Next ==
    \/ Raise \/ Handle \/ Leave \/ CallGenerator \/ CallOperation \/ Await
    \/ Yield \/ Return \/ Fail
    \/ Resume \/ ResumeReturns \/ MethodEnds \/ OperationEnds \/ StartEnds \/ ForwardEnds
    \/ DelegateEnds \/ DefaultEnds \/ DispatchEnds \/ CallEnds \/ AwaitEnds
    \/ Full

Spec == Init /\ [][Next]_vars

-----------------------------------------------------------------------------
(* Properties.                                                             *)

Flags == [started : BOOLEAN, running : BOOLEAN, completed : BOOLEAN]

\* The type invariant.
TypeOK ==
    /\ DOMAIN ctx.exceptions \subseteq 1..MaxExceptions
    /\ \A g \in Generators : gen[g].delegate \in {None, Io} \cup Generators \cup Operations \cup Defaults
    /\ op \in [Operations -> Flags] /\ next \in [Defaults -> Flags]
    /\ stack # <<>> /\ Code => Last(stack).k = "resume"

\* No exception that the context or a suspended object names has been swept:
\* resume_generator keeps the caller's registers in Rust locals (context.rs:
\* 2841, 2867) and relies on the ambient exception and on chains of contexts
\* to keep them alive.
HeldAlive ==
    Registers(ctx) \cup (UNION {ToSet(gen[g].handled) \cup {gen[g].raised} : g \in Generators})
        \subseteq DOMAIN ctx.exceptions \cup {NoException}

\* Code that resumed others finds its handlers and the ambient exceptions as
\* it left them; when the call went well its pending exception is pending
\* again, and when it failed there is an exception to handle.  (The code drops
\* a pending exception when a delegate answers a throw, and when anext() ends
\* with its default.)
CallerStateKept ==
    (~Code /\ ret.k # "resumed" /\ stack # <<>> /\ Last(stack).k \in {"call", "await", "dispatch"}) =>
        LET l == Last(stack) IN
        /\ ctx.handled = l.handled /\ ctx.ambient = l.ambient
        /\ ret.k \in {"error", "propagate"} => ctx.raised # NoException
        /\ (/\ ret.k \in {"value", "pending", "completed"}
            /\ l.k = "dispatch" => l.op \in {"next", "send"}
            /\ l.on \notin Defaults) => ctx.raised = l.raised

\* One operation at a time advances an async generator: the one that owns it.
\* The ones that come in between are refused and leave the owner its right;
\* a generator that has ended belongs to none, whatever its last operation met.
OneOwner ==
    \A g \in Generators :
        LET active == {a \in Operations : Receiver[a] = g /\ op[a].started /\ ~op[a].completed}
        IN  /\ Cardinality(active) <= 1
            /\ active # {} => gen[g].owned
            /\ gen[g].completed /\ gen[g].owned =>
                  \E i \in DOMAIN stack : stack[i].k = "operation" /\ Receiver[stack[i].op] = g

\* What an async generator awaits is not an item it produces: an operation
\* never ends with the value of an await (rimera-abi, RGeneratorOutcome).
AwaitIsNotAnItem ==
    \A e \in DOMAIN ctx.exceptions : ctx.exceptions[e].kind = "stop" => ~ctx.exceptions[e].token

=============================================================================
