---------------------------- MODULE ControlFlow ----------------------------
(***************************************************************************)
(* How compiled blocks run: the status of a runtime call picks the edge    *)
(* (codegen), and the context's `raised` and `handled` carry the exception *)
(* (rimera-runtime).                                                       *)
(*                                                                         *)
(* A behaviour runs one of Functions while the environment chooses what    *)
(* every call, condition, match and resumption does; `trace` records these *)
(* choices and the values each was made with.  The meaning of the source   *)
(* (Execution) reads the same choices, and the two must never disagree on  *)
(* what happens next.                                                      *)
(***************************************************************************)
EXTENDS Lowering

CONSTANTS
    Functions,   \* a sequence of compiled programs, each Compiled(...)
    Meaning(_, _),  \* what a program does under a sequence of choices (Execution)
    MaxRepeat,   \* bound: how often one label may continue a loop
    Exposed      \* behaviours of the environment that are explored:
                 \*   "condition_fails"  __bool__ of a condition raises
                 \*   "pending_effects"  operations run while an exception is
                 \*                      pending fail by message, or raise and
                 \*                      catch an exception of their own
                 \*   "closed_delegate"  the delegate of a suspended await raises
                 \*                      out of its close
                 \*   "exhausted_split"  an except* handler takes all that is
                 \*                      left before the last handler
                 \*   "unbound_name"     the name of a handler of a module or class
                 \*                      is no longer bound when the handler ends

ASSUME ControlFlowAssumption ==
    /\ Len(Functions) > 0
    /\ MaxRepeat \in Nat \ {0}
    /\ Exposed \subseteq {"condition_fails", "pending_effects", "closed_delegate", "exhausted_split",
                          "unbound_name"}

\* The functions, named so that TLC evaluates them once.
Program == Functions

-----------------------------------------------------------------------------
(* Exceptions: the leaves they carry; one that was split off a group knows *)
(* the group.  An exception is named by the choice that raised it.         *)

NoException == [leaves |-> {}, group |-> FALSE, origin |-> <<>>]
Single(n)   == [leaves |-> {<<n, 0>>}, group |-> FALSE, origin |-> <<>>]
GroupOf(n)  == [leaves |-> {<<n, i>> : i \in 1..3}, group |-> TRUE, origin |-> <<>>]

\* split_exception, for a chosen set of matching leaves: parts of a group
\* remember it, a matched plain exception is wrapped.
Divided(e, leaves) ==
    IF leaves = {} THEN NoException
    ELSE [leaves |-> leaves, group |-> TRUE, origin |-> IF e.group THEN <<e>> ELSE <<>>]
Unmatched(e, leaves) ==
    IF leaves = {} /\ ~e.group THEN e ELSE Divided(e, e.leaves \ leaves)

\* combine_exceptions: two parts of one group become the group again.
Combine(a, b) ==
    CASE a.leaves = {} -> b
      [] b.leaves = {} -> a
      [] a.leaves # {} /\ b.leaves # {} /\ a.origin # <<>> /\ a.origin = b.origin -> Head(a.origin)
      [] OTHER -> [leaves |-> a.leaves \cup b.leaves, group |-> TRUE, origin |-> <<>>]

-----------------------------------------------------------------------------
(* Running the blocks.                                                     *)

VARIABLES
    prog,      \* the program that runs
    pc,        \* the block and the position in it
    raised,    \* RimeraContext::raised
    handled,   \* RimeraContext::handled, of this call
    vals,      \* the values that hold exceptions and truths
    alive,     \* the values a collection at any earlier safepoint has kept
    trace,     \* the choices of the environment so far
    status     \* "running", "returned" or "failed"

vars == <<prog, pc, raised, handled, vals, alive, trace, status>>

Block == Program[prog].blocks[pc.b]
AtOperation == status = "running" /\ pc.i <= Len(Block.ops)
AtTerminator == status = "running" /\ pc.i > Len(Block.ops)
Current == Block.ops[pc.i]
Roots == Program[prog].roots[pc.b][pc.i]

Yes == Single(0)

\* Values that nothing was recorded of: None, cells, types.
Value(v) == IF v \in DOMAIN vals THEN vals[v] ELSE NoException
Truth(v) == Value(v).leaves # {}

\* What survives the collection that may happen here.
Kept == IF AtOperation /\ ~IsSafepoint(Current) THEN alive ELSE alive \cap Roots

\* A choice of the environment, with the values it was made with.
Event(l, o, use) ==
    [l |-> l, o |-> o, leaves |-> {}, args |-> [i \in DOMAIN use |-> Value(use[i]).leaves]]
Choose(o) == trace' = Append(trace, Event(Current.l, o, Current.use))
Raised(o, n) == IF o = "group" THEN GroupOf(n) ELSE Single(n)
Times(l) == Cardinality({n \in DOMAIN trace : trace[n].l = l})
Now == Len(trace) + 1

\* emit_status_call: status 0 continues, any other takes the edge of the
\* operation, or leaves the function when there is none.
Proceed(results) ==
    /\ pc' = [pc EXCEPT !.i = @ + 1]
    /\ vals' = [v \in DOMAIN vals \cup (DOMAIN results) |->
                  IF v \in DOMAIN results THEN results[v] ELSE vals[v]]
    /\ alive' = Kept \cup ToSet(Current.def)
    /\ UNCHANGED status

Fail ==
    /\ IF Current.edge # 0
       THEN pc' = [b |-> Current.edge, i |-> 1] /\ UNCHANGED status
       ELSE status' = "failed" /\ UNCHANGED pc
    /\ alive' = Kept
    /\ UNCHANGED vals

NoResult == [v \in {} |-> NoException]
Result(v, e) == [x \in {v} |-> e]

\* with_output: an error message becomes an exception only when none is
\* pending.
Failed(o) ==
    IF o = "fail" /\ raised # NoException THEN raised ELSE Raised(o, Now)

Pending == raised # NoException
Effects == IF Pending /\ "pending_effects" \in Exposed THEN {"fail", "catch"} ELSE {}

\* A call, a lookup, anything that can run Python: "catch" is a callee that
\* raised and handled an exception of its own.
Call ==
    /\ AtOperation /\ Current.op \in {"op", "eval", "raise"}
    /\ \E o \in IF Current.op = "raise" THEN {Current.l[1]} ELSE {"ok", "raise"} \cup Effects :
         /\ Choose(o)
         /\ IF o \in {"ok", "catch"}
            THEN /\ Proceed([v \in ToSet(Current.def) |-> Single(Now)])
                 /\ raised' = IF o = "catch" THEN NoException ELSE raised
            ELSE Fail /\ raised' = Failed(o)
    /\ UNCHANGED <<prog, handled>>

\* Operations that give a truth, the last of their values: IteratorNext,
\* YieldFromNext, CallAwaitReady, ExceptionMatches, the tests of patterns, Is
\* and Not.  "stop" is a Python __next__ whose StopIteration was consumed.
Answers ==
    CASE Current.op = "next"  -> {"end", "raise"} \cup (IF Effects # {} THEN {"stop"} ELSE {})
                                 \cup (IF Times(Current.l) < MaxRepeat THEN {"item"} ELSE {})
      [] Current.op = "drive" -> {"raise"} \cup
                                 (IF Times(Current.l) < 2 * MaxRepeat THEN {"done", "pending"} ELSE {})
      [] Current.op = "ready" -> {"done", "miss", "raise"}
      [] Current.op = "match" -> {"match", "nomatch"} \cup (Effects \ {"catch"})
      [] Current.op = "extract" -> {"match", "nomatch", "raise"}
      [] Current.op = "is"    -> {"true", "false"}
      [] Current.op = "not"   -> {"true", "false", "raise"}

Test ==
    /\ AtOperation /\ Current.op \in {"next", "drive", "ready", "match", "extract", "is", "not"}
    /\ \E o \in Answers :
         /\ Choose(o)
         /\ IF o \in {"raise", "fail"}
            THEN Fail /\ raised' = Failed(o)
            ELSE /\ Proceed([v \in ToSet(Current.def) |->
                               IF v # Last(Current.def) THEN Single(Now)
                               ELSE IF o \in {"item", "done", "match", "true"} THEN Yes
                               ELSE NoException])
                 /\ raised' = IF o = "stop" THEN NoException ELSE raised
    /\ UNCHANGED <<prog, handled>>

\* rimera_exception_split; None cannot be split.
Split ==
    /\ AtOperation /\ Current.op = "split"
    /\ LET rest == Value(Current.use[1]) IN
       \/ /\ rest = NoException
          /\ Choose("nothing") /\ Fail /\ raised' = Failed("fail")
       \/ \E leaves \in SUBSET rest.leaves :
            /\ rest # NoException
            /\ leaves = rest.leaves => \/ Current.l[1] = "last"
                                      \/ "exhausted_split" \in Exposed
            /\ trace' = Append(trace, [Event(Current.l, "parts", Current.use) EXCEPT !.leaves = leaves])
            /\ Proceed([v \in ToSet(Current.def) |->
                          IF v = Current.def[1] THEN Divided(rest, leaves)
                          ELSE Unmatched(rest, leaves)])
            /\ UNCHANGED raised
    /\ UNCHANGED <<prog, handled>>

\* The name of a handler: locals and cells are set and cleared without fail; a
\* global or class variable that is gone is a NameError, which takes the place
\* of an exception that is pending.
HandlerName ==
    /\ AtOperation /\ Current.op \in {"name", "forget"}
    /\ \E o \in {"ok"} \cup (IF /\ Current.op = "forget" /\ Program[prog].scope # "function"
                                /\ "unbound_name" \in Exposed
                             THEN {"raise"} ELSE {}) :
         /\ Choose(o)
         /\ IF o = "ok" THEN Proceed(NoResult) /\ UNCHANGED raised
            ELSE Fail /\ raised' = Single(Now)
    /\ UNCHANGED <<prog, handled>>

\* What operations on values that ask nothing of the environment define.  A
\* record is a set of pairs of a name and what it holds.
Computed ==
    LET source == Value(Current.use[1]) IN
    CASE Current.op = "cell"  -> Result(Current.def[1], NoException)
      [] Current.op = "copy"  -> Result(Current.def[1], source)
      [] Current.op = "store" -> Result(Current.use[1], Value(Current.use[2]))
      [] Current.op = "combine" -> Result(Current.def[1], Combine(source, Value(Current.use[2])))
      [] Current.op = "join"  ->
           Result(Current.def[1], [NoException EXCEPT !.leaves =
                                     source.leaves \cup Value(Current.use[2]).leaves])
      [] Current.op = "element" ->
           Result(Current.def[1], [NoException EXCEPT !.leaves = Element(source.leaves, Current.l[2])])
      [] Current.op = "record" ->
           Result(Current.use[1],
                  [NoException EXCEPT !.leaves = {x \in source.leaves : x[1] # Current.l[2]}
                                                    \cup {<<Current.l[2], Value(Current.use[2]).leaves>>}])
      [] Current.op = "fetch" ->
           Result(Current.def[1], [NoException EXCEPT !.leaves =
                                     UNION {x[2] : x \in {y \in source.leaves : y[1] = Current.l[2]}}])
      [] OTHER -> NoResult

Silent ==
    /\ AtOperation
    /\ Current.op \in {"const", "load", "new", "cell", "copy", "store", "combine", "join", "element",
                       "record", "fetch"}
    /\ Proceed(Computed)
    /\ UNCHANGED <<prog, raised, handled, trace>>

ExceptionActive ==
    /\ AtOperation /\ Current.op = "active"
    /\ IF Pending THEN Proceed(Result(Current.def[1], raised)) ELSE Fail
    /\ UNCHANGED <<prog, raised, handled, trace>>

ExceptionSetActive ==
    /\ AtOperation /\ Current.op = "set"
    /\ raised' = Value(Current.use[1])
    /\ Proceed(NoResult)
    /\ UNCHANGED <<prog, handled, trace>>

ExceptionClearActive ==
    /\ AtOperation /\ Current.op = "clear"
    /\ raised' = NoException
    /\ Proceed(NoResult)
    /\ UNCHANGED <<prog, handled, trace>>

HandlerEnter ==
    /\ AtOperation /\ Current.op = "enter"
    /\ IF Pending
       THEN /\ handled' = Append(handled, raised) /\ raised' = NoException
            /\ Proceed(Result(Current.def[1], raised))
       ELSE Fail /\ UNCHANGED <<raised, handled>>
    /\ UNCHANGED <<prog, trace>>

HandlerLeave ==
    /\ AtOperation /\ Current.op = "leave"
    /\ IF handled # <<>>
       THEN handled' = Front(handled) /\ Proceed(NoResult)
       ELSE Fail /\ UNCHANGED handled
    /\ UNCHANGED <<prog, raised, trace>>

Propagate ==
    /\ AtOperation /\ Current.op = "propagate"
    /\ Fail
    /\ UNCHANGED <<prog, raised, handled, trace>>

\* A bare raise takes the innermost handled exception.
ReraiseActive ==
    /\ AtOperation /\ Current.op = "reraise"
    /\ IF handled # <<>>
       THEN raised' = Last(handled) /\ UNCHANGED trace
       ELSE Choose("raise") /\ raised' = Raised("raise", Now)
    /\ Fail
    /\ UNCHANGED <<prog, handled>>

\* Entering target i of the terminator; its parameters get the arguments.
Enter(i, kept) ==
    LET t == Block.term.to[i]
        params == Program[prog].blocks[t].params
        args == Block.term.args[i]
    IN  /\ pc' = [b |-> t, i |-> 1]
        /\ alive' = kept \cup ToSet(params)
        /\ vals' = [v \in DOMAIN vals \cup ToSet(params) |->
                      IF v \in ToSet(params) THEN Value(args[CHOOSE n \in DOMAIN params : params[n] = v])
                      ELSE vals[v]]

Jump ==
    /\ AtTerminator /\ Block.term.k = "jump"
    /\ Enter(1, alive)
    /\ UNCHANGED <<prog, raised, handled, trace, status>>

\* A choice that the terminator leads to.
Answered(o, use) == trace' = Append(trace, Event(Block.term.l, o, use))

\* An exception with no edge to take leaves the function.
Escape(use) ==
    /\ Answered("raise", use)
    /\ raised' = Single(Now)
    /\ status' = "failed"
    /\ UNCHANGED <<pc, vals>>

\* A branch whose truth is asked of the object; when __bool__ raises, control
\* leaves the function: branches have no exception edge.
Condition ==
    /\ AtTerminator /\ Block.term.k = "branch" /\ Block.term.l[1] = "if"
    /\ LET condition == <<Head(Block.term.use)>> IN
       \/ \E o \in {"false"} \cup (IF Times(Block.term.l) < MaxRepeat THEN {"true"} ELSE {}) :
             /\ Answered(o, condition)
             /\ Enter(IF o = "true" THEN 1 ELSE 2, Kept)
             /\ UNCHANGED <<raised, status>>
       \/ /\ "condition_fails" \in Exposed
          /\ Escape(condition)
          /\ alive' = Kept
    /\ UNCHANGED <<prog, handled>>

\* A branch on a truth the runtime produced.
Decide ==
    /\ AtTerminator /\ Block.term.k = "branch" /\ Block.term.l[1] # "if"
    /\ Enter(IF Truth(Block.term.use[1]) THEN 1 ELSE 2, Kept)
    /\ UNCHANGED <<prog, raised, handled, trace, status>>

\* Suspension and the resumption that follows: the frame is left and entered
\* again with what was saved in its slots; an injected exception takes the
\* edge of the suspension.  An exception out of a delegate's close is the
\* status of rimera_generator_delegate_resume and takes no edge.
Suspend ==
    /\ AtTerminator /\ Block.term.k \in {"yield", "await"}
    /\ LET kept == Kept \cap Program[prog].slots
           resumed == Program[prog].blocks[Block.term.to[1]].params
       IN
       \/ /\ Answered("ok", Block.term.use)
          /\ pc' = [b |-> Block.term.to[1], i |-> 1]
          /\ alive' = kept \cup ToSet(resumed)
          /\ vals' = [v \in DOMAIN vals \cup ToSet(resumed) |->
                        IF v \in ToSet(resumed) THEN Single(Now) ELSE vals[v]]
          /\ UNCHANGED <<raised, status>>
       \/ /\ Block.term.exc # 0
          /\ Answered("raise", Block.term.use)
          /\ raised' = Single(Now)
          /\ pc' = [b |-> Block.term.exc, i |-> 1]
          /\ alive' = kept
          /\ UNCHANGED <<vals, status>>
       \/ /\ \/ Block.term.exc = 0
             \/ Len(Block.term.use) = 2 /\ "closed_delegate" \in Exposed
          /\ Escape(Block.term.use)
          /\ alive' = kept
    /\ UNCHANGED <<prog, handled>>

LeaveFunction ==
    /\ AtTerminator /\ Block.term.k = "return"
    /\ status' = "returned"
    /\ UNCHANGED <<prog, pc, raised, handled, vals, alive, trace>>

Ended == status # "running" /\ UNCHANGED vars

Init ==
    /\ prog \in DOMAIN Program
    /\ pc = [b |-> 1, i |-> 1]
    /\ raised = NoException
    /\ handled = <<>>
    /\ vals = NoResult
    /\ alive = ToSet(Program[prog].params)
    /\ trace = <<>>
    /\ status = "running"

Next ==
    \/ Call \/ Test \/ Split \/ HandlerName \/ Silent
    \/ ExceptionActive \/ ExceptionSetActive \/ ExceptionClearActive
    \/ HandlerEnter \/ HandlerLeave \/ Propagate \/ ReraiseActive
    \/ Jump \/ Condition \/ Decide \/ Suspend \/ LeaveFunction
    \/ Ended

Spec == Init /\ [][Next]_vars

-----------------------------------------------------------------------------
(* Properties.                                                             *)

\* The type invariant: the program counter is in the code of the program and
\* the two exception registers hold exceptions.
TypeOK ==
    /\ prog \in DOMAIN Program
    /\ pc.b \in DOMAIN Program[prog].blocks
    /\ pc.i \in 1..Len(Block.ops) + 1
    /\ status \in {"running", "returned", "failed"}
    /\ \A i \in DOMAIN handled : handled[i].leaves # {}
    /\ alive \subseteq 1..Program[prog].values

\* What the function gives to its caller.
Given == UNION {Value(v).leaves : v \in ToSet(Block.term.use)}

\* The compiled function does what its source says (spec/architecture.md,
\* "Control flow, exceptions, and cleanup"): every call, test, binding and
\* resumption is the next one of the source, made with the same values, no
\* cleanup is skipped or run twice, and the function ends the way the source
\* ends, with the same result or the same exceptions.
FollowsSource ==
    LET m == Meaning(Program[prog], trace) IN
    /\ m.out # "wrong"
    /\ m.out # "more" => m.pos = Len(trace) + 1
    /\ status = "returned" => \/ m.out = "normal" /\ Given = {}
                              \/ m.out = "return" /\ Given = m.val
    /\ status = "failed"   => m.out = "raise" /\ m.exc = raised.leaves

\* The verifier accepts what the lowerer made, and no value that an operation
\* or terminator uses was left out of the roots of a safepoint, or of the slots
\* of a suspension, before it (safepoint_plan, generator_persistent_values): on
\* exception edges, around loops and through cleanup copies.
NoSweptUse ==
    /\ Program[prog].accepted
    /\ status = "running" =>
         ToSet(IF AtOperation THEN Current.use ELSE Block.term.use) \subseteq alive
=============================================================================
