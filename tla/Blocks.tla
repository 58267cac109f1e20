------------------------------- MODULE Blocks -------------------------------
(***************************************************************************)
(* The MIR of one function (rimera-compiler, mir) and the state of the     *)
(* lowerer that builds it (lower): basic blocks of operations, each with   *)
(* the block that takes its exceptions, and a terminator.                  *)
(*                                                                         *)
(* An operation carries a label, the values it defines and those it uses.  *)
(***************************************************************************)
EXTENDS Integers, Sequences, FiniteSets, SequencesExt

\* Block 1 is the entry; edge 0 leaves the function.
Op(kind, l, def, use) ==
    [op |-> kind, l |-> l, def |-> def, use |-> use, edge |-> 0]

\* args: for each target, the values that become its parameters.
Unreachable ==
    [k |-> "unreachable", l |-> <<"", 0>>, use |-> <<>>, to |-> <<>>, args |-> <<>>, exc |-> 0]
Goto(t)     == [Unreachable EXCEPT !.k = "jump", !.to = <<t>>, !.args = <<<<>>>>]
GotoWith(t, v) == [Goto(t) EXCEPT !.args = <<<<v>>>>, !.use = <<v>>]
ReturnOf(vs) == [Unreachable EXCEPT !.k = "return", !.use = vs]
BranchWith(l, v, t, targs, e, eargs) ==
    [Unreachable EXCEPT !.k = "branch", !.l = l, !.use = <<v>> \o targs \o eargs,
                        !.to = <<t, e>>, !.args = <<targs, eargs>>]
Branch(l, v, t, e) == BranchWith(l, v, t, <<>>, e, <<>>)

EmptyBlock == [params |-> <<>>, ops |-> <<>>, term |-> Unreachable]

\* The state of the lowerer of a "function", "class" or "module": the values
\* allocated so far and the result of the last expression.
NewLowerer(scope) ==
    [blocks |-> <<EmptyBlock>>, cur |-> 1, target |-> 0, values |-> 0, result |-> 0,
     params |-> <<>>, cleanups |-> <<>>, loops |-> <<>>, scope |-> scope]

NewBlocks(c, n) == [c EXCEPT !.blocks = @ \o [i \in 1..n |-> EmptyBlock]]
NextBlock(c)    == Len(c.blocks) + 1
NextValue(c)    == c.values + 1
At(c, b, target) == [c EXCEPT !.cur = b, !.target = target]
Open(c)         == c.blocks[c.cur].term.k = "unreachable"

\* The next value becomes a parameter of block b.
Parameter(c, b) == [c EXCEPT !.blocks[b].params = Append(@, NextValue(c)), !.values = @ + 1]

\* emit: the operation gets the edge to the current exception target.
Emit(c, op) ==
    [c EXCEPT !.blocks[c.cur].ops = Append(@, [op EXCEPT !.edge = c.target]),
              !.values = IF op.def = <<>> THEN @ ELSE Last(op.def),
              !.result = IF op.def = <<>> THEN @ ELSE Last(op.def)]

\* terminate: refused when the block has a terminator already.
Terminate(c, t) ==
    [c EXCEPT !.blocks[c.cur].term = IF Open(c) THEN t ELSE [@ EXCEPT !.k = "twice"]]

JumpIfOpen(c, t) == IF Open(c) THEN Terminate(c, Goto(t)) ELSE c

Simple(kind, l) == Op(kind, <<kind, l>>, <<>>, <<>>)

\* An operation that can run Python, with and without a result.
Eval(c, kind, l, use) == Emit(c, Op("eval", <<kind, l>>, <<NextValue(c)>>, use))
Perform(c, kind, l, use) == Emit(c, Op("eval", <<kind, l>>, <<>>, use))
Constant(c) == Emit(c, Op("const", <<"const", 0>>, <<NextValue(c)>>, <<>>))

-----------------------------------------------------------------------------
(* The verifier of mir, for what the model keeps of a function.            *)

Successors(t) == ToSet(t.to) \cup ({t.exc} \ {0})

\* verify_edge: every target exists and gets a value for each parameter.
EdgeFits(code, t, arguments) ==
    t \in DOMAIN code /\ Len(arguments) = Len(code[t].params)

\* verify_resume_edge: the block a suspension resumes in defines one value,
\* the one it is resumed with, or none.
ResumeFits(code, t) ==
    /\ Len(code[t.to[1]].params) <= 1
    /\ t.exc # 0 => EdgeFits(code, t.exc, <<>>)

\* verify_terminator: only a generator yields, only a coroutine awaits.
TerminatorFits(code, t, kind) ==
    CASE t.k \in {"unreachable", "twice"} -> FALSE
      [] t.k \in {"jump", "branch"} -> \A i \in DOMAIN t.to : EdgeFits(code, t.to[i], t.args[i])
      [] t.k = "yield" -> kind \in {"generator", "async generator"} /\ ResumeFits(code, t)
      [] t.k = "await" -> kind \in {"coroutine", "async generator"} /\ ResumeFits(code, t)
      [] t.k = "return" -> TRUE

\* verify, for the exception edges of the operations.
EdgesExist(code) ==
    \A b \in DOMAIN code : \A i \in DOMAIN code[b].ops :
        code[b].ops[i].edge \in 0..Len(code)

\* verify_function: every allocated value is defined once, and what is used
\* was allocated.
Verifies(c, kind) ==
    LET code == c.blocks
        defs == c.params \o FlattenSeq([b \in DOMAIN code |->
                   code[b].params \o FlattenSeq([i \in DOMAIN code[b].ops |-> code[b].ops[i].def])])
        uses == UNION {ToSet(code[b].term.use) \cup
                       UNION {ToSet(code[b].ops[i].use) : i \in DOMAIN code[b].ops} : b \in DOMAIN code}
    IN  /\ \A b \in DOMAIN code : TerminatorFits(code, code[b].term, kind)
        /\ EdgesExist(code)
        /\ IsInjective(defs)
        /\ ToSet(defs) = 1..c.values
        /\ uses \subseteq 1..c.values
=============================================================================
