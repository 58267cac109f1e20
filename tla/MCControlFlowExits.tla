------------------------- MODULE MCControlFlowExits -------------------------
(* Bodies in which `if c: break` (return) is followed by statements of the   *)
(* same region: a finally, an except clause, a handler and a with.           *)
EXTENDS ControlFlow, Execution

EarlyExit == LET bodies == <<
    <<For(1, <<Try(<<If(2, <<Break>>, <<>>), Do(3)>>, <<>>, <<>>, <<Do(4)>>)>>, <<>>)>>,
    <<Try(<<If(1, <<Return>>, <<Do(2)>>)>>, <<ExceptAll(3, <<Do(4)>>)>>, <<>>, <<>>)>>,
    <<Try(<<Raise(1)>>, <<ExceptAll(2, <<If(3, <<Return>>, <<>>), Do(4)>>)>>, <<>>, <<>>)>>,
    <<With(1, <<If(2, <<Return>>, <<>>), Do(3)>>)>> >>
             IN  [i \in DOMAIN bodies |-> Compiled("function", TRUE, bodies[i])]

=============================================================================
