----------------------------- MODULE MCModuleImport -----------------------------
(* A package with a module in it, a namespace and a module of the runtime.  *)
EXTENDS ModuleImport

P == <<"p">>
PQ == <<"p", "q">>
N == <<"n">>
NS == <<"n", "s">>
Unknown == <<"u">>

MostDefinitions == (P :> "package") @@ (PQ :> "source") @@ (N :> "namespace") @@ (NS :> "shell")
MostStatements ==
  [form : {"plain", "alias", "star"}, name : {PQ}, item : {"v"}]
    \cup [form : {"from", "call"}, name : {P}, item : {"q"}]
    \cup [form : {"from"}, name : {PQ}, item : {"v"}]
    \cup [form : {"plain"}, name : {P}, item : {"v"}]
    \cup [form : {"from"}, name : {N}, item : {"s"}]
    \cup [form : {"plain"}, name : {Unknown}, item : {"v"}]
=============================================================================
