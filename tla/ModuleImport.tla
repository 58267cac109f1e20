----------------------------- MODULE ModuleImport -----------------------------
(***************************************************************************)
(* Imports (crates/rimera-runtime/src/context.rs, call.rs, ffi.rs,         *)
(* module_registry.rs and lower_import in the compiler's lower/mod.rs).    *)
(*                                                                         *)
(* The bodies of modules run inside each other: an import statement of a   *)
(* body calls builtins.__import__, which imports the prefixes of a dotted  *)
(* name one after the other and runs the initializer of each module that   *)
(* sys.modules does not have.  sys.modules is an ordinary dictionary that   *)
(* every body may change.  A body here is any sequence of statements; what *)
(* it does besides imports is to assign attributes and to change           *)
(* sys.modules.  An import allocates between its look into sys.modules and  *)
(* the entry it makes there, and again before it publishes the module in    *)
(* its parent: the collection that the allocation triggers runs hooks of    *)
(* the program (__del__, weakref callbacks), which import as well.          *)
(***************************************************************************)
EXTENDS Integers, Sequences, SequencesExt, FiniteSets, FiniteSetsExt, Functions

CONSTANTS
  Definitions,   \* canonical name -> "package", "source", "namespace" or "shell"
  Statements,    \* the statements that bodies execute
  MaxModules,    \* module objects allocated
  MaxStatements, \* statements executed
  MaxRefusals,   \* allocations refused by the heap limit
  MaxHooks       \* hooks running inside each other

VARIABLES
  modules,     \* the module objects: name, state and attributes
  cache,       \* sys.modules
  bodies,      \* the running bodies, imports and hooks, innermost last
  namespaces,  \* context.module_namespaces
  executed, refusals,
  changed,     \* names whose entry in sys.modules a body has changed
  assigned,    \* names of modules whose attribute in their parent a body has assigned,
               \* itself or through an entry of sys.modules that it changed
  overtaken    \* names that a hook entered in sys.modules while their import was
               \* between its look there and its own entry

vars == <<modules, cache, bodies, namespaces, executed, refusals, changed, assigned, overtaken>>

Names == DOMAIN Definitions
None == 0
Value == -1     \* any object that is no module
Main == 1       \* the program's own namespace

Modules == 1 .. Len(modules)
Components == {Last(n) : n \in Names} \cup {Head(n) : n \in Names}
Parent(n) == Front(n)
IsChild(n) == Len(n) > 1
IsModule(v) == v \in Modules
IsPackage(v) == IsModule(v) /\ modules[v].package

(* Dotted names.  The registry has no `__main__`: it is the entry module.   *)
Dotted == Seq(STRING) \ {<<>>}
Form == {"plain", "alias", "from", "star", "call"}
Kind == {"package", "source", "namespace", "shell"}

ASSUME ConstantsAssumption ==
  /\ Names \subseteq Dotted /\ Range(Definitions) \subseteq Kind
  /\ <<"__main__">> \in Dotted \ Names
  /\ Statements \subseteq [form : Form, name : Dotted, item : STRING]

Nothing == [key \in {} |-> None]

(* The value of a module's attribute; Missing when there is none. *)
Missing == -2
Attribute(v, c) ==
  IF IsModule(v) /\ c \in DOMAIN modules[v].attributes THEN modules[v].attributes[c] ELSE Missing
Without(f, key) == Restrict(f, DOMAIN f \ {key})
With(f, key, v) == [k \in DOMAIN f \cup {key} |-> IF k = key THEN v ELSE f[k]]
Overlaid(f, g) == [k \in DOMAIN f \cup DOMAIN g |-> IF k \in DOMAIN g THEN g[k] ELSE f[k]]
SetAttribute(ms, v, c, value) == [ms EXCEPT ![v].attributes = With(@, c, value)]

-----------------------------------------------------------------------------
(* What the innermost body is doing *)

Idle == [at |-> "idle"]
Raised == [at |-> "raised"]

(* The components that lower_import reads, one as an attribute of the other. *)
Reads(s) == IF s.form \in {"plain", "alias", "from", "star"} THEN Tail(s.name) ELSE <<>>

(* In the middle of an import statement: the names still to import, the     *)
(* definition that the compiler gave for them, if any, the value of the     *)
(* last one imported, how far lower_import has read from there, and the     *)
(* package whose submodules the names are.                                 *)
Importing(statement, todo, given, package) ==
  [at |-> "importing", statement |-> statement, todo |-> todo, given |-> given,
   value |-> None, leaf |-> None, unread |-> Reads(statement), package |-> package]

(* The import of one module, before the module is in sys.modules. *)
Creating(n, definition) == [at |-> "creating", name |-> n, definition |-> definition]

Depth == Len(bodies)
Body == bodies[Depth]
Innermost(calls, doing) == [calls EXCEPT ![Len(calls)].doing = doing]
Now(doing) == Innermost(bodies, doing)
Raise == bodies' = Now(Raised)

(* The body inside ended: the import it was for yields a value, or raises.  *)
Received(doing, v) ==
  IF doing.at = "importing"
  THEN [doing EXCEPT !.value = v, !.leaf = v, !.todo = Tail(doing.todo)]
  ELSE Idle
Yields(rest, v) == Innermost(rest, Received(Last(rest).doing, v))
Fails(rest) == Innermost(rest, Raised)

-----------------------------------------------------------------------------
(* Publication *)

(* publish_module_to_parent finds the parent in sys.modules. *)
ParentIsThere(ch, n) ==
  IsChild(n) => Parent(n) \in DOMAIN ch /\ IsModule(ch[Parent(n)])

(* It then is to set the attribute of that parent.  A new attribute makes   *)
(* the namespace grow, which may collect or be refused.  The stage says     *)
(* what comes after: a body, nothing for a module without one, and nothing  *)
(* when the body is done.                                                  *)
Publishing(ch, n, v, stage) ==
  LET into == IF IsChild(n) THEN ch[Parent(n)] ELSE None IN
  [at |-> "publishing", into |-> into, value |-> v, stage |-> stage,
   grows |-> IsChild(n) /\ Attribute(into, Last(n)) = Missing]

(* Mutant: the parent is not told. *)
NotTold(ms, into, n, v) == ms

(* publish_module_to_parent sets it. *)
Publish(ms, into, n, v) == IF IsChild(n) THEN SetAttribute(ms, into, Last(n), v) ELSE ms

(* Mutant: the module stays an attribute of its parent. *)
Forget(ms, ch, n, v) == ms

(* remove_module_from_parent_if: looks the parent up in sys.modules again. *)
RemoveFromParent(ms, ch, n, v) ==
  IF IsChild(n) /\ Parent(n) \in DOMAIN ch /\ IsModule(ch[Parent(n)])
     /\ Attribute(ch[Parent(n)], Last(n)) = v
  THEN [ms EXCEPT ![ch[Parent(n)]].attributes = Without(@, Last(n))]
  ELSE ms

(* remove_cached_module_if *)
RemoveCached(ch, n, v) == IF n \in DOMAIN ch /\ ch[n] = v THEN Without(ch, n) ELSE ch

(* A publication that is not of the module itself in its own parent, because *)
(* the program changed an entry of sys.modules, assigns an attribute for it. *)
Strays(into, n, replaced) ==
  IF IsChild(n) /\ (replaced \/ modules[into].name # Parent(n))
  THEN {Append(modules[into].name, Last(n))} ELSE {}

NewModule(n, state, definition) ==
  [name |-> n, state |-> state, package |-> definition \in {"package", "namespace"}, attributes |-> Nothing]

(* Mutant: a failure is not recorded. *)
MovedOn(ms, v, state) == IF state = "failed" THEN ms ELSE [ms EXCEPT ![v].state = state]

(* transition_module *)
Moved(ms, v, state) == [ms EXCEPT ![v].state = state]

-----------------------------------------------------------------------------
(* Statements *)

(* `import a.b`, `import a.b as v`, `from a.b import v`, `from a.b import *` *)
(* and `__import__("a.b", fromlist = ["v"])`.  The names that the call of   *)
(* __import__ imports: the prefixes of the name, and the first of them      *)
(* again if it is the result (import_builtin_target).                      *)
PrefixesOf(n) == [k \in 1 .. Len(n) |-> SubSeq(n, 1, k)]
Wanted(s) == IF s.form = "call" THEN PrefixesOf(s.name) ELSE Append(PrefixesOf(s.name), <<Head(s.name)>>)

Executes(doing) ==
  /\ Depth > 0 /\ Body.doing = Idle
  /\ executed < MaxStatements
  /\ executed' = executed + 1
  /\ bodies' = Now(doing)

(* lower_import, rimera_import_dispatch.  A function, as a hook is, has no  *)
(* star import.                                                            *)
StartImport(s) ==
  /\ s.form = "star" => Depth > 0 /\ Body.for # "hook"
  /\ Executes(Importing(s, Wanted(s), "registered", None))
  /\ UNCHANGED <<modules, cache, namespaces, refusals, changed, assigned, overtaken>>

StatementRaises ==
  /\ Executes(Raised)
  /\ UNCHANGED <<modules, cache, namespaces, refusals, changed, assigned, overtaken>>

(* A body assigns or deletes an attribute, of its own module or of another. *)
AssignAttribute(v, c) ==
  /\ Executes(Idle)
  /\ modules' = SetAttribute(modules, v, c, Value)
  /\ assigned' = assigned \cup {Append(modules[v].name, c)}
  /\ UNCHANGED <<cache, namespaces, refusals, changed, overtaken>>

DeleteAttribute(v, c) ==
  /\ Executes(Idle)
  /\ Attribute(v, c) # Missing
  /\ modules' = [modules EXCEPT ![v].attributes = Without(@, c)]
  /\ assigned' = assigned \cup {Append(modules[v].name, c)}
  /\ UNCHANGED <<cache, namespaces, refusals, changed, overtaken>>

(* sys.modules[n] = v and del sys.modules[n] *)
AssignCache(n, v) ==
  /\ Executes(Idle)
  /\ cache' = With(cache, n, v)
  /\ changed' = changed \cup {n}
  /\ UNCHANGED <<modules, namespaces, refusals, assigned, overtaken>>

DeleteCache(n) ==
  /\ Executes(Idle)
  /\ n \in DOMAIN cache
  /\ cache' = Without(cache, n)
  /\ changed' = changed \cup {n}
  /\ UNCHANGED <<modules, namespaces, refusals, assigned, overtaken>>

(* A body handles the exception, or ends with it (FinishBody). *)
Handle ==
  /\ Depth > 0 /\ Body.doing = Raised
  /\ bodies' = Now(Idle)
  /\ UNCHANGED <<modules, cache, namespaces, executed, refusals, changed, assigned, overtaken>>

-----------------------------------------------------------------------------
(* import_registered *)

(* The module is in sys.modules, or None is. *)
ImportCached(n) ==
  /\ n \in DOMAIN cache
  /\ bodies' = IF cache[n] = None THEN Now(Raised) ELSE Yields(bodies, cache[n])
  /\ UNCHANGED <<modules, cache, namespaces, executed, refusals, changed, assigned, overtaken>>

(* import_name: no such module *)
ImportUnknown(n) ==
  /\ n \notin DOMAIN cache \cup Names /\ Body.doing.given = "registered"
  /\ Raise
  /\ UNCHANGED <<modules, cache, namespaces, executed, refusals, changed, assigned, overtaken>>

(* import_source, import_namespace, and import_name for the modules that the *)
(* runtime provides: the module is not in sys.modules.                     *)
BeginImport(n) ==
  /\ n \notin DOMAIN cache
  /\ \E definition \in Kind :
       /\ IF Body.doing.given = "registered" THEN n \in Names /\ definition = Definitions[n]
                                             ELSE definition = Body.doing.given
       /\ bodies' = Append(bodies, [module |-> None, for |-> "import", doing |-> Creating(n, definition)])
  /\ UNCHANGED <<modules, cache, namespaces, executed, refusals, changed, assigned, overtaken>>

Creates == Depth > 0 /\ Body.doing.at = "creating"
Publishes == Depth > 0 /\ Body.doing.at = "publishing"

(* The heap limit refuses the module, its metadata or its cache entry: the  *)
(* module object, if there is one already, stays as it is (a module of the  *)
(* runtime has failed if its metadata were refused).                       *)
ImportRefused ==
  /\ Creates
  /\ refusals < MaxRefusals /\ refusals' = refusals + 1
  /\ \/ UNCHANGED modules
     \/ \E state \in {"initializing", "failed"} :
          /\ state = "failed" => Body.doing.definition = "shell"
          /\ Len(modules) < MaxModules
          /\ modules' = Append(modules, NewModule(Body.doing.name, state, Body.doing.definition))
  /\ bodies' = Fails(Front(bodies))
  /\ UNCHANGED <<cache, namespaces, executed, changed, assigned, overtaken>>

(* Mutant: the module is only cached when its body is done. *)
CacheLater(n, v) == cache

(* cache_module: it replaces what a hook has entered since. *)
CacheNow(n, v) == With(cache, n, v)

(* The module is in sys.modules before its body runs. *)
CacheModule ==
  /\ Creates /\ Len(modules) < MaxModules
  /\ LET n == Body.doing.name
         definition == Body.doing.definition
         v == Len(modules) + 1
         held == CacheNow(n, v) IN
     /\ overtaken' = overtaken \cup ({n} \cap DOMAIN cache)
     /\ \/ /\ ParentIsThere(held, n)
           /\ modules' = Append(modules, NewModule(n, "initializing", definition))
           /\ cache' = held
           /\ bodies' = Append(Front(bodies),
                [module |-> v, for |-> "import", doing |->
                   Publishing(held, n, v, IF definition \in {"package", "source"} THEN "body" ELSE "bare")])
        \* There is no parent: the module failed and leaves sys.modules.
        \/ /\ ~ParentIsThere(held, n)
           /\ modules' = Append(modules, NewModule(n, "failed", definition))
           /\ cache' = RemoveCached(held, n, v)
           /\ bodies' = Fails(Front(bodies))
  /\ UNCHANGED <<namespaces, executed, refusals, changed, assigned>>

(* The module is in its parent, before its body runs; or it has none left to *)
(* run, and is ready.                                                      *)
PublishModule ==
  /\ Publishes
  /\ LET v == Body.module
         n == modules[v].name
         doing == Body.doing
         published == Publish(modules, doing.into, n, doing.value) IN
     /\ assigned' = assigned \cup Strays(doing.into, n, doing.value # v)
     /\ \/ /\ doing.stage = "body"
           /\ modules' = published
           /\ bodies' = Now(Idle)
           /\ namespaces' = Append(namespaces, v)
        \/ /\ doing.stage # "body"
           /\ modules' = Moved(published, v, "ready")
           /\ bodies' = Yields(Front(bodies), doing.value)
           /\ UNCHANGED namespaces
  /\ UNCHANGED <<cache, executed, refusals, changed, overtaken>>

(* The heap limit refuses the attribute. *)
PublicationRefused ==
  /\ Publishes /\ Body.doing.grows
  /\ refusals < MaxRefusals /\ refusals' = refusals + 1
  /\ LET v == Body.module
         n == modules[v].name
         failed == Moved(modules, v, "failed") IN
     /\ cache' = RemoveCached(cache, n, v)
     /\ modules' = IF Body.doing.stage = "done" THEN RemoveFromParent(failed, cache', n, v) ELSE failed
  /\ bodies' = Fails(Front(bodies))
  /\ UNCHANGED <<namespaces, executed, changed, assigned, overtaken>>

(* import_source once the initializer returned Ok: what is in sys.modules   *)
(* now is published, and then returned.                                    *)
BodySucceeds ==
  /\ Depth > 1 /\ Body.doing = Idle /\ Body.for = "import"
  /\ namespaces' = Front(namespaces)
  /\ LET v == Body.module
         n == modules[v].name
         failed == Moved(modules, v, "failed") IN
     \/ /\ n \in DOMAIN cache => cache[n] = None
        /\ modules' = RemoveFromParent(failed, cache, n, v)
        /\ bodies' = Fails(Front(bodies))
        /\ UNCHANGED cache
     \/ /\ n \in DOMAIN cache /\ cache[n] # None /\ ~ParentIsThere(cache, n)
        /\ cache' = RemoveCached(cache, n, v)
        /\ modules' = RemoveFromParent(failed, cache', n, v)
        /\ bodies' = Fails(Front(bodies))
     \/ /\ n \in DOMAIN cache /\ cache[n] # None /\ ParentIsThere(cache, n)
        /\ bodies' = Now(Publishing(cache, n, cache[n], "done"))
        /\ UNCHANGED <<modules, cache>>
  /\ UNCHANGED <<executed, refusals, changed, assigned, overtaken>>

(* import_source once the initializer returned an error *)
BodyFails ==
  /\ Depth > 1 /\ Body.doing = Raised /\ Body.for = "import"
  /\ LET v == Body.module
         n == modules[v].name IN
     /\ cache' = RemoveCached(cache, n, v)
     /\ modules' = RemoveFromParent(Moved(modules, v, "failed"), cache', n, v)
  /\ bodies' = Fails(Front(bodies))
  /\ namespaces' = Front(namespaces)
  /\ UNCHANGED <<executed, refusals, changed, assigned, overtaken>>

-----------------------------------------------------------------------------
(* Collections *)

(* An allocation of the import triggers a collection that runs a hook, a    *)
(* function of the program.  A hook that would execute nothing is left out. *)
Collect ==
  /\ Creates \/ (Publishes /\ Body.doing.grows)
  /\ executed < MaxStatements
  /\ Cardinality({k \in 1 .. Depth : bodies[k].for = "hook"}) < MaxHooks
  /\ bodies' = Append(bodies, [module |-> None, for |-> "hook", doing |-> Idle])
  /\ UNCHANGED <<modules, cache, namespaces, executed, refusals, changed, assigned, overtaken>>

(* What it raised is reported, and the import goes on. *)
HookEnds ==
  /\ Depth > 0 /\ Body.for = "hook" /\ Body.doing \in {Idle, Raised}
  /\ bodies' = Front(bodies)
  /\ UNCHANGED <<modules, cache, namespaces, executed, refusals, changed, assigned, overtaken>>

-----------------------------------------------------------------------------
(* reload_module *)

(* It runs the body of the same module again; a module that is being        *)
(* initialized, or failed, cannot move to "initializing".                  *)
Reload(v) ==
  LET n == modules[v].name
      inCache == n \in DOMAIN cache /\ cache[n] = v
      source == n \in Names /\ Definitions[n] \in {"package", "source"} IN
  \/ /\ Executes(Raised)
     /\ \/ ~inCache \/ n \notin Names
        \/ n \in Names /\ Definitions[n] = "shell"
        \/ source /\ modules[v].state # "ready"
     /\ UNCHANGED <<modules, cache, namespaces, refusals, changed, assigned, overtaken>>
  \/ /\ Executes(Idle)
     /\ inCache /\ n \in Names /\ Definitions[n] = "namespace"
     /\ UNCHANGED <<modules, cache, namespaces, refusals, changed, assigned, overtaken>>
  \/ /\ Depth > 0 /\ Body.doing = Idle
     /\ executed < MaxStatements /\ executed' = executed + 1
     /\ inCache /\ source /\ modules[v].state = "ready"
     /\ modules' = Moved(modules, v, "initializing")
     /\ bodies' = Append(Now([at |-> "reloading"]), [module |-> v, for |-> "reload", doing |-> Idle])
     /\ namespaces' = Append(namespaces, v)
     /\ UNCHANGED <<cache, refusals, changed, assigned, overtaken>>

(* Whether the body succeeded or not, the module is ready again. *)
ReloadEnds ==
  /\ Depth > 1 /\ Body.for = "reload" /\ Body.doing.at \in {"idle", "raised"}
  /\ modules' = Moved(modules, Body.module, "ready")
  /\ bodies' = IF Body.doing = Idle THEN Yields(Front(bodies), Body.module) ELSE Fails(Front(bodies))
  /\ namespaces' = Front(namespaces)
  /\ UNCHANGED <<cache, executed, refusals, changed, assigned, overtaken>>

-----------------------------------------------------------------------------
(* The statement goes on with what __import__ returned *)

(* lower_import reads the components of the name after the first as         *)
(* attributes, one of the other.                                           *)
Arrived == Depth > 0 /\ Body.doing.at = "importing" /\ Body.doing.todo = <<>>

ReadAttribute ==
  /\ Arrived /\ Body.doing.unread # <<>>
  /\ LET found == Attribute(Body.doing.leaf, Head(Body.doing.unread)) IN
     bodies' = Now(IF found = Missing THEN Raised
                   ELSE [Body.doing EXCEPT !.leaf = found, !.unread = Tail(@)])
  /\ UNCHANGED <<modules, cache, namespaces, executed, refusals, changed, assigned, overtaken>>

(* Then the statement has its module. *)
Imported(form) == Arrived /\ Body.doing.unread = <<>> /\ Body.doing.statement.form \in form
ImportedLeaf == Body.doing.leaf

(* The namespace that the body's names are stored in. *)
Globals == IF namespaces = <<>> THEN Main ELSE Last(namespaces)

(* A hook has names of its own. *)
Bind(name, v) ==
  /\ \/ /\ Body.for # "hook"
        /\ modules' = SetAttribute(modules, Globals, name, v)
        /\ assigned' = assigned \cup {Append(modules[Globals].name, name)}
     \/ Body.for = "hook" /\ UNCHANGED <<modules, assigned>>
  /\ bodies' = Now(Idle)

(* `import a.b` binds a, although it reads a.b as well. *)
BindTop ==
  /\ Imported({"plain"})
  /\ Bind(Head(Body.doing.statement.name), Body.doing.value)
  /\ UNCHANGED <<cache, namespaces, executed, refusals, changed, overtaken>>

(* `import a.b as v` *)
BindLeaf ==
  /\ Imported({"alias"})
  /\ Bind(Body.doing.statement.item, ImportedLeaf)
  /\ UNCHANGED <<cache, namespaces, executed, refusals, changed, overtaken>>

(* import_from: an attribute of the leaf ... *)
BindItem ==
  /\ Imported({"from"}) /\ Attribute(ImportedLeaf, Body.doing.statement.item) # Missing
  /\ Bind(Body.doing.statement.item, Attribute(ImportedLeaf, Body.doing.statement.item))
  /\ UNCHANGED <<cache, namespaces, executed, refusals, changed, overtaken>>

(* ... or else the module of that name inside the leaf: the compiler gives   *)
(* the definition it has for the statement's name, whatever module the leaf *)
(* is, and the runtime's own modules are asked for by the leaf's name.      *)
Submodule == Append(modules[ImportedLeaf].name, Body.doing.statement.item)
Given ==
  LET n == Append(Body.doing.statement.name, Body.doing.statement.item) IN
  IF n \in Names /\ Definitions[n] # "shell" THEN {Definitions[n]}
  ELSE IF Submodule \in Names /\ Definitions[Submodule] = "shell" THEN {"registered"} ELSE {}
ImportItem ==
  /\ Imported({"from"}) /\ IsModule(ImportedLeaf)
  /\ Attribute(ImportedLeaf, Body.doing.statement.item) = Missing
  /\ LET s == [Body.doing.statement EXCEPT !.form = "item"] IN
     \E given \in Given : bodies' = Now(Importing(s, <<Submodule>>, given, None))
  /\ UNCHANGED <<modules, cache, namespaces, executed, refusals, changed, assigned, overtaken>>

(* import_star without __all__ *)
BindAll ==
  /\ Imported({"star"}) /\ IsModule(ImportedLeaf)
  /\ LET found == modules[ImportedLeaf].attributes IN
     /\ modules' = [modules EXCEPT ![Globals].attributes = Overlaid(@, found)]
     /\ assigned' = assigned \cup {Append(modules[Globals].name, c) : c \in DOMAIN found}
  /\ bodies' = Now(Idle)
  /\ UNCHANGED <<cache, namespaces, executed, refusals, changed, overtaken>>

(* A missing attribute, or what should be a module is none. *)
BindRaises ==
  /\ \/ Imported({"star"}) /\ ~IsModule(ImportedLeaf)
     \/ /\ Imported({"from"}) /\ Attribute(ImportedLeaf, Body.doing.statement.item) = Missing
        /\ IsModule(ImportedLeaf) => Given = {}
  /\ Raise
  /\ UNCHANGED <<modules, cache, namespaces, executed, refusals, changed, assigned, overtaken>>

(* invoke_import: a package's submodules that fromlist names are imported.  *)
CallImportsList ==
  /\ Imported({"call"})
  /\ LET leaf == Body.doing.value
         child == Append(Body.doing.statement.name, Body.doing.statement.item)
         all == Body.doing.statement.item = "*" IN
     IF IsPackage(leaf) /\ ~all /\ child \in Names
     THEN /\ bodies' = Now(Importing([Body.doing.statement EXCEPT !.form = "listed"], <<child>>, "registered", leaf))
          /\ UNCHANGED <<modules, assigned>>
     ELSE Bind(Body.doing.statement.item, leaf)
  /\ UNCHANGED <<cache, namespaces, executed, refusals, changed, overtaken>>

(* The submodule is imported: it is bound, or the package that was called for. *)
BindSubmodule ==
  /\ Imported({"item", "listed"})
  /\ LET s == Body.doing.statement IN
     Bind(s.item, IF s.form = "item" THEN Body.doing.value ELSE Body.doing.package)
  /\ UNCHANGED <<cache, namespaces, executed, refusals, changed, overtaken>>

-----------------------------------------------------------------------------
Init ==
  /\ modules = <<NewModule(<<"__main__">>, "ready", "source")>>
  /\ cache = Nothing
  /\ bodies = <<[module |-> Main, for |-> "main", doing |-> Idle]>>
  /\ namespaces = <<>>
  /\ executed = 0 /\ refusals = 0
  /\ changed = {} /\ assigned = {} /\ overtaken = {}

(* Module objects that a body can get hold of. *)
Held == {v \in Modules : \/ \E n \in DOMAIN cache : cache[n] = v
                         \/ \E w \in Modules : \E c \in DOMAIN modules[w].attributes : modules[w].attributes[c] = v}

Statement ==
  \/ \E s \in Statements : StartImport(s)
  \/ StatementRaises
  \/ \E v \in Held, c \in Components : AssignAttribute(v, c) \/ DeleteAttribute(v, c)
  \/ \E n \in Names : DeleteCache(n) \/ \E v \in Held \cup {None, Value} : AssignCache(n, v)
  \/ \E v \in Held : Reload(v)

Import ==
  /\ Depth > 0 /\ Body.doing.at = "importing" /\ Body.doing.todo # <<>>
  /\ LET n == Head(Body.doing.todo) IN
     ImportCached(n) \/ ImportUnknown(n) \/ BeginImport(n)

Bound ==
  ReadAttribute \/ BindTop \/ BindLeaf \/ BindItem \/ ImportItem \/ BindAll \/ BindRaises
    \/ CallImportsList \/ BindSubmodule

Next ==
  \/ Statement \/ Handle \/ Import \/ Bound
  \/ ImportRefused \/ CacheModule \/ PublishModule \/ PublicationRefused
  \/ BodySucceeds \/ BodyFails \/ ReloadEnds
  \/ Collect \/ HookEnds

Spec == Init /\ [][Next]_vars

-----------------------------------------------------------------------------
(* Properties *)

(* What the program can get hold of, or is loading. *)
InUse == Held \cup {bodies[k].module : k \in 2 .. Depth}

(* A module is loaded once: a name has a second module object only if the   *)
(* first failed, the program changed its entry in sys.modules, or a hook of *)
(* the program loaded it while its import was between cached_module and      *)
(* cache_module, whatever cycles of imports, reloads, failures and           *)
(* collections there are.                                                  *)
OneObjectPerLoad ==
  \A v, w \in Modules \cap InUse :
    v < w /\ modules[v].name = modules[w].name =>
      modules[v].state = "failed" \/ modules[v].name \in changed \cup overtaken

(* A module that failed is neither in sys.modules nor in its parent, unless *)
(* the program put it there or changed the parent's entry in sys.modules:   *)
(* remove_cached_module_if, remove_module_from_parent_if.                  *)
FailedUnpublished ==
  \A v \in Modules :
    modules[v].state = "failed" =>
      LET n == modules[v].name IN
      /\ \A m \in DOMAIN cache : cache[m] = v => m \in changed
      /\ \A w \in Modules :
           IsChild(n) /\ modules[w].name = Parent(n) /\ Attribute(w, Last(n)) = v =>
             Parent(n) \in changed \/ n \in assigned

(* A module that the program can get hold of is "initializing" exactly while *)
(* it is being loaded or reloaded, by one import or reload only: no failure  *)
(* leaves it half done, and it is not executed twice at the same time.  (The *)
(* object that an import leaves when its cache entry is refused stays        *)
(* "initializing", out of everybody's reach.)                              *)
InitializingIsRunning ==
  \A v \in Modules :
    LET loads == {k \in 2 .. Depth : bodies[k].module = v} IN
    /\ Cardinality(loads) <= 1
    /\ loads # {} => modules[v].state = "initializing"
    /\ v \in Held /\ modules[v].state = "initializing" => loads # {}

(* Names of modules whose first publication is under way: their entry in    *)
(* sys.modules is made, and the attribute of their parent is not.           *)
HalfPublished ==
  {modules[bodies[k].module].name : k \in
     {j \in 1 .. Depth : bodies[j].doing.at = "publishing" /\ bodies[j].doing.stage # "done"}}

(* An import of a.b reads, of a and then of each module the next component,  *)
(* and finds what sys.modules has for it (import_builtin_target returns the *)
(* first module only, lower_import reads the others as attributes of it),   *)
(* unless the program changed the entry or the attribute of a prefix, or a   *)
(* hook imports in the middle of the import of a prefix.                    *)
LeafIsCached ==
  Arrived /\ Body.doing.statement.form \in {"plain", "alias", "from", "star"} =>
    LET n == Body.doing.statement.name
        unread == Body.doing.unread
        read == SubSeq(n, 1, Len(n) - Len(unread)) IN
    (\A p \in Range(PrefixesOf(n)) : p \notin changed \cup assigned \cup overtaken \cup HalfPublished) =>
      /\ read \in DOMAIN cache /\ Body.doing.leaf = cache[read]
      /\ unread # <<>> => Attribute(Body.doing.leaf, Head(unread)) # Missing

(* The same of packages that never failed. *)
LeafIsCachedAtFirst ==
  (\A v \in Modules : modules[v].state # "failed") => LeafIsCached
=============================================================================
