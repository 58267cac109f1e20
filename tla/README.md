# Rimera: specifications of the compiler and the runtime

TLA+ specifications of Rimera, an ahead-of-time compiler for Python with a Rust
runtime. They are written from the Rust sources; `PROJECT.json` maps each
definition to the lines it models, lists the hazards each property is about,
and gives for each property a mutant of the code that the property catches.

Rimera compiles Python ahead of time: syntax -> HIR -> SSA MIR -> LIR ->
Cranelift object -> executable linked with a Rust runtime archive. The compiler
is a pipeline of functions over trees; what is hard in it is that two passes
have to agree with each other (the two passes of the semantic analyser; the
lowerer, the liveness analysis and the generated code) and all of them with the
language. The runtime is where state lives: one `RimeraContext` per program, on
one thread, holding a heap, shadow frames, the pending exception, modules,
classes and suspended objects; beside it an executor facade, a task arena that
is kept free of heap handles.

Nothing is shared between threads. What makes the runtime hard is re-entrancy:
a collection runs `__del__`, which allocates and collects; a poll runs Python,
which wakes, cancels and shuts down the task being polled; a dictionary lookup
runs `__eq__`, which changes the dictionary; a module's body imports the module
that imports it. State read before such a call is stale after it, and the
interesting part of every runtime module is what is kept where while foreign
code runs.


## Inventory

Paths are below `src/crates/`. *M* is modelled, *P* partly, *N* not modelled.

| Component | State | Operations | Talks to | |
|---|---|---|---|---|
| Executor facade, `rimera-async-runtime/src/lib.rs` | slots (generation, record), free list, active count, shutdown flag, request counter; one `RootTask` future per root; timers | submit, wake, request and step a cancellation, poll, drop, take completion, register/cancel/fire a timer, shut down | runtime through `resume` and `drop_fn`; backend through polls, wakers and timer callbacks | M |
| Backends, `backend.rs`, `async_compio.rs` | the library executor's queues | spawn, deadline callback | facade | P |
| Async driver, `rimera-runtime/src/async_driver.rs` | per root: coroutine, pending await, leases, completion | submit, lease, cancel, poll, drop, resume, drop of the boxed state | facade, suspended objects, collector | M |
| Managed heap, `heap.rs`, `object.rs` | slots, free list, pressure counters | allocate, get, collect (mark, ephemerons, lifecycle phase, sweep) | context: roots in, lifecycle actions out | P |
| Lifecycle, `context.rs` 100-700, 1000-1110 | pending exception, handled stack, temporary roots, shadow frames | discover roots, the collection loop, finalizers, weak-reference callbacks, buffer release | heap; Python hooks | P |
| Buffer protocol, `operations.rs` 300-700 | leases with their count of active views | acquire, derive, release | heap, `__buffer__`, `__release_buffer__` | P |
| Suspended objects, `context.rs` 2550-3600, `call.rs` | resume state, running flag, own exception state, delegation, the owner of an async generator | next, send, throw, close, await, operation objects | context, driver, generated code | P |
| Classes, `context.rs` 1840-2210, 4100-4600, 5830-5990 | per class: bases, MRO, namespace, slots, version tag | create, assign `__bases__`, read, set and delete attributes | heap, calls | P |
| Calls and ABI, `call.rs`, `ffi.rs`, `operations.rs` | functions: code, defaults, fast-call metadata | bind and call, construct, dispatch operators, subscript | everything above | P |
| Containers, `operations.rs`, `context.rs` 6440-6780 | ordered hash tables, versions, iterators, weak containers | look up, insert, remove, merge, clear, iterate, prune | `__hash__`, `__eq__`, collector | P |
| Module import, `context.rs` 6780-7300, `module_registry.rs` | `sys.modules`, initialization state, namespaces | import, from-import, reload, publish, roll back | compiled initializers | P |
| Front end, `rimera-compiler/src/sema/mod.rs` | immutable trees | scopes, plans, bindings, jumps | lowering | P |
| Middle end, `lower/mod.rs`, `mir/mod.rs` | the lowerer's record of blocks, cleanups and targets | lower, verify, analyse liveness, plan safepoints | code generation | P |
| Code generation, `codegen/mod.rs` | none | emit terminators, exception edges, root sets, suspension points | runtime ABI | P |
| Dynamic code, `dynamic.rs` | units, captured builtins, compile cache | compile, exec, eval, free a unit | heap (ephemerons), compiler | N |
| Build driver, manifests, CLI | files | read, write, run tools | tools | N |

### What is hard, and what correctness means

*Executor facade.* No borrow of the arena is held while `resume`, `drop_fn` or
a waker runs, so each of them may call the facade again, in the middle of a
poll or of the shutdown walk. Ids are recycled with a generation, and stale ids
stay in timers, wakers and ABI callers. Correct means: an id names one root for
ever; a wake that was accepted is followed by a poll, also when the future
moves to another task between the two; a root has one outcome, seen alike by
the poll, the drop and `take_completion`; a suspended activation is released
exactly once and never while it runs; a cancellation request is neither lost
nor replaced before it is acknowledged; shutdown leaves nothing active.

*Async driver.* The driver puts a coroutine, its leases and its completion
behind the facade's two callbacks. Between two of its lines Python may run, and
may drop, cancel or shut down any root. Correct means: the collector's table of
roots balances on every path; a completion lives until its owner has it; no
coroutine is resumed or closed twice, nor after its end; leases outlive the
operation that reads the buffer; no exception of a root is left pending for
whoever runs next; every cancellation is acknowledged or its root ends.

*Suspended objects.* A resume swaps the exception state of the body with that
of the caller, which waits in Rust locals. Correct means: the registers come
back as they were; whatever is pending or handled anywhere is alive; no body is
entered while it runs; an async generator has one operation at a time, and
gives up the owner on every way out.

*Heap and lifecycle.* A collection is a loop of turns. Each turn marks, decides
what to run, marks again what that needs, and sweeps; then Python runs, without
any lock, and may undo what the turn decided. Correct means: nothing reachable
is swept, whatever nests; handles do not alias; each hook is called once; weak
references yield their referent or `None`, and are not cleared before the
referent's `__del__`; a buffer is released when its last view is gone and not
earlier; the exception that was pending when the allocation collected is still
the pending one afterwards; the loop ends with no garbage.

*Classes and attributes.* Assigning `__bases__` replans the MRO of every
descendant before anything is committed. Correct means: every MRO is the C3
linearization of the class's bases, a rejected assignment changes nothing and a
valid one is not rejected; attributes are found, set and deleted in the order
the language gives to data descriptors, dictionaries, class attributes and
hooks; a class for which a lookup comes to find something else gets a new
version tag (nothing reads the tags in this commit).

*Calls, operators, subscripts.* Mostly long case distinctions in front of the
object model. Correct means: the methods that are called, in which order and
with what, are those of the language; arguments are bound as Python binds them,
also after the function's code and defaults were replaced; positions computed
before user code ran are not used after it shrank the list.

*Containers.* Lookups run program code in the middle of a probe. Correct means:
keys of one table are pairwise unequal; every operation takes effect at one
moment, as on an abstract ordered map; an iterator reports every change of its
table that matters to it.

*Import.* Modules are published before their bodies run, so cycles find
half-made modules; and the importer allocates between its look into
`sys.modules` and its own entry there, so a collection may run code that imports
the same module. Correct means: one object per load, the one `sys.modules`
has; a failed import undoes what it did and nothing else; only a running body's
module is marked as initializing.

*Front end.* The second pass of the analyser takes the plan of a nested scope
by its position in the first pass's list. Correct means: every scope gets its
own plan, every name is bound as in Python, and exactly the illegal modules are
refused.

*Middle end.* `finally` bodies are copied to every way out, exception edges
point to the innermost handler, and a value is a root at a safepoint only if the
liveness analysis says so. Correct means: the blocks do what the source says,
in its order, whatever raises or suspends; and no value is used that an earlier
safepoint let the collector sweep.


## Modules

| Module | Code modelled | Role |
|---|---|---|
| `TaskArena` | `rimera-async-runtime/src/lib.rs` | executor facade, roots, timers, the calls that nest |
| `RootContract` | - | what the facade promises about a root; `TaskArena` implements it |
| `RootDriver` | `async_driver.rs` | the runtime behind the facade; EXTENDS `TaskArena`, every arena step is one of its steps |
| `TaskArenaProofs`, `ContractProofs`, `RootDriverProofs`, `ManagedHeapProofs`, `ModuleImportProofs`, `ContainersProofs`, `SuspendedProofs`, `AttributesProofs` | - | TLAPS proofs, see Proofs |
| `Suspended` | `context.rs`, `call.rs`, `codegen/mod.rs` | generators, coroutines, async generators, delegation |
| `ManagedHeap` | `heap.rs`, `context.rs`, `operations.rs` | heap, collection loop, hooks, weak references, leases |
| `ClassHierarchy` | `context.rs` | class creation, `__bases__` assignment, C3 |
| `Attributes`, `Operators`, `Calls`, `Indexing` | `context.rs`, `call.rs`, `operations.rs` | four parts of the data model |
| `Containers` | `operations.rs`, `context.rs`, `object.rs` | dictionaries, sets, weak containers, iterators |
| `OrderedMap` | - | what a container promises; `Containers` implements it |
| `ModuleImport` | `context.rs`, `ffi.rs` | import, `sys.modules`, failure, reload |
| `Syntax`, `Scopes` | `sema/mod.rs` | the owned syntax tree; the two passes of the analyser |
| `PythonScopes` | - | how Python binds names, stated over single occurrences |
| `Blocks`, `Expressions`, `Lowering` | `lower/mod.rs`, `mir/mod.rs` | the lowerer as an operator on its record; verifier, liveness, safepoint plan |
| `ControlFlow` | `codegen/mod.rs`, `ffi.rs` | the generated code running the MIR, an environment that raises, suspends and collects |
| `Evaluation`, `Execution` | - | the meaning of expressions and statements in Python |
| `MC...` | - | instances for TLC |

Modules without code modelled are references: they are written from the
language or from the promise, never from the lowerer, the analyser or the table
they are compared with.

### TaskArena

| TLA+ | Rust |
|---|---|
| `len`, `generation`, `record`, `free`, `activeTasks` | `TaskArena::slots`, `Slot::generation`, `Slot::record`, the list from `free_head`, `active_tasks` |
| `shutdown`, `nextRequest` | the facade's flag and `next_cancel_request` |
| `root` | `RootTask` futures: id and where the future is in its life |
| `timer` | `TimerRegistration` and the closure the backend holds (`armed`) |
| `stack` | the native call stack as far as the facade sees it |
| `home`, `ready` | the environment: which executor task holds a future, which wakers are signalled |
| `fate` | history: what `resume` was told, how often `drop_fn` ran, what was reported |

Actions are the facade's methods. Those that call out are split where they do:
`Poll` pushes a `resume` frame, `ResumeReturns` continues after it;
`ShutdownBegins`, `ShutdownVisits` and `ShutdownReturns` are one walk over the
slots with `drop_fn` and the waker called between two visits. While a frame of
foreign code is on top, every facade operation is enabled.

Left out: statistics and peak counters; `poll` of a record already polling (a
poll borrows its `RootTask` exclusively, so it cannot be re-entered) and of a
terminal root (changes nothing); errors that change nothing are the absence of
a step. The slot count captured by shutdown is `len`: nothing is submitted
afterwards. The waker of a root is the executor task that polls it.

`RootContract` has no slots, wakers or stack. Each root is submitted once, gets
one outcome, is entered only while the outcome is open, and if it did not
finish by itself is released once, outside its own resume. The refinement
mapping `Contract` in `TaskArena` reads the outcome from `fate` or the record,
`inside` from the stack.

### RootDriver

| TLA+ | Rust |
|---|---|
| `state` | the boxed `RootRuntimeState`: coroutine, leases, completion, pending cancellation |
| `at`, `request`, `turn` | where `resume_runtime_root` or `drop_runtime_root` of each root stands, and the locals it carries over a call |
| `context` | `context_roots`, as a bag: the collector's roots |
| `raised` | `RimeraContext::raised`, as the root that left it |
| `coroutine` | `GeneratorObject` as the driver sees it |
| `holder`, `swept` | who keeps the completion's value alive; whether it was collected, and if so, "early" (while the root's own leases were released) or "lost" (at any other time) |
| `delivered` | history: requests whose Throw has returned |

The environment's `resume` and `drop_fn` of `TaskArena` become the driver's two
callbacks, one action per stretch of code between two calls into Python. While
Python runs, every action of the facade is enabled, as are the owner's polls,
drops and requests. `ReleaseRunsCode` says whether the leases come from
providers with a `__release_buffer__`; both runs say that they do. The release
of a root's leases is then a place where code runs and collects while the
completion is in a Rust local: `CompletionAlive` says that this is the only such
place. `NoTurnAfterTerminal` says that no callback begins for a root that has
ended, and that a root has one callback on the stack: it is not dropped inside
its own turn, nor resumed inside its own Close.

### Suspended

| TLA+ | Rust |
|---|---|
| `ctx` | `raised`, `handled`, `ambient_exception_context` of `RimeraContext`, and the exception objects of its heap |
| `gen` | `GeneratorObject`: state, running, its own raised and handled, delegate, owner |
| `op`, `next` | `AsyncGeneratorOperationObject`, `AsyncNextAwaitableObject` |
| `stack`, `ret` | the calls in progress with their Rust locals, and the last result |
| `calls` | bound |

A body is arbitrary code: between two safepoints it may raise, catch, yield,
await, call a method of any object, or return. The runtime's functions from
entry to the entry of the body, and from its exit to their return, are single
steps on `State`, because nothing but a collection happens inside. Every step
ends with a collection, which removes what is not marked; `Collects` says between
which two steps the code makes none.

### ManagedHeap

| TLA+ | Rust |
|---|---|
| `object`, `generation`, `free` | `Slot::object`, `Slot::generation`, `Heap::free` |
| `builtins` | `dynamic.function_builtins`, the ephemeron table |
| `roots` | what shadow frames, modules and active calls hold |
| `raised` | `RimeraContext::raised` |
| `stack` | collections, callbacks and memoryview allocations in progress, each with its `with_temporary_roots` handles and the exception it saved in a Rust local |
| `issued`, `calls` | history |

`Turn` is one call of `collect_with_ephemerons_and_finalizers`: no Python runs
in it, so it is one step. `RunAction` starts a scheduled action,
`CallbackReturns` ends it; in between every action of `Python` is enabled:
allocate, link, load, drop, raise, catch, dereference a weak reference, take,
derive and release memoryviews, and collect again. `program` fixes the kinds of
object a behaviour allocates, so that each is followed far enough.

Objects are reduced to what the collector reads: a kind, the handles that
`trace_children` visits, a weak referent, a hook that has run or not. A
`"plain"` object has no hook: an exception, or an instance of a class without
`__del__`. Marking is the least closed set of slots, which is what the worklist
computes. Left out: byte accounting and thresholds (a collection may happen at
any allocation), the export count of a native bytearray,
`finalize_for_shutdown`.

### ClassHierarchy

| TLA+ | Rust |
|---|---|
| `bases`, `mro`, `slots` | `TypeObject::bases`, `mro`, `slot_names`; a class is named by its heap slot |
| `own` | the slots a class declares itself, in order |
| `making` | class creations between the computation of the order and the allocation |
| `repeated`, `overtaken`, `assigned` | history |

`NewClass` is `new_class_with_metaclass` up to the allocation, `ClassAllocated`
and `ClassRefused` its two outcomes; between them a collection may run Python,
which is every action again. `SetBases` is `set_class_bases`, one step because
it allocates nothing. `Descendants` has the order, and the duplicates, of
`collect_descendants`; `Planned` takes the first plan of a class, as
`compute_c3_mro_planned` does, and the commit leaves the last. `Merge` is the
loop of `compute_c3_mro` as a recursive function. The reference it is checked
against, `Agree`, says nothing about merging: some order of the members keeps
the order of every base and of the bases themselves.

Left out: metaclass selection and its conflicts, the layouts of builtin bases,
`__mro_entries__` (they only refuse more); the dictionary and weak-reference
flags, version tags, `__set_name__` and `__init_subclass__` (called after the
class is published, when any action may happen anyway).

### Attributes, Operators, Calls, Indexing

`MCAttributes` checks the first. `MCDataModel` checks the others and
`ClassHierarchy` in one run: a behaviour has a `topic`, and only the variables
of that module move.

- `Attributes`: a class `C` with a base `B` and a metaclass `Meta`, an instance
  `x` of `C` and one watched name. `namespace`, `dictionary`, `slot` and `title`
  are where the name may be; `hooks` which of the hooks each class defines;
  `told` records whose version tag the last step moved. Actions are the entry
  points of reading, setting and deleting; the reference lists the sources in
  the order the language documents.
- `Operators`: a binary, in-place, comparison, unary, truth, length or
  membership operation on two operands, each an instance of a class with some
  methods or a native value. `outcome` is the sequence of methods asked with the
  result.
- `Calls`: one function whose `code`, `defaults`, `keyword_defaults` and
  `closure` the program replaces, with the fast-call metadata that lets a call
  skip the binder, called directly, as a bound method, through a class, or
  through another object.
- `Indexing`: reading, setting and deleting an index or a slice of a list, a
  range or a view. Bounds and values run code that may replace the list's
  contents: `frame` holds what the operation has read already. The reference
  applies the language's rule to the contents at the moment the language uses.

### Containers

| TLA+ | Rust |
|---|---|
| `table`, `next`, `version` | `OrderedHashTable`: live entries by identifier, the next identifier, the version; of a weak container its entries and `mutation_version` |
| `iterator` | one iterator: position, version it has seen, length |
| `stack` | lookups and operations in progress, innermost last, with their candidates |
| `dead` | objects a collection has taken |
| `event`, `operations` | history |

A lookup is a loop of candidates with equal hash; each comparison may run
`__eq__`, where every operation is enabled again. The version read before is
compared after, and the lookup begins again, as in the code. The refinement
`ImplementsMap` maps the table to the content of `OrderedMap`, whose operations
are single steps. A collection takes no key that a live entry holds strongly, as
the keys of a weak-value dictionary. Where the code maps no value the model has
`None`, which is none of the handles.

### ModuleImport

| TLA+ | Rust |
|---|---|
| `modules` | module objects: name, state, attributes |
| `cache` | `sys.modules` |
| `namespaces` | `module_namespaces` of compiled modules |
| `bodies` | imports, initializers, reloads and hooks in progress, innermost last, with what each is doing |
| `changed`, `assigned`, `overtaken`, `executed`, `refusals` | history and bounds |

Each body executes statements of the program: imports of every form, reload,
`sys.modules[name] = ...`, `del`, assigning an attribute, raising. A statement
keeps in its body's `doing` what the compiled code keeps over the calls of the
runtime: the names still to import, the value of the first, and the attributes
it has still to read (`ReadAttribute`, one component of a dotted name after the
other, as `get_attribute` is called for each).

The import of one module is split where it allocates, since an allocation may
collect, and a collection runs hooks (`__del__`, weak-reference callbacks):

| Stage | `import_source`, `import_namespace`, `import_name` |
|---|---|
| `BeginImport` | `cached_module` found nothing (6979) |
| `Creating` | the namespace, its metadata, the module object and the growth of `sys.modules` are allocated (6989-7004) |
| `ImportRefused` | one of these was refused; an object that exists already stays as it is, unpublished |
| `CacheModule` | `cache_module` (7004), which replaces whatever is there by now, and the search for the parent |
| `Publishing` | `namespace_set` on the parent's namespace, which may have to grow (7262) |
| `PublishModule`, `PublicationRefused` | the attribute is set, or refused |

While an import is creating a module, or is publishing one whose attribute is new
to the parent, `Collect` may push a hook, which executes statements like a body
does but has names of its own; `HookEnds` drops what it raised. A name that has
an entry by the time of `CacheModule` was imported by such a hook: `overtaken`
records it.

`changed` and `assigned` are what the program itself did to `sys.modules` and to
attributes; a property about the importer excepts them. An import publishes a
submodule on whatever `sys.modules` has for its parent. When the program has put
another object there, that publication is an assignment the program caused, and
`Strays` records it as one.

### Scopes and PythonScopes

`Syntax` abstracts the owned syntax tree to the occurrences of names and the
places of nested scopes. `Scopes` runs the analyser in its stages: the first
pass collects a `RawScope` per scope (`raw`), `resolve_scope` makes it a plan
(`plan`), the second pass walks the tree again and takes the plans by position
(`hir`). `PythonScopes` has no passes: it says of one occurrence in one scope
what it refers to, and of a tree whether it is legal. `Known` names the
divergences it allows.

### Blocks, Expressions, Lowering, ControlFlow

The lowerer's record (blocks, current block, cleanups, exception target, loop
targets) is a value, and each `lower_` function an operator from a record and a
piece of source to a record. An operation carries the label of its source, what
it defines and what it uses; a block has one exception edge. `Verified` is the
MIR verifier, `LiveIn` and `LiveBefore` the liveness analysis as a least fixed
point, `SafepointPlan` the roots it gives each safepoint.

| `ControlFlow` | Rust |
|---|---|
| `prog`, `pc` | the compiled function, its block and position |
| `raised`, `handled` | `RimeraContext::raised`, and this call's part of `handled` |
| `vals`, `alive` | the SSA values; those that every safepoint so far has kept |
| `trace` | history: what the environment has chosen, with labels |
| `status` | running, returned or failed |

Each operation of a block is a step that succeeds, raises or, at a suspension,
is resumed with a value, an exception or `GeneratorExit`. `FollowsSource`
compares the trace and the outcome with what `Execution` says for the same
choices, so a `finally` body run twice, in the wrong order or under the wrong
handler is a different trace. So is the name of a handler (`except E as e`): it is
bound after HandlerEnter (`BindHandler`) and cleared before every HandlerLeave, on
the normal exit, on the cleanup edge and at each transfer out (`ClearName`).


## Runs

| Run | Instance | States | Shows |
|---|---|---|---|
| `arena` | 2 roots, 2 executor tasks, 2 slots of 2 generations, 1 request or 1 timer, calls 2 deep | 1.97M | an id never names two roots; no lost wake; shutdown drains; refines `RootContract` |
| `root_driver` | 2 roots, 1 executor task, 2 slots, 1 request, 1 lease whose release runs code, 2 deep | 1.83M | roots balance; completions live, but for the window of the release; one callback per root and none after the end; no exception leaks; leases outlive the operation |
| `root_live` | 1 root, 2 executor tasks, 2 requests, a lease whose release runs code | 16k | under fairness, wakes are consumed and cancellations acknowledged |
| `suspended` | a program, a coroutine, an async generator, 3 operations, an `anext` default, 4 exceptions, 4 calls | 1.46M | what is held is alive; the caller's registers come back; one operation owns the generator |
| `heap` | two programs: instances, generators, weak references and containers with 3 allocations; exceptions, functions and views with 4. 4 slots of 2 generations, 4 deep | 886k | no dangling handles or aliases; hooks once, in order; collections complete; leases end with the last view; the pending exception is put back |
| `attributes` | descriptors of 10 shapes in `C`, 3 in `B`, 4 in `Meta`, 5 families of hooks, an instance and an exception | 54k | reads and writes follow the data model; version tags move |
| `data_model` | four topics. Classes: 4, with 2 bases each, a slot name, 2 assignments, Python during allocation. The others, see below | 1.37M | orders are C3; only conflicts are refused; operators, calls and subscripts follow the data model |
| `containers` | 5 kinds, keys `a`, `twin` (equal) and `b` (same hash), 2 operations deep, 4 operations | 1.26M | unique keys; faithful iteration; refines `OrderedMap` |
| `module_import` | a package, its submodule, a namespace, a module of the runtime and an unknown name; 4 statements, 4 module objects, one refused allocation, one hook at a time | 5.13M | one object per load, but for an import that a hook overtakes; failures unpublished; initializing means running; a fresh import binds the cached module |
| `scopes` | 28,923 modules | 101k | names are bound as in Python; plans match |
| `control_flow` | 987 programs | 1.15M | the blocks do what the source says; no swept value is used |
| `control_exits` | 4 programs: a conditional `break` or `return` in `try`, `except` and `with` | small | *violated*: the rest of the region is unprotected. The counterexample TLC gives is the conditional `return` in `with`: what raises after it skips `__exit__` (see Findings) |

The bounds, and why they are enough:

- *Arena and driver.* A slot's last generation is 2, so that one retirement and
  the exhaustion of a slot both happen. Two nested calls are enough for "a
  callback calls the facade which calls back"; a third level adds no new pair of
  interrupted operations. `TimerOrRequest` leaves out behaviours in which both a
  timer and a cancellation are used: they touch a record in the same way, by a
  wake. The driver needs only one generation (reuse is the arena's question) and
  one request per root; the second request is in `root_live`.
- *Suspended.* Two bodies and the program are enough for a delegate that is
  resumed by somebody else; the three operations, a next, a close and a throw,
  are one that owns the generator, one that is refused and one that comes after.
  Two exceptions in the registers and two in locals need four.
- *Heap.* Three objects make a cycle with an observer outside it, or a
  finalizer, its weak reference and what the callback allocates; four stack
  levels are a collection, a callback in it, a collection in that and a
  callback of the inner one.
- *Classes.* Four with two bases each give every shape in which a class has two
  ways up to another, and, with two assignments, an attempt to close a cycle
  through an order the first one left stale.
- *Data model.* Three classes are enough for an attribute that is found above,
  beside and below another; sequences of at most four elements with bounds from
  below the start to beyond the end, and `Largest = 9` as the native integer
  limit, so that conversion beyond it happens; functions with every kind of
  parameter and up to four defaults.
- *Containers.* Two equal keys and a colliding third are the least with which a
  probe has to go on after a candidate; two operations deep is one comparison
  interrupted by one mutation. Four operations insert, remove and insert again
  under an iterator.
- *Import.* Four statements are a cycle of imports in which one side fails and
  is retried, and of hooks inside imports. Four objects are `__main__`, a package,
  its submodule and a second object for one of them. A second hook inside a hook
  adds no window of another kind.
- *Scopes.* One name in scopes nested three deep, where every scope binds it or
  not, uses it or not and declares it or not (`Nestings`); nested scopes in every
  place of a statement (`Shapes`); jumps out of nested loops and handlers
  (`Jumps`). Resolution treats names independently, so one name is enough.
- *Control flow.* `WellStructured` puts six bodies into every pair of nested
  regions; `ExpressionKinds`, `StatementKinds`, `Patterns`, `Comprehensions`,
  `Members` and `ModuleBodies` have each form of the language with parts that
  may raise or suspend. A loop is repeated once (`MaxRepeat`), which is enough
  to reach each block from its back edge.

Deadlock is checked in `control_flow` and `suspended`, where a state with no
step would be a block or a call that cannot go on. Elsewhere the systems stop
when the bounds are used up or the program ends.

Fairness is assumed in `root_live` only (`DriverFairness`). It is strongly fair
that the executor polls a woken root when nothing else runs: the executors the
backends use poll every woken task again and again, although a poll may be
delayed by re-entrant calls. At each stack depth it is strongly fair that the
innermost callback goes on: `resume` and `drop_fn` return, and so do the body,
the hooks and the wakers. Nothing is assumed of wakes, cancellations or
shutdown.

`Exposed`, in the modules that have it, names behaviours of the code that
diverge from the language and are already known (they are listed below). The
runs keep it empty, so that the properties go on testing everything else; adding
a name makes TLC show the divergence. A constant of the model, unlike a comment,
cannot silently cover more than it says. When the code is fixed, the switch and
the operator that excludes it go.

Each property has a mutant: a definition `of` the model replaced by `as`, a
plausible slip in that code, which the property's run must catch.


## Proofs

Eight modules hold theorems. All are for any values of the constants that satisfy
the named assumptions of the modelled module: any number of roots, wakers,
slots, generations, programs, module names, keys, and any depth of nesting. The
assumptions ask no more than that the constants have their types, that equal
keys hash alike, that objects of different kinds are different objects, and that
sets the program cannot do without are not empty. Some
theorems have a hypothesis of their own, given below.

### TaskArenaProofs: the arena

`TypeCorrect`; `IdsUnique`: `Spec => []IdsNeverReused`; `WakesKept`:
`Spec => []NoLostWake`; `Invariance`: the inductive invariant `Inv` they follow
from. `IdsNeverReused` needs to know that an id about to be issued was never
issued: the slot's current generation, if the slot is on the free list, is above
every id given for that slot (`FreeSlots`), and ids given out are at most the
current generation (`IssuedIds`). A slot retired at its last generation stays off
the list and so never breaks it. `NoLostWake` speaks of a record and of the root
it is found through: `OwnRecord` says that an occupied slot's owner is the root
with the current id, `ResumesPolling` that a root being polled is in `resume`
once, with a record that is marked polling or overtaken, and
`PollingRegistered` that a record being polled holds the waker of its future's
home, which is what remains when the poll returns pending.

### ContractProofs: the arena implements RootContract

- `ShutdownLeavesNothing`: `Spec => []ShutdownDrains`. `Draining`: one shutdown
  runs at most, and what is active lies ahead of its walk. Cleanups and wakers
  run in the middle of the walk and call the facade again; nothing they can call
  makes a slot active, because the flag is set first.
- `ContractHolds`: `~TakeDuringPoll => (Spec => ImplementsContract)`. `Accounts`
  ties each root to its record: every slot is owned by the root its record names
  (`SlotOwned`), every root is accounted for by its record or by the completion
  that was taken (`OutcomeKept`), and a record knows whether its root is inside
  its resume (`PollMarked`). With it each action of the arena is one step of the
  contract for one root (`At`), which every other root does not see (`Unseen`).
- `AccountsKept`: the invariant itself.

The hypothesis is the code's: a caller that takes the completion of a root while
it is polled, after a shutdown overtook that poll, forfeits its release (see
Findings). `AccountsKept` and `ShutdownLeavesNothing` do without it.

### RootDriverProofs: the driver

- `DriverUsesFacade`: `DriverSpec => Spec`. Every step of the driver is a step
  of the facade or leaves it alone (`StepIsFacade`), so the runtime never uses
  the arena in a way the facade's theorems do not cover. `DriverKeepsWakes` and
  `DriverKeepsContract` are what follows.
- `DriverTypeCorrect`: the types of the driver's variables.
- `ExceptionsKept`: `DriverSpec => []NoExceptionLeaks`. The strengthening is
  `Settling`: an exception in the registers belongs to a root whose resume is on
  the stack and is about to settle it. Every other step leaves the registers
  alone or runs above that frame.
- `RootsRegistered`: `DriverSpec => []RootsBalanced`. `Balanced` counts: the
  number of times a handle is in the bag is the number of states and completions
  that own it (`Counted`). `DriverInv` says where each callback stands: which
  are on the stack, in which order, and what a state still has at each place. A
  root that is dropped or shut down under its own resume is on the stack twice,
  and the two give up different things.
- `TurnsEnd`: `DriverSpec => []NoTurnAfterTerminal`, both halves; `OneCallback` in
  `DriverInv` is the second, whatever drops, polls and shutdowns are in between.
- `LeasesKept`: `DriverSpec => LeasesOutliveOperation`, an action property.
  `Answers` follows the pending request: it is acknowledged only by the turn
  that threw it.
- `CompletionKept`: `DriverSpec => []CompletionAlive`, whether the release of
  leases runs code or not. `Unswept` follows the value: while it is in the turn's
  Rust locals, only the release of the root's own leases can run a collection, so
  a value that reaches its owner was collected there or not at all; once it is
  registered, no collection takes it. That it can be lost there is a divergence
  of the code (see Findings).
- `DriverInvariant`: the inductive invariant.

### ManagedHeapProofs: the heap

- `HeapTypeCorrect`: with the types, a view never lacks its lease (`CallsKept`).
- `HandlesNotReused`: `Spec => NoAlias`. `SlotsKept`: a slot on the free list has
  a generation that was never given out.
- `HooksRunOnce`: `Spec => []HooksOnce`. A living object shows that its hook has
  run (`HooksKept`), and a weak reference is cleared in the turn that schedules
  its callback, so no other turn schedules it (`WeakrefsOnce`), however
  collections nest and whatever is resurrected.
- `ExceptionHandedBack`: `Spec => ExceptionKept`. A collection and the callback
  it waits for set the same exception aside (`ExceptionsNested`).
- `NothingDangles`: `Spec => []NoDangling`. `Solid`: no used object, no root and
  no temporary root of a call in progress refers to a swept object. A turn marks
  a least closed set (`MarkedProperties`), and what it schedules is marked too.
  `Solid` excepts, as the property does, programs that allocate with an exception
  pending, which is a divergence of the code (see Findings).
- `FinalizersRunFirst`: `Spec => FinalizedBeforeCleared`. Only a turn clears a
  reference, and it protects those to what it is about to finalize; that an
  instance marked as finalized was really called (`Finalized`) is the invariant.
- `CollectionsFindAll`: `Spec => CollectComplete`. The last turn of a collection
  schedules nothing, so it keeps what it marked, and what it marked is found
  again from the same roots. `Rested`: a collection about to make a turn holds no
  root of its own that would be gone when it has ended.
- `BuffersOutliveViews`: `Spec => MarkedReleaseAfterLastView`. `ClaimsKept`
  counts: the open views of a lease and the calls about to allocate one are no
  more than the lease counts; a call that allocates the first view of a lease is
  the only one there is; and a lease that a collection will finalize has none.
  A turn takes off the views it finds dead, and these are open views that do not
  survive, since the lease is not spared. So whichever of the three steps
  releases a lease (an action, a refused first view, the last release), no open
  view is left.

### ModuleImportProofs: import

`ImportInvariant` is `Spec => []Consistent`. `Consistent` says that there is a set
`S` of module objects, the sound ones, for which `IInv(S)` holds: an import whose
entry in `sys.modules` is refused leaves an object that stays "initializing" and
that nobody can get hold of, and the invariant speaks of all the others. Its
parts are what a reader of `import_source` would have to keep in mind:

| Part | Says |
|---|---|
| `Known` | every reference is to a sound module or to what is no module, and no other object has attributes |
| `Nesting` | each body runs for the import or the reload that the body below it waits for, or is a hook of a collection in the middle of an import |
| `Running` | a sound module is initializing while one import or reload of it runs |
| `Cached`, `Loaded`, `Entered`, `OneEach` | an entry of `sys.modules` the program left alone is a module of that name that did not fail, and, if no hook overtook its import, there is only one |
| `Publication` | what is published is the module itself, in the object that has its parent's name |
| `Gone`, `Placed` | a module that is an attribute of its parent, or is becoming one, did not fail, and while it is imported the parent stays in `sys.modules`: its import is done or runs around that of the child |
| `Told`, `Attached` | what `sys.modules` has for a submodule is the attribute of its parent, unless it is half published |
| `Progress` | what an import statement has in hand are the modules of the prefixes it has imported and read |

`Touched` are the names whose entry the program changed or a hook made in the
middle of their import; `Half` those whose entry is made and whose attribute is
not. `LoadedOnce` (`OneObjectPerLoad`), `FailuresLeave` (`FailedUnpublished`),
`OneBodyRuns` (`InitializingIsRunning`) and `ReadsFindTheirModule`
(`LeafIsCachedAtFirst`) follow, since all that is in use is sound (`UsedModules`).
The hooks are why `Placed` speaks of imports that are still creating their module:
such an import, if it were around that of a child, would replace the parent.

### ContainersProofs: containers

- `KeysStayUnique`: `Spec => []UniqueKeys`. `UniqueKeys` is not inductive: a
  search that waits for `__eq__` has to know what it passed over. `Sound` says so
  for each operation in progress. In a dictionary or a set, a search that has
  seen the table's version finds its candidate where it was, and every equal key
  is the candidate or still to come (`Current`); one that has seen an older
  version begins again. A weak container does not count versions under a search:
  it only loses entries while one is assigned to (`Shrinking`), so what was
  passed over stays passed over. When a search ends without a match, `Covers` of
  nothing is left, and the insertion keeps keys unequal.
- `IteratorsFaithful`: `Spec => []IterationFaithful`. An iterator of a
  dictionary or a set that has seen the version has yielded what lies before its
  position in the order of the live entries (`OverTable`); one of a weak
  container has yielded or still holds in its snapshot every entry that stayed
  (`OverWeak`). The position is a rank among the live entries: `RankInjective`
  and `RankOnto` say that ranks number them from 1 without a gap, which is why
  an iterator that finds no entry at its position has seen all.

- `ContainersAreMaps`: `Spec => ImplementsMap`. Each step is one of the map or a
  stutter: an operation takes effect where it ends, and what it then does is
  what the map does on its content of that moment, although it searched before
  that, in several steps, with code between. `LookupIs` says that a search ends
  with an entry that has the key, or with 0 when none has it. The content is a list, and the proof reasons about it
  without induction: `Lists` says that every live entry is at its rank, and
  `ListsOnlyContent` that one list alone is so. With ranks, a removal is
  `LessContent` (the ranks among the entries left are those of `Nth`), an
  insertion `MoreContent`, another value `NewValue`. Beside `IInv` the
  map needs `Orderly`: containers without mapped values have none, and while a
  weak dictionary replaces a value its entry stays at the place read before the
  allocation, because all that runs on top of it only reads (`OnlyReads`).

All three ask, as the runs do, that `Exposed` has neither "clear" nor "put": a table
thrown away begins its versions anew, so an operation or an iterator can take it
for the one it knows, and two assignments to a weak container each insert the
key the other one missed (see Findings). "prune" the first two allow; under it the
place of an entry moves, and the third fails.

### SuspendedProofs: suspended objects

The functions of the runtime are operators on states in `Suspended`, so most of
the module is a lemma per function, about any state and not about the
variables: called in a good state, it leaves a good one. `SuspendedInvariant`
puts them together: `Spec => []IInv`, where `IInv` is `Good` of the state.

| Part of `Good` | Says |
|---|---|
| `Typed` | the types of registers, objects, calls and results; which exceptions exist is left free |
| `Placed` | which call makes which: a delegate's method is called by a dispatch, a body is resumed by a method, an operation or a start, ... |
| `Owners` | an operation that was begun owns its async generator, the one that advances it is on the stack once, and so is the body it runs |
| `Marks` | what each call keeps in its Rust locals is what the code it serves left in the registers, in the ambient stack up to the call's checkpoint |
| `Ready` | the registers themselves are those of the innermost code, between the entry of a call and the entry of a body, and after its exit |
| `Ends` | with which results a call of each kind may end |

Between the exchange of the registers and the first step of the body the object
does not count as running yet (a collection may happen there); `Entering` says
what the rest of the invariant is about then.

- `OneOwnerAtATime`: `Spec => []OneOwner`, from `Owners`.
- `CallerFindsItsState`: `Spec => []CallerStateKept`. The property speaks of the
  innermost call when it ends. What it needs is `Marks` of all calls below: the
  code that made a call waits under any number of methods, operations and
  delegates, and bodies resumed meanwhile push and truncate the same stack of
  ambient exceptions. `Marks` therefore also says that checkpoints only grow
  upward, so that no truncation reaches below one that is still needed. `Keeps`
  names the calls that do drop a pending exception: a Throw or Close answered by
  a delegate, and `anext()` with a default (see Findings).

Neither needs that the exceptions named are alive, so both hold for every
`Exposed`. The third theorem is about just that:

- `NothingHeldIsSwept`: `Sparing => (Spec => []HeldAlive)`. While a body runs, what
  its caller had pending and was handling waits in Rust locals of
  `resume_generator`, and comes back afterwards. A collection sees neither. The
  invariant is `Good` and `Lively`, which says where else those exceptions are:

| Part of `Lively` | Says |
|---|---|
| `Alive` | whatever a collection starts from exists, and so do the context and the cause of all that exists |
| `Callings` | code that resumes others deals with one exception at most, and the object of a body that forwards keeps what the body had pending |
| `Sheltered`, `Kept` | what a resumption keeps in its locals is an ambient exception of the code above it; a sequence of one or no member fits into the one ambient place |
| `Bearing` | what a start or a delegate keeps in its locals is what the code it serves has pending, or nothing |
| `Waiting` | a body that is suspended on a delegate deals with one exception at most |
| `Window` | before the body runs, the caller's handlers are still in place, and nothing is collected that could take the pending exception |
| `Clear` | when a call below ends well, what is pending is what the code that waits had, or nothing |
| `Chain` | a StopIteration that ends a delegate has as its context what was pending before it, which is about to be put back |

A collection keeps what is marked, and what is marked is the least set that has the
roots and is closed under context and cause, so `Alive` survives it (`SweptLively`):
all the other parts name members of the roots. `Chain` is the one place where an
exception lives only through the context of another. The hypothesis `Sparing` is
that `Exposed` has neither "nested" nor "close_in_finally", as in the run: with
two exceptions the older is in no ambient place, and an allocation of
GeneratorExit happens when the caller's exception is in no register (see
Findings).

### AttributesProofs: attributes

`ReadsRight` (`ReadsFollowDataModel`), `WritesRight` (`WritesFollowDataModel`) and
`ObserversAreTold` (`ObserversTold`). The runs draw the kinds of object from a few
dozen and the hooks from five families; the theorems hold for all of them: every
native descriptor and every object with any of the three functions, any hooks of
the base and the metaclass, any answers. The proof goes through the cases in the
order of the code (`ReadInstance`, `ReadException`, `ReadClass`, `ReadSuper`,
`SetAlike`, `DeleteAlike`) and shows each to be the one the language prescribes.
The invariant `Kept` has the types, and that `type` holds nothing and only the base
and the metaclass have hooks. The first two ask, as the run does,
that `Exposed` is empty of the four names listed under Findings: the proof says
that the divergences named there are all there are between the two. They are
about the shape of the model: one instance, a class, its base and their metaclass.

### Only model-checked

- Liveness (`root_live`): fairness and ENABLED are beyond the prover.
- The orders of classes, the passes of the analyser, the lowerer, `Execution`
  and calls are recursive over data. What a recursive definition
  computes needs induction with a predicate as a parameter, which the installed
  provers cannot instantiate. This concerns the properties of `ClassHierarchy`,
  `Scopes` and `ControlFlow`, and `CallsBindLikePython` of `MCDataModel`.
- `OperatorsFollowDataModel` and `SubscriptsFollowLanguage`: the language's side is
  stated over sequences of methods asked and over positions of a slice; nothing
  but the length of the case distinctions keeps them from a proof.

## Findings

One is kept as a run. **`control_exits`**: `emit_cleanups_from`
(`lower/mod.rs:4993-5049`) sets `exception_target` outward for each cleanup it
copies and never puts it back. After `if c: break` (or `return`, `continue`)
inside `try`, `with` or `except`, the rest of that region has the handlers of an
outer one: `finally` and `except` are skipped, a handler is not left.

The divergences below were met while modelling. *Shown* means TLC shows it, with
the named switch or a configuration of the module; the others were read. The
properties of the passing runs exclude the shown ones explicitly.

**Lowering and generated code** (`lower/mod.rs`, `codegen/mod.rs`)

- A `return` in a `finally` truncates the cleanups of the statements around it.
- `finally` on the exceptional path runs while the exception is still pending
  in the context; a call in it that catches its own exception loses it, and a
  `return` or `break` there succeeds with a stale exception. *Shown*:
  `pending_effects`.
- A failing truth test of a branch leaves the function instead of going to the
  handler around it. *Shown*: `condition_fails`.
- A failing delegate resume does so too (`codegen:595-611`). *Shown*:
  `closed_delegate`.
- `except*` splits `None` when an earlier clause took everything. *Shown*:
  `exhausted_split`.
- The name of a handler at module or class level is cleared with GlobalDelete or
  a deletion from the class namespace, which raise when the program has deleted
  the name itself: `except E as e: del e` ends with a NameError, and since the
  cleanup block clears the name again (`lower/mod.rs:4659-4661`), HandlerLeave is
  skipped, against `spec/architecture.md:80-82` and
  `spec/gates/5/slice-6.md:10-11`. *Shown*: `unbound_name`.
- Read: binding the name of a handler happens before the handler's own cleanup
  block is the exception target (4635-4639), so a store that is refused leaves
  the handler without HandlerLeave. A name declared `global` inside a function is
  cleared in the same way; the model has the three scopes, not the declaration.
- `a and b and c` tests an earlier operand again (5899-5938);
  `spec/gates/4/slice-8.md` wants only the operands needed tested.
- *Shown*, by programs the families leave out: class decorators are evaluated
  after the class body (1396); class keywords without a metaclass are dropped;
  annotations inside `with` and `match` of a module or class are not set up
  (809-869); a type alias is evaluated eagerly (1420); `import a.b as c` reads
  the attribute `b` (6004); code after `break` or `continue` in a class body
  runs (2734); a `yield` in a default of a lambda is refused (257).
- Read: a metaclass is evaluated after all keywords; `__prepare__` only for an
  explicit one; `__module__` is always `"__main__"`; `assert` and `async for`
  look their exceptions up as globals; a walrus to a global in a class body
  writes the class (5654-5670); a dictionary display stores each entry before
  it evaluates the next; `@name.attr` on a method reads only the class
  namespace (5940-5973); the rest of a mapping pattern is copied first.

**Suspended objects** (`context.rs`, `call.rs`)

- `previous_raised` and `previous_handled` are no roots while the body runs
  (2841, 2862; also 672-679, 573 and `delegate_start`). *Shown*: `nested`,
  `close_in_finally`.
- A Throw or Close answered by a delegate loses an exception pending in a
  `finally` of the outer body; `anext(it, default)` loses a pending exception
  when the iterator ends (`call.rs:970-979`).
- `refresh_result?` (2914) and the failing allocation of `GeneratorExit` (2849)
  leave the object running and the registers swapped.

**Async driver and facade**

- `release_buffer_leases` runs `__release_buffer__` before the completion is
  rooted (`async_driver.rs:587`, `600`, `646`). *Shown*: `root_driver` with
  `ReleaseRunsCode = TRUE` violates `CompletionAlive`.
- Dropping a pending `RuntimeRootTask` never takes its completion, so its slot
  is never retired. If the cancellation exception cannot be allocated, the root
  ends and its coroutine is never closed.
- With `TakeDuringPoll = TRUE`, `ImplementsContract` fails: a resume that shuts
  the facade down and takes its own completion retires the slot, and the poll
  no longer finds the cleanup deferred to it (`lib.rs:580`, `627`). No caller in
  the repository does so.

**Heap and classes**

- `collect` keeps the pending exception in a Rust local while callbacks run
  (`context.rs:348`): a collection caused by a callback may sweep it. *Shown.*
- Weak references are cleared only if marked (`heap.rs:285`), before what the
  hooks need is marked (402): a rescued one yields a stale handle. *Shown.*
- Views are counted out and leases scheduled before that second marking: a view
  that `__del__` makes reachable is open while its buffer is released
  (`heap.rs:350-379`). *Shown.*
- A class reached on two paths is planned twice, and classes below it are
  planned from the first plan (`context.rs:2111`, `5953-5964`). *Shown*, with
  seven classes.
- `base_mro` is computed before the allocation, which may run Python that
  replans the hierarchy without the new class (`context.rs:1920`). *Shown.*
- A member descriptor's index is right in its own class only: with two slotted
  bases, two names share a place (`context.rs:1993`). *Shown.*

The passing properties say what does hold: `MarkedReleaseAfterLastView` of
leases whose views the lifecycle phase did not spare, `ExceptionKept` that the
exception that comes back is the one that was pending (not that it is alive), and
`MroIsC3Undisturbed` of hierarchies in which no assignment planned a class twice
or came while a class was being allocated.

**Analyser** (`sema/mod.rs`): the exemptions of `PlansMatch` and `Known`

- *Shown*: the passes meet nested scopes in different orders in annotated
  assignments, `with` items, decorators of methods (analysed after the body),
  and defaults mixed with annotations of methods.
- *Shown*: a function that declares a name global, between a use of the name
  and its binding, changes what the use means (`GlobalBetween`); a type parameter
  used in a scope nested in its function or class (`TypeParameterNested`); a name
  that a class binds and its methods take from around it
  (`ClassBindsAndPasses`); jumps in a statement nested in a handler of `except*`
  are accepted (`JumpInExceptStar`).
- Read: `global` after a use and `yield` in a comprehension are accepted;
  `match` in a class body and a walrus in a comprehension's iterable refused.

**Import** (`context.rs`)

- A package whose body failed after importing a submodule, imported again, no
  longer finds the submodule (`spec/gates/9/slice-4.md:17-18`).
- *Shown*, by what the properties except: between `cached_module` (6979) and
  `cache_module` (7004) an import allocates, and the collection may run a hook
  that imports the same module. The module is then loaded twice: the later entry
  replaces the hook's, and the body runs again (`overtaken` in
  `OneObjectPerLoad`).
- *Shown* likewise: between the entry in `sys.modules` and the attribute of the
  parent (7262) a hook's `import a.b` finds `a.b` in the cache and raises
  AttributeError, because the attribute is not there yet (`HalfPublished` in
  `LeafIsCached`).
- When the entry itself is refused (7004), the module object stays
  "initializing" although nothing runs it. It is out of everybody's reach, which
  is what `InitializingIsRunning` says of it.
- `import a.b` and `from a.b import x` read the parents' attributes, not
  `sys.modules`; a failed child import removes an attribute the parent had
  before; the parent is looked up anew when it is removed (7269); reload of an
  initializing module is refused, and reload returns the old object.

**Containers** (`operations.rs`, `context.rs`)

- *Shown*: `clear()` and the in-place set operators reset versions, so a search
  or an iterator may not notice (`clear`); the search of a weak container does
  not begin again after a comparison changed it (6672-6700), so a nested
  insertion makes duplicates (`put`); the nested replacement of a value changes
  the weak handle (`prune`).
- Read: constructors compare without identity; namespaces may change while
  iterated; an exhausted list iterator comes back to life; `list.sort`
  overwrites what its key function did; iterators of `zip`, `map`, `filter` and
  `enumerate` are unrooted during calls.

**Attributes**, *shown* by switch: `setter_first`, a descriptor with only
`__set__` hides the instance dictionary; `no_fallback`, `__getattr__` is not
asked after a descriptor's `AttributeError`; `metaclass`, setting and deleting
on a class ignores data descriptors of its metaclass; `exception`, hooks of
exception classes are ignored.

**Operators**, *shown*: the reflected method of an operand of the same class is
asked too; a right operand whose class merely inherits the reflected method
goes first; comparisons give subclasses no priority; `!=` asks `__eq__` of an
operand with its own `__ne__`; `*` refuses an object beside a sequence;
`bytes + bytearray` is refused; `list +=` accepts only lists; `-=`, `&=` and `|=`
on a set whose operand answers the reflected method with something that is no set
are an internal error (`operations.rs:2803-2815`, `sets`); `memoryview ==`
never asks the object; `len()` accepts negative lengths; `in` goes on with
indexing after `__iter__` failed.

**Calls**, *shown*: dispatch on the names of types; `__new__` of an instance
kind is not called; metaclasses called with other than three arguments; what the `__init__` of a
metaclass returns is dropped (`context.rs:1827-1834`, `result`);
`staticmethod` objects are not callable. Read: `__call__` of a metaclass is not
consulted; some errors of binding are recognized by their text (`ffi.rs:97-146`).

**Subscripts**, *shown*: `stale`, slice assignment and deletion use the length
from before the values were iterated; `snapshot`, indexing, `index`, `remove`
and `sort` work on a copy; `none_step`, `memoryview[slice(a, b, None)]` is
refused (`operations.rs:2739`).


## Not modelled

- *Lowering*: the fast paths of `for ... in range(...)` (`lower_for`,
  3915-4233) and native locals, which only avoid boxing; the driver that splits
  module bodies into chunks; `import *`.
- *Compiler elsewhere*: parsing, validation of literals and patterns, the LIR,
  object emission, linking, the build driver, manifests and the CLI: translations
  and file I/O without interleavings.
- *Dynamic code*: the lifetimes of compiled units depend on the allocator of
  machine code. Its table of captured builtins is in `ManagedHeap`, the lowering
  of a dynamic body in `Lowering`. Read: the allocation in `dynamic.rs:176-178`
  may run a finalizer that compiles, and resets `publishing_address`.
- *Runtime*: arithmetic, formatting, builtin functions and the conversion shims
  of `ffi.rs`: sequential data. Byte accounting and thresholds of the heap
  (any allocation may collect). `finalize_for_shutdown`. The dictionary and
  weak-reference flags of classes, builtin layouts, metaclass conflicts.
- *Environment*: the compio adapter is a call into a library; its executor is
  the environment of `TaskArena`. Statistics are left out.
- *Discovery of modules* on disk: `ModuleImport` starts from the registry the
  compiler has written.


## Plan

1. In `ClassHierarchy`, that a refused assignment changes nothing.
2. Range loops and native locals in `Lowering`, with a value domain that tells
   boxed and native values apart.
3. As the code is fixed, the switches in `Exposed`, `TakeDuringPoll`,
   `ReleaseRunsCode` and the exemptions named above give way one by one.
