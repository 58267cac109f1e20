---------------------------- MODULE ManagedHeap -----------------------------
(***************************************************************************)
(* The managed heap (crates/rimera-runtime/src/heap.rs) and the collection *)
(* loop of the runtime context (context.rs): generational handles, marking *)
(* with ephemerons, the lifecycle phase, the sweep, and the Python code a  *)
(* collection runs: __del__, weak-reference callbacks, __release_buffer__  *)
(* and generator Close.                                                    *)
(*                                                                         *)
(* One turn of a collection is atomic, because no Python runs in it.       *)
(* Between turns the scheduled actions run one by one, and each may do     *)
(* whatever Python can: allocate, resurrect, raise, collect again.         *)
(* `stack` is the native call stack as far as it holds roots.              *)
(*                                                                         *)
(* An object is reduced to what collection reads of it.  A "plain" object  *)
(* has no hook; an "instance" has a class with __del__; a "generator" has  *)
(* been started; an "entry" is a weak reference owned by a weak container. *)
(***************************************************************************)
EXTENDS Integers, Sequences, FiniteSets, SequencesExt

CONSTANTS
  Programs,        \* the programs that may run: the kinds of object one allocates,
                   \* the bound on its allocations, and whether it may allocate
                   \* with an exception pending
  MaxSlots,        \* slots in the heap (2^32 in the code)
  MaxGeneration,   \* the last generation of a slot (u32::MAX in the code)
  MaxRoots,        \* bound on the handles a program holds at a time
  MaxDepth         \* bound on nested calls

ASSUME ConstantsAssumption ==
  /\ Programs \subseteq
       [kinds : SUBSET {"plain", "instance", "generator", "function", "weakref",
                        "container", "view"},
        allocations : Nat, raising : BOOLEAN]
  /\ MaxSlots \in Nat \ {0}
  /\ MaxGeneration \in Nat \ {0}
  /\ MaxRoots \in Nat
  /\ MaxDepth \in Nat

Index == 1 .. MaxSlots

(* RValue::handle(index, generation). *)
Handle == Index \X (1 .. MaxGeneration)
Null == <<0, 0>>

Kind == {"plain", "instance", "generator", "function", "weakref", "entry",
         "container", "view", "lease"}

(* HeapObject: `refs` are the handles trace_children visits.  `done` is     *)
(* finalized, finalizer_ran or released; `views` is active_views.  `spared` *)
(* is history: the object outlived a turn only through the lifecycle phase,*)
(* or is a lease one of whose views did.                                   *)
Object ==
  [kind : Kind \cup {"free"}, refs : SUBSET Handle, weak : Handle \cup {Null},
   views : Nat, done : BOOLEAN, ordinal : Nat, spared : BOOLEAN]

Blank(kind, ordinal) ==
  [kind |-> kind, refs |-> {}, weak |-> Null, views |-> 0, done |-> FALSE,
   ordinal |-> ordinal, spared |-> FALSE]

Free == Blank("free", 0)

(* collect: the loop of RimeraContext::collect; callback: Python called by  *)
(* a lifecycle action or by a release; acquire, derive: a memoryview being  *)
(* allocated.  `temp` are the handles with_temporary_roots holds for it,    *)
(* `todo` its actions (Null is Recollect), `saved` the caller's exception. *)
Frame ==
  [op : {"collect", "callback", "acquire", "derive"}, temp : SUBSET Handle,
   todo : Seq(Handle \cup {Null}), saved : Handle \cup {Null}]

Call(op, temp, saved) == [op |-> op, temp |-> temp, todo |-> <<>>, saved |-> saved]

VARIABLES
  program,     \* the program that runs
  object,      \* Slot::object
  generation,  \* Slot::generation, 0 for a slot not pushed yet
  free,        \* Heap::free, popped at its end
  builtins,    \* dynamic.function_builtins: (function, namespace) pairs
  roots,       \* the handles of shadow frames, modules and active calls
  raised,      \* RimeraContext::raised
  stack,       \* calls in progress, innermost last
  issued,      \* history: the handles of all objects ever allocated
  calls        \* history: how often Python was called for each object

heapVars == <<object, generation, free, builtins>>
vars == <<program, heapVars, roots, raised, stack, issued, calls>>

-----------------------------------------------------------------------------

Kinds == program.kinds

Used == {i \in Index : object[i].kind # "free"}
HandleOf(i) == <<i, generation[i]>>

(* Heap::get succeeds. *)
Alive(h) == h[1] \in Used /\ generation[h[1]] = h[2]

(* An object Heap::get yields, by a handle known to be alive. *)
At(h) == object[h[1]]

Top == stack[Len(stack)]
Below == SubSeq(stack, 1, Len(stack) - 1)
HasRoom == Len(stack) < MaxDepth

(* with_temporary_roots has ended for a collection without actions left. *)
Settled(s) ==
  IF s # <<>> /\ s[Len(s)].op = "collect" /\ s[Len(s)].todo = <<>>
  THEN [s EXCEPT ![Len(s)].temp = {}] ELSE s

(* Python code runs, and no exception is on its way to a handler. *)
PythonRuns == raised = Null /\ (stack # <<>> => Top.op = "callback")

(* Mutant: temporary roots are not discovered. *)
RootsOfFrames == roots \cup ({raised} \ {Null})

(* discover_roots. A frame's saved exception is not among them. *)
RootHandles ==
  roots \cup ({raised} \ {Null}) \cup UNION {stack[k].temp : k \in 1 .. Len(stack)}

(* A set of slots no marking step leads out of, pairs being ephemerons. *)
Closed(S, pairs) ==
  /\ \A i \in S : \A h \in object[i].refs : Alive(h) => h[1] \in S
  /\ \A p \in pairs : Alive(p[1]) /\ p[1][1] \in S /\ Alive(p[2]) => p[2][1] \in S

(* mark_values from `from`, and the passes over the ephemerons: the least   *)
(* closed set.                                                             *)
Marked(from, pairs) ==
  LET start == {h[1] : h \in {g \in from : Alive(g)}}
      closed == {S \in SUBSET Used : start \subseteq S /\ Closed(S, pairs)} IN
  {i \in Used : \A S \in closed : i \in S}

(* What the program can get at through strong references. *)
Reachable == Marked(RootHandles, {})

-----------------------------------------------------------------------------
(* One turn: collect_with_ephemerons_and_finalizers.  `live` are the slots  *)
(* that marking reached.                                                   *)

Live == Marked(RootHandles, builtins)

Dead(kind, live) == {i \in Used \ live : object[i].kind = kind}

(* pending_instance_finalizers, those not marked. *)
PendingFinalizers(live) == {i \in Dead("instance", live) : ~object[i].done}

Observing(i) == object[i].kind \in {"weakref", "entry"} /\ object[i].weak # Null

(* Mutant: a referent about to be finalized is not protected. *)
ClearedEagerly(live) ==
  {i \in live : Observing(i) /\ ~(Alive(object[i].weak) /\ object[i].weak[1] \in live)}

(* Reachable weak references whose referent is going away, unless it is     *)
(* first to be finalized.                                                  *)
Cleared(live) ==
  {i \in live :
     /\ Observing(i)
     /\ ~(Alive(object[i].weak) /\ object[i].weak[1] \in live)
     /\ object[i].weak \notin {HandleOf(j) : j \in PendingFinalizers(live)}}

(* Weak containers that lose an entry. *)
Pruned(live) ==
  {i \in live : /\ object[i].kind = "container"
                /\ \E j \in Cleared(live) : HandleOf(j) \in object[i].refs}

(* The slots that something is to be done for. *)
Scheduled(live) ==
  PendingFinalizers(live)
  \cup {i \in Dead("lease", live) \cup Dead("generator", live) : ~object[i].done}
  \cup {i \in Cleared(live) : object[i].refs # {}}

Phase == [instance |-> 1, lease |-> 2, generator |-> 3, weakref |-> 4, entry |-> 4]

(* Finalizers in the order of creation, leases, generators, and callbacks   *)
(* in the reverse order of creation.                                       *)
Sooner(i, j) ==
  LET one == object[i].kind  other == object[j].kind IN
  \/ Phase[one] < Phase[other]
  \/ one = other /\ one = "instance" /\ object[i].ordinal < object[j].ordinal
  \/ one = other /\ one = "weakref" /\ object[i].ordinal > object[j].ordinal
  \/ one = other /\ one \in {"lease", "generator"} /\ i < j

(* The one sequence that lists a set of slots in an order. *)
Listings(S, before(_, _)) ==
  {s \in [1 .. Cardinality(S) -> S] :
     /\ \A i \in S : \E k \in DOMAIN s : s[k] = i
     /\ \A k, m \in DOMAIN s : k < m => before(s[k], s[m])}

BySlot(i, j) == i < j

(* Mutant: pruning a container does not ask for another turn. *)
RecollectNever(live) == <<>>

Recollect(live) == IF Pruned(live) = {} THEN <<>> ELSE <<Null>>

(* The actions of a turn, in the order they will run. *)
Actions(live) ==
  {[k \in DOMAIN s |-> HandleOf(s[k])] \o Recollect(live) :
     s \in Listings(Scheduled(live), Sooner)}

(* LifecycleAction::roots over all actions. *)
ActionRoots(actions) ==
  LET targets == Range(actions) \ {Null} IN
  targets \cup UNION {At(h).refs : h \in {g \in targets : At(g).kind = "weakref"}}

(* Unmarked, unreleased views of the lease in slot i. *)
DeadViews(i, live) ==
  {j \in Dead("view", live) : ~object[j].done /\ HandleOf(i) \in object[j].refs}

Saturating(n, k) == IF n > k THEN n - k ELSE 0

(* A surviving object after the lifecycle phase. *)
AfterTurn(i, live, kept) ==
  [object[i] EXCEPT
     !.weak = IF i \in Cleared(live) THEN Null ELSE @,
     !.refs = IF i \in Pruned(live) THEN {} ELSE @,
     !.views = Saturating(@, Cardinality(DeadViews(i, live))),
     !.spared = \/ @
                \/ object[i].kind # "lease" /\ i \notin live
                \/ DeadViews(i, live) \cap kept # {}]

(* Mutant: a swept slot keeps its generation. *)
SameGeneration(g) == g

(* Sweep: the generation of a freed slot; the last one retires it. *)
SweptGeneration(g) == IF g = MaxGeneration THEN g ELSE g + 1

(* Mark, run the lifecycle phase and sweep.  What the actions need survives *)
(* the sweep.  Without actions the collection ends.                        *)
Turn ==
  /\ stack # <<>>
  /\ Top.op = "collect" /\ Top.todo = <<>>
  /\ \E actions \in Actions(Live) :
     LET live == Live
         kept == live \cup Marked(ActionRoots(actions), {})
         swept == Used \ kept IN
     /\ object' = [i \in Index |->
          IF i \in kept THEN AfterTurn(i, live, kept) ELSE Free]
     /\ generation' = [i \in Index |->
          IF i \in swept THEN SweptGeneration(generation[i]) ELSE generation[i]]
     /\ \E freed \in Listings({i \in swept : generation[i] # MaxGeneration}, BySlot) :
          free' = free \o freed
     /\ IF actions = <<>>
        THEN /\ stack' = Settled(Below)
             /\ builtins' = {p \in builtins : p[1][1] \in kept /\ Alive(p[1])}
        ELSE /\ stack' = Append(Below,
                  [Top EXCEPT !.todo = actions, !.temp = ActionRoots(actions)])
             /\ UNCHANGED builtins
  /\ UNCHANGED <<roots, raised, issued, calls>>

-----------------------------------------------------------------------------
(* Python code a collection or a release calls *)

(* Call Python for the object of handle h, keeping `temp`; the exception of *)
(* the interrupted code is set aside.                                      *)
CallPython(s, h, temp) ==
  /\ stack' = Append(s, Call("callback", temp, raised))
  /\ raised' = Null
  /\ calls' = [calls EXCEPT ![h] = @ + 1]

(* Mutant: __del__ is not recorded before it runs. *)
MarkedAfterRunning(obj) == obj

(* The object once its hook has been started: finalized, finalizer_ran, or   *)
(* released with no views left.                                            *)
Hooked(obj) == [obj EXCEPT !.done = TRUE, !.views = 0]

(* Run the next action: finalize_instance, finalize_buffer_lease and         *)
(* finalize_generator do nothing the second time; a weak reference's        *)
(* callback is called with it.                                             *)
RunAction ==
  /\ stack # <<>>
  /\ Top.op = "collect" /\ Top.todo # <<>>
  /\ HasRoom
  /\ LET h == Head(Top.todo)
         rest == Append(Below, [Top EXCEPT !.todo = Tail(@)]) IN
     IF h = Null \/ At(h).done
     THEN stack' = Settled(rest) /\ UNCHANGED <<object, raised, calls>>
     ELSE /\ object' = IF At(h).kind = "weakref" THEN object
                       ELSE [object EXCEPT ![h[1]] = Hooked(@)]
          /\ CallPython(rest, h, {h} \cup
                 IF At(h).kind \in {"weakref", "lease"} THEN At(h).refs ELSE {})
  /\ UNCHANGED <<generation, free, builtins, roots, issued>>

(* Mutant: an exception left by the callback stays pending. *)
RestoredUnlessRaised == IF raised = Null THEN Top.saved ELSE raised

(* The exception state after a callback, whatever the callback raised. *)
Restored == Top.saved

(* The callback returns or fails; a failure is reported and dropped. *)
CallbackReturns ==
  /\ stack # <<>>
  /\ Top.op = "callback"
  /\ raised' = Restored
  /\ stack' = Settled(Below)
  /\ UNCHANGED <<heapVars, roots, issued, calls>>

(* collect(): by the program, or by an allocation under memory pressure. *)
Collect ==
  /\ stack # <<>> => Top.op # "collect"
  /\ HasRoom
  /\ stack' = Append(stack, Call("collect", {}, raised))
  /\ UNCHANGED <<heapVars, roots, raised, issued, calls>>

-----------------------------------------------------------------------------
(* Python code *)

(* allocate_cached: the slot of the next object. *)
NextSlot(i) ==
  IF free # <<>> THEN i = free[Len(free)]
  ELSE generation[i] = 0 /\ \A j \in Index : generation[j] = 0 => i <= j

Store(i, obj) ==
  /\ NextSlot(i)
  /\ Cardinality(issued) < program.allocations
  /\ object' = [object EXCEPT ![i] = obj]
  /\ generation' = [generation EXCEPT ![i] = IF free = <<>> THEN 1 ELSE @]
  /\ issued' = issued \cup {<<i, generation'[i]>>}
  /\ free' = IF free = <<>> THEN free ELSE SubSeq(free, 1, Len(free) - 1)

(* weakref_sequence, instance_lifecycle_sequence *)
Ordinal == Cardinality(issued)

Hold(h) ==
  /\ roots' = roots \cup {h}
  /\ Cardinality(roots') <= MaxRoots

(* An object that refers to at most one other. *)
New(kind, child) ==
  /\ PythonRuns
  /\ kind \in Kinds
  /\ child \in SUBSET roots /\ Cardinality(child) <= 1
  /\ \E i \in Index :
       /\ Store(i, [Blank(kind, IF kind = "instance" THEN Ordinal ELSE 0)
                      EXCEPT !.refs = child])
       /\ Hold(<<i, generation'[i]>>)
  /\ UNCHANGED <<builtins, raised, stack, calls>>

(* A function made under a namespace with its own __builtins__:             *)
(* capture_function_builtins.                                              *)
NewFunction(namespace) ==
  /\ PythonRuns
  /\ "function" \in Kinds
  /\ namespace \in roots /\ Alive(namespace)
  /\ \E i \in Index :
       /\ Store(i, Blank("function", 0))
       /\ Hold(<<i, generation'[i]>>)
       /\ builtins' = builtins \cup {<<<<i, generation'[i]>>, namespace>>}
  /\ UNCHANGED <<raised, stack, calls>>

(* weakref.ref(referent, callback).  A reference without a callback is      *)
(* shared: any that the heap still holds is returned.                      *)
Canonical(referent) ==
  {i \in Used : object[i].kind = "weakref" /\ object[i].weak = referent
                /\ object[i].refs = {}}

NewWeakref(referent, callback) ==
  /\ PythonRuns
  /\ "weakref" \in Kinds
  /\ referent \in roots
  /\ Alive(referent) /\ At(referent).kind \in {"plain", "instance", "generator", "function"}
  /\ callback \in SUBSET roots /\ Cardinality(callback) <= 1
  /\ IF callback = {} /\ Canonical(referent) # {}
     THEN /\ \E i \in Canonical(referent) : Hold(HandleOf(i))
          /\ UNCHANGED <<object, generation, free, issued>>
     ELSE \E i \in Index :
            /\ Store(i, [Blank("weakref", Ordinal) EXCEPT
                 !.refs = callback, !.weak = referent])
            /\ Hold(<<i, generation'[i]>>)
  /\ UNCHANGED <<builtins, raised, stack, calls>>

(* container[key] = value, into an empty weak container: an observation of  *)
(* the key that the container owns, and the value.                         *)
Insert(container, key, value) ==
  /\ PythonRuns
  /\ {container, key} \subseteq roots
  /\ Alive(container) /\ At(container).kind = "container" /\ At(container).refs = {}
  /\ Alive(key) /\ At(key).kind \in {"plain", "instance", "generator", "function"}
  /\ value \in SUBSET roots /\ Cardinality(value) <= 1
  /\ \E i \in Index :
       /\ NextSlot(i)
       /\ Cardinality(issued) < program.allocations
       /\ generation' = [generation EXCEPT ![i] = IF free = <<>> THEN 1 ELSE @]
       /\ issued' = issued \cup {<<i, generation'[i]>>}
       /\ free' = IF free = <<>> THEN free ELSE SubSeq(free, 1, Len(free) - 1)
       /\ object' = [object EXCEPT
            ![i] = [Blank("entry", 0) EXCEPT !.weak = key],
            ![container[1]].refs = {<<i, generation'[i]>>} \cup value]
  /\ UNCHANGED <<builtins, roots, raised, stack, calls>>

(* target.attribute = value, or del target.attribute. *)
Link(target, value) ==
  /\ PythonRuns
  /\ target \in roots /\ Alive(target)
  /\ At(target).kind \in {"plain", "instance", "generator"}
  /\ value \in SUBSET roots /\ Cardinality(value) <= 1
  /\ At(target).refs # value
  /\ object' = [object EXCEPT ![target[1]].refs = value]
  /\ UNCHANGED <<generation, free, builtins, roots, raised, stack, issued, calls>>

(* A variable goes out of scope or is overwritten. *)
Drop(h) ==
  /\ PythonRuns
  /\ h \in roots
  /\ roots' = roots \ {h}
  /\ UNCHANGED <<heapVars, raised, stack, issued, calls>>

(* Read what a reachable object refers to.  Leases are never Python values. *)
Load(h) ==
  /\ PythonRuns
  /\ h \notin roots
  /\ Hold(h)
  /\ Alive(h) => At(h).kind # "entry"
  /\ \E i \in {j \in Used : h \in object[j].refs} :
       object[i].kind \notin {"lease", "view"} /\ i \in Reachable
  /\ UNCHANGED <<heapVars, raised, stack, issued, calls>>

(* The argument of the running callback. *)
LoadArgument(h) ==
  /\ PythonRuns
  /\ stack # <<>>
  /\ h \in Top.temp \ roots
  /\ At(h).kind # "lease"
  /\ Hold(h)
  /\ UNCHANGED <<heapVars, raised, stack, issued, calls>>

(* Call a weak reference, or look its referent up in a weak container.  A   *)
(* handle that no longer resolves is of no use to the caller: every         *)
(* operation on it fails, and marking skips it.                            *)
Dereference(w) ==
  /\ PythonRuns
  /\ object[w].kind \in {"weakref", "entry"}
  /\ object[w].weak \notin roots \cup {Null}
  /\ Alive(object[w].weak)
  /\ Hold(object[w].weak)
  /\ w \in Reachable
  /\ UNCHANGED <<heapVars, raised, stack, issued, calls>>

(* raise: what follows, up to the handler, is allocation of frames and      *)
(* tracebacks, so only a collection can intervene.                         *)
Raise(h) ==
  /\ PythonRuns
  /\ program.raising
  /\ h \in roots /\ Alive(h) /\ At(h).kind = "plain"
  /\ raised' = h
  /\ roots' = roots \ {h}
  /\ UNCHANGED <<heapVars, stack, issued, calls>>

(* handler_enter *)
Catch ==
  /\ raised # Null
  /\ stack # <<>> => Top.op = "callback"
  /\ Hold(raised)
  /\ raised' = Null
  /\ UNCHANGED <<heapVars, stack, issued, calls>>

-----------------------------------------------------------------------------
(* memoryview over a provider with __buffer__: a view traces its lease, the *)
(* lease its provider. A native export is not modelled.                    *)

LeaseOf(view) == CHOOSE l \in At(view).refs : TRUE

(* memoryview(provider): allocate the lease, count the view to come. *)
Acquire(provider) ==
  /\ PythonRuns
  /\ "view" \in Kinds
  /\ HasRoom
  /\ provider \in roots /\ Alive(provider) /\ At(provider).kind \in {"plain", "instance"}
  /\ \E i \in Index :
       /\ Store(i, [Blank("lease", 0) EXCEPT !.refs = {provider}, !.views = 1])
       /\ stack' = Append(stack,
            Call("acquire", {<<i, generation'[i]>>, provider}, Null))
  /\ UNCHANGED <<builtins, roots, raised, calls>>

(* A slice, a copy or a cast of a view: count it before it is allocated. *)
Derive(view) ==
  /\ PythonRuns
  /\ HasRoom
  /\ view \in roots /\ Alive(view) /\ At(view).kind = "view" /\ ~At(view).done
  /\ LET lease == LeaseOf(view) IN
     /\ ~At(lease).done
     /\ object' = [object EXCEPT ![lease[1]].views = @ + 1]
     /\ stack' = Append(stack, Call("derive", {lease}, Null))
  /\ UNCHANGED <<generation, free, builtins, roots, raised, issued, calls>>

NewViewsLease == CHOOSE l \in Top.temp : At(l).kind = "lease"

ViewAllocated ==
  /\ stack # <<>>
  /\ Top.op \in {"acquire", "derive"}
  /\ \E i \in Index :
       /\ Store(i, [Blank("view", 0) EXCEPT !.refs = {NewViewsLease}])
       /\ Hold(<<i, generation'[i]>>)
  /\ stack' = Below
  /\ UNCHANGED <<builtins, raised, calls>>

(* The heap limit refuses the view: take the count back; a new lease is     *)
(* finalized.                                                              *)
ViewRefused ==
  /\ stack # <<>>
  /\ Top.op \in {"acquire", "derive"}
  /\ LET lease == NewViewsLease IN
     \/ /\ Top.op = "derive"
        /\ object' = [object EXCEPT ![lease[1]].views = Saturating(@, 1)]
        /\ stack' = Below
        /\ UNCHANGED <<raised, calls>>
     \/ /\ Top.op = "acquire"
        /\ IF At(lease).done
           THEN stack' = Below /\ UNCHANGED <<object, raised, calls>>
           ELSE /\ object' = [object EXCEPT ![lease[1]] = Hooked(@)]
                /\ CallPython(Below, lease, Top.temp)
  /\ UNCHANGED <<generation, free, builtins, roots, issued>>

(* Mutant: any release ends the lease. *)
AnyReleaseEnds(lease) == TRUE

(* Is an unreleased view the last its lease counts? *)
LastView(lease) == At(lease).views <= 1

(* memoryview_release, release_buffer_lease_view and finalize_buffer_lease: *)
(* the last view calls __release_buffer__.                                 *)
Release(view) ==
  /\ PythonRuns
  /\ view \in roots /\ Alive(view) /\ At(view).kind = "view" /\ ~At(view).done
  /\ LET lease == LeaseOf(view)
         released == [object EXCEPT ![view[1]].done = TRUE] IN
     IF ~At(lease).done /\ LastView(lease)
     THEN /\ HasRoom
          /\ object' = [released EXCEPT ![lease[1]] = Hooked(@)]
          /\ CallPython(stack, lease, {lease} \cup At(lease).refs)
     ELSE /\ object' = [released EXCEPT ![lease[1]].views = Saturating(@, 1)]
          /\ UNCHANGED <<raised, stack, calls>>
  /\ UNCHANGED <<generation, free, builtins, roots, issued>>

-----------------------------------------------------------------------------

Init ==
  /\ program \in Programs
  /\ object = [i \in Index |-> Free]
  /\ generation = [i \in Index |-> 0]
  /\ free = <<>>
  /\ builtins = {}
  /\ roots = {}
  /\ raised = Null
  /\ stack = <<>>
  /\ issued = {}
  /\ calls = [h \in Handle |-> 0]

(* At most one of the handles the program holds. *)
AtMostOne == {{}} \cup {{h} : h \in roots}

Python ==
  \/ \E kind \in {"plain", "instance", "generator", "container"}, child \in AtMostOne :
       New(kind, child)
  \/ \E h \in roots : NewFunction(h) \/ Drop(h) \/ Raise(h)
  \/ \E h \in roots, value \in AtMostOne :
       NewWeakref(h, value) \/ Link(h, value)
  \/ \E h, key \in roots, value \in AtMostOne : Insert(h, key, value)
  \/ \E h \in Handle : Load(h) \/ LoadArgument(h)
  \/ \E w \in Index : Dereference(w)
  \/ Catch
  \/ \E h \in roots : Acquire(h) \/ Derive(h) \/ Release(h)

Next ==
  /\ \/ Python
     \/ ViewAllocated
     \/ ViewRefused
     \/ Collect
     \/ Turn
     \/ RunAction
     \/ CallbackReturns
  /\ UNCHANGED program

Spec == Init /\ [][Next]_vars

-----------------------------------------------------------------------------
(* Properties *)

(* Type invariant. *)
TypeOK ==
  /\ object \in [Index -> Object]
  /\ generation \in [Index -> 0 .. MaxGeneration]
  /\ free \in Seq(Index)
  /\ builtins \subseteq Handle \X Handle
  /\ roots \subseteq Handle
  /\ raised \in Handle \cup {Null}
  /\ stack \in Seq(Frame)
  /\ issued \subseteq Handle
  /\ calls \in [Handle -> Nat]

(* The handles the running code and its callers still use. *)
Held ==
  roots \cup UNION {stack[k].temp \cup (Range(stack[k].todo) \ {Null}) : k \in 1 .. Len(stack)}

(* What the program can reach is never swept: a root, an argument of a      *)
(* callback still to run, and whatever a reachable object refers to, all   *)
(* resolve, in the middle of nested collections too.  A program that        *)
(* allocates with an exception pending may lose that exception (README).   *)
NoDangling ==
  ~program.raising =>
    /\ \A h \in Held : Alive(h)
    /\ \A i \in Marked(Held, {}) : \A h \in object[i].refs : Alive(h)

(* An exception on its way to a handler is not swept, by a collection that  *)
(* a callback of a collection runs either.                                 *)
PendingExceptionAlive == raised # Null => Alive(raised)

(* Python is called at most once for an object: one __del__, one Close, one *)
(* __release_buffer__, one weak-reference callback, although collections   *)
(* nest and objects are resurrected.                                       *)
HooksOnce == \A h \in Handle : calls[h] <= 1

(* A handle that stopped resolving never resolves again (sweep). *)
NoAlias == [][\A h \in issued : ~Alive(h) => ~Alive(h)']_vars

(* When the outermost collection ends, nothing unreachable is left: a       *)
(* finalized object is gone or was resurrected, and so is the payload of   *)
(* every entry that a weak container lost.                                 *)
CollectComplete ==
  [][stack # <<>> /\ stack' = <<>> /\ Top.op = "collect" =>
       Used' \subseteq Marked(RootHandles, builtins)']_vars

(* An object with __del__ is finalized before any reachable weak reference  *)
(* to it is cleared.                                                       *)
FinalizedBeforeCleared ==
  [][\A i \in Index :
       LET h == object[i].weak IN
       object[i].kind = object'[i].kind /\ h # Null /\ object'[i].weak = Null
         /\ Alive(h) /\ At(h).kind = "instance"
         => calls[h] = 1]_vars

OpenViews(lease) ==
  {i \in Used : object[i].kind = "view" /\ ~object[i].done /\ lease \in object[i].refs}

(* The slots running and interrupted Python code can get at, not counting   *)
(* what a collection in progress keeps for actions it has not run yet.      *)
InProgram ==
  Marked(roots \cup ({raised} \ {Null}) \cup
         UNION {stack[k].temp : k \in {n \in 1 .. Len(stack) : stack[n].op # "collect"}},
         {})

ReleaseOf(i) ==
  /\ object[i].kind = "lease" /\ object'[i].kind = "lease"
  /\ ~object[i].done /\ object'[i].done

(* __release_buffer__ is called when the program holds no open view of the  *)
(* lease any more: it never reads through a view of a released buffer.      *)
ReleaseAfterLastView ==
  [][\A i \in Index :
       ReleaseOf(i) => OpenViews(HandleOf(i))' \cap InProgram = {}]_vars

(* The same, for a lease none of whose views was ever spared by the         *)
(* lifecycle phase.                                                        *)
MarkedReleaseAfterLastView ==
  [][\A i \in Index :
       ReleaseOf(i) /\ ~object[i].spared
         => OpenViews(HandleOf(i))' \cap InProgram = {}]_vars

(* Whatever the callbacks of a collection raise, the code it interrupted    *)
(* finds the exception that was pending before, and nothing else.          *)
ExceptionKept ==
  [][stack # <<>> /\ Top.op = "collect" /\ Len(stack') < Len(stack)
       => raised' = Top.saved]_vars
=============================================================================
