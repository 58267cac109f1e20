------------------------------ MODULE RootDriver -------------------------------
(***************************************************************************)
(* The async runtime driver (crates/rimera-runtime/src/async_driver.rs) on *)
(* top of the executor facade: what resume_runtime_root and                *)
(* drop_runtime_root do between the facade's call and their return, the     *)
(* roots they register with the collector, buffer leases, and the transfer *)
(* of the completion to the owner of the RuntimeRootTask.                  *)
(*                                                                         *)
(* Every step that touches the arena is a step of TaskArena, so the driver *)
(* is one particular client of the facade.  Between the driver's own        *)
(* statements, code it does not control runs: the coroutine's body, hooks  *)
(* of a collection, and __release_buffer__ callbacks.  `at` says where the *)
(* driver's callback of a root stands, and so whether such code runs.      *)
(***************************************************************************)
EXTENDS TaskArena

CONSTANTS
  Coroutines,       \* coroutine objects that may be submitted
  MaxLeases,        \* bound on the leases of one root
  ReleaseRunsCode   \* do leases come from providers with __release_buffer__?

ASSUME DriverAssumption ==
  /\ Coroutines # {}
  /\ MaxLeases \in Nat
  /\ ReleaseRunsCode \in BOOLEAN

(* Where a root's callback stands.  out: not called; entry: called, nothing *)
(* done; cancel: allocating the cancellation exception; body, closing:      *)
(* inside resume_generator; settle: resume_generator has returned;          *)
(* releasing: inside release_buffer_leases; complete: released; return:     *)
(* about to return; take: inside RuntimeRootTask::poll, the inner poll was   *)
(* ready.                                                                  *)
Place == {"out", "entry", "cancel", "body", "settle", "releasing", "complete",
          "return", "closing", "take"}

(* How the last turn ended. *)
Turn == {"none", "Suspended", "Returned", "Raised", "Cancelled"}

(* Who keeps the value of a root's completion alive: nobody, a Rust local,  *)
(* the kernel (its preallocated MemoryError), completion_root of the        *)
(* RootRuntimeState, or the CompletionRoot the owner received.              *)
Holder == {"nobody", "local", "kernel", "state", "owner"}

(* RootRuntimeState. *)
State == [exists : BOOLEAN, coroutine : Coroutines, leases : 0 .. MaxLeases,
          terminal : BOOLEAN, observed : BOOLEAN, acknowledged : BOOLEAN,
          cleanupCalled : BOOLEAN]

VARIABLES
  at,        \* where each root's callback stands
  request,   \* the cancellation request this turn delivers, 0 for none
  turn,      \* how its last turn ended: the completion it wrote, once terminal
  state,     \* the boxed RootRuntimeState of each root
  holder,    \* who keeps the completion's value alive
  swept,     \* was the value of a root's completion collected: "no", "early"
             \* (while its own leases were released) or "lost"
  raised,    \* the root whose exception is RimeraContext::raised, or NoRoot
  context,   \* context_roots: how often each coroutine, value and lease is in it
  coroutine, \* GeneratorObject: "created", "suspended", "running", "done"
  delivered  \* history: requests whose Throw has returned, per root

driverVars == <<at, request, turn, state, holder, swept, raised, context,
                coroutine, delivered>>
allVars == <<vars, driverVars>>

-----------------------------------------------------------------------------
(* RimeraContext::context_roots, a bag. *)

Registered == ({"coroutine"} \X Coroutines) \cup ({"value", "lease"} \X Roots)

Added(bag, x) == [bag EXCEPT ![x] = @ + 1]

(* remove_context_root; its callers assert that the root is registered. *)
Removed(bag, x) == [bag EXCEPT ![x] = @ - 1]

(* release_buffer_leases on a bag. *)
Unleased(bag, h) == [bag EXCEPT ![<<"lease", h>>] = 0]

(* Where a callback runs code the driver does not control: hooks of a        *)
(* collection, the coroutine's body, release callbacks.                     *)
Open(h) ==
  \/ at[h] \in {"cancel", "body", "closing"}
  \/ (at[h] = "releasing" /\ ReleaseRunsCode /\ state[h].leases > 0)

(* Code the driver does not control runs, and may call it. *)
CodeRuns ==
  /\ UserRuns
  /\ stack # <<>> /\ Top.op \in {"resume", "cleanup"} => Open(Top.root)
  /\ \A h \in Roots : at[h] # "take"

(* The owner of a RuntimeRootTask may use it: lease_buffer, poll and drop     *)
(* need it exclusively, and its owner is not called from its own callback.  *)
OwnerRuns(h) == CodeRuns /\ at[h] = "out"

(* The callback of h is the innermost call. *)
Inside(h, op) == stack # <<>> /\ Top.op = op /\ Top.root = h

Cancel(h) == record[root[h].task.index].cancel

-----------------------------------------------------------------------------
(* submit_root.  A coroutine may be submitted again while it is suspended.  *)
Submit(h) ==
  /\ CodeRuns
  /\ SubmitRoot(h)
  /\ \E c \in Coroutines :
       /\ coroutine[c] \in {"created", "suspended"}
       /\ state' = [state EXCEPT ![h] = [@ EXCEPT !.exists = TRUE, !.coroutine = c]]
       /\ context' = Added(context, <<"coroutine", c>>)
  /\ UNCHANGED <<at, request, turn, holder, swept, raised, coroutine, delivered>>

(* lease_buffer. *)
LeaseBuffer(h) ==
  /\ OwnerRuns(h)
  /\ root[h].phase \in {"idle", "terminal"}
  /\ state[h].leases < MaxLeases
  /\ state' = [state EXCEPT ![h].leases = @ + 1]
  /\ context' = Added(context, <<"lease", h>>)
  /\ UNCHANGED <<vars, at, request, turn, holder, swept, raised, coroutine, delivered>>

(* request_cancel, wake and shutdown go to the facade; the future may move   *)
(* to another executor task.                                                *)
Control(h) ==
  /\ CodeRuns
  /\ RequestCancel(h) \/ Wake(h) \/ (OwnerRuns(h) /\ Rehome(h))
  /\ UNCHANGED driverVars

Shutdown ==
  /\ CodeRuns
  /\ ShutdownBegins
  /\ UNCHANGED driverVars

(* RuntimeRootTask::poll: the facade calls resume, or is ready at once. *)
PollTask(h) ==
  /\ OwnerRuns(h)
  /\ Poll(h)
  /\ at' = [at EXCEPT ![h] = IF root'[h].phase = "polling" THEN "entry" ELSE "take"]
  /\ UNCHANGED <<request, turn, state, holder, swept, raised, context, coroutine, delivered>>

-----------------------------------------------------------------------------
(* resume_runtime_root *)

(* resume_generator with Send or Throw: the body runs, or the call fails at  *)
(* once: already running, already awaited, or thrown into unstarted.        *)
ResumeGenerator(h, throws) ==
  LET c == state[h].coroutine IN
  IF coroutine[c] = "suspended" \/ (coroutine[c] = "created" /\ ~throws)
  THEN /\ coroutine' = [coroutine EXCEPT ![c] = "running"]
       /\ at' = [at EXCEPT ![h] = "body"]
       /\ UNCHANGED <<turn, raised, holder>>
  ELSE /\ coroutine' = [coroutine EXCEPT ![c] = IF @ = "running" THEN @ ELSE "done"]
       /\ at' = [at EXCEPT ![h] = "settle"]
       /\ turn' = [turn EXCEPT
            ![h] = IF throws /\ coroutine[c] # "running" THEN "Cancelled" ELSE "Raised"]
       /\ raised' = h
       /\ holder' = [holder EXCEPT ![h] = "local"]

(* No new request: Send(None).  The branch for a state that is already       *)
(* terminal is never taken (NoTurnAfterTerminal).                           *)
Resume(h) ==
  /\ Inside(h, "resume") /\ at[h] = "entry"
  /\ Cancel(h) # "Requested"
  /\ ResumeGenerator(h, FALSE)
  /\ state' = [state EXCEPT
       ![h].observed = @ \/ Cancel(h) \in {"Observed", "Acknowledged"},
       ![h].acknowledged = @ \/ Cancel(h) = "Acknowledged"]
  /\ request' = [request EXCEPT ![h] = 0]
  /\ UNCHANGED <<vars, swept, context, delivered>>

(* Mutant: a request is observed, and the coroutine resumed as usual. *)
ObserveOnly(h) ==
  /\ Inside(h, "resume") /\ at[h] = "entry"
  /\ CancelTransition(h, record[root[h].task.index].request, "Observe")
  /\ UNCHANGED driverVars

(* A new request is observed first. *)
ObserveCancel(h) ==
  LET r == record[root[h].task.index].request IN
  /\ Inside(h, "resume") /\ at[h] = "entry"
  /\ CancelTransition(h, r, "Observe")
  /\ at' = [at EXCEPT ![h] = "cancel"]
  /\ request' = [request EXCEPT ![h] = r]
  /\ state' = [state EXCEPT ![h].observed = TRUE]
  /\ UNCHANGED <<turn, holder, swept, raised, context, coroutine, delivered>>

(* The exception was allocated: Throw. *)
ThrowCancel(h) ==
  /\ Inside(h, "resume") /\ at[h] = "cancel"
  /\ ResumeGenerator(h, TRUE)
  /\ UNCHANGED <<vars, request, state, swept, context, delivered>>

(* The heap limit refused it: the root ends with the kernel's MemoryError,   *)
(* and its coroutine is neither resumed nor closed.                         *)
FailToThrow(h) ==
  /\ Inside(h, "resume") /\ at[h] = "cancel"
  /\ CancelTransition(h, request[h], "Acknowledge")
  /\ at' = [at EXCEPT ![h] = "releasing"]
  /\ turn' = [turn EXCEPT ![h] = "Raised"]
  /\ holder' = [holder EXCEPT ![h] = "kernel"]
  /\ state' = [state EXCEPT ![h].acknowledged = TRUE]
  /\ UNCHANGED <<request, swept, raised, context, coroutine, delivered>>

(* The body suspends or ends; the cancellation may leave it uncaught. *)
BodyReturns(h) ==
  /\ Inside(h, "resume") /\ at[h] = "body"
  /\ \E how \in Turn \ {"none"} :
       /\ how = "Cancelled" => request[h] # 0
       /\ turn' = [turn EXCEPT ![h] = how]
       /\ coroutine' = [coroutine EXCEPT
            ![state[h].coroutine] = IF how = "Suspended" THEN "suspended" ELSE "done"]
       /\ raised' = IF how \in {"Raised", "Cancelled"} THEN h ELSE raised
       /\ holder' = [holder EXCEPT ![h] = IF how = "Suspended" THEN @ ELSE "local"]
  /\ at' = [at EXCEPT ![h] = "settle"]
  /\ UNCHANGED <<vars, request, state, swept, context, delivered>>

(* The Throw has returned: its request is acknowledged, and only then are    *)
(* the leases of the operation released.  An exception that is pending is    *)
(* taken out of the registers meanwhile (finalize_buffer_lease).            *)
AcknowledgeCancel(h) ==
  /\ Inside(h, "resume") /\ at[h] = "settle" /\ request[h] # 0
  /\ CancelTransition(h, request[h], "Acknowledge")
  /\ delivered' = [delivered EXCEPT ![h] = @ \cup {request[h]}]
  /\ state' = [state EXCEPT ![h].acknowledged = TRUE]
  /\ at' = [at EXCEPT ![h] = "releasing"]
  /\ raised' = NoRoot
  /\ UNCHANGED <<request, turn, holder, swept, context, coroutine>>

(* Mutant: the exception stays in the registers. *)
FinishTurnRaised(h) ==
  /\ Inside(h, "resume") /\ at[h] = "settle" /\ request[h] = 0
  /\ at' = [at EXCEPT ![h] = IF turn[h] = "Suspended" THEN "return" ELSE "releasing"]
  /\ UNCHANGED <<vars, request, turn, state, holder, swept, raised, context, coroutine,
                 delivered>>

(* Without a request, leases are released when the coroutine is over. *)
FinishTurn(h) ==
  /\ Inside(h, "resume") /\ at[h] = "settle" /\ request[h] = 0
  /\ at' = [at EXCEPT ![h] = IF turn[h] = "Suspended" THEN "return" ELSE "releasing"]
  /\ raised' = NoRoot
  /\ UNCHANGED <<vars, request, turn, state, holder, swept, context, coroutine, delivered>>

(* Mutant: the leases go back as soon as the request is observed. *)
ReleaseObserved(h) ==
  /\ Inside(h, "resume") /\ at[h] \in {"cancel", "releasing"}
  /\ state' = [state EXCEPT ![h].leases = 0]
  /\ context' = Unleased(context, h)
  /\ at' = [at EXCEPT ![h] = IF @ = "cancel" THEN @
                            ELSE IF turn[h] = "Suspended" THEN "return" ELSE "complete"]
  /\ UNCHANGED <<vars, request, turn, holder, swept, raised, coroutine, delivered>>

(* release_buffer_leases returns. *)
Release(h) ==
  /\ Inside(h, "resume") /\ at[h] = "releasing"
  /\ state' = [state EXCEPT ![h].leases = 0]
  /\ context' = Unleased(context, h)
  /\ at' = [at EXCEPT ![h] = IF turn[h] = "Suspended" THEN "return" ELSE "complete"]
  /\ UNCHANGED <<vars, request, turn, holder, swept, raised, coroutine, delivered>>

(* root_completion registers the value; an uncaught cancellation has none,   *)
(* and a value that is not a heap handle needs no root.                     *)
HoldsValue(h) == turn[h] # "Cancelled"

(* The completion is written. *)
Complete(h) ==
  /\ Inside(h, "resume") /\ at[h] = "complete"
  /\ \/ /\ HoldsValue(h)
        /\ holder' = [holder EXCEPT ![h] = "state"]
        /\ context' = Added(context, <<"value", h>>)
     \/ /\ ~HoldsValue(h) \/ turn[h] = "Returned"
        /\ holder' = [holder EXCEPT ![h] = "nobody"]
        /\ UNCHANGED context
  /\ state' = [state EXCEPT ![h].terminal = TRUE]
  /\ at' = [at EXCEPT ![h] = "return"]
  /\ UNCHANGED <<vars, request, turn, swept, raised, coroutine, delivered>>

(* The callback returns to the facade, Pending or Ready; a shutdown in the   *)
(* meantime overtakes it, and may have left the activation to be dropped.   *)
Return(h) ==
  /\ Inside(h, "resume") /\ at[h] = "return"
  /\ \/ ResumeOvertaken(h)
     \/ (turn[h] = "Suspended" /\ ResumePending(h))
     \/ (turn[h] # "Suspended" /\ ResumeReady(h))
  /\ at' = [at EXCEPT ![h] = IF root'[h].phase = "terminal" THEN "take" ELSE "out"]
  /\ UNCHANGED <<len, generation, free, shutdown, nextRequest, timer, home, ready,
                 request, turn, state, holder, swept, raised, context, coroutine, delivered>>

(* Mutant: the root goes when the completion is taken, not with its owner. *)
TakeUnrooted(h) ==
  /\ at[h] = "take"
  /\ TakeCompletion(h)
  /\ holder' = [holder EXCEPT
       ![h] = IF @ = "state" /\ record[root[h].task.index].completion = "Runtime"
              THEN "owner" ELSE @]
  /\ context' = [context EXCEPT ![<<"value", h>>] = 0]
  /\ at' = [at EXCEPT ![h] = "out"]
  /\ UNCHANGED <<request, turn, state, swept, raised, coroutine, delivered>>

(* RuntimeRootTask::poll takes the completion and its root.  When shutdown   *)
(* has completed the root, the value stays with the state until that drops.  *)
Take(h) ==
  /\ at[h] = "take"
  /\ TakeCompletion(h)
  /\ holder' = [holder EXCEPT
       ![h] = IF @ = "state" /\ record[root[h].task.index].completion = "Runtime"
              THEN "owner" ELSE @]
  /\ at' = [at EXCEPT ![h] = "out"]
  /\ UNCHANGED <<request, turn, state, swept, raised, context, coroutine, delivered>>

(* CompletionRoot's Drop. *)
DropCompletion(h) ==
  /\ CodeRuns
  /\ holder[h] = "owner"
  /\ holder' = [holder EXCEPT ![h] = "nobody"]
  /\ context' = Removed(context, <<"value", h>>)
  /\ UNCHANGED <<vars, at, request, turn, state, swept, raised, coroutine, delivered>>

-----------------------------------------------------------------------------
(* drop_runtime_root and the drop of a RuntimeRootTask. *)

(* Mutant: only an earlier cleanup is looked at. *)
NeverClosed(h) == ~state[h].cleanupCalled

(* The activation is still to be closed. *)
NeedsClose(h) == ~state[h].cleanupCalled /\ ~state[h].terminal

(* Close: a suspended body runs; an unstarted one is over. *)
DropActivation(h) ==
  LET c == state[h].coroutine IN
  /\ Inside(h, "cleanup") /\ at[h] = "out"
  /\ NeedsClose(h)
  /\ state' = [state EXCEPT ![h].cleanupCalled = TRUE]
  /\ coroutine' = [coroutine EXCEPT
       ![c] = CASE @ = "suspended" -> "running" [] @ = "created" -> "done" [] OTHER -> @]
  /\ at' = [at EXCEPT
       ![h] = IF coroutine[c] = "suspended" THEN "closing" ELSE "releasing"]
  /\ UNCHANGED <<vars, request, turn, holder, swept, raised, context, delivered>>

(* The body has handled GeneratorExit; it may have suspended again.  The     *)
(* caller's exception is restored whatever it did.                          *)
CloseReturns(h) ==
  /\ Inside(h, "cleanup") /\ at[h] = "closing"
  /\ \E after \in {"done", "suspended"} :
       coroutine' = [coroutine EXCEPT ![state[h].coroutine] = after]
  /\ at' = [at EXCEPT ![h] = "releasing"]
  /\ UNCHANGED <<vars, request, turn, state, holder, swept, raised, context, delivered>>

ReleaseDropped(h) ==
  /\ Inside(h, "cleanup") /\ at[h] = "releasing"
  /\ state' = [state EXCEPT ![h].leases = 0, ![h].terminal = TRUE]
  /\ context' = Unleased(context, h)
  /\ at' = [at EXCEPT ![h] = "return"]
  /\ UNCHANGED <<vars, request, turn, holder, swept, raised, coroutine, delivered>>

(* Mutant: the state forgets the completion it still holds. *)
StateDropsCoroutine(h) ==
  Removed(Unleased(context, h), <<"coroutine", state[h].coroutine>>)

(* RootRuntimeState's Drop: leases, completion root, coroutine root. *)
StateDrops(h) ==
  LET rest == Removed(Unleased(context, h), <<"coroutine", state[h].coroutine>>) IN
  IF holder[h] = "state" THEN Removed(rest, <<"value", h>>) ELSE rest

(* If the RuntimeRootTask is gone, its state is dropped with it. *)
DropState(h) ==
  IF root'[h].phase = "gone"
  THEN /\ context' = StateDrops(h)
       /\ state' = [state EXCEPT ![h].exists = FALSE, ![h].leases = 0]
       /\ holder' = [holder EXCEPT ![h] = IF @ = "state" THEN "nobody" ELSE @]
  ELSE UNCHANGED <<context, state, holder>>

(* drop_runtime_root returns, to a poll, a drop or a shutdown. *)
CleanupEnds(h) ==
  /\ Inside(h, "cleanup")
  /\ at[h] = "return" \/ (at[h] = "out" /\ ~NeedsClose(h))
  /\ CleanupReturns
  /\ at' = [at EXCEPT ![h] = IF root'[h].phase = "terminal" /\ root[h].phase = "settling"
                             THEN "take" ELSE "out"]
  /\ DropState(h)
  /\ UNCHANGED <<request, turn, swept, raised, coroutine, delivered>>

(* The owner drops the RuntimeRootTask. *)
DropTask(h) ==
  /\ OwnerRuns(h)
  /\ DropRoot(h)
  /\ DropState(h)
  /\ UNCHANGED <<at, request, turn, swept, raised, coroutine, delivered>>

(* A collection frees the completion values that are not registered. *)
Unregistered(h) ==
  turn[h] \notin {"none", "Suspended"} /\ holder[h] # "kernel" /\ context[<<"value", h>>] = 0

Collect ==
  /\ CodeRuns
  /\ swept' = [h \in Roots |->
       IF swept[h] # "no" \/ ~Unregistered(h) THEN swept[h]
       ELSE IF at[h] = "releasing" THEN "early" ELSE "lost"]
  /\ UNCHANGED <<vars, at, request, turn, state, holder, raised, context, coroutine, delivered>>

-----------------------------------------------------------------------------
DriverInit ==
  /\ Init
  /\ at = [h \in Roots |-> "out"]
  /\ request = [h \in Roots |-> 0]
  /\ turn = [h \in Roots |-> "none"]
  /\ state = [h \in Roots |-> [exists |-> FALSE, coroutine |-> CHOOSE c \in Coroutines : TRUE,
       leases |-> 0, terminal |-> FALSE, observed |-> FALSE, acknowledged |-> FALSE,
       cleanupCalled |-> FALSE]]
  /\ holder = [h \in Roots |-> "nobody"]
  /\ swept = [h \in Roots |-> "no"]
  /\ raised = NoRoot
  /\ context = [x \in Registered |-> 0]
  /\ coroutine = [c \in Coroutines |-> "created"]
  /\ delivered = [h \in Roots |-> {}]

(* The facade's own steps, between its callbacks. *)
FacadeStep ==
  /\ ShutdownVisits \/ ShutdownReturns \/ SignalWaker \/ WakerReturns
  /\ UNCHANGED driverVars

(* What the callback of h does next. *)
CallbackStep(h) ==
  \/ Resume(h)
  \/ ObserveCancel(h)
  \/ ThrowCancel(h)
  \/ FailToThrow(h)
  \/ BodyReturns(h)
  \/ AcknowledgeCancel(h)
  \/ FinishTurn(h)
  \/ Release(h)
  \/ Complete(h)
  \/ Return(h)
  \/ Take(h)
  \/ DropActivation(h)
  \/ CloseReturns(h)
  \/ ReleaseDropped(h)
  \/ CleanupEnds(h)

DriverNext ==
  \/ \E h \in Roots :
       \/ Submit(h)
       \/ LeaseBuffer(h)
       \/ Control(h)
       \/ PollTask(h)
       \/ CallbackStep(h)
       \/ DropCompletion(h)
       \/ DropTask(h)
  \/ Shutdown
  \/ FacadeStep
  \/ Collect

DriverSpec == DriverInit /\ [][DriverNext]_allVars

(* A fair executor polls every woken root, and every callback ends. *)
DriverFairness ==
  /\ \A h \in Roots : SF_allVars(stack = <<>> /\ <<h, home[h]>> \in ready /\ PollTask(h))
  /\ \A d \in 0 .. MaxDepth + 3 :
       SF_allVars(Len(stack) = d /\ (FacadeStep \/ \E h \in Roots : CallbackStep(h)))

DriverFairSpec == DriverSpec /\ DriverFairness

-----------------------------------------------------------------------------
(* Properties *)

(* Type invariant of the driver's variables. *)
DriverTypeOK ==
  /\ at \in [Roots -> Place]
  /\ request \in [Roots -> 0 .. MaxRequests]
  /\ turn \in [Roots -> Turn]
  /\ state \in [Roots -> State]
  /\ holder \in [Roots -> Holder]
  /\ swept \in [Roots -> {"no", "early", "lost"}]
  /\ raised \in Roots \cup {NoRoot}
  /\ context \in [Registered -> Int]
  /\ coroutine \in [Coroutines -> {"created", "suspended", "running", "done"}]
  /\ delivered \in [Roots -> SUBSET (0 .. MaxRequests)]

(* The roots registered with the collector are exactly those the states and  *)
(* the completions handed over account for: none is removed twice, none is   *)
(* left behind, whatever a shutdown or a drop interrupts.                   *)
RootsBalanced ==
  /\ \A c \in Coroutines : context[<<"coroutine", c>>] =
       Cardinality({h \in Roots : state[h].exists /\ state[h].coroutine = c})
  /\ \A h \in Roots :
       /\ context[<<"lease", h>>] = state[h].leases
       /\ context[<<"value", h>>] = IF holder[h] \in {"state", "owner"} THEN 1 ELSE 0

(* A completion value the owner can read was not collected, but for one      *)
(* window: between the end of the coroutine and root_completion the callback *)
(* releases the root's leases, and a __release_buffer__ may run code that    *)
(* collects.  No other code, no shutdown and no drop opens another.          *)
CompletionAlive ==
  \A h \in Roots : holder[h] \in {"state", "owner"} =>
    swept[h] = "no" \/ (swept[h] = "early" /\ ReleaseRunsCode)

(* A root whose state is terminal is not resumed or closed again, and an     *)
(* activation is never dropped from inside its own turn, nor resumed from    *)
(* inside its own Close: a root has one callback on the stack.              *)
NoTurnAfterTerminal ==
  /\ \A h \in Roots :
       at[h] \in {"entry", "cancel", "body", "settle", "closing"} => ~state[h].terminal
  /\ \A i, j \in 1 .. Len(stack) :
       /\ {stack[i].op, stack[j].op} \subseteq {"resume", "cleanup"}
       /\ stack[i].root = stack[j].root
       => i = j

(* Leases outlive the operation: they are given back only after the resume   *)
(* or the Close that may use them has returned, and a cancelled operation's  *)
(* only once the cancellation is acknowledged.                              *)
LeasesOutliveOperation ==
  [][\A h \in Roots : state'[h].leases < state[h].leases =>
       /\ at[h] \notin {"entry", "cancel", "body", "settle", "closing"}
       /\ (Inside(h, "resume") /\ request[h] = record[root[h].task.index].request) =>
            Cancel(h) \notin PendingCancel]_allVars

(* No exception of a root is left in the registers once nothing of the       *)
(* driver is running.                                                       *)
NoExceptionLeaks == stack = <<>> => raised = NoRoot

(* A requested cancellation is acknowledged, or its root ends. *)
CancelAcknowledged ==
  \A h \in Roots :
    (root[h].phase = "idle" /\ Cancel(h) = "Requested")
      ~> (Cancel(h) = "Acknowledged" \/ root[h].phase \in {"terminal", "gone"})
=============================================================================
