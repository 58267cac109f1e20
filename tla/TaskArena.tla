------------------------------ MODULE TaskArena ------------------------------
(***************************************************************************)
(* The local executor facade (crates/rimera-async-runtime/src/lib.rs): an  *)
(* arena of generational task slots, the RootTask future a backend polls,  *)
(* wakes, cancellation requests, timers, completion transfer and shutdown. *)
(*                                                                         *)
(* Everything runs on one thread, so the interleavings are re-entrancy: no *)
(* arena borrow is held while the runtime's resume callback, its drop_fn   *)
(* or a waker runs, and each of them may call the facade again.  `stack`   *)
(* is the native call stack as far as the facade can see it.               *)
(***************************************************************************)
EXTENDS Integers, Sequences, FiniteSets

CONSTANTS
  Roots,           \* RootTask values, one per successful submit_root
  NoRoot,          \* no RootTask
  Wakers,          \* executor tasks a RootTask may live in, named by waker
  NoWaker,         \* waker: None
  Timers,          \* TimerRegistration values
  MaxSlots,        \* slots whose index fits the id (2^32 in the code)
  MaxGeneration,   \* the last generation of a slot (u32::MAX in the code)
  MaxRequests,     \* bound on cancellation requests
  MaxDepth,        \* bound on nested calls
  TakeDuringPoll   \* may a caller take the completion of a root being polled?

ASSUME ConstantsAssumption ==
  /\ NoRoot \notin Roots
  /\ NoWaker \notin Wakers
  /\ MaxSlots \in Nat \ {0}
  /\ MaxGeneration \in Nat \ {0}
  /\ MaxRequests \in Nat
  /\ MaxDepth \in Nat
  /\ TakeDuringPoll \in BOOLEAN

Index == 0 .. MaxSlots - 1

(* RAsyncTaskId; generation 0 is the id of nothing. *)
TaskId == [index : Index, generation : 0 .. MaxGeneration]
NoTask == [index |-> 0, generation |-> 0]

(* "Runtime" stands for any completion the resume callback wrote itself. *)
Completion == {"none", "Runtime", "Dropped", "Shutdown"}

CancelState == {"Clear", "Requested", "Observed", "Acknowledged"}

(* Option<TaskRecord>: "vacant" is None.  `owner` is the root whose         *)
(* runtime/drop_fn pair was stored at submission.                          *)
TaskRecord ==
  [state : {"vacant", "active", "completed"}, completion : Completion,
   waker : Wakers \cup {NoWaker}, owner : Roots \cup {NoRoot},
   request : 0 .. MaxRequests, cancel : CancelState,
   wakeOutstanding : BOOLEAN, polling : BOOLEAN, cleanupCalled : BOOLEAN]

Vacant ==
  [state |-> "vacant", completion |-> "none", waker |-> NoWaker,
   owner |-> NoRoot, request |-> 0, cancel |-> "Clear",
   wakeOutstanding |-> FALSE, polling |-> FALSE, cleanupCalled |-> FALSE]

Fresh(h) == [Vacant EXCEPT !.state = "active", !.owner = h]

(* idle: pollable; polling: borrowed by its own poll; settling: borrowed,  *)
(* the poll is in its cleanup callback; dropping: in its Drop.             *)
RootPhase ==
  {"unborn", "idle", "polling", "settling", "terminal", "dropping", "gone"}

FrameOp == {"resume", "cleanup", "waker", "signal", "shutdown"}
Frame == [op : FrameOp, root : Roots \cup {NoRoot}, at : 0 .. MaxSlots,
          waker : Wakers \cup {NoWaker}]
Call(op, h) == [op |-> op, root |-> h, at |-> 0, waker |-> NoWaker]

VARIABLES
  len,          \* slots.len()
  generation,   \* Slot::generation, 0 for a slot not pushed yet
  record,       \* Slot::record
  free,         \* the list from free_head through next_free; its last element is the head
  activeTasks,  \* active_tasks
  shutdown,     \* the facade's shutdown flag
  nextRequest,  \* next_cancel_request
  root,         \* the RootTask futures
  timer,        \* the TimerRegistrations and their backend callbacks
  stack,        \* calls in progress, innermost last
  home,         \* the executor task that holds each root
  ready,        \* wakers signalled and not yet followed by a poll
  fate          \* history: what happened to each root's runtime activation

arenaVars == <<len, generation, record, free, activeTasks, shutdown, nextRequest>>
vars == <<arenaVars, root, timer, stack, home, ready, fate>>

-----------------------------------------------------------------------------
(* Arena helpers *)

(* TaskArena::slot and slot_mut succeed. *)
Occupied(t) ==
  /\ t.index < len
  /\ generation[t.index] = t.generation
  /\ record[t.index].state # "vacant"

Active(t) == Occupied(t) /\ record[t.index].state = "active"

Completed(rec, kind) ==
  [rec EXCEPT !.state = "completed", !.completion = kind, !.waker = NoWaker,
              !.wakeOutstanding = FALSE, !.polling = FALSE]

(* Mutant: a slot reissued under the id it had before. *)
SameGeneration(g) == g

(* The generation of a slot after it is retired. *)
NextGeneration(g) == g + 1

(* A retired slot may be issued again, unless its generation is exhausted. *)
Reusable(g) == g # MaxGeneration

(* prepare_wake returns Woken: the id is current and active, a waker is     *)
(* registered, and no wake is outstanding.                                 *)
WakeDue(t) ==
  /\ Active(t)
  /\ record[t.index].waker # NoWaker
  /\ ~record[t.index].wakeOutstanding

(* prepare_wake and WakeAction::fire, applied to `recs`, the arena's        *)
(* records as the caller has just changed them.                            *)
WakeIn(recs, t) ==
  IF WakeDue(t)
  THEN /\ record' = [recs EXCEPT ![t.index].wakeOutstanding = TRUE]
       /\ ready' = ready \cup {<<record[t.index].owner, record[t.index].waker>>}
  ELSE record' = recs /\ UNCHANGED ready

(* Code outside the facade is running and may call it: the backend between *)
(* polls, the runtime inside a callback, or a waker.                       *)
Top == stack[Len(stack)]
UserRuns == stack # <<>> => Top.op \in {"resume", "cleanup", "waker"}

Below == SubSeq(stack, 1, Len(stack) - 1)
HasRoom == Len(stack) < MaxDepth

Resuming(h) ==
  \E k \in 1 .. Len(stack) : stack[k].op = "resume" /\ stack[k].root = h

-----------------------------------------------------------------------------
(* Mutant: a facade that is shut down still takes roots. *)
AcceptingAlways == TRUE

(* TaskArena::allocate's first check. *)
Accepting == ~shutdown

(* submit_root and TaskArena::allocate.  The backend the future is given    *)
(* to polls it once without being woken.  With shutdown set, or with no    *)
(* free slot and no index left, the call fails and changes nothing.        *)
SubmitRoot(h) ==
  /\ UserRuns
  /\ root[h].phase = "unborn"
  /\ Accepting
  /\ \E i \in Index :
       /\ \/ /\ free # <<>>
             /\ i = free[Len(free)]
             /\ free' = SubSeq(free, 1, Len(free) - 1)
             /\ UNCHANGED <<len, generation>>
          \/ /\ free = <<>>
             /\ i = len
             /\ len' = len + 1
             /\ generation' = [generation EXCEPT ![i] = 1]
             /\ UNCHANGED free
       /\ record' = [record EXCEPT ![i] = Fresh(h)]
       /\ root' = [root EXCEPT
            ![h] = [task |-> [index |-> i, generation |-> generation'[i]],
                    phase |-> "idle"]]
  /\ activeTasks' = activeTasks + 1
  /\ ready' = ready \cup {<<h, home[h]>>}
  /\ UNCHANGED <<shutdown, nextRequest, timer, stack, home, fate>>

(* LocalExecutorFacade::wake and wake_from_abi: any holder of an id, live or stale. *)
Wake(h) ==
  /\ UserRuns
  /\ WakeIn(record, root[h].task)
  /\ UNCHANGED <<len, generation, free, activeTasks, shutdown, nextRequest,
                 root, timer, stack, home, fate>>

(* The states in which a request is still to be acted upon. *)
PendingCancel == {"Requested", "Observed"}

(* request_cancel.  A stale or completed task is refused and a request      *)
(* that is not yet acknowledged is coalesced; neither changes anything.    *)
RequestCancel(h) ==
  LET t == root[h].task IN
  /\ UserRuns
  /\ Active(t)
  /\ record[t.index].cancel \notin PendingCancel
  /\ nextRequest <= MaxRequests
  /\ nextRequest' = nextRequest + 1
  /\ WakeIn([record EXCEPT ![t.index].request = nextRequest,
                           ![t.index].cancel = "Requested"], t)
  /\ UNCHANGED <<len, generation, free, activeTasks, shutdown, root, timer,
                 stack, home, fate>>

(* cancellation_transition: state before -> state after. *)
CancelStep(before) ==
  CASE before = "Requested" -> "Observed"
    [] before = "Observed" -> "Acknowledged"

(* cancel_transition_from_abi.  A wrong request id, or a transition the     *)
(* state does not allow, changes nothing.                                  *)
CancelTransition(h, request, transition) ==
  LET t == root[h].task
      rec == record[t.index] IN
  /\ UserRuns
  /\ Occupied(t)
  /\ rec.request = request
  /\ <<rec.cancel, transition>> \in
       {<<"Requested", "Observe">>, <<"Observed", "Acknowledge">>}
  /\ record' = [record EXCEPT ![t.index].cancel = CancelStep(rec.cancel)]
  /\ UNCHANGED <<len, generation, free, activeTasks, shutdown, nextRequest,
                 root, timer, stack, home, ready, fate>>

(* take_completion and TaskArena::retire: the slot is emptied, and reused   *)
(* unless its generation is exhausted.                                     *)
TakeCompletion(h) ==
  LET t == root[h].task
      i == t.index IN
  /\ UserRuns
  /\ TakeDuringPoll \/ root[h].phase # "polling"
  /\ Occupied(t)
  /\ record[i].state = "completed"
  /\ fate' = [fate EXCEPT ![h].taken = record[i].completion]
  /\ record' = [record EXCEPT ![i] = Vacant]
  /\ IF Reusable(generation[i])
     THEN /\ generation' = [generation EXCEPT
               ![i] = NextGeneration(@)]
          /\ free' = Append(free, i)
     ELSE UNCHANGED <<generation, free>>
  /\ UNCHANGED <<len, activeTasks, shutdown, nextRequest, root, timer, stack,
                 home, ready>>

-----------------------------------------------------------------------------
(* RootTask::poll.  The branch for a record already marked polling is left  *)
(* out: a poll borrows its RootTask exclusively until it returns.          *)

(* The completion a poll reports for a root that is no longer active. *)
SettledOutcome(t) == IF Occupied(t) THEN record[t.index].completion ELSE "Shutdown"

(* The slot is gone, or its record is already complete: no callback. *)
PollSettled(h) ==
  LET t == root[h].task IN
  /\ ~Active(t)
  /\ record' = IF Occupied(t)
               THEN [record EXCEPT ![t.index].wakeOutstanding = FALSE] ELSE record
  /\ root' = [root EXCEPT ![h].phase = "terminal"]
  /\ fate' = [fate EXCEPT ![h].result = SettledOutcome(t)]
  /\ UNCHANGED stack

(* Mutants: the poll does not consume the wake; it keeps an older waker. *)
PollMarkKeepsWake(rec, w) == [rec EXCEPT !.waker = w, !.polling = TRUE]
PollMarkKeepsWaker(rec, w) ==
  [rec EXCEPT !.wakeOutstanding = FALSE, !.polling = TRUE,
              !.waker = IF @ = NoWaker THEN w ELSE @]

(* The record after a poll has begun, polled by waker w. *)
PollMark(rec, w) ==
  [rec EXCEPT !.wakeOutstanding = FALSE, !.waker = w, !.polling = TRUE]

(* Consume the wake, register the polling waker, call resume with a context *)
(* that carries the latest cancellation request.                           *)
PollResume(h) ==
  LET i == root[h].task.index IN
  /\ Active(root[h].task)
  /\ HasRoom
  /\ record' = [record EXCEPT ![i] = PollMark(@, home[h])]
  /\ root' = [root EXCEPT ![h].phase = "polling"]
  /\ stack' = Append(stack, Call("resume", h))
  /\ fate' = [fate EXCEPT ![h].heard = record[i].request]

Poll(h) ==
  /\ UserRuns
  /\ root[h].phase = "idle"
  /\ PollSettled(h) \/ PollResume(h)
  /\ ready' = ready \ {<<h, home[h]>>}
  /\ UNCHANGED <<len, generation, free, activeTasks, shutdown, nextRequest,
                 timer, home>>

(* prepare_cleanup finds a cleanup to run. *)
CleanupDeferred(t) == Occupied(t) /\ ~record[t.index].cleanupCalled

(* resume has returned and the record is no longer active: it was completed *)
(* by shutdown while the callback ran, or even retired.  The cleanup that  *)
(* shutdown deferred runs now.                                             *)
ResumeOvertaken(h) ==
  LET t == root[h].task IN
  /\ ~Active(t)
  /\ IF CleanupDeferred(t)
     THEN /\ record' = [record EXCEPT ![t.index].cleanupCalled = TRUE]
          /\ stack' = Append(Below, Call("cleanup", h))
          /\ root' = [root EXCEPT ![h].phase = "settling"]
     ELSE /\ stack' = Below
          /\ root' = [root EXCEPT ![h].phase = "terminal"]
          /\ UNCHANGED record
  /\ fate' = [fate EXCEPT ![h].result = SettledOutcome(t),
                          ![h].cleanups = IF CleanupDeferred(t) THEN @ + 1 ELSE @]
  /\ UNCHANGED activeTasks

(* The record a pending resume leaves behind. *)
PendingRecord(rec) == [rec EXCEPT !.polling = FALSE]

ResumePending(h) ==
  LET i == root[h].task.index IN
  /\ Active(root[h].task)
  /\ record' = [record EXCEPT ![i] = PendingRecord(@)]
  /\ root' = [root EXCEPT ![h].phase = "idle"]
  /\ stack' = Below
  /\ UNCHANGED <<activeTasks, fate>>

ResumeReady(h) ==
  LET i == root[h].task.index IN
  /\ Active(root[h].task)
  /\ record' = [record EXCEPT ![i] = Completed(@, "Runtime")]
  /\ root' = [root EXCEPT ![h].phase = "terminal"]
  /\ fate' = [fate EXCEPT ![h].result = "Runtime"]
  /\ activeTasks' = activeTasks - 1
  /\ stack' = Below

ResumeReturns(h) ==
  /\ stack # <<>>
  /\ Top.op = "resume" /\ Top.root = h
  /\ ResumeOvertaken(h) \/ ResumePending(h) \/ ResumeReady(h)
  /\ UNCHANGED <<len, generation, free, shutdown, nextRequest, timer, home, ready>>

(* RootTask's Drop and TaskArena::drop_task: a root that is still active is *)
(* completed as Dropped and its activation is cleaned up.                  *)
DropRoot(h) ==
  LET t == root[h].task IN
  /\ UserRuns
  /\ root[h].phase \in {"idle", "terminal"}
  /\ IF root[h].phase = "idle" /\ Active(t)
     THEN /\ HasRoom
          /\ record' = [record EXCEPT
               ![t.index] = [Completed(@, "Dropped") EXCEPT !.cleanupCalled = TRUE]]
          /\ activeTasks' = activeTasks - 1
          /\ stack' = Append(stack, Call("cleanup", h))
          /\ root' = [root EXCEPT ![h].phase = "dropping"]
          /\ fate' = [fate EXCEPT ![h].cleanups = @ + 1]
     ELSE /\ root' = [root EXCEPT ![h].phase = "gone"]
          /\ UNCHANGED <<record, activeTasks, stack, fate>>
  /\ UNCHANGED <<len, generation, free, shutdown, nextRequest, timer, home, ready>>

(* drop_fn returns to the poll, the drop or the shutdown that called it. *)
CleanupReturns ==
  /\ stack # <<>>
  /\ Top.op = "cleanup"
  /\ stack' = Below
  /\ root' = [root EXCEPT ![Top.root].phase =
       CASE @ = "settling" -> "terminal" [] @ = "dropping" -> "gone" [] OTHER -> @]
  /\ UNCHANGED <<arenaVars, timer, home, ready, fate>>

-----------------------------------------------------------------------------
(* shutdown walks the slots in place, one slot per step: the runtime's      *)
(* cleanup and the backend's waker run between slots with no borrow held.  *)

ShutdownBegins ==
  /\ UserRuns
  /\ HasRoom
  /\ ~shutdown
  /\ shutdown' = TRUE
  /\ stack' = Append(stack, Call("shutdown", NoRoot))
  /\ UNCHANGED <<len, generation, record, free, activeTasks, nextRequest, root,
                 timer, home, ready, fate>>

ActiveFrom(k) == {i \in Index : i >= k /\ i < len /\ record[i].state = "active"}

(* Mutant: shutdown also cleans up a root whose resume is still running. *)
CleansWhilePolling(rec) == ~rec.cleanupCalled

(* Does shutdown call drop_fn for this record now? A root inside resume is  *)
(* left to its poll.                                                       *)
CleansAtShutdown(rec) == ~rec.polling /\ ~rec.cleanupCalled

ShutdownVisits ==
  /\ stack # <<>>
  /\ Top.op = "shutdown"
  /\ \E i \in ActiveFrom(Top.at) :
       LET rec == record[i]
           cleans == CleansAtShutdown(rec)
           walk == Append(Below, [Top EXCEPT !.at = i + 1])
           wake == IF rec.waker = NoWaker THEN walk
                   ELSE Append(walk, [Call("signal", rec.owner)
                                        EXCEPT !.waker = rec.waker]) IN
       /\ \A j \in ActiveFrom(Top.at) : i <= j
       /\ record' = [record EXCEPT
            ![i] = [Completed(rec, "Shutdown") EXCEPT !.cleanupCalled = @ \/ cleans]]
       /\ stack' = IF cleans THEN Append(wake, Call("cleanup", rec.owner)) ELSE wake
       /\ fate' = IF cleans THEN [fate EXCEPT ![rec.owner].cleanups = @ + 1] ELSE fate
  /\ activeTasks' = activeTasks - 1
  /\ UNCHANGED <<len, generation, free, shutdown, nextRequest, root, timer, home,
                 ready>>

ShutdownReturns ==
  /\ stack # <<>>
  /\ Top.op = "shutdown"
  /\ ActiveFrom(Top.at) = {}
  /\ stack' = Below
  /\ UNCHANGED <<arenaVars, root, timer, home, ready, fate>>

(* waker.wake() at the end of a visit; the waker's own code then runs. *)
SignalWaker ==
  /\ stack # <<>>
  /\ Top.op = "signal"
  /\ ready' = ready \cup {<<Top.root, Top.waker>>}
  /\ stack' = Append(Below, Call("waker", Top.root))
  /\ UNCHANGED <<arenaVars, root, timer, home, fate>>

WakerReturns ==
  /\ stack # <<>>
  /\ Top.op = "waker"
  /\ stack' = Below
  /\ UNCHANGED <<arenaVars, root, timer, home, ready, fate>>

-----------------------------------------------------------------------------
(* register_timer: `armed` is the backend's callback, which outlives a      *)
(* cancellation if the backend delivers it late.                           *)
RegisterTimer(tm, h) ==
  /\ UserRuns
  /\ timer[tm].state = "unset"
  /\ Active(root[h].task)
  /\ timer' = [timer EXCEPT
       ![tm] = [task |-> root[h].task, state |-> "Registered", armed |-> TRUE]]
  /\ UNCHANGED <<arenaVars, root, stack, home, ready, fate>>

(* The closure given to the backend. *)
TimerCallback(tm) ==
  /\ UserRuns
  /\ timer[tm].armed
  /\ IF timer[tm].state = "Registered"
     THEN /\ timer' = [timer EXCEPT ![tm].armed = FALSE, ![tm].state = "Fired"]
          /\ WakeIn(record, timer[tm].task)
     ELSE /\ timer' = [timer EXCEPT ![tm].armed = FALSE]
          /\ UNCHANGED <<record, ready>>
  /\ UNCHANGED <<len, generation, free, activeTasks, shutdown, nextRequest,
                 root, stack, home, fate>>

(* TimerRegistration::cancel, also its Drop. *)
CancelTimer(tm) ==
  /\ UserRuns
  /\ timer[tm].state = "Registered"
  /\ timer' = [timer EXCEPT ![tm].state = "Cancelled"]
  /\ UNCHANGED <<arenaVars, root, stack, home, ready, fate>>

(* The future moves to another executor task, which polls it at least once. *)
Rehome(h) ==
  /\ UserRuns
  /\ root[h].phase = "idle"
  /\ \E w \in Wakers \ {home[h]} :
       /\ home' = [home EXCEPT ![h] = w]
       /\ ready' = ready \cup {<<h, w>>}
  /\ UNCHANGED <<arenaVars, root, timer, stack, fate>>

-----------------------------------------------------------------------------

Init ==
  /\ len = 0
  /\ generation = [i \in Index |-> 0]
  /\ record = [i \in Index |-> Vacant]
  /\ free = <<>>
  /\ activeTasks = 0
  /\ shutdown = FALSE
  /\ nextRequest = 1
  /\ root = [h \in Roots |-> [task |-> NoTask, phase |-> "unborn"]]
  /\ timer = [tm \in Timers |-> [task |-> NoTask, state |-> "unset", armed |-> FALSE]]
  /\ stack = <<>>
  /\ home \in [Roots -> Wakers]
  /\ ready = {}
  /\ fate = [h \in Roots |->
       [heard |-> 0, cleanups |-> 0, result |-> "none", taken |-> "none"]]

RootStep(h) ==
  \/ SubmitRoot(h)
  \/ Wake(h)
  \/ RequestCancel(h)
  \/ TakeCompletion(h)
  \/ Poll(h)
  \/ ResumeReturns(h)
  \/ DropRoot(h)
  \/ Rehome(h)

Next ==
  \/ \E h \in Roots : RootStep(h)
  \/ \E h \in Roots, r \in 0 .. MaxRequests, x \in {"Observe", "Acknowledge"} :
       CancelTransition(h, r, x)
  \/ \E tm \in Timers, h \in Roots : RegisterTimer(tm, h)
  \/ \E tm \in Timers : TimerCallback(tm) \/ CancelTimer(tm)
  \/ CleanupReturns
  \/ ShutdownBegins
  \/ ShutdownVisits
  \/ ShutdownReturns
  \/ SignalWaker
  \/ WakerReturns

Spec == Init /\ [][Next]_vars

-----------------------------------------------------------------------------
(* Properties *)

(* Type invariant. *)
TypeOK ==
  /\ len \in 0 .. MaxSlots
  /\ generation \in [Index -> 0 .. MaxGeneration]
  /\ record \in [Index -> TaskRecord]
  /\ free \in Seq(Index)
  /\ activeTasks \in Int
  /\ shutdown \in BOOLEAN
  /\ nextRequest \in 1 .. MaxRequests + 1
  /\ root \in [Roots -> [task : TaskId, phase : RootPhase]]
  /\ timer \in [Timers ->
       [task : TaskId, state : {"unset", "Registered", "Fired", "Cancelled"},
        armed : BOOLEAN]]
  /\ stack \in Seq(Frame)
  /\ home \in [Roots -> Wakers]
  /\ ready \in SUBSET ((Roots \cup {NoRoot}) \X (Wakers \cup {NoWaker}))
  /\ fate \in [Roots -> [heard : 0 .. MaxRequests, cleanups : Nat,
                         result : Completion, taken : Completion]]

Born(h) == root[h].phase # "unborn"

(* No two roots are ever given the same id, however often a slot is retired *)
(* and reissued, up to and including its last generation: a stale id never *)
(* names another root (TaskArena::retire, the ABA comment).                *)
IdsNeverReused ==
  \A g, h \in Roots : Born(g) /\ Born(h) /\ root[g].task = root[h].task => g = h

InFree(i) == \E k \in 1 .. Len(free) : free[k] = i

(* A wake that was granted is still owed a poll: the waker it signalled has *)
(* not been followed by one.  And an idle root that has been polled is     *)
(* registered with the task it now lives in, or that task will poll it.    *)
NoLostWake ==
  \A h \in Roots :
    LET rec == record[root[h].task.index] IN
    Born(h) /\ Active(root[h].task) =>
      /\ rec.wakeOutstanding => <<h, rec.waker>> \in ready
      /\ root[h].phase = "idle" =>
           rec.waker = home[h] \/ <<h, home[h]>> \in ready

(* Once shutdown has returned nothing is active, whatever its cleanup       *)
(* callbacks and wakers did in the meantime.                               *)
ShutdownDrains ==
  shutdown /\ (\A k \in 1 .. Len(stack) : stack[k].op # "shutdown") =>
    \A i \in Index : record[i].state # "active"

(* What the facade promises about each root, whatever slots and callbacks   *)
(* it takes: see RootContract.                                             *)
Contract == INSTANCE RootContract WITH
  outcome <- [h \in Roots |->
     IF ~Born(h) THEN "unsubmitted"
     ELSE IF fate[h].taken # "none" THEN fate[h].taken
     ELSE IF record[root[h].task.index].state = "active" THEN "pending"
     ELSE record[root[h].task.index].completion],
  inside <- [h \in Roots |-> Resuming(h)],
  released <- [h \in Roots |-> fate[h].cleanups]

(* The arena implements the contract. *)
ImplementsContract == Contract!Spec

(* A wake that was granted is consumed by a poll, unless the root ends. *)
WakeConsumed ==
  \A h \in Roots :
    Active(root[h].task) /\ record[root[h].task.index].wakeOutstanding
      ~> ~(Active(root[h].task) /\ record[root[h].task.index].wakeOutstanding)
=============================================================================
