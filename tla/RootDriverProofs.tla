--------------------------- MODULE RootDriverProofs ---------------------------
(***************************************************************************)
(* Proofs about RootDriver, for every number of roots, coroutines, leases, *)
(* requests and nested calls.  The driver is a client of the facade, so     *)
(* what is proved of the facade holds under it; its variables keep their   *)
(* types; no exception of a root stays behind in the registers.  Then the  *)
(* invariant of its callbacks (DriverInv), the bag of registered roots      *)
(* (Balanced) and the answered requests (Answers) are shown inductive, and *)
(* with them the driver's safety properties.                               *)
(***************************************************************************)
EXTENDS RootDriver, ContractProofs, FiniteSetTheorems

(* Each step of the driver is a step of the facade, or leaves it alone. *)
LEMMA CallbackIsFacade ==
  ASSUME TypeOK, NEW h \in Roots, CallbackStep(h)
  PROVE  [Next]_vars
<1>1. /\ root[h].task.index \in Index
      /\ record[root[h].task.index].request \in 0 .. MaxRequests
  BY DEF TypeOK, TaskId, TaskRecord
<1>2. ASSUME NEW r, NEW x \in {"Observe", "Acknowledge"}, CancelTransition(h, r, x)
      PROVE  Next
  <2>1. r \in 0 .. MaxRequests
    BY <1>1, <1>2 DEF CancelTransition
  <2> QED
    BY <1>2, <2>1 DEF Next
<1>3. CASE Return(h)
  <2>1. ResumeReturns(h)
    BY <1>3 DEF Return, Inside, ResumeReturns
  <2> QED
    BY <2>1 DEF Next, RootStep
<1>4. CASE Take(h)
  BY <1>4 DEF Take, Next, RootStep
<1>5. CASE CleanupEnds(h)
  BY <1>5 DEF CleanupEnds, Next
<1>6. CASE ObserveCancel(h) \/ FailToThrow(h) \/ AcknowledgeCancel(h)
  BY <1>2, <1>6 DEF ObserveCancel, FailToThrow, AcknowledgeCancel
<1>7. CASE \/ Resume(h) \/ ThrowCancel(h) \/ BodyReturns(h) \/ FinishTurn(h)
           \/ Release(h) \/ Complete(h) \/ DropActivation(h) \/ CloseReturns(h)
           \/ ReleaseDropped(h)
  <2>1. UNCHANGED vars
    BY <1>7 DEF Resume, ThrowCancel, BodyReturns, FinishTurn, Release, Complete,
                DropActivation, CloseReturns, ReleaseDropped
  <2> QED
    BY <2>1
<1> QED
  BY <1>3, <1>4, <1>5, <1>6, <1>7 DEF CallbackStep

LEMMA StepIsFacade ==
  ASSUME TypeOK, [DriverNext]_allVars
  PROVE  [Next]_vars
<1>1. CASE UNCHANGED allVars
  BY <1>1 DEF allVars
<1>2. CASE Shutdown \/ FacadeStep \/ Collect
  BY <1>2 DEF Shutdown, FacadeStep, Collect, Next
<1>3. ASSUME NEW h \in Roots,
             \/ Submit(h) \/ LeaseBuffer(h) \/ Control(h) \/ PollTask(h)
             \/ DropCompletion(h) \/ DropTask(h)
      PROVE  [Next]_vars
  <2>1. CASE LeaseBuffer(h) \/ DropCompletion(h)
    BY <2>1 DEF LeaseBuffer, DropCompletion
  <2>2. CASE Submit(h) \/ Control(h) \/ PollTask(h) \/ DropTask(h)
    <3>1. RootStep(h)
      BY <2>2 DEF Submit, Control, PollTask, DropTask, RootStep
    <3> QED
      BY <3>1 DEF Next
  <2> QED
    BY <1>3, <2>1, <2>2
<1> QED
  BY <1>1, <1>2, <1>3, CallbackIsFacade DEF DriverNext

(* The driver is a client of the facade: whatever it does between two of     *)
(* its callbacks, the arena behaves as TaskArena says it may.              *)
THEOREM DriverUsesFacade == DriverSpec => Spec
<1>1. DriverInit => Init
  BY DEF DriverInit
<1>2. TypeOK /\ [DriverNext]_allVars => TypeOK' /\ [Next]_vars
  BY StepIsFacade, TypeStep
<1> QED
  BY <1>1, <1>2, TypeInit, PTL DEF DriverSpec, Spec

(* So no root of the driver is mistaken for another, and none of its wakes   *)
(* is lost.                                                                *)
THEOREM DriverKeepsWakes == DriverSpec => [](IdsNeverReused /\ NoLostWake)
  BY DriverUsesFacade, IdsUnique, WakesKept, PTL
-----------------------------------------------------------------------------
(* Type correctness.  A state only ever changes by one of these updates.    *)
LEMMA StateUpdates ==
  ASSUME DriverTypeOK, NEW h \in Roots
  PROVE  /\ \A c \in Coroutines :
              [state EXCEPT ![h] = [@ EXCEPT !.exists = TRUE, !.coroutine = c]] \in [Roots -> State]
         /\ [state EXCEPT ![h].exists = FALSE, ![h].leases = 0] \in [Roots -> State]
         /\ [state EXCEPT ![h].leases = 0, ![h].terminal = TRUE] \in [Roots -> State]
         /\ [state EXCEPT ![h].leases = 0] \in [Roots -> State]
         /\ state[h].leases < MaxLeases =>
              [state EXCEPT ![h].leases = @ + 1] \in [Roots -> State]
         /\ [state EXCEPT ![h].terminal = TRUE] \in [Roots -> State]
         /\ [state EXCEPT ![h].observed = TRUE] \in [Roots -> State]
         /\ [state EXCEPT ![h].acknowledged = TRUE] \in [Roots -> State]
         /\ [state EXCEPT ![h].cleanupCalled = TRUE] \in [Roots -> State]
<1>1. state \in [Roots -> State] /\ state[h] \in State
  BY DEF DriverTypeOK
<1>2. 0 \in 0 .. MaxLeases
  BY DriverAssumption
<1>3. state[h].leases < MaxLeases => state[h].leases + 1 \in 0 .. MaxLeases
  BY <1>1, DriverAssumption DEF State
<1>4. /\ \A c \in Coroutines : [state[h] EXCEPT !.exists = TRUE, !.coroutine = c] \in State
      /\ [state[h] EXCEPT !.exists = FALSE, !.leases = 0] \in State
      /\ [state[h] EXCEPT !.leases = 0, !.terminal = TRUE] \in State
      /\ [state[h] EXCEPT !.leases = 0] \in State
      /\ state[h].leases < MaxLeases =>
           [state[h] EXCEPT !.leases = state[h].leases + 1] \in State
      /\ [state[h] EXCEPT !.terminal = TRUE] \in State
      /\ [state[h] EXCEPT !.observed = TRUE] \in State
      /\ [state[h] EXCEPT !.acknowledged = TRUE] \in State
      /\ [state[h] EXCEPT !.cleanupCalled = TRUE] \in State
  BY <1>1, <1>2, <1>3 DEF State
<1> QED
  BY <1>1, <1>4

(* The bag of roots only changes by these updates. *)
LEMMA BagUpdates ==
  ASSUME NEW bag \in [Registered -> Int], NEW x \in Registered, NEW h \in Roots
  PROVE  /\ Added(bag, x) \in [Registered -> Int]
         /\ Removed(bag, x) \in [Registered -> Int]
         /\ Unleased(bag, h) \in [Registered -> Int]
<1>1. bag[x] + 1 \in Int /\ bag[x] - 1 \in Int /\ 0 \in Int
  OBVIOUS
<1> QED
  BY <1>1 DEF Added, Removed, Unleased

LEMMA RegisteredRoots ==
  /\ \A c \in Coroutines : <<"coroutine", c>> \in Registered
  /\ \A h \in Roots : <<"lease", h>> \in Registered /\ <<"value", h>> \in Registered
  BY DEF Registered

LEMMA DriverTypeInit == DriverInit => DriverTypeOK
<1> SUFFICES ASSUME DriverInit PROVE DriverTypeOK
  OBVIOUS
<1>1. (CHOOSE c \in Coroutines : TRUE) \in Coroutines
  BY DriverAssumption
<1>2. state \in [Roots -> State]
  <2>1. 0 \in 0 .. MaxLeases
    BY DriverAssumption
  <2>2. [exists |-> FALSE, coroutine |-> CHOOSE c \in Coroutines : TRUE,
         leases |-> 0, terminal |-> FALSE, observed |-> FALSE, acknowledged |-> FALSE,
         cleanupCalled |-> FALSE] \in State
    BY <1>1, <2>1 DEF State
  <2> QED
    BY <2>2 DEF DriverInit
<1>3. request \in [Roots -> 0 .. MaxRequests]
  BY ConstantsAssumption DEF DriverInit
<1> QED
  BY <1>2, <1>3 DEF DriverInit, DriverTypeOK, Place, Turn, Holder

(* Dropping a state, or not. *)
LEMMA DropStateTypes ==
  ASSUME DriverTypeOK, NEW h \in Roots, DropState(h)
  PROVE  /\ context' \in [Registered -> Int]
         /\ state' \in [Roots -> State]
         /\ holder' \in [Roots -> Holder]
<1>1. /\ context \in [Registered -> Int]
      /\ state[h].coroutine \in Coroutines
  BY DEF DriverTypeOK, State
<1>2. StateDrops(h) \in [Registered -> Int]
  <2> DEFINE rest == Removed(Unleased(context, h), <<"coroutine", state[h].coroutine>>)
  <2>1. rest \in [Registered -> Int]
    BY <1>1, BagUpdates, RegisteredRoots
  <2>2. Removed(rest, <<"value", h>>) \in [Registered -> Int]
    BY <2>1, BagUpdates, RegisteredRoots
  <2> QED
    BY <2>1, <2>2 DEF StateDrops
<1>3. [state EXCEPT ![h].exists = FALSE, ![h].leases = 0] \in [Roots -> State]
  BY <1>1, StateUpdates
<1> QED
  BY <1>1, <1>2, <1>3 DEF DropState, DriverTypeOK, Holder

(* The owner's calls. *)
LEMMA OwnerTypes ==
  ASSUME TypeOK, DriverTypeOK, NEW h \in Roots,
         \/ Submit(h) \/ LeaseBuffer(h) \/ Control(h) \/ PollTask(h)
         \/ DropCompletion(h) \/ DropTask(h)
  PROVE  DriverTypeOK'
<1> context \in [Registered -> Int]
  BY DEF DriverTypeOK
<1>1. CASE Submit(h)
  <2>1. PICK c \in Coroutines :
          /\ state' = [state EXCEPT ![h] = [@ EXCEPT !.exists = TRUE, !.coroutine = c]]
          /\ context' = Added(context, <<"coroutine", c>>)
    BY <1>1 DEF Submit
  <2>2. state' \in [Roots -> State]
    BY <2>1, StateUpdates
  <2>3. context' \in [Registered -> Int]
    BY <2>1, BagUpdates, RegisteredRoots
  <2> QED
    BY <1>1, <2>2, <2>3 DEF Submit, DriverTypeOK
<1>2. CASE LeaseBuffer(h)
  <2>1. state' \in [Roots -> State]
    BY <1>2, StateUpdates DEF LeaseBuffer
  <2>2. context' \in [Registered -> Int]
    BY <1>2, BagUpdates, RegisteredRoots DEF LeaseBuffer
  <2> QED
    BY <1>2, <2>1, <2>2 DEF LeaseBuffer, DriverTypeOK
<1>3. CASE Control(h)
  BY <1>3 DEF Control, driverVars, DriverTypeOK
<1>4. CASE PollTask(h)
  BY <1>4 DEF PollTask, DriverTypeOK, Place
<1>5. CASE DropCompletion(h)
  BY <1>5, BagUpdates, RegisteredRoots DEF DropCompletion, DriverTypeOK, Holder
<1>6. CASE DropTask(h)
  BY <1>6, DropStateTypes DEF DropTask, DriverTypeOK
<1> QED
  BY <1>1, <1>2, <1>3, <1>4, <1>5, <1>6

(* resume_generator. *)
LEMMA ResumeGeneratorTypes ==
  ASSUME DriverTypeOK, NEW h \in Roots, NEW throws \in BOOLEAN, ResumeGenerator(h, throws)
  PROVE  /\ at' \in [Roots -> Place]
         /\ turn' \in [Roots -> Turn]
         /\ raised' \in Roots \cup {NoRoot}
         /\ holder' \in [Roots -> Holder]
         /\ coroutine' \in [Coroutines -> {"created", "suspended", "running", "done"}]
  BY DEF ResumeGenerator, DriverTypeOK, Place, Turn, Holder

(* The callbacks. *)
LEMMA CallbackTypes ==
  ASSUME TypeOK, DriverTypeOK, NEW h \in Roots, CallbackStep(h)
  PROVE  DriverTypeOK'
<1> /\ context \in [Registered -> Int]
    /\ state[h].observed \in BOOLEAN /\ state[h].acknowledged \in BOOLEAN
  BY DEF DriverTypeOK, State
<1>1. /\ record[root[h].task.index].request \in 0 .. MaxRequests
      /\ Cancel(h) \in CancelState
  BY DEF TypeOK, TaskId, TaskRecord, Cancel
<1>2. 0 \in 0 .. MaxRequests
  BY ConstantsAssumption
<1>3. CASE Resume(h)
  <2>1. state' \in [Roots -> State]
    <3> DEFINE o == state[h].observed \/ Cancel(h) \in {"Observed", "Acknowledged"}
               a == state[h].acknowledged \/ Cancel(h) = "Acknowledged"
    <3>1. state' = [state EXCEPT ![h].observed = o, ![h].acknowledged = a]
      BY <1>3 DEF Resume, DriverTypeOK
    <3>2. o \in BOOLEAN /\ a \in BOOLEAN
      OBVIOUS
    <3> HIDE DEF o, a
    <3>3. [state[h] EXCEPT !.observed = o, !.acknowledged = a] \in State
      BY <3>2 DEF DriverTypeOK, State
    <3> QED
      BY <3>1, <3>3 DEF DriverTypeOK
  <2> QED
    BY <1>2, <1>3, <2>1, ResumeGeneratorTypes DEF Resume, DriverTypeOK
<1>4. CASE ObserveCancel(h)
  <2>1. state' \in [Roots -> State]
    BY <1>4, StateUpdates DEF ObserveCancel
  <2> QED
    BY <1>1, <1>4, <2>1 DEF ObserveCancel, DriverTypeOK, Place
<1>5. CASE ThrowCancel(h)
  BY <1>5, ResumeGeneratorTypes DEF ThrowCancel, DriverTypeOK
<1>6. CASE FailToThrow(h)
  <2>1. state' \in [Roots -> State]
    BY <1>6, StateUpdates DEF FailToThrow
  <2> QED
    BY <1>6, <2>1 DEF FailToThrow, DriverTypeOK, Place, Turn, Holder
<1>7. CASE BodyReturns(h)
  <2>1. PICK how \in Turn \ {"none"} :
          /\ turn' = [turn EXCEPT ![h] = how]
          /\ coroutine' = [coroutine EXCEPT
               ![state[h].coroutine] = IF how = "Suspended" THEN "suspended" ELSE "done"]
          /\ raised' = IF how \in {"Raised", "Cancelled"} THEN h ELSE raised
          /\ holder' = [holder EXCEPT ![h] = IF how = "Suspended" THEN @ ELSE "local"]
    BY <1>7 DEF BodyReturns
  <2> QED
    BY <1>7, <2>1 DEF BodyReturns, DriverTypeOK, Place, Holder
<1>8. CASE AcknowledgeCancel(h)
  <2>1. state' \in [Roots -> State]
    BY <1>8, StateUpdates DEF AcknowledgeCancel
  <2> QED
    BY <1>8, <2>1 DEF AcknowledgeCancel, DriverTypeOK, Place
<1>9. CASE FinishTurn(h)
  BY <1>9 DEF FinishTurn, DriverTypeOK, Place
<1>10. CASE Release(h)
  <2>1. state' \in [Roots -> State]
    BY <1>10, StateUpdates DEF Release
  <2>2. context' \in [Registered -> Int]
    BY <1>10, BagUpdates, RegisteredRoots DEF Release
  <2> QED
    BY <1>10, <2>1, <2>2 DEF Release, DriverTypeOK, Place
<1>11. CASE Complete(h)
  <2>1. state' \in [Roots -> State]
    BY <1>11, StateUpdates DEF Complete
  <2>2. context' \in [Registered -> Int]
    BY <1>11, BagUpdates, RegisteredRoots DEF Complete
  <2> QED
    BY <1>11, <2>1, <2>2 DEF Complete, DriverTypeOK, Place, Holder
<1>12. CASE Return(h)
  BY <1>12 DEF Return, DriverTypeOK, Place
<1>13. CASE Take(h)
  BY <1>13 DEF Take, DriverTypeOK, Place, Holder
<1>14. CASE DropActivation(h)
  <2>1. state' \in [Roots -> State]
    BY <1>14, StateUpdates DEF DropActivation
  <2> QED
    BY <1>14, <2>1 DEF DropActivation, DriverTypeOK, Place
<1>15. CASE CloseReturns(h)
  BY <1>15 DEF CloseReturns, DriverTypeOK, Place
<1>16. CASE ReleaseDropped(h)
  <2>1. state' \in [Roots -> State]
    BY <1>16, StateUpdates DEF ReleaseDropped
  <2>2. context' \in [Registered -> Int]
    BY <1>16, BagUpdates, RegisteredRoots DEF ReleaseDropped
  <2> QED
    BY <1>16, <2>1, <2>2 DEF ReleaseDropped, DriverTypeOK, Place
<1>17. CASE CleanupEnds(h)
  BY <1>17, DropStateTypes DEF CleanupEnds, DriverTypeOK, Place
<1> QED
  BY <1>3, <1>4, <1>5, <1>6, <1>7, <1>8, <1>9, <1>10, <1>11, <1>12, <1>13, <1>14, <1>15,
     <1>16, <1>17 DEF CallbackStep

LEMMA DriverTypeStep ==
  TypeOK /\ DriverTypeOK /\ [DriverNext]_allVars => DriverTypeOK'
<1> SUFFICES ASSUME TypeOK, DriverTypeOK, [DriverNext]_allVars PROVE DriverTypeOK'
  OBVIOUS
<1>1. CASE UNCHANGED allVars
  BY <1>1 DEF allVars, driverVars, DriverTypeOK
<1>2. CASE Shutdown \/ FacadeStep
  BY <1>2 DEF Shutdown, FacadeStep, driverVars, DriverTypeOK
<1>3. CASE Collect
  BY <1>3 DEF Collect, DriverTypeOK
<1> QED
  BY <1>1, <1>2, <1>3, OwnerTypes, CallbackTypes DEF DriverNext

(* The driver's own variables keep their types. *)
THEOREM DriverTypeCorrect == DriverSpec => []DriverTypeOK
<1>1. DriverSpec => []TypeOK
  BY DriverUsesFacade, TypeCorrect, PTL
<1> QED
  BY <1>1, DriverTypeInit, DriverTypeStep, PTL DEF DriverSpec

-----------------------------------------------------------------------------
(* Only between the return of resume_generator and the statement that takes  *)
(* it is an exception of a root in the registers; the callback that will    *)
(* take it is the innermost call then, and calls nothing.                   *)
Settling == raised # NoRoot => Inside(raised, "resume") /\ at[raised] = "settle"

LEMMA SettlingStep ==
  TypeOK /\ DriverTypeOK /\ Settling /\ [DriverNext]_allVars => Settling'
<1> SUFFICES ASSUME TypeOK, DriverTypeOK, Settling, [DriverNext]_allVars,
                    raised' # NoRoot
             PROVE  Inside(raised, "resume")' /\ at'[raised'] = "settle"
  BY DEF Settling
<1> raised \in Roots \cup {NoRoot} /\ at \in [Roots -> Place]
  BY DEF DriverTypeOK
<1>1. CASE UNCHANGED <<stack, at, raised>>
  BY <1>1 DEF Settling, Inside, Top
<1>2. ASSUME CodeRuns, raised' = raised PROVE FALSE
  BY <1>2 DEF CodeRuns, Settling, Inside, Open
<1>3. CASE Shutdown \/ Collect
  BY <1>2, <1>3 DEF Shutdown, Collect, driverVars
<1>4. CASE FacadeStep
  BY <1>4 DEF FacadeStep, ShutdownVisits, ShutdownReturns, SignalWaker, WakerReturns,
              driverVars, Settling, Inside
<1>5. ASSUME NEW h \in Roots,
             \/ Submit(h) \/ LeaseBuffer(h) \/ Control(h) \/ PollTask(h)
             \/ DropCompletion(h) \/ DropTask(h)
      PROVE  FALSE
  BY <1>2, <1>5 DEF Submit, LeaseBuffer, Control, PollTask, DropCompletion, DropTask,
                    OwnerRuns, driverVars
<1>6. ASSUME NEW h \in Roots, CallbackStep(h)
      PROVE  Inside(raised, "resume")' /\ at'[raised'] = "settle"
  <2>1. ASSUME NEW throws \in BOOLEAN, ResumeGenerator(h, throws), UNCHANGED vars,
               Inside(h, "resume"), at[h] \in {"entry", "cancel"}
        PROVE  Inside(raised, "resume")' /\ at'[raised'] = "settle"
    <3>1. raised = NoRoot
      BY <2>1 DEF Settling, Inside
    <3> QED
      BY <2>1, <3>1 DEF ResumeGenerator, Inside, Top, vars
  <2>2. CASE Resume(h) \/ ThrowCancel(h)
    BY <2>1, <2>2 DEF Resume, ThrowCancel
  <2>3. CASE BodyReturns(h)
    <3>1. raised = NoRoot
      BY <2>3 DEF BodyReturns, Settling, Inside
    <3> QED
      BY <2>3, <3>1 DEF BodyReturns, Inside, Top, vars
  <2>4. CASE AcknowledgeCancel(h) \/ FinishTurn(h)
    BY <2>4 DEF AcknowledgeCancel, FinishTurn
  <2>5. ASSUME raised' = raised, at[h] # "settle",
               Inside(h, "resume") \/ Inside(h, "cleanup")
        PROVE  FALSE
    BY <2>5 DEF Settling, Inside
  <2>6. CASE \/ ObserveCancel(h) \/ FailToThrow(h) \/ Release(h) \/ Complete(h)
             \/ Return(h)
    BY <2>5, <2>6 DEF ObserveCancel, FailToThrow, Release, Complete, Return
  <2>7. CASE \/ DropActivation(h) \/ CloseReturns(h) \/ ReleaseDropped(h)
             \/ CleanupEnds(h)
    BY <2>5, <2>7 DEF DropActivation, CloseReturns, ReleaseDropped, CleanupEnds
  <2>8. CASE Take(h)
    BY <2>8 DEF Take, TakeCompletion, Settling, Inside, Top
  <2> QED
    BY <1>6, <2>2, <2>3, <2>4, <2>6, <2>7, <2>8 DEF CallbackStep
<1> QED
  BY <1>1, <1>3, <1>4, <1>5, <1>6 DEF DriverNext, allVars, vars, driverVars

(* When nothing of the driver is running, no exception of a root is pending: *)
(* the next code to run does not find a stranger's exception.              *)
THEOREM ExceptionsKept == DriverSpec => []NoExceptionLeaks
<1>1. DriverInit => Settling
  BY DEF DriverInit, Settling
<1>2. Settling => NoExceptionLeaks
  BY DEF Settling, NoExceptionLeaks, Inside
<1>3. DriverSpec => []TypeOK
  BY DriverUsesFacade, TypeCorrect, PTL
<1> QED
  BY <1>1, <1>2, <1>3, DriverTypeCorrect, SettlingStep, PTL DEF DriverSpec

-----------------------------------------------------------------------------
(* The driver's callbacks on the stack *)

Callback == {"resume", "cleanup"}

Cleaning(h) == \E k \in 1 .. Len(stack) : stack[k].op = "cleanup" /\ stack[k].root = h

Called(h) == Resuming(h) \/ Cleaning(h)

(* A root has one callback at a time, and one that is not innermost is       *)
(* running code that may have called out.                                  *)
OneCallback ==
  /\ \A k \in 1 .. Len(stack) : stack[k].op \in Callback => stack[k].root \in Roots
  /\ \A j, k \in 1 .. Len(stack) :
       stack[j].op \in Callback /\ stack[k].op \in Callback /\ stack[j].root = stack[k].root => j = k

Nested ==
  \A g \in Roots, k \in 1 .. Len(stack) :
    k < Len(stack) /\ stack[k].op \in Callback /\ stack[k].root = g => Open(g)

Steady(g) == at'[g] = at[g] /\ state'[g].leases = state[g].leases

(* What running code, the owner and an innermost callback may rely on. *)
LEMMA Running ==
  ASSUME TypeOK, OneCallback, Nested
  PROVE  /\ CodeRuns => \A g \in Roots : Called(g) => Open(g)
         /\ \A h \in Roots : OwnerRuns(h) => ~Called(h)
         /\ \A h \in Roots : Inside(h, "resume") => Resuming(h) /\ ~Cleaning(h)
         /\ \A h \in Roots : Inside(h, "cleanup") => Cleaning(h) /\ ~Resuming(h)
         /\ \A h, g \in Roots : Inside(h, "resume") \/ Inside(h, "cleanup") =>
              (g # h /\ Called(g) => Open(g))
<1> DEFINE n == Len(stack)
<1>1. n \in Nat /\ (stack # <<>> => n \in 1 .. n /\ Top = stack[n]) /\ (n # 0 => stack # <<>>)
  BY Shapes DEF TypeOK
<1>2. /\ \A j, k \in 1 .. n :
           stack[j].op \in Callback /\ stack[k].op \in Callback /\ stack[j].root = stack[k].root => j = k
      /\ \A g \in Roots, k \in 1 .. n :
           k < n /\ stack[k].op \in Callback /\ stack[k].root = g => Open(g)
  BY DEF OneCallback, Nested
<1>3. \A g \in Roots : /\ Resuming(g) <=> \E k \in 1 .. n : stack[k].op = "resume" /\ stack[k].root = g
                       /\ Cleaning(g) <=> \E k \in 1 .. n : stack[k].op = "cleanup" /\ stack[k].root = g
  BY DEF Resuming, Cleaning
<1> HIDE DEF n
<1>4. ASSUME CodeRuns, NEW g \in Roots, Called(g) PROVE Open(g)
  <2>1. PICK k \in 1 .. n : stack[k].op \in Callback /\ stack[k].root = g
    BY <1>3, <1>4 DEF Called, Callback
  <2>2. CASE k < n
    BY <1>2, <2>1, <2>2
  <2>3. CASE k = n
    <3>1. stack # <<>> /\ Top = stack[n]
      BY <1>1, <2>3
    <3> QED
      BY <1>4, <2>1, <2>3, <3>1 DEF CodeRuns, Callback
  <2> QED
    BY <1>1, <2>2, <2>3
<1>5. ASSUME NEW h \in Roots, OwnerRuns(h) PROVE ~Called(h)
  BY <1>4, <1>5 DEF OwnerRuns, Open
<1>6. ASSUME NEW h \in Roots, NEW op \in Callback, Inside(h, op)
      PROVE  /\ n \in 1 .. n /\ stack[n].op = op /\ stack[n].root = h
             /\ \A g \in Roots : g # h /\ Called(g) => Open(g)
             /\ \A k \in 1 .. n : stack[k].op \in Callback /\ stack[k].root = h => k = n
  <2>1. n \in 1 .. n /\ stack[n].op = op /\ stack[n].root = h
    BY <1>1, <1>6 DEF Inside
  <2>2. \A k \in 1 .. n : stack[k].op \in Callback /\ stack[k].root = h => k = n
    BY <1>2, <1>6, <2>1
  <2>3. ASSUME NEW g \in Roots, g # h, Called(g) PROVE Open(g)
    <3>1. PICK k \in 1 .. n : stack[k].op \in Callback /\ stack[k].root = g
      BY <1>3, <2>3 DEF Called, Callback
    <3>2. k < n
      BY <1>1, <2>1, <2>3, <3>1
    <3> QED
      BY <1>2, <3>1, <3>2
  <2> QED
    BY <2>1, <2>2, <2>3
<1>7. ASSUME NEW h \in Roots, Inside(h, "resume") PROVE Resuming(h) /\ ~Cleaning(h)
  BY <1>3, <1>6, <1>7 DEF Callback
<1>8. ASSUME NEW h \in Roots, Inside(h, "cleanup") PROVE Cleaning(h) /\ ~Resuming(h)
  BY <1>3, <1>6, <1>8 DEF Callback
<1> QED
  BY <1>4, <1>5, <1>6, <1>7, <1>8 DEF Callback

(* Nothing called and nothing left. *)
LEMMA StackKept ==
  ASSUME TypeOK, OneCallback, Nested, Unstacked,
         \A g \in Roots : Steady(g) \/ ~Called(g) \/ Inside(g, "resume") \/ Inside(g, "cleanup")
  PROVE  OneCallback' /\ Nested' /\ \A g \in Roots : Cleaning(g)' <=> Cleaning(g)
<1> DEFINE n == Len(stack)
<1>1. n \in Nat /\ (stack # <<>> => n \in 1 .. n /\ Top = stack[n]) /\ stack \in Seq(Frame)
  BY Shapes
<1>2. Len(stack') = n /\ \A k \in 1 .. n : stack'[k] = stack[k]
  BY DEF Unstacked
<1>3. OneCallback' /\ \A g \in Roots : Cleaning(g)' <=> Cleaning(g)
  BY <1>2 DEF OneCallback, Cleaning
<1>4. ASSUME NEW k \in 1 .. n, NEW g \in Roots, k < n, stack[k].op \in Callback, stack[k].root = g
      PROVE  Open(g)'
  <2>1. Open(g) /\ Called(g)
    BY <1>4 DEF Nested, Called, Resuming, Cleaning, Callback
  <2>2. ~Inside(g, "resume") /\ ~Inside(g, "cleanup")
    BY <1>1, <1>4 DEF Inside, OneCallback, Callback
  <2> QED
    BY <2>1, <2>2 DEF Steady, Open
<1> QED
  BY <1>2, <1>3, <1>4 DEF Nested

(* A call is made. *)
LEMMA StackPushed ==
  ASSUME TypeOK, OneCallback, Nested, NEW f \in Frame, Pushed(f),
         \A g \in Roots : Steady(g) \/ ~Called(g),
         stack # <<>> /\ Top.op \in Callback => Open(Top.root),
         f.op \in Callback => f.root \in Roots /\ ~Called(f.root)
  PROVE  /\ OneCallback' /\ Nested'
         /\ \A g \in Roots : Cleaning(g)' <=> Cleaning(g) \/ (f.op = "cleanup" /\ f.root = g)
<1> DEFINE n == Len(stack)
           m == Len(stack')
<1>1. n \in Nat /\ (stack # <<>> => n \in 1 .. n /\ Top = stack[n]) /\ (n # 0 => stack # <<>>)
  BY Shapes DEF TypeOK
<1>2. /\ m = n + 1 /\ stack'[m] = f
      /\ \A k \in 1 .. n : stack'[k] = stack[k]
  BY DEF Pushed
<1>3. /\ \A k \in 1 .. n : stack[k].op \in Callback => stack[k].root \in Roots
      /\ \A j, k \in 1 .. n :
           stack[j].op \in Callback /\ stack[k].op \in Callback /\ stack[j].root = stack[k].root => j = k
      /\ \A g \in Roots, k \in 1 .. n :
           k < n /\ stack[k].op \in Callback /\ stack[k].root = g => Open(g)
  BY DEF OneCallback, Nested
<1>4. \A g \in Roots : /\ Called(g) <=> \E k \in 1 .. n : stack[k].op \in Callback /\ stack[k].root = g
                       /\ Cleaning(g) <=> \E k \in 1 .. n : stack[k].op = "cleanup" /\ stack[k].root = g
                       /\ Cleaning(g)' <=> \E k \in 1 .. m : stack'[k].op = "cleanup" /\ stack'[k].root = g
  BY DEF Called, Resuming, Cleaning, Callback
<1> HIDE DEF n, m
<1>5. /\ \A k \in 1 .. m : k \in 1 .. n \/ k = m
      /\ \A k \in 1 .. n : k \in 1 .. m
      /\ m \in 1 .. m /\ m \notin 1 .. n
  BY <1>1, <1>2
<1>6. /\ \A k \in 1 .. m : stack'[k].op \in Callback => stack'[k].root \in Roots
      /\ \A j, k \in 1 .. m :
           stack'[j].op \in Callback /\ stack'[k].op \in Callback /\ stack'[j].root = stack'[k].root => j = k
  BY <1>2, <1>3, <1>4, <1>5
<1>7. ASSUME NEW k \in 1 .. m, NEW g \in Roots, k < m, stack'[k].op \in Callback, stack'[k].root = g
      PROVE  Open(g)'
  <2>1. k \in 1 .. n /\ stack[k].op \in Callback /\ stack[k].root = g
    BY <1>2, <1>5, <1>7
  <2>2. Called(g)
    BY <1>4, <2>1
  <2>3. Open(g)
    <3>1. CASE k < n
      BY <1>3, <2>1, <3>1
    <3>2. CASE k = n
      BY <1>1, <2>1, <3>2
    <3> QED
      BY <1>1, <2>1, <3>1, <3>2
  <2> QED
    BY <2>2, <2>3 DEF Steady, Open
<1>8. \A g \in Roots : Cleaning(g)' <=> Cleaning(g) \/ (f.op = "cleanup" /\ f.root = g)
  BY <1>2, <1>4, <1>5
<1>9. OneCallback' /\ Nested'
  BY <1>6, <1>7 DEF OneCallback, Nested, m
<1> QED
  BY <1>8, <1>9

(* The innermost call returns, or makes way for another. *)
LEMMA StackPopped ==
  ASSUME TypeOK, OneCallback, Nested,
         \A g \in Roots : Steady(g) \/ ~Called(g) \/ Inside(g, "resume") \/ Inside(g, "cleanup")
  PROVE  /\ Popped => /\ OneCallback' /\ Nested'
                      /\ \A g \in Roots : Cleaning(g)' <=> Cleaning(g) /\ ~Inside(g, "cleanup")
         /\ \A f \in Frame :
              Swapped(f) /\ (f.op \in Callback => Top.op \in Callback /\ f.root = Top.root) =>
                /\ OneCallback' /\ Nested'
                /\ \A g \in Roots : Cleaning(g)' <=> \/ Cleaning(g) /\ ~Inside(g, "cleanup")
                                                     \/ f.op = "cleanup" /\ f.root = g
<1> DEFINE n == Len(stack)
           m == Len(stack')
<1>1. n \in Nat /\ (stack # <<>> => n \in 1 .. n /\ Top = stack[n])
  BY Shapes DEF TypeOK
<1>2. /\ \A k \in 1 .. n : stack[k].op \in Callback => stack[k].root \in Roots
      /\ \A j, k \in 1 .. n :
           stack[j].op \in Callback /\ stack[k].op \in Callback /\ stack[j].root = stack[k].root => j = k
      /\ \A g \in Roots, k \in 1 .. n :
           k < n /\ stack[k].op \in Callback /\ stack[k].root = g => Open(g)
  BY DEF OneCallback, Nested
<1>3. \A g \in Roots : /\ Called(g) <=> \E k \in 1 .. n : stack[k].op \in Callback /\ stack[k].root = g
                       /\ Cleaning(g) <=> \E k \in 1 .. n : stack[k].op = "cleanup" /\ stack[k].root = g
                       /\ Cleaning(g)' <=> \E k \in 1 .. m : stack'[k].op = "cleanup" /\ stack'[k].root = g
  BY DEF Called, Resuming, Cleaning, Callback
<1> HIDE DEF n, m
<1>4. ASSUME NEW k \in 1 .. n, NEW g \in Roots, k < n, stack[k].op \in Callback, stack[k].root = g
      PROVE  Open(g)' /\ ~Inside(g, "resume") /\ ~Inside(g, "cleanup")
  <2>1. ~Inside(g, "resume") /\ ~Inside(g, "cleanup")
    BY <1>1, <1>2, <1>4 DEF Inside, Callback
  <2>2. Called(g) /\ Open(g)
    BY <1>2, <1>3, <1>4
  <2> QED
    BY <2>1, <2>2 DEF Steady, Open
<1>5. ASSUME Popped
      PROVE  /\ OneCallback' /\ Nested'
             /\ \A g \in Roots : Cleaning(g)' <=> Cleaning(g) /\ ~Inside(g, "cleanup")
  <2>1. stack # <<>> /\ m = n - 1 /\ \A k \in 1 .. n - 1 : stack'[k] = stack[k]
    BY <1>5 DEF Popped, n, m
  <2>2. /\ \A k \in 1 .. m : k \in 1 .. n /\ k < n /\ stack'[k] = stack[k]
        /\ \A k \in 1 .. n : k \in 1 .. m \/ k = n
    BY <1>1, <2>1
  <2>3. OneCallback' /\ Nested'
    <3>1. /\ \A k \in 1 .. m : stack'[k].op \in Callback => stack'[k].root \in Roots
          /\ \A j, k \in 1 .. m :
           stack'[j].op \in Callback /\ stack'[k].op \in Callback /\ stack'[j].root = stack'[k].root => j = k
      BY <1>2, <2>2
    <3>2. \A g \in Roots, k \in 1 .. m : stack'[k].op \in Callback /\ stack'[k].root = g => Open(g)'
      BY <1>4, <2>2
    <3> QED
      BY <3>1, <3>2 DEF OneCallback, Nested, m
  <2>4. ASSUME NEW g \in Roots PROVE Cleaning(g)' <=> Cleaning(g) /\ ~Inside(g, "cleanup")
    <3>1. ASSUME Cleaning(g)' PROVE Cleaning(g) /\ ~Inside(g, "cleanup")
      BY <1>3, <1>4, <2>2, <3>1 DEF Callback
    <3>2. ASSUME Cleaning(g), ~Inside(g, "cleanup") PROVE Cleaning(g)'
      <4>1. PICK k \in 1 .. n : stack[k].op = "cleanup" /\ stack[k].root = g
        BY <1>3, <3>2
      <4>2. k # n
        BY <1>1, <2>1, <3>2, <4>1 DEF Inside
      <4> QED
        BY <1>3, <2>2, <4>1, <4>2
    <3> QED
      BY <3>1, <3>2
  <2> QED
    BY <2>3, <2>4
<1>6. ASSUME NEW f \in Frame, Swapped(f), f.op \in Callback => Top.op \in Callback /\ f.root = Top.root
      PROVE  /\ OneCallback' /\ Nested'
             /\ \A g \in Roots : Cleaning(g)' <=> \/ Cleaning(g) /\ ~Inside(g, "cleanup")
                                                  \/ f.op = "cleanup" /\ f.root = g
  <2>1. /\ stack # <<>> /\ m = n /\ stack'[n] = f
        /\ \A k \in 1 .. n - 1 : stack'[k] = stack[k]
    BY <1>6 DEF Swapped, n, m
  <2>2. /\ \A k \in 1 .. m : (k < n /\ stack'[k] = stack[k]) \/ k = n
        /\ n \in 1 .. m
    BY <1>1, <2>1
  <2>3. OneCallback' /\ Nested'
    <3>1. \A k \in 1 .. m : stack'[k].op \in Callback =>
            /\ stack[k].op \in Callback /\ stack'[k].root = stack[k].root /\ k \in 1 .. n
      BY <1>1, <1>6, <2>1, <2>2
    <3>2. /\ \A k \in 1 .. m : stack'[k].op \in Callback => stack'[k].root \in Roots
          /\ \A j, k \in 1 .. m :
           stack'[j].op \in Callback /\ stack'[k].op \in Callback /\ stack'[j].root = stack'[k].root => j = k
      BY <1>2, <3>1
    <3>3. \A g \in Roots, k \in 1 .. m : k < m /\ stack'[k].op \in Callback /\ stack'[k].root = g => Open(g)'
      BY <1>4, <2>1, <3>1
    <3> QED
      BY <3>2, <3>3 DEF OneCallback, Nested, m
  <2>4. ASSUME NEW g \in Roots
        PROVE  Cleaning(g)' <=> \/ Cleaning(g) /\ ~Inside(g, "cleanup")
                                \/ f.op = "cleanup" /\ f.root = g
    <3>1. ASSUME Cleaning(g)' PROVE (Cleaning(g) /\ ~Inside(g, "cleanup")) \/ (f.op = "cleanup" /\ f.root = g)
      <4>1. PICK k \in 1 .. m : stack'[k].op = "cleanup" /\ stack'[k].root = g
        BY <1>3, <3>1
      <4>2. CASE k < n /\ stack'[k] = stack[k]
        BY <1>3, <1>4, <2>1, <4>1, <4>2 DEF Callback
      <4> QED
        BY <2>1, <2>2, <4>1, <4>2
    <3>2. ASSUME Cleaning(g), ~Inside(g, "cleanup") PROVE Cleaning(g)'
      <4>1. PICK k \in 1 .. n : stack[k].op = "cleanup" /\ stack[k].root = g
        BY <1>3, <3>2
      <4>2. k # n
        BY <1>1, <2>1, <3>2, <4>1 DEF Inside
      <4> QED
        BY <1>3, <2>1, <2>2, <4>1, <4>2
    <3>3. f.op = "cleanup" /\ f.root = g => Cleaning(g)'
      BY <1>3, <2>1, <2>2
    <3> QED
      BY <3>1, <3>2, <3>3
  <2> QED
    BY <2>3, <2>4
<1> QED
  BY <1>5, <1>6

(* Shutdown visits a slot. *)
LEMMA StackVisited ==
  ASSUME TypeOK, OneCallback, Nested, NEW i \in Index, Visited(i), Top.op = "shutdown",
         \A g \in Roots : Steady(g),
         CleansAtShutdown(record[i]) => record[i].owner \in Roots /\ ~Called(record[i].owner)
  PROVE  /\ OneCallback' /\ Nested'
         /\ \A g \in Roots : Cleaning(g)' <=>
              Cleaning(g) \/ (CleansAtShutdown(record[i]) /\ record[i].owner = g)
<1> DEFINE n == Len(stack)
           m == Len(stack')
<1>1. n \in Nat /\ (stack # <<>> => n \in 1 .. n /\ Top = stack[n])
  BY Shapes DEF TypeOK
<1>2. /\ \A k \in 1 .. n : stack[k].op \in Callback => stack[k].root \in Roots
      /\ \A j, k \in 1 .. n :
           stack[j].op \in Callback /\ stack[k].op \in Callback /\ stack[j].root = stack[k].root => j = k
      /\ \A g \in Roots, k \in 1 .. n :
           k < n /\ stack[k].op \in Callback /\ stack[k].root = g => Open(g)
  BY DEF OneCallback, Nested
<1>3. \A g \in Roots : /\ Called(g) <=> \E k \in 1 .. n : stack[k].op \in Callback /\ stack[k].root = g
                       /\ Cleaning(g) <=> \E k \in 1 .. n : stack[k].op = "cleanup" /\ stack[k].root = g
                       /\ Cleaning(g)' <=> \E k \in 1 .. m : stack'[k].op = "cleanup" /\ stack'[k].root = g
  BY DEF Called, Resuming, Cleaning, Callback
<1>4. /\ stack # <<>> /\ m \in n .. n + 2
      /\ \A k \in 1 .. n - 1 : stack'[k] = stack[k]
      /\ stack'[n].op = "shutdown"
      /\ \A k \in n + 1 .. m : /\ stack'[k].root = record[i].owner
                               /\ stack'[k].op = "signal" \/ (stack'[k].op = "cleanup" /\ k = m)
      /\ CleansAtShutdown(record[i]) <=> stack'[m].op = "cleanup"
  BY DEF Visited
<1> HIDE DEF n, m
<1>5. /\ \A k \in 1 .. m : k \in 1 .. n - 1 \/ k = n \/ k \in n + 1 .. m
      /\ \A k \in 1 .. n : (k \in 1 .. n - 1 \/ k = n) /\ k \in 1 .. m
      /\ \A k \in 1 .. n - 1 : k \in 1 .. n /\ k < n
      /\ m \in 1 .. m /\ stack[n].op = "shutdown"
      /\ stack'[m].op = "cleanup" => m \in n + 1 .. m
  BY <1>1, <1>4
<1>6. ASSUME NEW k \in 1 .. m, stack'[k].op \in Callback
      PROVE  \/ k \in 1 .. n - 1 /\ stack'[k] = stack[k]
             \/ k = m /\ stack'[k].root = record[i].owner /\ CleansAtShutdown(record[i])
                /\ stack'[k].op = "cleanup"
  BY <1>4, <1>5, <1>6 DEF Callback
<1>7. ASSUME NEW k \in 1 .. n - 1, NEW g \in Roots, stack[k].op \in Callback, stack[k].root = g
      PROVE  Called(g) /\ Open(g)'
  <2>1. Called(g) /\ Open(g)
    BY <1>2, <1>3, <1>5, <1>7
  <2> QED
    BY <2>1 DEF Steady, Open
<1>8. /\ \A k \in 1 .. m : stack'[k].op \in Callback => stack'[k].root \in Roots
      /\ \A j, k \in 1 .. m :
           stack'[j].op \in Callback /\ stack'[k].op \in Callback /\ stack'[j].root = stack'[k].root => j = k
  BY <1>2, <1>5, <1>6, <1>7
<1>9. \A g \in Roots, k \in 1 .. m : k < m /\ stack'[k].op \in Callback /\ stack'[k].root = g => Open(g)'
  BY <1>6, <1>7
<1>10. ASSUME NEW g \in Roots
       PROVE  Cleaning(g)' <=> Cleaning(g) \/ (CleansAtShutdown(record[i]) /\ record[i].owner = g)
  <2>1. Cleaning(g)' => Cleaning(g) \/ (CleansAtShutdown(record[i]) /\ record[i].owner = g)
    BY <1>3, <1>5, <1>6 DEF Callback
  <2>2. Cleaning(g) => Cleaning(g)'
    BY <1>3, <1>4, <1>5
  <2>3. CleansAtShutdown(record[i]) /\ record[i].owner = g => Cleaning(g)'
    BY <1>3, <1>4, <1>5
  <2> QED
    BY <2>1, <2>2, <2>3
<1> QED
  BY <1>8, <1>9, <1>10 DEF OneCallback, Nested, m

-----------------------------------------------------------------------------
(* How a root stands *)

(* The root is still to end. *)
Pending(h) == Outcome(h) = "pending"

(* Where the callback of a root may stand while it is called. *)
Placed(h) ==
  /\ Resuming(h) => at[h] \in {"entry", "cancel", "body", "settle", "releasing", "complete", "return"}
  /\ Cleaning(h) => /\ at[h] \in {"out", "closing", "releasing", "return"}
                    /\ ~Pending(h)
                    /\ root[h].phase \in {"idle", "settling", "dropping"}
  /\ at[h] \in {"entry", "cancel", "body", "settle", "complete"} => Resuming(h)
  /\ at[h] = "closing" => Cleaning(h)
  /\ at[h] \in {"releasing", "return"} => Called(h)
  /\ at[h] = "take" => root[h].phase = "terminal"

(* A root becomes terminal as the last thing its callback does, and only a   *)
(* terminal one has a registered completion.                               *)
Turns(h) ==
  /\ at[h] \in {"entry", "cancel", "body", "settle", "releasing", "complete", "closing"} =>
       ~state[h].terminal
  /\ state[h].terminal /\ at[h] # "return" => ~Pending(h)
  /\ at[h] = "return" /\ Resuming(h) => (state[h].terminal <=> turn[h] # "Suspended")
  /\ at[h] = "complete" => turn[h] # "Suspended"
  /\ ~state[h].terminal => holder[h] \notin {"state", "owner"}

(* Its state lives as long as its RuntimeRootTask. *)
Kept(h) ==
  /\ state[h].exists <=> root[h].phase \notin {"unborn", "gone"}
  /\ root[h].phase = "unborn" => /\ at[h] = "out" /\ turn[h] = "none" /\ ~state[h].terminal

(* The value of a completion that is on its way to the owner was not         *)
(* collected, or early: by code that the release of the leases ran.         *)
Unswept(h) ==
  /\ at[h] \in {"entry", "cancel", "body"} => turn[h] \in {"none", "Suspended"}
  /\ at[h] = "out" /\ Pending(h) => turn[h] \in {"none", "Suspended"}
  /\ swept[h] # "no" => turn[h] \notin {"none", "Suspended"}
  /\ Resuming(h) /\ at[h] \in {"settle", "releasing", "complete"} => swept[h] # "lost"
  /\ holder[h] \in {"state", "owner"} => swept[h] # "lost"
  /\ swept[h] = "early" => ReleaseRunsCode

Rooted(h) == Placed(h) /\ Turns(h) /\ Kept(h) /\ Unswept(h)

(* What a step may do to a root it is not about. *)
Undisturbed(g) ==
  /\ root'[g].phase = root[g].phase
  /\ Resuming(g)' <=> Resuming(g)
  /\ Pending(g)' => Pending(g)

SameDriver(g) ==
  /\ at'[g] = at[g]
  /\ turn'[g] = turn[g]
  /\ state'[g] = state[g]
  /\ holder'[g] = holder[g]
  /\ swept'[g] = swept[g]

Aside(g) == Undisturbed(g) /\ SameDriver(g) /\ (Cleaning(g)' <=> Cleaning(g))

LEMMA AsideKeeps ==
  ASSUME NEW g \in Roots, Rooted(g), Aside(g)
  PROVE  Rooted(g)'
<1> USE DEF Aside, Undisturbed, SameDriver
<1>1. Called(g)' <=> Called(g)
  BY DEF Called
<1>2. Placed(g)'
  BY <1>1 DEF Rooted, Placed
<1>3. Turns(g)'
  BY DEF Rooted, Turns
<1>4. Kept(g)'
  BY DEF Rooted, Kept
<1>5. Unswept(g)'
  BY DEF Rooted, Unswept
<1> QED
  BY <1>2, <1>3, <1>4, <1>5 DEF Rooted

LEMMA PendingActive ==
  ASSUME TypeOK, Accounts, NEW h \in Roots
  PROVE  /\ Pending(h) <=> Active(root[h].task)
         /\ Pending(h) => root[h].phase \in {"idle", "polling"}
         /\ root[h].phase = "polling" => Resuming(h)
<1>1. ASSUME Pending(h) PROVE Active(root[h].task)
  <2>1. /\ fate[h].taken \in Completion
        /\ record[root[h].task.index].completion \in Completion
    BY TaskTypes DEF TypeOK, TaskRecord
  <2>2. Born(h) /\ fate[h].taken = "none" /\ record[root[h].task.index].state = "active"
    BY <1>1, <2>1 DEF Pending, Outcome, Completion
  <2> QED
    BY <2>2 DEF Accounts, OutcomeKept, Active
<1>2. Active(root[h].task) => Pending(h)
  BY ActivePending DEF Pending
<1> QED
  BY <1>1, <1>2 DEF Accounts, PollMarked

(* The steps that no root notices. *)
LEMMA Unnoticed ==
  ASSUME TypeOK, Inv, Accounts,
         \/ \E h \in Roots : Wake(h) \/ RequestCancel(h) \/ Rehome(h)
         \/ \E h \in Roots, r \in 0 .. MaxRequests, x \in {"Observe", "Acknowledge"} :
              CancelTransition(h, r, x)
         \/ ShutdownBegins \/ ShutdownReturns \/ SignalWaker \/ WakerReturns
         \/ UNCHANGED vars
  PROVE  \A g \in Roots : Undisturbed(g)
<1>1. root' = root
  BY DEF Wake, RequestCancel, Rehome, CancelTransition, ShutdownBegins, ShutdownReturns,
         SignalWaker, WakerReturns, arenaVars, vars
<1>2. \A g \in Roots : Unseen(g)
  <2>1. Quiet
    BY QuietSteps
  <2> QED
    BY <2>1, QuietAccounts
<1> QED
  BY <1>1, <1>2 DEF Undisturbed, Unseen, Pending

(* The steps that some root notices. *)
LEMMA Submitted ==
  ASSUME TypeOK, Inv, Accounts, NEW h \in Roots, SubmitRoot(h)
  PROVE  /\ \A g \in Roots \ {h} : Undisturbed(g)
         /\ root[h].phase = "unborn" /\ root'[h].phase = "idle"
         /\ Resuming(h)' <=> Resuming(h)
<1>1. At(h, "submit")
  BY SubmitStep
<1>2. root[h].phase = "unborn" /\ root'[h].phase = "idle"
  BY DEF SubmitRoot, TypeOK
<1>3. \A g \in Roots \ {h} : root'[g].phase = root[g].phase
  BY DEF SubmitRoot, TypeOK
<1> QED
  BY <1>1, <1>2, <1>3 DEF At, Unseen, Undisturbed, Pending

LEMMA Polled ==
  ASSUME TypeOK, Inv, Accounts, NEW h \in Roots, Poll(h)
  PROVE  /\ \A g \in Roots \ {h} : Undisturbed(g)
         /\ root[h].phase = "idle"
         /\ \/ /\ root'[h].phase = "polling" /\ stack' = Append(stack, Call("resume", h))
               /\ Pending(h) /\ ~Resuming(h) /\ Resuming(h)'
            \/ /\ root'[h].phase = "terminal" /\ stack' = stack
               /\ ~Pending(h) /\ ~Pending(h)' /\ (Resuming(h)' <=> Resuming(h))
<1>1. /\ root[h].phase = "idle"
      /\ \A g \in Roots \ {h} : root'[g].phase = root[g].phase
  BY DEF Poll, PollSettled, PollResume, TypeOK
<1>2. CASE PollResume(h)
  <2>1. At(h, "enter")
    BY <1>2, EnterStep
  <2>2. root'[h].phase = "polling" /\ stack' = Append(stack, Call("resume", h))
    BY <1>2 DEF PollResume, TypeOK
  <2> QED
    BY <1>1, <2>1, <2>2 DEF At, Unseen, Undisturbed, Pending
<1>3. CASE PollSettled(h)
  <2>1. \A g \in Roots : Unseen(g)
    <3>1. Quiet
      BY <1>3, QuietSteps
    <3> QED
      BY <3>1, QuietAccounts
  <2>2. root'[h].phase = "terminal" /\ stack' = stack /\ ~Pending(h)
    BY <1>3, PendingActive DEF PollSettled, TypeOK
  <2> QED
    BY <1>1, <2>1, <2>2 DEF Unseen, Undisturbed, Pending
<1> QED
  BY <1>2, <1>3 DEF Poll

LEMMA Returned ==
  ASSUME TypeOK, Inv, Accounts, NEW h \in Roots, ResumeReturns(h)
  PROVE  /\ \A g \in Roots \ {h} : Undisturbed(g)
         /\ stack # <<>> /\ Resuming(h) /\ ~Resuming(h)'
         /\ \/ /\ ResumePending(h)
               /\ root'[h].phase = "idle" /\ stack' = Below
            \/ /\ root'[h].phase = "terminal" /\ stack' = Below /\ ~Pending(h)'
            \/ /\ root'[h].phase = "settling" /\ stack' = Append(Below, Call("cleanup", h))
               /\ ~Pending(h)'
<1>1. /\ stack # <<>> /\ Top.op = "resume" /\ Top.root = h
      /\ \A g \in Roots \ {h} : root'[g].phase = root[g].phase
  BY DEF ResumeReturns, ResumePending, ResumeReady, ResumeOvertaken, TypeOK
<1>2. Resuming(h)
  BY <1>1, Shapes DEF Resuming
<1>3. CASE ResumePending(h) \/ ResumeReady(h)
  <2>1. At(h, "leave")
    BY <1>3, LeaveStep
  <2>2. ResumePending(h) => root'[h].phase = "idle" /\ stack' = Below
    BY DEF ResumePending, TypeOK
  <2>3. ResumeReady(h) => root'[h].phase = "terminal" /\ stack' = Below
    BY DEF ResumeReady, TypeOK
  <2>4. ResumeReady(h) => ~Pending(h)'
    <3> SUFFICES ASSUME ResumeReady(h) PROVE ~Pending(h)'
      OBVIOUS
    <3>1. PICK i \in Index : i = root[h].task.index
      BY TaskTypes
    <3>2. fate[h].taken = "none" /\ Born(h)
      BY ActivePending DEF ResumeReady, Accounts, OutcomeKept
    <3>3. root'[h].task = root[h].task /\ fate'[h].taken = fate[h].taken /\ Born(h)'
      BY DEF ResumeReady, Born, TypeOK
    <3>4. record'[i].state = "completed" /\ record'[i].completion = "Runtime"
      <4>1. record' = [record EXCEPT ![i] = Completed(record[i], "Runtime")] /\ record[i] \in TaskRecord
        BY <3>1, TaskTypes DEF ResumeReady
      <4> QED
        BY <4>1, TaskTypes DEF Completed, TaskRecord
    <3> QED
      BY <3>1, <3>2, <3>3, <3>4 DEF Pending, Outcome
  <2> QED
    BY <1>1, <1>2, <1>3, <2>1, <2>2, <2>3, <2>4 DEF At, Unseen, Undisturbed, Pending
<1>4. CASE ResumeOvertaken(h)
  <2>1. /\ Outcome(h)' = Outcome(h) /\ ~Resuming(h)'
        /\ \A g \in Roots \ {h} : Unseen(g)
    BY <1>4, UnwindStep
  <2>2. ~Pending(h)
    BY <1>4, PendingActive DEF ResumeOvertaken
  <2>3. \/ root'[h].phase = "terminal" /\ stack' = Below
        \/ root'[h].phase = "settling" /\ stack' = Append(Below, Call("cleanup", h))
    BY <1>4 DEF ResumeOvertaken, TypeOK
  <2> QED
    BY <1>1, <1>2, <2>1, <2>2, <2>3 DEF Unseen, Undisturbed, Pending
<1> QED
  BY <1>3, <1>4 DEF ResumeReturns

LEMMA Taken ==
  ASSUME TypeOK, Inv, Accounts, NEW h \in Roots, TakeCompletion(h)
  PROVE  (\A g \in Roots : Undisturbed(g)) /\ stack' = stack
<1>1. \A g \in Roots : Unseen(g)
  BY TakeStep
<1> QED
  BY <1>1 DEF TakeCompletion, Unseen, Undisturbed, Pending

LEMMA Dropped ==
  ASSUME TypeOK, Inv, Accounts, NEW h \in Roots, DropRoot(h)
  PROVE  /\ \A g \in Roots \ {h} : Undisturbed(g)
         /\ root[h].phase \in {"idle", "terminal"} /\ ~Resuming(h)
         /\ Resuming(h)' <=> Resuming(h)
         /\ \/ /\ root'[h].phase = "dropping" /\ stack' = Append(stack, Call("cleanup", h))
               /\ ~Pending(h)'
            \/ /\ root'[h].phase = "gone" /\ stack' = stack
               /\ Pending(h)' => Pending(h)
<1>1. /\ root[h].phase \in {"idle", "terminal"}
      /\ \A g \in Roots \ {h} : root'[g].phase = root[g].phase
  BY DEF DropRoot, TypeOK
<1>2. (\A g \in Roots : Unseen(g)) \/ At(h, "abandon")
  BY DropStep
<1>3. ~Resuming(h)
  <2>1. \A k \in 1 .. Len(stack) : stack[k].op = "resume" => root[stack[k].root].phase = "polling"
    BY DEF Inv, ResumesPolling
  <2> QED
    BY <1>1, <2>1 DEF Resuming
<1>4. /\ Resuming(h)' <=> Resuming(h)
      /\ \A g \in Roots \ {h} : Undisturbed(g)
      /\ Pending(h)' => Pending(h)
  BY <1>1, <1>2, <1>3 DEF At, Unseen, Undisturbed, Pending
<1>5. CASE root[h].phase = "idle" /\ Active(root[h].task)
  <2>1. root'[h].phase = "dropping" /\ stack' = Append(stack, Call("cleanup", h))
    BY <1>5 DEF DropRoot, TypeOK
  <2>2. ~Unseen(h)
    <3>1. fate'[h].cleanups = fate[h].cleanups + 1 /\ fate[h].cleanups \in Nat
      BY <1>5 DEF DropRoot, TypeOK
    <3> QED
      BY <3>1 DEF Unseen
  <2>3. ~Pending(h)'
    BY <1>2, <2>2 DEF At, Pending
  <2> QED
    BY <1>1, <1>3, <1>4, <2>1, <2>3
<1>6. CASE ~(root[h].phase = "idle" /\ Active(root[h].task))
  <2>1. root'[h].phase = "gone" /\ stack' = stack
    BY <1>6 DEF DropRoot, TypeOK
  <2> QED
    BY <1>1, <1>3, <1>4, <2>1
<1> QED
  BY <1>5, <1>6

LEMMA VisitedRoot ==
  ASSUME TypeOK, Inv, Accounts, ShutdownVisits
  PROVE  \E i \in Index, h \in Roots :
           /\ Visited(i) /\ record[i].owner = h
           /\ \A g \in Roots : Undisturbed(g)
           /\ Pending(h) /\ ~Pending(h)'
           /\ CleansAtShutdown(record[i]) => ~Resuming(h)
<1>1. PICK i \in ActiveFrom(Top.at) :
           /\ Visited(i)
           /\ record' = [record EXCEPT
                ![i] = [Completed(record[i], "Shutdown") EXCEPT
                          !.cleanupCalled = @ \/ CleansAtShutdown(record[i])]]
  BY VisitShape
<1>2. i \in Index /\ record[i].state = "active"
  BY DEF ActiveFrom
<1>3. PICK h \in Roots : h = record[i].owner
  BY <1>2, OwnerOf
<1>4. root[h].task.index = i /\ Active(root[h].task) /\ Pending(h)
  BY <1>2, <1>3, OwnerOf, PendingActive
<1>5. CleansAtShutdown(record[i]) => ~Resuming(h)
  BY <1>4 DEF Accounts, PollMarked, CleansAtShutdown
<1>6. \A g \in Roots : Outcome(g) = "pending" \/ Outcome(g)' # "pending"
  BY VisitStep DEF At, Unseen
<1>7. \A g \in Roots : Resuming(g)' <=> Resuming(g)
  BY VisitStep DEF At, Unseen
<1>8. root' = root
  BY DEF ShutdownVisits
<1>9. ~Pending(h)'
  <2>1. record'[i].state = "completed"
    <3>1. record[i] \in TaskRecord
      BY <1>2, TaskTypes
    <3> QED
      BY <1>1, <1>2, <3>1, TaskTypes DEF Completed, TaskRecord
  <2>2. Born(h) /\ Born(h)' /\ fate[h].taken = "none"
    BY <1>4, <1>8, ActivePending DEF Born, Accounts, OutcomeKept
  <2>3. fate'[h].taken = "none"
    <3>1. fate' = fate \/ \E g \in Roots : fate' = [fate EXCEPT ![g].cleanups = @ + 1]
      BY <1>2, <1>3, VisitShape, OwnerOf DEF ActiveFrom
    <3>2. fate \in [Roots -> [heard : 0 .. MaxRequests, cleanups : Nat,
                              result : Completion, taken : Completion]]
      BY DEF TypeOK
    <3>3. CASE fate' = fate
      BY <2>2, <3>3
    <3>4. ASSUME NEW g \in Roots, fate' = [fate EXCEPT ![g].cleanups = @ + 1]
          PROVE  fate'[h].taken = "none"
      <4>1. CASE g = h
        BY <2>2, <3>2, <3>4, <4>1
      <4>2. CASE g # h
        BY <2>2, <3>2, <3>4, <4>2
      <4> QED
        BY <4>1, <4>2
    <3> QED
      BY <3>1, <3>3, <3>4
  <2>4. record'[i].completion = "Shutdown"
    <3>1. record[i] \in TaskRecord
      BY <1>2, TaskTypes
    <3> QED
      BY <1>1, <1>2, <3>1, TaskTypes DEF Completed, TaskRecord
  <2> QED
    BY <1>4, <1>8, <2>1, <2>2, <2>3, <2>4 DEF Pending, Outcome
<1> QED
  BY <1>2, <1>3, <1>1, <1>4, <1>5, <1>6, <1>7, <1>8, <1>9 DEF Undisturbed, Pending

LEMMA CleanupReturned ==
  ASSUME TypeOK, Inv, Accounts, NEW h \in Roots, CleanupReturns, Top.root = h
  PROVE  /\ \A g \in Roots \ {h} : Undisturbed(g)
         /\ stack # <<>> /\ stack' = Below
         /\ Pending(h)' => Pending(h)
         /\ Resuming(h)' <=> Resuming(h)
         /\ root'[h].phase = CASE root[h].phase = "settling" -> "terminal"
                               [] root[h].phase = "dropping" -> "gone"
                               [] OTHER -> root[h].phase
<1>1. \A g \in Roots : Unseen(g)
  <2>1. Quiet
    BY QuietSteps
  <2> QED
    BY <2>1, QuietAccounts
<1>2. /\ stack # <<>> /\ stack' = Below
      /\ root' = [root EXCEPT ![h].phase =
           CASE @ = "settling" -> "terminal" [] @ = "dropping" -> "gone" [] OTHER -> @]
  BY DEF CleanupReturns
<1>3. /\ \A g \in Roots \ {h} : root'[g].phase = root[g].phase
      /\ root'[h].phase = CASE root[h].phase = "settling" -> "terminal"
                               [] root[h].phase = "dropping" -> "gone"
                               [] OTHER -> root[h].phase
  BY <1>2 DEF TypeOK
<1> QED
  BY <1>1, <1>2, <1>3 DEF Unseen, Undisturbed, Pending

-----------------------------------------------------------------------------
(* The steps of the driver *)

Owner(h) == Submit(h) \/ LeaseBuffer(h) \/ Control(h) \/ PollTask(h) \/ DropCompletion(h) \/ DropTask(h)

LEMMA OthersKept ==
  ASSUME DriverTypeOK, NEW h \in Roots, Owner(h) \/ CallbackStep(h)
  PROVE  \A g \in Roots \ {h} : SameDriver(g)
<1> /\ at \in [Roots -> Place] /\ turn \in [Roots -> Turn]
    /\ state \in [Roots -> State] /\ holder \in [Roots -> Holder]
  BY DEF DriverTypeOK
<1>1. ASSUME DropState(h) PROVE \A g \in Roots \ {h} : state'[g] = state[g] /\ holder'[g] = holder[g]
  BY <1>1 DEF DropState
<1>2. CASE Submit(h) \/ LeaseBuffer(h)
  BY <1>2 DEF Submit, LeaseBuffer, SameDriver
<1>3. CASE Control(h) \/ PollTask(h) \/ DropCompletion(h)
  BY <1>3 DEF Control, PollTask, DropCompletion, SameDriver, driverVars
<1>4. CASE DropTask(h) \/ CleanupEnds(h)
  BY <1>1, <1>4 DEF DropTask, CleanupEnds, SameDriver
<1>5. CASE Resume(h) \/ ThrowCancel(h)
  BY <1>5 DEF Resume, ThrowCancel, ResumeGenerator, SameDriver
<1>6. CASE ObserveCancel(h) \/ FailToThrow(h) \/ BodyReturns(h)
  BY <1>6 DEF ObserveCancel, FailToThrow, BodyReturns, SameDriver
<1>7. CASE AcknowledgeCancel(h) \/ FinishTurn(h) \/ Release(h)
  BY <1>7 DEF AcknowledgeCancel, FinishTurn, Release, SameDriver
<1>8. CASE Complete(h) \/ Return(h) \/ Take(h)
  BY <1>8 DEF Complete, Return, Take, SameDriver
<1>9. CASE DropActivation(h) \/ CloseReturns(h) \/ ReleaseDropped(h)
  BY <1>9 DEF DropActivation, CloseReturns, ReleaseDropped, SameDriver
<1> QED
  BY <1>2, <1>3, <1>4, <1>5, <1>6, <1>7, <1>8, <1>9 DEF Owner, CallbackStep

(* The invariant of the driver's callbacks. *)
DriverInv == OneCallback /\ Nested /\ \A g \in Roots : Rooted(g)

(* A step of root h that calls nothing and does not end its callback. *)
LEMMA StillStep ==
  ASSUME TypeOK, OneCallback, Nested, \A g \in Roots : Rooted(g), NEW h \in Roots,
         \A g \in Roots \ {h} : Undisturbed(g) /\ SameDriver(g),
         stack' = stack,
         \/ Inside(h, "resume") \/ Inside(h, "cleanup") \/ ~Called(h) \/ Steady(h),
         Cleaning(h)' <=> Cleaning(h) => Rooted(h)'
  PROVE  DriverInv'
<1>1. Unstacked
  BY Shapes
<1>2. \A g \in Roots \ {h} : Steady(g)
  BY DEF SameDriver, Steady
<1>3. OneCallback' /\ Nested' /\ \A g \in Roots : Cleaning(g)' <=> Cleaning(g)
  BY <1>1, <1>2, StackKept
<1>4. \A g \in Roots \ {h} : Rooted(g)'
  BY <1>3, AsideKeeps DEF Aside
<1>5. Rooted(h)'
  BY <1>3
<1> QED
  BY <1>3, <1>4, <1>5 DEF DriverInv

(* The statements of resume_runtime_root. *)
LEMMA ResumeRooted ==
  ASSUME TypeOK, DriverTypeOK, OneCallback, Nested, NEW h \in Roots, Rooted(h),
         Undisturbed(h), Cleaning(h)' <=> Cleaning(h),
         \/ Resume(h) \/ ObserveCancel(h) \/ ThrowCancel(h) \/ FailToThrow(h) \/ BodyReturns(h)
         \/ AcknowledgeCancel(h) \/ FinishTurn(h) \/ Release(h) \/ Complete(h)
  PROVE  Rooted(h)'
<1>1. /\ at \in [Roots -> Place] /\ turn \in [Roots -> Turn]
      /\ state \in [Roots -> State] /\ holder \in [Roots -> Holder]
      /\ state[h] \in State
  BY DEF DriverTypeOK
<1>2. Inside(h, "resume")
  BY DEF Resume, ObserveCancel, ThrowCancel, FailToThrow, BodyReturns, AcknowledgeCancel,
         FinishTurn, Release, Complete
<1>3. Resuming(h) /\ ~Cleaning(h) /\ Resuming(h)' /\ ~Cleaning(h)' /\ Called(h)'
  BY <1>2, Running DEF Undisturbed, Called
<1>4. /\ root'[h].phase = root[h].phase /\ (Pending(h)' => Pending(h))
  BY DEF Undisturbed
<1>5. /\ Placed(h) /\ Turns(h) /\ Kept(h) /\ Unswept(h)
  BY DEF Rooted
<1>6. swept'[h] = swept[h]
  BY DEF Resume, ObserveCancel, ThrowCancel, FailToThrow, BodyReturns, AcknowledgeCancel,
         FinishTurn, Release, Complete
<1>7. /\ state'[h].exists = state[h].exists
      /\ at[h] # "complete" => state'[h].terminal = state[h].terminal
      /\ at[h] = "complete" => state'[h].terminal = TRUE
  <2>1. CASE Complete(h)
    BY <1>1, <2>1 DEF Complete, State
  <2>2. CASE Resume(h)
    BY <1>1, <2>2 DEF Resume, State
  <2>3. CASE ObserveCancel(h) \/ FailToThrow(h) \/ AcknowledgeCancel(h)
    BY <1>1, <2>3 DEF ObserveCancel, FailToThrow, AcknowledgeCancel, State
  <2>4. CASE ThrowCancel(h) \/ BodyReturns(h) \/ FinishTurn(h)
    BY <2>4 DEF ThrowCancel, BodyReturns, FinishTurn
  <2>5. CASE Release(h)
    BY <1>1, <2>5 DEF Release, State
  <2> QED
    BY <2>1, <2>2, <2>3, <2>4, <2>5
<1>8. Kept(h)'
  BY <1>4, <1>5, <1>7, <1>3 DEF Kept, Placed
<1>9. ASSUME at'[h] \in {"cancel", "body"}, at[h] \in {"entry", "cancel"},
             turn'[h] = turn[h], holder'[h] = holder[h]
      PROVE  Rooted(h)'
  BY <1>3, <1>4, <1>5, <1>6, <1>7, <1>8, <1>9 DEF Rooted, Placed, Turns, Unswept
<1>10. ASSUME at'[h] \in {"settle", "releasing"}, at[h] \in {"entry", "cancel", "body"},
              turn'[h] = "Suspended" => turn[h] \in {"none", "Suspended"},
              holder'[h] \in {"local", "kernel"} \/ holder'[h] = holder[h],
              turn'[h] \in Turn \ {"none"}
       PROVE  Rooted(h)'
  BY <1>3, <1>4, <1>5, <1>6, <1>7, <1>8, <1>10 DEF Rooted, Placed, Turns, Unswept
<1>11. CASE Resume(h) \/ ThrowCancel(h)
  BY <1>1, <1>5, <1>9, <1>10, <1>11 DEF Resume, ThrowCancel, ResumeGenerator, Turn
<1>12. CASE ObserveCancel(h)
  BY <1>1, <1>9, <1>12 DEF ObserveCancel
<1>13. CASE FailToThrow(h)
  BY <1>1, <1>10, <1>13 DEF FailToThrow, Turn
<1>14. CASE BodyReturns(h)
  <2>1. turn[h] \in {"none", "Suspended"}
    BY <1>5, <1>14 DEF BodyReturns, Unswept
  <2>2. PICK how \in Turn \ {"none"} :
          /\ turn' = [turn EXCEPT ![h] = how]
          /\ holder' = [holder EXCEPT ![h] = IF how = "Suspended" THEN @ ELSE "local"]
    BY <1>14 DEF BodyReturns
  <2>3. at[h] = "body" /\ at'[h] = "settle"
    BY <1>1, <1>14 DEF BodyReturns
  <2> QED
    BY <1>1, <1>10, <2>1, <2>2, <2>3
<1>15. CASE AcknowledgeCancel(h) \/ FinishTurn(h)
  <2>1. /\ at[h] = "settle" /\ (at'[h] = "releasing" \/ (at'[h] = "return" /\ turn[h] = "Suspended"))
        /\ turn'[h] = turn[h] /\ holder'[h] = holder[h]
    BY <1>1, <1>15 DEF AcknowledgeCancel, FinishTurn
  <2> QED
    BY <1>3, <1>4, <1>5, <1>6, <1>7, <1>8, <2>1 DEF Rooted, Placed, Turns, Unswept
<1>16. CASE Release(h)
  <2>1. /\ at[h] = "releasing"
        /\ at'[h] = IF turn[h] = "Suspended" THEN "return" ELSE "complete"
        /\ turn'[h] = turn[h] /\ holder'[h] = holder[h]
    BY <1>1, <1>16 DEF Release
  <2> QED
    BY <1>3, <1>4, <1>5, <1>6, <1>7, <1>8, <2>1 DEF Rooted, Placed, Turns, Unswept
<1>17. CASE Complete(h)
  <2>1. /\ at[h] = "complete" /\ at'[h] = "return" /\ turn'[h] = turn[h]
    BY <1>1, <1>17 DEF Complete
  <2> QED
    BY <1>3, <1>4, <1>5, <1>6, <1>7, <1>8, <2>1 DEF Rooted, Placed, Turns, Unswept
<1> QED
  BY <1>11, <1>12, <1>13, <1>14, <1>15, <1>16, <1>17

(* The statements of drop_runtime_root. *)
LEMMA CleanupRooted ==
  ASSUME TypeOK, DriverTypeOK, OneCallback, Nested, NEW h \in Roots, Rooted(h),
         Undisturbed(h), Cleaning(h)' <=> Cleaning(h),
         DropActivation(h) \/ CloseReturns(h) \/ ReleaseDropped(h)
  PROVE  Rooted(h)'
<1>1. /\ at \in [Roots -> Place] /\ turn \in [Roots -> Turn]
      /\ state \in [Roots -> State] /\ holder \in [Roots -> Holder]
      /\ state[h] \in State
  BY DEF DriverTypeOK
<1>2. Cleaning(h) /\ ~Resuming(h) /\ ~Resuming(h)' /\ Cleaning(h)' /\ Called(h)'
  <2>1. Inside(h, "cleanup")
    BY DEF DropActivation, CloseReturns, ReleaseDropped
  <2> QED
    BY <2>1, Running DEF Undisturbed, Called
<1>3. /\ root'[h].phase = root[h].phase /\ (Pending(h)' => Pending(h))
      /\ Placed(h) /\ Turns(h) /\ Kept(h) /\ Unswept(h)
  BY DEF Undisturbed, Rooted
<1>4. turn'[h] = turn[h] /\ holder'[h] = holder[h] /\ swept'[h] = swept[h]
  BY DEF DropActivation, CloseReturns, ReleaseDropped
<1>5. state'[h].exists = state[h].exists
  BY <1>1 DEF DropActivation, CloseReturns, ReleaseDropped, State
<1>6. CASE DropActivation(h) \/ CloseReturns(h)
  <2>1. /\ at'[h] \in {"closing", "releasing"} /\ ~state[h].terminal
        /\ state'[h].terminal = state[h].terminal
    BY <1>1, <1>3, <1>6 DEF DropActivation, NeedsClose, CloseReturns, Turns, State
  <2> QED
    BY <1>2, <1>3, <1>4, <1>5, <2>1 DEF Rooted, Placed, Turns, Kept, Unswept
<1>7. CASE ReleaseDropped(h)
  <2>1. at[h] = "releasing" /\ at'[h] = "return" /\ state'[h].terminal = TRUE
    BY <1>1, <1>7 DEF ReleaseDropped, State
  <2> QED
    BY <1>2, <1>3, <1>4, <1>5, <2>1 DEF Rooted, Placed, Turns, Kept, Unswept
<1> QED
  BY <1>6, <1>7

(* The owner's steps that call nothing. *)
LEMMA OwnerRooted ==
  ASSUME TypeOK, DriverTypeOK, OneCallback, Nested, NEW h \in Roots, Rooted(h),
         Undisturbed(h), Cleaning(h)' <=> Cleaning(h),
         LeaseBuffer(h) \/ Control(h) \/ DropCompletion(h)
  PROVE  Rooted(h)'
<1>1. /\ at \in [Roots -> Place] /\ turn \in [Roots -> Turn]
      /\ state \in [Roots -> State] /\ holder \in [Roots -> Holder]
      /\ state[h] \in State
  BY DEF DriverTypeOK
<1>2. /\ at'[h] = at[h] /\ turn'[h] = turn[h]
      /\ state'[h].exists = state[h].exists /\ state'[h].terminal = state[h].terminal
      /\ holder'[h] \in {holder[h], "nobody"}
      /\ swept'[h] = swept[h]
  BY <1>1 DEF LeaseBuffer, Control, DropCompletion, driverVars, State
<1>3. Called(h)' <=> Called(h)
  BY DEF Called, Undisturbed
<1> QED
  BY <1>2, <1>3 DEF Rooted, Placed, Turns, Kept, Unswept, Undisturbed

LEMMA CallbackBegins ==
  ASSUME TypeOK, OneCallback, Nested, \A g \in Roots : Rooted(g), NEW h \in Roots,
         \A g \in Roots \ {h} : Undisturbed(g) /\ SameDriver(g),
         NEW op \in Callback, stack' = Append(stack, Call(op, h)), OwnerRuns(h),
         Cleaning(h)' <=> op = "cleanup" => Rooted(h)'
  PROVE  DriverInv'
<1>1. Call(op, h) \in Frame /\ Call(op, h).op = op /\ Call(op, h).root = h
  BY CallIsFrame DEF Call, Callback, FrameOp
<1>2. ~Called(h) /\ (stack # <<>> /\ Top.op \in Callback => Open(Top.root))
  BY Running DEF OwnerRuns, CodeRuns, Callback
<1>3. \A g \in Roots : Steady(g) \/ ~Called(g)
  BY <1>2 DEF Steady, SameDriver
<1>4. Pushed(Call(op, h))
  BY <1>1, Shapes
<1>5. /\ OneCallback' /\ Nested'
      /\ \A g \in Roots : Cleaning(g)' <=> Cleaning(g) \/ (op = "cleanup" /\ h = g)
  BY <1>1, <1>2, <1>3, <1>4, StackPushed
<1>6. \A g \in Roots \ {h} : Rooted(g)'
  BY <1>5, AsideKeeps DEF Aside
<1>7. Rooted(h)'
  BY <1>2, <1>5 DEF Called
<1> QED
  BY <1>5, <1>6, <1>7 DEF DriverInv

(* Shared with the step that ends a callback, or turns one into another. *)
LEMMA CallbackEnds ==
  ASSUME TypeOK, OneCallback, Nested, \A g \in Roots : Rooted(g), NEW h \in Roots,
         \A g \in Roots \ {h} : Undisturbed(g) /\ SameDriver(g),
         NEW op \in Callback, Inside(h, op),
         stack' = Below \/ stack' = Append(Below, Call("cleanup", h)),
         stack' = Below /\ ~Cleaning(h)' => Rooted(h)',
         stack' = Append(Below, Call("cleanup", h)) /\ Cleaning(h)' => Rooted(h)'
  PROVE  DriverInv'
<1>1. /\ Call("cleanup", h) \in Frame /\ Call("cleanup", h).op = "cleanup"
      /\ Call("cleanup", h).root = h
  BY CallIsFrame DEF Call, Callback, FrameOp
<1>2. stack # <<>> /\ Top.op = op /\ Top.root = h /\ (op = "cleanup" \/ ~Cleaning(h))
  BY Running DEF Inside, Callback
<1>3. \A g \in Roots : Steady(g) \/ ~Called(g) \/ Inside(g, "resume") \/ Inside(g, "cleanup")
  BY DEF Steady, SameDriver, Callback
<1>4. CASE stack' = Below
  <2>1. Popped
    BY <1>2, <1>4, Shapes
  <2>2. /\ OneCallback' /\ Nested'
        /\ \A g \in Roots : Cleaning(g)' <=> Cleaning(g) /\ ~Inside(g, "cleanup")
    BY <1>3, <2>1, StackPopped
  <2>3. \A g \in Roots \ {h} : Rooted(g)'
    BY <1>2, <2>2, AsideKeeps DEF Aside, Inside
  <2>4. Rooted(h)'
    BY <1>2, <1>4, <2>2 DEF Callback
  <2> QED
    BY <2>2, <2>3, <2>4 DEF DriverInv
<1>5. CASE stack' = Append(Below, Call("cleanup", h))
  <2>1. Swapped(Call("cleanup", h))
    BY <1>1, <1>2, <1>5, Shapes
  <2>2. /\ OneCallback' /\ Nested'
        /\ \A g \in Roots : Cleaning(g)' <=> \/ Cleaning(g) /\ ~Inside(g, "cleanup")
                                             \/ h = g
    BY <1>1, <1>2, <1>3, <2>1, StackPopped
  <2>3. \A g \in Roots \ {h} : Rooted(g)'
    BY <1>2, <2>2, AsideKeeps DEF Aside, Inside
  <2>4. Rooted(h)'
    BY <1>5, <2>2
  <2> QED
    BY <2>2, <2>3, <2>4 DEF DriverInv
<1> QED
  BY <1>4, <1>5

LEMMA SubmitRooted ==
  ASSUME TypeOK, Inv, Accounts, DriverTypeOK, DriverInv, NEW h \in Roots, Submit(h)
  PROVE  DriverInv'
<1>1. /\ at \in [Roots -> Place] /\ turn \in [Roots -> Turn]
      /\ state \in [Roots -> State] /\ holder \in [Roots -> Holder]
      /\ state[h] \in State
  BY DEF DriverTypeOK
<1>2. /\ \A g \in Roots \ {h} : Undisturbed(g) /\ SameDriver(g)
      /\ root[h].phase = "unborn" /\ root'[h].phase = "idle"
      /\ Resuming(h)' <=> Resuming(h)
  BY Submitted, OthersKept DEF Submit, Owner
<1>3. stack' = stack
  BY DEF Submit, SubmitRoot
<1>4. /\ at'[h] = at[h] /\ turn'[h] = turn[h] /\ holder'[h] = holder[h]
      /\ swept'[h] = swept[h]
      /\ state'[h].exists = TRUE /\ state'[h].terminal = state[h].terminal
      /\ state'[h].leases = state[h].leases
  BY <1>1 DEF Submit, State
<1>5. Rooted(h)
  BY DEF DriverInv
<1>6. at[h] = "out" /\ turn[h] = "none" /\ ~state[h].terminal /\ ~Resuming(h) /\ ~Cleaning(h)
  BY <1>2, <1>5 DEF Rooted, Kept, Placed
<1>7. Cleaning(h)' <=> Cleaning(h) => Rooted(h)'
  BY <1>2, <1>4, <1>5, <1>6 DEF Rooted, Placed, Turns, Kept, Unswept, Called
<1> QED
  BY <1>2, <1>3, <1>4, <1>7, StillStep DEF DriverInv, Steady

LEMMA PollRooted ==
  ASSUME TypeOK, Inv, Accounts, DriverTypeOK, DriverInv, NEW h \in Roots, PollTask(h)
  PROVE  DriverInv'
<1>1. /\ at \in [Roots -> Place] /\ turn \in [Roots -> Turn]
      /\ state \in [Roots -> State] /\ holder \in [Roots -> Holder]
  BY DEF DriverTypeOK
<1>2. /\ OwnerRuns(h) /\ at[h] = "out" /\ Poll(h)
      /\ at'[h] = IF root'[h].phase = "polling" THEN "entry" ELSE "take"
      /\ turn'[h] = turn[h] /\ holder'[h] = holder[h] /\ state'[h] = state[h]
      /\ swept'[h] = swept[h]
  BY <1>1 DEF PollTask, OwnerRuns
<1>3. /\ \A g \in Roots \ {h} : Undisturbed(g) /\ SameDriver(g)
      /\ root[h].phase = "idle"
  BY <1>2, Polled, OthersKept DEF Owner
<1>4. Rooted(h) /\ ~Called(h)
  BY <1>2, Running DEF DriverInv
<1>5. CASE /\ root'[h].phase = "polling" /\ stack' = Append(stack, Call("resume", h))
           /\ Pending(h) /\ ~Resuming(h) /\ Resuming(h)'
  <2>1. ~Cleaning(h)' => Rooted(h)'
    BY <1>2, <1>3, <1>4, <1>5 DEF Rooted, Placed, Turns, Kept, Unswept, Called
  <2> QED
    BY <1>2, <1>3, <1>5, <2>1, CallbackBegins DEF Callback, DriverInv
<1>6. CASE /\ root'[h].phase = "terminal" /\ stack' = stack
           /\ ~Pending(h) /\ ~Pending(h)' /\ (Resuming(h)' <=> Resuming(h))
  <2>1. Cleaning(h)' <=> Cleaning(h) => Rooted(h)'
    BY <1>2, <1>3, <1>4, <1>6 DEF Rooted, Placed, Turns, Kept, Unswept, Called
  <2> QED
    BY <1>3, <1>4, <1>6, <2>1, StillStep DEF DriverInv
<1> QED
  BY <1>2, <1>5, <1>6, Polled

LEMMA ReturnRooted ==
  ASSUME TypeOK, Inv, Accounts, DriverTypeOK, DriverInv, NEW h \in Roots, Return(h)
  PROVE  DriverInv'
<1>1. /\ at \in [Roots -> Place] /\ turn \in [Roots -> Turn]
      /\ state \in [Roots -> State] /\ holder \in [Roots -> Holder]
  BY DEF DriverTypeOK
<1>2. /\ Inside(h, "resume") /\ at[h] = "return" /\ ResumeReturns(h)
      /\ at'[h] = IF root'[h].phase = "terminal" THEN "take" ELSE "out"
      /\ turn'[h] = turn[h] /\ holder'[h] = holder[h] /\ state'[h] = state[h]
      /\ swept'[h] = swept[h]
  BY <1>1 DEF Return, Inside, ResumeReturns
<1>3. /\ \A g \in Roots \ {h} : Undisturbed(g) /\ SameDriver(g)
      /\ Resuming(h) /\ ~Resuming(h)'
  BY <1>2, Returned, OthersKept DEF CallbackStep
<1>4. Rooted(h) /\ ~Cleaning(h)
  BY <1>2, Running DEF DriverInv
<1>5. root[h].phase \notin {"unborn", "gone"}
  <2>1. root[h].phase = "polling"
    BY <1>2, Shapes DEF Inv, ResumesPolling, Inside
  <2> QED
    BY <2>1
<1>6. CASE ResumePending(h) /\ root'[h].phase = "idle" /\ stack' = Below
  <2>1. turn[h] = "Suspended"
    <3>1. Active(root[h].task)
      BY <1>6 DEF ResumePending
    <3>2. ~ResumeOvertaken(h)
      BY <3>1 DEF ResumeOvertaken
    <3>3. ~ResumeReady(h)
      BY <1>6 DEF ResumeReady, TypeOK
    <3> QED
      BY <3>2, <3>3 DEF Return
  <2>2. ~Cleaning(h)' => Rooted(h)'
    BY <1>2, <1>3, <1>4, <1>5, <1>6, <2>1 DEF Rooted, Placed, Turns, Kept, Unswept, Called
  <2> QED
    BY <1>2, <1>3, <1>6, <2>2, CallbackEnds DEF Callback, DriverInv
<1>7. CASE root'[h].phase = "terminal" /\ stack' = Below /\ ~Pending(h)'
  <2>1. ~Cleaning(h)' => Rooted(h)'
    BY <1>2, <1>3, <1>4, <1>5, <1>7 DEF Rooted, Placed, Turns, Kept, Unswept, Called
  <2> QED
    BY <1>2, <1>3, <1>7, <2>1, CallbackEnds DEF Callback, DriverInv
<1>8. CASE /\ root'[h].phase = "settling" /\ stack' = Append(Below, Call("cleanup", h))
           /\ ~Pending(h)'
  <2>1. Cleaning(h)' => Rooted(h)'
    BY <1>2, <1>3, <1>4, <1>5, <1>8 DEF Rooted, Placed, Turns, Kept, Unswept, Called
  <2> QED
    BY <1>2, <1>3, <1>8, <2>1, CallbackEnds DEF Callback, DriverInv
<1> QED
  BY <1>2, <1>6, <1>7, <1>8, Returned

LEMMA TakeRooted ==
  ASSUME TypeOK, Inv, Accounts, DriverTypeOK, DriverInv, NEW h \in Roots, Take(h)
  PROVE  DriverInv'
<1>1. /\ at \in [Roots -> Place] /\ turn \in [Roots -> Turn]
      /\ state \in [Roots -> State] /\ holder \in [Roots -> Holder]
  BY DEF DriverTypeOK
<1>2. /\ at[h] = "take" /\ TakeCompletion(h) /\ at'[h] = "out"
      /\ turn'[h] = turn[h] /\ state'[h] = state[h]
      /\ holder'[h] = holder[h] \/ (holder[h] = "state" /\ holder'[h] = "owner")
      /\ swept'[h] = swept[h]
  BY <1>1 DEF Take
<1>3. /\ \A g \in Roots : Undisturbed(g)
      /\ stack' = stack
  BY <1>2, Taken
<1>4. /\ \A g \in Roots \ {h} : SameDriver(g)
      /\ Rooted(h)
  BY OthersKept DEF CallbackStep, DriverInv
<1>5. ~Called(h) /\ root[h].phase = "terminal" /\ ~Pending(h)
  BY <1>2, <1>4, PendingActive DEF Rooted, Placed, Called
<1>6. Cleaning(h)' <=> Cleaning(h) => Rooted(h)'
  BY <1>2, <1>3, <1>4, <1>5 DEF Rooted, Placed, Turns, Kept, Unswept, Called, Undisturbed
<1> QED
  BY <1>3, <1>4, <1>5, <1>6, StillStep DEF DriverInv

(* RootRuntimeState's Drop. *)
LEMMA StateDropped ==
  ASSUME DriverTypeOK, NEW h \in Roots, DropState(h)
  PROVE  /\ state'[h].terminal = state[h].terminal
         /\ root'[h].phase = "gone" => ~state'[h].exists
         /\ root'[h].phase # "gone" => state'[h].exists = state[h].exists
         /\ holder'[h] = holder[h] \/ holder'[h] = "nobody"
<1>1. state \in [Roots -> State] /\ holder \in [Roots -> Holder] /\ state[h] \in State
  BY DEF DriverTypeOK
<1>2. CASE root'[h].phase = "gone"
  <2>1. state' = [state EXCEPT ![h].exists = FALSE, ![h].leases = 0]
    BY <1>2 DEF DropState
  <2>2. holder' = [holder EXCEPT ![h] = IF @ = "state" THEN "nobody" ELSE @]
    BY <1>2 DEF DropState
  <2> QED
    BY <1>1, <1>2, <2>1, <2>2 DEF State
<1>3. CASE root'[h].phase # "gone"
  BY <1>3 DEF DropState
<1> QED
  BY <1>2, <1>3

LEMMA DropRooted ==
  ASSUME TypeOK, Inv, Accounts, DriverTypeOK, DriverInv, NEW h \in Roots, DropTask(h)
  PROVE  DriverInv'
<1>1. /\ OwnerRuns(h) /\ at[h] = "out" /\ DropRoot(h) /\ DropState(h)
      /\ at'[h] = at[h] /\ turn'[h] = turn[h] /\ swept'[h] = swept[h]
  BY DEF DropTask, OwnerRuns
<1>2. /\ \A g \in Roots \ {h} : Undisturbed(g) /\ SameDriver(g)
      /\ root[h].phase \in {"idle", "terminal"} /\ ~Resuming(h) /\ ~Resuming(h)'
  BY <1>1, Dropped, OthersKept DEF Owner
<1>3. Rooted(h) /\ ~Called(h)
  BY <1>1, Running DEF DriverInv
<1>4. /\ state'[h].terminal = state[h].terminal
      /\ root'[h].phase = "gone" => ~state'[h].exists
      /\ root'[h].phase # "gone" => state'[h].exists = state[h].exists
      /\ holder'[h] = holder[h] \/ holder'[h] = "nobody"
  BY <1>1, StateDropped
<1>5. CASE /\ root'[h].phase = "dropping" /\ stack' = Append(stack, Call("cleanup", h))
           /\ ~Pending(h)'
  <2>1. Cleaning(h)' => Rooted(h)'
    BY <1>1, <1>2, <1>3, <1>4, <1>5 DEF Rooted, Placed, Turns, Kept, Unswept, Called
  <2> QED
    BY <1>1, <1>2, <1>5, <2>1, CallbackBegins DEF Callback, DriverInv
<1>6. CASE root'[h].phase = "gone" /\ stack' = stack /\ (Pending(h)' => Pending(h))
  <2>1. Cleaning(h)' <=> Cleaning(h) => Rooted(h)'
    BY <1>1, <1>2, <1>3, <1>4, <1>6 DEF Rooted, Placed, Turns, Kept, Unswept, Called
  <2> QED
    BY <1>2, <1>3, <1>6, <2>1, StillStep DEF DriverInv
<1> QED
  BY <1>1, <1>5, <1>6, Dropped

LEMMA CleanupEndRooted ==
  ASSUME TypeOK, Inv, Accounts, DriverTypeOK, DriverInv, NEW h \in Roots, CleanupEnds(h)
  PROVE  DriverInv'
<1>1. /\ Inside(h, "cleanup") /\ CleanupReturns /\ Top.root = h /\ DropState(h)
      /\ at[h] \in {"out", "return"}
      /\ at'[h] = IF root'[h].phase = "terminal" /\ root[h].phase = "settling"
                  THEN "take" ELSE "out"
      /\ turn'[h] = turn[h] /\ swept'[h] = swept[h]
  BY DEF CleanupEnds, Inside, DriverTypeOK
<1>2. /\ \A g \in Roots \ {h} : Undisturbed(g) /\ SameDriver(g)
      /\ stack' = Below /\ (Pending(h)' => Pending(h)) /\ (Resuming(h)' <=> Resuming(h))
      /\ root'[h].phase = CASE root[h].phase = "settling" -> "terminal"
                            [] root[h].phase = "dropping" -> "gone"
                            [] OTHER -> root[h].phase
  BY <1>1, CleanupReturned, OthersKept DEF CallbackStep
<1>3. Rooted(h) /\ Cleaning(h) /\ ~Resuming(h)
  BY <1>1, Running DEF DriverInv
<1>4. /\ state'[h].terminal = state[h].terminal
      /\ root'[h].phase = "gone" => ~state'[h].exists
      /\ root'[h].phase # "gone" => state'[h].exists = state[h].exists
      /\ holder'[h] = holder[h] \/ holder'[h] = "nobody"
  BY <1>1, StateDropped
<1>5. ~Pending(h) /\ root[h].phase \in {"idle", "settling", "dropping"}
  BY <1>3 DEF Rooted, Placed
<1>6. /\ root'[h].phase \in {"idle", "terminal", "gone"}
      /\ root[h].phase = "settling" <=> root'[h].phase = "terminal"
  BY <1>2, <1>5
<1>7. ~Cleaning(h)' => Rooted(h)'
  BY <1>1, <1>2, <1>3, <1>4, <1>5, <1>6 DEF Rooted, Placed, Turns, Kept, Unswept, Called
<1> QED
  BY <1>1, <1>2, <1>7, CallbackEnds DEF Callback, DriverInv

LEMMA VisitRooted ==
  ASSUME TypeOK, Inv, Accounts, DriverTypeOK, DriverInv, ShutdownVisits, UNCHANGED driverVars
  PROVE  DriverInv'
<1>1. PICK i \in Index, h \in Roots :
           /\ Visited(i) /\ record[i].owner = h
           /\ \A g \in Roots : Undisturbed(g)
           /\ Pending(h) /\ ~Pending(h)'
           /\ CleansAtShutdown(record[i]) => ~Resuming(h)
  BY VisitedRoot
<1>2. /\ \A g \in Roots : SameDriver(g) /\ Steady(g)
      /\ Top.op = "shutdown"
  BY DEF driverVars, SameDriver, Steady, ShutdownVisits
<1>3. Rooted(h)
  BY DEF DriverInv
<1>4. /\ ~Cleaning(h)
      /\ root[h].phase \in {"idle", "polling"}
      /\ root[h].phase = "polling" => Resuming(h)
  BY <1>1, <1>3, PendingActive DEF Rooted, Placed
<1>5. /\ OneCallback' /\ Nested'
      /\ \A g \in Roots : Cleaning(g)' <=> Cleaning(g) \/ (CleansAtShutdown(record[i]) /\ h = g)
  BY <1>1, <1>2, <1>4, StackVisited DEF DriverInv, Called
<1>6. \A g \in Roots \ {h} : Rooted(g)'
  BY <1>1, <1>2, <1>5, AsideKeeps DEF Aside, DriverInv
<1>7. CASE ~CleansAtShutdown(record[i])
  <2>1. Rooted(h)'
    BY <1>1, <1>2, <1>3, <1>5, <1>7, AsideKeeps DEF Aside
  <2> QED
    BY <1>5, <1>6, <2>1 DEF DriverInv
<1>8. CASE CleansAtShutdown(record[i])
  <2>1. Cleaning(h)' /\ ~Resuming(h) /\ ~Resuming(h)' /\ root[h].phase = "idle"
        /\ root'[h].phase = "idle" /\ ~Pending(h)'
    BY <1>1, <1>4, <1>5, <1>8 DEF Undisturbed
  <2>2. at[h] = "out" /\ at'[h] = "out"
    <3>1. at[h] \in Place
      BY DEF DriverTypeOK
    <3> QED
      BY <1>2, <1>3, <1>4, <2>1, <3>1 DEF Rooted, Placed, Called, Place, SameDriver
  <2>3. Rooted(h)'
    BY <1>1, <1>2, <1>3, <2>1, <2>2 DEF Rooted, Placed, Turns, Kept, Unswept, Called, SameDriver
  <2> QED
    BY <1>5, <1>6, <2>3 DEF DriverInv
<1> QED
  BY <1>7, <1>8

(* A registered value is registered once. *)
Valued(h) == context[<<"value", h>>] = IF holder[h] \in {"state", "owner"} THEN 1 ELSE 0

LEMMA CollectRooted ==
  ASSUME TypeOK, Inv, Accounts, DriverTypeOK, DriverInv, \A g \in Roots : Valued(g), Collect
  PROVE  DriverInv'
<1>1. /\ UNCHANGED vars /\ stack' = stack /\ CodeRuns
      /\ UNCHANGED <<at, turn, state, holder>>
  BY DEF Collect, vars
<1>2. \A g \in Roots : Undisturbed(g)
  BY <1>1, Unnoticed
<1>3. /\ OneCallback' /\ Nested'
      /\ \A g \in Roots : Cleaning(g)' <=> Cleaning(g)
  <2>1. Unstacked
    BY <1>1, Shapes
  <2>2. \A g \in Roots : Steady(g)
    BY <1>1 DEF Steady
  <2> QED
    BY <2>1, <2>2, StackKept DEF DriverInv
<1>4. ASSUME NEW g \in Roots PROVE Rooted(g)'
  <2>1. Rooted(g)
    BY DEF DriverInv
  <2>2. \/ swept'[g] = swept[g]
        \/ /\ turn[g] \notin {"none", "Suspended"}
           /\ holder[g] \notin {"state", "owner"}
           /\ swept'[g] = IF at[g] = "releasing" THEN "early" ELSE "lost"
    BY DEF Collect, Unregistered, Valued
  <2>3. Called(g) => Open(g)
    BY <1>1, Running DEF DriverInv
  <2>4. /\ Resuming(g) => at[g] \notin {"settle", "complete"}
        /\ at[g] = "releasing" => ReleaseRunsCode
    BY <2>1, <2>3 DEF Called, Open, Rooted, Placed
  <2>5. Called(g)' <=> Called(g)
    BY <1>2, <1>3 DEF Called, Undisturbed
  <2>6. Unswept(g)'
    BY <1>1, <1>2, <2>1, <2>2, <2>4 DEF Rooted, Unswept, Undisturbed
  <2>7. Placed(g)' /\ Turns(g)' /\ Kept(g)'
    BY <1>1, <1>2, <1>3, <2>1, <2>5 DEF Rooted, Placed, Turns, Kept, Undisturbed
  <2> QED
    BY <2>6, <2>7 DEF Rooted
<1> QED
  BY <1>3, <1>4 DEF DriverInv

(* The facade's steps between callbacks that no root notices. *)
LEMMA FacadeRooted ==
  ASSUME TypeOK, Inv, Accounts, DriverTypeOK, DriverInv, UNCHANGED driverVars,
         \/ CodeRuns /\ ShutdownBegins
         \/ ShutdownReturns \/ SignalWaker \/ WakerReturns
         \/ UNCHANGED vars
  PROVE  DriverInv'
<1>1. \A g \in Roots : Undisturbed(g)
  BY Unnoticed
<1>2. \A g \in Roots : SameDriver(g) /\ Steady(g)
  BY DEF driverVars, SameDriver, Steady
<1>3. OneCallback' /\ Nested' /\ \A g \in Roots : Cleaning(g)' <=> Cleaning(g)
  <2>1. CASE CodeRuns /\ ShutdownBegins
    <3>1. /\ Call("shutdown", NoRoot) \in Frame /\ Call("shutdown", NoRoot).op = "shutdown"
      BY CallIsFrame DEF Call, FrameOp
    <3>2. Pushed(Call("shutdown", NoRoot))
      BY <2>1, <3>1, Shapes DEF ShutdownBegins
    <3>3. stack # <<>> /\ Top.op \in Callback => Open(Top.root)
      BY <2>1 DEF CodeRuns, Callback
    <3> QED
      BY <1>2, <3>1, <3>2, <3>3, StackPushed DEF DriverInv, Callback
  <2>2. CASE ShutdownReturns \/ WakerReturns
    <3>1. Popped /\ Top.op \notin Callback
      BY <2>2, Shapes DEF ShutdownReturns, WakerReturns, Callback
    <3> QED
      BY <1>2, <3>1, StackPopped DEF DriverInv, Callback, Inside
  <2>3. CASE SignalWaker
    <3>1. /\ stack # <<>> /\ Top.op = "signal" /\ Top.root \in Roots \cup {NoRoot}
          /\ stack' = Append(Below, Call("waker", Top.root))
      BY <2>3, Shapes DEF SignalWaker, Frame
    <3>2. /\ Call("waker", Top.root) \in Frame /\ Call("waker", Top.root).op = "waker"
      BY <3>1, CallIsFrame DEF Call, FrameOp
    <3>3. Swapped(Call("waker", Top.root))
      BY <3>1, <3>2, Shapes
    <3> QED
      BY <1>2, <3>1, <3>2, <3>3, StackPopped DEF DriverInv, Callback, Inside
  <2>4. CASE UNCHANGED vars
    <3>1. Unstacked
      BY <2>4, Shapes DEF vars
    <3> QED
      BY <1>2, <3>1, StackKept DEF DriverInv
  <2> QED
    BY <2>1, <2>2, <2>3, <2>4
<1>4. \A g \in Roots : Rooted(g)'
  BY <1>1, <1>2, <1>3, AsideKeeps DEF Aside, DriverInv
<1> QED
  BY <1>3, <1>4 DEF DriverInv

(* The steps that stay inside the callback, and the owner's. *)
Inner(h) ==
  \/ Resume(h) \/ ObserveCancel(h) \/ ThrowCancel(h) \/ FailToThrow(h) \/ BodyReturns(h)
  \/ AcknowledgeCancel(h) \/ FinishTurn(h) \/ Release(h) \/ Complete(h)
  \/ DropActivation(h) \/ CloseReturns(h) \/ ReleaseDropped(h)
  \/ LeaseBuffer(h) \/ Control(h) \/ DropCompletion(h)

LEMMA InnerUndisturbed ==
  ASSUME TypeOK, Inv, Accounts, NEW h \in Roots, Inner(h)
  PROVE  stack' = stack /\ \A g \in Roots : Undisturbed(g)
<1>1. CASE \/ Resume(h) \/ ThrowCancel(h) \/ BodyReturns(h) \/ FinishTurn(h)
           \/ Release(h) \/ Complete(h) \/ DropActivation(h) \/ CloseReturns(h)
           \/ ReleaseDropped(h) \/ LeaseBuffer(h) \/ DropCompletion(h)
  <2>1. UNCHANGED vars
    BY <1>1 DEF Resume, ThrowCancel, BodyReturns, FinishTurn, Release, Complete,
                DropActivation, CloseReturns, ReleaseDropped, LeaseBuffer, DropCompletion
  <2> QED
    BY <2>1, Unnoticed DEF vars
<1>2. CASE ObserveCancel(h) \/ FailToThrow(h) \/ AcknowledgeCancel(h)
  <2>1. record[root[h].task.index].request \in 0 .. MaxRequests
    BY TaskTypes DEF TaskRecord
  <2>2. ASSUME NEW r, NEW x \in {"Observe", "Acknowledge"}, CancelTransition(h, r, x)
        PROVE  r \in 0 .. MaxRequests /\ stack' = stack
    BY <2>1, <2>2 DEF CancelTransition
  <2>3. PICK r \in 0 .. MaxRequests, x \in {"Observe", "Acknowledge"} :
          CancelTransition(h, r, x) /\ stack' = stack
    BY <1>2, <2>2 DEF ObserveCancel, FailToThrow, AcknowledgeCancel
  <2> QED
    BY <2>3, Unnoticed
<1>3. CASE Control(h)
  <2>1. stack' = stack /\ (RequestCancel(h) \/ Wake(h) \/ Rehome(h))
    BY <1>3 DEF Control, RequestCancel, Wake, Rehome
  <2> QED
    BY <2>1, Unnoticed
<1> QED
  BY <1>1, <1>2, <1>3 DEF Inner

LEMMA InnerRooted ==
  ASSUME TypeOK, Inv, Accounts, DriverTypeOK, DriverInv, NEW h \in Roots,
         Inner(h)
  PROVE  DriverInv'
<1>1. stack' = stack /\ \A g \in Roots : Undisturbed(g)
  BY InnerUndisturbed
<1>2. \A g \in Roots \ {h} : SameDriver(g)
  BY OthersKept DEF Inner, Owner, CallbackStep
<1>3. \/ Inside(h, "resume") \/ Inside(h, "cleanup") \/ ~Called(h) \/ Steady(h)
  <2>1. CASE LeaseBuffer(h)
    BY <2>1, Running DEF LeaseBuffer, DriverInv
  <2>2. CASE Control(h) \/ DropCompletion(h)
    BY <2>2 DEF Control, DropCompletion, driverVars, Steady
  <2>3. CASE ~(LeaseBuffer(h) \/ Control(h) \/ DropCompletion(h))
    BY <2>3 DEF Inner, Resume, ObserveCancel, ThrowCancel, FailToThrow, BodyReturns, AcknowledgeCancel,
         FinishTurn, Release, Complete, DropActivation, CloseReturns, ReleaseDropped
  <2> QED
    BY <2>1, <2>2, <2>3
<1>4. Cleaning(h)' <=> Cleaning(h) => Rooted(h)'
  BY <1>1, ResumeRooted, CleanupRooted, OwnerRooted DEF Inner, DriverInv
<1> QED
  BY <1>1, <1>2, <1>3, <1>4, StillStep DEF DriverInv

LEMMA DriverInvStep ==
  ASSUME TypeOK, Inv, Accounts, DriverTypeOK, DriverInv, \A g \in Roots : Valued(g),
         [DriverNext]_allVars
  PROVE  DriverInv'
<1>1. CASE UNCHANGED allVars
  BY <1>1, FacadeRooted DEF allVars
<1>2. CASE Shutdown \/ FacadeStep
  BY <1>2, FacadeRooted, VisitRooted DEF Shutdown, FacadeStep
<1>3. CASE Collect
  BY <1>3, CollectRooted
<1>4. ASSUME NEW h \in Roots, Owner(h) \/ CallbackStep(h)
      PROVE  DriverInv'
  BY <1>4, SubmitRooted, PollRooted, DropRooted, ReturnRooted, TakeRooted, CleanupEndRooted, InnerRooted
     DEF Owner, CallbackStep, Inner
<1> QED
  BY <1>1, <1>2, <1>3, <1>4 DEF DriverNext, Owner

-----------------------------------------------------------------------------
(* The bag of registered roots *)

Leased(h) == context[<<"lease", h>>] = state[h].leases

Owning(c) == {h \in Roots : state[h].exists /\ state[h].coroutine = c}

Counted(c) == /\ IsFiniteSet(Owning(c))
              /\ context[<<"coroutine", c>>] = Cardinality(Owning(c))

Balanced == (\A c \in Coroutines : Counted(c)) /\ \A h \in Roots : Leased(h) /\ Valued(h)

(* How the updates of the bag read. *)
LEMMA Distinct ==
  /\ \A k \in {"lease", "value"}, g \in Roots :
       <<k, g>> \in Registered /\ \A c \in Coroutines : <<k, g>> # <<"coroutine", c>>
  /\ \A c \in Coroutines : <<"coroutine", c>> \in Registered
  /\ \A g, h \in Roots :
       /\ <<"lease", g>> # <<"value", h>>
       /\ g # h => <<"lease", g>> # <<"lease", h>> /\ <<"value", g>> # <<"value", h>>
  /\ \A c, d \in Coroutines : c # d => <<"coroutine", c>> # <<"coroutine", d>>
  BY DEF Registered

LEMMA UpdateReads ==
  ASSUME NEW bag \in [Registered -> Int], NEW x \in Registered, NEW y \in Registered
  PROVE  /\ Added(bag, x)[y] = IF y = x THEN bag[x] + 1 ELSE bag[y]
         /\ Removed(bag, x)[y] = IF y = x THEN bag[x] - 1 ELSE bag[y]
         /\ \A h \in Roots : Unleased(bag, h)[y] = IF y = <<"lease", h>> THEN 0 ELSE bag[y]
  BY DEF Added, Removed, Unleased

LEMMA LeaseReads ==
  ASSUME NEW bag \in [Registered -> Int], NEW h \in Roots, NEW new,
         new = Unleased(bag, h) \/ new = Added(bag, <<"lease", h>>)
  PROVE  /\ \A c \in Coroutines : new[<<"coroutine", c>>] = bag[<<"coroutine", c>>]
         /\ \A g \in Roots : new[<<"value", g>>] = bag[<<"value", g>>]
         /\ \A g \in Roots \ {h} : new[<<"lease", g>>] = bag[<<"lease", g>>]
         /\ new = Unleased(bag, h) => new[<<"lease", h>>] = 0
         /\ new = Added(bag, <<"lease", h>>) => new[<<"lease", h>>] = bag[<<"lease", h>>] + 1
  BY Distinct, UpdateReads

LEMMA ValueReads ==
  ASSUME NEW bag \in [Registered -> Int], NEW h \in Roots, NEW new,
         new = Added(bag, <<"value", h>>) \/ new = Removed(bag, <<"value", h>>)
  PROVE  /\ \A c \in Coroutines : new[<<"coroutine", c>>] = bag[<<"coroutine", c>>]
         /\ \A g \in Roots : new[<<"lease", g>>] = bag[<<"lease", g>>]
         /\ \A g \in Roots \ {h} : new[<<"value", g>>] = bag[<<"value", g>>]
         /\ new = Added(bag, <<"value", h>>) => new[<<"value", h>>] = bag[<<"value", h>>] + 1
         /\ new = Removed(bag, <<"value", h>>) => new[<<"value", h>>] = bag[<<"value", h>>] - 1
  BY Distinct, UpdateReads

LEMMA CoroutineReads ==
  ASSUME NEW bag \in [Registered -> Int], NEW c \in Coroutines, NEW new,
         new = Added(bag, <<"coroutine", c>>) \/ new = Removed(bag, <<"coroutine", c>>)
  PROVE  /\ \A d \in Coroutines \ {c} : new[<<"coroutine", d>>] = bag[<<"coroutine", d>>]
         /\ \A g \in Roots : /\ new[<<"lease", g>>] = bag[<<"lease", g>>]
                             /\ new[<<"value", g>>] = bag[<<"value", g>>]
         /\ new = Added(bag, <<"coroutine", c>>) =>
              new[<<"coroutine", c>>] = bag[<<"coroutine", c>>] + 1
         /\ new = Removed(bag, <<"coroutine", c>>) =>
              new[<<"coroutine", c>>] = bag[<<"coroutine", c>>] - 1
  BY Distinct, UpdateReads

(* Which states there are does not change. *)
LEMMA CountedKept ==
  ASSUME NEW c \in Coroutines, Counted(c),
         \A g \in Roots : /\ state'[g].exists = state[g].exists
                          /\ state'[g].coroutine = state[g].coroutine,
         context'[<<"coroutine", c>>] = context[<<"coroutine", c>>]
  PROVE  Counted(c)'
<1>1. Owning(c)' = Owning(c)
  BY DEF Owning
<1> QED
  BY <1>1 DEF Counted

(* A step of root h, seen by the bag. *)
LEMMA BalancedKept ==
  ASSUME Balanced, NEW h \in Roots,
         \A c \in Coroutines : context'[<<"coroutine", c>>] = context[<<"coroutine", c>>],
         \A g \in Roots \ {h} : /\ SameDriver(g)
                                /\ context'[<<"lease", g>>] = context[<<"lease", g>>]
                                /\ context'[<<"value", g>>] = context[<<"value", g>>],
         state'[h].exists = state[h].exists, state'[h].coroutine = state[h].coroutine,
         Leased(h)', Valued(h)'
  PROVE  Balanced'
<1>1. \A g \in Roots \ {h} : Leased(g)' /\ Valued(g)'
  BY DEF Balanced, Leased, Valued, SameDriver
<1>2. \A g \in Roots : /\ state'[g].exists = state[g].exists
                       /\ state'[g].coroutine = state[g].coroutine
  BY DEF SameDriver
<1>3. \A c \in Coroutines : Counted(c)'
  BY <1>2, CountedKept DEF Balanced
<1> QED
  BY <1>1, <1>3 DEF Balanced

(* The steps that leave the bag alone. *)
LEMMA BagUnchanged ==
  ASSUME DriverTypeOK, DriverInv, Balanced, NEW h \in Roots,
         \/ Resume(h) \/ ObserveCancel(h) \/ ThrowCancel(h) \/ FailToThrow(h) \/ BodyReturns(h)
         \/ AcknowledgeCancel(h) \/ FinishTurn(h) \/ Return(h) \/ Take(h)
         \/ DropActivation(h) \/ CloseReturns(h)
         \/ Control(h) \/ PollTask(h)
  PROVE  Balanced'
<1>1. /\ holder \in [Roots -> Holder] /\ state \in [Roots -> State] /\ state[h] \in State
  BY DEF DriverTypeOK
<1>2. context' = context
  BY DEF Resume, ObserveCancel, ThrowCancel, FailToThrow, BodyReturns, AcknowledgeCancel,
         FinishTurn, Return, Take, DropActivation, CloseReturns, Control, PollTask, driverVars
<1>3. \A g \in Roots \ {h} : SameDriver(g)
  BY OthersKept DEF Owner, CallbackStep
<1>4. /\ state'[h].exists = state[h].exists /\ state'[h].coroutine = state[h].coroutine
      /\ state'[h].leases = state[h].leases
  <2>1. CASE Resume(h)
    BY <1>1, <2>1 DEF Resume, State
  <2>2. CASE ObserveCancel(h) \/ FailToThrow(h) \/ AcknowledgeCancel(h)
    BY <1>1, <2>2 DEF ObserveCancel, FailToThrow, AcknowledgeCancel, State
  <2>3. CASE DropActivation(h)
    BY <1>1, <2>3 DEF DropActivation, State
  <2>4. CASE \/ ThrowCancel(h) \/ BodyReturns(h) \/ FinishTurn(h) \/ Return(h) \/ Take(h)
             \/ CloseReturns(h) \/ Control(h) \/ PollTask(h)
    BY <2>4 DEF ThrowCancel, BodyReturns, FinishTurn, Return, Take, CloseReturns, Control,
                PollTask, driverVars
  <2> QED
    BY <2>1, <2>2, <2>3, <2>4
<1>5. holder'[h] \in {"state", "owner"} <=> holder[h] \in {"state", "owner"}
  <2>1. CASE Resume(h) \/ ThrowCancel(h) \/ FailToThrow(h) \/ BodyReturns(h)
    <3>1. at[h] \in {"entry", "cancel", "body"}
      BY <2>1 DEF Resume, ThrowCancel, FailToThrow, BodyReturns
    <3>2. holder[h] \notin {"state", "owner"}
      BY <3>1 DEF DriverInv, Rooted, Turns
    <3>3. holder'[h] \in {holder[h], "local", "kernel"}
      <4>1. CASE Resume(h) \/ ThrowCancel(h)
        BY <1>1, <4>1 DEF Resume, ThrowCancel, ResumeGenerator
      <4>2. CASE FailToThrow(h)
        BY <1>1, <4>2 DEF FailToThrow
      <4>3. CASE BodyReturns(h)
        BY <1>1, <4>3 DEF BodyReturns
      <4> QED
        BY <2>1, <4>1, <4>2, <4>3
    <3> QED
      BY <3>2, <3>3
  <2>2. CASE Take(h)
    BY <1>1, <2>2 DEF Take
  <2>3. CASE \/ ObserveCancel(h) \/ AcknowledgeCancel(h) \/ FinishTurn(h) \/ Return(h)
             \/ DropActivation(h) \/ CloseReturns(h) \/ Control(h) \/ PollTask(h)
    BY <2>3 DEF ObserveCancel, AcknowledgeCancel, FinishTurn, Return, DropActivation,
                CloseReturns, Control, PollTask, driverVars
  <2> QED
    BY <2>1, <2>2, <2>3
<1>6. Leased(h)' /\ Valued(h)'
  BY <1>2, <1>4, <1>5 DEF Balanced, Leased, Valued
<1> QED
  BY <1>2, <1>3, <1>4, <1>6, BalancedKept

(* The steps that register or remove a lease or a value. *)
LEMMA BagUpdated ==
  ASSUME DriverTypeOK, DriverInv, Balanced, NEW h \in Roots,
         \/ LeaseBuffer(h) \/ Release(h) \/ ReleaseDropped(h) \/ Complete(h) \/ DropCompletion(h)
  PROVE  Balanced'
<1>1. /\ holder \in [Roots -> Holder] /\ state \in [Roots -> State] /\ state[h] \in State
      /\ context \in [Registered -> Int] /\ at \in [Roots -> Place]
  BY DEF DriverTypeOK
<1>2. \A g \in Roots \ {h} : SameDriver(g)
  BY OthersKept DEF Owner, CallbackStep
<1>3. Leased(h) /\ Valued(h) /\ Rooted(h)
  BY DEF Balanced, DriverInv
<1>4. CASE LeaseBuffer(h)
  <2>1. /\ context' = Added(context, <<"lease", h>>) /\ holder'[h] = holder[h]
        /\ state'[h].exists = state[h].exists /\ state'[h].coroutine = state[h].coroutine
        /\ state'[h].leases = state[h].leases + 1
    BY <1>1, <1>4 DEF LeaseBuffer, State
  <2>2. /\ \A c \in Coroutines : context'[<<"coroutine", c>>] = context[<<"coroutine", c>>]
        /\ \A g \in Roots : context'[<<"value", g>>] = context[<<"value", g>>]
        /\ \A g \in Roots \ {h} : context'[<<"lease", g>>] = context[<<"lease", g>>]
        /\ context'[<<"lease", h>>] = context[<<"lease", h>>] + 1
    BY <1>1, <2>1, LeaseReads
  <2>3. Leased(h)' /\ Valued(h)'
    BY <1>3, <2>1, <2>2 DEF Leased, Valued
  <2> QED
    BY <1>2, <2>1, <2>2, <2>3, BalancedKept
<1>5. CASE Release(h) \/ ReleaseDropped(h)
  <2>1. /\ context' = Unleased(context, h) /\ holder'[h] = holder[h]
        /\ state'[h].exists = state[h].exists /\ state'[h].coroutine = state[h].coroutine
        /\ state'[h].leases = 0
    BY <1>1, <1>5 DEF Release, ReleaseDropped, State
  <2>2. /\ \A c \in Coroutines : context'[<<"coroutine", c>>] = context[<<"coroutine", c>>]
        /\ \A g \in Roots : context'[<<"value", g>>] = context[<<"value", g>>]
        /\ \A g \in Roots \ {h} : context'[<<"lease", g>>] = context[<<"lease", g>>]
        /\ context'[<<"lease", h>>] = 0
    BY <1>1, <2>1, LeaseReads
  <2>3. Leased(h)' /\ Valued(h)'
    BY <1>3, <2>1, <2>2 DEF Leased, Valued
  <2> QED
    BY <1>2, <2>1, <2>2, <2>3, BalancedKept
<1>6. CASE Complete(h)
  <2>1. holder[h] \notin {"state", "owner"}
    BY <1>3, <1>6 DEF Complete, Rooted, Turns
  <2>2. /\ state'[h].exists = state[h].exists /\ state'[h].coroutine = state[h].coroutine
        /\ state'[h].leases = state[h].leases
    BY <1>1, <1>6 DEF Complete, State
  <2>3. \/ holder'[h] = "state" /\ context' = Added(context, <<"value", h>>)
        \/ holder'[h] = "nobody" /\ context' = context
    BY <1>1, <1>6 DEF Complete
  <2>4. /\ \A c \in Coroutines : context'[<<"coroutine", c>>] = context[<<"coroutine", c>>]
        /\ \A g \in Roots : context'[<<"lease", g>>] = context[<<"lease", g>>]
        /\ \A g \in Roots \ {h} : context'[<<"value", g>>] = context[<<"value", g>>]
        /\ holder'[h] = "state" => context'[<<"value", h>>] = context[<<"value", h>>] + 1
        /\ holder'[h] = "nobody" => context'[<<"value", h>>] = context[<<"value", h>>]
    <3>1. CASE holder'[h] = "state" /\ context' = Added(context, <<"value", h>>)
      BY <1>1, <3>1, ValueReads
    <3>2. CASE holder'[h] = "nobody" /\ context' = context
      BY <3>2
    <3> QED
      BY <2>3, <3>1, <3>2
  <2>5. Leased(h)' /\ Valued(h)'
    BY <1>3, <2>1, <2>2, <2>3, <2>4 DEF Leased, Valued
  <2> QED
    BY <1>2, <2>2, <2>4, <2>5, BalancedKept
<1>7. CASE DropCompletion(h)
  <2>1. /\ context' = Removed(context, <<"value", h>>) /\ holder[h] = "owner"
        /\ holder'[h] = "nobody" /\ state'[h] = state[h]
    BY <1>1, <1>7 DEF DropCompletion
  <2>2. /\ \A c \in Coroutines : context'[<<"coroutine", c>>] = context[<<"coroutine", c>>]
        /\ \A g \in Roots : context'[<<"lease", g>>] = context[<<"lease", g>>]
        /\ \A g \in Roots \ {h} : context'[<<"value", g>>] = context[<<"value", g>>]
        /\ context'[<<"value", h>>] = context[<<"value", h>>] - 1
    BY <1>1, <2>1, ValueReads
  <2>3. Leased(h)' /\ Valued(h)'
    BY <1>3, <2>1, <2>2 DEF Leased, Valued
  <2> QED
    BY <1>2, <2>1, <2>2, <2>3, BalancedKept
<1> QED
  BY <1>4, <1>5, <1>6, <1>7

(* A state is made. *)
LEMMA BagSubmitted ==
  ASSUME DriverTypeOK, DriverInv, Balanced, NEW h \in Roots, Submit(h)
  PROVE  Balanced'
<1>1. /\ holder \in [Roots -> Holder] /\ state \in [Roots -> State] /\ state[h] \in State
      /\ context \in [Registered -> Int]
  BY DEF DriverTypeOK
<1>2. PICK c \in Coroutines :
        /\ state' = [state EXCEPT ![h] = [@ EXCEPT !.exists = TRUE, !.coroutine = c]]
        /\ context' = Added(context, <<"coroutine", c>>)
  BY DEF Submit
<1>3. /\ state'[h].exists /\ state'[h].coroutine = c /\ state'[h].leases = state[h].leases
      /\ \A g \in Roots \ {h} : state'[g] = state[g]
      /\ holder' = holder
  BY <1>1, <1>2 DEF State, Submit
<1>4. ~state[h].exists
  BY DEF Submit, SubmitRoot, DriverInv, Rooted, Kept
<1>5. /\ \A d \in Coroutines \ {c} : context'[<<"coroutine", d>>] = context[<<"coroutine", d>>]
      /\ \A g \in Roots : /\ context'[<<"lease", g>>] = context[<<"lease", g>>]
                          /\ context'[<<"value", g>>] = context[<<"value", g>>]
      /\ context'[<<"coroutine", c>>] = context[<<"coroutine", c>>] + 1
  BY <1>1, <1>2, CoroutineReads
<1>7. ASSUME NEW g \in Roots PROVE Leased(g)' /\ Valued(g)'
  <2>1. Leased(g) /\ Valued(g)
    BY DEF Balanced
  <2>2. state'[g].leases = state[g].leases
    BY <1>3
  <2> QED
    BY <1>3, <1>5, <2>1, <2>2 DEF Leased, Valued
<1>6. ASSUME NEW d \in Coroutines PROVE Counted(d)'
  <2>1. Counted(d)
    BY DEF Balanced
  <2>2. CASE d = c
    <3>1. Owning(c)' = Owning(c) \cup {h} /\ h \notin Owning(c)
      BY <1>3, <1>4 DEF Owning
    <3>3. /\ IsFiniteSet(Owning(c) \cup {h})
          /\ Cardinality(Owning(c) \cup {h}) = Cardinality(Owning(c)) + 1
      BY <2>1, <2>2, <3>1, FS_AddElement DEF Counted
    <3> QED
      BY <1>5, <2>1, <2>2, <3>1, <3>3 DEF Counted
  <2>3. CASE d # c
    <3>1. Owning(d)' = Owning(d)
      BY <1>3, <1>4, <2>3 DEF Owning
    <3> QED
      BY <1>5, <2>1, <2>3, <3>1 DEF Counted
  <2> QED
    BY <2>2, <2>3
<1> QED
  BY <1>6, <1>7 DEF Balanced

(* A state is dropped, or not. *)
LEMMA BagDropped ==
  ASSUME TypeOK, DriverTypeOK, DriverInv, Balanced, NEW h \in Roots, DropState(h),
         state[h].exists
  PROVE  Balanced'
<1>1. /\ holder \in [Roots -> Holder] /\ state \in [Roots -> State] /\ state[h] \in State
      /\ context \in [Registered -> Int]
  BY DEF DriverTypeOK
<1>2. CASE root'[h].phase # "gone"
  BY <1>2 DEF DropState, Balanced, Counted, Owning, Leased, Valued
<1>3. CASE root'[h].phase = "gone"
  <2>1. PICK c \in Coroutines : c = state[h].coroutine
    BY <1>1 DEF State
  <2>2. /\ state' = [state EXCEPT ![h].exists = FALSE, ![h].leases = 0]
        /\ holder' = [holder EXCEPT ![h] = IF @ = "state" THEN "nobody" ELSE @]
        /\ context' = StateDrops(h)
    BY <1>3 DEF DropState
  <2>3. /\ state'[h].exists = FALSE /\ state'[h].leases = 0
        /\ \A g \in Roots \ {h} : state'[g] = state[g] /\ holder'[g] = holder[g]
        /\ holder'[h] = IF holder[h] = "state" THEN "nobody" ELSE holder[h]
    BY <1>1, <2>2 DEF State
  <2> DEFINE bag == Unleased(context, h)
             rest == Removed(bag, <<"coroutine", c>>)
  <2>4. /\ bag \in [Registered -> Int] /\ rest \in [Registered -> Int]
        /\ Removed(rest, <<"value", h>>) \in [Registered -> Int]
    <3>1. bag \in [Registered -> Int]
      BY <1>1, BagUpdates, RegisteredRoots
    <3>2. rest \in [Registered -> Int]
      BY <3>1, BagUpdates, RegisteredRoots
    <3> QED
      BY <3>1, <3>2, BagUpdates, RegisteredRoots
  <2>5. context' = IF holder[h] = "state" THEN Removed(rest, <<"value", h>>) ELSE rest
    BY <2>1, <2>2 DEF StateDrops
  <2>11. bag = Unleased(context, h)
    OBVIOUS
  <2> HIDE DEF bag
  <2>6. /\ \A g \in Roots : bag[<<"value", g>>] = context[<<"value", g>>]
        /\ \A g \in Roots \ {h} : bag[<<"lease", g>>] = context[<<"lease", g>>]
        /\ bag[<<"lease", h>>] = 0
        /\ \A d \in Coroutines : bag[<<"coroutine", d>>] = context[<<"coroutine", d>>]
    BY <1>1, <2>11, LeaseReads
  <2>7. /\ \A g \in Roots : /\ rest[<<"value", g>>] = bag[<<"value", g>>]
                            /\ rest[<<"lease", g>>] = bag[<<"lease", g>>]
        /\ \A d \in Coroutines : rest[<<"coroutine", d>>] =
             IF d = c THEN bag[<<"coroutine", c>>] - 1 ELSE bag[<<"coroutine", d>>]
    BY <2>1, <2>4, CoroutineReads
  <2> HIDE DEF rest
  <2>8. /\ \A g \in Roots :
             /\ context'[<<"lease", g>>] = rest[<<"lease", g>>]
             /\ g # h => context'[<<"value", g>>] = rest[<<"value", g>>]
        /\ context'[<<"value", h>>] = IF holder[h] = "state" THEN rest[<<"value", h>>] - 1
                                     ELSE rest[<<"value", h>>]
        /\ \A d \in Coroutines : context'[<<"coroutine", d>>] = rest[<<"coroutine", d>>]
    <3>1. CASE holder[h] = "state"
      <4>1. context' = Removed(rest, <<"value", h>>)
        BY <2>5, <3>1
      <4> QED
        BY <2>4, <3>1, <4>1, ValueReads
    <3>2. CASE holder[h] # "state"
      BY <2>5, <3>2
    <3> QED
      BY <3>1, <3>2
  <2>9. ASSUME NEW g \in Roots PROVE Leased(g)' /\ Valued(g)'
    <3>1. Leased(g) /\ Valued(g)
      BY DEF Balanced
    <3>2. Leased(g)'
      <4>1. context'[<<"lease", g>>] = bag[<<"lease", g>>]
        BY <2>7, <2>8
      <4>2. CASE g = h
        BY <2>3, <2>6, <4>1, <4>2 DEF Leased
      <4>3. CASE g # h
        BY <2>3, <2>6, <3>1, <4>1, <4>3 DEF Leased
      <4> QED
        BY <4>2, <4>3
    <3>3. Valued(g)'
      <4>1. CASE g = h
        <5>1. /\ rest[<<"value", h>>] = context[<<"value", h>>]
              /\ context[<<"value", h>>] = IF holder[h] \in {"state", "owner"} THEN 1 ELSE 0
          BY <2>6, <2>7, <3>1, <4>1 DEF Valued
        <5>2. context'[<<"value", h>>] = IF holder'[h] \in {"state", "owner"} THEN 1 ELSE 0
          <6>1. CASE holder[h] = "state"
            BY <2>3, <2>8, <5>1, <6>1
          <6>2. CASE holder[h] # "state"
            BY <2>3, <2>8, <5>1, <6>2
          <6> QED
            BY <6>1, <6>2
        <5> QED
          BY <4>1, <5>2 DEF Valued
      <4>2. CASE g # h
        BY <2>3, <2>6, <2>7, <2>8, <3>1, <4>2 DEF Valued
      <4> QED
        BY <4>1, <4>2
    <3> QED
      BY <3>2, <3>3
  <2>10. ASSUME NEW d \in Coroutines PROVE Counted(d)'
    <3>1. Counted(d)
      BY DEF Balanced
    <3>2. CASE d = c
      <4>1. Owning(c)' = Owning(c) \ {h} /\ h \in Owning(c)
        BY <2>1, <2>3 DEF Owning
      <4>2. context'[<<"coroutine", c>>] = context[<<"coroutine", c>>] - 1
        BY <2>1, <2>6, <2>7, <2>8
      <4>3. /\ IsFiniteSet(Owning(c) \ {h})
            /\ Cardinality(Owning(c) \ {h}) = Cardinality(Owning(c)) - 1
        BY <3>1, <3>2, <4>1, FS_RemoveElement DEF Counted
      <4> QED
        BY <3>1, <3>2, <4>1, <4>2, <4>3 DEF Counted
    <3>3. CASE d # c
      <4>1. Owning(d)' = Owning(d)
        BY <2>1, <2>3, <3>3 DEF Owning
      <4>2. context'[<<"coroutine", d>>] = context[<<"coroutine", d>>]
        BY <2>6, <2>7, <2>8, <3>3
      <4> QED
        BY <3>1, <4>1, <4>2 DEF Counted
    <3> QED
      BY <3>2, <3>3
  <2> QED
    BY <2>9, <2>10 DEF Balanced
<1> QED
  BY <1>2, <1>3

LEMMA BalancedStep ==
  ASSUME TypeOK, Inv, Accounts, DriverTypeOK, DriverInv, Balanced, [DriverNext]_allVars
  PROVE  Balanced'
<1>1. CASE UNCHANGED driverVars
  BY <1>1 DEF driverVars, Balanced, Counted, Owning, Leased, Valued
<1>2. CASE Collect
  BY <1>2 DEF Collect, Balanced, Counted, Owning, Leased, Valued
<1>3. ASSUME NEW h \in Roots, DropTask(h) PROVE Balanced'
  <2>1. DropState(h) /\ DropRoot(h)
    BY <1>3 DEF DropTask
  <2>2. state[h].exists
    BY <2>1 DEF DropRoot, DriverInv, Rooted, Kept
  <2> QED
    BY <2>1, <2>2, BagDropped
<1>4. ASSUME NEW h \in Roots, CleanupEnds(h) PROVE Balanced'
  <2>1. DropState(h) /\ Inside(h, "cleanup")
    BY <1>4 DEF CleanupEnds
  <2>2. state[h].exists
    BY <2>1, Running DEF DriverInv, Rooted, Kept, Placed
  <2> QED
    BY <2>1, <2>2, BagDropped
<1>5. ASSUME NEW h \in Roots, Owner(h) \/ CallbackStep(h) PROVE Balanced'
  BY <1>3, <1>4, <1>5, BagUnchanged, BagUpdated, BagSubmitted DEF Owner, CallbackStep
<1> QED
  BY <1>1, <1>2, <1>5 DEF DriverNext, Owner, Shutdown, FacadeStep, allVars

-----------------------------------------------------------------------------
(* Requests and leases *)

(* Request identifiers are issued in order, and 0 is no request. *)
Issued(i) ==
  /\ record[i].request < nextRequest
  /\ record[i].request = 0 => record[i].cancel = "Clear"

(* What a step does to the request of slot i: nothing, a new task, a new     *)
(* request, or a transition of one that was pending.                       *)
RequestMoves(i) ==
  \/ record'[i].request = record[i].request /\ record'[i].cancel = record[i].cancel
  \/ record'[i].request = 0 /\ record'[i].cancel = "Clear"
  \/ record'[i].request = nextRequest /\ nextRequest < nextRequest'
  \/ record'[i].request = record[i].request /\ record[i].cancel \in PendingCancel

LEMMA RequestSteps ==
  ASSUME TypeOK, [Next]_vars
  PROVE  /\ nextRequest <= nextRequest'
         /\ \A i \in Index : RequestMoves(i)
         /\ \A g \in Roots : root[g].phase # "unborn" => root'[g].task = root[g].task
<1> /\ record \in [Index -> TaskRecord] /\ nextRequest \in Int
    /\ root \in [Roots -> [task : TaskId, phase : RootPhase]]
    /\ \A i \in Index : record[i] \in TaskRecord
    /\ \A g \in Roots : root[g].task.index \in Index
  BY TaskTypes DEF TypeOK
<1>1. ASSUME UNCHANGED <<record, nextRequest>>
      PROVE  nextRequest <= nextRequest' /\ \A i \in Index : RequestMoves(i)
  BY <1>1 DEF RequestMoves
<1>2. ASSUME NEW i \in Index, NEW rec, record' = [record EXCEPT ![i] = rec], nextRequest' = nextRequest,
             \/ rec.request = record[i].request /\ rec.cancel = record[i].cancel
             \/ rec.request = 0 /\ rec.cancel = "Clear"
             \/ rec.request = record[i].request /\ record[i].cancel \in PendingCancel
      PROVE  nextRequest <= nextRequest' /\ \A j \in Index : RequestMoves(j)
  <2>1. \A j \in Index : j # i => record'[j] = record[j]
    BY <1>2
  <2>2. record'[i] = rec
    BY <1>2
  <2>3. RequestMoves(i)
    BY <1>2, <2>2 DEF RequestMoves
  <2>4. \A j \in Index : j # i => RequestMoves(j)
    BY <2>1 DEF RequestMoves
  <2> QED
    BY <1>2, <2>3, <2>4
<1>3. ASSUME NEW t \in TaskId, WakeIn(record, t), nextRequest' = nextRequest
      PROVE  nextRequest <= nextRequest' /\ \A j \in Index : RequestMoves(j)
  <2>1. CASE record' = record
    BY <1>1, <1>3, <2>1
  <2>2. CASE record' = [record EXCEPT ![t.index].wakeOutstanding = TRUE]
    <3>1. PICK i \in Index : i = t.index
      BY DEF TaskId
    <3>2. \A j \in Index : record'[j].request = record[j].request /\ record'[j].cancel = record[j].cancel
      BY <2>2, <3>1 DEF TaskRecord
    <3> QED
      BY <1>3, <3>2 DEF RequestMoves
  <2> QED
    BY <1>3, <2>1, <2>2 DEF WakeIn
<1>4. ASSUME NEW h \in Roots, SubmitRoot(h)
      PROVE  nextRequest <= nextRequest' /\ \A j \in Index : RequestMoves(j)
  <2>1. PICK i \in Index : record' = [record EXCEPT ![i] = Fresh(h)]
    BY <1>4 DEF SubmitRoot
  <2>2. Fresh(h).request = 0 /\ Fresh(h).cancel = "Clear" /\ nextRequest' = nextRequest
    BY <1>4 DEF Fresh, Vacant, SubmitRoot
  <2> QED
    BY <1>2, <2>1, <2>2
<1>5. ASSUME NEW h \in Roots, RequestCancel(h)
      PROVE  nextRequest <= nextRequest' /\ \A j \in Index : RequestMoves(j)
  <2>1. PICK i \in Index : i = root[h].task.index
    OBVIOUS
  <2>2. /\ nextRequest' = nextRequest + 1
        /\ \E recs \in {[record EXCEPT ![i].request = nextRequest, ![i].cancel = "Requested"]} :
             record' = recs \/ record' = [recs EXCEPT ![i].wakeOutstanding = TRUE]
    BY <1>5, <2>1 DEF RequestCancel, WakeIn
  <2>3. /\ record'[i].request = nextRequest
        /\ \A j \in Index \ {i} : record'[j] = record[j]
    BY <2>2 DEF TaskRecord
  <2> QED
    BY <2>2, <2>3 DEF RequestMoves
<1>6. ASSUME NEW h \in Roots, NEW r, NEW x, CancelTransition(h, r, x)
      PROVE  nextRequest <= nextRequest' /\ \A j \in Index : RequestMoves(j)
  <2>1. PICK i \in Index : i = root[h].task.index
    OBVIOUS
  <2> DEFINE rec == [record[i] EXCEPT !.cancel = CancelStep(record[i].cancel)]
  <2>2. /\ record' = [record EXCEPT ![i] = rec] /\ nextRequest' = nextRequest
        /\ record[i].cancel \in PendingCancel
    BY <1>6, <2>1 DEF CancelTransition, PendingCancel
  <2>3. rec.request = record[i].request
    BY DEF TaskRecord
  <2> QED
    BY <1>2, <2>2, <2>3
<1>7. ASSUME NEW h \in Roots, TakeCompletion(h)
      PROVE  nextRequest <= nextRequest' /\ \A j \in Index : RequestMoves(j)
  <2>1. PICK i \in Index : i = root[h].task.index
    OBVIOUS
  <2>2. /\ record' = [record EXCEPT ![i] = Vacant] /\ nextRequest' = nextRequest
        /\ Vacant.request = 0 /\ Vacant.cancel = "Clear"
    BY <1>7, <2>1 DEF TakeCompletion, Vacant
  <2> QED
    BY <1>2, <2>2
<1>8. ASSUME NEW h \in Roots, Poll(h) \/ ResumeReturns(h) \/ DropRoot(h)
      PROVE  nextRequest <= nextRequest' /\ \A j \in Index : RequestMoves(j)
  <2>1. PICK i \in Index : i = root[h].task.index
    OBVIOUS
  <2>2. nextRequest' = nextRequest
    BY <1>8 DEF Poll, ResumeReturns, DropRoot
  <2>3. \/ record' = record
        \/ record' = [record EXCEPT ![i].wakeOutstanding = FALSE]
        \/ record' = [record EXCEPT ![i] = PollMark(record[i], home[h])]
        \/ record' = [record EXCEPT ![i].cleanupCalled = TRUE]
        \/ record' = [record EXCEPT ![i] = PendingRecord(record[i])]
        \/ record' = [record EXCEPT ![i] = Completed(record[i], "Runtime")]
        \/ record' = [record EXCEPT ![i] =
                        [Completed(record[i], "Dropped") EXCEPT !.cleanupCalled = TRUE]]
    <3>1. CASE Poll(h)
      BY <2>1, <3>1 DEF Poll, PollSettled, PollResume
    <3>2. CASE ResumeReturns(h)
      BY <2>1, <3>2 DEF ResumeReturns, ResumeOvertaken, ResumePending, ResumeReady
    <3>3. CASE DropRoot(h)
      BY <2>1, <3>3 DEF DropRoot
    <3> QED
      BY <1>8, <3>1, <3>2, <3>3
  <2>4. \A j \in Index : record'[j].request = record[j].request /\ record'[j].cancel = record[j].cancel
    <3>1. CASE record' = record
      BY <3>1
    <3>2. ASSUME NEW rec, rec.request = record[i].request, rec.cancel = record[i].cancel,
                 record' = [record EXCEPT ![i] = rec]
          PROVE  \A j \in Index : record'[j].request = record[j].request /\ record'[j].cancel = record[j].cancel
      BY <3>2
    <3>3. /\ PollMark(record[i], home[h]).request = record[i].request
          /\ PollMark(record[i], home[h]).cancel = record[i].cancel
          /\ PendingRecord(record[i]).request = record[i].request
          /\ PendingRecord(record[i]).cancel = record[i].cancel
      BY DEF PollMark, PendingRecord, TaskRecord
    <3>4. /\ Completed(record[i], "Runtime").request = record[i].request
          /\ Completed(record[i], "Runtime").cancel = record[i].cancel
          /\ [Completed(record[i], "Dropped") EXCEPT !.cleanupCalled = TRUE].request = record[i].request
          /\ [Completed(record[i], "Dropped") EXCEPT !.cleanupCalled = TRUE].cancel = record[i].cancel
      BY DEF Completed, TaskRecord
    <3>5. CASE \/ record' = [record EXCEPT ![i].wakeOutstanding = FALSE]
               \/ record' = [record EXCEPT ![i].cleanupCalled = TRUE]
      BY <3>5 DEF TaskRecord
    <3> QED
      BY <2>3, <3>1, <3>2, <3>3, <3>4, <3>5
  <2> QED
    BY <2>2, <2>4 DEF RequestMoves
<1>9. ASSUME ShutdownVisits
      PROVE  nextRequest <= nextRequest' /\ \A j \in Index : RequestMoves(j)
  <2>1. PICK i \in Index :
          record' = [record EXCEPT
                ![i] = [Completed(record[i], "Shutdown") EXCEPT
                          !.cleanupCalled = @ \/ CleansAtShutdown(record[i])]]
    BY <1>9, VisitShape DEF ActiveFrom
  <2> DEFINE done == Completed(record[i], "Shutdown")
             rec == [done EXCEPT !.cleanupCalled = done.cleanupCalled \/ CleansAtShutdown(record[i])]
  <2>2. record' = [record EXCEPT ![i] = rec]
    BY <2>1
  <2>3. rec.request = record[i].request /\ rec.cancel = record[i].cancel
    BY DEF Completed, TaskRecord
  <2>4. nextRequest' = nextRequest
    BY <1>9 DEF ShutdownVisits
  <2> HIDE DEF rec
  <2> QED
    BY <1>2, <2>2, <2>3, <2>4
<1>10. nextRequest <= nextRequest' /\ \A i \in Index : RequestMoves(i)
  <2>1. ASSUME NEW h \in Roots, RootStep(h)
        PROVE  nextRequest <= nextRequest' /\ \A i \in Index : RequestMoves(i)
    <3>1. CASE Wake(h)
      BY <1>3, <3>1 DEF Wake
    <3>2. CASE Rehome(h)
      BY <1>1, <3>2 DEF Rehome, arenaVars
    <3> QED
      BY <1>4, <1>5, <1>7, <1>8, <2>1, <3>1, <3>2 DEF RootStep
  <2>2. ASSUME NEW tm \in Timers, TimerCallback(tm)
        PROVE  nextRequest <= nextRequest' /\ \A i \in Index : RequestMoves(i)
    <3>1. timer[tm].task \in TaskId
      BY DEF TypeOK
    <3> QED
      BY <1>1, <1>3, <2>2, <3>1 DEF TimerCallback
  <2>3. ASSUME \/ \E tm \in Timers, h \in Roots : RegisterTimer(tm, h)
               \/ \E tm \in Timers : CancelTimer(tm)
               \/ CleanupReturns \/ ShutdownBegins \/ ShutdownReturns \/ SignalWaker
               \/ WakerReturns \/ UNCHANGED vars
        PROVE  nextRequest <= nextRequest' /\ \A i \in Index : RequestMoves(i)
    BY <1>1, <2>3 DEF RegisterTimer, CancelTimer, CleanupReturns, ShutdownBegins,
         ShutdownReturns, SignalWaker, WakerReturns, arenaVars, vars
  <2> QED
    BY <1>6, <1>9, <2>1, <2>2, <2>3 DEF Next
<1>11. \A g \in Roots : root[g].phase # "unborn" => root'[g].task = root[g].task
  <2>1. ASSUME NEW h \in Roots, RootStep(h)
        PROVE  \A g \in Roots : root[g].phase # "unborn" => root'[g].task = root[g].task
    <3>1. CASE SubmitRoot(h)
      BY <3>1 DEF SubmitRoot
    <3>2. CASE Wake(h) \/ RequestCancel(h) \/ TakeCompletion(h) \/ Rehome(h)
      BY <3>2 DEF Wake, RequestCancel, TakeCompletion, Rehome, arenaVars
    <3>3. CASE Poll(h)
      BY <3>3 DEF Poll, PollSettled, PollResume
    <3>4. CASE ResumeReturns(h)
      BY <3>4 DEF ResumeReturns, ResumeOvertaken, ResumePending, ResumeReady
    <3>5. CASE DropRoot(h)
      BY <3>5 DEF DropRoot
    <3> QED
      BY <2>1, <3>1, <3>2, <3>3, <3>4, <3>5 DEF RootStep
  <2>2. CASE CleanupReturns
    BY <2>2 DEF CleanupReturns
  <2>3. ASSUME ~CleanupReturns, ~\E h \in Roots : RootStep(h)
        PROVE  root' = root
    <3>1. CASE \E h \in Roots, r \in 0 .. MaxRequests, x \in {"Observe", "Acknowledge"} :
                 CancelTransition(h, r, x)
      BY <3>1 DEF CancelTransition
    <3>2. CASE \/ \E tm \in Timers, h \in Roots : RegisterTimer(tm, h)
               \/ \E tm \in Timers : TimerCallback(tm) \/ CancelTimer(tm)
      BY <3>2 DEF RegisterTimer, TimerCallback, CancelTimer
    <3>3. CASE \/ ShutdownBegins \/ ShutdownVisits \/ ShutdownReturns \/ SignalWaker
               \/ WakerReturns \/ UNCHANGED vars
      BY <3>3 DEF ShutdownBegins, ShutdownVisits, ShutdownReturns, SignalWaker, WakerReturns, vars
    <3> QED
      BY <2>3, <3>1, <3>2, <3>3 DEF Next
  <2> QED
    BY <2>1, <2>2, <2>3
<1> QED
  BY <1>10, <1>11

(* A step about root h disturbs no other. *)
LEMMA OthersUndisturbed ==
  ASSUME TypeOK, Inv, Accounts, DriverTypeOK, DriverInv, NEW h \in Roots, Owner(h) \/ CallbackStep(h)
  PROVE  \A g \in Roots \ {h} : Undisturbed(g)
<1>1. CASE Submit(h)
  BY <1>1, Submitted DEF Submit
<1>2. CASE PollTask(h)
  BY <1>2, Polled DEF PollTask
<1>3. CASE DropTask(h)
  BY <1>3, Dropped DEF DropTask
<1>4. CASE Return(h)
  <2>1. ResumeReturns(h)
    BY <1>4 DEF Return, Inside, ResumeReturns
  <2> QED
    BY <2>1, Returned
<1>5. CASE Take(h)
  BY <1>5, Taken DEF Take
<1>6. CASE CleanupEnds(h)
  BY <1>6, CleanupReturned DEF CleanupEnds, Inside
<1>7. CASE ~(\/ Submit(h) \/ PollTask(h) \/ DropTask(h) \/ Return(h) \/ Take(h) \/ CleanupEnds(h))
  BY <1>7, InnerUndisturbed DEF Owner, CallbackStep, Inner
<1> QED
  BY <1>1, <1>2, <1>3, <1>4, <1>5, <1>6, <1>7

(* While leases are being released after a turn, the request the turn        *)
(* delivered is answered, or a newer one has taken its place.               *)
Answered(h) ==
  /\ request[h] < nextRequest
  /\ at[h] = "releasing" /\ Resuming(h)
       /\ request[h] = record[root[h].task.index].request =>
            Cancel(h) \notin PendingCancel

Answers == (\A i \in Index : Issued(i)) /\ \A h \in Roots : Answered(h)

LEMMA RequestIds ==
  ASSUME TypeOK, TypeOK', DriverTypeOK
  PROVE  /\ nextRequest \in Int /\ nextRequest' \in Int /\ nextRequest >= 1
         /\ \A g \in Roots : request[g] \in Int
<1>1. \A n \in 1 .. MaxRequests + 1 : n \in Int /\ n >= 1
  BY ConstantsAssumption
<1>2. nextRequest \in 1 .. MaxRequests + 1
  BY DEF TypeOK
<1>3. nextRequest' \in 1 .. MaxRequests + 1
  BY DEF TypeOK
<1>4. request \in [Roots -> 0 .. MaxRequests]
  BY DEF DriverTypeOK
<1> QED
  BY <1>1, <1>2, <1>3, <1>4

(* Nothing but a newer request changes an answered one. *)
LEMMA AnsweredKept ==
  ASSUME TypeOK, TypeOK', [Next]_vars, Inv, Answers, DriverTypeOK, NEW g \in Roots,
         request'[g] = request[g], Resuming(g), at[g] = "releasing"
  PROVE  Answered(g)'
<1>1. PICK i \in Index : i = root[g].task.index
  BY TaskTypes
<1>2. root[g].phase # "unborn"
  BY DEF Inv, ResumesPolling, Resuming
<1>3. root'[g].task.index = i
  BY <1>1, <1>2, RequestSteps
<1>4. /\ request[g] \in Int /\ nextRequest \in Int /\ nextRequest' \in Int
      /\ request[g] < nextRequest /\ nextRequest <= nextRequest'
  BY RequestIds, RequestSteps DEF Answers, Answered
<1>5. request'[g] = record'[i].request => record'[i].cancel \notin PendingCancel
  <2>1. RequestMoves(i)
    BY RequestSteps
  <2>2. request[g] = record[i].request => record[i].cancel \notin PendingCancel
    BY <1>1 DEF Answers, Answered, Cancel
  <2>3. CASE record'[i].request = record[i].request /\ record'[i].cancel = record[i].cancel
    BY <2>2, <2>3
  <2>4. CASE record'[i].request = 0 /\ record'[i].cancel = "Clear"
    BY <2>4 DEF PendingCancel
  <2>5. CASE record'[i].request = nextRequest
    BY <1>4, <2>5
  <2>6. CASE record'[i].request = record[i].request /\ record[i].cancel \in PendingCancel
    BY <2>2, <2>6
  <2> QED
    BY <2>1, <2>3, <2>4, <2>5, <2>6 DEF RequestMoves
<1>6. request'[g] < nextRequest'
  BY <1>4
<1> QED
  BY <1>3, <1>5, <1>6 DEF Answered, Cancel

LEMMA RequestsIssued ==
  ASSUME TypeOK, TypeOK', [Next]_vars, \A i \in Index : Issued(i)
  PROVE  \A i \in Index : Issued(i)'
<1> SUFFICES ASSUME NEW i \in Index PROVE Issued(i)'
  OBVIOUS
<1>1. RequestMoves(i) /\ Issued(i) /\ nextRequest <= nextRequest'
  BY RequestSteps
<1>2. /\ record[i].request \in Int /\ record'[i].request \in Int
      /\ nextRequest \in 1 .. MaxRequests + 1 /\ nextRequest' \in Int
  <2>1. \A n \in 0 .. MaxRequests : n \in Int
    OBVIOUS
  <2> QED
    BY <2>1 DEF TypeOK, TaskRecord
<1>3. nextRequest >= 1
  BY <1>2, ConstantsAssumption
<1> QED
  BY <1>1, <1>2, <1>3 DEF RequestMoves, Issued, PendingCancel

LEMMA AnswersStep ==
  ASSUME TypeOK, TypeOK', Inv, Accounts, DriverTypeOK, DriverInv, Answers, [DriverNext]_allVars
  PROVE  Answers'
<1>1. [Next]_vars
  BY StepIsFacade
<1>2. \A i \in Index : Issued(i)'
  BY <1>1, RequestsIssued DEF Answers
<1>3. /\ nextRequest \in Int /\ nextRequest' \in Int /\ nextRequest <= nextRequest'
      /\ nextRequest >= 1
      /\ \A g \in Roots : request[g] \in Int
      /\ \A g \in Roots : request[g] < nextRequest
  BY <1>1, RequestIds, RequestSteps DEF Answers, Answered
<1>4. ASSUME NEW g \in Roots, request'[g] = request[g],
             ~(at'[g] = "releasing" /\ Resuming(g)') \/ (at[g] = "releasing" /\ Resuming(g))
      PROVE  Answered(g)'
  <2>1. CASE at[g] = "releasing" /\ Resuming(g)
    BY <1>1, <1>4, <2>1, AnsweredKept
  <2>2. CASE ~(at'[g] = "releasing" /\ Resuming(g)')
    <3>1. request'[g] < nextRequest'
      BY <1>3, <1>4
    <3> QED
      BY <2>2, <3>1 DEF Answered
  <2> QED
    BY <1>4, <2>1, <2>2
<1>5. ASSUME NEW g \in Roots, request'[g] = request[g], at'[g] = at[g], Resuming(g)' => Resuming(g)
      PROVE  Answered(g)'
  BY <1>4, <1>5
<1>6. ASSUME NEW h \in Roots, Owner(h) \/ CallbackStep(h), NEW g \in Roots, g # h
      PROVE  Answered(g)'
  <2>1. SameDriver(g) /\ request'[g] = request[g]
    <3>1. request'[g] = request[g]
      BY <1>6 DEF Owner, CallbackStep, Submit, LeaseBuffer, Control, PollTask, DropCompletion,
           DropTask, Resume, ObserveCancel, ThrowCancel, FailToThrow, BodyReturns,
           AcknowledgeCancel, FinishTurn, Release, Complete, Return, Take, DropActivation,
           CloseReturns, ReleaseDropped, CleanupEnds, driverVars, DriverTypeOK
    <3> QED
      BY <1>6, <3>1, OthersKept
  <2>2. Resuming(g)' => Resuming(g)
    BY <1>1, <1>6, OthersUndisturbed DEF Undisturbed
  <2> QED
    BY <1>5, <2>1, <2>2 DEF SameDriver
<1>7. ASSUME NEW h \in Roots, Owner(h) \/ CallbackStep(h) PROVE Answered(h)'
  <2> /\ at \in [Roots -> Place] /\ request \in [Roots -> 0 .. MaxRequests]
      /\ state \in [Roots -> State]
    BY DEF DriverTypeOK
  <2> /\ record \in [Index -> TaskRecord] /\ root[h].task.index \in Index
    BY TaskTypes
  <2>1. PICK i \in Index : i = root[h].task.index
    OBVIOUS
  <2>2. Issued(i) /\ Issued(i)'
    BY <1>2 DEF Answers
  <2>3. CASE Submit(h) \/ LeaseBuffer(h) \/ Control(h) \/ DropCompletion(h) \/ DropTask(h)
    <3>1. request'[h] = request[h] /\ at'[h] = at[h]
      BY <2>3 DEF Submit, LeaseBuffer, Control, DropCompletion, DropTask, driverVars
    <3>2. Resuming(h)' => Resuming(h)
      BY <2>3, InnerUndisturbed, Submitted, Dropped DEF Inner, Submit, DropTask, Undisturbed
    <3> QED
      BY <1>5, <3>1, <3>2
  <2>4. CASE \/ PollTask(h) \/ ThrowCancel(h) \/ BodyReturns(h)
             \/ Release(h) \/ Complete(h) \/ Return(h) \/ Take(h)
    <3>1. request'[h] = request[h] /\ at'[h] # "releasing"
      BY <2>4 DEF PollTask, ThrowCancel, ResumeGenerator, BodyReturns, Release, Complete,
                  Return, Take
    <3> QED
      BY <1>4, <3>1
  <2>5. CASE DropActivation(h) \/ CloseReturns(h) \/ ReleaseDropped(h) \/ CleanupEnds(h)
    <3>1. request'[h] = request[h] /\ Inside(h, "cleanup")
      BY <2>5 DEF DropActivation, CloseReturns, ReleaseDropped, CleanupEnds
    <3>2. ~Resuming(h)
      BY <3>1, Running DEF DriverInv
    <3>3. ~Resuming(h)'
      <4>1. CASE CleanupEnds(h)
        BY <3>2, <4>1, CleanupReturned DEF CleanupEnds, Inside
      <4>2. CASE ~CleanupEnds(h)
        BY <2>5, <3>2, <4>2, InnerUndisturbed DEF Inner, Undisturbed
      <4> QED
        BY <4>1, <4>2
    <3> QED
      BY <1>4, <3>1, <3>3
  <2>6. CASE Resume(h)
    <3>1. request'[h] = 0 /\ at'[h] # "releasing"
      BY <2>6 DEF Resume, ResumeGenerator
    <3> QED
      BY <1>3, <3>1 DEF Answered
  <2>7. CASE ObserveCancel(h)
    <3>1. request'[h] = record[i].request /\ at'[h] = "cancel" /\ nextRequest' = nextRequest
      BY <2>1, <2>7 DEF ObserveCancel, CancelTransition
    <3> QED
      BY <2>2, <3>1 DEF Answered, Issued
  <2>8. CASE FailToThrow(h) \/ AcknowledgeCancel(h)
    <3>1. /\ request'[h] = request[h] /\ CancelTransition(h, request[h], "Acknowledge")
      BY <2>8 DEF FailToThrow, AcknowledgeCancel
    <3>2. /\ nextRequest' = nextRequest /\ root' = root
          /\ record[i].cancel = "Observed"
          /\ record' = [record EXCEPT ![i].cancel = CancelStep(record[i].cancel)]
      BY <2>1, <3>1 DEF CancelTransition
    <3>3. record'[i].cancel = "Acknowledged"
      BY <3>2 DEF CancelStep, TaskRecord
    <3> QED
      BY <1>3, <2>1, <3>1, <3>2, <3>3 DEF Answered, Cancel, PendingCancel
  <2>9. CASE FinishTurn(h)
    <3>1. request'[h] = 0 /\ UNCHANGED <<record, nextRequest, root>>
      BY <2>9 DEF FinishTurn, vars, arenaVars
    <3> QED
      BY <1>3, <2>1, <2>2, <3>1 DEF Answered, Issued, Cancel, PendingCancel
  <2> QED
    BY <1>7, <2>3, <2>4, <2>5, <2>6, <2>7, <2>8, <2>9 DEF Owner, CallbackStep
<1>8. ASSUME UNCHANGED driverVars \/ Collect, ~\E h \in Roots : Owner(h) \/ CallbackStep(h)
      PROVE  \A g \in Roots : Answered(g)'
  <2>1. /\ request' = request /\ at' = at
    BY <1>8 DEF driverVars, Collect
  <2>2. \A g \in Roots : Resuming(g)' => Resuming(g)
    <3>1. CASE Shutdown \/ FacadeStep
      BY <3>1, Unnoticed, VisitedRoot DEF Shutdown, FacadeStep, Undisturbed
    <3>2. CASE Collect \/ UNCHANGED allVars
      BY <3>2, Unnoticed DEF Collect, allVars, Undisturbed
    <3> QED
      BY <1>8, <3>1, <3>2 DEF DriverNext, Owner
  <2> QED
    BY <1>5, <2>1, <2>2
<1>9. \A g \in Roots : Answered(g)'
  <2>1. CASE \E h \in Roots : Owner(h) \/ CallbackStep(h)
    <3>1. PICK h \in Roots : Owner(h) \/ CallbackStep(h)
      BY <2>1
    <3> QED
      BY <1>6, <1>7, <3>1
  <2>2. CASE ~\E h \in Roots : Owner(h) \/ CallbackStep(h)
    <3>1. UNCHANGED driverVars \/ Collect
      BY <2>2 DEF DriverNext, Owner, Shutdown, FacadeStep, allVars
    <3> QED
      BY <1>8, <2>2, <3>1
  <2> QED
    BY <2>1, <2>2
<1> QED
  BY <1>2, <1>9 DEF Answers

-----------------------------------------------------------------------------
(* Every reachable state of the driver *)

LEMMA DriverStarts == DriverInit => DriverInv /\ Balanced /\ Answers
<1> SUFFICES ASSUME DriverInit PROVE DriverInv /\ Balanced /\ Answers
  OBVIOUS
<1>1. Init /\ stack = <<>> /\ nextRequest = 1
  BY DEF DriverInit, Init
<1>2. ASSUME NEW h \in Roots
      PROVE  /\ root[h].phase = "unborn" /\ root[h].task.generation = 0
             /\ ~Resuming(h) /\ ~Cleaning(h) /\ Outcome(h) = "unsubmitted"
             /\ at[h] = "out" /\ request[h] = 0 /\ turn[h] = "none" /\ holder[h] = "nobody"
             /\ ~state[h].exists /\ ~state[h].terminal /\ state[h].leases = 0 /\ swept[h] = "no"
  BY <1>1, <1>2 DEF DriverInit, Init, NoTask, Resuming, Cleaning, Outcome, Born
<1>3. OneCallback /\ Nested
  BY <1>1 DEF OneCallback, Nested
<1>4. \A h \in Roots : Rooted(h)
  BY <1>2 DEF Rooted, Placed, Turns, Kept, Unswept, Called, Pending
<1>5. Balanced
  <2>1. \A h \in Roots : context[<<"lease", h>>] = 0 /\ context[<<"value", h>>] = 0
    BY DEF DriverInit, Registered
  <2>2. \A c \in Coroutines : context[<<"coroutine", c>>] = 0 /\ Owning(c) = {}
    BY <1>2 DEF DriverInit, Registered, Owning
  <2> QED
    BY <1>2, <2>1, <2>2, FS_EmptySet DEF Balanced, Counted, Leased, Valued
<1>6. Answers
  <2>1. \A i \in Index : record[i].request = 0 /\ record[i].cancel = "Clear"
    BY <1>1 DEF Init, Vacant
  <2> QED
    BY <1>1, <1>2, <2>1 DEF Answers, Issued, Answered
<1> QED
  BY <1>3, <1>4, <1>5, <1>6 DEF DriverInv

THEOREM DriverInvariant == DriverSpec => [](DriverInv /\ Balanced /\ Answers)
<1>1. DriverSpec => [](TypeOK /\ Inv /\ Accounts /\ DriverTypeOK)
  BY DriverUsesFacade, TypeCorrect, Invariance, AccountsKept, DriverTypeCorrect, PTL
<1>2. /\ TypeOK /\ Inv /\ Accounts /\ DriverTypeOK /\ TypeOK'
      /\ DriverInv /\ Balanced /\ Answers /\ [DriverNext]_allVars
      => (DriverInv /\ Balanced /\ Answers)'
  BY DriverInvStep, BalancedStep, AnswersStep DEF Balanced
<1> QED
  BY <1>1, <1>2, DriverStarts, PTL DEF DriverSpec

(* The roots registered with the collector are those the states and the      *)
(* completions handed over account for, whatever a shutdown, a drop or a     *)
(* callback that calls the driver again interrupts.                         *)
THEOREM RootsRegistered == DriverSpec => []RootsBalanced
<1>1. Balanced => RootsBalanced
  BY DEF Balanced, RootsBalanced, Counted, Owning, Leased, Valued
<1> QED
  BY <1>1, DriverInvariant, PTL

(* A root that has ended is not resumed or closed again: neither by a poll,  *)
(* nor by the cleanup of a shutdown that overtook its last turn; and it has  *)
(* one callback at a time.                                                  *)
THEOREM TurnsEnd == DriverSpec => []NoTurnAfterTerminal
<1>1. DriverInv => NoTurnAfterTerminal
  <2> SUFFICES ASSUME DriverInv PROVE NoTurnAfterTerminal
    OBVIOUS
  <2>1. \A h \in Roots :
          at[h] \in {"entry", "cancel", "body", "settle", "closing"} => ~state[h].terminal
    BY DEF DriverInv, Rooted, Turns
  <2>2. ASSUME NEW i \in 1 .. Len(stack), NEW j \in 1 .. Len(stack),
               {stack[i].op, stack[j].op} \subseteq {"resume", "cleanup"},
               stack[i].root = stack[j].root
        PROVE  i = j
    BY <2>2 DEF DriverInv, OneCallback, Callback
  <2> QED
    BY <2>1, <2>2 DEF NoTurnAfterTerminal
<1> QED
  BY <1>1, DriverInvariant, PTL

(* A completion's value survives every collection until its owner drops it,  *)
(* whatever runs and whoever collects, but for the one window in which it is *)
(* not registered: a __release_buffer__ of the root's own leases.            *)
THEOREM CompletionKept == DriverSpec => []CompletionAlive
<1>1. DriverTypeOK /\ DriverInv => CompletionAlive
  BY DEF DriverTypeOK, DriverInv, Rooted, Unswept, CompletionAlive
<1> QED
  BY <1>1, DriverInvariant, DriverTypeCorrect, PTL

(* The steps that give leases back. *)
LEMMA LeasesFall ==
  ASSUME TypeOK, DriverTypeOK, DriverInv, [DriverNext]_allVars,
         NEW h \in Roots, state'[h].leases < state[h].leases
  PROVE  Release(h) \/ ReleaseDropped(h) \/ CleanupEnds(h) \/ DropTask(h)
<1>1. state \in [Roots -> State] /\ state[h] \in State
  BY DEF DriverTypeOK
<1>2. state[h].leases \in 0 .. MaxLeases
  BY <1>1 DEF State
<1>3. state[h].leases \in Int
  BY <1>2
<1>4. state'[h].leases # state[h].leases
  BY <1>3
<1>5. state' # state
  BY <1>4
<1>6. PICK g \in Roots : Owner(g) \/ CallbackStep(g)
  BY <1>5 DEF DriverNext, Owner, Shutdown, FacadeStep, Collect, allVars, driverVars
<1>7. g = h
  BY <1>4, <1>6, OthersKept DEF SameDriver
<1>8. ~LeaseBuffer(h)
  <2>1. LeaseBuffer(h) => state'[h].leases = state[h].leases + 1
    BY <1>1 DEF LeaseBuffer, State
  <2> QED
    BY <1>3, <2>1
<1>9. ~Submit(h) /\ ~Control(h) /\ ~PollTask(h) /\ ~DropCompletion(h)
  BY <1>1, <1>4, <1>5 DEF Submit, Control, PollTask, DropCompletion, State, driverVars
<1>10. ~Resume(h) /\ ~ObserveCancel(h) /\ ~ThrowCancel(h) /\ ~FailToThrow(h)
  <2>1. ~Resume(h)
    <3>1. Resume(h) => \E b, c : state' = [state EXCEPT ![h].observed = b, ![h].acknowledged = c]
      BY DEF Resume
    <3> QED
      BY <1>1, <1>4, <3>1 DEF State
  <2>2. ~ObserveCancel(h)
    BY <1>1, <1>4 DEF ObserveCancel, State
  <2>3. ~ThrowCancel(h)
    BY <1>5 DEF ThrowCancel
  <2>4. ~FailToThrow(h)
    BY <1>1, <1>4 DEF FailToThrow, State
  <2> QED
    BY <2>1, <2>2, <2>3, <2>4
<1>11. ~BodyReturns(h) /\ ~AcknowledgeCancel(h) /\ ~FinishTurn(h) /\ ~Complete(h)
  BY <1>1, <1>4, <1>5 DEF BodyReturns, AcknowledgeCancel, FinishTurn, Complete, State
<1>12. ~Return(h) /\ ~Take(h) /\ ~DropActivation(h) /\ ~CloseReturns(h)
  BY <1>1, <1>4, <1>5 DEF Return, Take, DropActivation, CloseReturns, State
<1> QED
  BY <1>6, <1>7, <1>8, <1>9, <1>10, <1>11, <1>12 DEF Owner, CallbackStep

(* Leases are given back only when the resume or the Close that may use them *)
(* has returned, and those of a cancelled operation only once its            *)
(* cancellation is acknowledged.                                            *)
THEOREM LeasesKept == DriverSpec => LeasesOutliveOperation
<1>1. TypeOK /\ DriverTypeOK /\ DriverInv /\ Answers /\ [DriverNext]_allVars
      => [\A h \in Roots : state'[h].leases < state[h].leases =>
            /\ at[h] \notin {"entry", "cancel", "body", "settle", "closing"}
            /\ (Inside(h, "resume") /\ request[h] = record[root[h].task.index].request) =>
                 Cancel(h) \notin PendingCancel]_allVars
  <2> SUFFICES ASSUME TypeOK, DriverTypeOK, DriverInv, Answers, [DriverNext]_allVars,
                      NEW h \in Roots, state'[h].leases < state[h].leases
               PROVE  /\ at[h] \notin {"entry", "cancel", "body", "settle", "closing"}
                      /\ (Inside(h, "resume") /\ request[h] = record[root[h].task.index].request)
                           => Cancel(h) \notin PendingCancel
    OBVIOUS
  <2>1. CASE Release(h)
    <3>1. Resuming(h) /\ at[h] = "releasing"
      BY <2>1, Running DEF Release, DriverInv
    <3> QED
      BY <3>1 DEF Answers, Answered
  <2>2. CASE ReleaseDropped(h) \/ CleanupEnds(h)
    <3>1. ~Inside(h, "resume") /\ at[h] \in {"releasing", "return", "out"}
      BY <2>2 DEF ReleaseDropped, CleanupEnds, Inside
    <3> QED
      BY <3>1
  <2>3. CASE DropTask(h)
    <3>1. OwnerRuns(h) /\ at[h] = "out"
      BY <2>3 DEF DropTask, OwnerRuns
    <3>2. ~Called(h)
      BY <3>1, Running DEF DriverInv
    <3>3. ~Inside(h, "resume")
      BY <3>2, Running DEF Called, DriverInv
    <3> QED
      BY <3>1, <3>3
  <2> QED
    BY <2>1, <2>2, <2>3, LeasesFall
<1>2. DriverSpec => [](TypeOK /\ DriverTypeOK /\ DriverInv /\ Answers)
  BY DriverUsesFacade, TypeCorrect, DriverTypeCorrect, DriverInvariant, PTL
<1> QED
  BY <1>1, <1>2, PTL DEF DriverSpec, LeasesOutliveOperation

(* The driver is one client of the facade: what the facade keeps for every   *)
(* client, its shutdown and its contract, holds under the driver.           *)
THEOREM DriverKeepsContract ==
  /\ DriverSpec => []ShutdownDrains
  /\ ~TakeDuringPoll => (DriverSpec => ImplementsContract)
<1>1. DriverSpec => []ShutdownDrains
  BY DriverUsesFacade, ShutdownLeavesNothing, PTL
<1>2. ~TakeDuringPoll => (DriverSpec => ImplementsContract)
  BY DriverUsesFacade, ContractHolds, PTL
<1> QED
  BY <1>1, <1>2
=============================================================================
