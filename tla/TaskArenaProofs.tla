--------------------------- MODULE TaskArenaProofs ---------------------------
(***************************************************************************)
(* Proofs about TaskArena, for every number of roots, slots, generations,  *)
(* requests and nested calls.                                              *)
(***************************************************************************)
EXTENDS TaskArena, SequenceTheorems, TLAPS

(* The record of an empty slot, and of one just allocated. *)
LEMMA NewRecords ==
  /\ Vacant \in TaskRecord
  /\ \A h \in Roots : Fresh(h) \in TaskRecord
<1>1. Vacant \in TaskRecord
  BY ConstantsAssumption DEF TaskRecord, Completion, CancelState, Vacant
<1>2. ASSUME NEW h \in Roots PROVE Fresh(h) \in TaskRecord
  BY <1>1 DEF TaskRecord, Fresh
<1> QED
  BY <1>1, <1>2

(* The records as request_cancel hands them to the wake. *)
Requesting(h) ==
  [record EXCEPT ![root[h].task.index].request = nextRequest,
                 ![root[h].task.index].cancel = "Requested"]

LEMMA RequestTypes ==
  ASSUME TypeOK, NEW h \in Roots, nextRequest <= MaxRequests
  PROVE  Requesting(h) \in [Index -> TaskRecord]
<1> DEFINE i == root[h].task.index
<1>1. i \in Index /\ record \in [Index -> TaskRecord]
  BY DEF TypeOK, TaskId
<1>2. nextRequest \in 0 .. MaxRequests
  BY ConstantsAssumption DEF TypeOK
<1>3. [record[i] EXCEPT !.request = nextRequest] \in TaskRecord
  BY <1>1, <1>2 DEF TaskRecord
<1>4. [[record[i] EXCEPT !.request = nextRequest] EXCEPT !.cancel = "Requested"]
        \in TaskRecord
  BY <1>3 DEF TaskRecord, CancelState
<1> QED
  BY <1>1, <1>3, <1>4 DEF Requesting

(* A frame for a root is a frame. *)
LEMMA CallIsFrame ==
  ASSUME NEW op \in FrameOp, NEW h \in Roots \cup {NoRoot},
         NEW w \in Wakers \cup {NoWaker}
  PROVE  /\ Call(op, h) \in Frame
         /\ [Call(op, h) EXCEPT !.waker = w] \in Frame
  BY ConstantsAssumption DEF Call, Frame

(* A sequence without its last element. *)
LEMMA AllButLast ==
  ASSUME NEW S, NEW s \in Seq(S), s # <<>>
  PROVE  LET r == SubSeq(s, 1, Len(s) - 1) IN
         /\ r \in Seq(S)
         /\ Len(r) = Len(s) - 1
         /\ \A k \in 1 .. Len(r) : k \in 1 .. Len(s) /\ r[k] = s[k]
         /\ Len(s) \in 1 .. Len(s)
<1> DEFINE n == Len(s)
           r == SubSeq(s, 1, n - 1)
<1>1. n \in Nat \ {0}
  OBVIOUS
<1>2. \A k \in 1 .. n - 1 : s[k] \in S
  BY <1>1
<1> HIDE DEF n
<1>3. /\ r \in Seq(S)
      /\ Len(r) = IF 1 <= n - 1 THEN (n - 1) - 1 + 1 ELSE 0
      /\ \A k \in 1 .. (n - 1) - 1 + 1 : r[k] = s[1 + k - 1]
  <2>1. 1 \in Int /\ n - 1 \in Int
    BY <1>1
  <2> QED
    BY <1>2, <2>1, SubSeqProperties
<1> HIDE DEF r
<1>4. Len(r) = n - 1
  BY <1>1, <1>3
<1>5. \A k \in 1 .. Len(r) : k \in 1 .. n /\ r[k] = s[k]
  BY <1>1, <1>3, <1>4
<1> QED
  BY <1>1, <1>3, <1>4, <1>5 DEF n, r

(* The stack without its innermost call, and with another in its place. *)
LEMMA StackUpdates ==
  ASSUME NEW S, stack \in Seq(S), NEW f \in S
  PROVE  /\ Append(stack, f) \in Seq(S)
         /\ stack # <<>> => /\ Top \in S
                            /\ Below \in Seq(S)
                            /\ Append(Below, f) \in Seq(S)
  BY DEF Top, Below

RootType == [Roots -> [task : TaskId, phase : RootPhase]]
FateType == [Roots -> [heard : 0 .. MaxRequests, cleanups : Nat,
                       result : Completion, taken : Completion]]
TimerType ==
  [Timers -> [task : TaskId, state : {"unset", "Registered", "Fired", "Cancelled"},
              armed : BOOLEAN]]

(* A root that only changes phase keeps its type. *)
LEMMA PhaseUpdate ==
  ASSUME TypeOK, NEW h \in Roots, NEW p \in RootPhase,
         root' = [root EXCEPT ![h].phase = p]
  PROVE  root' \in RootType
<1>1. root \in RootType
  BY DEF TypeOK, RootType
<1> QED
  BY <1>1 DEF RootType

(* Type correctness: every step keeps every variable in its type, and so     *)
(* every free index names a slot, every generation fits its width, every   *)
(* call on the stack names a known operation.                              *)
LEMMA TypeInit == Init => TypeOK
<1> SUFFICES ASSUME Init PROVE TypeOK
  OBVIOUS
<1>1. record \in [Index -> TaskRecord]
  BY NewRecords DEF Init
<1>2. NoTask \in TaskId
  BY ConstantsAssumption DEF NoTask, TaskId, Index
<1>3. root \in RootType
  BY <1>2 DEF Init, RootType, RootPhase
<1>4. fate \in FateType
  BY ConstantsAssumption DEF Init, FateType, Completion
<1>5. timer \in TimerType
  BY <1>2 DEF Init, TimerType
<1>6. /\ len \in 0 .. MaxSlots
      /\ generation \in [Index -> 0 .. MaxGeneration]
      /\ nextRequest \in 1 .. MaxRequests + 1
  BY ConstantsAssumption DEF Init
<1>7. /\ free \in Seq(Index)
      /\ stack \in Seq(Frame)
  BY DEF Init
<1>8. activeTasks \in Int
  BY DEF Init
<1>9. /\ shutdown \in BOOLEAN
      /\ home \in [Roots -> Wakers]
      /\ ready \in SUBSET ((Roots \cup {NoRoot}) \X (Wakers \cup {NoWaker}))
  BY Zenon DEF Init
<1> QED
  BY <1>1, <1>3, <1>4, <1>5, <1>6, <1>7, <1>8, <1>9
  DEF TypeOK, RootType, FateType, TimerType

(* A wake keeps the records and the ready set in their types. *)
LEMMA WakeTypes ==
  ASSUME TypeOK, NEW recs \in [Index -> TaskRecord], NEW t \in TaskId, WakeIn(recs, t)
  PROVE  /\ record' \in [Index -> TaskRecord]
         /\ ready' \in SUBSET ((Roots \cup {NoRoot}) \X (Wakers \cup {NoWaker}))
<1>1. t.index \in Index
  BY DEF TaskId
<1>2. record[t.index] \in TaskRecord
  BY <1>1 DEF TypeOK
<1>3. /\ record[t.index].owner \in Roots \cup {NoRoot}
      /\ record[t.index].waker \in Wakers \cup {NoWaker}
  BY <1>2 DEF TaskRecord
<1>4. [recs EXCEPT ![t.index].wakeOutstanding = TRUE] \in [Index -> TaskRecord]
  <2>1. recs[t.index] \in TaskRecord
    BY <1>1
  <2>2. [recs[t.index] EXCEPT !.wakeOutstanding = TRUE] \in TaskRecord
    BY <2>1 DEF TaskRecord
  <2> QED
    BY <1>1, <2>2
<1> DEFINE Signals == (Roots \cup {NoRoot}) \X (Wakers \cup {NoWaker})
<1>5. ready \in SUBSET Signals
  BY DEF TypeOK
<1>6. <<record[t.index].owner, record[t.index].waker>> \in Signals
  BY <1>3
<1>7. CASE WakeDue(t)
  BY <1>4, <1>5, <1>6, <1>7 DEF WakeIn
<1>8. CASE ~WakeDue(t)
  BY <1>5, <1>8 DEF WakeIn
<1> QED
  BY <1>7, <1>8

LEMMA TypeSubmitRoot ==
  ASSUME TypeOK, NEW h \in Roots, SubmitRoot(h)
  PROVE  TypeOK'
<1>1. PICK i \in Index :
        /\ \/ /\ free # <<>>
              /\ i = free[Len(free)]
              /\ free' = SubSeq(free, 1, Len(free) - 1)
              /\ UNCHANGED <<len, generation>>
           \/ /\ free = <<>>
              /\ i = len
              /\ len' = len + 1
              /\ generation' = [generation EXCEPT ![i] = 1]
              /\ UNCHANGED free
        /\ record' = [record EXCEPT ![i] = Fresh(h)]
        /\ root' = [root EXCEPT
             ![h] = [task |-> [index |-> i, generation |-> generation'[i]],
                     phase |-> "idle"]]
  BY DEF SubmitRoot
<1>2. /\ free' \in Seq(Index)
      /\ len' \in 0 .. MaxSlots
      /\ generation' \in [Index -> 0 .. MaxGeneration]
  <2>0. /\ len \in 0 .. MaxSlots
        /\ generation \in [Index -> 0 .. MaxGeneration]
    BY DEF TypeOK
  <2>1. CASE free # <<>>
    <3>1. free' \in Seq(Index)
      <4>1. free \in Seq(Index)
        BY DEF TypeOK
      <4> QED
        BY <1>1, <2>1, <4>1
    <3> QED
      BY <1>1, <2>0, <2>1, <3>1
  <2>2. CASE free = <<>>
    <3>1. len' \in 0 .. MaxSlots
      BY <1>1, <2>0, <2>2, ConstantsAssumption DEF Index
    <3>2. generation' \in [Index -> 0 .. MaxGeneration]
      BY <1>1, <2>0, <2>2, ConstantsAssumption
    <3>3. free' \in Seq(Index)
      BY <1>1, <2>2
    <3> QED
      BY <3>1, <3>2, <3>3
  <2> QED
    BY <2>1, <2>2
<1>3. record' \in [Index -> TaskRecord]
  BY <1>1, NewRecords DEF TypeOK
<1>4. root' \in RootType
  <2>1. [index |-> i, generation |-> generation'[i]] \in TaskId
    BY <1>2 DEF TaskId
  <2> QED
    BY <1>1, <2>1 DEF TypeOK, RootType, RootPhase
<1>5. ready' \in SUBSET ((Roots \cup {NoRoot}) \X (Wakers \cup {NoWaker}))
  BY DEF SubmitRoot, TypeOK
<1> QED
  BY <1>2, <1>3, <1>4, <1>5 DEF SubmitRoot, TypeOK, RootType

LEMMA TypeTakeCompletion ==
  ASSUME TypeOK, NEW h \in Roots, TakeCompletion(h)
  PROVE  TypeOK'
<1> DEFINE i == root[h].task.index
<1>1. i \in Index
  BY DEF TypeOK, TaskId
<1>2. record[i] \in TaskRecord
  BY <1>1 DEF TypeOK
<1>3. record[i].completion \in Completion
  BY <1>2 DEF TaskRecord
<1>4. fate' \in FateType
  BY <1>3 DEF TakeCompletion, TypeOK, FateType
<1>5. record' \in [Index -> TaskRecord]
  BY <1>1, NewRecords DEF TakeCompletion, TypeOK
<1>6. /\ generation' \in [Index -> 0 .. MaxGeneration]
      /\ free' \in Seq(Index)
  <2>1. /\ generation \in [Index -> 0 .. MaxGeneration]
        /\ free \in Seq(Index)
    BY DEF TypeOK
  <2>2. CASE Reusable(generation[i])
    <3>1. generation[i] + 1 \in 0 .. MaxGeneration
      <4>1. generation[i] \in 0 .. MaxGeneration
        BY <1>1, <2>1
      <4>2. generation[i] # MaxGeneration
        BY <2>2 DEF Reusable
      <4> HIDE DEF i
      <4> QED
        BY <4>1, <4>2, ConstantsAssumption
    <3>2. /\ generation' = [generation EXCEPT ![i] = generation[i] + 1]
          /\ free' = Append(free, i)
      BY <2>2 DEF TakeCompletion, NextGeneration
    <3> QED
      BY <1>1, <2>1, <3>1, <3>2
  <2>3. CASE ~Reusable(generation[i])
    BY <2>1, <2>3 DEF TakeCompletion
  <2> QED
    BY <2>2, <2>3
<1> QED
  BY <1>4, <1>5, <1>6 DEF TakeCompletion, TypeOK, FateType

LEMMA TypePoll ==
  ASSUME TypeOK, NEW h \in Roots, Poll(h)
  PROVE  TypeOK'
<1> DEFINE t == root[h].task
<1>1. t.index \in Index
  BY DEF TypeOK, TaskId
<1>2. record[t.index] \in TaskRecord
  BY <1>1 DEF TypeOK
<1>3. /\ record[t.index].completion \in Completion
      /\ record[t.index].request \in 0 .. MaxRequests
      /\ [record[t.index] EXCEPT !.wakeOutstanding = FALSE] \in TaskRecord
      /\ PollMark(record[t.index], home[h]) \in TaskRecord
  <2>1. home[h] \in Wakers
    BY DEF TypeOK
  <2> QED
    BY <1>2, <2>1 DEF TaskRecord, PollMark
<1>4. ready' \in SUBSET ((Roots \cup {NoRoot}) \X (Wakers \cup {NoWaker}))
  BY DEF Poll, TypeOK
<1>5. CASE PollSettled(h)
  <2>1. record' \in [Index -> TaskRecord]
    BY <1>1, <1>3, <1>5 DEF PollSettled, TypeOK
  <2>2. SettledOutcome(t) \in Completion
    BY <1>3 DEF SettledOutcome, Completion
  <2>3. root' \in RootType
    BY <1>5, PhaseUpdate DEF PollSettled, RootPhase
  <2>4. fate' \in FateType
    BY <1>5, <2>2 DEF PollSettled, TypeOK, FateType
  <2> QED
    BY <1>4, <1>5, <2>1, <2>3, <2>4 DEF Poll, PollSettled, TypeOK, RootType, FateType
<1>6. CASE PollResume(h)
  <2>1. record' \in [Index -> TaskRecord]
    BY <1>1, <1>3, <1>6 DEF PollResume, TypeOK
  <2>2. stack' \in Seq(Frame)
    <3>1. Call("resume", h) \in Frame
      BY CallIsFrame DEF FrameOp
    <3> QED
      BY <1>6, <3>1, StackUpdates DEF PollResume, TypeOK
  <2>3. root' \in RootType
    BY <1>6, PhaseUpdate DEF PollResume, RootPhase
  <2>4. fate' \in FateType
    BY <1>3, <1>6 DEF PollResume, TypeOK, FateType
  <2> QED
    BY <1>4, <1>6, <2>1, <2>2, <2>3, <2>4
    DEF Poll, PollResume, TypeOK, RootType, FateType
<1> QED
  BY <1>5, <1>6 DEF Poll

LEMMA TypeResumeReturns ==
  ASSUME TypeOK, NEW h \in Roots, ResumeReturns(h)
  PROVE  TypeOK'
<1> DEFINE t == root[h].task
<1>1. t.index \in Index
  BY DEF TypeOK, TaskId
<1>2. record[t.index] \in TaskRecord
  BY <1>1 DEF TypeOK
<1>3. Below \in Seq(Frame)
  BY StackUpdates, CallIsFrame DEF ResumeReturns, TypeOK
<1>4. /\ record[t.index].completion \in Completion
      /\ PendingRecord(record[t.index]) \in TaskRecord
      /\ [record[t.index] EXCEPT !.cleanupCalled = TRUE] \in TaskRecord
  BY <1>2 DEF TaskRecord, PendingRecord
<1>5. Completed(record[t.index], "Runtime") \in TaskRecord
  BY <1>2 DEF TaskRecord, Completed, Completion
<1>6. CASE ResumeOvertaken(h)
  <2>1. /\ record' \in [Index -> TaskRecord]
        /\ stack' \in Seq(Frame)
    <3>1. Call("cleanup", h) \in Frame
      BY CallIsFrame DEF FrameOp
    <3>2. Append(Below, Call("cleanup", h)) \in Seq(Frame)
      BY <1>3, <3>1
    <3> QED
      BY <1>1, <1>3, <1>4, <1>6, <3>2 DEF ResumeOvertaken, TypeOK
  <2>2. SettledOutcome(t) \in Completion
    BY <1>4 DEF SettledOutcome, Completion
  <2>3. fate' \in FateType
    <3>1. /\ fate \in FateType
          /\ fate[h].cleanups + 1 \in Nat
      BY DEF TypeOK, FateType
    <3>2. PICK n \in Nat :
            fate' = [fate EXCEPT ![h].result = SettledOutcome(t), ![h].cleanups = n]
      BY <1>6, <3>1 DEF ResumeOvertaken, FateType
    <3> QED
      BY <2>2, <3>1, <3>2 DEF FateType
  <2>4. root' \in RootType
    BY <1>6, PhaseUpdate DEF ResumeOvertaken, RootPhase
  <2> QED
    BY <1>6, <2>1, <2>3, <2>4
    DEF ResumeReturns, ResumeOvertaken, TypeOK, RootType, FateType
<1>7. CASE ResumePending(h)
  <2>1. record' \in [Index -> TaskRecord]
    BY <1>1, <1>4, <1>7 DEF ResumePending, TypeOK
  <2>2. root' \in RootType
    BY <1>7, PhaseUpdate DEF ResumePending, RootPhase
  <2> QED
    BY <1>3, <1>7, <2>1, <2>2 DEF ResumeReturns, ResumePending, TypeOK, RootType
<1>8. CASE ResumeReady(h)
  <2>1. record' \in [Index -> TaskRecord]
    BY <1>1, <1>5, <1>8 DEF ResumeReady, TypeOK
  <2>2. root' \in RootType
    BY <1>8, PhaseUpdate DEF ResumeReady, RootPhase
  <2>3. fate' \in FateType
    BY <1>8 DEF ResumeReady, TypeOK, FateType, Completion
  <2>4. activeTasks' \in Int
    BY <1>8 DEF ResumeReady, TypeOK
  <2> QED
    BY <1>3, <1>8, <2>1, <2>2, <2>3, <2>4
    DEF ResumeReturns, ResumeReady, TypeOK, RootType, FateType
<1> QED
  BY <1>6, <1>7, <1>8 DEF ResumeReturns

LEMMA TypeDropRoot ==
  ASSUME TypeOK, NEW h \in Roots, DropRoot(h)
  PROVE  TypeOK'
<1> DEFINE t == root[h].task
<1>1. t.index \in Index
  BY DEF TypeOK, TaskId
<1>2. record[t.index] \in TaskRecord
  BY <1>1 DEF TypeOK
<1>3. CASE root[h].phase = "idle" /\ Active(t)
  <2>1. record' \in [Index -> TaskRecord]
    <3>1. [Completed(record[t.index], "Dropped") EXCEPT !.cleanupCalled = TRUE]
            \in TaskRecord
      BY <1>2 DEF TaskRecord, Completed, Completion
    <3> QED
      BY <1>1, <1>3, <3>1 DEF DropRoot, TypeOK
  <2>2. stack' \in Seq(Frame)
    <3>1. Call("cleanup", h) \in Frame
      BY CallIsFrame DEF FrameOp
    <3>2. stack \in Seq(Frame)
      BY DEF TypeOK
    <3> QED
      BY <1>3, <3>1, <3>2 DEF DropRoot
  <2>3. root' \in RootType
    BY <1>3, PhaseUpdate DEF DropRoot, RootPhase
  <2>4. fate' \in FateType
    <3>1. /\ fate \in FateType
          /\ fate[h].cleanups + 1 \in Nat
      BY DEF TypeOK, FateType
    <3> QED
      BY <1>3, <3>1 DEF DropRoot, FateType
  <2>5. activeTasks' \in Int
    BY <1>3 DEF DropRoot, TypeOK
  <2> QED
    BY <2>1, <2>2, <2>3, <2>4, <2>5 DEF DropRoot, TypeOK, RootType, FateType
<1>4. CASE ~(root[h].phase = "idle" /\ Active(t))
  <2>1. root' \in RootType
    BY <1>4, PhaseUpdate DEF DropRoot, RootPhase
  <2> QED
    BY <1>4, <2>1 DEF DropRoot, TypeOK, RootType
<1> QED
  BY <1>3, <1>4

(* The actions that move records only: wakes, cancellation, timers. *)
LEMMA TypeWakes ==
  ASSUME TypeOK
  PROVE  /\ \A h \in Roots : Wake(h) => TypeOK'
         /\ \A h \in Roots : RequestCancel(h) => TypeOK'
         /\ \A tm \in Timers : TimerCallback(tm) => TypeOK'
<1>1. \A h \in Roots : root[h].task \in TaskId
  BY DEF TypeOK
<1>2. record \in [Index -> TaskRecord]
  BY DEF TypeOK
<1>3. ASSUME NEW h \in Roots, Wake(h) PROVE TypeOK'
  <2>1. WakeIn(record, root[h].task)
    BY <1>3 DEF Wake
  <2> QED
    BY <1>1, <1>2, <1>3, <2>1, WakeTypes DEF Wake, TypeOK
<1>4. ASSUME NEW h \in Roots, RequestCancel(h) PROVE TypeOK'
  <2>1. nextRequest <= MaxRequests /\ nextRequest' \in 1 .. MaxRequests + 1
    BY <1>4, ConstantsAssumption DEF RequestCancel, TypeOK
  <2>2. WakeIn(Requesting(h), root[h].task)
    BY <1>4 DEF RequestCancel, Requesting
  <2>5. /\ record' \in [Index -> TaskRecord]
        /\ ready' \in SUBSET ((Roots \cup {NoRoot}) \X (Wakers \cup {NoWaker}))
    BY <1>1, <2>1, <2>2, RequestTypes, WakeTypes
  <2> QED
    BY <1>4, <2>1, <2>5 DEF RequestCancel, TypeOK
<1>5. ASSUME NEW tm \in Timers, TimerCallback(tm) PROVE TypeOK'
  <2>1. timer \in TimerType
    BY DEF TypeOK, TimerType
  <2>2. timer' \in TimerType
    <3>1. \/ timer' = [timer EXCEPT ![tm].armed = FALSE, ![tm].state = "Fired"]
          \/ timer' = [timer EXCEPT ![tm].armed = FALSE]
      BY <1>5 DEF TimerCallback
    <3> QED
      BY <2>1, <3>1 DEF TimerType
  <2>3. /\ record' \in [Index -> TaskRecord]
        /\ ready' \in SUBSET ((Roots \cup {NoRoot}) \X (Wakers \cup {NoWaker}))
    <3>1. CASE timer[tm].state = "Registered"
      <4>1. timer[tm].task \in TaskId
        BY <2>1 DEF TimerType
      <4>2. WakeIn(record, timer[tm].task)
        BY <1>5, <3>1 DEF TimerCallback
      <4> QED
        BY <1>2, <4>1, <4>2, WakeTypes
    <3>2. CASE timer[tm].state # "Registered"
      BY <1>5, <3>2 DEF TimerCallback, TypeOK
    <3> QED
      BY <3>1, <3>2
  <2> QED
    BY <1>5, <2>2, <2>3 DEF TimerCallback, TypeOK, TimerType
<1> QED
  BY <1>3, <1>4, <1>5

LEMMA TypeCancelTransition ==
  ASSUME TypeOK, NEW h \in Roots, NEW r \in 0 .. MaxRequests,
         NEW x \in {"Observe", "Acknowledge"}, CancelTransition(h, r, x)
  PROVE  TypeOK'
<1> DEFINE i == root[h].task.index
<1>1. i \in Index
  BY DEF TypeOK, TaskId
<1>2. record[i] \in TaskRecord
  BY <1>1 DEF TypeOK
<1>3. record[i].cancel \in {"Requested", "Observed"}
  BY DEF CancelTransition
<1>4. CancelStep(record[i].cancel) \in CancelState
  BY <1>3 DEF CancelStep, CancelState
<1>5. [record[i] EXCEPT !.cancel = CancelStep(record[i].cancel)] \in TaskRecord
  BY <1>2, <1>4 DEF TaskRecord
<1>6. record' \in [Index -> TaskRecord]
  BY <1>1, <1>5 DEF CancelTransition, TypeOK
<1> QED
  BY <1>6 DEF CancelTransition, TypeOK

LEMMA TypeShutdown ==
  ASSUME TypeOK
  PROVE  /\ ShutdownBegins => TypeOK'
         /\ ShutdownVisits => TypeOK'
         /\ ShutdownReturns => TypeOK'
<1>1. stack \in Seq(Frame)
  BY DEF TypeOK
<1>2. ASSUME ShutdownBegins PROVE TypeOK'
  <2>1. Call("shutdown", NoRoot) \in Frame
    BY CallIsFrame DEF FrameOp
  <2>2. stack' \in Seq(Frame)
    BY <1>1, <1>2, <2>1 DEF ShutdownBegins
  <2> QED
    BY <1>2, <2>2 DEF ShutdownBegins, TypeOK
<1>3. ASSUME ShutdownVisits PROVE TypeOK'
  <2> DEFINE walk(i) == Append(Below, [Top EXCEPT !.at = i + 1])
             signal(rec) == [Call("signal", rec.owner) EXCEPT !.waker = rec.waker]
             wake(i) == IF record[i].waker = NoWaker THEN walk(i)
                        ELSE Append(walk(i), signal(record[i]))
  <2>1. PICK i \in ActiveFrom(Top.at) :
          LET cleans == CleansAtShutdown(record[i]) IN
          /\ record' = [record EXCEPT
               ![i] = [Completed(record[i], "Shutdown") EXCEPT !.cleanupCalled = @ \/ cleans]]
          /\ stack' = IF cleans THEN Append(wake(i), Call("cleanup", record[i].owner))
                      ELSE wake(i)
          /\ fate' = IF cleans THEN [fate EXCEPT ![record[i].owner].cleanups = @ + 1]
                     ELSE fate
    BY <1>3 DEF ShutdownVisits
  <2>2. i \in Index
    BY DEF ActiveFrom
  <2>3. record[i] \in TaskRecord
    BY <2>2 DEF TypeOK
  <2>4. /\ record[i].owner \in Roots \cup {NoRoot}
        /\ record[i].waker \in Wakers \cup {NoWaker}
        /\ record[i].polling \in BOOLEAN
        /\ record[i].cleanupCalled \in BOOLEAN
    BY <2>3 DEF TaskRecord
  <2>5. record' \in [Index -> TaskRecord]
    <3>1. Completed(record[i], "Shutdown") \in TaskRecord
      BY <2>3 DEF TaskRecord, Completed, Completion
    <3>2. ASSUME NEW b \in BOOLEAN
          PROVE [Completed(record[i], "Shutdown") EXCEPT !.cleanupCalled = b]
                  \in TaskRecord
      BY <3>1 DEF TaskRecord
    <3>3. (Completed(record[i], "Shutdown").cleanupCalled
             \/ CleansAtShutdown(record[i])) \in BOOLEAN
      OBVIOUS
    <3>4. record \in [Index -> TaskRecord]
      BY DEF TypeOK
    <3> QED
      BY <2>1, <2>2, <3>2, <3>3, <3>4
  <2>6. stack' \in Seq(Frame)
    <3>1. Top \in Frame /\ Below \in Seq(Frame)
      BY <1>1, <1>3, StackUpdates DEF ShutdownVisits
    <3>2. [Top EXCEPT !.at = i + 1] \in Frame
      <4>1. i + 1 \in 0 .. MaxSlots
        BY <2>2, ConstantsAssumption DEF Index
      <4> QED
        BY <3>1, <4>1 DEF Frame
    <3>3. walk(i) \in Seq(Frame)
      BY <3>1, <3>2
    <3>4. signal(record[i]) \in Frame
      BY <2>4, CallIsFrame DEF FrameOp
    <3>5. Call("cleanup", record[i].owner) \in Frame
      BY <2>4, CallIsFrame DEF FrameOp
    <3>6. wake(i) \in Seq(Frame)
      <4> HIDE DEF walk, signal
      <4> QED
        BY <3>3, <3>4
    <3> HIDE DEF wake
    <3> QED
      BY <2>1, <3>5, <3>6
  <2>7. fate' \in FateType
    <3>1. fate \in FateType
      BY DEF TypeOK, FateType
    <3>2. \A h \in Roots : fate[h].cleanups + 1 \in Nat
      BY <3>1 DEF FateType
    <3> QED
      BY <2>1, <3>1, <3>2 DEF FateType
  <2>8. activeTasks' \in Int
    BY <1>3 DEF ShutdownVisits, TypeOK
  <2>9. UNCHANGED <<len, generation, free, shutdown, nextRequest, root, timer, home,
                    ready>>
    BY <1>3 DEF ShutdownVisits
  <2> QED
    BY <2>5, <2>6, <2>7, <2>8, <2>9 DEF TypeOK, FateType
<1>4. ASSUME ShutdownReturns PROVE TypeOK'
  <2>1. stack' \in Seq(Frame)
    BY <1>1, <1>4, StackUpdates DEF ShutdownReturns
  <2> QED
    BY <1>4, <2>1 DEF ShutdownReturns, TypeOK, arenaVars
<1> QED
  BY <1>2, <1>3, <1>4

(* The actions that only return from a call, or move timers and homes. *)
LEMMA TypeReturns ==
  ASSUME TypeOK
  PROVE  /\ CleanupReturns => TypeOK'
         /\ SignalWaker => TypeOK'
         /\ WakerReturns => TypeOK'
<1>1. stack \in Seq(Frame)
  BY DEF TypeOK
<1>2. stack # <<>> => Top \in Frame /\ Below \in Seq(Frame)
  BY <1>1, StackUpdates, CallIsFrame
<1>3. ASSUME CleanupReturns PROVE TypeOK'
  <2>1. root' \in RootType
    <3> DEFINE p == CASE root[Top.root].phase = "settling" -> "terminal"
                      [] root[Top.root].phase = "dropping" -> "gone"
                      [] OTHER -> root[Top.root].phase
    <3>1. root' = [root EXCEPT ![Top.root].phase = p]
      BY <1>3 DEF CleanupReturns
    <3>2. root \in RootType
      BY DEF TypeOK, RootType
    <3>3. CASE Top.root \in Roots
      <4>1. p \in RootPhase
        BY <3>2, <3>3 DEF RootType, RootPhase
      <4> HIDE DEF p
      <4> QED
        BY <3>1, <3>3, <4>1, PhaseUpdate
    <3>4. CASE Top.root \notin Roots
      BY <3>1, <3>2, <3>4 DEF RootType
    <3> QED
      BY <3>3, <3>4
  <2> QED
    BY <1>2, <1>3, <2>1 DEF CleanupReturns, TypeOK, RootType, arenaVars
<1>4. ASSUME SignalWaker PROVE TypeOK'
  <2>1. Top.root \in Roots \cup {NoRoot} /\ Top.waker \in Wakers \cup {NoWaker}
    BY <1>2, <1>4 DEF SignalWaker, Frame
  <2>2. stack' \in Seq(Frame)
    <3>1. Call("waker", Top.root) \in Frame
      BY <2>1, CallIsFrame DEF FrameOp
    <3> QED
      BY <1>2, <1>4, <3>1 DEF SignalWaker
  <2>3. ready' \in SUBSET ((Roots \cup {NoRoot}) \X (Wakers \cup {NoWaker}))
    <3>1. <<Top.root, Top.waker>> \in (Roots \cup {NoRoot}) \X (Wakers \cup {NoWaker})
      BY <2>1
    <3> HIDE DEF Top
    <3> QED
      BY <1>4, <3>1 DEF SignalWaker, TypeOK
  <2> QED
    BY <1>4, <2>2, <2>3 DEF SignalWaker, TypeOK, arenaVars
<1>5. ASSUME WakerReturns PROVE TypeOK'
  BY <1>2, <1>5 DEF WakerReturns, TypeOK, arenaVars
<1> QED
  BY <1>3, <1>4, <1>5

LEMMA TypeTimersAndHomes ==
  ASSUME TypeOK
  PROVE  /\ \A tm \in Timers, h \in Roots : RegisterTimer(tm, h) => TypeOK'
         /\ \A tm \in Timers : CancelTimer(tm) => TypeOK'
         /\ \A h \in Roots : Rehome(h) => TypeOK'
<1>1. timer \in TimerType /\ root \in RootType
  BY DEF TypeOK, TimerType, RootType
<1>2. ASSUME NEW tm \in Timers, NEW h \in Roots, RegisterTimer(tm, h)
      PROVE  TypeOK'
  <2>1. timer' \in TimerType
    BY <1>1, <1>2 DEF RegisterTimer, TimerType, RootType
  <2> QED
    BY <1>2, <2>1 DEF RegisterTimer, TypeOK, TimerType, arenaVars
<1>3. ASSUME NEW tm \in Timers, CancelTimer(tm) PROVE TypeOK'
  <2>1. timer' \in TimerType
    BY <1>1, <1>3 DEF CancelTimer, TimerType
  <2> QED
    BY <1>3, <2>1 DEF CancelTimer, TypeOK, TimerType, arenaVars
<1>4. ASSUME NEW h \in Roots, Rehome(h) PROVE TypeOK'
  <2>1. home' \in [Roots -> Wakers]
    BY <1>4 DEF Rehome, TypeOK
  <2>2. ready' \in SUBSET ((Roots \cup {NoRoot}) \X (Wakers \cup {NoWaker}))
    BY <1>4 DEF Rehome, TypeOK
  <2> QED
    BY <1>4, <2>1, <2>2 DEF Rehome, TypeOK, arenaVars
<1> QED
  BY <1>2, <1>3, <1>4

LEMMA TypeStep == TypeOK /\ [Next]_vars => TypeOK'
<1> SUFFICES ASSUME TypeOK, [Next]_vars PROVE TypeOK'
  OBVIOUS
<1>1. ASSUME NEW h \in Roots, RootStep(h) PROVE TypeOK'
  BY <1>1, TypeSubmitRoot, TypeWakes, TypeTakeCompletion, TypePoll,
     TypeResumeReturns, TypeDropRoot, TypeTimersAndHomes DEF RootStep
<1>2. CASE UNCHANGED vars
  BY <1>2 DEF vars, arenaVars, TypeOK
<1> QED
  BY <1>1, <1>2, TypeCancelTransition, TypeTimersAndHomes, TypeWakes,
     TypeReturns, TypeShutdown DEF Next

(* Every reachable state is well typed. *)
THEOREM TypeCorrect == Spec => []TypeOK
  BY TypeInit, TypeStep, PTL DEF Spec

-----------------------------------------------------------------------------
(* Why ids are never reused and wakes never lost.                          *)

(* Every id issued so far names a slot that exists and a generation it has  *)
(* reached.                                                                *)
IssuedIds ==
  \A h \in Roots : Born(h) =>
    root[h].task.index < len /\ root[h].task.generation <= generation[root[h].task.index]

(* The free list holds vacant slots, each once, and every id ever issued    *)
(* for one of them is of an earlier generation than the next.              *)
FreeSlots ==
  \A k \in 1 .. Len(free) :
    /\ free[k] < len
    /\ record[free[k]].state = "vacant"
    /\ \A j \in 1 .. Len(free) : free[j] = free[k] => j = k
    /\ \A h \in Roots : Born(h) /\ root[h].task.index = free[k] =>
         root[h].task.generation < generation[free[k]]

(* A record found through an id belongs to the root that got the id. *)
OwnRecord ==
  \A h \in Roots : Born(h) /\ Occupied(root[h].task) =>
    record[root[h].task.index].owner = h

(* A root that is being polled is already registered, with the task that    *)
(* polls it or with one that will be.                                      *)
PollingRegistered ==
  \A h \in Roots : Active(root[h].task) /\ root[h].phase = "polling" =>
    record[root[h].task.index].waker = home[h] \/ <<h, home[h]>> \in ready

(* A resume on the stack is that of a root being polled, once. *)
ResumesPolling ==
  \A k \in 1 .. Len(stack) : stack[k].op = "resume" =>
    /\ stack[k].root \in Roots
    /\ root[stack[k].root].phase = "polling"
    /\ \A j \in 1 .. Len(stack) :
         stack[j].op = "resume" /\ stack[j].root = stack[k].root => j = k

IdInv == TypeOK /\ IssuedIds /\ FreeSlots /\ IdsNeverReused
Inv ==
  IdInv /\ OwnRecord /\ ResumesPolling /\ PollingRegistered /\ NoLostWake

(* The steps that issue and retire no id ... *)
KeepsIds ==
  /\ UNCHANGED <<len, generation, free>>
  /\ \A h \in Roots : root'[h].task = root[h].task /\ (Born(h)' <=> Born(h))
  /\ \A i \in Index : /\ record'[i].owner = record[i].owner
                      /\ record'[i].state = "vacant" <=> record[i].state = "vacant"

(* ... and lose no wake: a record still active keeps its waker, and a wake   *)
(* granted to it is signalled.                                             *)
KeepsWakes ==
  /\ UNCHANGED home
  /\ ready \subseteq ready'
  /\ \A h \in Roots :
       /\ root'[h].phase = "idle" => root[h].phase \in {"idle", "polling"}
       /\ root'[h].phase = "polling" => root[h].phase = "polling"
  /\ \A i \in Index : record'[i].state = "active" =>
       /\ record[i].state = "active"
       /\ record'[i].waker = record[i].waker
       /\ record'[i].wakeOutstanding =>
            \/ record[i].wakeOutstanding
            \/ <<record[i].owner, record[i].waker>> \in ready'

(* Such steps keep the id invariants ... *)
LEMMA KeepsIdsPreserves ==
  ASSUME IdInv, OwnRecord, TypeOK', KeepsIds
  PROVE  IdInv' /\ OwnRecord'
<1>1. \A h \in Roots : root[h].task.index \in Index
  BY DEF IdInv, TypeOK, TaskId
<1>2. IssuedIds'
  BY DEF IdInv, IssuedIds, KeepsIds
<1>3. FreeSlots'
  <2>1. \A k \in 1 .. Len(free) : free[k] \in Index
    BY DEF IdInv, TypeOK
  <2> QED
    BY <2>1 DEF IdInv, FreeSlots, KeepsIds
<1>4. IdsNeverReused'
  BY DEF IdInv, IdsNeverReused, KeepsIds
<1>5. OwnRecord'
  BY <1>1 DEF OwnRecord, KeepsIds, Occupied
<1> QED
  BY <1>2, <1>3, <1>4, <1>5 DEF IdInv

(* ... and those that also keep wakes keep the wake invariants. *)
LEMMA KeepsWakesPreserves ==
  ASSUME Inv, KeepsIds, KeepsWakes
  PROVE  PollingRegistered' /\ NoLostWake'
<1> SUFFICES ASSUME NEW h \in Roots, Active(root[h].task)'
             PROVE  LET rec == record'[root'[h].task.index] IN
                    /\ root'[h].phase = "polling" =>
                         rec.waker = home'[h] \/ <<h, home'[h]>> \in ready'
                    /\ Born(h)' =>
                         /\ rec.wakeOutstanding => <<h, rec.waker>> \in ready'
                         /\ root'[h].phase = "idle" =>
                              rec.waker = home'[h] \/ <<h, home'[h]>> \in ready'
  BY DEF PollingRegistered, NoLostWake
<1> DEFINE i == root[h].task.index
<1>1. i \in Index
  BY DEF Inv, IdInv, TypeOK, TaskId
<1>2. root'[h].task = root[h].task /\ (Born(h)' <=> Born(h))
  BY DEF KeepsIds
<1>3. record'[i].state = "active"
  BY <1>2 DEF Active
<1>4. /\ record[i].state = "active"
      /\ record'[i].waker = record[i].waker
      /\ record'[i].wakeOutstanding =>
           \/ record[i].wakeOutstanding
           \/ <<record[i].owner, record[i].waker>> \in ready'
  BY <1>1, <1>3 DEF KeepsWakes
<1>5. Occupied(root[h].task)
  BY <1>1, <1>2, <1>4 DEF Active, Occupied, KeepsIds
<1>6. Active(root[h].task)
  BY <1>4, <1>5 DEF Active
<1>7. Born(h) => record[i].owner = h
  BY <1>5 DEF Inv, OwnRecord
<1>8. home' = home /\ ready \subseteq ready'
  BY DEF KeepsWakes
<1>9. /\ root[h].phase = "polling" =>
           record[i].waker = home[h] \/ <<h, home[h]>> \in ready
      /\ Born(h) => /\ record[i].wakeOutstanding => <<h, record[i].waker>> \in ready
                    /\ root[h].phase = "idle" =>
                         record[i].waker = home[h] \/ <<h, home[h]>> \in ready
  BY <1>6 DEF Inv, PollingRegistered, NoLostWake
<1>10. /\ root'[h].phase = "idle" => root[h].phase \in {"idle", "polling"}
       /\ root'[h].phase = "polling" => root[h].phase = "polling"
  BY DEF KeepsWakes
<1> QED
  BY <1>2, <1>4, <1>7, <1>8, <1>9, <1>10

(* A wake is such a step, whatever fields of a record its caller has set as  *)
(* long as the record stays whose it is and what it was.                   *)
LEMMA WakeKeeps ==
  ASSUME TypeOK, NEW recs \in [Index -> TaskRecord], NEW t \in TaskId,
         \A i \in Index :
           /\ recs[i].owner = record[i].owner
           /\ recs[i].state = record[i].state
           /\ recs[i].waker = record[i].waker
           /\ recs[i].wakeOutstanding = record[i].wakeOutstanding,
         WakeIn(recs, t),
         UNCHANGED <<len, generation, free, root, home>>
  PROVE  KeepsIds /\ KeepsWakes
<1>1. t.index \in Index
  BY DEF TaskId
<1>2. ready \subseteq ready'
  BY DEF WakeIn
<1>3. ASSUME NEW i \in Index
      PROVE /\ record'[i].owner = record[i].owner
            /\ record'[i].state = record[i].state
            /\ record'[i].waker = record[i].waker
            /\ record'[i].wakeOutstanding =>
                 \/ record[i].wakeOutstanding
                 \/ <<record[i].owner, record[i].waker>> \in ready'
  <2>1. recs[t.index] \in TaskRecord
    BY <1>1
  <2>2. CASE WakeDue(t)
    <3>1. /\ record' = [recs EXCEPT ![t.index].wakeOutstanding = TRUE]
          /\ ready' = ready \cup {<<record[t.index].owner, record[t.index].waker>>}
      BY <2>2 DEF WakeIn
    <3>2. CASE i = t.index
      BY <1>1, <2>1, <3>1, <3>2 DEF TaskRecord
    <3>3. CASE i # t.index
      BY <3>1, <3>3
    <3> QED
      BY <3>2, <3>3
  <2>3. CASE ~WakeDue(t)
    BY <2>3 DEF WakeIn
  <2> QED
    BY <2>2, <2>3
<1>4. KeepsIds
  BY <1>3 DEF KeepsIds, Born
<1>5. KeepsWakes
  BY <1>2, <1>3 DEF KeepsWakes
<1> QED
  BY <1>4, <1>5

(* Wakes, cancellation requests and their transitions, timers. *)
LEMMA WakesKeep ==
  ASSUME TypeOK
  PROVE  /\ \A h \in Roots : Wake(h) \/ RequestCancel(h) => KeepsIds /\ KeepsWakes
         /\ \A h \in Roots, r \in 0 .. MaxRequests, x \in {"Observe", "Acknowledge"} :
              CancelTransition(h, r, x) => KeepsIds /\ KeepsWakes
         /\ \A tm \in Timers : TimerCallback(tm) => KeepsIds /\ KeepsWakes
<1>1. /\ \A h \in Roots : root[h].task \in TaskId
      /\ \A tm \in Timers : timer[tm].task \in TaskId
      /\ record \in [Index -> TaskRecord]
  BY DEF TypeOK
<1>2. ASSUME NEW h \in Roots, Wake(h) PROVE KeepsIds /\ KeepsWakes
  <2>1. WakeIn(record, root[h].task) /\ UNCHANGED <<len, generation, free, root, home>>
    BY <1>2 DEF Wake
  <2> QED
    BY <1>1, <2>1, WakeKeeps
<1>3. ASSUME NEW h \in Roots, RequestCancel(h) PROVE KeepsIds /\ KeepsWakes
  <2>1. /\ nextRequest <= MaxRequests
        /\ WakeIn(Requesting(h), root[h].task)
        /\ UNCHANGED <<len, generation, free, root, home>>
    BY <1>3 DEF RequestCancel, Requesting
  <2>2. \A i \in Index : /\ Requesting(h)[i].owner = record[i].owner
                         /\ Requesting(h)[i].state = record[i].state
                         /\ Requesting(h)[i].waker = record[i].waker
                         /\ Requesting(h)[i].wakeOutstanding = record[i].wakeOutstanding
    BY <1>1 DEF Requesting, TaskId, TaskRecord
  <2> QED
    BY <1>1, <2>1, <2>2, RequestTypes, WakeKeeps
<1>4. ASSUME NEW h \in Roots, NEW r \in 0 .. MaxRequests,
             NEW x \in {"Observe", "Acknowledge"}, CancelTransition(h, r, x)
      PROVE  KeepsIds /\ KeepsWakes
  <2>1. \A i \in Index : /\ record'[i].owner = record[i].owner
                         /\ record'[i].state = record[i].state
                         /\ record'[i].waker = record[i].waker
                         /\ record'[i].wakeOutstanding = record[i].wakeOutstanding
    BY <1>1, <1>4 DEF CancelTransition, TaskRecord
  <2> QED
    BY <1>4, <2>1 DEF CancelTransition, KeepsIds, KeepsWakes, Born
<1>5. ASSUME NEW tm \in Timers, TimerCallback(tm) PROVE KeepsIds /\ KeepsWakes
  <2>1. UNCHANGED <<len, generation, free, root, home>>
    BY <1>5 DEF TimerCallback
  <2>2. CASE timer[tm].state = "Registered"
    <3>1. WakeIn(record, timer[tm].task)
      BY <1>5, <2>2 DEF TimerCallback
    <3> QED
      BY <1>1, <2>1, <3>1, WakeKeeps
  <2>3. CASE timer[tm].state # "Registered"
    <3>1. record' = record /\ ready' = ready
      BY <1>5, <2>3 DEF TimerCallback
    <3> QED
      BY <2>1, <3>1 DEF KeepsIds, KeepsWakes, Born
  <2> QED
    BY <2>2, <2>3
<1> QED
  BY <1>2, <1>3, <1>4, <1>5

(* Steps that complete records, mark their cleanup, or leave them alone. *)
Settles ==
  /\ UNCHANGED <<len, generation, free, home>>
  /\ ready \subseteq ready'
  /\ \A i \in Index :
       /\ record'[i].owner = record[i].owner
       /\ record'[i].state = "vacant" <=> record[i].state = "vacant"
       /\ record'[i].state = "active" => /\ record[i].state = "active"
                                         /\ record'[i].waker = record[i].waker
                                         /\ record'[i].wakeOutstanding
                                              = record[i].wakeOutstanding
  /\ \A h \in Roots :
       /\ root'[h].task = root[h].task
       /\ (Born(h)' <=> Born(h))
       /\ root'[h].phase = "idle" => root[h].phase \in {"idle", "polling"}
       /\ root'[h].phase = "polling" => root[h].phase = "polling"

LEMMA SettlesKeeps == Settles => KeepsIds /\ KeepsWakes
  BY DEF Settles, KeepsIds, KeepsWakes

LEMMA ResumeSettles ==
  ASSUME TypeOK, NEW h \in Roots, ResumeReturns(h), root[h].phase = "polling"
  PROVE  Settles
<1> DEFINE i == root[h].task.index
<1>1. /\ i \in Index
      /\ root \in [Roots -> [task : TaskId, phase : RootPhase]]
      /\ record \in [Index -> TaskRecord]
  BY DEF TypeOK, TaskId
<1>2. UNCHANGED <<len, generation, free, home>> /\ ready' = ready
  BY DEF ResumeReturns
<1>3. ASSUME NEW j \in Index
      PROVE  /\ record'[j].owner = record[j].owner
             /\ record'[j].state = "vacant" <=> record[j].state = "vacant"
             /\ record'[j].state = "active" =>
                  /\ record[j].state = "active"
                  /\ record'[j].waker = record[j].waker
                  /\ record'[j].wakeOutstanding = record[j].wakeOutstanding
  <2>1. record[j] \in TaskRecord
    BY <1>1
  <2>2. CASE ResumeOvertaken(h)
    BY <1>1, <2>1, <2>2 DEF ResumeOvertaken, TaskRecord
  <2>3. CASE ResumePending(h)
    BY <1>1, <2>1, <2>3 DEF ResumePending, PendingRecord, TaskRecord
  <2>4. CASE ResumeReady(h)
    BY <1>1, <2>1, <2>4 DEF ResumeReady, Completed, TaskRecord, Active
  <2> QED
    BY <2>2, <2>3, <2>4 DEF ResumeReturns
<1>4. ASSUME NEW g \in Roots
      PROVE  /\ root'[g].task = root[g].task
             /\ (Born(g)' <=> Born(g))
             /\ root'[g].phase = "idle" => root[g].phase \in {"idle", "polling"}
             /\ root'[g].phase = "polling" => root[g].phase = "polling"
  BY <1>1 DEF ResumeReturns, ResumeOvertaken, ResumePending, ResumeReady, Born
<1> QED
  BY <1>2, <1>3, <1>4 DEF Settles

(* The other steps that settle: drop, returns, shutdown, timers. *)
LEMMA OthersSettle ==
  ASSUME TypeOK
  PROVE  /\ \A h \in Roots : DropRoot(h) => Settles
         /\ CleanupReturns => Settles
         /\ ShutdownBegins \/ ShutdownVisits \/ ShutdownReturns => Settles
         /\ SignalWaker \/ WakerReturns => Settles
         /\ \A tm \in Timers, h \in Roots : RegisterTimer(tm, h) => Settles
         /\ \A tm \in Timers : CancelTimer(tm) => Settles
<1>1. /\ root \in [Roots -> [task : TaskId, phase : RootPhase]]
      /\ record \in [Index -> TaskRecord]
      /\ \A h \in Roots : root[h].task.index \in Index
  BY DEF TypeOK, TaskId
<1>2. ASSUME NEW h \in Roots, DropRoot(h) PROVE Settles
  <2>1. ASSUME NEW j \in Index
        PROVE  /\ record'[j].owner = record[j].owner
               /\ record'[j].state = "vacant" <=> record[j].state = "vacant"
               /\ record'[j].state = "active" =>
                    /\ record[j].state = "active"
                    /\ record'[j].waker = record[j].waker
                    /\ record'[j].wakeOutstanding = record[j].wakeOutstanding
    <3>1. record[j] \in TaskRecord
      BY <1>1
    <3>2. CASE root[h].phase = "idle" /\ Active(root[h].task)
      <4>1. /\ record[root[h].task.index].state = "active"
            /\ record' = [record EXCEPT ![root[h].task.index] =
                 [Completed(@, "Dropped") EXCEPT !.cleanupCalled = TRUE]]
        BY <1>2, <3>2 DEF DropRoot, Active
      <4> QED
        BY <1>1, <3>1, <4>1 DEF Completed, TaskRecord
    <3>3. CASE ~(root[h].phase = "idle" /\ Active(root[h].task))
      BY <1>2, <3>3 DEF DropRoot
    <3> QED
      BY <3>2, <3>3
  <2>2. ASSUME NEW g \in Roots
        PROVE  /\ root'[g].task = root[g].task
               /\ (Born(g)' <=> Born(g))
               /\ root'[g].phase = "idle" => root[g].phase \in {"idle", "polling"}
               /\ root'[g].phase = "polling" => root[g].phase = "polling"
    BY <1>1, <1>2 DEF DropRoot, Born
  <2> QED
    BY <1>2, <2>1, <2>2 DEF DropRoot, Settles
<1>3. ASSUME CleanupReturns PROVE Settles
  <2>1. ASSUME NEW g \in Roots
        PROVE  /\ root'[g].task = root[g].task
               /\ (Born(g)' <=> Born(g))
               /\ root'[g].phase = "idle" => root[g].phase \in {"idle", "polling"}
               /\ root'[g].phase = "polling" => root[g].phase = "polling"
    BY <1>1, <1>3 DEF CleanupReturns, Born
  <2> QED
    BY <1>3, <2>1 DEF CleanupReturns, Settles, arenaVars
<1>4. ASSUME ShutdownVisits PROVE Settles
  <2>1. PICK i \in Index, b \in BOOLEAN :
          /\ record[i].state = "active"
          /\ record' = [record EXCEPT
               ![i] = [Completed(record[i], "Shutdown") EXCEPT !.cleanupCalled = b]]
    <3>1. PICK i \in ActiveFrom(Top.at) :
            record' = [record EXCEPT
              ![i] = [Completed(record[i], "Shutdown")
                        EXCEPT !.cleanupCalled = @ \/ CleansAtShutdown(record[i])]]
      BY <1>4 DEF ShutdownVisits
    <3>2. i \in Index /\ record[i].state = "active"
      BY DEF ActiveFrom
    <3>3. (Completed(record[i], "Shutdown").cleanupCalled
             \/ CleansAtShutdown(record[i])) \in BOOLEAN
      OBVIOUS
    <3> QED
      BY <1>1, <3>1, <3>2, <3>3
  <2>2. ASSUME NEW j \in Index
        PROVE  /\ record'[j].owner = record[j].owner
               /\ record'[j].state = "vacant" <=> record[j].state = "vacant"
               /\ record'[j].state = "active" =>
                    /\ record[j].state = "active"
                    /\ record'[j].waker = record[j].waker
                    /\ record'[j].wakeOutstanding = record[j].wakeOutstanding
    <3>1. record[i] \in TaskRecord /\ record[j] \in TaskRecord
      BY <1>1
    <3> QED
      BY <1>1, <2>1, <3>1 DEF Completed, TaskRecord
  <2> QED
    BY <1>4, <2>2 DEF ShutdownVisits, Settles, Born
<1>5. ASSUME SignalWaker PROVE Settles
  BY <1>5 DEF SignalWaker, Settles, Born, arenaVars
<1>6. ASSUME ShutdownBegins \/ ShutdownReturns \/ WakerReturns PROVE Settles
  BY <1>6 DEF ShutdownBegins, ShutdownReturns, WakerReturns, Settles, Born, arenaVars
<1>7. /\ \A tm \in Timers, h \in Roots : RegisterTimer(tm, h) => Settles
      /\ \A tm \in Timers : CancelTimer(tm) => Settles
  BY DEF RegisterTimer, CancelTimer, Settles, Born, arenaVars
<1> QED
  BY <1>2, <1>3, <1>4, <1>5, <1>6, <1>7

(* The stack: no step but a poll puts a resume on it, and the root of one    *)
(* that stays there is still polled.                                       *)
NoNewResume ==
  \A k \in 1 .. Len(stack') : stack'[k].op = "resume" =>
    /\ k \in 1 .. Len(stack)
    /\ stack'[k] = stack[k]
    /\ root'[stack[k].root].phase = "polling"

LEMMA NoNewResumePreserves ==
  ASSUME ResumesPolling, NoNewResume
  PROVE  ResumesPolling'
  BY DEF ResumesPolling, NoNewResume

LEMMA Pushing ==
  ASSUME NEW S, NEW s \in Seq(S), NEW f \in S
  PROVE  \A k \in 1 .. Len(Append(s, f)) :
           \/ k \in 1 .. Len(s) /\ Append(s, f)[k] = s[k]
           \/ k = Len(s) + 1 /\ Append(s, f)[k] = f
  OBVIOUS

LEMMA Popping ==
  ASSUME stack \in Seq(Frame), stack # <<>>
  PROVE  /\ Below \in Seq(Frame)
         /\ Len(Below) = Len(stack) - 1
         /\ \A k \in 1 .. Len(Below) : k \in 1 .. Len(stack) /\ Below[k] = stack[k]
         /\ Len(stack) \in 1 .. Len(stack) /\ Top = stack[Len(stack)]
  BY AllButLast DEF Below, Top

(* Every action but a poll that resumes. *)
LEMMA StackSteps ==
  ASSUME TypeOK, ResumesPolling
  PROVE  /\ \A h \in Roots : SubmitRoot(h) \/ Wake(h) \/ RequestCancel(h)
              \/ TakeCompletion(h) \/ (Poll(h) /\ PollSettled(h)) \/ Rehome(h)
              => NoNewResume
         /\ \A h \in Roots, r \in 0 .. MaxRequests, x \in {"Observe", "Acknowledge"} :
              CancelTransition(h, r, x) => NoNewResume
         /\ \A tm \in Timers : TimerCallback(tm) \/ CancelTimer(tm) => NoNewResume
         /\ \A tm \in Timers, h \in Roots : RegisterTimer(tm, h) => NoNewResume
         /\ \A h \in Roots : ResumeReturns(h) \/ DropRoot(h) => NoNewResume
         /\ CleanupReturns \/ WakerReturns \/ SignalWaker => NoNewResume
         /\ ShutdownBegins \/ ShutdownVisits \/ ShutdownReturns => NoNewResume
<1>1. /\ root \in [Roots -> [task : TaskId, phase : RootPhase]]
      /\ stack \in Seq(Frame)
  BY DEF TypeOK
<1>2. \A k \in 1 .. Len(stack) : stack[k].op = "resume" =>
        stack[k].root \in Roots /\ root[stack[k].root].phase = "polling"
  BY DEF ResumesPolling
<1>3. \A op \in FrameOp, h \in Roots \cup {NoRoot} :
        Call(op, h) \in Frame /\ Call(op, h).op = op
  BY CallIsFrame DEF Call
<1>4. ASSUME NEW h \in Roots,
             SubmitRoot(h) \/ Wake(h) \/ RequestCancel(h) \/ TakeCompletion(h)
               \/ (Poll(h) /\ PollSettled(h)) \/ Rehome(h)
      PROVE  NoNewResume
  <2>1. stack' = stack
    BY <1>4 DEF SubmitRoot, Wake, RequestCancel, TakeCompletion, PollSettled, Rehome
  <2>2. \A g \in Roots : root[g].phase = "polling" => root'[g].phase = "polling"
    BY <1>1, <1>4
    DEF SubmitRoot, Wake, RequestCancel, TakeCompletion, Poll, PollSettled, Rehome
  <2> QED
    BY <1>2, <2>1, <2>2 DEF NoNewResume
<1>5. ASSUME NEW h \in Roots, NEW r \in 0 .. MaxRequests,
             NEW x \in {"Observe", "Acknowledge"}, CancelTransition(h, r, x)
      PROVE  NoNewResume
  BY <1>2, <1>5 DEF CancelTransition, NoNewResume
<1>6. ASSUME NEW tm \in Timers,
             TimerCallback(tm) \/ CancelTimer(tm)
               \/ \E h \in Roots : RegisterTimer(tm, h)
      PROVE  NoNewResume
  BY <1>2, <1>6 DEF TimerCallback, CancelTimer, RegisterTimer, NoNewResume
<1>7. ASSUME NEW h \in Roots, ResumeReturns(h) PROVE NoNewResume
  <2> DEFINE n == Len(stack)
  <2>1. stack # <<>> /\ Top.op = "resume" /\ Top.root = h
    BY <1>7 DEF ResumeReturns
  <2>2. stack' = Below \/ stack' = Append(Below, Call("cleanup", h))
    BY <1>7 DEF ResumeReturns, ResumeOvertaken, ResumePending, ResumeReady
  <2>3. \A g \in Roots : g # h => root'[g].phase = root[g].phase
    BY <1>1, <1>7 DEF ResumeReturns, ResumeOvertaken, ResumePending, ResumeReady
  <2>4. \A k \in 1 .. Len(Below) : Below[k].op = "resume" => Below[k].root # h
    BY <1>1, <2>1, Popping DEF ResumesPolling
  <2>5. \A k \in 1 .. Len(stack') : stack'[k].op = "resume" =>
          k \in 1 .. Len(Below) /\ stack'[k] = Below[k]
    <3>1. CASE stack' = Below
      BY <3>1
    <3>2. CASE stack' = Append(Below, Call("cleanup", h))
      BY <1>1, <1>3, <2>1, <3>2, Popping, Pushing DEF FrameOp
    <3> QED
      BY <2>2, <3>1, <3>2
  <2> QED
    BY <1>1, <1>2, <2>1, <2>3, <2>4, <2>5, Popping DEF NoNewResume
<1>8. ASSUME NEW h \in Roots, DropRoot(h) PROVE NoNewResume
  <2>1. \A g \in Roots : root[g].phase = "polling" => root'[g].phase = "polling"
    BY <1>1, <1>8 DEF DropRoot
  <2>2. stack' = stack \/ stack' = Append(stack, Call("cleanup", h))
    BY <1>8 DEF DropRoot
  <2>3. \A k \in 1 .. Len(stack') : stack'[k].op = "resume" =>
          k \in 1 .. Len(stack) /\ stack'[k] = stack[k]
    BY <1>1, <1>3, <2>2, Pushing DEF FrameOp
  <2> QED
    BY <1>2, <2>1, <2>3 DEF NoNewResume
<1>9. ASSUME CleanupReturns \/ WakerReturns \/ SignalWaker \/ ShutdownReturns
      PROVE  NoNewResume
  <2>1. stack # <<>> /\ Top \in Frame
    BY <1>1, <1>9, StackUpdates, CallIsFrame
    DEF CleanupReturns, WakerReturns, SignalWaker, ShutdownReturns
  <2>2. \A g \in Roots : root[g].phase = "polling" => root'[g].phase = "polling"
    BY <1>1, <1>9
    DEF CleanupReturns, WakerReturns, SignalWaker, ShutdownReturns, RootPhase
  <2>3. stack' = Below \/ stack' = Append(Below, Call("waker", Top.root))
    BY <1>9 DEF CleanupReturns, WakerReturns, SignalWaker, ShutdownReturns
  <2>4. Call("waker", Top.root) \in Frame /\ Call("waker", Top.root).op = "waker"
    <3>1. Top.root \in Roots \cup {NoRoot}
      BY <2>1 DEF Frame
    <3> QED
      BY <1>3, <3>1 DEF FrameOp
  <2>5. \A k \in 1 .. Len(stack') : stack'[k].op = "resume" =>
          k \in 1 .. Len(stack) /\ stack'[k] = stack[k]
    <3> DEFINE f == Call("waker", Top.root)
    <3>1. /\ Below \in Seq(Frame)
          /\ \A k \in 1 .. Len(Below) : k \in 1 .. Len(stack) /\ Below[k] = stack[k]
      BY <1>1, <2>1, Popping
    <3>2. CASE stack' = Below
      BY <3>1, <3>2
    <3> HIDE DEF f
    <3>3. CASE stack' = Append(Below, f)
      <4>1. f \in Frame /\ f.op # "resume"
        BY <2>4 DEF f
      <4> QED
        BY <3>1, <3>3, <4>1, Pushing
    <3> QED
      BY <2>3, <3>2, <3>3 DEF f
  <2> QED
    BY <1>2, <2>2, <2>5 DEF NoNewResume
<1>10. ASSUME ShutdownBegins PROVE NoNewResume
  <2>1. stack' = Append(stack, Call("shutdown", NoRoot)) /\ root' = root
    BY <1>10 DEF ShutdownBegins
  <2>2. \A k \in 1 .. Len(stack') : stack'[k].op = "resume" =>
          k \in 1 .. Len(stack) /\ stack'[k] = stack[k]
    BY <1>1, <1>3, <2>1, Pushing DEF FrameOp
  <2> QED
    BY <1>2, <2>1, <2>2 DEF NoNewResume
<1>11. ASSUME ShutdownVisits PROVE NoNewResume
  <2> DEFINE Harmless(s) == /\ s \in Seq(Frame)
                            /\ \A k \in 1 .. Len(s) : s[k].op = "resume" =>
                                 k \in 1 .. Len(stack) /\ s[k] = stack[k]
  <2>1. stack # <<>> /\ Top.op = "shutdown" /\ Top \in Frame
    BY <1>1, <1>11, StackUpdates, CallIsFrame DEF ShutdownVisits
  <2>2. Harmless(Below)
    BY <1>1, <2>1, Popping
  <2>3. ASSUME NEW s, Harmless(s), NEW f \in Frame, f.op # "resume"
        PROVE  Harmless(Append(s, f))
    BY <2>3, Pushing
  <2>4. PICK i \in ActiveFrom(Top.at) :
          LET walk == Append(Below, [Top EXCEPT !.at = i + 1])
              wake == IF record[i].waker = NoWaker THEN walk
                      ELSE Append(walk, [Call("signal", record[i].owner)
                                           EXCEPT !.waker = record[i].waker])
          IN stack' = IF CleansAtShutdown(record[i])
                      THEN Append(wake, Call("cleanup", record[i].owner)) ELSE wake
    BY <1>11 DEF ShutdownVisits
  <2> DEFINE walk == Append(Below, [Top EXCEPT !.at = i + 1])
             signal == [Call("signal", record[i].owner) EXCEPT !.waker = record[i].waker]
             wake == IF record[i].waker = NoWaker THEN walk ELSE Append(walk, signal)
  <2>5. /\ i \in Index
        /\ record[i].owner \in Roots \cup {NoRoot}
        /\ record[i].waker \in Wakers \cup {NoWaker}
    BY DEF ActiveFrom, TypeOK, TaskRecord
  <2>6. [Top EXCEPT !.at = i + 1] \in Frame /\ [Top EXCEPT !.at = i + 1].op = "shutdown"
    <3>1. i + 1 \in 0 .. MaxSlots
      BY <2>5, ConstantsAssumption DEF Index
    <3> QED
      BY <2>1, <3>1 DEF Frame
  <2>7. signal \in Frame /\ signal.op = "signal"
    BY <2>5, CallIsFrame DEF FrameOp, Call
  <2>8. /\ Call("cleanup", record[i].owner) \in Frame
        /\ Call("cleanup", record[i].owner).op = "cleanup"
    BY <1>3, <2>5 DEF FrameOp
  <2> HIDE DEF Harmless, signal
  <2>9. Harmless(walk)
    BY <2>2, <2>3, <2>6
  <2> HIDE DEF walk
  <2>10. Harmless(wake)
    BY <2>3, <2>7, <2>9
  <2>11. Harmless(stack')
    <3>1. stack' = IF CleansAtShutdown(record[i])
                   THEN Append(wake, Call("cleanup", record[i].owner)) ELSE wake
      BY <2>4 DEF walk, signal
    <3> HIDE DEF wake
    <3> QED
      BY <2>3, <2>8, <2>10, <3>1
  <2>12. root' = root
    BY <1>11 DEF ShutdownVisits
  <2> QED
    BY <1>2, <2>11, <2>12 DEF Harmless, NoNewResume
<1> QED
  BY <1>4, <1>5, <1>6, <1>7, <1>8, <1>9, <1>10, <1>11

LEMMA PollKeepsStack ==
  ASSUME TypeOK, ResumesPolling, NEW h \in Roots, Poll(h)
  PROVE  ResumesPolling'
<1>1. CASE PollSettled(h)
  BY <1>1, StackSteps, NoNewResumePreserves
<1>2. CASE PollResume(h)
  <2>1. /\ stack \in Seq(Frame)
        /\ root \in [Roots -> [task : TaskId, phase : RootPhase]]
        /\ Call("resume", h) \in Frame
    BY CallIsFrame DEF TypeOK, FrameOp
  <2>2. Call("resume", h).root = h
    BY DEF Call
  <2>3. root[h].phase = "idle"
    BY DEF Poll
  <2>4. stack' = Append(stack, Call("resume", h))
        /\ root' = [root EXCEPT ![h].phase = "polling"]
    BY <1>2 DEF PollResume
  <2>5. \A k \in 1 .. Len(stack') :
          \/ k \in 1 .. Len(stack) /\ stack'[k] = stack[k]
          \/ k = Len(stack) + 1 /\ stack'[k] = Call("resume", h)
    BY <2>1, <2>4, Pushing
  <2>6. \A k \in 1 .. Len(stack) : stack[k].op = "resume" => stack[k].root # h
    BY <2>3 DEF ResumesPolling
  <2> QED
    BY <2>1, <2>2, <2>4, <2>5, <2>6 DEF ResumesPolling
<1> QED
  BY <1>1, <1>2 DEF Poll

(* Two roots whose records are active never share a record. *)
LEMMA ActiveApart ==
  ASSUME IdsNeverReused, NEW g \in Roots, NEW h \in Roots, Born(g), Born(h), g # h,
         root[g].task \in TaskId, root[h].task \in TaskId,
         Occupied(root[g].task), Occupied(root[h].task)
  PROVE  root[g].task.index # root[h].task.index
<1> SUFFICES ASSUME root[g].task.index = root[h].task.index
             PROVE  FALSE
  OBVIOUS
<1>1. root[g].task.generation = root[h].task.generation
  BY DEF Occupied
<1>2. root[g].task = root[h].task
  BY <1>1 DEF TaskId
<1> QED
  BY <1>2 DEF IdsNeverReused

LEMMA PollPreserves ==
  ASSUME Inv, NEW h \in Roots, Poll(h)
  PROVE  KeepsIds /\ PollingRegistered' /\ NoLostWake'
<1> DEFINE t == root[h].task
<1>1. /\ root \in [Roots -> [task : TaskId, phase : RootPhase]]
      /\ record \in [Index -> TaskRecord]
      /\ t.index \in Index
      /\ home[h] \in Wakers
  BY DEF Inv, IdInv, TypeOK, TaskId
<1>2. /\ UNCHANGED <<len, generation, free, home>>
      /\ ready' = ready \ {<<h, home[h]>>}
      /\ root[h].phase = "idle"
  BY DEF Poll
<1>3. \E p \in {"terminal", "polling"} : root' = [root EXCEPT ![h].phase = p]
  BY DEF Poll, PollSettled, PollResume
<1>4. \A g \in Roots : /\ root'[g].task = root[g].task
                       /\ Born(g)' <=> Born(g)
                       /\ g # h => root'[g] = root[g]
  BY <1>1, <1>2, <1>3 DEF Born
<1>5. record[t.index] \in TaskRecord
  BY <1>1
<1>6. \/ record' = record
      \/ record' = [record EXCEPT ![t.index].wakeOutstanding = FALSE]
      \/ record' = [record EXCEPT ![t.index] = PollMark(@, home[h])]
  BY DEF Poll, PollSettled, PollResume
<1>7. \A i \in Index : /\ record'[i].owner = record[i].owner
                       /\ record'[i].state = record[i].state
                       /\ i # t.index => record'[i] = record[i]
  <2>1. CASE record' = record
    BY <2>1
  <2>2. CASE record' = [record EXCEPT ![t.index].wakeOutstanding = FALSE]
    BY <1>1, <1>5, <2>2 DEF TaskRecord
  <2>3. CASE record' = [record EXCEPT ![t.index] = PollMark(@, home[h])]
    BY <1>1, <1>5, <2>3 DEF PollMark, TaskRecord
  <2> QED
    BY <1>6, <2>1, <2>2, <2>3
<1>8. KeepsIds
  BY <1>2, <1>4, <1>7 DEF KeepsIds
<1>9. \A g \in Roots : Active(root[g].task)' <=> Active(root[g].task)
  BY <1>1, <1>2, <1>4, <1>7 DEF Active, Occupied, TaskId
<1>10. CASE Active(t)
  <2>1. /\ record' = [record EXCEPT ![t.index] = PollMark(@, home[h])]
        /\ root' = [root EXCEPT ![h].phase = "polling"]
    BY <1>10 DEF Poll, PollSettled, PollResume
  <2>2. /\ record'[t.index].waker = home[h]
        /\ ~record'[t.index].wakeOutstanding
        /\ root'[h].phase = "polling"
    BY <1>1, <1>5, <2>1 DEF PollMark, TaskRecord
  <2>3. ASSUME NEW g \in Roots, g # h, Born(g), Active(root[g].task)
        PROVE  root[g].task.index # t.index
    <3>1. Born(h)
      BY <1>2 DEF Born
    <3> QED
      BY <1>1, <1>10, <2>3, <3>1, ActiveApart DEF Inv, IdInv, Active
  <2>4. ASSUME NEW g \in Roots, g # h, Born(g), Active(root[g].task)
        PROVE  record'[root[g].task.index] = record[root[g].task.index]
    <3>1. root[g].task.index \in Index
      BY <1>1 DEF TaskId
    <3> QED
      BY <1>7, <2>3, <2>4, <3>1
  <2>5. PollingRegistered'
    <3> SUFFICES ASSUME NEW g \in Roots, Active(root[g].task)', root'[g].phase = "polling"
                 PROVE  record'[root'[g].task.index].waker = home'[g]
                          \/ <<g, home'[g]>> \in ready'
      BY DEF PollingRegistered
    <3>1. CASE g = h
      BY <1>2, <1>4, <2>2, <3>1
    <3>2. CASE g # h
      BY <1>2, <1>4, <1>9, <2>4, <3>2 DEF Inv, PollingRegistered, Born
    <3> QED
      BY <3>1, <3>2
  <2>6. NoLostWake'
    <3> SUFFICES ASSUME NEW g \in Roots, Born(g)', Active(root[g].task)'
                 PROVE  LET rec == record'[root'[g].task.index] IN
                        /\ rec.wakeOutstanding => <<g, rec.waker>> \in ready'
                        /\ root'[g].phase = "idle" =>
                             rec.waker = home'[g] \/ <<g, home'[g]>> \in ready'
      BY DEF NoLostWake
    <3>1. CASE g = h
      BY <1>4, <2>2, <3>1
    <3>2. CASE g # h
      BY <1>2, <1>4, <1>9, <2>4, <3>2 DEF Inv, NoLostWake
    <3> QED
      BY <3>1, <3>2
  <2> QED
    BY <1>8, <2>5, <2>6
<1>11. CASE ~Active(t)
  <2>1. root' = [root EXCEPT ![h].phase = "terminal"]
    BY <1>11 DEF Poll, PollSettled, PollResume
  <2>2. \A i \in Index : /\ record'[i].waker = record[i].waker
                         /\ record'[i].wakeOutstanding => record[i].wakeOutstanding
    <3>1. record' = record \/ record' = [record EXCEPT ![t.index].wakeOutstanding = FALSE]
      BY <1>11 DEF Poll, PollSettled, PollResume
    <3> QED
      BY <1>1, <1>5, <3>1 DEF TaskRecord
  <2>3. \A g \in Roots : root[g].task.index \in Index
    BY <1>1 DEF TaskId
  <2>4. \A g \in Roots : Active(root[g].task)' => g # h
    BY <1>9, <1>11
  <2>5. PollingRegistered'
    BY <1>2, <1>4, <1>9, <2>2, <2>3, <2>4 DEF Inv, PollingRegistered
  <2>6. NoLostWake'
    BY <1>2, <1>4, <1>9, <2>2, <2>3, <2>4 DEF Inv, NoLostWake
  <2> QED
    BY <1>8, <2>5, <2>6
<1> QED
  BY <1>10, <1>11

LEMMA RehomePreserves ==
  ASSUME Inv, NEW h \in Roots, Rehome(h)
  PROVE  KeepsIds /\ PollingRegistered' /\ NoLostWake'
<1>1. /\ UNCHANGED <<arenaVars, root>>
      /\ root[h].phase = "idle"
      /\ ready \subseteq ready'
      /\ <<h, home'[h]>> \in ready'
      /\ \A g \in Roots : g # h => home'[g] = home[g]
  BY DEF Rehome, Inv, IdInv, TypeOK
<1>2. KeepsIds
  BY <1>1 DEF KeepsIds, Born, arenaVars
<1>3. PollingRegistered'
  BY <1>1 DEF Inv, PollingRegistered, Active, Occupied, arenaVars
<1>4. NoLostWake'
  BY <1>1 DEF Inv, NoLostWake, Active, Occupied, Born, arenaVars
<1> QED
  BY <1>2, <1>3, <1>4

(* A slot is issued: from the free list or newly pushed, its generation is   *)
(* above that of every id issued for it before.                            *)
LEMMA SubmitPreserves ==
  ASSUME Inv, NEW h \in Roots, SubmitRoot(h), TypeOK'
  PROVE  IdInv' /\ OwnRecord' /\ PollingRegistered' /\ NoLostWake'
<1>1. /\ root \in [Roots -> [task : TaskId, phase : RootPhase]]
      /\ record \in [Index -> TaskRecord]
      /\ generation \in [Index -> 0 .. MaxGeneration]
      /\ free \in Seq(Index)
      /\ len \in 0 .. MaxSlots
  BY DEF Inv, IdInv, TypeOK
<1>2. PICK i \in Index :
        /\ \/ /\ free # <<>>
              /\ i = free[Len(free)]
              /\ free' = SubSeq(free, 1, Len(free) - 1)
              /\ UNCHANGED <<len, generation>>
           \/ /\ free = <<>>
              /\ i = len
              /\ len' = len + 1
              /\ generation' = [generation EXCEPT ![i] = 1]
              /\ UNCHANGED free
        /\ record' = [record EXCEPT ![i] = Fresh(h)]
        /\ root' = [root EXCEPT
             ![h] = [task |-> [index |-> i, generation |-> generation'[i]],
                     phase |-> "idle"]]
  BY DEF SubmitRoot
<1>3. /\ home' = home
      /\ ready' = ready \cup {<<h, home[h]>>}
      /\ ~Born(h)
  BY DEF SubmitRoot, Born
(* The slot and the free list after the allocation. *)
<1>4. /\ i < len'
      /\ len <= len'
      /\ i < len => record[i].state = "vacant"
      /\ \A j \in Index : j # i => generation'[j] = generation[j]
      /\ \A j \in Index : j < len' => j < len \/ j = i
      /\ \A g \in Roots : Born(g) /\ root[g].task.index = i =>
           root[g].task.generation < generation'[i]
      /\ Len(free') <= Len(free)
      /\ \A k \in 1 .. Len(free') : free'[k] = free[k] /\ free[k] # i
  <2>1. CASE free # <<>>
    <3> DEFINE n == Len(free)
    <3>1. /\ i = free[n]
          /\ free' = SubSeq(free, 1, n - 1)
          /\ len' = len
          /\ generation' = generation
      BY <1>2, <2>1
    <3>2. n \in 1 .. n
      BY <1>1, <2>1
    <3>3. /\ Len(free') = n - 1
          /\ \A k \in 1 .. n - 1 : free'[k] = free[k] /\ k \in 1 .. n
      BY <1>1, <2>1, <3>1, AllButLast
    <3>4. /\ i < len
          /\ record[i].state = "vacant"
          /\ \A j \in 1 .. n : free[j] = i => j = n
          /\ \A g \in Roots : Born(g) /\ root[g].task.index = i =>
               root[g].task.generation < generation[i]
      BY <3>1, <3>2 DEF Inv, IdInv, FreeSlots
    <3> HIDE DEF n
    <3> QED
      BY <1>1, <3>1, <3>2, <3>3, <3>4 DEF n, Index
  <2>2. CASE free = <<>>
    <3>1. /\ i = len
          /\ len' = len + 1
          /\ generation' = [generation EXCEPT ![i] = 1]
          /\ free' = free
      BY <1>2, <2>2
    <3>2. \A g \in Roots : Born(g) => root[g].task.index # i
      BY <1>1, <3>1 DEF Inv, IdInv, IssuedIds, TaskId, Index
    <3> QED
      BY <1>1, <2>2, <3>1, <3>2, ConstantsAssumption DEF Index
  <2> QED
    BY <2>1, <2>2
<1>5. /\ \A g \in Roots : g # h => root'[g] = root[g]
      /\ root'[h].task.index = i
      /\ root'[h].task.generation = generation'[i]
      /\ root'[h].phase = "idle"
      /\ \A g \in Roots : g # h => (Born(g)' <=> Born(g))
  BY <1>1, <1>2 DEF Born
<1>6. /\ record'[i] = Fresh(h)
      /\ \A j \in Index : j # i => record'[j] = record[j]
  BY <1>1, <1>2
<1>7. \A g \in Roots : root[g].task.index \in Index /\ root[g].task.generation \in Nat
  BY <1>1, ConstantsAssumption DEF TaskId
<1>8. IssuedIds'
  <2> SUFFICES ASSUME NEW g \in Roots, Born(g)'
               PROVE  /\ root'[g].task.index < len'
                      /\ root'[g].task.generation <= generation'[root'[g].task.index]
    BY DEF IssuedIds
  <2>1. generation'[i] \in Nat
    BY ConstantsAssumption DEF TypeOK
  <2>2. CASE g = h
    BY <1>4, <1>5, <2>1, <2>2
  <2>3. CASE g # h
    <3>1. /\ root[g].task.index < len
          /\ root[g].task.generation <= generation[root[g].task.index]
      BY <1>5, <2>3 DEF Inv, IdInv, IssuedIds
    <3>2. CASE root[g].task.index = i
      BY <1>4, <1>5, <1>7, <2>1, <2>3, <3>2
    <3>3. CASE root[g].task.index # i
      <4>1. len \in Nat /\ len' \in Nat
        BY ConstantsAssumption DEF TypeOK, Inv, IdInv
      <4>2. root[g].task.index \in Nat
        BY <1>7 DEF Index
      <4> QED
        BY <1>4, <1>5, <1>7, <2>3, <3>1, <3>3, <4>1, <4>2
    <3> QED
      BY <3>2, <3>3
  <2> QED
    BY <2>2, <2>3
<1>9. FreeSlots'
  <2> SUFFICES ASSUME NEW k \in 1 .. Len(free')
               PROVE  /\ free'[k] < len'
                      /\ record'[free'[k]].state = "vacant"
                      /\ \A j \in 1 .. Len(free') : free'[j] = free'[k] => j = k
                      /\ \A g \in Roots : Born(g)' /\ root'[g].task.index = free'[k] =>
                           root'[g].task.generation < generation'[free'[k]]
    BY DEF FreeSlots
  <2>1. Len(free) \in Nat /\ Len(free') \in Nat
    <3>1. free' \in Seq(Index)
      BY DEF TypeOK
    <3> QED
      BY <1>1, <3>1
  <2>2. \A j \in 1 .. Len(free') : j \in 1 .. Len(free)
    BY <1>4, <2>1
  <2>3. /\ free[k] \in Index /\ free[k] # i /\ free'[k] = free[k]
    BY <1>1, <1>4, <2>2
  <2>4. /\ free[k] < len
        /\ record[free[k]].state = "vacant"
        /\ \A j \in 1 .. Len(free) : free[j] = free[k] => j = k
        /\ \A g \in Roots : Born(g) /\ root[g].task.index = free[k] =>
             root[g].task.generation < generation[free[k]]
    BY <2>2 DEF Inv, IdInv, FreeSlots
  <2>5. free'[k] < len'
    <3>1. len \in Int /\ len' \in Int /\ free[k] \in Int
      BY <1>1, <2>3 DEF TypeOK, Index
    <3> QED
      BY <1>4, <2>3, <2>4, <3>1
  <2> QED
    BY <1>4, <1>5, <1>6, <2>2, <2>3, <2>4, <2>5
<1>10. IdsNeverReused'
  <2> SUFFICES ASSUME NEW f \in Roots, NEW g \in Roots, Born(f)', Born(g)',
                      root'[f].task = root'[g].task, f # g
               PROVE  FALSE
    BY DEF IdsNeverReused
  <2>1. ASSUME NEW x \in Roots, x # h, Born(x), root[x].task = root'[h].task
        PROVE  FALSE
    BY <1>4, <1>5, <1>7, <2>1
  <2>2. CASE f # h /\ g # h
    BY <1>5, <2>2 DEF Inv, IdInv, IdsNeverReused
  <2> QED
    BY <1>5, <2>1, <2>2
(* The record is the new root's, and no other root can find it. *)
<1>11. \A g \in Roots : g # h /\ Born(g) /\ Occupied(root[g].task)' =>
         root[g].task.index # i /\ Occupied(root[g].task)
  <2> SUFFICES ASSUME NEW g \in Roots, g # h, Born(g), Occupied(root[g].task)'
               PROVE  root[g].task.index # i /\ Occupied(root[g].task)
    OBVIOUS
  <2>0. root'[g] = root[g]
    BY <1>5
  <2>1. root[g].task.index # i
    BY <1>4, <1>7, <2>0 DEF Occupied
  <2> QED
    BY <1>4, <1>6, <1>7, <2>0, <2>1 DEF Occupied
<1>12. OwnRecord'
  <2>1. Fresh(h).owner = h
    BY DEF Fresh, Vacant
  <2> QED
    BY <1>5, <1>6, <1>7, <1>11, <2>1 DEF Inv, OwnRecord, Occupied
<1> DEFINE Registered(g) ==
      LET rec == record[root[g].task.index] IN
      /\ rec.wakeOutstanding => <<g, rec.waker>> \in ready
      /\ root[g].phase \in {"idle", "polling"} =>
           rec.waker = home[g] \/ <<g, home[g]>> \in ready
<1>13. ASSUME NEW g \in Roots, Born(g)', Active(root[g].task)'
       PROVE  Registered(g)'
  <2>1. CASE g = h
    <3>1. ~Fresh(h).wakeOutstanding
      BY DEF Fresh, Vacant
    <3>2. <<h, home'[h]>> \in ready'
      BY <1>3
    <3> QED
      BY <1>5, <1>6, <2>1, <3>1, <3>2
  <2>2. CASE g # h
    <3>1. Occupied(root[g].task)' /\ Born(g) /\ root'[g] = root[g]
      BY <1>5, <1>13, <2>2 DEF Active
    <3>2. root[g].task.index # i /\ Occupied(root[g].task)
      BY <1>11, <2>2, <3>1
    <3>3. record'[root[g].task.index] = record[root[g].task.index]
      BY <1>6, <1>7, <3>2
    <3>4. Active(root[g].task)
      BY <1>13, <3>1, <3>2, <3>3 DEF Active
    <3>5. Registered(g)
      BY <3>1, <3>4 DEF Inv, PollingRegistered, NoLostWake
    <3> QED
      BY <1>3, <3>1, <3>3, <3>5
  <2> QED
    BY <2>1, <2>2
<1>14. PollingRegistered' /\ NoLostWake'
  BY <1>13 DEF PollingRegistered, NoLostWake, Born
<1> QED
  BY <1>8, <1>9, <1>10, <1>12, <1>14 DEF IdInv

(* A slot is retired: it goes on the free list under a generation that no    *)
(* id has had, or never comes back.                                        *)
LEMMA TakePreserves ==
  ASSUME Inv, NEW h \in Roots, TakeCompletion(h), TypeOK'
  PROVE  IdInv' /\ OwnRecord' /\ PollingRegistered' /\ NoLostWake'
<1> DEFINE i == root[h].task.index
<1>1. /\ record \in [Index -> TaskRecord]
      /\ generation \in [Index -> 0 .. MaxGeneration]
      /\ free \in Seq(Index)
      /\ \A g \in Roots : root[g].task.index \in Index /\ root[g].task.generation \in Nat
  <2>1. \A g \in Roots : root[g].task \in TaskId
    BY DEF Inv, IdInv, TypeOK
  <2>2. \A t \in TaskId : t.index \in Index /\ t.generation \in Nat
    BY ConstantsAssumption DEF TaskId
  <2> QED
    BY <2>1, <2>2 DEF Inv, IdInv, TypeOK
<1>2. i \in Index
  BY <1>1
<1>3. /\ i < len
      /\ record[i].state = "completed"
      /\ record' = [record EXCEPT ![i] = Vacant]
      /\ UNCHANGED <<len, root, home, ready>>
  BY DEF TakeCompletion, Occupied
<1>4. generation[i] \in Nat
  BY <1>1, <1>2, ConstantsAssumption
<1>5. \/ /\ generation' = [generation EXCEPT ![i] = generation[i] + 1]
         /\ free' = Append(free, i)
      \/ UNCHANGED <<generation, free>>
  BY DEF TakeCompletion, NextGeneration
<1>6. /\ record'[i].state = "vacant"
      /\ \A j \in Index : j # i => record'[j] = record[j] /\ generation'[j] = generation[j]
      /\ generation'[i] >= generation[i]
  BY <1>1, <1>2, <1>3, <1>4, <1>5 DEF Vacant
<1>7. \A k \in 1 .. Len(free) : free[k] \in Index /\ free[k] # i
  BY <1>1, <1>3 DEF Inv, IdInv, FreeSlots
<1>8. \A g \in Roots : Born(g)' <=> Born(g)
  BY <1>3 DEF Born
<1>9. IssuedIds'
  <2> SUFFICES ASSUME NEW g \in Roots, Born(g)
               PROVE  /\ root[g].task.index < len
                      /\ root[g].task.generation <= generation'[root[g].task.index]
    BY <1>3, <1>8 DEF IssuedIds
  <2>1. /\ root[g].task.index < len
        /\ root[g].task.generation <= generation[root[g].task.index]
    BY DEF Inv, IdInv, IssuedIds
  <2>2. CASE root[g].task.index = i
    <3>1. generation'[i] \in Nat
      BY <1>2, ConstantsAssumption DEF TypeOK
    <3> QED
      BY <1>1, <1>4, <1>6, <2>1, <2>2, <3>1
  <2>3. CASE root[g].task.index # i
    BY <1>1, <1>6, <2>1, <2>3
  <2> QED
    BY <2>2, <2>3
<1>10. FreeSlots'
  <2>1. \A k \in 1 .. Len(free) :
          /\ free[k] < len
          /\ record'[free[k]].state = "vacant"
          /\ \A j \in 1 .. Len(free) : free[j] = free[k] => j = k
          /\ \A g \in Roots : Born(g) /\ root[g].task.index = free[k] =>
               root[g].task.generation < generation'[free[k]]
    BY <1>6, <1>7 DEF Inv, IdInv, FreeSlots
  <2>2. CASE UNCHANGED <<generation, free>>
    BY <1>3, <1>8, <2>1, <2>2 DEF FreeSlots
  <2>3. CASE /\ generation' = [generation EXCEPT ![i] = generation[i] + 1]
             /\ free' = Append(free, i)
    <3>1. \A g \in Roots : Born(g) /\ root[g].task.index = i =>
            root[g].task.generation < generation'[i]
      <4>1. \A g \in Roots : Born(g) /\ root[g].task.index = i =>
              root[g].task.generation <= generation[i]
        BY DEF Inv, IdInv, IssuedIds
      <4>2. generation'[i] = generation[i] + 1
        BY <1>1, <1>2, <2>3
      <4> QED
        BY <1>1, <1>4, <4>1, <4>2
    <3>2. \A k \in 1 .. Len(free') :
            \/ k \in 1 .. Len(free) /\ free'[k] = free[k]
            \/ k = Len(free) + 1 /\ free'[k] = i
      BY <1>1, <1>2, <2>3, Pushing
    <3> QED
      BY <1>3, <1>6, <1>7, <1>8, <2>1, <3>1, <3>2 DEF FreeSlots
  <2> QED
    BY <1>5, <2>2, <2>3
<1>11. IdsNeverReused'
  BY <1>3, <1>8 DEF Inv, IdInv, IdsNeverReused
<1>12. \A g \in Roots : Occupied(root[g].task)' =>
         /\ root[g].task.index # i
         /\ Occupied(root[g].task)
         /\ record'[root[g].task.index] = record[root[g].task.index]
  BY <1>1, <1>3, <1>6 DEF Occupied
<1>13. OwnRecord'
  BY <1>3, <1>8, <1>12 DEF Inv, OwnRecord
<1>14. PollingRegistered' /\ NoLostWake'
  BY <1>3, <1>8, <1>12 DEF Inv, PollingRegistered, NoLostWake, Active
<1> QED
  BY <1>9, <1>10, <1>11, <1>13, <1>14 DEF IdInv

LEMMA InvInit == Init => Inv
<1> SUFFICES ASSUME Init PROVE Inv
  OBVIOUS
<1>1. \A h \in Roots : ~Born(h) /\ ~Occupied(root[h].task) /\ root[h].phase = "unborn"
  BY DEF Init, Born, Occupied, NoTask
<1>2. free = <<>> /\ stack = <<>>
  BY DEF Init
<1> QED
  BY <1>1, <1>2, TypeInit
  DEF Inv, IdInv, IssuedIds, FreeSlots, IdsNeverReused, OwnRecord, ResumesPolling,
      PollingRegistered, NoLostWake, Active

(* The invariant is inductive: one step per action. *)
LEMMA InvStep == TypeOK' /\ Inv /\ [Next]_vars => Inv'
<1> SUFFICES ASSUME TypeOK', Inv, [Next]_vars PROVE Inv'
  OBVIOUS
<1> USE DEF Inv
<1>1. TypeOK /\ ResumesPolling /\ OwnRecord /\ IdInv
  BY DEF IdInv
<1>2. ASSUME KeepsIds, KeepsWakes, NoNewResume PROVE Inv'
  BY <1>1, <1>2, KeepsIdsPreserves, KeepsWakesPreserves, NoNewResumePreserves
<1>3. ASSUME Settles, NoNewResume PROVE Inv'
  BY <1>2, <1>3, SettlesKeeps
<1>4. ASSUME NEW h \in Roots, SubmitRoot(h) \/ TakeCompletion(h) PROVE Inv'
  BY <1>1, <1>4, SubmitPreserves, TakePreserves, StackSteps, NoNewResumePreserves
<1>5. ASSUME NEW h \in Roots, Poll(h) PROVE Inv'
  BY <1>1, <1>5, PollPreserves, KeepsIdsPreserves, PollKeepsStack
<1>6. ASSUME NEW h \in Roots, Rehome(h) PROVE Inv'
  BY <1>1, <1>6, RehomePreserves, KeepsIdsPreserves, StackSteps, NoNewResumePreserves
<1>7. ASSUME NEW h \in Roots, Wake(h) \/ RequestCancel(h) PROVE Inv'
  BY <1>1, <1>2, <1>7, WakesKeep, StackSteps
<1>8. ASSUME NEW h \in Roots, ResumeReturns(h) PROVE Inv'
  <2>1. root[h].phase = "polling"
    <3>1. stack # <<>> /\ Top.op = "resume" /\ Top.root = h
      BY <1>8 DEF ResumeReturns
    <3>2. stack \in Seq(Frame)
      BY <1>1 DEF TypeOK
    <3> QED
      BY <1>1, <3>1, <3>2, Popping DEF ResumesPolling
  <2> QED
    BY <1>1, <1>3, <1>8, <2>1, ResumeSettles, StackSteps
<1>9. ASSUME NEW h \in Roots, DropRoot(h) PROVE Inv'
  BY <1>1, <1>3, <1>9, OthersSettle, StackSteps
<1>10. ASSUME NEW h \in Roots, NEW r \in 0 .. MaxRequests,
              NEW x \in {"Observe", "Acknowledge"}, CancelTransition(h, r, x)
       PROVE  Inv'
  BY <1>1, <1>2, <1>10, WakesKeep, StackSteps
<1>11. ASSUME NEW tm \in Timers, TimerCallback(tm) PROVE Inv'
  BY <1>1, <1>2, <1>11, WakesKeep, StackSteps
<1>12. ASSUME NEW tm \in Timers, NEW h \in Roots, RegisterTimer(tm, h) \/ CancelTimer(tm)
       PROVE  Inv'
  BY <1>1, <1>3, <1>12, OthersSettle, StackSteps
<1>13. ASSUME CleanupReturns \/ ShutdownBegins \/ ShutdownVisits \/ ShutdownReturns
                \/ SignalWaker \/ WakerReturns
       PROVE  Inv'
  BY <1>1, <1>3, <1>13, OthersSettle, StackSteps
<1>14. ASSUME NEW tm \in Timers, CancelTimer(tm) PROVE Inv'
  BY <1>1, <1>3, <1>14, OthersSettle, StackSteps
<1>15. CASE UNCHANGED vars
  <2>1. KeepsIds /\ KeepsWakes
    BY <1>15 DEF vars, arenaVars, KeepsIds, KeepsWakes, Born
  <2>2. NoNewResume
    BY <1>1, <1>15 DEF vars, NoNewResume, ResumesPolling
  <2> QED
    BY <1>2, <2>1, <2>2
<1> QED
  BY <1>4, <1>5, <1>6, <1>7, <1>8, <1>9, <1>10, <1>11, <1>12, <1>13, <1>14, <1>15
  DEF Next, RootStep

(* The strengthened invariant holds in every reachable state. *)
THEOREM Invariance == Spec => []Inv
<1>1. Spec => []TypeOK
  BY TypeCorrect
<1> QED
  BY <1>1, InvInit, InvStep, PTL DEF Spec

(* No id is ever issued twice: whatever holds a stale id -- a wake handle, a *)
(* timer, a cancellation, a late poll -- can never reach another root.     *)
THEOREM IdsUnique == Spec => []IdsNeverReused
<1>1. Inv => IdsNeverReused
  BY DEF Inv, IdInv
<1> QED
  BY <1>1, Invariance, PTL

(* No wake is lost, whatever order wakes, polls, moves and cancellations come *)
(* in and however deeply callbacks re-enter the facade.                     *)
THEOREM WakesKept == Spec => []NoLostWake
<1>1. Inv => NoLostWake
  BY DEF Inv
<1> QED
  BY <1>1, Invariance, PTL
=============================================================================
