---------------------------- MODULE ContractProofs ----------------------------
(***************************************************************************)
(* Proofs about TaskArena, for every number of roots, slots, generations,  *)
(* requests and nested calls: shutdown leaves nothing active, and the arena *)
(* implements RootContract, so that every root gets one outcome and an     *)
(* activation that did not finish by itself is released exactly once.      *)
(***************************************************************************)
EXTENDS TaskArenaProofs

(* A slot in use names its owner, and the owner's id names the slot. *)
SlotOwned(i) ==
  /\ i >= len => record[i].state = "vacant"
  /\ i < len => generation[i] >= 1
  /\ record[i].state # "vacant" =>
       /\ record[i].owner \in Roots
       /\ Born(record[i].owner)
       /\ root[record[i].owner].task = [index |-> i, generation |-> generation[i]]
  /\ record[i].state = "active" => record[i].completion = "none" /\ ~record[i].cleanupCalled
  /\ record[i].state = "completed" => record[i].completion # "none"

(* The id of a root finds its record until the completion is taken. *)
OutcomeKept(h) ==
  /\ Born(h) => (fate[h].taken = "none" <=> Occupied(root[h].task))
  /\ ~Born(h) => fate[h].taken = "none" /\ root[h].task.generation = 0

(* The record of a root says whether the root is inside its resume; one     *)
(* that shutdown overtook there is still to be released.                   *)
PollMarked(h) ==
  /\ root[h].phase = "polling" => Resuming(h)
  /\ Active(root[h].task) =>
       /\ record[root[h].task.index].polling <=> Resuming(h)
       /\ root[h].phase \in {"idle", "polling"}
  /\ ~TakeDuringPoll /\ Resuming(h) /\ ~Active(root[h].task) =>
       /\ Occupied(root[h].task)
       /\ record[root[h].task.index].completion = "Shutdown"
       /\ ~record[root[h].task.index].cleanupCalled

Accounts ==
  /\ \A i \in Index : SlotOwned(i)
  /\ \A h \in Roots : OutcomeKept(h) /\ PollMarked(h)

(* Shutdown runs once, and what is active is still ahead of its walk. *)
Draining ==
  /\ \A j, k \in 1 .. Len(stack) :
       stack[j].op = "shutdown" /\ stack[k].op = "shutdown" => shutdown /\ j = k
  /\ shutdown => \A i \in Index : record[i].state = "active" =>
       \E k \in 1 .. Len(stack) : stack[k].op = "shutdown" /\ stack[k].at <= i

-----------------------------------------------------------------------------
(* The shape of the stack after a step *)

Unstacked == Len(stack') = Len(stack) /\ \A k \in 1 .. Len(stack) : stack'[k] = stack[k]

Pushed(f) ==
  /\ Len(stack') = Len(stack) + 1
  /\ \A k \in 1 .. Len(stack) : stack'[k] = stack[k]
  /\ stack'[Len(stack) + 1] = f

Popped ==
  /\ stack # <<>>
  /\ Len(stack') = Len(stack) - 1
  /\ \A k \in 1 .. Len(stack) - 1 : stack'[k] = stack[k]

Swapped(f) ==
  /\ stack # <<>>
  /\ Len(stack') = Len(stack)
  /\ \A k \in 1 .. Len(stack) - 1 : stack'[k] = stack[k]
  /\ stack'[Len(stack)] = f

(* Shutdown visits slot i: it signals the record's waker and calls its      *)
(* cleanup, if it has them.                                                *)
Visited(i) ==
  LET n == Len(stack)  m == Len(stack') IN
  /\ stack # <<>> /\ m \in n .. n + 2
  /\ \A k \in 1 .. n - 1 : stack'[k] = stack[k]
  /\ stack'[n].op = "shutdown" /\ stack'[n].at = i + 1
  /\ \A k \in n + 1 .. m : /\ stack'[k].root = record[i].owner
                           /\ stack'[k].op = "signal" \/ (stack'[k].op = "cleanup" /\ k = m)
  /\ CleansAtShutdown(record[i]) <=> stack'[m].op = "cleanup"

LEMMA Shapes ==
  ASSUME TypeOK
  PROVE  /\ stack \in Seq(Frame) /\ Len(stack) \in Nat
         /\ stack # <<>> => /\ Len(stack) \in 1 .. Len(stack) /\ Top = stack[Len(stack)]
                            /\ Top \in Frame
         /\ stack' = stack => Unstacked
         /\ \A f \in Frame : stack' = Append(stack, f) => Pushed(f)
         /\ stack # <<>> /\ stack' = Below => Popped
         /\ \A f \in Frame : stack # <<>> /\ stack' = Append(Below, f) => Swapped(f)
<1>1. stack \in Seq(Frame)
  BY DEF TypeOK
<1>2. ASSUME NEW f \in Frame, stack' = Append(stack, f) PROVE Pushed(f)
  BY <1>1, <1>2 DEF Pushed
<1>3. ASSUME stack # <<>>, stack' = Below PROVE Popped
  BY <1>1, <1>3, Popping DEF Popped
<1>4. ASSUME stack # <<>>, NEW f \in Frame, stack' = Append(Below, f) PROVE Swapped(f)
  <2>1. /\ Below \in Seq(Frame)
        /\ Len(Below) = Len(stack) - 1
        /\ \A k \in 1 .. Len(Below) : Below[k] = stack[k]
    BY <1>1, <1>4, Popping
  <2>2. /\ Len(stack') = Len(Below) + 1
        /\ stack'[Len(Below) + 1] = f
        /\ \A k \in 1 .. Len(Below) : stack'[k] = Below[k]
    BY <1>4, <2>1
  <2>3. Len(stack) \in Nat
    BY <1>1
  <2> QED
    BY <1>4, <2>1, <2>2, <2>3 DEF Swapped
<1>5. stack # <<>> => Len(stack) \in 1 .. Len(stack) /\ Top = stack[Len(stack)] /\ Top \in Frame
  BY <1>1 DEF Top
<1> QED
  BY <1>1, <1>2, <1>3, <1>4, <1>5 DEF Unstacked

LEMMA VisitShape ==
  ASSUME TypeOK, ShutdownVisits
  PROVE  \E i \in ActiveFrom(Top.at) :
           /\ \A j \in ActiveFrom(Top.at) : i <= j
           /\ record' = [record EXCEPT
                ![i] = [Completed(record[i], "Shutdown") EXCEPT
                          !.cleanupCalled = @ \/ CleansAtShutdown(record[i])]]
           /\ fate' = IF CleansAtShutdown(record[i])
                      THEN [fate EXCEPT ![record[i].owner].cleanups = @ + 1] ELSE fate
           /\ Visited(i)
<1>1. PICK i \in ActiveFrom(Top.at) :
        LET walk == Append(Below, [Top EXCEPT !.at = i + 1])
            wake == IF record[i].waker = NoWaker THEN walk
                    ELSE Append(walk, [Call("signal", record[i].owner)
                                         EXCEPT !.waker = record[i].waker]) IN
        /\ \A j \in ActiveFrom(Top.at) : i <= j
        /\ record' = [record EXCEPT
             ![i] = [Completed(record[i], "Shutdown") EXCEPT
                       !.cleanupCalled = @ \/ CleansAtShutdown(record[i])]]
        /\ fate' = IF CleansAtShutdown(record[i])
                   THEN [fate EXCEPT ![record[i].owner].cleanups = @ + 1] ELSE fate
        /\ stack' = IF CleansAtShutdown(record[i])
                    THEN Append(wake, Call("cleanup", record[i].owner)) ELSE wake
  BY DEF ShutdownVisits
<1> DEFINE n == Len(stack)
           top == [Top EXCEPT !.at = i + 1]
           walk == Append(Below, top)
           signal == [Call("signal", record[i].owner) EXCEPT !.waker = record[i].waker]
           wake == IF record[i].waker = NoWaker THEN walk ELSE Append(walk, signal)
           cleanup == Call("cleanup", record[i].owner)
<1>2. /\ stack \in Seq(Frame) /\ stack # <<>> /\ Top \in Frame /\ Top.op = "shutdown"
      /\ n \in Nat \ {0}
  BY Shapes DEF ShutdownVisits
<1>3. /\ i \in Index
      /\ record[i].owner \in Roots \cup {NoRoot}
      /\ record[i].waker \in Wakers \cup {NoWaker}
  BY DEF ActiveFrom, TypeOK, TaskRecord
<1>4. top \in Frame /\ top.op = "shutdown" /\ top.at = i + 1
  <2>1. i + 1 \in 0 .. MaxSlots
    BY <1>3, ConstantsAssumption DEF Index
  <2> QED
    BY <1>2, <2>1 DEF Frame
<1>5. signal \in Frame /\ signal.op = "signal" /\ signal.root = record[i].owner
  BY <1>3, CallIsFrame DEF FrameOp, Call
<1>6. cleanup \in Frame /\ cleanup.op = "cleanup" /\ cleanup.root = record[i].owner
  BY <1>3, CallIsFrame DEF FrameOp, Call
<1>7. /\ Below \in Seq(Frame) /\ Len(Below) = n - 1
      /\ \A k \in 1 .. n - 1 : Below[k] = stack[k]
  BY <1>2, Popping
<1> HIDE DEF top, signal, cleanup, n
<1>8. /\ walk \in Seq(Frame) /\ Len(walk) = n
      /\ \A k \in 1 .. n - 1 : walk[k] = stack[k]
      /\ walk[n] = top
  BY <1>2, <1>4, <1>7
<1> HIDE DEF walk
<1>9. /\ wake \in Seq(Frame) /\ Len(wake) \in n .. n + 1
      /\ \A k \in 1 .. n - 1 : wake[k] = stack[k]
      /\ wake[n] = top
      /\ \A k \in n + 1 .. Len(wake) : wake[k] = signal
  BY <1>2, <1>5, <1>8
<1> HIDE DEF wake
<1>10. stack' = IF CleansAtShutdown(record[i]) THEN Append(wake, cleanup) ELSE wake
  BY <1>1 DEF top, walk, signal, wake, cleanup
<1>11. CASE CleansAtShutdown(record[i])
  <2> DEFINE m == Len(stack')
  <2>1. stack' = Append(wake, cleanup)
    BY <1>10, <1>11
  <2>2. /\ m = Len(wake) + 1 /\ stack'[m] = cleanup
        /\ \A k \in 1 .. Len(wake) : stack'[k] = wake[k]
    BY <1>6, <1>9, <2>1
  <2>3. m \in n + 1 .. n + 2
    BY <1>2, <1>9, <2>2
  <2>4. Visited(i)
    BY <1>2, <1>4, <1>5, <1>6, <1>9, <1>11, <2>2, <2>3 DEF Visited, n
  <2> QED
    BY <1>1, <2>4
<1>12. CASE ~CleansAtShutdown(record[i])
  <2>1. stack' = wake
    BY <1>10, <1>12
  <2>2. Len(wake) = n \/ Len(wake) = n + 1
    BY <1>2, <1>9
  <2>3. wake[Len(wake)].op # "cleanup"
    BY <1>2, <1>4, <1>5, <1>9, <2>2
  <2>4. Visited(i)
    BY <1>2, <1>4, <1>5, <1>9, <1>12, <2>1, <2>2, <2>3 DEF Visited, n
  <2> QED
    BY <1>1, <2>4
<1> QED
  BY <1>11, <1>12

(* The calls of resume in progress after such steps. *)
LEMMA SameEntries ==
  ASSUME TypeOK
  PROVE  /\ Unstacked => \A h \in Roots : Resuming(h)' <=> Resuming(h)
         /\ \A f \in Frame : Pushed(f) /\ f.op # "resume" =>
              \A h \in Roots : Resuming(h)' <=> Resuming(h)
         /\ Popped /\ Top.op # "resume" => \A h \in Roots : Resuming(h)' <=> Resuming(h)
         /\ \A f \in Frame : Swapped(f) /\ Top.op # "resume" /\ f.op # "resume" =>
              \A h \in Roots : Resuming(h)' <=> Resuming(h)
         /\ \A i \in Index : Visited(i) /\ Top.op # "resume" =>
              \A h \in Roots : Resuming(h)' <=> Resuming(h)
<1> DEFINE n == Len(stack)
           m == Len(stack')
<1>1. n \in Nat /\ (stack # <<>> => n \in 1 .. n /\ Top = stack[n])
  BY Shapes
<1>2. ASSUME Unstacked, NEW h \in Roots PROVE Resuming(h)' <=> Resuming(h)
  BY <1>2 DEF Unstacked, Resuming
<1>3. ASSUME NEW f \in Frame, Pushed(f), f.op # "resume", NEW h \in Roots
      PROVE  Resuming(h)' <=> Resuming(h)
  <2>1. /\ m = n + 1 /\ stack'[m].op # "resume"
        /\ \A k \in 1 .. n : stack'[k] = stack[k]
    BY <1>3 DEF Pushed
  <2>2. \A k \in 1 .. m : k \in 1 .. n \/ k = m
    BY <1>1, <2>1
  <2>3. \A k \in 1 .. n : k \in 1 .. m
    BY <1>1, <2>1
  <2> HIDE DEF n, m
  <2>4. Resuming(h)' => \E k \in 1 .. m : stack'[k].op = "resume" /\ stack'[k].root = h
    BY DEF Resuming, m
  <2>5. (\E k \in 1 .. m : stack'[k].op = "resume" /\ stack'[k].root = h) => Resuming(h)'
    BY DEF Resuming, m
  <2>6. Resuming(h) <=> \E k \in 1 .. n : stack[k].op = "resume" /\ stack[k].root = h
    BY DEF Resuming, n
  <2> QED
    BY <2>1, <2>2, <2>3, <2>4, <2>5, <2>6
<1>4. ASSUME Popped, Top.op # "resume", NEW h \in Roots
      PROVE  Resuming(h)' <=> Resuming(h)
  <2>1. /\ m = n - 1 /\ stack # <<>>
        /\ \A k \in 1 .. n - 1 : stack'[k] = stack[k]
    BY <1>4 DEF Popped
  <2>2. \A k \in 1 .. n : k \in 1 .. n - 1 \/ k = n
    BY <1>1
  <2>3. \A k \in 1 .. n - 1 : k \in 1 .. n
    BY <1>1
  <2> HIDE DEF n, m
  <2>4. Resuming(h)' <=> \E k \in 1 .. m : stack'[k].op = "resume" /\ stack'[k].root = h
    BY DEF Resuming, m
  <2>6. Resuming(h) <=> \E k \in 1 .. n : stack[k].op = "resume" /\ stack[k].root = h
    BY DEF Resuming, n
  <2> QED
    BY <1>1, <1>4, <2>1, <2>2, <2>3, <2>4, <2>6
<1>5. ASSUME NEW f \in Frame, Swapped(f), Top.op # "resume", f.op # "resume", NEW h \in Roots
      PROVE  Resuming(h)' <=> Resuming(h)
  <2>1. /\ m = n /\ stack # <<>> /\ stack'[n] = f
        /\ \A k \in 1 .. n - 1 : stack'[k] = stack[k]
    BY <1>5 DEF Swapped
  <2>2. \A k \in 1 .. n : k \in 1 .. n - 1 \/ k = n
    BY <1>1
  <2> HIDE DEF n, m
  <2>4. Resuming(h)' <=> \E k \in 1 .. m : stack'[k].op = "resume" /\ stack'[k].root = h
    BY DEF Resuming, m
  <2>6. Resuming(h) <=> \E k \in 1 .. n : stack[k].op = "resume" /\ stack[k].root = h
    BY DEF Resuming, n
  <2> QED
    BY <1>1, <1>5, <2>1, <2>2, <2>4, <2>6
<1>6. ASSUME NEW i \in Index, Visited(i), Top.op # "resume", NEW h \in Roots
      PROVE  Resuming(h)' <=> Resuming(h)
  <2>1. /\ m \in n .. n + 2 /\ stack # <<>> /\ stack'[n].op # "resume"
        /\ \A k \in 1 .. n - 1 : stack'[k] = stack[k]
        /\ \A k \in n + 1 .. m : stack'[k].op # "resume"
    BY <1>6 DEF Visited
  <2>2. \A k \in 1 .. m : k \in 1 .. n - 1 \/ k = n \/ k \in n + 1 .. m
    BY <1>1, <2>1
  <2>3. \A k \in 1 .. n : (k \in 1 .. n - 1 \/ k = n) /\ k \in 1 .. m
    BY <1>1, <2>1
  <2> HIDE DEF n, m
  <2>4. Resuming(h)' <=> \E k \in 1 .. m : stack'[k].op = "resume" /\ stack'[k].root = h
    BY DEF Resuming, m
  <2>6. Resuming(h) <=> \E k \in 1 .. n : stack[k].op = "resume" /\ stack[k].root = h
    BY DEF Resuming, n
  <2> QED
    BY <1>1, <1>6, <2>1, <2>2, <2>3, <2>4, <2>6
<1> QED
  BY <1>2, <1>3, <1>4, <1>5, <1>6

(* A resume that is called, and one that returns. *)
LEMMA EntryCalled ==
  ASSUME TypeOK, NEW h \in Roots, Pushed(Call("resume", h))
  PROVE  Resuming(h)' /\ \A g \in Roots \ {h} : Resuming(g)' <=> Resuming(g)
<1> DEFINE n == Len(stack)
           m == Len(stack')
<1>1. /\ n \in Nat /\ m = n + 1
      /\ stack'[m].op = "resume" /\ stack'[m].root = h
      /\ \A k \in 1 .. n : stack'[k] = stack[k]
  BY Shapes DEF Pushed, Call
<1>2. m \in 1 .. m
  BY <1>1
<1>3. \A k \in 1 .. m : k \in 1 .. n \/ k = m
  BY <1>1
<1>4. \A k \in 1 .. n : k \in 1 .. m
  BY <1>1
<1> HIDE DEF n, m
<1>5. \A g \in Roots : Resuming(g)' <=> \E k \in 1 .. m : stack'[k].op = "resume" /\ stack'[k].root = g
  BY DEF Resuming, m
<1>6. \A g \in Roots : Resuming(g) <=> \E k \in 1 .. n : stack[k].op = "resume" /\ stack[k].root = g
  BY DEF Resuming, n
<1> QED
  BY <1>1, <1>2, <1>3, <1>4, <1>5, <1>6

LEMMA EntryLeft ==
  ASSUME TypeOK, ResumesPolling, NEW h \in Roots, stack # <<>>, Top.op = "resume", Top.root = h,
         Popped \/ Swapped(Call("cleanup", h))
  PROVE  ~Resuming(h)' /\ \A g \in Roots \ {h} : Resuming(g)' <=> Resuming(g)
<1> DEFINE n == Len(stack)
           m == Len(stack')
<1>1. /\ n \in Nat \ {0} /\ Top = stack[n]
      /\ \A k \in 1 .. n - 1 : stack'[k] = stack[k]
      /\ \/ m = n - 1
         \/ m = n /\ stack'[n].op # "resume"
  BY Shapes DEF Popped, Swapped, Call
<1>2. \A k \in 1 .. n - 1 : ~(stack[k].op = "resume" /\ stack[k].root = h)
  BY <1>1 DEF ResumesPolling
<1>3. \A k \in 1 .. n : k \in 1 .. n - 1 \/ k = n
  BY <1>1
<1>4. /\ \A k \in 1 .. m : k \in 1 .. n - 1 \/ (k = n /\ m = n)
      /\ \A k \in 1 .. n - 1 : k \in 1 .. n /\ k \in 1 .. m
  BY <1>1
<1> HIDE DEF n, m
<1>5. \A g \in Roots : Resuming(g)' <=> \E k \in 1 .. m : stack'[k].op = "resume" /\ stack'[k].root = g
  BY DEF Resuming, m
<1>6. \A g \in Roots : Resuming(g) <=> \E k \in 1 .. n : stack[k].op = "resume" /\ stack[k].root = g
  BY DEF Resuming, n
<1> QED
  BY <1>1, <1>2, <1>3, <1>4, <1>5, <1>6

-----------------------------------------------------------------------------
(* What a step does to records and roots *)

(* How a root stands with its caller: the contract's view of it. *)
Outcome(h) ==
  IF ~Born(h) THEN "unsubmitted"
  ELSE IF fate[h].taken # "none" THEN fate[h].taken
  ELSE IF record[root[h].task.index].state = "active" THEN "pending"
  ELSE record[root[h].task.index].completion

SameRecord(j) ==
  /\ record'[j].state = record[j].state
  /\ record'[j].completion = record[j].completion
  /\ record'[j].owner = record[j].owner
  /\ record'[j].polling = record[j].polling
  /\ record'[j].cleanupCalled = record[j].cleanupCalled
  /\ generation'[j] = generation[j]

SameRoot(g) ==
  /\ root'[g].task = root[g].task
  /\ Born(g)' <=> Born(g)
  /\ fate'[g].taken = fate[g].taken

(* The contract sees nothing of the step at root g. *)
Unseen(g) ==
  /\ Outcome(g)' = Outcome(g)
  /\ Resuming(g)' <=> Resuming(g)
  /\ fate'[g].cleanups = fate[g].cleanups

(* No record changes in what the invariant speaks of, and no root but by    *)
(* coming to rest.                                                         *)
Quiet ==
  /\ len' = len
  /\ \A j \in Index : SameRecord(j)
  /\ \A g \in Roots :
       /\ SameRoot(g)
       /\ Resuming(g)' <=> Resuming(g)
       /\ fate'[g].cleanups = fate[g].cleanups
       /\ root'[g].phase = "polling" => root[g].phase = "polling"
       /\ Active(root[g].task) /\ root[g].phase \in {"idle", "polling"} =>
            root'[g].phase \in {"idle", "polling"}

(* Only root h and its record change. *)
Turned(h) ==
  /\ len' = len
  /\ \A j \in Index : /\ record'[j].owner = record[j].owner
                      /\ record'[j].state = "vacant" <=> record[j].state = "vacant"
                      /\ generation'[j] = generation[j]
                      /\ j # root[h].task.index => SameRecord(j)
  /\ \A g \in Roots : /\ SameRoot(g)
                      /\ g # h => /\ Resuming(g)' <=> Resuming(g)
                                  /\ fate'[g].cleanups = fate[g].cleanups
                                  /\ root'[g].phase = root[g].phase

LEMMA TaskTypes ==
  ASSUME TypeOK
  PROVE  /\ \A h \in Roots : /\ root[h].task \in TaskId
                             /\ root[h].task.index \in Index
                             /\ root[h].task.generation \in Nat
         /\ record \in [Index -> TaskRecord]
         /\ generation \in [Index -> Nat]
         /\ len \in Nat
         /\ \A i \in Index : i \in Nat /\ generation[i] \in Nat
<1>1. \A g \in 0 .. MaxGeneration : g \in Nat
  OBVIOUS
<1> QED
  BY <1>1, ConstantsAssumption DEF TypeOK, TaskId, Index

LEMMA UnbornUnoccupied ==
  ASSUME TypeOK, Accounts, NEW h \in Roots, ~Born(h)
  PROVE  ~Occupied(root[h].task)
<1> DEFINE i == root[h].task.index
<1>1. i \in Index /\ root[h].task.generation = 0
  BY TaskTypes DEF Accounts, OutcomeKept
<1>2. i < len => generation[i] >= 1
  BY <1>1 DEF Accounts, SlotOwned
<1>3. i < len => generation[i] # 0
  BY <1>1, <1>2, TaskTypes
<1> QED
  BY <1>1, <1>3 DEF Occupied

LEMMA QuietAccounts ==
  ASSUME TypeOK, Accounts, Quiet
  PROVE  Accounts' /\ \A g \in Roots : Unseen(g)
<1>1. ASSUME NEW i \in Index PROVE SlotOwned(i)'
  BY DEF Accounts, SlotOwned, Quiet, SameRecord, SameRoot
<1>2. ASSUME NEW h \in Roots PROVE OutcomeKept(h)' /\ PollMarked(h)' /\ Unseen(h)
  <2>1. Active(root[h].task)' <=> Active(root[h].task)
    BY TaskTypes DEF Quiet, SameRecord, SameRoot, Active, Occupied
  <2>2. Occupied(root[h].task)' <=> Occupied(root[h].task)
    BY TaskTypes DEF Quiet, SameRecord, SameRoot, Occupied
  <2>3. SameRecord(root[h].task.index) /\ SameRoot(h)
    BY TaskTypes DEF Quiet
  <2>4. OutcomeKept(h)'
    BY <2>2, <2>3 DEF Accounts, OutcomeKept, SameRoot
  <2>5. PollMarked(h)'
    BY <2>1, <2>2, <2>3 DEF Accounts, PollMarked, SameRoot, SameRecord, Quiet
  <2>6. Unseen(h)
    BY <2>3 DEF Unseen, Outcome, SameRoot, SameRecord, Quiet
  <2> QED
    BY <2>4, <2>5, <2>6
<1> QED
  BY <1>1, <1>2 DEF Accounts

LEMMA TurnedOthers ==
  ASSUME TypeOK, IdsNeverReused, Accounts, NEW h \in Roots, Born(h), Occupied(root[h].task), Turned(h)
  PROVE  /\ \A g \in Roots : OutcomeKept(g)'
         /\ \A g \in Roots \ {h} : PollMarked(g)' /\ Unseen(g)
         /\ \A i \in Index \ {root[h].task.index} : SlotOwned(i)'
         /\ Occupied(root[h].task)'
<1>1. ASSUME NEW i \in Index, i # root[h].task.index PROVE SlotOwned(i)'
  BY <1>1 DEF Accounts, SlotOwned, Turned, SameRecord, SameRoot
<1>2. ASSUME NEW g \in Roots
      PROVE  (Occupied(root[g].task)' <=> Occupied(root[g].task)) /\ SameRoot(g)
  BY TaskTypes DEF Turned, SameRoot, Occupied
<1>3. ASSUME NEW g \in Roots PROVE OutcomeKept(g)'
  BY <1>2 DEF Accounts, OutcomeKept, SameRoot
<1>4. ASSUME NEW g \in Roots, g # h PROVE PollMarked(g)' /\ Unseen(g)
  <2>1. /\ SameRoot(g) /\ root'[g].phase = root[g].phase
        /\ Resuming(g)' <=> Resuming(g)
        /\ fate'[g].cleanups = fate[g].cleanups
    BY <1>4 DEF Turned
  <2>2. Born(g) /\ Occupied(root[g].task) => root[g].task.index # root[h].task.index
    BY <1>4, TaskTypes, ActiveApart
  <2>3. CASE root[g].task.index # root[h].task.index
    <3>1. SameRecord(root[g].task.index)
      BY <2>3, TaskTypes DEF Turned
    <3>2. Active(root[g].task)' <=> Active(root[g].task)
      BY <1>2, <2>1, <3>1 DEF Active, SameRoot, SameRecord
    <3>3. PollMarked(g)'
      BY <1>2, <2>1, <3>1, <3>2 DEF Accounts, PollMarked, SameRoot, SameRecord
    <3>4. Unseen(g)
      BY <2>1, <3>1 DEF Unseen, Outcome, SameRoot, SameRecord
    <3> QED
      BY <3>3, <3>4
  <2>4. CASE ~Born(g) \/ ~Occupied(root[g].task)
    <3>1. ~Occupied(root[g].task)
      BY <2>4, UnbornUnoccupied
    <3>2. ~Occupied(root[g].task)' /\ ~Active(root[g].task)' /\ ~Active(root[g].task)
      BY <1>2, <3>1 DEF Active
    <3>3. PollMarked(g)'
      BY <2>1, <3>1, <3>2 DEF Accounts, PollMarked
    <3>4. Outcome(g)' = Outcome(g)
      BY <2>1, <2>4, <3>1 DEF Accounts, OutcomeKept, Outcome, SameRoot
    <3> QED
      BY <2>1, <3>3, <3>4 DEF Unseen
  <2> QED
    BY <2>2, <2>3, <2>4
<1> QED
  BY <1>1, <1>2, <1>3, <1>4

-----------------------------------------------------------------------------
(* Contract steps *)

(* One contract step at root h, nothing elsewhere. *)
At(h, step) ==
  /\ \A g \in Roots \ {h} : Unseen(g)
  /\ CASE step = "submit" ->
            /\ Outcome(h) = "unsubmitted" /\ Outcome(h)' = "pending"
            /\ Resuming(h)' <=> Resuming(h)
            /\ fate'[h].cleanups = fate[h].cleanups
       [] step = "enter" ->
            /\ Outcome(h) = "pending" /\ Outcome(h)' = "pending"
            /\ ~Resuming(h) /\ Resuming(h)'
            /\ fate'[h].cleanups = fate[h].cleanups
       [] step = "leave" ->
            /\ Outcome(h) = "pending" /\ Outcome(h)' \in {"pending", "Runtime"}
            /\ Resuming(h) /\ ~Resuming(h)'
            /\ fate'[h].cleanups = fate[h].cleanups
       [] step = "abandon" ->
            /\ Outcome(h) = "pending" /\ Outcome(h)' \in {"Dropped", "Shutdown"}
            /\ ~Resuming(h) /\ ~Resuming(h)'
            /\ fate'[h].cleanups = fate[h].cleanups + 1
       [] step = "interrupt" ->
            /\ Outcome(h) = "pending" /\ Outcome(h)' = "Shutdown"
            /\ Resuming(h) /\ Resuming(h)'
            /\ fate'[h].cleanups = fate[h].cleanups
       [] step = "unwind" ->
            /\ Outcome(h) = "Shutdown" /\ Outcome(h)' = "Shutdown"
            /\ Resuming(h) /\ ~Resuming(h)'
            /\ fate'[h].cleanups = fate[h].cleanups + 1

ContractSteps == {"submit", "enter", "leave", "abandon", "interrupt", "unwind"}

(* What every step shows the contract; an activation whose completion was   *)
(* taken from under its resume is beyond the contract.                     *)
Contractual ==
  \/ \A g \in Roots : Unseen(g)
  \/ \E h \in Roots, step \in ContractSteps : At(h, step)
  \/ TakeDuringPoll

(* An active root is pending. *)
LEMMA ActivePending ==
  ASSUME TypeOK, Accounts, NEW h \in Roots, Active(root[h].task)
  PROVE  Born(h) /\ Outcome(h) = "pending" /\ Occupied(root[h].task)
<1>1. Occupied(root[h].task) /\ record[root[h].task.index].state = "active"
  BY DEF Active
<1>2. Born(h)
  BY <1>1, UnbornUnoccupied
<1> QED
  BY <1>1, <1>2 DEF Accounts, OutcomeKept, Outcome

(* The root whose record is in slot i. *)
LEMMA OwnerOf ==
  ASSUME TypeOK, Accounts, NEW i \in Index, record[i].state = "active"
  PROVE  /\ record[i].owner \in Roots
         /\ root[record[i].owner].task.index = i
         /\ Active(root[record[i].owner].task)
<1> DEFINE h == record[i].owner
<1>1. /\ h \in Roots
      /\ root[h].task = [index |-> i, generation |-> generation[i]]
      /\ i < len
  <2>1. SlotOwned(i)
    BY DEF Accounts
  <2>2. i \in Nat /\ len \in Nat
    BY TaskTypes
  <2> QED
    BY <2>1, <2>2 DEF SlotOwned
<1> QED
  BY <1>1 DEF Active, Occupied

(* The actions that change no record and no root that matters. *)
LEMMA QuietSteps ==
  ASSUME TypeOK, Inv, Accounts,
         \/ \E h \in Roots : Wake(h) \/ RequestCancel(h) \/ Rehome(h)
              \/ (Poll(h) /\ PollSettled(h))
         \/ \E h \in Roots, r \in 0 .. MaxRequests, x \in {"Observe", "Acknowledge"} :
              CancelTransition(h, r, x)
         \/ \E tm \in Timers, h \in Roots : RegisterTimer(tm, h)
         \/ \E tm \in Timers : TimerCallback(tm) \/ CancelTimer(tm)
         \/ CleanupReturns \/ ShutdownBegins \/ ShutdownReturns \/ SignalWaker \/ WakerReturns
         \/ UNCHANGED vars
  PROVE  Quiet
<1> USE TaskTypes
<1>1. ASSUME NEW recs \in [Index -> TaskRecord], NEW t \in TaskId,
             \A j \in Index :
               /\ recs[j].state = record[j].state
               /\ recs[j].completion = record[j].completion
               /\ recs[j].owner = record[j].owner
               /\ recs[j].polling = record[j].polling
               /\ recs[j].cleanupCalled = record[j].cleanupCalled,
             WakeIn(recs, t), UNCHANGED <<len, generation, root, fate, stack>>
      PROVE  Quiet
  <2>1. ASSUME NEW j \in Index PROVE SameRecord(j)
    <3>1. recs[t.index] \in TaskRecord /\ t.index \in Index
      BY <1>1 DEF TaskId
    <3> QED
      BY <1>1, <3>1 DEF SameRecord, WakeIn, TaskRecord
  <2> QED
    BY <1>1, <2>1 DEF Quiet, SameRoot, Born, Resuming
<1>2. ASSUME NEW h \in Roots, Wake(h) PROVE Quiet
  BY <1>1, <1>2 DEF Wake
<1>3. ASSUME NEW h \in Roots, RequestCancel(h) PROVE Quiet
  <2>1. /\ nextRequest <= MaxRequests
        /\ WakeIn(Requesting(h), root[h].task)
        /\ UNCHANGED <<len, generation, root, fate, stack>>
    BY <1>3 DEF RequestCancel, Requesting
  <2>2. \A j \in Index :
               /\ Requesting(h)[j].state = record[j].state
               /\ Requesting(h)[j].completion = record[j].completion
               /\ Requesting(h)[j].owner = record[j].owner
               /\ Requesting(h)[j].polling = record[j].polling
               /\ Requesting(h)[j].cleanupCalled = record[j].cleanupCalled
    BY DEF Requesting, TaskRecord
  <2> QED
    BY <1>1, <2>1, <2>2, RequestTypes
<1>4. ASSUME UNCHANGED <<len, generation, root, fate, stack>>,
             \A j \in Index : SameRecord(j)
      PROVE  Quiet
  BY <1>4 DEF Quiet, SameRoot, Born, Resuming
<1>5. ASSUME NEW h \in Roots, NEW r \in 0 .. MaxRequests,
             NEW x \in {"Observe", "Acknowledge"}, CancelTransition(h, r, x)
      PROVE  Quiet
  <2>1. \A j \in Index : SameRecord(j)
    BY <1>5 DEF CancelTransition, SameRecord, TaskRecord
  <2> QED
    BY <1>4, <1>5, <2>1 DEF CancelTransition
<1>6. ASSUME UNCHANGED record, UNCHANGED generation PROVE \A j \in Index : SameRecord(j)
  BY <1>6 DEF SameRecord
<1>7. ASSUME NEW h \in Roots, NEW tm \in Timers,
             RegisterTimer(tm, h)
      PROVE  Quiet
  BY <1>4, <1>6, <1>7 DEF RegisterTimer, arenaVars
<1>7a. ASSUME NEW tm \in Timers, CancelTimer(tm) PROVE Quiet
  BY <1>4, <1>6, <1>7a DEF CancelTimer, arenaVars
<1>7b. ASSUME NEW h \in Roots, Rehome(h) PROVE Quiet
  BY <1>4, <1>6, <1>7b DEF Rehome, arenaVars
<1>8. ASSUME NEW tm \in Timers, TimerCallback(tm) PROVE Quiet
  <2>1. timer[tm].task \in TaskId
    BY DEF TypeOK
  <2>2. CASE timer[tm].state = "Registered"
    BY <1>1, <1>8, <2>1, <2>2 DEF TimerCallback
  <2>3. CASE timer[tm].state # "Registered"
    BY <1>4, <1>6, <1>8, <2>3 DEF TimerCallback
  <2> QED
    BY <2>2, <2>3
<1>9. ASSUME UNCHANGED <<len, generation, record, root, fate>>,
             \A h \in Roots : Resuming(h)' <=> Resuming(h)
      PROVE  Quiet
  BY <1>6, <1>9 DEF Quiet, SameRoot, Born
<1>10. ASSUME ShutdownBegins PROVE Quiet
  <2>1. Pushed(Call("shutdown", NoRoot)) /\ Call("shutdown", NoRoot) \in Frame
    BY <1>10, Shapes, CallIsFrame DEF ShutdownBegins, FrameOp
  <2>2. \A h \in Roots : Resuming(h)' <=> Resuming(h)
    BY <2>1, SameEntries DEF Call
  <2> QED
    BY <1>9, <1>10, <2>2 DEF ShutdownBegins
<1>11. ASSUME ShutdownReturns \/ WakerReturns PROVE Quiet
  <2>1. Popped /\ Top.op # "resume"
    BY <1>11, Shapes DEF ShutdownReturns, WakerReturns
  <2>2. \A h \in Roots : Resuming(h)' <=> Resuming(h)
    BY <2>1, SameEntries
  <2> QED
    BY <1>9, <1>11, <2>2 DEF ShutdownReturns, WakerReturns, arenaVars
<1>12. ASSUME SignalWaker PROVE Quiet
  <2>1. stack # <<>> /\ Top.op = "signal" /\ Top.root \in Roots \cup {NoRoot}
    BY <1>12, Shapes DEF SignalWaker, Frame
  <2>2. Call("waker", Top.root) \in Frame /\ Call("waker", Top.root).op = "waker"
    BY <2>1, CallIsFrame DEF FrameOp, Call
  <2>3. Swapped(Call("waker", Top.root))
    BY <1>12, <2>1, <2>2, Shapes DEF SignalWaker
  <2>4. \A h \in Roots : Resuming(h)' <=> Resuming(h)
    BY <2>1, <2>2, <2>3, SameEntries
  <2> QED
    BY <1>9, <1>12, <2>4 DEF SignalWaker, arenaVars
<1>13. ASSUME CleanupReturns PROVE Quiet
  <2>1. Popped /\ Top.op # "resume"
    BY <1>13, Shapes DEF CleanupReturns
  <2>2. \A h \in Roots : Resuming(h)' <=> Resuming(h)
    BY <2>1, SameEntries
  <2>3. \A j \in Index : SameRecord(j)
    BY <1>6, <1>13 DEF CleanupReturns, arenaVars
  <2>4. root \in [Roots -> [task : TaskId, phase : RootPhase]]
    BY DEF TypeOK
  <2>5. ASSUME NEW g \in Roots
        PROVE  /\ root'[g].task = root[g].task
               /\ Born(g)' <=> Born(g)
               /\ root'[g].phase \in {"idle", "polling"} \/ root[g].phase \in {"idle", "polling"}
                    => root'[g].phase = root[g].phase
    BY <1>13, <2>4 DEF CleanupReturns, Born
  <2> QED
    BY <1>13, <2>2, <2>3, <2>5 DEF CleanupReturns, arenaVars, Quiet, SameRoot
<1>14. ASSUME NEW h \in Roots, Poll(h), PollSettled(h) PROVE Quiet
  <2>1. /\ root \in [Roots -> [task : TaskId, phase : RootPhase]]
        /\ fate \in FateType
    BY DEF TypeOK, FateType
  <2>2. \A j \in Index : SameRecord(j)
    BY <1>14 DEF Poll, PollSettled, SameRecord, TaskRecord
  <2>3. root[h].phase = "idle" /\ ~Active(root[h].task)
    BY <1>14 DEF Poll, PollSettled
  <2>4. ASSUME NEW g \in Roots
        PROVE  /\ SameRoot(g)
               /\ fate'[g].cleanups = fate[g].cleanups
               /\ root'[g].phase = "polling" => root[g].phase = "polling"
               /\ Active(root[g].task) => root'[g].phase = root[g].phase
    BY <1>14, <2>1, <2>3 DEF PollSettled, SameRoot, Born, FateType
  <2>5. \A g \in Roots : Resuming(g)' <=> Resuming(g)
    BY <1>14 DEF PollSettled, Resuming
  <2> QED
    BY <1>14, <2>2, <2>4, <2>5 DEF Poll, Quiet
<1>15. CASE UNCHANGED vars
  BY <1>4, <1>6, <1>15 DEF vars, arenaVars
<1> QED
  BY <1>2, <1>3, <1>5, <1>7, <1>8, <1>10, <1>11, <1>12, <1>13, <1>14, <1>15, <1>7a, <1>7b

-----------------------------------------------------------------------------
(* The steps that turn one root *)

(* What is left to show when only root h and its record change. *)
LEMMA TurnedAccounts ==
  ASSUME TypeOK, IdsNeverReused, Accounts, NEW h \in Roots, Born(h), Occupied(root[h].task), Turned(h),
         PollMarked(h)',
         LET new == record'[root[h].task.index] IN
         /\ new.state = "active" => new.completion = "none" /\ ~new.cleanupCalled
         /\ new.state = "completed" => new.completion # "none"
  PROVE  Accounts' /\ \A g \in Roots \ {h} : Unseen(g)
<1>0. PICK i \in Index : i = root[h].task.index
  BY TaskTypes
<1>1. i \in Index /\ i < len /\ len \in Nat /\ i \in Nat
  BY <1>0, TaskTypes DEF Occupied
<1>2. SlotOwned(i)
  BY <1>1 DEF Accounts
<1>3. \A g \in Roots : SameRoot(g)
  BY DEF Turned
<1>4. /\ record'[i].owner = record[i].owner
      /\ record'[i].state = "vacant" <=> record[i].state = "vacant"
      /\ generation'[i] = generation[i]
      /\ len' = len
  BY <1>0, <1>1 DEF Turned
<1>5. SlotOwned(i)'
  BY <1>0, <1>1, <1>2, <1>3, <1>4 DEF SlotOwned, SameRoot
<1>6. /\ \A g \in Roots : OutcomeKept(g)'
      /\ \A g \in Roots \ {h} : PollMarked(g)' /\ Unseen(g)
      /\ \A j \in Index \ {i} : SlotOwned(j)'
  BY <1>0, TurnedOthers
<1>7. /\ \A j \in Index : SlotOwned(j)'
      /\ \A g \in Roots : PollMarked(g)'
  BY <1>5, <1>6
<1> QED
  BY <1>6, <1>7 DEF Accounts

(* A poll enters resume. *)
LEMMA EnterStep ==
  ASSUME TypeOK, Inv, Accounts, NEW h \in Roots, Poll(h), PollResume(h)
  PROVE  Accounts' /\ At(h, "enter")
<1> DEFINE i == root[h].task.index
<1> USE TaskTypes
<1>1. /\ Born(h) /\ Outcome(h) = "pending" /\ Occupied(root[h].task)
      /\ record[i].state = "active" /\ i \in Index
  BY ActivePending DEF PollResume, Active
<1>2. root[h].phase = "idle"
  BY DEF Poll
<1>3. ~Resuming(h)
  BY <1>2 DEF Resuming, Inv, ResumesPolling
<1>4. Resuming(h)' /\ \A g \in Roots \ {h} : Resuming(g)' <=> Resuming(g)
  <2>1. Pushed(Call("resume", h))
    BY Shapes, CallIsFrame DEF PollResume, FrameOp
  <2> QED
    BY <2>1, EntryCalled
<1>5. /\ root \in RootType /\ fate \in FateType
  BY DEF TypeOK, RootType, FateType
<1>6. /\ \A g \in Roots : SameRoot(g) /\ fate'[g].cleanups = fate[g].cleanups
      /\ \A g \in Roots \ {h} : root'[g].phase = root[g].phase
      /\ root'[h].phase = "polling"
  BY <1>2, <1>5 DEF PollResume, SameRoot, Born, RootType, FateType
<1>7. /\ record'[i].state = "active" /\ record'[i].polling
      /\ record'[i].completion = record[i].completion
      /\ record'[i].owner = record[i].owner
      /\ record'[i].cleanupCalled = record[i].cleanupCalled
      /\ \A j \in Index \ {i} : record'[j] = record[j]
  <2>1. record' = [record EXCEPT ![i] = PollMark(record[i], home[h])]
    BY DEF PollResume
  <2>2. record[i] \in TaskRecord
    BY <1>1
  <2> QED
    BY <1>1, <2>1, <2>2 DEF PollMark, TaskRecord
<1>8. UNCHANGED <<len, generation>>
  BY DEF Poll
<1>9. Turned(h)
  BY <1>1, <1>4, <1>6, <1>7, <1>8 DEF Turned, SameRecord
<1>10. Occupied(root[h].task)' /\ Active(root[h].task)'
  BY <1>1, <1>6, <1>7, <1>8 DEF Occupied, Active, SameRoot
<1>11. PollMarked(h)'
  BY <1>4, <1>6, <1>7, <1>10 DEF PollMarked, SameRoot
<1>12. Accounts' /\ \A g \in Roots \ {h} : Unseen(g)
  <2>1. SlotOwned(i)
    BY <1>1 DEF Accounts
  <2> QED
    BY <1>1, <1>7, <1>9, <1>11, <2>1, TurnedAccounts DEF Inv, IdInv, SlotOwned
<1>13. Outcome(h)' = "pending"
  BY <1>1, <1>6, <1>7 DEF Outcome, SameRoot
<1> QED
  BY <1>1, <1>3, <1>4, <1>6, <1>12, <1>13 DEF At

(* Resume returns on a root still active. *)
LEMMA LeaveStep ==
  ASSUME TypeOK, Inv, Accounts, NEW h \in Roots, ResumeReturns(h), ResumePending(h) \/ ResumeReady(h)
  PROVE  Accounts' /\ At(h, "leave")
<1> DEFINE i == root[h].task.index
<1> USE TaskTypes
<1>1. /\ Born(h) /\ Outcome(h) = "pending" /\ Occupied(root[h].task)
      /\ record[i].state = "active" /\ i \in Index
  BY ActivePending DEF ResumePending, ResumeReady, Active
<1>2. /\ stack # <<>> /\ Top.op = "resume" /\ Top.root = h /\ Popped
  BY Shapes DEF ResumeReturns, ResumePending, ResumeReady
<1>3. Resuming(h)
  BY <1>2, Shapes DEF Resuming
<1>4. ~Resuming(h)' /\ \A g \in Roots \ {h} : Resuming(g)' <=> Resuming(g)
  BY <1>2, EntryLeft DEF Inv
<1>5. /\ root \in RootType /\ fate \in FateType
  BY DEF TypeOK, RootType, FateType
<1>6. /\ \A g \in Roots : SameRoot(g) /\ fate'[g].cleanups = fate[g].cleanups
      /\ \A g \in Roots \ {h} : root'[g].phase = root[g].phase
      /\ root'[h].phase = IF ResumePending(h) THEN "idle" ELSE "terminal"
  <2>1. root[h].phase # "unborn"
    BY <1>1 DEF Born
  <2>2. CASE ResumePending(h)
    BY <1>5, <2>1, <2>2 DEF ResumePending, SameRoot, Born, RootType
  <2>3. CASE ResumeReady(h) /\ ~ResumePending(h)
    BY <1>5, <2>1, <2>3 DEF ResumeReady, SameRoot, Born, RootType, FateType
  <2> QED
    BY <2>2, <2>3
<1>7. /\ record'[i].owner = record[i].owner
      /\ ~record'[i].polling
      /\ record'[i].cleanupCalled = record[i].cleanupCalled
      /\ \A j \in Index \ {i} : record'[j] = record[j]
      /\ IF ResumePending(h)
         THEN record'[i].state = "active" /\ record'[i].completion = record[i].completion
         ELSE record'[i].state = "completed" /\ record'[i].completion = "Runtime"
  <2>1. record' = [record EXCEPT ![i] = IF ResumePending(h) THEN PendingRecord(record[i])
                                        ELSE Completed(record[i], "Runtime")]
    BY DEF ResumePending, ResumeReady
  <2>2. record[i] \in TaskRecord
    BY <1>1
  <2> HIDE DEF ResumePending
  <2> QED
    BY <1>1, <2>1, <2>2 DEF PendingRecord, Completed, TaskRecord
<1> HIDE DEF ResumePending
<1>8. UNCHANGED <<len, generation>>
  BY DEF ResumeReturns
<1>9. Turned(h)
  BY <1>1, <1>4, <1>6, <1>7, <1>8 DEF Turned, SameRecord
<1>10. PollMarked(h)'
  BY <1>4, <1>6, <1>7 DEF PollMarked, SameRoot, Active
<1>11. Accounts' /\ \A g \in Roots \ {h} : Unseen(g)
  <2>1. SlotOwned(i)
    BY <1>1 DEF Accounts
  <2> QED
    BY <1>1, <1>7, <1>9, <1>10, <2>1, TurnedAccounts DEF Inv, IdInv, SlotOwned
<1>12. Outcome(h)' \in {"pending", "Runtime"}
  <2>1. fate[h].taken = "none"
    BY <1>1 DEF Accounts, OutcomeKept
  <2> QED
    BY <1>1, <1>6, <1>7, <2>1 DEF Outcome, SameRoot
<1> QED
  BY <1>1, <1>3, <1>4, <1>6, <1>11, <1>12 DEF At

(* Resume returns on a root that shutdown completed meanwhile, or whose     *)
(* completion was even taken.                                              *)
LEMMA UnwindStep ==
  ASSUME TypeOK, Inv, Accounts, NEW h \in Roots, ResumeReturns(h), ResumeOvertaken(h)
  PROVE  /\ Accounts' /\ (~TakeDuringPoll => At(h, "unwind"))
         /\ Outcome(h)' = Outcome(h) /\ ~Resuming(h)'
         /\ \A g \in Roots \ {h} : Unseen(g)
<1> USE TaskTypes
<1>0. PICK i \in Index : i = root[h].task.index
  OBVIOUS
<1>1. stack # <<>> /\ Top.op = "resume" /\ Top.root = h /\ ~Active(root[h].task)
  BY DEF ResumeReturns, ResumeOvertaken
<1>2. Resuming(h)
  BY <1>1, Shapes DEF Resuming
<1>3. ~Resuming(h)' /\ \A g \in Roots \ {h} : Resuming(g)' <=> Resuming(g)
  <2>1. Popped \/ Swapped(Call("cleanup", h))
    BY <1>1, Shapes, CallIsFrame DEF ResumeOvertaken, FrameOp
  <2> QED
    BY <1>1, <2>1, EntryLeft DEF Inv
<1>4. /\ root \in RootType /\ fate \in FateType
  BY DEF TypeOK, RootType, FateType
<1>5. root[h].phase = "polling"
  BY <1>1, Shapes DEF Inv, ResumesPolling
<1>6. /\ \A g \in Roots : SameRoot(g)
      /\ \A g \in Roots \ {h} : /\ root'[g].phase = root[g].phase
                                /\ fate'[g].cleanups = fate[g].cleanups
      /\ root'[h].phase \in {"settling", "terminal"}
      /\ fate'[h].cleanups = IF CleanupDeferred(root[h].task) THEN fate[h].cleanups + 1
                             ELSE fate[h].cleanups
  BY <1>4, <1>5 DEF ResumeOvertaken, SameRoot, Born, RootType, FateType
<1>7. UNCHANGED <<len, generation>>
  BY DEF ResumeReturns
<1>8. CASE CleanupDeferred(root[h].task)
  <2>1. Occupied(root[h].task) /\ record[i].state = "completed" /\ Born(h)
    <3>1. Occupied(root[h].task) /\ record[i].state # "vacant" /\ record[i].state # "active"
      BY <1>0, <1>1, <1>8 DEF CleanupDeferred, Occupied, Active
    <3>2. record[i] \in TaskRecord
      OBVIOUS
    <3> QED
      BY <3>1, <3>2, UnbornUnoccupied DEF TaskRecord
  <2>2. /\ record'[i].state = "completed"
        /\ record'[i].completion = record[i].completion
        /\ record'[i].owner = record[i].owner
        /\ \A j \in Index \ {i} : record'[j] = record[j]
    <3>1. record' = [record EXCEPT ![i].cleanupCalled = TRUE]
      BY <1>0, <1>8 DEF ResumeOvertaken
    <3>2. record[i] \in TaskRecord /\ i \in DOMAIN record
      OBVIOUS
    <3> QED
      BY <2>1, <3>1, <3>2 DEF TaskRecord
  <2>3. Turned(h)
    BY <1>0, <1>3, <1>6, <1>7, <2>1, <2>2 DEF Turned, SameRecord
  <2>4. PollMarked(h)'
    BY <1>0, <1>3, <1>6, <2>2 DEF PollMarked, SameRoot, Active
  <2>5. Accounts' /\ \A g \in Roots \ {h} : Unseen(g)
    <3>1. SlotOwned(i)
      BY DEF Accounts
    <3> QED
      BY <1>0, <2>1, <2>2, <2>3, <2>4, <3>1, TurnedAccounts DEF Inv, IdInv, SlotOwned
  <2>6. Outcome(h)' = Outcome(h)
    BY <1>0, <1>6, <2>1, <2>2 DEF Outcome, SameRoot
  <2>7. ASSUME ~TakeDuringPoll PROVE At(h, "unwind")
    <3>1. record[i].completion = "Shutdown" /\ fate[h].taken = "none"
      BY <1>0, <1>1, <1>2, <2>1, <2>7 DEF Accounts, PollMarked, OutcomeKept
    <3>2. Outcome(h) = "Shutdown" /\ Outcome(h)' = "Shutdown"
      BY <1>0, <1>6, <2>1, <2>2, <3>1 DEF Outcome, SameRoot
    <3> QED
      BY <1>2, <1>3, <1>6, <1>8, <2>5, <3>2 DEF At
  <2> QED
    BY <1>3, <2>5, <2>6, <2>7
<1>9. CASE ~CleanupDeferred(root[h].task)
  <2>1. TakeDuringPoll
    BY <1>1, <1>2, <1>9, ConstantsAssumption DEF Accounts, PollMarked, CleanupDeferred
  <2>2. UNCHANGED record
    BY <1>9 DEF ResumeOvertaken
  <2>3. \A g \in Roots : /\ Occupied(root[g].task)' <=> Occupied(root[g].task)
                         /\ Active(root[g].task)' <=> Active(root[g].task)
    BY <1>6, <1>7, <2>2 DEF Occupied, Active, SameRoot
  <2>4. ASSUME NEW j \in Index PROVE SlotOwned(j)'
    BY <1>6, <1>7, <2>2 DEF Accounts, SlotOwned, SameRoot
  <2>5. \A g \in Roots : OutcomeKept(g)'
    BY <1>6, <2>3 DEF Accounts, OutcomeKept, SameRoot
  <2>6. PollMarked(h)'
    BY <1>1, <1>3, <1>6, <2>3 DEF PollMarked
  <2>7. ASSUME NEW g \in Roots, g # h PROVE PollMarked(g)'
    <3>1. /\ Resuming(g)' <=> Resuming(g)
          /\ root'[g].phase = root[g].phase /\ root'[g].task = root[g].task
          /\ Active(root[g].task)' <=> Active(root[g].task)
          /\ Occupied(root[g].task)' <=> Occupied(root[g].task)
      BY <1>3, <1>6, <2>3, <2>7 DEF SameRoot
    <3>2. PollMarked(g)
      BY DEF Accounts
    <3> QED
      BY <2>2, <3>1, <3>2 DEF PollMarked
  <2>8. \A g \in Roots : PollMarked(g)'
    BY <2>6, <2>7
  <2>9. \A g \in Roots : Outcome(g)' = Outcome(g)
    BY <1>6, <2>2 DEF Outcome, SameRoot
  <2>10. \A g \in Roots \ {h} : Unseen(g)
    BY <1>3, <1>6, <2>9 DEF Unseen
  <2> QED
    BY <1>3, <2>1, <2>4, <2>5, <2>8, <2>9, <2>10 DEF Accounts
<1> QED
  BY <1>8, <1>9

(* A root is dropped: an active one is released, any other just ends. *)
LEMMA DropStep ==
  ASSUME TypeOK, Inv, Accounts, NEW h \in Roots, DropRoot(h)
  PROVE  Accounts' /\ ((\A g \in Roots : Unseen(g)) \/ At(h, "abandon"))
<1> USE TaskTypes
<1>0. PICK i \in Index : i = root[h].task.index
  OBVIOUS
<1>1. /\ root \in RootType /\ fate \in FateType
  BY DEF TypeOK, RootType, FateType
<1>2. UNCHANGED <<len, generation>>
  BY DEF DropRoot
<1>3. CASE root[h].phase = "idle" /\ Active(root[h].task)
  <2>1. /\ Born(h) /\ Outcome(h) = "pending" /\ Occupied(root[h].task)
        /\ record[i].state = "active"
    BY <1>0, <1>3, ActivePending DEF Active
  <2>2. ~Resuming(h)
    BY <1>3 DEF Resuming, Inv, ResumesPolling
  <2>3. \A g \in Roots : Resuming(g)' <=> Resuming(g)
    <3>1. Call("cleanup", h) \in Frame /\ Call("cleanup", h).op # "resume"
      BY CallIsFrame DEF FrameOp, Call
    <3>2. Pushed(Call("cleanup", h))
      BY <1>3, <3>1, Shapes DEF DropRoot
    <3> QED
      BY <3>1, <3>2, SameEntries
  <2>4. /\ \A g \in Roots : SameRoot(g)
        /\ \A g \in Roots \ {h} : /\ root'[g].phase = root[g].phase
                                  /\ fate'[g].cleanups = fate[g].cleanups
        /\ root'[h].phase = "dropping"
        /\ fate'[h].cleanups = fate[h].cleanups + 1
    <3>1. /\ root' = [root EXCEPT ![h].phase = "dropping"]
          /\ fate' = [fate EXCEPT ![h].cleanups = @ + 1]
      BY <1>3 DEF DropRoot
    <3> QED
      BY <1>1, <1>3, <3>1 DEF SameRoot, Born, RootType, FateType
  <2>5. /\ record'[i].state = "completed" /\ record'[i].completion = "Dropped"
        /\ record'[i].owner = record[i].owner
        /\ \A j \in Index \ {i} : record'[j] = record[j]
    <3>1. record' = [record EXCEPT
                       ![i] = [Completed(record[i], "Dropped") EXCEPT !.cleanupCalled = TRUE]]
      BY <1>0, <1>3 DEF DropRoot
    <3>2. record[i] \in TaskRecord
      OBVIOUS
    <3> QED
      BY <3>1, <3>2 DEF Completed, TaskRecord
  <2>6. Turned(h)
    BY <1>0, <1>2, <2>1, <2>3, <2>4, <2>5 DEF Turned, SameRecord
  <2>7. PollMarked(h)'
    BY <1>0, <2>2, <2>3, <2>4, <2>5 DEF PollMarked, SameRoot, Active
  <2>8. Accounts' /\ \A g \in Roots \ {h} : Unseen(g)
    BY <1>0, <2>1, <2>5, <2>6, <2>7, TurnedAccounts DEF Inv, IdInv
  <2>9. Outcome(h)' = "Dropped"
    <3>1. fate[h].taken = "none"
      BY <2>1 DEF Accounts, OutcomeKept
    <3> QED
      BY <1>0, <2>1, <2>4, <2>5, <3>1 DEF Outcome, SameRoot
  <2> QED
    BY <2>1, <2>2, <2>3, <2>4, <2>8, <2>9 DEF At
<1>4. CASE ~(root[h].phase = "idle" /\ Active(root[h].task))
  <2>1. UNCHANGED <<record, stack, fate>> /\ root' = [root EXCEPT ![h].phase = "gone"]
    BY <1>4 DEF DropRoot
  <2>2. \A j \in Index : SameRecord(j)
    BY <1>2, <2>1 DEF SameRecord
  <2>3. \A g \in Roots : Resuming(g)' <=> Resuming(g)
    BY <2>1 DEF Resuming
  <2>4. ASSUME NEW g \in Roots
        PROVE  /\ SameRoot(g)
               /\ root'[g].phase = "polling" => root[g].phase = "polling"
               /\ Active(root[g].task) /\ root[g].phase \in {"idle", "polling"} =>
                    root'[g].phase \in {"idle", "polling"}
    BY <1>1, <1>4, <2>1 DEF DropRoot, SameRoot, Born, RootType
  <2>5. Quiet
    BY <1>2, <2>1, <2>2, <2>3, <2>4 DEF Quiet
  <2> QED
    BY <2>5, QuietAccounts
<1> QED
  BY <1>3, <1>4

(* Shutdown completes a root: one that is suspended is released on the      *)
(* spot, one inside its resume when that returns.                          *)
LEMMA VisitStep ==
  ASSUME TypeOK, Inv, Accounts, ShutdownVisits
  PROVE  Accounts' /\ \E h \in Roots : At(h, "abandon") \/ At(h, "interrupt")
<1> USE TaskTypes
<1>1. PICK i \in ActiveFrom(Top.at) :
           /\ record' = [record EXCEPT
                ![i] = [Completed(record[i], "Shutdown") EXCEPT
                          !.cleanupCalled = @ \/ CleansAtShutdown(record[i])]]
           /\ fate' = IF CleansAtShutdown(record[i])
                      THEN [fate EXCEPT ![record[i].owner].cleanups = @ + 1] ELSE fate
           /\ Visited(i)
  BY VisitShape
<1>2. i \in Index /\ record[i].state = "active"
  BY DEF ActiveFrom
<1>3. PICK h \in Roots : h = record[i].owner
  BY <1>2, OwnerOf
<1>4. root[h].task.index = i /\ Active(root[h].task)
  BY <1>2, <1>3, OwnerOf
<1>5. Born(h) /\ Outcome(h) = "pending" /\ Occupied(root[h].task)
  BY <1>4, ActivePending
<1>6. record[i].polling <=> Resuming(h)
  BY <1>4 DEF Accounts, PollMarked
<1>7. \A g \in Roots : Resuming(g)' <=> Resuming(g)
  BY <1>1, <1>2, SameEntries DEF ShutdownVisits
<1>8. ~record[i].cleanupCalled /\ record[i] \in TaskRecord
  BY <1>2 DEF Accounts, SlotOwned
<1>9. CleansAtShutdown(record[i]) <=> ~Resuming(h)
  BY <1>6, <1>8 DEF CleansAtShutdown
<1>10. UNCHANGED <<len, generation, root>>
  BY DEF ShutdownVisits
<1>11. /\ \A g \in Roots : SameRoot(g)
       /\ \A g \in Roots \ {h} : fate'[g].cleanups = fate[g].cleanups
       /\ fate'[h].cleanups = IF Resuming(h) THEN fate[h].cleanups ELSE fate[h].cleanups + 1
  <2>1. fate \in FateType
    BY DEF TypeOK, FateType
  <2>2. fate' = IF ~Resuming(h) THEN [fate EXCEPT ![h].cleanups = @ + 1] ELSE fate
    BY <1>1, <1>3, <1>9
  <2> HIDE DEF Resuming
  <2> QED
    BY <1>10, <2>1, <2>2 DEF SameRoot, Born, FateType
<1>12. /\ record'[i].state = "completed" /\ record'[i].completion = "Shutdown"
       /\ record'[i].owner = record[i].owner
       /\ record'[i].cleanupCalled <=> ~Resuming(h)
       /\ \A j \in Index \ {i} : record'[j] = record[j]
  <2>2. /\ Completed(record[i], "Shutdown") \in TaskRecord
        /\ Completed(record[i], "Shutdown").state = "completed"
        /\ Completed(record[i], "Shutdown").completion = "Shutdown"
        /\ Completed(record[i], "Shutdown").owner = record[i].owner
        /\ ~Completed(record[i], "Shutdown").cleanupCalled
    BY <1>8 DEF Completed, TaskRecord, Completion
  <2> DEFINE done == Completed(record[i], "Shutdown")
             cleans == done.cleanupCalled \/ CleansAtShutdown(record[i])
  <2>3. record'[i] = [done EXCEPT !.cleanupCalled = cleans]
        /\ \A j \in Index \ {i} : record'[j] = record[j]
    <3>1. \A j \in Index \ {i} : record'[j] = record[j]
      BY <1>1, <1>2
    <3>2. record'[i] = [Completed(record[i], "Shutdown") EXCEPT
                          !.cleanupCalled = @ \/ CleansAtShutdown(record[i])]
      BY <1>1, <1>2
    <3>3. record'[i] = [done EXCEPT !.cleanupCalled = @ \/ CleansAtShutdown(record[i])]
      BY <3>2
    <3> QED
      BY <3>1, <3>3
  <2>4. cleans <=> ~Resuming(h)
    BY <1>9, <2>2
  <2> HIDE DEF done, cleans
  <2>5. done \in TaskRecord /\ done.state = "completed" /\ done.completion = "Shutdown"
        /\ done.owner = record[i].owner
    BY <2>2 DEF done
  <2>6. record'[i].cleanupCalled = cleans
    BY <2>3, <2>5 DEF TaskRecord
  <2>7. record'[i].cleanupCalled <=> ~Resuming(h)
    BY <2>4, <2>6, Zenon
  <2> QED
    BY <2>3, <2>5, <2>7 DEF TaskRecord
<1>13. Turned(h)
  BY <1>2, <1>4, <1>7, <1>10, <1>11, <1>12 DEF Turned, SameRecord
<1>14. PollMarked(h)'
  <2>1. root[h].phase = "polling" => Resuming(h)
    BY DEF Accounts, PollMarked
  <2>2. ~Active(root[h].task)' /\ Occupied(root[h].task)'
    BY <1>4, <1>5, <1>10, <1>12 DEF Active, Occupied
  <2> QED
    BY <1>4, <1>7, <1>10, <1>12, <2>1, <2>2 DEF PollMarked
<1>15. Accounts' /\ \A g \in Roots \ {h} : Unseen(g)
  BY <1>4, <1>5, <1>12, <1>13, <1>14, TurnedAccounts DEF Inv, IdInv
<1>16. Outcome(h)' = "Shutdown"
  <2>1. fate[h].taken = "none"
    BY <1>5 DEF Accounts, OutcomeKept
  <2> QED
    BY <1>4, <1>5, <1>10, <1>11, <1>12, <2>1 DEF Outcome, SameRoot
<1>17. At(h, "abandon") \/ At(h, "interrupt")
  <2>1. CASE Resuming(h)
    BY <1>5, <1>7, <1>11, <1>15, <1>16, <2>1 DEF At
  <2>2. CASE ~Resuming(h)
    BY <1>5, <1>7, <1>11, <1>15, <1>16, <2>2 DEF At
  <2> QED
    BY <2>1, <2>2
<1> QED
  BY <1>15, <1>17

(* A root is submitted: the slot it gets was vacant. *)
LEMMA SubmitStep ==
  ASSUME TypeOK, Inv, Accounts, NEW h \in Roots, SubmitRoot(h)
  PROVE  Accounts' /\ At(h, "submit")
<1> USE TaskTypes
<1>1. PICK i \in Index :
        /\ \/ /\ free # <<>>
              /\ i = free[Len(free)]
              /\ UNCHANGED <<len, generation>>
           \/ /\ i = len
              /\ len' = len + 1
              /\ generation' = [generation EXCEPT ![i] = 1]
        /\ record' = [record EXCEPT ![i] = Fresh(h)]
        /\ root' = [root EXCEPT
             ![h] = [task |-> [index |-> i, generation |-> generation'[i]],
                     phase |-> "idle"]]
  BY DEF SubmitRoot
<1>2. /\ root[h].phase = "unborn" /\ ~Born(h)
      /\ UNCHANGED <<stack, fate>>
  BY DEF SubmitRoot, Born
<1>3. free # <<>> => Len(free) \in 1 .. Len(free)
  BY DEF TypeOK
<1>4. record[i].state = "vacant"
  <2>1. CASE free # <<>> /\ i = free[Len(free)]
    BY <1>3, <2>1 DEF Inv, IdInv, FreeSlots
  <2>2. CASE i = len
    <3>1. SlotOwned(i)
      BY DEF Accounts
    <3>2. i >= len
      BY <2>2
    <3> QED
      BY <3>1, <3>2 DEF SlotOwned
  <2> QED
    BY <1>1, <2>1, <2>2
<1>5. /\ i < len' /\ len' \in Nat /\ generation'[i] \in Nat /\ generation'[i] >= 1
      /\ \A j \in Index \ {i} : generation'[j] = generation[j] /\ (j < len' <=> j < len)
  <2>1. CASE free # <<>> /\ i = free[Len(free)] /\ UNCHANGED <<len, generation>>
    <3>1. i < len
      BY <1>3, <2>1 DEF Inv, IdInv, FreeSlots
    <3>2. generation[i] >= 1
      BY <3>1 DEF Accounts, SlotOwned
    <3> QED
      BY <2>1, <3>1, <3>2
  <2>2. CASE i = len /\ len' = len + 1 /\ generation' = [generation EXCEPT ![i] = 1]
    <3>1. generation'[i] = 1 /\ \A j \in Index \ {i} : generation'[j] = generation[j]
      BY <2>2
    <3>2. i \in Nat /\ len' \in Nat /\ i < len'
      BY <2>2
    <3>3. \A j \in Index \ {i} : j \in Nat /\ j # len /\ (j < len + 1 <=> j < len)
      BY <2>2
    <3> QED
      BY <2>2, <3>1, <3>2, <3>3
  <2> QED
    BY <1>1, <2>1, <2>2
<1>6. /\ record'[i].state = "active" /\ record'[i].completion = "none"
      /\ record'[i].owner = h
      /\ ~record'[i].polling /\ ~record'[i].cleanupCalled
      /\ \A j \in Index \ {i} : record'[j] = record[j]
  BY <1>1 DEF Fresh, Vacant
<1>7. /\ root'[h].task.index = i /\ root'[h].task.generation = generation'[i]
      /\ root'[h].task = [index |-> i, generation |-> generation'[i]]
      /\ root'[h].phase = "idle"
      /\ \A g \in Roots \ {h} : root'[g] = root[g]
  <2>1. root \in RootType
    BY DEF TypeOK, RootType
  <2> QED
    BY <1>1, <2>1 DEF RootType
<1>8. \A g \in Roots : Resuming(g)' <=> Resuming(g)
  BY <1>2 DEF Resuming
<1>9. ~Resuming(h)
  BY <1>2 DEF Resuming, Inv, ResumesPolling
<1>10. ASSUME NEW j \in Index PROVE SlotOwned(j)'
  <2>1. CASE j = i
    BY <1>5, <1>6, <1>7, <2>1 DEF SlotOwned, Born
  <2>2. CASE j # i
    <3>1. /\ record'[j] = record[j] /\ generation'[j] = generation[j]
          /\ j < len' <=> j < len
          /\ j >= len <=> ~(j < len)
          /\ j >= len' <=> ~(j < len')
      BY <1>5, <1>6, <2>2
    <3>2. SlotOwned(j)
      BY DEF Accounts
    <3>3. ASSUME record[j].state # "vacant" PROVE record[j].owner # h
      BY <1>2, <3>2, <3>3 DEF SlotOwned
    <3> QED
      BY <1>7, <3>1, <3>2, <3>3 DEF SlotOwned, Born
  <2> QED
    BY <2>1, <2>2
<1>11. ASSUME NEW g \in Roots, g # h
       PROVE  /\ Occupied(root[g].task)' <=> Occupied(root[g].task)
              /\ Occupied(root[g].task) => root[g].task.index # i
  <2>1. Occupied(root[g].task) => root[g].task.index # i
    BY <1>4 DEF Occupied
  <2>2. CASE root[g].task.index # i
    BY <1>5, <1>6, <1>7, <1>11, <2>2 DEF Occupied
  <2>3. CASE root[g].task.index = i
    <3>1. root[g].task.generation # generation'[i]
      <4>1. CASE Born(g) /\ free # <<>> /\ i = free[Len(free)] /\ UNCHANGED <<len, generation>>
        <5>1. root[g].task.generation < generation[i]
          BY <1>3, <2>3, <4>1 DEF Inv, IdInv, FreeSlots
        <5> QED
          BY <4>1, <5>1
      <4>2. CASE Born(g) /\ i = len
        BY <2>3, <4>2 DEF Inv, IdInv, IssuedIds
      <4>3. CASE ~Born(g)
        <5>1. root[g].task.generation = 0
          BY <4>3 DEF Accounts, OutcomeKept
        <5> QED
          BY <1>5, <5>1
      <4> QED
        BY <1>1, <4>1, <4>2, <4>3
    <3> QED
      BY <1>7, <1>11, <2>1, <2>3, <3>1 DEF Occupied
  <2> QED
    BY <2>1, <2>2, <2>3
<1>12. ASSUME NEW g \in Roots, g # h PROVE OutcomeKept(g)' /\ PollMarked(g)' /\ Unseen(g)
  <2>1. /\ root'[g] = root[g] /\ (Born(g)' <=> Born(g))
        /\ Occupied(root[g].task)' <=> Occupied(root[g].task)
        /\ Occupied(root[g].task) => record'[root[g].task.index] = record[root[g].task.index]
        /\ fate'[g] = fate[g] /\ (Resuming(g)' <=> Resuming(g))
    BY <1>2, <1>6, <1>7, <1>8, <1>11, <1>12 DEF Born
  <2>2. Active(root[g].task)' <=> Active(root[g].task)
    BY <2>1 DEF Active
  <2>3. OutcomeKept(g) /\ PollMarked(g)
    BY DEF Accounts
  <2>4. OutcomeKept(g)'
    BY <2>1, <2>3 DEF OutcomeKept
  <2>5. PollMarked(g)'
    <3>1. Active(root[g].task) => Occupied(root[g].task)
      BY DEF Active
    <3> QED
      BY <2>1, <2>2, <2>3, <3>1 DEF PollMarked
  <2>6. Outcome(g)' = Outcome(g)
    BY <2>1, <2>3 DEF Outcome, OutcomeKept
  <2> QED
    BY <2>1, <2>4, <2>5, <2>6 DEF Unseen
<1>13. /\ Born(h)' /\ Occupied(root[h].task)' /\ Active(root[h].task)'
       /\ fate[h].taken = "none" /\ UNCHANGED fate
  BY <1>2, <1>5, <1>6, <1>7 DEF Born, Occupied, Active, Accounts, OutcomeKept
<1>14. OutcomeKept(h)' /\ PollMarked(h)'
  BY <1>6, <1>7, <1>8, <1>9, <1>13 DEF OutcomeKept, PollMarked
<1>15. Outcome(h) = "unsubmitted" /\ Outcome(h)' = "pending"
  BY <1>2, <1>6, <1>7, <1>13 DEF Outcome
<1>16. \A g \in Roots : OutcomeKept(g)' /\ PollMarked(g)'
  BY <1>12, <1>14
<1>17. At(h, "submit")
  BY <1>2, <1>8, <1>12, <1>15 DEF At
<1> QED
  BY <1>10, <1>16, <1>17 DEF Accounts

(* A completion is taken and its slot retired: the contract sees nothing. *)
LEMMA TakeStep ==
  ASSUME TypeOK, Inv, Accounts, NEW h \in Roots, TakeCompletion(h)
  PROVE  Accounts' /\ \A g \in Roots : Unseen(g)
<1> USE TaskTypes
<1>1. PICK i \in Index : i = root[h].task.index
  OBVIOUS
<1>2. /\ Occupied(root[h].task) /\ record[i].state = "completed"
      /\ Born(h) /\ i < len
  BY <1>1, UnbornUnoccupied DEF TakeCompletion, Occupied
<1>3. /\ UNCHANGED <<len, root, stack>>
      /\ record' = [record EXCEPT ![i] = Vacant]
      /\ fate' = [fate EXCEPT ![h].taken = record[i].completion]
      /\ \/ UNCHANGED generation
         \/ generation' = [generation EXCEPT ![i] = @ + 1]
  BY <1>1 DEF TakeCompletion, NextGeneration
<1>4. record[i].completion # "none"
  BY <1>2 DEF Accounts, SlotOwned
<1>5. /\ \A j \in Index \ {i} : record'[j] = record[j] /\ generation'[j] = generation[j]
      /\ record'[i].state = "vacant" /\ record'[i] = Vacant
      /\ generation'[i] \in {generation[i], generation[i] + 1}
  BY <1>3 DEF Vacant
<1>6. /\ fate'[h].taken = record[i].completion
      /\ \A g \in Roots : fate'[g].cleanups = fate[g].cleanups
      /\ \A g \in Roots \ {h} : fate'[g].taken = fate[g].taken
  <2>1. fate \in FateType
    BY DEF TypeOK, FateType
  <2> QED
    BY <1>3, <2>1 DEF FateType
<1>7. \A g \in Roots : (Resuming(g)' <=> Resuming(g)) /\ (Born(g)' <=> Born(g))
  BY <1>3 DEF Resuming, Born
<1>8. ASSUME NEW j \in Index PROVE SlotOwned(j)'
  <2>1. SlotOwned(j)
    BY DEF Accounts
  <2>2. CASE j = i
    BY <1>2, <1>3, <1>5, <2>1, <2>2 DEF SlotOwned
  <2>3. CASE j # i
    BY <1>3, <1>5, <1>7, <2>1, <2>3 DEF SlotOwned
  <2> QED
    BY <2>2, <2>3
<1>9. ~Occupied(root[h].task)' /\ ~Active(root[h].task)'
  BY <1>1, <1>3, <1>5 DEF Occupied, Active
<1>10. OutcomeKept(h)'
  BY <1>2, <1>4, <1>6, <1>7, <1>9 DEF OutcomeKept
<1>11. PollMarked(h)'
  <2>1. ~TakeDuringPoll => root[h].phase # "polling"
    BY DEF TakeCompletion
  <2>2. Resuming(h) => root[h].phase = "polling"
    BY DEF Resuming, Inv, ResumesPolling
  <2>3. root[h].phase = "polling" => Resuming(h)
    BY DEF Accounts, PollMarked
  <2> QED
    BY <1>3, <1>7, <1>9, <2>1, <2>2, <2>3 DEF PollMarked
<1>12. Outcome(h)' = Outcome(h)
  <2>1. fate[h].taken = "none"
    BY <1>2 DEF Accounts, OutcomeKept
  <2> QED
    BY <1>1, <1>2, <1>4, <1>6, <1>7, <2>1 DEF Outcome
<1>13. ASSUME NEW g \in Roots, g # h PROVE OutcomeKept(g)' /\ PollMarked(g)' /\ Unseen(g)
  <2>1. Born(g) /\ Occupied(root[g].task) => root[g].task.index # i
    BY <1>1, <1>2, <1>13, ActiveApart DEF Inv, IdInv
  <2>2. Occupied(root[g].task) => Born(g)
    BY UnbornUnoccupied
  <2>3. /\ Occupied(root[g].task)' <=> Occupied(root[g].task)
        /\ Occupied(root[g].task) => record'[root[g].task.index] = record[root[g].task.index]
    BY <1>3, <1>5, <2>1, <2>2 DEF Occupied
  <2>4. /\ Active(root[g].task)' <=> Active(root[g].task)
        /\ Active(root[g].task) => Occupied(root[g].task)
    BY <1>3, <2>3 DEF Active
  <2>5. /\ OutcomeKept(g) /\ PollMarked(g) /\ root'[g] = root[g]
        /\ fate'[g].taken = fate[g].taken /\ fate'[g].cleanups = fate[g].cleanups
        /\ (Resuming(g)' <=> Resuming(g)) /\ (Born(g)' <=> Born(g))
    BY <1>3, <1>6, <1>7, <1>13 DEF Accounts
  <2>6. OutcomeKept(g)'
    BY <2>3, <2>5 DEF OutcomeKept
  <2>7. PollMarked(g)'
    BY <2>3, <2>4, <2>5 DEF PollMarked
  <2>8. Outcome(g)' = Outcome(g)
    BY <2>3, <2>5 DEF Outcome, OutcomeKept
  <2> QED
    BY <2>5, <2>6, <2>7, <2>8 DEF Unseen
<1>14. Unseen(h)
  BY <1>6, <1>7, <1>12 DEF Unseen
<1>15. \A g \in Roots : OutcomeKept(g)' /\ PollMarked(g)' /\ Unseen(g)
  BY <1>10, <1>11, <1>13, <1>14
<1> QED
  BY <1>8, <1>15 DEF Accounts

-----------------------------------------------------------------------------
(* Every step *)

LEMMA AccountsInit == Init => Accounts /\ Draining
<1> SUFFICES ASSUME Init PROVE Accounts /\ Draining
  OBVIOUS
<1>1. \A h \in Roots : /\ ~Born(h) /\ root[h].phase = "unborn" /\ root[h].task.generation = 0
                       /\ ~Active(root[h].task) /\ ~Resuming(h) /\ fate[h].taken = "none"
  BY DEF Init, Born, Active, Occupied, NoTask, Resuming
<1>2. \A i \in Index : record[i].state = "vacant" /\ ~(i < len)
  BY ConstantsAssumption DEF Init, Vacant, Index
<1>3. stack = <<>> /\ shutdown = FALSE
  BY DEF Init
<1> QED
  BY <1>1, <1>2, <1>3 DEF Accounts, SlotOwned, OutcomeKept, PollMarked, Draining

LEMMA AccountsStep ==
  TypeOK /\ Inv /\ Accounts /\ [Next]_vars => Accounts' /\ Contractual
<1> SUFFICES ASSUME TypeOK, Inv, Accounts, [Next]_vars PROVE Accounts' /\ Contractual
  OBVIOUS
<1>1. ASSUME NEW h \in Roots, SubmitRoot(h) PROVE Accounts' /\ Contractual
  BY <1>1, SubmitStep DEF Contractual, ContractSteps
<1>2. ASSUME NEW h \in Roots, TakeCompletion(h) PROVE Accounts' /\ Contractual
  BY <1>2, TakeStep DEF Contractual
<1>3. ASSUME NEW h \in Roots, Poll(h) PROVE Accounts' /\ Contractual
  <2>1. CASE PollResume(h)
    BY <1>3, <2>1, EnterStep DEF Contractual, ContractSteps
  <2>2. CASE PollSettled(h)
    BY <1>3, <2>2, QuietSteps, QuietAccounts DEF Contractual
  <2> QED
    BY <1>3, <2>1, <2>2 DEF Poll
<1>4. ASSUME NEW h \in Roots, ResumeReturns(h) PROVE Accounts' /\ Contractual
  <2>1. CASE ResumeOvertaken(h)
    BY <1>4, <2>1, UnwindStep DEF Contractual, ContractSteps
  <2>2. CASE ResumePending(h) \/ ResumeReady(h)
    BY <1>4, <2>2, LeaveStep DEF Contractual, ContractSteps
  <2> QED
    BY <1>4, <2>1, <2>2 DEF ResumeReturns
<1>5. ASSUME NEW h \in Roots, DropRoot(h) PROVE Accounts' /\ Contractual
  BY <1>5, DropStep DEF Contractual, ContractSteps
<1>6. CASE ShutdownVisits
  BY <1>6, VisitStep DEF Contractual, ContractSteps
<1>7. ASSUME NEW h \in Roots, Wake(h) \/ RequestCancel(h) \/ Rehome(h)
      PROVE  Accounts' /\ Contractual
  BY <1>7, QuietSteps, QuietAccounts DEF Contractual
<1>8. ASSUME NEW h \in Roots, NEW r \in 0 .. MaxRequests, NEW x \in {"Observe", "Acknowledge"},
             CancelTransition(h, r, x)
      PROVE  Accounts' /\ Contractual
  BY <1>8, QuietSteps, QuietAccounts DEF Contractual
<1>9. ASSUME NEW tm \in Timers, NEW h \in Roots, RegisterTimer(tm, h)
      PROVE  Accounts' /\ Contractual
  BY <1>9, QuietSteps, QuietAccounts DEF Contractual
<1>10. ASSUME NEW tm \in Timers, TimerCallback(tm) \/ CancelTimer(tm)
       PROVE  Accounts' /\ Contractual
  BY <1>10, QuietSteps, QuietAccounts DEF Contractual
<1>11. CASE \/ CleanupReturns \/ ShutdownBegins \/ ShutdownReturns
            \/ SignalWaker \/ WakerReturns \/ UNCHANGED vars
  BY <1>11, QuietSteps, QuietAccounts DEF Contractual
<1> QED
  BY <1>1, <1>2, <1>3, <1>4, <1>5, <1>6, <1>7, <1>8, <1>9, <1>10, <1>11 DEF Next, RootStep

(* No slot becomes active, no walk of shutdown starts, moves or ends. *)
Undrained ==
  /\ shutdown' = shutdown
  /\ \A i \in Index : record'[i].state = "active" => record[i].state = "active"
  /\ \/ Unstacked
     \/ \E f \in Frame : Pushed(f) /\ f.op # "shutdown"
     \/ Popped /\ Top.op # "shutdown"
     \/ \E f \in Frame : Swapped(f) /\ f.op # "shutdown" /\ Top.op # "shutdown"

LEMMA UndrainedKeeps ==
  ASSUME TypeOK, Draining, Undrained
  PROVE  Draining'
<1> DEFINE n == Len(stack)
           m == Len(stack')
<1>1. n \in Nat /\ (stack # <<>> => n \in 1 .. n /\ Top = stack[n])
  BY Shapes
<1>2. /\ \A k \in 1 .. m : stack'[k].op = "shutdown" => k \in 1 .. n /\ stack'[k] = stack[k]
      /\ \A k \in 1 .. n : stack[k].op = "shutdown" => k \in 1 .. m /\ stack'[k] = stack[k]
  <2>1. CASE Unstacked
    BY <1>1, <2>1 DEF Unstacked
  <2>2. ASSUME NEW f \in Frame, Pushed(f), f.op # "shutdown" PROVE <1>2
    <3>1. m = n + 1 /\ stack'[n + 1] = f /\ \A k \in 1 .. n : stack'[k] = stack[k]
      BY <2>2 DEF Pushed
    <3> HIDE DEF n, m
    <3> QED
      BY <1>1, <2>2, <3>1
  <2>3. CASE Popped /\ Top.op # "shutdown"
    <3>1. m = n - 1 /\ stack # <<>> /\ \A k \in 1 .. n - 1 : stack'[k] = stack[k]
      BY <2>3 DEF Popped
    <3> HIDE DEF n, m
    <3> QED
      BY <1>1, <2>3, <3>1
  <2>4. ASSUME NEW f \in Frame, Swapped(f), f.op # "shutdown", Top.op # "shutdown" PROVE <1>2
    <3>1. /\ m = n /\ stack # <<>> /\ stack'[n] = f
          /\ \A k \in 1 .. n - 1 : stack'[k] = stack[k]
      BY <2>4 DEF Swapped
    <3> HIDE DEF n, m
    <3> QED
      BY <1>1, <2>4, <3>1
  <2> QED
    BY <2>1, <2>2, <2>3, <2>4 DEF Undrained
<1>3. /\ \A j, k \in 1 .. n :
           stack[j].op = "shutdown" /\ stack[k].op = "shutdown" => shutdown /\ j = k
      /\ shutdown => \A i \in Index : record[i].state = "active" =>
           \E k \in 1 .. n : stack[k].op = "shutdown" /\ stack[k].at <= i
  BY DEF Draining
<1>4. /\ shutdown' = shutdown
      /\ \A i \in Index : record'[i].state = "active" => record[i].state = "active"
  BY DEF Undrained
<1> HIDE DEF n, m
<1>5. \A j, k \in 1 .. m :
        stack'[j].op = "shutdown" /\ stack'[k].op = "shutdown" => shutdown' /\ j = k
  BY <1>2, <1>3, <1>4
<1>6. ASSUME shutdown', NEW i \in Index, record'[i].state = "active"
      PROVE  \E k \in 1 .. m : stack'[k].op = "shutdown" /\ stack'[k].at <= i
  <2>1. PICK k \in 1 .. n : stack[k].op = "shutdown" /\ stack[k].at <= i
    BY <1>3, <1>4, <1>6
  <2> QED
    BY <1>2, <2>1
<1> QED
  BY <1>5, <1>6 DEF Draining, m

(* The steps that leave shutdown alone. *)
LEMMA UndrainedSteps ==
  ASSUME TypeOK, Inv, Accounts, [Next]_vars
  PROVE  \/ Undrained
         \/ \E h \in Roots : SubmitRoot(h)
         \/ ShutdownBegins \/ ShutdownVisits \/ ShutdownReturns
<1> USE TaskTypes
<1>1. ASSUME Quiet PROVE \A i \in Index : record'[i].state = "active" => record[i].state = "active"
  BY <1>1 DEF Quiet, SameRecord
<1>2. ASSUME Quiet, shutdown' = shutdown, stack' = stack PROVE Undrained
  BY <1>1, <1>2, Shapes DEF Undrained
<1>3. ASSUME NEW h \in Roots, Wake(h) \/ RequestCancel(h) \/ Rehome(h) \/ (Poll(h) /\ PollSettled(h))
      PROVE  Undrained
  <2>1. Quiet
    BY <1>3, QuietSteps
  <2>2. shutdown' = shutdown /\ stack' = stack
    BY <1>3 DEF Wake, RequestCancel, Rehome, Poll, PollSettled, arenaVars
  <2> QED
    BY <1>2, <2>1, <2>2
<1>4. ASSUME NEW h \in Roots, NEW r \in 0 .. MaxRequests, NEW x \in {"Observe", "Acknowledge"},
             CancelTransition(h, r, x)
      PROVE  Undrained
  BY <1>2, <1>4, QuietSteps DEF CancelTransition
<1>5. ASSUME NEW tm \in Timers, NEW h \in Roots, RegisterTimer(tm, h) PROVE Undrained
  BY <1>2, <1>5, QuietSteps DEF RegisterTimer, arenaVars
<1>6. ASSUME NEW tm \in Timers, TimerCallback(tm) \/ CancelTimer(tm) PROVE Undrained
  <2>1. Quiet
    BY <1>6, QuietSteps
  <2>2. shutdown' = shutdown /\ stack' = stack
    BY <1>6 DEF TimerCallback, CancelTimer, arenaVars
  <2> QED
    BY <1>2, <2>1, <2>2
<1>7. CASE UNCHANGED vars
  BY <1>2, <1>7, QuietSteps DEF vars, arenaVars
<1>8. CASE CleanupReturns \/ WakerReturns
  <2>1. Quiet
    BY <1>8, QuietSteps
  <2>2. shutdown' = shutdown /\ Popped /\ Top.op # "shutdown"
    BY <1>8, Shapes DEF CleanupReturns, WakerReturns, arenaVars
  <2> QED
    BY <1>1, <2>1, <2>2 DEF Undrained
<1>9. CASE SignalWaker
  <2>1. Quiet
    BY <1>9, QuietSteps
  <2>2. stack # <<>> /\ Top.op = "signal" /\ Top.root \in Roots \cup {NoRoot}
    BY <1>9, Shapes DEF SignalWaker, Frame
  <2>3. Call("waker", Top.root) \in Frame /\ Call("waker", Top.root).op = "waker"
    BY <2>2, CallIsFrame DEF FrameOp, Call
  <2>4. shutdown' = shutdown /\ Swapped(Call("waker", Top.root))
    BY <1>9, <2>2, <2>3, Shapes DEF SignalWaker, arenaVars
  <2> QED
    BY <1>1, <2>1, <2>2, <2>3, <2>4 DEF Undrained
<1>10. ASSUME NEW h \in Roots, Poll(h), PollResume(h) PROVE Undrained
  <2>1. Call("resume", h) \in Frame /\ Call("resume", h).op = "resume"
    BY CallIsFrame DEF FrameOp, Call
  <2>2. Pushed(Call("resume", h)) /\ shutdown' = shutdown
    BY <1>10, <2>1, Shapes DEF Poll, PollResume
  <2>3. \A i \in Index : record'[i].state = "active" => record[i].state = "active"
    BY <1>10 DEF PollResume, Active
  <2> QED
    BY <2>1, <2>2, <2>3 DEF Undrained
<1>11. ASSUME NEW h \in Roots, ResumeReturns(h) PROVE Undrained
  <2>1. stack # <<>> /\ Top.op = "resume" /\ shutdown' = shutdown
    BY <1>11 DEF ResumeReturns
  <2>2. Call("cleanup", h) \in Frame /\ Call("cleanup", h).op = "cleanup"
    BY CallIsFrame DEF FrameOp, Call
  <2>3. Popped \/ Swapped(Call("cleanup", h))
    BY <1>11, <2>1, <2>2, Shapes DEF ResumeReturns, ResumeOvertaken, ResumePending, ResumeReady
  <2>4. \A i \in Index : record'[i].state = "active" => record[i].state = "active"
    <3>1. CASE ResumeOvertaken(h)
      <4>1. \/ record' = record
            \/ record' = [record EXCEPT ![root[h].task.index].cleanupCalled = TRUE]
        BY <3>1 DEF ResumeOvertaken
      <4> QED
        BY <4>1 DEF TaskRecord
    <3>2. CASE ResumePending(h) \/ ResumeReady(h)
      BY <3>2 DEF ResumePending, ResumeReady, Active
    <3> QED
      BY <1>11, <3>1, <3>2 DEF ResumeReturns
  <2> QED
    BY <2>1, <2>2, <2>3, <2>4 DEF Undrained
<1>12. ASSUME NEW h \in Roots, DropRoot(h) PROVE Undrained
  <2>1. Call("cleanup", h) \in Frame /\ Call("cleanup", h).op = "cleanup"
    BY CallIsFrame DEF FrameOp, Call
  <2>2. CASE root[h].phase = "idle" /\ Active(root[h].task)
    <3>1. Pushed(Call("cleanup", h)) /\ shutdown' = shutdown
      BY <1>12, <2>1, <2>2, Shapes DEF DropRoot
    <3>2. \A i \in Index : record'[i].state = "active" => record[i].state = "active"
      BY <1>12, <2>2 DEF DropRoot, Active
    <3> QED
      BY <2>1, <3>1, <3>2 DEF Undrained
  <2>3. CASE ~(root[h].phase = "idle" /\ Active(root[h].task))
    BY <1>12, <2>3, Shapes DEF DropRoot, Undrained
  <2> QED
    BY <2>2, <2>3
<1>13. ASSUME NEW h \in Roots, TakeCompletion(h) PROVE Undrained
  <2>1. \A i \in Index : record'[i].state = "active" => record[i].state = "active"
    BY <1>13 DEF TakeCompletion, Vacant
  <2> QED
    BY <1>13, <2>1, Shapes DEF TakeCompletion, Undrained
<1> QED
  BY <1>3, <1>4, <1>5, <1>6, <1>7, <1>8, <1>9, <1>10, <1>11, <1>12, <1>13
  DEF Next, RootStep, Poll

LEMMA DrainingStep ==
  TypeOK /\ Inv /\ Accounts /\ Draining /\ [Next]_vars => Draining'
<1> SUFFICES ASSUME TypeOK, Inv, Accounts, Draining, [Next]_vars PROVE Draining'
  OBVIOUS
<1> USE TaskTypes
<1> DEFINE n == Len(stack)
           m == Len(stack')
<1>1. /\ \A j, k \in 1 .. n :
           stack[j].op = "shutdown" /\ stack[k].op = "shutdown" => shutdown /\ j = k
      /\ shutdown => \A i \in Index : record[i].state = "active" =>
           \E k \in 1 .. n : stack[k].op = "shutdown" /\ stack[k].at <= i
  BY DEF Draining
<1>2. n \in Nat /\ (stack # <<>> => n \in 1 .. n /\ n >= 1 /\ Top = stack[n] /\ Top \in Frame)
  BY Shapes
<1>3. ASSUME NEW h \in Roots, SubmitRoot(h) PROVE Draining'
  BY <1>3 DEF SubmitRoot, Accepting, Draining
<1>4. CASE ShutdownBegins
  <2>1. Pushed(Call("shutdown", NoRoot)) /\ ~shutdown /\ shutdown' = TRUE
    BY <1>4, Shapes, CallIsFrame DEF ShutdownBegins, FrameOp
  <2>2. /\ m = n + 1 /\ stack'[m].op = "shutdown" /\ stack'[m].at = 0
        /\ \A k \in 1 .. n : stack'[k] = stack[k]
    BY <2>1 DEF Pushed, Call
  <2> HIDE DEF n, m
  <2>3. \A k \in 1 .. m : stack'[k].op = "shutdown" => k = m
    BY <1>1, <1>2, <2>1, <2>2
  <2>4. m \in 1 .. m /\ \A i \in Index : 0 <= i
    BY <1>2, <2>2 DEF Index
  <2>5. /\ \A j, k \in 1 .. m :
             stack'[j].op = "shutdown" /\ stack'[k].op = "shutdown" => shutdown' /\ j = k
        /\ \A i \in Index : \E k \in 1 .. m : stack'[k].op = "shutdown" /\ stack'[k].at <= i
    BY <2>1, <2>2, <2>3, <2>4
  <2> QED
    BY <2>5 DEF Draining, m
<1>5. CASE ShutdownVisits
  <2>1. PICK i \in ActiveFrom(Top.at) :
           /\ \A j \in ActiveFrom(Top.at) : i <= j
           /\ record' = [record EXCEPT
                ![i] = [Completed(record[i], "Shutdown") EXCEPT
                          !.cleanupCalled = @ \/ CleansAtShutdown(record[i])]]
           /\ Visited(i)
    BY <1>5, VisitShape
  <2>2. stack # <<>> /\ Top.op = "shutdown" /\ shutdown' = shutdown
    BY <1>5 DEF ShutdownVisits
  <2>3. shutdown
    BY <1>1, <1>2, <2>2
  <2>4. i \in Index /\ record[i].state = "active"
    BY DEF ActiveFrom
  <2>5. record'[i].state # "active" /\ \A j \in Index \ {i} : record'[j] = record[j]
    BY <2>1, <2>4 DEF Completed, TaskRecord
  <2>6. /\ m \in n .. n + 2
        /\ \A k \in 1 .. n - 1 : stack'[k] = stack[k]
        /\ stack'[n].op = "shutdown" /\ stack'[n].at = i + 1
        /\ \A k \in n + 1 .. m : stack'[k].op # "shutdown"
    BY <2>1 DEF Visited
  <2>7. ASSUME NEW j \in Index, record'[j].state = "active" PROVE i + 1 <= j
    <3>1. j # i /\ record[j].state = "active"
      BY <2>5, <2>7
    <3>2. Top.at <= j
      BY <1>1, <1>2, <2>2, <2>3, <3>1
    <3>3. j < len
      <4>1. SlotOwned(j)
        BY DEF Accounts
      <4> QED
        BY <3>1, <4>1 DEF SlotOwned
    <3>4. j >= Top.at
      BY <1>2, <2>2, <3>2 DEF Frame
    <3>5. i <= j
      BY <2>1, <3>1, <3>3, <3>4 DEF ActiveFrom
    <3> QED
      BY <2>4, <3>1, <3>5
  <2> HIDE DEF n, m
  <2>8. \A k \in 1 .. m : stack'[k].op = "shutdown" => k = n
    <3>1. \A k \in 1 .. m : k \in 1 .. n - 1 \/ k = n \/ k \in n + 1 .. m
      BY <1>2, <2>6
    <3>2. \A k \in 1 .. n - 1 : stack[k].op # "shutdown"
      BY <1>1, <1>2, <2>2
    <3> QED
      BY <2>6, <3>1, <3>2
  <2>9. n \in 1 .. m
    BY <1>2, <2>2, <2>6
  <2>10. /\ \A j, k \in 1 .. m :
             stack'[j].op = "shutdown" /\ stack'[k].op = "shutdown" => shutdown' /\ j = k
         /\ \A j \in Index : record'[j].state = "active" =>
              \E k \in 1 .. m : stack'[k].op = "shutdown" /\ stack'[k].at <= j
    BY <2>2, <2>3, <2>6, <2>7, <2>8, <2>9
  <2> QED
    BY <2>10 DEF Draining, m
<1>6. CASE ShutdownReturns
  <2>1. /\ stack # <<>> /\ Top.op = "shutdown" /\ ActiveFrom(Top.at) = {} /\ Popped
        /\ shutdown' = shutdown /\ record' = record
    BY <1>6, Shapes DEF ShutdownReturns, arenaVars
  <2>2. shutdown
    BY <1>1, <1>2, <2>1
  <2>3. ASSUME NEW j \in Index, record[j].state = "active" PROVE FALSE
    <3>1. Top.at <= j
      BY <1>1, <1>2, <2>1, <2>2, <2>3
    <3>2. j < len
      <4>1. SlotOwned(j)
        BY DEF Accounts
      <4> QED
        BY <2>3, <4>1 DEF SlotOwned
    <3>3. j >= Top.at
      BY <1>2, <2>1, <3>1 DEF Frame
    <3> QED
      BY <2>1, <2>3, <3>2, <3>3 DEF ActiveFrom
  <2>4. m = n - 1 /\ \A k \in 1 .. n - 1 : stack'[k] = stack[k]
    BY <2>1 DEF Popped
  <2> HIDE DEF n, m
  <2>5. \A k \in 1 .. m : stack'[k].op # "shutdown"
    BY <1>1, <1>2, <2>1, <2>4
  <2> QED
    BY <2>1, <2>3, <2>5 DEF Draining, m
<1> QED
  BY <1>3, <1>4, <1>5, <1>6, UndrainedSteps, UndrainedKeeps

(* Every reachable state accounts for its roots and its walk of shutdown. *)
THEOREM AccountsKept == Spec => [](Accounts /\ Draining)
<1>1. Spec => [](TypeOK /\ Inv)
  BY TypeCorrect, Invariance, PTL
<1> QED
  BY <1>1, AccountsInit, AccountsStep, DrainingStep, PTL DEF Spec

(* Once shutdown has returned nothing is active, however its cleanup        *)
(* callbacks and wakers re-enter the facade while it walks the slots.      *)
THEOREM ShutdownLeavesNothing == Spec => []ShutdownDrains
<1>1. Draining => ShutdownDrains
  BY DEF Draining, ShutdownDrains
<1> QED
  BY <1>1, AccountsKept, PTL

-----------------------------------------------------------------------------
(* The arena implements RootContract                                       *)

(* The contract's variables after a step that touches one root, or none. *)
LEMMA Seen ==
  ASSUME NEW h \in Roots, \A g \in Roots \ {h} : Unseen(g)
  PROVE  /\ \A o : Outcome(h)' = o =>
              [g \in Roots |-> Outcome(g)]' = [[g \in Roots |-> Outcome(g)] EXCEPT ![h] = o]
         /\ (Resuming(h)' <=> Resuming(h)) =>
              [g \in Roots |-> Resuming(g)]' = [g \in Roots |-> Resuming(g)]
         /\ Resuming(h)' =>
              [g \in Roots |-> Resuming(g)]' = [[g \in Roots |-> Resuming(g)] EXCEPT ![h] = TRUE]
         /\ ~Resuming(h)' =>
              [g \in Roots |-> Resuming(g)]' = [[g \in Roots |-> Resuming(g)] EXCEPT ![h] = FALSE]
         /\ \A c : fate'[h].cleanups = c =>
              [g \in Roots |-> fate[g].cleanups]'
                = [[g \in Roots |-> fate[g].cleanups] EXCEPT ![h] = c]
<1>1. \A g \in Roots \ {h} : /\ Outcome(g)' = Outcome(g)
                             /\ Resuming(g)' = Resuming(g)
                             /\ fate'[g].cleanups = fate[g].cleanups
  BY DEF Unseen, Resuming
<1>2. /\ Resuming(h)' \in BOOLEAN
      /\ Resuming(h) \in BOOLEAN
  BY DEF Resuming
<1>3. ASSUME NEW o, Outcome(h)' = o
      PROVE  [g \in Roots |-> Outcome(g)]' = [[g \in Roots |-> Outcome(g)] EXCEPT ![h] = o]
  BY <1>1, <1>3
<1>4. ASSUME Resuming(h)' <=> Resuming(h)
      PROVE  [g \in Roots |-> Resuming(g)]' = [g \in Roots |-> Resuming(g)]
  <2>1. Resuming(h)' = Resuming(h)
    BY <1>2, <1>4
  <2>2. \A g \in Roots : Resuming(g)' = Resuming(g)
    BY <1>1, <2>1
  <2> QED
    BY <2>2, Zenon
<1>5. ASSUME NEW b \in BOOLEAN, Resuming(h)' = b
      PROVE  [g \in Roots |-> Resuming(g)]' = [[g \in Roots |-> Resuming(g)] EXCEPT ![h] = b]
  <2>1. \A g \in Roots : Resuming(g)' = IF g = h THEN b ELSE Resuming(g)
    BY <1>1, <1>5, Zenon
  <2>2. [g \in Roots |-> Resuming(g)]' = [g \in Roots |-> IF g = h THEN b ELSE Resuming(g)]
    BY <2>1, Zenon
  <2>3. [[g \in Roots |-> Resuming(g)] EXCEPT ![h] = b]
          = [g \in Roots |-> IF g = h THEN b ELSE Resuming(g)]
    BY Zenon
  <2> QED
    BY <2>2, <2>3, Zenon
<1>6. /\ Resuming(h)' => Resuming(h)' = TRUE
      /\ ~Resuming(h)' => Resuming(h)' = FALSE
  BY <1>2
<1>7. ASSUME NEW c, fate'[h].cleanups = c
      PROVE  [g \in Roots |-> fate[g].cleanups]'
               = [[g \in Roots |-> fate[g].cleanups] EXCEPT ![h] = c]
  BY <1>1, <1>7
<1> QED
  BY <1>3, <1>4, <1>5, <1>6, <1>7, Zenon

LEMMA StepMaps ==
  ASSUME NEW h \in Roots, NEW step \in ContractSteps, At(h, step)
  PROVE  Contract!Next
<1> DEFINE O == [g \in Roots |-> Outcome(g)]
           R == [g \in Roots |-> Resuming(g)]
           C == [g \in Roots |-> fate[g].cleanups]
<1>1. \A g \in Roots \ {h} : Unseen(g)
  BY DEF At
<1>2. /\ \A o : Outcome(h)' = o => O' = [O EXCEPT ![h] = o]
      /\ (Resuming(h)' <=> Resuming(h)) => R' = R
      /\ Resuming(h)' => R' = [R EXCEPT ![h] = TRUE]
      /\ ~Resuming(h)' => R' = [R EXCEPT ![h] = FALSE]
      /\ \A c : fate'[h].cleanups = c => C' = [C EXCEPT ![h] = c]
  BY <1>1, Seen
<1>3. O[h] = Outcome(h) /\ C[h] = fate[h].cleanups
  OBVIOUS
<1>4. R[h] <=> Resuming(h)
  OBVIOUS
<1>5. (fate'[h].cleanups = fate[h].cleanups => C' = C) /\ (Outcome(h)' = Outcome(h) => O' = O)
  <2>1. [C EXCEPT ![h] = C[h]] = C /\ [O EXCEPT ![h] = O[h]] = O
    OBVIOUS
  <2> QED
    BY <1>2, <1>3, <2>1
<1> HIDE DEF O, R, C
<1>6. /\ step = "submit" => Contract!Submit(h)
      /\ step = "enter" => Contract!Enter(h)
  <2>1. CASE step = "submit"
    <3>1. O[h] = "unsubmitted" /\ O' = [O EXCEPT ![h] = "pending"] /\ R' = R /\ C' = C
      BY <1>2, <1>3, <1>5, <2>1 DEF At
    <3> QED
      BY <2>1, <3>1 DEF O, R, C, Contract!Submit, Outcome
  <2>2. CASE step = "enter"
    <3>1. O[h] = "pending" /\ ~R[h] /\ O' = O /\ R' = [R EXCEPT ![h] = TRUE] /\ C' = C
      BY <1>2, <1>3, <1>4, <1>5, <2>2 DEF At
    <3> QED
      BY <2>2, <3>1 DEF O, R, C, Contract!Enter, Outcome
  <2> QED
    BY <2>1, <2>2
<1>7. CASE step = "leave"
  <2>1. /\ O[h] = "pending" /\ R[h] /\ R' = [R EXCEPT ![h] = FALSE] /\ C' = C
        /\ O' = O \/ O' = [O EXCEPT ![h] = "Runtime"]
    BY <1>2, <1>3, <1>4, <1>5, <1>7 DEF At
  <2> QED
    BY <1>7, <2>1 DEF O, R, C, Contract!Next, Contract!Leave, Outcome
<1>8. CASE step = "abandon"
  <2>1. /\ O[h] = "pending" /\ ~R[h] /\ R' = R /\ C' = [C EXCEPT ![h] = C[h] + 1]
        /\ \E kind \in {"Dropped", "Shutdown"} : O' = [O EXCEPT ![h] = kind]
    BY <1>2, <1>3, <1>4, <1>5, <1>8 DEF At
  <2> QED
    BY <1>8, <2>1 DEF O, R, C, Contract!Next, Contract!Abandon, Outcome
<1>9. CASE step = "interrupt"
  <2>1. /\ O[h] = "pending" /\ R[h] /\ R' = R /\ C' = C
        /\ O' = [O EXCEPT ![h] = "Shutdown"]
    BY <1>2, <1>3, <1>4, <1>5, <1>9 DEF At
  <2> QED
    BY <1>9, <2>1 DEF O, R, C, Contract!Next, Contract!Interrupt, Outcome
<1>10. CASE step = "unwind"
  <2>1. /\ O[h] = "Shutdown" /\ R[h] /\ R' = [R EXCEPT ![h] = FALSE]
        /\ C' = [C EXCEPT ![h] = C[h] + 1] /\ O' = O
    BY <1>2, <1>3, <1>4, <1>5, <1>10 DEF At
  <2> QED
    BY <1>10, <2>1 DEF O, R, C, Contract!Next, Contract!Unwind, Outcome
<1> QED
  BY <1>6, <1>7, <1>8, <1>9, <1>10 DEF ContractSteps, Contract!Next

LEMMA StutterMaps ==
  ASSUME \A g \in Roots : Unseen(g)
  PROVE  UNCHANGED Contract!vars
<1>1. [g \in Roots |-> Outcome(g)]' = [g \in Roots |-> Outcome(g)]
  BY DEF Unseen
<1>2. [g \in Roots |-> Resuming(g)]' = [g \in Roots |-> Resuming(g)]
  <2>1. \A g \in Roots : Resuming(g)' = Resuming(g)
    BY DEF Unseen, Resuming
  <2> QED
    BY <2>1, Zenon
<1>3. [g \in Roots |-> fate[g].cleanups]' = [g \in Roots |-> fate[g].cleanups]
  BY DEF Unseen
<1> QED
  BY <1>1, <1>2, <1>3 DEF Contract!vars, Outcome

LEMMA InitMaps == Init => Contract!Init
<1> SUFFICES ASSUME Init PROVE Contract!Init
  OBVIOUS
<1>1. \A h \in Roots : ~Born(h) /\ ~Resuming(h) /\ fate[h].cleanups = 0
  BY DEF Init, Born, Resuming
<1>2. \A h \in Roots : Resuming(h) = FALSE
  BY <1>1 DEF Resuming
<1>3. [h \in Roots |-> Resuming(h)] = [h \in Roots |-> FALSE]
  BY <1>2, Zenon
<1> QED
  BY <1>1, <1>3 DEF Contract!Init

(* The arena implements the contract: whatever slots, generations, wakers    *)
(* and re-entrant calls it goes through, each root gets one outcome, is     *)
(* resumed only while that is open, and if it did not finish by itself is   *)
(* released once, outside its resume.  A caller that takes a completion     *)
(* from under the resume that shutdown overtook forfeits the release.       *)
THEOREM ContractHolds == ~TakeDuringPoll => (Spec => ImplementsContract)
<1> SUFFICES ASSUME ~TakeDuringPoll PROVE Spec => ImplementsContract
  OBVIOUS
<1>1. TypeOK /\ Inv /\ Accounts /\ [Next]_vars => [Contract!Next]_Contract!vars
  <2> SUFFICES ASSUME TypeOK, Inv, Accounts, [Next]_vars
               PROVE  [Contract!Next]_Contract!vars
    OBVIOUS
  <2>1. Contractual
    BY AccountsStep
  <2> QED
    BY <2>1, StepMaps, StutterMaps DEF Contractual
<1>2. Spec => [](TypeOK /\ Inv /\ Accounts)
  BY TypeCorrect, Invariance, AccountsKept, PTL
<1> QED
  BY <1>1, <1>2, InitMaps, PTL DEF Spec, ImplementsContract, Contract!Spec
=============================================================================
