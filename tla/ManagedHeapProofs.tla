-------------------------- MODULE ManagedHeapProofs --------------------------
(***************************************************************************)
(* Proofs about ManagedHeap, for every program, number of slots and        *)
(* generations, and depth of nested calls: types; handles do not alias;    *)
(* hooks run once; a collection hands back the exception it found; what    *)
(* the program holds is never swept; finalizers run before references are  *)
(* cleared; a collection leaves nothing unreachable; a buffer is released  *)
(* after its last view.                                                    *)
(***************************************************************************)
EXTENDS ManagedHeap, FiniteSetTheorems, SequenceTheorems, TLAPS

(* A slot on the free list may be given out: its present handle was never  *)
(* issued.  An issued handle is at most the slot's present one.            *)
Givable(i) == object[i].kind = "free" /\ generation[i] > 0 /\ <<i, generation[i]>> \notin issued

SlotsKept ==
  /\ \A i \in Index : generation[i] = 0 => object[i].kind = "free"
  /\ \A h \in issued : h[2] <= generation[h[1]]
  /\ \A i \in Used : <<i, generation[i]>> \in issued
  /\ \A k \in DOMAIN free : Givable(free[k])
  /\ \A k, m \in DOMAIN free : free[k] = free[m] => k = m

IsLease(h) == h \in Handle /\ Alive(h) /\ At(h).kind = "lease"

(* Objects with an action to come are roots, and so are the leases of views *)
(* being allocated.                                                        *)
FrameKept(k) ==
  /\ \A n \in DOMAIN stack[k].todo : LET h == stack[k].todo[n] IN
       h # Null => h \in stack[k].temp /\ Alive(h)
  /\ stack[k].op \in {"acquire", "derive"} =>
       /\ \A h \in stack[k].temp : Alive(h)
       /\ \E l \in stack[k].temp : IsLease(l)

ViewsKept ==
  \A i \in Used : object[i].kind = "view" =>
    object[i].refs # {} /\ \A l \in object[i].refs : IsLease(l)

CallsKept == ViewsKept /\ \A k \in DOMAIN stack : FrameKept(k)

(* What shows that the hook of a living object has run. *)
HooksKept ==
  \A h \in Handle :
    /\ calls[h] <= 1
    /\ calls[h] = 1 => h \in issued
    /\ Alive(h) /\ calls[h] = 1 =>
         IF At(h).kind = "weakref" THEN At(h).weak = Null ELSE At(h).done

(* A weak reference is cleared when its callback is scheduled, so that      *)
(* happens once.                                                           *)
WeakrefsOnce ==
  \A k \in DOMAIN stack : \A n \in DOMAIN stack[k].todo :
    LET h == stack[k].todo[n] IN
    h # Null /\ At(h).kind = "weakref" =>
      /\ At(h).weak = Null
      /\ calls[h] = 0
      /\ \A m \in DOMAIN stack : \A p \in DOMAIN stack[m].todo :
           stack[m].todo[p] = h => m = k /\ p = n

(* A collection and the callback it waits for set the same exception aside. *)
ExceptionsNested ==
  /\ stack # <<>> /\ Top.op = "collect" => raised = Top.saved
  /\ \A k \in DOMAIN stack :
       k > 1 /\ stack[k - 1].op = "collect" =>
         stack[k].op = "callback" /\ stack[k].saved = stack[k - 1].saved

(* No used object, and nothing that code holds, refers to a swept object,   *)
(* unless an exception is pending while the program allocates.             *)
Solid ==
  ~program.raising =>
    /\ raised = Null
    /\ \A k \in DOMAIN stack : stack[k].saved = Null
    /\ \A h \in roots : Alive(h)
    /\ \A k \in DOMAIN stack : \A h \in stack[k].temp : Alive(h)
    /\ \A i \in Used : \A h \in object[i].refs : Alive(h)

Types == TypeOK /\ program \in Programs

-----------------------------------------------------------------------------
(* Operators *)

LEMMA Handles ==
  /\ Null \notin Handle
  /\ \A h \in Handle : h[1] \in Index /\ h[2] \in Nat \ {0} /\ h = <<h[1], h[2]>>
  /\ \A i \in Index : \A g \in 1 .. MaxGeneration : <<i, g>> \in Handle
  /\ IsFiniteSet(Index)
<1>1. IsFiniteSet(Index)
  BY FS_Interval, ConstantsAssumption DEF Index
<1> QED
  BY <1>1, ConstantsAssumption DEF Handle, Null, Index

(* A used slot has a generation of its own, so its handle is alive. *)
LEMMA UsedAlive ==
  ASSUME Types, SlotsKept, NEW i \in Used
  PROVE  HandleOf(i) \in Handle /\ Alive(HandleOf(i)) /\ At(HandleOf(i)) = object[i]
<1>1. generation[i] \in 1 .. MaxGeneration
  BY ConstantsAssumption DEF Types, TypeOK, SlotsKept, Used
<1> QED
  BY <1>1, Handles DEF Used, HandleOf, Alive, At

LEMMA BlankType ==
  ASSUME NEW kind \in Kind \cup {"free"}, NEW ordinal \in Nat
  PROVE  Blank(kind, ordinal) \in Object
  BY DEF Blank, Object

(* Marking reaches used slots only, the roots among them, and whatever they *)
(* refer to.                                                               *)
LEMMA MarkedProperties ==
  ASSUME NEW from, NEW pairs
  PROVE  /\ Marked(from, pairs) \subseteq Used
         /\ \A h \in from : Alive(h) => h[1] \in Marked(from, pairs)
         /\ \A i \in Marked(from, pairs) : \A h \in object[i].refs :
              Alive(h) => h[1] \in Marked(from, pairs)
<1> DEFINE start == {h[1] : h \in {g \in from : Alive(g)}}
           closed == {S \in SUBSET Used : start \subseteq S /\ Closed(S, pairs)}
<1>1. Marked(from, pairs) = {i \in Used : \A S \in closed : i \in S}
  BY DEF Marked
<1>2. ASSUME NEW h \in from, Alive(h) PROVE h[1] \in Marked(from, pairs)
  <2>1. h[1] \in Used /\ h[1] \in start
    BY <1>2 DEF Alive
  <2> QED
    BY <1>1, <2>1
<1>3. ASSUME NEW i \in Marked(from, pairs), NEW h \in object[i].refs, Alive(h)
      PROVE  h[1] \in Marked(from, pairs)
  <2>1. h[1] \in Used
    BY <1>3 DEF Alive
  <2>2. ASSUME NEW S \in closed PROVE h[1] \in S
    BY <1>1, <1>3, <2>2 DEF Closed
  <2> QED
    BY <1>1, <2>1, <2>2
<1> QED
  BY <1>1, <1>2, <1>3

(* The stack without its innermost call, and with another in its place. *)
LEMMA StackBelow ==
  ASSUME NEW S, stack \in Seq(S), stack # <<>>
  PROVE  /\ Below \in Seq(S) /\ Top \in S
         /\ Len(stack) \in DOMAIN stack /\ Top = stack[Len(stack)]
         /\ Len(Below) = Len(stack) - 1
         /\ \A k \in DOMAIN Below : k \in DOMAIN stack /\ Below[k] = stack[k]
<1> DEFINE n == Len(stack)
<1>1. n \in Nat \ {0} /\ DOMAIN stack = 1 .. n /\ \A k \in 1 .. n : stack[k] \in S
  OBVIOUS
<1>2. Below = SubSeq(stack, 1, n - 1) /\ Top = stack[n]
  BY DEF Below, Top
<1> HIDE DEF n
<1>3. /\ SubSeq(stack, 1, n - 1) \in Seq(S)
      /\ Len(SubSeq(stack, 1, n - 1)) = IF 1 <= n - 1 THEN (n - 1) - 1 + 1 ELSE 0
      /\ \A k \in 1 .. (n - 1) - 1 + 1 : SubSeq(stack, 1, n - 1)[k] = stack[1 + k - 1]
  <2>1. 1 \in Int /\ n - 1 \in Int /\ \A k \in 1 .. n - 1 : stack[k] \in S
    BY <1>1
  <2> QED
    BY <2>1, SubSeqProperties
<1>4. Len(Below) = n - 1 /\ Below \in Seq(S)
  BY <1>1, <1>2, <1>3
<1>5. DOMAIN Below = 1 .. n - 1
  BY <1>4
<1>6. ASSUME NEW k \in DOMAIN Below PROVE k \in DOMAIN stack /\ Below[k] = stack[k]
  BY <1>1, <1>2, <1>3, <1>5
<1> QED
  BY <1>1, <1>2, <1>4, <1>6 DEF n

-----------------------------------------------------------------------------
(* Shapes of steps *)

(* No object is allocated or swept. *)
Touched ==
  /\ \A i \in Index : object'[i].kind = object[i].kind
  /\ UNCHANGED <<generation, free, issued>>

(* An object is allocated in slot i. *)
Grown(i) ==
  /\ NextSlot(i)
  /\ object'[i].kind # "free"
  /\ \A j \in Index \ {i} : object'[j].kind = object[j].kind
  /\ generation' = [generation EXCEPT ![i] = IF free = <<>> THEN 1 ELSE @]
  /\ issued' = issued \cup {<<i, generation'[i]>>}
  /\ free' = IF free = <<>> THEN free ELSE SubSeq(free, 1, Len(free) - 1)

(* The objects outside `kept` are swept. *)
Swept(kept) ==
  /\ kept \subseteq Used
  /\ \A i \in kept : object'[i].kind = object[i].kind
  /\ \A i \in Index \ kept : object'[i].kind = "free"
  /\ generation' = [i \in Index |->
       IF i \in Used \ kept THEN SweptGeneration(generation[i]) ELSE generation[i]]
  /\ \E freed \in Listings({i \in Used \ kept : generation[i] # MaxGeneration}, BySlot) :
       free' = free \o freed
  /\ UNCHANGED issued

Shaped == Touched \/ (\E i \in Index : Grown(i)) \/ (\E kept \in SUBSET Used : Swept(kept))

(* The last free slot, and the list without it. *)
LEMMA FreeList ==
  ASSUME Types, free # <<>>
  PROVE  /\ Len(free) \in DOMAIN free /\ free[Len(free)] \in Index
         /\ DOMAIN SubSeq(free, 1, Len(free) - 1) = DOMAIN free \ {Len(free)}
         /\ \A k \in DOMAIN free \ {Len(free)} : SubSeq(free, 1, Len(free) - 1)[k] = free[k]
         /\ SubSeq(free, 1, Len(free) - 1) \in Seq(Index)
<1> DEFINE n == Len(free)
           s == SubSeq(free, 1, n - 1)
<1>1. n \in Nat \ {0} /\ DOMAIN free = 1 .. n /\ \A k \in 1 .. n : free[k] \in Index
  BY DEF Types, TypeOK
<1> HIDE DEF n
<1>2. /\ s \in Seq(Index)
      /\ Len(s) = IF 1 <= n - 1 THEN (n - 1) - 1 + 1 ELSE 0
      /\ \A k \in 1 .. (n - 1) - 1 + 1 : s[k] = free[1 + k - 1]
  <2>1. 1 \in Int /\ n - 1 \in Int /\ \A k \in 1 .. n - 1 : free[k] \in Index
    BY <1>1
  <2> QED
    BY <2>1, SubSeqProperties
<1> HIDE DEF s
<1>3. DOMAIN s = 1 .. n - 1
  BY <1>1, <1>2
<1>4. DOMAIN free \ {n} = 1 .. n - 1
  BY <1>1
<1>5. \A k \in 1 .. n - 1 : s[k] = free[k]
  BY <1>1, <1>2
<1> QED
  BY <1>1, <1>2, <1>3, <1>4, <1>5 DEF n, s

(* The slot of a new object holds none, and its handle was never issued. *)
LEMMA NewSlot ==
  ASSUME Types, SlotsKept, NEW i \in Index, NextSlot(i),
         generation' = [generation EXCEPT ![i] = IF free = <<>> THEN 1 ELSE @]
  PROVE  /\ object[i].kind = "free"
         /\ generation'[i] \in 1 .. MaxGeneration
         /\ <<i, generation'[i]>> \in Handle
         /\ \A g \in 1 .. MaxGeneration : <<i, g>> \in issued => g < generation'[i]
         /\ \A j \in Index \ {i} : generation'[j] = generation[j]
<1>1. CASE free = <<>>
  <2>1. generation[i] = 0 /\ generation'[i] = 1
    BY <1>1 DEF NextSlot, Types, TypeOK
  <2>2. \A g \in 1 .. MaxGeneration : <<i, g>> \notin issued
    BY <2>1 DEF SlotsKept
  <2> QED
    BY <2>1, <2>2, ConstantsAssumption, Handles DEF SlotsKept, Types, TypeOK
<1>2. CASE free # <<>>
  <2>1. Len(free) \in DOMAIN free /\ i = free[Len(free)] /\ generation'[i] = generation[i]
    BY <1>2, FreeList DEF NextSlot, Types, TypeOK
  <2>2. Givable(i)
    BY <2>1 DEF SlotsKept
  <2>3. generation[i] \in 1 .. MaxGeneration
    BY <2>2, ConstantsAssumption DEF Givable, Types, TypeOK
  <2>4. \A g \in 1 .. MaxGeneration : <<i, g>> \in issued => g <= generation[i] /\ g # generation[i]
    BY <2>2 DEF SlotsKept, Givable
  <2>5. \A g \in 1 .. MaxGeneration : <<i, g>> \in issued => g < generation[i]
    BY <2>3, <2>4
  <2>6. \A j \in Index \ {i} : generation'[j] = generation[j]
    BY DEF Types, TypeOK
  <2> QED
    BY <2>1, <2>2, <2>3, <2>5, <2>6, Handles DEF Givable
<1> QED
  BY <1>1, <1>2

LEMMA SlotsTouched == Types /\ SlotsKept /\ Touched => SlotsKept'
<1> SUFFICES ASSUME Types, SlotsKept, Touched PROVE SlotsKept'
  OBVIOUS
<1>1. Used' = Used
  BY DEF Touched, Used
<1>2. \A k \in DOMAIN free : free[k] \in Index
  BY DEF Types, TypeOK
<1>3. \A i \in Index : Givable(i) => Givable(i)'
  BY DEF Touched, Givable
<1>4. (\A k \in DOMAIN free : Givable(free[k]))'
  BY <1>2, <1>3 DEF SlotsKept, Touched
<1> QED
  BY <1>1, <1>4 DEF SlotsKept, Touched

LEMMA SlotsGrown ==
  ASSUME Types, SlotsKept, NEW i \in Index, Grown(i)
  PROVE  SlotsKept'
<1>1. /\ object[i].kind = "free"
      /\ generation'[i] \in 1 .. MaxGeneration
      /\ \A g \in 1 .. MaxGeneration : <<i, g>> \in issued => g < generation'[i]
      /\ \A j \in Index \ {i} : generation'[j] = generation[j]
  BY NewSlot DEF Grown
<1>2. issued' = issued \cup {<<i, generation'[i]>>} /\ issued \subseteq Handle
  BY DEF Grown, Types, TypeOK
<1>3. \A j \in Index : generation'[j] = 0 => object'[j].kind = "free"
  BY <1>1, ConstantsAssumption DEF Grown, SlotsKept
<1>4. \A h \in issued' : h[2] <= generation'[h[1]]
  <2> SUFFICES ASSUME NEW h \in issued PROVE h[2] <= generation'[h[1]]
    BY <1>1, <1>2
  <2>1. h[1] \in Index /\ h[2] \in 1 .. MaxGeneration /\ h = <<h[1], h[2]>>
    BY <1>2, Handles DEF Handle
  <2> QED
    BY <1>1, <2>1 DEF SlotsKept
<1>5. \A j \in Used' : <<j, generation'[j]>> \in issued'
  BY <1>1, <1>2 DEF Used, Grown, SlotsKept
<1>6. CASE free = <<>>
  BY <1>3, <1>4, <1>5, <1>6 DEF SlotsKept, Grown
<1>7. CASE free # <<>>
  <2>1. i = free[Len(free)] /\ Len(free) \in DOMAIN free
    BY <1>7, FreeList DEF Grown, NextSlot
  <2>2. DOMAIN free' = DOMAIN free \ {Len(free)} /\ \A k \in DOMAIN free' : free'[k] = free[k]
    BY <1>7, FreeList DEF Grown
  <2>3. \A k \in DOMAIN free' : free'[k] \in Index \ {i} /\ Givable(free'[k])
    BY <2>1, <2>2 DEF SlotsKept, Types, TypeOK
  <2>4. (\A k \in DOMAIN free : Givable(free[k]))'
    <3>1. \A j \in Index \ {i} : Givable(j) => Givable(j)'
      BY <1>1, <1>2 DEF Givable, Grown
    <3> QED
      BY <2>3, <3>1
  <2>5. \A k, m \in DOMAIN free' : free'[k] = free'[m] => k = m
    BY <2>2 DEF SlotsKept
  <2> QED
    BY <1>3, <1>4, <1>5, <2>4, <2>5 DEF SlotsKept
<1> QED
  BY <1>6, <1>7

(* A sequence as long as the set it covers has no repetitions. *)
LEMMA ListingProperties ==
  ASSUME NEW S \in SUBSET Index, NEW s \in [1 .. Cardinality(S) -> S],
         \A i \in S : \E k \in DOMAIN s : s[k] = i
  PROVE  /\ s \in Seq(S)
         /\ \A k, m \in DOMAIN s : s[k] = s[m] => k = m
<1>1. IsFiniteSet(S) /\ Cardinality(S) \in Nat
  BY Handles, FS_Subset, FS_CardinalityType
<1>2. s \in Seq(S)
  BY <1>1
<1>3. IsFiniteSet(1 .. Cardinality(S)) /\ Cardinality(1 .. Cardinality(S)) = Cardinality(S)
  BY <1>1, FS_Interval
<1>4. s \in Surjection(1 .. Cardinality(S), S)
  BY DEF Surjection
<1>5. s \in Injection(1 .. Cardinality(S), S)
  BY <1>3, <1>4, FS_Surjection
<1> QED
  BY <1>2, <1>5 DEF Injection, IsInjective

LEMMA SlotsSwept ==
  ASSUME Types, SlotsKept, NEW kept \in SUBSET Used, Swept(kept)
  PROVE  SlotsKept' /\ free' \in Seq(Index)
<1> DEFINE gone == {i \in Used \ kept : generation[i] # MaxGeneration}
<1>1. PICK freed \in Listings(gone, BySlot) : free' = free \o freed
  BY DEF Swept
<1>2. gone \in SUBSET Index /\ Used \subseteq Index
  BY DEF Used
<1>3. /\ freed \in Seq(gone)
      /\ \A k, m \in DOMAIN freed : freed[k] = freed[m] => k = m
  <2>1. freed \in [1 .. Cardinality(gone) -> gone] /\ \A i \in gone : \E k \in DOMAIN freed : freed[k] = i
    BY DEF Listings
  <2> QED
    BY <1>2, <2>1, ListingProperties
<1>4. /\ \A i \in Index : generation'[i] =
           IF i \in Used \ kept THEN SweptGeneration(generation[i]) ELSE generation[i]
      /\ Used' = kept
      /\ \A i \in Index : generation[i] \in 0 .. MaxGeneration
      /\ MaxGeneration \in Nat \ {0}
  BY ConstantsAssumption DEF Swept, Used, Types, TypeOK
<1>5. \A i \in Index : generation'[i] \in Nat /\ generation'[i] >= generation[i]
  BY <1>4 DEF SweptGeneration
<1>6. \A i \in gone : generation'[i] = generation[i] + 1
  BY <1>4 DEF SweptGeneration, Used
<1>7. \A i \in Index : generation'[i] = 0 => object'[i].kind = "free"
  BY <1>2, <1>4 DEF Swept, SlotsKept, SweptGeneration
<1>8. \A h \in issued' : h[2] <= generation'[h[1]]
  <2> SUFFICES ASSUME NEW h \in issued PROVE h[2] <= generation'[h[1]]
    BY DEF Swept
  <2>1. h[1] \in Index /\ h[2] \in Nat
    BY Handles DEF Types, TypeOK
  <2>2. h[2] <= generation[h[1]]
    BY DEF SlotsKept
  <2> QED
    BY <1>4, <1>5, <2>1, <2>2
<1>9. \A i \in Used' : <<i, generation'[i]>> \in issued'
  BY <1>2, <1>4 DEF SlotsKept, Swept
<1>10. ASSUME NEW j \in Index, Givable(j) \/ j \in gone
       PROVE  Givable(j)'
  <2>1. CASE Givable(j)
    <3>1. j \notin Used
      BY <2>1 DEF Givable, Used
    <3> QED
      BY <1>4, <2>1, <3>1 DEF Givable, Swept
  <2>2. CASE j \in gone
    <3>1. \A g \in 1 .. MaxGeneration : <<j, g>> \in issued => g <= generation[j]
      BY DEF SlotsKept
    <3>2. generation'[j] \in 1 .. MaxGeneration /\ ~(generation'[j] <= generation[j])
      BY <1>4, <1>6, <2>2
    <3>3. <<j, generation'[j]>> \notin issued
      BY <3>1, <3>2
    <3> QED
      BY <2>2, <3>2, <3>3 DEF Givable, Swept
  <2> QED
    BY <1>10, <2>1, <2>2
<1> HIDE DEF gone
<1>11. /\ free' \in Seq(Index)
       /\ Len(free') = Len(free) + Len(freed)
       /\ \A k \in 1 .. Len(free) + Len(freed) :
            free'[k] = IF k <= Len(free) THEN free[k] ELSE freed[k - Len(free)]
  <2>1. free \in Seq(Index) /\ freed \in Seq(Index)
    BY <1>2, <1>3 DEF Types, TypeOK
  <2> QED
    BY <1>1, <2>1, ConcatProperties
<1>12. /\ Len(free) \in Nat /\ DOMAIN free = 1 .. Len(free)
       /\ Len(freed) \in Nat /\ DOMAIN freed = 1 .. Len(freed)
       /\ DOMAIN free' = 1 .. Len(free) + Len(freed)
       /\ \A k \in DOMAIN freed : freed[k] \in gone
       /\ \A k \in DOMAIN free : free[k] \in Index
  BY <1>3, <1>11 DEF Types, TypeOK
<1>13. \A k \in DOMAIN free' :
         free'[k] \in Index /\ (Givable(free'[k]) \/ free'[k] \in gone)
  BY <1>2, <1>11, <1>12 DEF SlotsKept
<1>14. (\A k \in DOMAIN free : Givable(free[k]))'
  BY <1>10, <1>13
<1>15. ASSUME NEW k \in DOMAIN free', NEW m \in DOMAIN free', free'[k] = free'[m]
       PROVE  k = m
  <2>1. \A n \in DOMAIN free : free[n] \notin gone
    BY DEF SlotsKept, Givable, gone, Used
  <2>2. /\ k <= Len(free) => k \in DOMAIN free /\ free'[k] = free[k]
        /\ ~(k <= Len(free)) => /\ k - Len(free) \in DOMAIN freed
                                /\ free'[k] = freed[k - Len(free)]
    BY <1>11, <1>12
  <2>3. /\ m <= Len(free) => m \in DOMAIN free /\ free'[m] = free[m]
        /\ ~(m <= Len(free)) => /\ m - Len(free) \in DOMAIN freed
                                /\ free'[m] = freed[m - Len(free)]
    BY <1>11, <1>12
  <2>4. k <= Len(free) <=> m <= Len(free)
    BY <1>12, <1>15, <2>1, <2>2, <2>3
  <2>5. CASE k <= Len(free)
    BY <1>15, <2>2, <2>3, <2>4, <2>5 DEF SlotsKept
  <2>6. CASE ~(k <= Len(free))
    <3>1. k - Len(free) = m - Len(free)
      BY <1>3, <1>15, <2>2, <2>3, <2>4, <2>6
    <3> QED
      BY <1>12, <3>1
  <2> QED
    BY <2>5, <2>6
<1> QED
  BY <1>7, <1>8, <1>9, <1>11, <1>14, <1>15 DEF SlotsKept

(* An object that is not swept is found by the same handle. *)
LEMMA HandlesStay ==
  ASSUME Types, SlotsKept, NEW h \in Handle, Alive(h),
         \/ Touched
         \/ \E i \in Index : Grown(i)
         \/ \E kept \in SUBSET Used : Swept(kept) /\ h[1] \in kept
  PROVE  Alive(h)' /\ (At(h).kind)' = At(h).kind
<1>1. h[1] \in Index
  BY Handles
<1>2. CASE Touched
  BY <1>1, <1>2 DEF Touched, Alive, Used, At
<1>3. ASSUME NEW i \in Index, Grown(i) PROVE Alive(h)' /\ (At(h).kind)' = At(h).kind
  <2>1. h[1] # i /\ \A j \in Index \ {i} : generation'[j] = generation[j]
    BY <1>3, NewSlot DEF Grown, Alive, Used
  <2> QED
    BY <1>1, <1>3, <2>1 DEF Grown, Alive, Used, At
<1>4. ASSUME NEW kept \in SUBSET Used, Swept(kept), h[1] \in kept
      PROVE  Alive(h)' /\ (At(h).kind)' = At(h).kind
  BY <1>1, <1>4 DEF Swept, Alive, Used, At
<1> QED
  BY <1>2, <1>3, <1>4

(* A handle that stopped resolving never resolves again. *)
LEMMA HandlesGone ==
  ASSUME Types, SlotsKept, Shaped, NEW h \in issued, ~Alive(h)
  PROVE  ~Alive(h)'
<1>1. h \in Handle /\ h[1] \in Index /\ h[2] \in 1 .. MaxGeneration /\ h = <<h[1], h[2]>>
  BY Handles DEF Types, TypeOK, Handle
<1>2. h[2] <= generation[h[1]] /\ generation[h[1]] \in 0 .. MaxGeneration
  BY <1>1 DEF SlotsKept, Types, TypeOK
<1>3. CASE Touched
  BY <1>1, <1>3 DEF Touched, Alive, Used
<1>4. ASSUME NEW i \in Index, Grown(i) PROVE ~Alive(h)'
  <2>1. /\ \A g \in 1 .. MaxGeneration : <<i, g>> \in issued => g < generation'[i]
        /\ \A j \in Index \ {i} : generation'[j] = generation[j]
    BY <1>4, NewSlot DEF Grown
  <2>2. CASE h[1] = i
    <3>1. h[2] < generation'[i]
      BY <1>1, <2>1, <2>2
    <3>2. generation'[i] # h[2]
      BY <1>1, <3>1
    <3> QED
      BY <2>2, <3>2 DEF Alive
  <2>3. CASE h[1] # i
    BY <1>1, <1>4, <2>1, <2>3 DEF Grown, Alive, Used
  <2> QED
    BY <2>2, <2>3
<1>5. ASSUME NEW kept \in SUBSET Used, Swept(kept) PROVE ~Alive(h)'
  <2>1. Used' = kept /\ \A i \in kept : i \in Index /\ generation'[i] = generation[i]
    BY <1>5 DEF Swept, Used
  <2> QED
    BY <2>1 DEF Alive
<1> QED
  BY <1>3, <1>4, <1>5 DEF Shaped

-----------------------------------------------------------------------------
(* What every step does to used objects and to calls in progress *)

(* The object of a handle stays, with its kind. *)
Stays(h) == Alive(h) => Alive(h)' /\ (At(h).kind)' = At(h).kind

(* A used object changes only so. *)
Evolved(i) ==
  /\ object[i].done => object'[i].done
  /\ object'[i].weak \in {object[i].weak, Null}
  /\ object[i].kind = "view" => object'[i].refs = object[i].refs

(* A new view refers to a lease. *)
ViewMade(i) ==
  object'[i].kind = "view" =>
    object'[i].refs # {} /\ \A l \in object'[i].refs : IsLease(l)'

Safe ==
  /\ Shaped
  /\ \A i \in Used \cap Used' : Evolved(i)
  /\ \A i \in Used' \ Used : ViewMade(i)
  /\ \A k \in DOMAIN stack : \A h \in stack[k].temp : Stays(h)
  /\ \A i \in Used \cap Used' : object[i].kind = "view" => \A l \in object[i].refs : Stays(l)

(* The step is safe and nothing is swept. *)
AllStay == \A h \in Handle : Stays(h)
Steady == Safe /\ AllStay

(* Call k goes on: at most its first action has begun. *)
Continued(k) ==
  /\ k \in DOMAIN stack
  /\ stack'[k].op = stack[k].op
  /\ stack'[k].saved = stack[k].saved
  /\ \E d \in {0, 1} : \A n \in DOMAIN stack'[k].todo :
       n + d \in DOMAIN stack[k].todo /\ stack'[k].todo[n] = stack[k].todo[n + d]
  /\ \/ stack'[k].temp = stack[k].temp
     \/ stack'[k].op = "collect" /\ stack'[k].todo = <<>> /\ stack'[k].temp = {}

(* Call k is new: it has no actions. *)
Begun(k) ==
  /\ stack'[k].todo = <<>>
  /\ stack'[k].op \in {"acquire", "derive"} =>
       (\A h \in stack'[k].temp : Alive(h)') /\ \E l \in stack'[k].temp : IsLease(l)'

Stacked == \A k \in DOMAIN stack' : Continued(k) \/ Begun(k)

Kept == Types /\ SlotsKept /\ CallsKept

LEMMA FrameTypes ==
  ASSUME Types, NEW k \in DOMAIN stack
  PROVE  /\ stack[k] \in Frame
         /\ stack[k].temp \in SUBSET Handle
         /\ stack[k].todo \in Seq(Handle \cup {Null})
         /\ stack[k].saved \in Handle \cup {Null}
<1>1. stack[k] \in Frame
  BY DEF Types, TypeOK
<1> QED
  BY <1>1 DEF Frame

(* A step that leaves the objects alone, that changes some, and that makes  *)
(* one, are safe.                                                          *)
LEMMA HandlesShaped ==
  ASSUME Types, SlotsKept, Touched \/ \E i \in Index : Grown(i)
  PROVE  \A h \in Handle : Stays(h)
BY HandlesStay DEF Stays

LEMMA SafeTouched ==
  ASSUME Kept, Touched, \A i \in Used : Evolved(i)
  PROVE  Steady
<1>1. Used' = Used
  BY DEF Used, Touched
<1>2. \A h \in Handle : Stays(h)
  BY HandlesShaped DEF Kept
<1>3. \A k \in DOMAIN stack : \A h \in stack[k].temp : h \in Handle
  BY FrameTypes DEF Kept
<1>4. \A i \in Used : \A h \in object[i].refs : h \in Handle
  BY DEF Kept, Types, TypeOK, Object, Used
<1> QED
  BY <1>1, <1>2, <1>3, <1>4 DEF Steady, AllStay, Safe, Shaped

LEMMA SafeGrown ==
  ASSUME Kept, NEW i \in Index, Grown(i), \A j \in Used : Evolved(j), ViewMade(i)
  PROVE  Steady
<1>1. Used' = Used \cup {i}
  BY DEF Used, Grown
<1>2. \A h \in Handle : Stays(h)
  BY HandlesShaped DEF Kept
<1>3. \A k \in DOMAIN stack : \A h \in stack[k].temp : h \in Handle
  BY FrameTypes DEF Kept
<1>4. \A j \in Used : \A h \in object[j].refs : h \in Handle
  BY DEF Kept, Types, TypeOK, Object, Used
<1> QED
  BY <1>1, <1>2, <1>3, <1>4 DEF Steady, AllStay, Safe, Shaped

LEMMA SlotsStep == Types /\ SlotsKept /\ Shaped => SlotsKept'
BY SlotsTouched, SlotsGrown, SlotsSwept DEF Shaped

(* A slot that stays in use keeps its object. *)
LEMMA SlotStays ==
  ASSUME Kept, Shaped, NEW i \in Used \cap Used'
  PROVE  object'[i].kind = object[i].kind /\ generation'[i] = generation[i]
<1>1. i \in Index
  BY DEF Used
<1>2. CASE Touched
  BY <1>1, <1>2 DEF Touched
<1>3. ASSUME NEW j \in Index, Grown(j)
      PROVE  object'[i].kind = object[i].kind /\ generation'[i] = generation[i]
  <2>1. object[j].kind = "free" /\ \A m \in Index \ {j} : generation'[m] = generation[m]
    BY <1>3, NewSlot DEF Grown, Kept
  <2> QED
    BY <1>1, <1>3, <2>1 DEF Grown, Used
<1>4. ASSUME NEW kept \in SUBSET Used, Swept(kept)
      PROVE  object'[i].kind = object[i].kind /\ generation'[i] = generation[i]
  BY <1>1, <1>4 DEF Swept, Used
<1> QED
  BY <1>2, <1>3, <1>4 DEF Shaped

LEMMA LeaseStays ==
  ASSUME NEW l, IsLease(l), Stays(l)
  PROVE  IsLease(l)'
BY DEF IsLease, Stays

LEMMA ViewsStep == Kept /\ Safe => ViewsKept'
<1> SUFFICES ASSUME Kept, Safe, NEW i \in Used', object'[i].kind = "view"
             PROVE  object'[i].refs # {} /\ \A l \in object'[i].refs : IsLease(l)'
  BY DEF ViewsKept
<1>1. CASE i \in Used
  <2>1. object[i].kind = "view" /\ object'[i].refs = object[i].refs
    BY <1>1, SlotStays DEF Safe, Evolved
  <2>2. object[i].refs # {} /\ \A l \in object[i].refs : IsLease(l) /\ Stays(l)
    BY <1>1, <2>1 DEF Kept, CallsKept, ViewsKept, Safe
  <2> QED
    BY <2>1, <2>2, LeaseStays
<1>2. CASE i \notin Used
  BY <1>2 DEF Safe, ViewMade
<1> QED
  BY <1>1, <1>2

LEMMA FrameContinued ==
  ASSUME Kept, Safe, NEW k \in DOMAIN stack', Continued(k)
  PROVE  FrameKept(k)'
<1> DEFINE frame == stack[k]
           frame1 == stack'[k]
<1>1. k \in DOMAIN stack /\ FrameKept(k) /\ \A h \in frame.temp : Stays(h)
  BY DEF Continued, Kept, CallsKept, Safe
<1>2. CASE frame1.op = "collect" /\ frame1.todo = <<>>
  <2>1. DOMAIN frame1.todo = {}
    BY <1>2
  <2> QED
    BY <1>2, <2>1 DEF FrameKept
<1>3. CASE frame1.temp = frame.temp
  <2>1. ASSUME NEW n \in DOMAIN frame1.todo, NEW h, h = frame1.todo[n], h # Null
        PROVE  h \in frame1.temp /\ Alive(h)'
    <3>1. PICK d \in {0, 1} : n + d \in DOMAIN frame.todo /\ frame1.todo[n] = frame.todo[n + d]
      BY DEF Continued
    <3>2. h \in frame.temp /\ Alive(h)
      BY <1>1, <2>1, <3>1 DEF FrameKept
    <3> QED
      BY <1>1, <1>3, <3>2 DEF Stays
  <2>2. frame1.op \in {"acquire", "derive"} =>
          (\A h \in frame1.temp : Alive(h)') /\ \E l \in frame1.temp : IsLease(l)'
    BY <1>1, <1>3, LeaseStays DEF FrameKept, Continued, Stays
  <2> QED
    BY <2>1, <2>2 DEF FrameKept
<1> QED
  BY <1>2, <1>3 DEF Continued

LEMMA CallsStep == Kept /\ Safe /\ Stacked => CallsKept'
<1> SUFFICES ASSUME Kept, Safe, Stacked PROVE CallsKept'
  OBVIOUS
<1>1. ASSUME NEW k \in DOMAIN stack', Begun(k) PROVE FrameKept(k)'
  <2>1. DOMAIN stack'[k].todo = {}
    BY <1>1 DEF Begun
  <2> QED
    BY <1>1, <2>1 DEF FrameKept, Begun
<1>2. (\A k \in DOMAIN stack : FrameKept(k))'
  BY <1>1, FrameContinued DEF Stacked
<1> QED
  BY <1>2, ViewsStep DEF CallsKept

-----------------------------------------------------------------------------
(* Calls: the stack after a step *)

LEMMA SettledFrames ==
  ASSUME NEW s \in Seq(Frame)
  PROVE  /\ Settled(s) \in Seq(Frame)
         /\ Len(Settled(s)) = Len(s) /\ DOMAIN Settled(s) = DOMAIN s
         /\ \A k \in DOMAIN s :
              /\ Settled(s)[k].op = s[k].op
              /\ Settled(s)[k].saved = s[k].saved
              /\ Settled(s)[k].todo = s[k].todo
              /\ \/ Settled(s)[k].temp = s[k].temp
                 \/ s[k].op = "collect" /\ s[k].todo = <<>> /\ Settled(s)[k].temp = {}
<1>1. CASE Settled(s) = s
  BY <1>1
<1>2. CASE Settled(s) # s
  <2> DEFINE n == Len(s)
             top == [s[n] EXCEPT !.temp = {}]
  <2>1. s # <<>> /\ s[n].op = "collect" /\ s[n].todo = <<>> /\ Settled(s) = [s EXCEPT ![n].temp = {}]
    BY <1>2 DEF Settled
  <2>2. n \in 1 .. n /\ DOMAIN s = 1 .. n /\ s[n] \in Frame
    BY <2>1
  <2>3. top \in Frame
    BY <2>2 DEF Frame
  <2>4. top.op = s[n].op /\ top.saved = s[n].saved /\ top.todo = s[n].todo /\ top.temp = {}
    BY <2>2 DEF Frame
  <2> HIDE DEF top
  <2>5. Settled(s) = [s EXCEPT ![n] = top]
    BY <2>1 DEF top
  <2>6. Settled(s) \in Seq(Frame) /\ Len(Settled(s)) = n /\ DOMAIN Settled(s) = DOMAIN s
    BY <2>2, <2>3, <2>5
  <2>7. \A k \in DOMAIN s : Settled(s)[k] = IF k = n THEN top ELSE s[k]
    BY <2>5
  <2> QED
    BY <2>1, <2>4, <2>6, <2>7
<1> QED
  BY <1>1, <1>2

LEMMA CallType ==
  ASSUME NEW op \in {"collect", "callback", "acquire", "derive"},
         NEW temp \in SUBSET Handle, NEW saved \in Handle \cup {Null}
  PROVE  /\ Call(op, temp, saved) \in Frame
         /\ Call(op, temp, saved).op = op /\ Call(op, temp, saved).temp = temp
         /\ Call(op, temp, saved).todo = <<>> /\ Call(op, temp, saved).saved = saved
<1>1. <<>> \in Seq(Handle \cup {Null})
  OBVIOUS
<1> QED
  BY <1>1 DEF Call, Frame

(* The same frame as before. *)
LEMMA FrameSame ==
  ASSUME Types, NEW k \in DOMAIN stack, stack'[k] = stack[k]
  PROVE  Continued(k)
<1>1. stack[k].todo \in Seq(Handle \cup {Null})
  BY FrameTypes
<1>2. \A n \in DOMAIN stack[k].todo : n + 0 = n
  BY <1>1
<1> QED
  BY <1>2 DEF Continued

LEMMA SameStack ==
  ASSUME Types, UNCHANGED stack
  PROVE  stack' \in Seq(Frame) /\ Stacked /\ \A k \in DOMAIN stack' : Continued(k)
<1>1. stack \in Seq(Frame)
  BY DEF Types, TypeOK
<1>2. \A k \in DOMAIN stack' : Continued(k)
  BY FrameSame
<1> QED
  BY <1>1, <1>2 DEF Stacked

(* A call is made on top of calls `s` that go on. *)
LEMMA StackPushed ==
  ASSUME NEW s \in Seq(Frame), NEW f \in Frame, stack' = Append(s, f), f.todo = <<>>,
         f.op \in {"acquire", "derive"} =>
           (\A h \in f.temp : Alive(h)') /\ \E l \in f.temp : IsLease(l)',
         \A k \in DOMAIN s : s[k] = stack'[k] => Continued(k)
  PROVE  /\ stack' \in Seq(Frame) /\ Stacked
         /\ Len(stack') = Len(s) + 1 /\ stack'[Len(stack')] = f
         /\ DOMAIN stack' = DOMAIN s \cup {Len(s) + 1}
         /\ \A k \in DOMAIN s : stack'[k] = s[k] /\ Continued(k) /\ k # Len(stack')
<1>1. /\ stack' \in Seq(Frame) /\ Len(stack') = Len(s) + 1 /\ stack'[Len(s) + 1] = f
      /\ \A k \in 1 .. Len(s) : stack'[k] = s[k]
  BY AppendProperties
<1>2. DOMAIN s = 1 .. Len(s) /\ DOMAIN stack' = 1 .. Len(s) + 1 /\ Len(s) \in Nat
  BY <1>1
<1>3. \A k \in DOMAIN s : stack'[k] = s[k] /\ Continued(k) /\ k # Len(s) + 1
  BY <1>1, <1>2
<1>4. Begun(Len(s) + 1)
  BY <1>1 DEF Begun
<1>5. DOMAIN stack' = DOMAIN s \cup {Len(s) + 1}
  BY <1>2
<1> QED
  BY <1>1, <1>3, <1>4, <1>5 DEF Stacked

LEMMA StackPopped ==
  ASSUME Types, stack # <<>>, stack' = Below \/ stack' = Settled(Below)
  PROVE  /\ stack' \in Seq(Frame) /\ Stacked
         /\ Len(stack') = Len(stack) - 1 /\ DOMAIN stack' = DOMAIN Below
         /\ \A k \in DOMAIN stack' : Continued(k)
<1>1. /\ stack \in Seq(Frame) /\ Below \in Seq(Frame) /\ Len(Below) = Len(stack) - 1
      /\ \A k \in DOMAIN Below : k \in DOMAIN stack /\ Below[k] = stack[k]
  <2>1. stack \in Seq(Frame)
    BY DEF Types, TypeOK
  <2> QED
    BY <2>1, StackBelow
<1>2. stack' \in Seq(Frame) /\ Len(stack') = Len(Below) /\ DOMAIN stack' = DOMAIN Below
  BY <1>1, SettledFrames
<1>3. ASSUME NEW k \in DOMAIN stack' PROVE Continued(k)
  <2>1. k \in DOMAIN stack /\ Below[k] = stack[k]
    BY <1>1, <1>2
  <2>2. /\ stack'[k].op = stack[k].op /\ stack'[k].saved = stack[k].saved
        /\ stack'[k].todo = stack[k].todo
        /\ \/ stack'[k].temp = stack[k].temp
           \/ stack[k].op = "collect" /\ stack[k].todo = <<>> /\ stack'[k].temp = {}
    BY <1>1, <1>2, <2>1, SettledFrames
  <2>3. stack[k].todo \in Seq(Handle \cup {Null})
    BY <2>1, FrameTypes
  <2>4. \A n \in DOMAIN stack'[k].todo : n + 0 = n
    BY <2>2, <2>3
  <2> QED
    BY <2>1, <2>2, <2>4 DEF Continued
<1> QED
  BY <1>1, <1>2, <1>3 DEF Stacked

-----------------------------------------------------------------------------
(* Steps of Python code *)

Good == Types' /\ Steady /\ Stacked

(* Steps that touch no object. *)
LEMMA QuietGood ==
  ASSUME Kept, UNCHANGED <<program, object, generation, free, builtins, issued, calls>>,
         roots' \subseteq Handle, raised' \in Handle \cup {Null}, stack' \in Seq(Frame)
  PROVE  Types' /\ Steady
<1>1. Types'
  BY DEF Kept, Types, TypeOK
<1>2. Touched /\ \A i \in Used : Evolved(i)
  BY DEF Touched, Evolved
<1> QED
  BY <1>1, <1>2, SafeTouched

LEMMA DropGood ==
  ASSUME Kept, UNCHANGED program, NEW h \in roots, Drop(h)
  PROVE  Good
<1>1. roots' \subseteq Handle /\ raised' \in Handle \cup {Null}
  BY DEF Drop, Kept, Types, TypeOK
<1> QED
  BY <1>1, QuietGood, SameStack DEF Good, Drop, heapVars, Kept

LEMMA RaiseGood ==
  ASSUME Kept, UNCHANGED program, NEW h \in roots, Raise(h)
  PROVE  Good
<1>1. roots' \subseteq Handle /\ raised' \in Handle \cup {Null}
  BY DEF Raise, Kept, Types, TypeOK
<1> QED
  BY <1>1, QuietGood, SameStack DEF Good, Raise, heapVars, Kept

LEMMA LoadGood ==
  ASSUME Kept, UNCHANGED program, NEW h \in Handle, Load(h) \/ LoadArgument(h)
  PROVE  Good
<1>1. roots' \subseteq Handle /\ raised' \in Handle \cup {Null}
  BY DEF Load, LoadArgument, Hold, Kept, Types, TypeOK
<1> QED
  BY <1>1, QuietGood, SameStack DEF Good, Load, LoadArgument, heapVars, Kept

LEMMA DereferenceGood ==
  ASSUME Kept, UNCHANGED program, NEW w \in Index, Dereference(w)
  PROVE  Good
<1>1. object[w].weak \in Handle
  BY DEF Dereference, Kept, Types, TypeOK, Object
<1>2. roots' \subseteq Handle /\ raised' \in Handle \cup {Null}
  BY <1>1 DEF Dereference, Hold, Kept, Types, TypeOK
<1> QED
  BY <1>2, QuietGood, SameStack DEF Good, Dereference, heapVars, Kept

LEMMA CatchGood ==
  ASSUME Kept, UNCHANGED program, Catch
  PROVE  Good
<1>1. roots' \subseteq Handle /\ raised' \in Handle \cup {Null}
  BY DEF Catch, Hold, Kept, Types, TypeOK
<1> QED
  BY <1>1, QuietGood, SameStack DEF Good, Catch, heapVars, Kept

LEMMA CollectGood ==
  ASSUME Kept, UNCHANGED program, Collect
  PROVE  Good
<1> DEFINE f == Call("collect", {}, raised)
<1>1. f \in Frame /\ f.todo = <<>> /\ f.op = "collect"
  BY CallType DEF Kept, Types, TypeOK
<1>2. stack \in Seq(Frame) /\ \A k \in DOMAIN stack : stack[k] = stack'[k] => Continued(k)
  BY FrameSame DEF Kept, Types, TypeOK
<1>3. stack' = Append(stack, f)
  BY DEF Collect
<1> HIDE DEF f
<1>4. stack' \in Seq(Frame) /\ Stacked
  BY <1>1, <1>2, <1>3, StackPushed
<1>5. roots' \subseteq Handle /\ raised' \in Handle \cup {Null}
  BY DEF Collect, Kept, Types, TypeOK
<1> QED
  BY <1>4, <1>5, QuietGood DEF Good, Collect, heapVars

LEMMA CallbackReturnsGood ==
  ASSUME Kept, UNCHANGED program, CallbackReturns
  PROVE  Good
<1>1. stack' \in Seq(Frame) /\ Stacked
  BY StackPopped DEF Kept, CallbackReturns
<1>2. Top.saved \in Handle \cup {Null}
  <2>1. Len(stack) \in DOMAIN stack /\ Top = stack[Len(stack)]
    BY StackBelow DEF Kept, Types, TypeOK, CallbackReturns
  <2> QED
    BY <2>1, FrameTypes DEF Kept
<1>3. roots' \subseteq Handle /\ raised' \in Handle \cup {Null}
  BY <1>2 DEF CallbackReturns, Restored, Kept, Types, TypeOK
<1> QED
  BY <1>1, <1>3, QuietGood DEF Good, CallbackReturns, heapVars

(* An object is allocated. *)
LEMMA SlotTaken ==
  ASSUME Kept, NEW i \in Index, NextSlot(i),
         generation' = [generation EXCEPT ![i] = IF free = <<>> THEN 1 ELSE @],
         issued' = issued \cup {<<i, generation'[i]>>},
         free' = IF free = <<>> THEN free ELSE SubSeq(free, 1, Len(free) - 1)
  PROVE  /\ generation' \in [Index -> 0 .. MaxGeneration]
         /\ issued' \subseteq Handle /\ free' \in Seq(Index)
         /\ <<i, generation'[i]>> \in Handle /\ i \notin Used
<1>1. object[i].kind = "free" /\ generation'[i] \in 1 .. MaxGeneration /\ <<i, generation'[i]>> \in Handle
  BY NewSlot DEF Kept
<1>2. generation' \in [Index -> 0 .. MaxGeneration]
  BY ConstantsAssumption DEF Kept, Types, TypeOK
<1>3. free' \in Seq(Index)
  BY FreeList DEF Kept, Types, TypeOK
<1> QED
  BY <1>1, <1>2, <1>3 DEF Used, Kept, Types, TypeOK

LEMMA Issued == Types => Ordinal \in Nat
<1> SUFFICES ASSUME Types PROVE Cardinality(issued) \in Nat
  BY DEF Ordinal
<1>1. IsFiniteSet(1 .. MaxGeneration)
  BY FS_Interval, ConstantsAssumption
<1>2. IsFiniteSet(Handle)
  BY <1>1, Handles, FS_Product DEF Handle
<1> QED
  BY <1>2, FS_Subset, FS_CardinalityType DEF Types, TypeOK

LEMMA Stored ==
  ASSUME Kept, NEW i \in Index, NEW obj \in Object, obj.kind # "free", Store(i, obj),
         obj.kind = "view" => obj.refs # {} /\ \A l \in obj.refs : IsLease(l)
  PROVE  /\ Steady
         /\ object' \in [Index -> Object]
         /\ generation' \in [Index -> 0 .. MaxGeneration]
         /\ issued' \subseteq Handle /\ free' \in Seq(Index)
         /\ <<i, generation'[i]>> \in Handle
         /\ object'[i] = obj
<1>1. /\ generation' \in [Index -> 0 .. MaxGeneration]
      /\ issued' \subseteq Handle /\ free' \in Seq(Index)
      /\ <<i, generation'[i]>> \in Handle /\ i \notin Used
  BY SlotTaken DEF Store
<1>2. object' \in [Index -> Object] /\ object'[i] = obj /\ \A j \in Index \ {i} : object'[j] = object[j]
  BY DEF Store, Kept, Types, TypeOK
<1>3. Grown(i)
  BY <1>2 DEF Grown, Store
<1>4. \A j \in Used : Evolved(j)
  BY <1>1, <1>2 DEF Evolved, Used
<1>5. ViewMade(i)
  <2> SUFFICES ASSUME obj.kind = "view" PROVE obj.refs # {} /\ \A l \in obj.refs : IsLease(l)'
    BY <1>2 DEF ViewMade
  <2>1. \A h \in Handle : Stays(h)
    BY <1>3, HandlesShaped DEF Kept
  <2> QED
    BY <2>1, LeaseStays DEF IsLease
<1> QED
  BY <1>1, <1>2, <1>3, <1>4, <1>5, SafeGrown

LEMMA NewGood ==
  ASSUME Kept, UNCHANGED program,
         NEW kind \in {"plain", "instance", "generator", "container"},
         NEW child \in SUBSET roots, New(kind, child)
  PROVE  Good
<1> DEFINE obj == [Blank(kind, IF kind = "instance" THEN Ordinal ELSE 0) EXCEPT !.refs = child]
<1>1. PICK i \in Index : Store(i, obj) /\ Hold(<<i, generation'[i]>>)
  BY DEF New
<1>2. Ordinal \in Nat
  BY Issued DEF Kept
<1>3. obj \in Object /\ obj.kind = kind
  BY <1>2 DEF Blank, Object, Kind, Kept, Types, TypeOK
<1> HIDE DEF obj
<1>4. /\ Steady
      /\ object' \in [Index -> Object]
      /\ generation' \in [Index -> 0 .. MaxGeneration]
      /\ issued' \subseteq Handle /\ free' \in Seq(Index)
      /\ <<i, generation'[i]>> \in Handle
  BY <1>1, <1>3, Stored
<1>5. stack' \in Seq(Frame) /\ Stacked
  BY SameStack DEF New, Kept
<1>6. Types'
  BY <1>1, <1>4, <1>5 DEF New, Hold, Kept, Types, TypeOK
<1> QED
  BY <1>4, <1>5, <1>6 DEF Good

LEMMA NewFunctionGood ==
  ASSUME Kept, UNCHANGED program, NEW namespace \in roots, NewFunction(namespace)
  PROVE  Good
<1> DEFINE obj == Blank("function", 0)
<1>1. PICK i \in Index :
        /\ Store(i, obj) /\ Hold(<<i, generation'[i]>>)
        /\ builtins' = builtins \cup {<<<<i, generation'[i]>>, namespace>>}
  BY DEF NewFunction
<1>2. obj \in Object /\ obj.kind = "function"
  BY BlankType DEF Kind, Blank
<1> HIDE DEF obj
<1>3. /\ Steady
      /\ object' \in [Index -> Object]
      /\ generation' \in [Index -> 0 .. MaxGeneration]
      /\ issued' \subseteq Handle /\ free' \in Seq(Index)
      /\ <<i, generation'[i]>> \in Handle
  BY <1>1, <1>2, Stored
<1>4. stack' \in Seq(Frame) /\ Stacked
  BY SameStack DEF NewFunction, Kept
<1>5. builtins' \subseteq Handle \X Handle
  <2>1. namespace \in Handle /\ builtins \subseteq Handle \X Handle
    BY DEF Kept, Types, TypeOK
  <2>2. ASSUME NEW h \in Handle PROVE <<h, namespace>> \in Handle \X Handle
    BY <2>1
  <2> QED
    BY <1>1, <1>3, <2>1, <2>2
<1>6. Types'
  BY <1>1, <1>3, <1>4, <1>5 DEF NewFunction, Hold, Kept, Types, TypeOK
<1> QED
  BY <1>3, <1>4, <1>6 DEF Good

LEMMA NewWeakrefGood ==
  ASSUME Kept, UNCHANGED program, NEW referent \in roots, NEW callback \in SUBSET roots,
         NewWeakref(referent, callback)
  PROVE  Good
<1> DEFINE obj == [Blank("weakref", Ordinal) EXCEPT !.refs = callback, !.weak = referent]
<1>1. stack' \in Seq(Frame) /\ Stacked
  BY SameStack DEF NewWeakref, Kept
<1>2. ASSUME NEW i \in Canonical(referent), Hold(HandleOf(i)),
             UNCHANGED <<object, generation, free, issued>>
      PROVE  Good
  <2>1. HandleOf(i) \in Handle
    BY UsedAlive, <1>2 DEF Canonical, Kept
  <2>2. roots' \subseteq Handle /\ raised' \in Handle \cup {Null}
    BY <1>2, <2>1 DEF Hold, NewWeakref, Kept, Types, TypeOK
  <2> QED
    BY <1>1, <1>2, <2>2, QuietGood DEF Good, NewWeakref
<1>3. ASSUME NEW i \in Index, Store(i, obj), Hold(<<i, generation'[i]>>)
      PROVE  Good
  <2>1. Ordinal \in Nat
    BY Issued DEF Kept
  <2>2. obj \in Object /\ obj.kind = "weakref"
    BY <2>1 DEF Blank, Object, Kind, Kept, Types, TypeOK
  <2> HIDE DEF obj
  <2>3. /\ Steady
        /\ object' \in [Index -> Object]
        /\ generation' \in [Index -> 0 .. MaxGeneration]
        /\ issued' \subseteq Handle /\ free' \in Seq(Index)
        /\ <<i, generation'[i]>> \in Handle
    BY <1>3, <2>2, Stored
  <2>4. Types'
    BY <1>1, <1>3, <2>3 DEF NewWeakref, Hold, Kept, Types, TypeOK
  <2> QED
    BY <1>1, <2>3, <2>4 DEF Good
<1> QED
  BY <1>2, <1>3 DEF NewWeakref

LEMMA InsertGood ==
  ASSUME Kept, UNCHANGED program, NEW container \in roots, NEW key \in roots,
         NEW value \in SUBSET roots, Insert(container, key, value)
  PROVE  Good
<1> DEFINE entry == [Blank("entry", 0) EXCEPT !.weak = key]
<1>1. PICK i \in Index :
       /\ NextSlot(i)
       /\ generation' = [generation EXCEPT ![i] = IF free = <<>> THEN 1 ELSE @]
       /\ issued' = issued \cup {<<i, generation'[i]>>}
       /\ free' = IF free = <<>> THEN free ELSE SubSeq(free, 1, Len(free) - 1)
       /\ object' = [object EXCEPT
            ![i] = entry,
            ![container[1]].refs = {<<i, generation'[i]>>} \cup value]
  BY DEF Insert
<1>2. /\ generation' \in [Index -> 0 .. MaxGeneration]
      /\ issued' \subseteq Handle /\ free' \in Seq(Index)
      /\ <<i, generation'[i]>> \in Handle /\ i \notin Used
  BY <1>1, SlotTaken
<1>3. entry \in Object /\ entry.kind = "entry"
  BY DEF Blank, Object, Kind, Kept, Types, TypeOK
<1>4. container[1] \in Used /\ object[container[1]].kind = "container"
  BY DEF Insert, Alive, At
<1>5. {<<i, generation'[i]>>} \cup value \in SUBSET Handle
  BY <1>2 DEF Kept, Types, TypeOK
<1> HIDE DEF entry
<1> DEFINE c == container[1]
           filled == [object[c] EXCEPT !.refs = {<<i, generation'[i]>>} \cup value]
<1>6. c \in Index /\ c # i /\ object[c] \in Object
  BY <1>2, <1>4 DEF Used, Kept, Types, TypeOK
<1>7. filled \in Object /\ filled.kind = "container" /\ filled.done = object[c].done /\ filled.weak = object[c].weak
  BY <1>4, <1>5, <1>6 DEF Object
<1>8. /\ object' \in [Index -> Object]
      /\ object'[i] = entry /\ object'[c] = filled
      /\ \A j \in Index \ {i, c} : object'[j] = object[j]
  <2> HIDE DEF filled, c
  <2>1. object' = [[object EXCEPT ![i] = entry] EXCEPT ![c] = filled]
    BY <1>1, <1>6 DEF filled, c, Kept, Types, TypeOK
  <2> QED
    BY <1>3, <1>6, <1>7, <2>1 DEF Kept, Types, TypeOK
<1> HIDE DEF filled
<1>9. Grown(i)
  BY <1>1, <1>3, <1>4, <1>7, <1>8 DEF Grown
<1>10. \A j \in Used : Evolved(j)
  BY <1>2, <1>4, <1>7, <1>8 DEF Evolved, Used
<1>11. ViewMade(i)
  BY <1>3, <1>8 DEF ViewMade
<1>12. Steady
  BY <1>9, <1>10, <1>11, SafeGrown
<1>13. stack' \in Seq(Frame) /\ Stacked
  BY SameStack DEF Insert, Kept
<1>14. Types'
  BY <1>2, <1>8, <1>13 DEF Insert, Kept, Types, TypeOK
<1> QED
  BY <1>12, <1>13, <1>14 DEF Good

LEMMA LinkGood ==
  ASSUME Kept, UNCHANGED program, NEW target \in roots, NEW value \in SUBSET roots,
         Link(target, value)
  PROVE  Good
<1> DEFINE t == target[1]
           linked == [object[t] EXCEPT !.refs = value]
<1>1. t \in Index /\ t \in Used /\ object[t] \in Object /\ object[t].kind \in {"plain", "instance", "generator"}
  BY DEF Link, Alive, At, Used, Kept, Types, TypeOK
<1>2. /\ linked \in Object /\ linked.kind = object[t].kind
      /\ linked.done = object[t].done /\ linked.weak = object[t].weak
  BY <1>1 DEF Object, Kept, Types, TypeOK
<1>3. object' = [object EXCEPT ![t] = linked]
  BY DEF Link
<1> HIDE DEF linked, t
<1>4. object' \in [Index -> Object] /\ \A j \in Index : object'[j] = IF j = t THEN linked ELSE object[j]
  BY <1>1, <1>2, <1>3 DEF Kept, Types, TypeOK
<1>5. Touched
  BY <1>2, <1>4 DEF Touched, Link
<1>6. \A j \in Used : Evolved(j)
  BY <1>1, <1>2, <1>4 DEF Evolved, Used
<1>7. Steady
  BY <1>5, <1>6, SafeTouched
<1>8. stack' \in Seq(Frame) /\ Stacked
  BY SameStack DEF Link, Kept
<1>9. Types'
  BY <1>4, <1>8 DEF Link, Kept, Types, TypeOK
<1> QED
  BY <1>7, <1>8, <1>9 DEF Good

-----------------------------------------------------------------------------
(* Views and leases *)

LEMMA ViewHasLease ==
  ASSUME Kept, NEW view, Alive(view), At(view).kind = "view"
  PROVE  IsLease(LeaseOf(view)) /\ LeaseOf(view) \in At(view).refs
<1>1. view[1] \in Used /\ object[view[1]].kind = "view"
  BY DEF Alive, At
<1>2. At(view).refs # {} /\ \A l \in At(view).refs : IsLease(l)
  BY <1>1 DEF Kept, CallsKept, ViewsKept, At
<1>3. LeaseOf(view) \in At(view).refs
  BY <1>2 DEF LeaseOf
<1> QED
  BY <1>2, <1>3

LEMMA NewViewHasLease ==
  ASSUME Kept, stack # <<>>, Top.op \in {"acquire", "derive"}
  PROVE  IsLease(NewViewsLease) /\ NewViewsLease \in Top.temp /\ Top.temp \subseteq Handle
<1>1. Len(stack) \in DOMAIN stack /\ Top = stack[Len(stack)]
  BY StackBelow DEF Kept, Types, TypeOK
<1>2. FrameKept(Len(stack)) /\ Top.temp \subseteq Handle
  BY <1>1, FrameTypes DEF Kept, CallsKept
<1>3. (\A h \in Top.temp : Alive(h)) /\ \E l \in Top.temp : IsLease(l)
  BY <1>1, <1>2 DEF FrameKept
<1>4. \E l \in Top.temp : At(l).kind = "lease"
  BY <1>3 DEF IsLease
<1>5. NewViewsLease \in Top.temp /\ At(NewViewsLease).kind = "lease"
  BY <1>4 DEF NewViewsLease
<1> QED
  BY <1>2, <1>3, <1>5 DEF IsLease

(* One object is replaced by one that has changed as objects may. *)
LEMMA ObjectReplaced ==
  ASSUME Kept, NEW t \in Index, NEW new \in Object,
         object' = [object EXCEPT ![t] = new],
         UNCHANGED <<generation, free, issued>>,
         new.kind = object[t].kind, object[t].done => new.done,
         new.weak = object[t].weak, new.refs = object[t].refs
  PROVE  Steady /\ object' \in [Index -> Object] /\ \A h \in Handle : Stays(h)
<1>1. /\ object' \in [Index -> Object]
      /\ \A j \in Index : object'[j] = IF j = t THEN new ELSE object[j]
  BY DEF Kept, Types, TypeOK
<1>2. Touched
  BY <1>1 DEF Touched
<1>3. \A j \in Used : Evolved(j)
  BY <1>1 DEF Evolved, Used
<1> QED
  BY <1>1, <1>2, <1>3, SafeTouched, HandlesShaped DEF Kept

LEMMA HookedType ==
  ASSUME NEW obj \in Object
  PROVE  /\ Hooked(obj) \in Object /\ Hooked(obj).kind = obj.kind /\ Hooked(obj).done
         /\ Hooked(obj).weak = obj.weak /\ Hooked(obj).refs = obj.refs
         /\ Hooked(obj).spared = obj.spared
BY DEF Hooked, Object

LEMMA CountedType ==
  ASSUME NEW obj \in Object, NEW n \in Nat
  PROVE  LET new == [obj EXCEPT !.views = n] IN
         /\ new \in Object /\ new.kind = obj.kind /\ new.done = obj.done
         /\ new.weak = obj.weak /\ new.refs = obj.refs
         /\ new.views = n /\ new.spared = obj.spared
BY DEF Object

LEMMA SaturatingType == \A n, k \in Nat : Saturating(n, k) \in Nat
BY DEF Saturating

LEMMA AcquireGood ==
  ASSUME Kept, UNCHANGED program, NEW provider \in roots, Acquire(provider)
  PROVE  Good
<1> DEFINE obj == [Blank("lease", 0) EXCEPT !.refs = {provider}, !.views = 1]
<1>1. PICK i \in Index :
        /\ Store(i, obj)
        /\ stack' = Append(stack, Call("acquire", {<<i, generation'[i]>>, provider}, Null))
  BY DEF Acquire
<1>2. obj \in Object /\ obj.kind = "lease"
  BY DEF Blank, Object, Kind, Kept, Types, TypeOK
<1> HIDE DEF obj
<1>3. /\ Steady
      /\ object' \in [Index -> Object]
      /\ generation' \in [Index -> 0 .. MaxGeneration]
      /\ issued' \subseteq Handle /\ free' \in Seq(Index)
      /\ <<i, generation'[i]>> \in Handle
      /\ object'[i] = obj
  BY <1>1, <1>2, Stored
<1>4. PICK h \in Handle : h = <<i, generation'[i]>>
  BY <1>3
<1>5. IsLease(h)'
  BY <1>2, <1>3, <1>4 DEF IsLease, Alive, At, Used
<1>6. PICK p \in Handle : p = provider /\ Alive(p)
  BY DEF Acquire, Kept, Types, TypeOK
<1>7. Alive(p)'
  <2>1. Grown(i)
    BY <1>1, <1>2, <1>3 DEF Grown, Store, Kept, Types, TypeOK
  <2> QED
    BY <1>6, <2>1, HandlesShaped DEF Stays, Kept
<1> DEFINE f == Call("acquire", {h, p}, Null)
<1>8. /\ f \in Frame /\ f.todo = <<>> /\ f.op = "acquire" /\ f.temp = {h, p}
  BY CallType
<1>9. stack \in Seq(Frame) /\ \A k \in DOMAIN stack : stack[k] = stack'[k] => Continued(k)
  BY FrameSame DEF Kept, Types, TypeOK
<1>10. stack' = Append(stack, f)
  BY <1>1, <1>4, <1>6
<1>11. (\A g \in f.temp : Alive(g)') /\ \E l \in f.temp : IsLease(l)'
  BY <1>5, <1>7, <1>8 DEF IsLease
<1> HIDE DEF f
<1>12. stack' \in Seq(Frame) /\ Stacked
  BY <1>8, <1>9, <1>10, <1>11, StackPushed
<1>13. Types'
  BY <1>3, <1>12 DEF Acquire, Kept, Types, TypeOK
<1> QED
  BY <1>3, <1>12, <1>13 DEF Good

LEMMA DeriveGood ==
  ASSUME Kept, UNCHANGED program, NEW view \in roots, Derive(view)
  PROVE  Good
<1>1. PICK lease \in Handle : lease = LeaseOf(view) /\ IsLease(lease)
  BY ViewHasLease DEF Derive, IsLease
<1> DEFINE t == lease[1]
           new == [object[t] EXCEPT !.views = object[t].views + 1]
           f == Call("derive", {lease}, Null)
<1>2. t \in Index /\ object[t] \in Object /\ object[t].views \in Nat
  BY Handles DEF Kept, Types, TypeOK, Object
<1>3. object' = [object EXCEPT ![t] = new] /\ stack' = Append(stack, f)
  BY <1>1 DEF Derive
<1>4. /\ new \in Object /\ new.kind = object[t].kind /\ new.done = object[t].done
      /\ new.weak = object[t].weak /\ new.refs = object[t].refs
  BY <1>2, CountedType
<1> HIDE DEF new, t
<1>5. Steady /\ object' \in [Index -> Object] /\ \A h \in Handle : Stays(h)
  BY <1>2, <1>3, <1>4, ObjectReplaced DEF Derive
<1>6. f \in Frame /\ f.todo = <<>> /\ f.op = "derive" /\ f.temp = {lease}
  BY CallType
<1>7. IsLease(lease)'
  BY <1>1, <1>5, LeaseStays
<1>8. stack \in Seq(Frame) /\ \A k \in DOMAIN stack : stack[k] = stack'[k] => Continued(k)
  BY FrameSame DEF Kept, Types, TypeOK
<1>9. (\A g \in f.temp : Alive(g)') /\ \E l \in f.temp : IsLease(l)'
  BY <1>6, <1>7 DEF IsLease
<1> HIDE DEF f
<1>10. stack' \in Seq(Frame) /\ Stacked
  BY <1>3, <1>6, <1>8, <1>9, StackPushed
<1>11. Types'
  BY <1>5, <1>10 DEF Derive, Kept, Types, TypeOK
<1> QED
  BY <1>5, <1>10, <1>11 DEF Good

LEMMA ViewAllocatedGood ==
  ASSUME Kept, UNCHANGED program, ViewAllocated
  PROVE  Good
<1> DEFINE lease == NewViewsLease
           obj == [Blank("view", 0) EXCEPT !.refs = {lease}]
<1>1. IsLease(lease) /\ lease \in Handle
  BY NewViewHasLease DEF ViewAllocated, IsLease
<1> HIDE DEF lease
<1>2. PICK i \in Index : Store(i, obj) /\ Hold(<<i, generation'[i]>>)
  BY DEF ViewAllocated, lease
<1>3. obj \in Object /\ obj.kind = "view" /\ obj.refs = {lease}
  BY <1>1 DEF Blank, Object, Kind
<1> HIDE DEF obj
<1>4. /\ Steady
      /\ object' \in [Index -> Object]
      /\ generation' \in [Index -> 0 .. MaxGeneration]
      /\ issued' \subseteq Handle /\ free' \in Seq(Index)
      /\ <<i, generation'[i]>> \in Handle
  BY <1>1, <1>2, <1>3, Stored
<1>5. stack' \in Seq(Frame) /\ Stacked
  BY StackPopped DEF ViewAllocated, Kept
<1>6. Types'
  BY <1>2, <1>4, <1>5 DEF ViewAllocated, Hold, Kept, Types, TypeOK
<1> QED
  BY <1>4, <1>5, <1>6 DEF Good

-----------------------------------------------------------------------------
(* Steps that call Python *)

LEMMA PythonCalled ==
  ASSUME Types, NEW s \in Seq(Frame), NEW h \in Handle, NEW temp \in SUBSET Handle,
         CallPython(s, h, temp), \A k \in DOMAIN s : s[k] = stack'[k] => Continued(k)
  PROVE  /\ stack' \in Seq(Frame) /\ Stacked
         /\ raised' = Null /\ calls' \in [Handle -> Nat]
         /\ Len(stack') = Len(s) + 1 /\ DOMAIN stack' = DOMAIN s \cup {Len(s) + 1}
         /\ stack'[Len(stack')].op = "callback" /\ stack'[Len(stack')].saved = raised
         /\ stack'[Len(stack')].temp = temp /\ stack'[Len(stack')].todo = <<>>
         /\ \A k \in DOMAIN s : stack'[k] = s[k] /\ Continued(k) /\ k # Len(stack')
<1> DEFINE f == Call("callback", temp, raised)
<1>1. /\ f \in Frame /\ f.todo = <<>> /\ f.op = "callback" /\ f.temp = temp
      /\ f.saved = raised
  BY CallType DEF Types, TypeOK
<1>2. stack' = Append(s, f) /\ raised' = Null /\ calls' = [calls EXCEPT ![h] = @ + 1]
  BY DEF CallPython
<1>3. calls' \in [Handle -> Nat]
  BY <1>2 DEF Types, TypeOK
<1> HIDE DEF f
<1>4. /\ stack' \in Seq(Frame) /\ Stacked
      /\ Len(stack') = Len(s) + 1 /\ stack'[Len(stack')] = f
      /\ DOMAIN stack' = DOMAIN s \cup {Len(s) + 1}
      /\ \A k \in DOMAIN s : stack'[k] = s[k] /\ Continued(k) /\ k # Len(stack')
  BY <1>1, <1>2, StackPushed
<1> QED
  BY <1>1, <1>2, <1>3, <1>4

LEMMA ReleaseGood ==
  ASSUME Kept, UNCHANGED program, NEW view \in roots, Release(view)
  PROVE  Good
<1>1. PICK lease \in Handle : lease = LeaseOf(view) /\ IsLease(lease)
  BY ViewHasLease DEF Release, IsLease
<1> DEFINE v == view[1]
           t == lease[1]
           closed == [object[v] EXCEPT !.done = TRUE]
           released == [object EXCEPT ![v].done = TRUE]
<1>2. /\ t \in Index /\ object[t] \in Object /\ object[t].kind = "lease"
      /\ v \in Index /\ object[v] \in Object /\ object[v].kind = "view"
      /\ object[t].views \in Nat /\ t # v
  BY <1>1, Handles DEF IsLease, Alive, At, Used, Release, Kept, Types, TypeOK, Object
<1>3. /\ closed \in Object /\ closed.kind = "view" /\ closed.done
      /\ closed.weak = object[v].weak /\ closed.refs = object[v].refs
  BY <1>2 DEF Object
<1>4. /\ released \in [Index -> Object] /\ released[v] = closed
      /\ \A j \in Index \ {v} : released[j] = object[j]
  BY <1>2, <1>3 DEF Kept, Types, TypeOK
<1>5. ASSUME NEW new \in Object, object' = [released EXCEPT ![t] = new],
             new.kind = object[t].kind, object[t].done => new.done,
             new.weak = object[t].weak
      PROVE  Steady /\ object' \in [Index -> Object]
  <2> HIDE DEF released, closed, v, t
  <2>1. /\ object' \in [Index -> Object] /\ object'[v] = closed /\ object'[t] = new
        /\ \A j \in Index \ {v, t} : object'[j] = object[j]
    BY <1>2, <1>4, <1>5
  <2>2. Touched
    BY <1>2, <1>3, <1>5, <2>1 DEF Touched, Release
  <2>3. \A j \in Used : Evolved(j)
    BY <1>2, <1>3, <1>5, <2>1 DEF Evolved, Used
  <2> QED
    BY <2>1, <2>2, <2>3, SafeTouched
<1>6. /\ Hooked(object[t]) \in Object /\ Hooked(object[t]).kind = "lease"
      /\ Hooked(object[t]).done /\ Hooked(object[t]).weak = object[t].weak
  BY <1>2, HookedType
<1>7. CASE ~At(lease).done /\ LastView(lease)
  <2>1. /\ object' = [released EXCEPT ![t] = Hooked(released[t])]
        /\ CallPython(stack, lease, {lease} \cup At(lease).refs)
    BY <1>1, <1>4, <1>7 DEF Release
  <2>2. Steady /\ object' \in [Index -> Object]
    BY <1>2, <1>4, <1>5, <1>6, <2>1
  <2>3. {lease} \cup At(lease).refs \in SUBSET Handle
    BY <1>2 DEF At, Object
  <2>4. stack \in Seq(Frame) /\ \A k \in DOMAIN stack : stack[k] = stack'[k] => Continued(k)
    BY FrameSame DEF Kept, Types, TypeOK
  <2>5. /\ stack' \in Seq(Frame) /\ Stacked
        /\ raised' = Null /\ calls' \in [Handle -> Nat]
    BY <2>1, <2>3, <2>4, PythonCalled DEF Kept
  <2>6. Types'
    BY <2>2, <2>5 DEF Release, Kept, Types, TypeOK
  <2> QED
    BY <2>2, <2>5, <2>6 DEF Good
<1>8. CASE ~(~At(lease).done /\ LastView(lease))
  <2> DEFINE new == [object[t] EXCEPT !.views = Saturating(object[t].views, 1)]
  <2>1. object' = [released EXCEPT ![t] = new] /\ UNCHANGED <<raised, stack, calls>>
    BY <1>1, <1>2, <1>4, <1>8 DEF Release
  <2>2. /\ new \in Object /\ new.kind = object[t].kind /\ new.done = object[t].done
        /\ new.weak = object[t].weak
    BY <1>2, CountedType, SaturatingType
  <2>3. Steady /\ object' \in [Index -> Object]
    BY <1>5, <2>1, <2>2
  <2>4. stack' \in Seq(Frame) /\ Stacked
    BY <2>1, SameStack DEF Kept
  <2>5. Types'
    BY <2>1, <2>3, <2>4 DEF Release, Kept, Types, TypeOK
  <2> QED
    BY <2>3, <2>4, <2>5 DEF Good
<1> QED
  BY <1>7, <1>8

LEMMA ViewRefusedGood ==
  ASSUME Kept, UNCHANGED program, ViewRefused
  PROVE  Good
<1>1. PICK lease \in Handle :
        lease = NewViewsLease /\ IsLease(lease) /\ Top.temp \subseteq Handle
  BY NewViewHasLease DEF ViewRefused, IsLease
<1> DEFINE t == lease[1]
<1>2. /\ t \in Index /\ object[t] \in Object /\ object[t].views \in Nat
      /\ object \in [Index -> Object] /\ stack # <<>>
  BY Handles DEF ViewRefused, Kept, Types, TypeOK, Object
<1>3. CASE /\ Top.op = "derive"
           /\ object' = [object EXCEPT ![lease[1]].views = Saturating(@, 1)]
           /\ stack' = Below
           /\ UNCHANGED <<raised, calls>>
  <2> DEFINE new == [object[t] EXCEPT !.views = Saturating(object[t].views, 1)]
  <2>1. object' = [object EXCEPT ![t] = new]
    BY <1>2, <1>3
  <2>2. /\ new \in Object /\ new.kind = object[t].kind /\ new.done = object[t].done
        /\ new.weak = object[t].weak /\ new.refs = object[t].refs
    BY <1>2, CountedType, SaturatingType
  <2> HIDE DEF new
  <2>3. Steady /\ object' \in [Index -> Object]
    BY <1>2, <2>1, <2>2, ObjectReplaced DEF ViewRefused
  <2>4. stack' \in Seq(Frame) /\ Stacked
    BY <1>2, <1>3, StackPopped DEF Kept
  <2>5. Types'
    BY <1>3, <2>3, <2>4 DEF ViewRefused, Kept, Types, TypeOK
  <2> QED
    BY <2>3, <2>4, <2>5 DEF Good
<1>4. CASE At(lease).done /\ stack' = Below /\ UNCHANGED <<object, raised, calls>>
  <2>1. stack' \in Seq(Frame) /\ Stacked
    BY <1>2, <1>4, StackPopped DEF Kept
  <2>2. roots' \subseteq Handle /\ raised' \in Handle \cup {Null}
    BY <1>4 DEF ViewRefused, Kept, Types, TypeOK
  <2> QED
    BY <1>4, <2>1, <2>2, QuietGood DEF Good, ViewRefused
<1>5. CASE /\ object' = [object EXCEPT ![lease[1]] = Hooked(@)]
           /\ CallPython(Below, lease, Top.temp)
  <2>1. object' = [object EXCEPT ![t] = Hooked(object[t])]
    BY <1>2, <1>5
  <2>2. Steady /\ object' \in [Index -> Object]
    <3>1. /\ Hooked(object[t]) \in Object /\ Hooked(object[t]).kind = object[t].kind
          /\ Hooked(object[t]).done /\ Hooked(object[t]).weak = object[t].weak
          /\ Hooked(object[t]).refs = object[t].refs
      BY <1>2, HookedType
    <3> QED
      BY <1>2, <2>1, <3>1, ObjectReplaced DEF ViewRefused
  <2>3. Below \in Seq(Frame) /\ \A k \in DOMAIN Below : Below[k] = stack'[k] => Continued(k)
    <3>1. Below \in Seq(Frame) /\ \A k \in DOMAIN Below : k \in DOMAIN stack /\ Below[k] = stack[k]
      BY <1>2, StackBelow DEF Kept, Types, TypeOK
    <3> QED
      BY <3>1, FrameSame DEF Kept
  <2>4. /\ stack' \in Seq(Frame) /\ Stacked
        /\ raised' = Null /\ calls' \in [Handle -> Nat]
    BY <1>1, <1>5, <2>3, PythonCalled DEF Kept
  <2>5. Types'
    BY <2>2, <2>4 DEF ViewRefused, Kept, Types, TypeOK
  <2> QED
    BY <2>2, <2>4, <2>5 DEF Good
<1> QED
  BY <1>1, <1>3, <1>4, <1>5 DEF ViewRefused

(* The stack once the innermost call has begun its first action. *)
Rest == Append(Below, [Top EXCEPT !.todo = Tail(@)])

LEMMA RestFrames ==
  ASSUME Types, stack # <<>>, Top.todo # <<>>
  PROVE  /\ Rest \in Seq(Frame) /\ Len(Rest) = Len(stack) /\ DOMAIN Rest = DOMAIN stack
         /\ \A k \in DOMAIN stack : k # Len(stack) => Rest[k] = stack[k]
         /\ Rest[Len(stack)].op = Top.op /\ Rest[Len(stack)].saved = Top.saved
         /\ Rest[Len(stack)].temp = Top.temp
         /\ Rest[Len(stack)].todo = Tail(Top.todo)
         /\ \A n \in DOMAIN Tail(Top.todo) :
              n + 1 \in DOMAIN Top.todo /\ Tail(Top.todo)[n] = Top.todo[n + 1]
         /\ Head(Top.todo) \in Handle \cup {Null} /\ Head(Top.todo) = Top.todo[1]
         /\ 1 \in DOMAIN Top.todo
<1> DEFINE top == [Top EXCEPT !.todo = Tail(@)]
<1>1. /\ Below \in Seq(Frame) /\ Top \in Frame
      /\ Len(stack) \in DOMAIN stack /\ Top = stack[Len(stack)]
      /\ Len(Below) = Len(stack) - 1
      /\ \A k \in DOMAIN Below : k \in DOMAIN stack /\ Below[k] = stack[k]
      /\ stack \in Seq(Frame)
  BY StackBelow DEF Types, TypeOK
<1>2. Top.todo \in Seq(Handle \cup {Null})
  BY <1>1 DEF Frame
<1>3. /\ Tail(Top.todo) \in Seq(Handle \cup {Null})
      /\ \A n \in 1 .. Len(Tail(Top.todo)) : Tail(Top.todo)[n] = Top.todo[n + 1]
      /\ Len(Tail(Top.todo)) = Len(Top.todo) - 1
      /\ Head(Top.todo) \in Handle \cup {Null}
  BY <1>2, HeadTailProperties
<1>4. /\ \A n \in DOMAIN Tail(Top.todo) :
           n + 1 \in DOMAIN Top.todo /\ Tail(Top.todo)[n] = Top.todo[n + 1]
      /\ Head(Top.todo) = Top.todo[1] /\ 1 \in DOMAIN Top.todo
  BY <1>2, <1>3
<1>5. /\ top \in Frame /\ top.op = Top.op /\ top.saved = Top.saved
      /\ top.temp = Top.temp /\ top.todo = Tail(Top.todo)
  BY <1>1, <1>3 DEF Frame
<1> HIDE DEF top
<1>6. Rest = Append(Below, top)
  BY DEF Rest, top
<1>7. /\ Rest \in Seq(Frame) /\ Len(Rest) = Len(Below) + 1 /\ Rest[Len(Below) + 1] = top
      /\ \A k \in 1 .. Len(Below) : Rest[k] = Below[k]
  BY <1>1, <1>5, <1>6, AppendProperties
<1>8. /\ Len(Rest) = Len(stack) /\ DOMAIN Rest = DOMAIN stack /\ Rest[Len(stack)] = top
      /\ \A k \in DOMAIN stack : k # Len(stack) => Rest[k] = stack[k]
  <2>1. /\ DOMAIN stack = 1 .. Len(stack) /\ DOMAIN Below = 1 .. Len(Below)
        /\ DOMAIN Rest = 1 .. Len(Rest) /\ Len(stack) \in Nat
    BY <1>1, <1>7
  <2> QED
    BY <1>1, <1>7, <2>1
<1> QED
  BY <1>3, <1>4, <1>5, <1>7, <1>8

LEMMA RestContinued ==
  ASSUME Kept, stack # <<>>, Top.op = "collect", Top.todo # <<>>, NEW k \in DOMAIN stack,
         stack'[k] = Rest[k] \/ stack'[k] = Settled(Rest)[k]
  PROVE  Continued(k)
<1>1. /\ Rest \in Seq(Frame) /\ DOMAIN Rest = DOMAIN stack
      /\ \A j \in DOMAIN stack : j # Len(stack) => Rest[j] = stack[j]
      /\ Rest[Len(stack)].op = Top.op /\ Rest[Len(stack)].saved = Top.saved
      /\ Rest[Len(stack)].temp = Top.temp
      /\ Rest[Len(stack)].todo = Tail(Top.todo)
      /\ \A n \in DOMAIN Tail(Top.todo) :
           n + 1 \in DOMAIN Top.todo /\ Tail(Top.todo)[n] = Top.todo[n + 1]
      /\ Top = stack[Len(stack)]
  BY RestFrames DEF Kept, Top
<1>2. /\ stack'[k].op = Rest[k].op /\ stack'[k].saved = Rest[k].saved
      /\ stack'[k].todo = Rest[k].todo
      /\ \/ stack'[k].temp = Rest[k].temp
         \/ Rest[k].op = "collect" /\ Rest[k].todo = <<>> /\ stack'[k].temp = {}
  BY <1>1, SettledFrames
<1>3. stack[k].todo \in Seq(Handle \cup {Null})
  BY FrameTypes DEF Kept
<1>4. \A n \in DOMAIN stack[k].todo : n + 0 = n
  BY <1>3
<1>5. CASE k = Len(stack)
  <2>1. stack[k] = Top /\ stack'[k].todo = Tail(Top.todo)
    BY <1>1, <1>2, <1>5
  <2>2. \E d \in {0, 1} : \A n \in DOMAIN stack'[k].todo :
          n + d \in DOMAIN stack[k].todo /\ stack'[k].todo[n] = stack[k].todo[n + d]
    <3>1. \A n \in DOMAIN stack'[k].todo :
            n + 1 \in DOMAIN stack[k].todo /\ stack'[k].todo[n] = stack[k].todo[n + 1]
      BY <1>1, <2>1
    <3> QED
      BY <3>1
  <2>3. /\ stack'[k].op = stack[k].op /\ stack'[k].saved = stack[k].saved
        /\ \/ stack'[k].temp = stack[k].temp
           \/ stack'[k].op = "collect" /\ stack'[k].todo = <<>> /\ stack'[k].temp = {}
    BY <1>1, <1>2, <1>5, <2>1
  <2> QED
    BY <2>2, <2>3 DEF Continued
<1>6. CASE k # Len(stack)
  BY <1>1, <1>2, <1>4, <1>6 DEF Continued
<1> QED
  BY <1>5, <1>6

LEMMA RunActionGood ==
  ASSUME Kept, UNCHANGED program, RunAction
  PROVE  Good
<1>1. stack # <<>> /\ Top.op = "collect" /\ Top.todo # <<>>
  BY DEF RunAction
<1> DEFINE h == Head(Top.todo)
<1>2. Rest \in Seq(Frame) /\ Len(Rest) = Len(stack) /\ DOMAIN Rest = DOMAIN stack
  BY <1>1, RestFrames DEF Kept
<1>3. CASE stack' = Settled(Rest) /\ UNCHANGED <<object, raised, calls>>
  <2>1. stack' \in Seq(Frame) /\ DOMAIN stack' = DOMAIN stack
    BY <1>2, <1>3, SettledFrames
  <2>2. Stacked
    BY <1>1, <1>3, <2>1, RestContinued DEF Stacked
  <2>3. roots' \subseteq Handle /\ raised' \in Handle \cup {Null}
    BY <1>3 DEF RunAction, Kept, Types, TypeOK
  <2> QED
    BY <1>3, <2>1, <2>2, <2>3, QuietGood DEF Good, RunAction
<1>4. CASE /\ h # Null
           /\ object' = IF At(h).kind = "weakref" THEN object
                        ELSE [object EXCEPT ![h[1]] = Hooked(@)]
           /\ CallPython(Rest, h, {h} \cup
                IF At(h).kind \in {"weakref", "lease"} THEN At(h).refs ELSE {})
  <2> DEFINE temp == {h} \cup IF At(h).kind \in {"weakref", "lease"} THEN At(h).refs ELSE {}
             t == h[1]
  <2>1. h \in Handle
    BY <1>1, <1>4, RestFrames DEF Kept
  <2>2. t \in Index /\ object[t] \in Object /\ object \in [Index -> Object]
    BY <2>1, Handles DEF Kept, Types, TypeOK
  <2>3. temp \in SUBSET Handle
    BY <2>1, <2>2 DEF At, Object
  <2>4. Steady /\ object' \in [Index -> Object]
    <3>1. CASE object' = object
      <4>1. Touched /\ \A i \in Used : Evolved(i)
        BY <3>1 DEF Touched, Evolved, RunAction
      <4> QED
        BY <2>2, <3>1, <4>1, SafeTouched
    <3>2. CASE object' = [object EXCEPT ![t] = Hooked(object[t])]
      <4>1. /\ Hooked(object[t]) \in Object /\ Hooked(object[t]).kind = object[t].kind
            /\ Hooked(object[t]).done /\ Hooked(object[t]).weak = object[t].weak
            /\ Hooked(object[t]).refs = object[t].refs
        BY <2>2, HookedType
      <4> QED
        BY <2>2, <3>2, <4>1, ObjectReplaced DEF RunAction
    <3> QED
      BY <1>4, <3>1, <3>2
  <2>5. \A k \in DOMAIN Rest : Rest[k] = stack'[k] => Continued(k)
    BY <1>1, <1>2, RestContinued
  <2> HIDE DEF temp, h
  <2>6. /\ stack' \in Seq(Frame) /\ Stacked
        /\ raised' = Null /\ calls' \in [Handle -> Nat]
    <3>1. CallPython(Rest, h, temp)
      BY <1>4 DEF temp
    <3> QED
      BY <1>2, <2>1, <2>3, <2>5, <3>1, PythonCalled DEF Kept
  <2>7. Types'
    BY <2>4, <2>6 DEF RunAction, Kept, Types, TypeOK
  <2> QED
    BY <2>4, <2>6, <2>7 DEF Good
<1> QED
  BY <1>3, <1>4 DEF RunAction, Rest

-----------------------------------------------------------------------------
(* A turn of a collection *)

LEMMA ScheduledUsed ==
  ASSUME Kept
  PROVE  /\ Live \subseteq Used /\ Scheduled(Live) \subseteq Used
         /\ Scheduled(Live) \in SUBSET Index
<1>1. Live \subseteq Used /\ Used \subseteq Index
  BY MarkedProperties DEF Live, Used
<1> QED
  BY <1>1 DEF Scheduled, PendingFinalizers, Dead, Cleared

(* The actions of a turn are for used objects, at most one for each. *)
LEMMA ActionsType ==
  ASSUME Kept, NEW actions \in Actions(Live)
  PROVE  /\ actions \in Seq(Handle \cup {Null})
         /\ \A n \in DOMAIN actions : actions[n] # Null =>
              \E i \in Scheduled(Live) : actions[n] = HandleOf(i)
         /\ \A n, m \in DOMAIN actions : actions[n] # Null /\ actions[n] = actions[m] => n = m
<1> DEFINE S == Scheduled(Live)
<1>1. PICK s \in Listings(S, Sooner) :
        actions = [k \in DOMAIN s |-> HandleOf(s[k])] \o Recollect(Live)
  BY DEF Actions
<1>2. S \in SUBSET Index /\ S \subseteq Used
  BY ScheduledUsed
<1>3. s \in Seq(S) /\ \A k, m \in DOMAIN s : s[k] = s[m] => k = m
  <2>1. s \in [1 .. Cardinality(S) -> S] /\ \A i \in S : \E k \in DOMAIN s : s[k] = i
    BY DEF Listings
  <2> HIDE DEF S
  <2> QED
    BY <1>2, <2>1, ListingProperties
<1>4. \A i \in S : HandleOf(i) \in Handle
  BY <1>2, UsedAlive DEF Kept
<1> DEFINE t == [k \in DOMAIN s |-> HandleOf(s[k])]
           r == Recollect(Live)
<1> HIDE DEF S
<1>5. t \in Seq(Handle \cup {Null}) /\ Len(t) = Len(s) /\ DOMAIN t = DOMAIN s
  BY <1>3, <1>4
<1>6. \A k \in DOMAIN t : t[k] = HandleOf(s[k]) /\ s[k] \in S
  BY <1>3
<1>7. r \in Seq(Handle \cup {Null}) /\ \A k \in DOMAIN r : r[k] = Null
  BY DEF Recollect
<1> HIDE DEF t, r
<1>8. /\ actions \in Seq(Handle \cup {Null})
      /\ Len(actions) = Len(t) + Len(r)
      /\ \A k \in 1 .. Len(t) + Len(r) : actions[k] = IF k <= Len(t) THEN t[k] ELSE r[k - Len(t)]
  BY <1>1, <1>5, <1>7, ConcatProperties DEF t, r
<1>9. /\ Len(t) \in Nat /\ DOMAIN t = 1 .. Len(t)
      /\ Len(r) \in Nat /\ DOMAIN r = 1 .. Len(r)
      /\ DOMAIN actions = 1 .. Len(t) + Len(r)
  BY <1>5, <1>7, <1>8
<1>10. \A n \in DOMAIN actions : actions[n] # Null => n \in DOMAIN s /\ actions[n] = HandleOf(s[n])
  <2> SUFFICES ASSUME NEW n \in DOMAIN actions, actions[n] # Null
               PROVE  n \in DOMAIN s /\ actions[n] = HandleOf(s[n])
    OBVIOUS
  <2>1. CASE n <= Len(t)
    <3>1. n \in DOMAIN t /\ actions[n] = t[n]
      BY <1>8, <1>9, <2>1
    <3> QED
      BY <1>5, <1>6, <3>1
  <2>2. CASE ~(n <= Len(t))
    <3>1. n - Len(t) \in DOMAIN r /\ actions[n] = r[n - Len(t)]
      BY <1>8, <1>9, <2>2
    <3> QED
      BY <1>7, <3>1
  <2> QED
    BY <2>1, <2>2
<1>11. ASSUME NEW n \in DOMAIN actions, NEW m \in DOMAIN actions,
              actions[n] # Null, actions[n] = actions[m]
       PROVE  n = m
  <2>1. HandleOf(s[n]) = HandleOf(s[m]) /\ n \in DOMAIN s /\ m \in DOMAIN s
    BY <1>10, <1>11
  <2>2. s[n] = s[m]
    BY <2>1 DEF HandleOf
  <2> QED
    BY <1>3, <2>1, <2>2
<1> QED
  BY <1>5, <1>6, <1>8, <1>10, <1>11 DEF S

LEMMA ActionRootsType ==
  ASSUME Kept, NEW actions \in Actions(Live)
  PROVE  /\ ActionRoots(actions) \in SUBSET Handle
         /\ \A n \in DOMAIN actions :
              actions[n] # Null => actions[n] \in ActionRoots(actions) /\ Alive(actions[n])
<1> DEFINE targets == Range(actions) \ {Null}
<1>1. \A n \in DOMAIN actions : actions[n] \in Handle \cup {Null}
  <2>1. actions \in Seq(Handle \cup {Null})
    BY ActionsType
  <2> QED
    BY <2>1
<1>2. targets \subseteq Handle
  BY <1>1 DEF Range
<1>3. \A h \in Handle : At(h).refs \subseteq Handle
  BY Handles DEF At, Kept, Types, TypeOK, Object
<1>4. ActionRoots(actions) \in SUBSET Handle
  BY <1>2, <1>3 DEF ActionRoots
<1>5. ASSUME NEW n \in DOMAIN actions, actions[n] # Null
      PROVE  actions[n] \in ActionRoots(actions) /\ Alive(actions[n])
  <2>1. actions[n] \in targets
    BY <1>5 DEF Range
  <2>2. PICK i \in Scheduled(Live) : actions[n] = HandleOf(i)
    BY <1>5, ActionsType
  <2>3. Alive(HandleOf(i))
    BY ScheduledUsed, UsedAlive DEF Kept
  <2> QED
    BY <2>1, <2>2, <2>3 DEF ActionRoots
<1> QED
  BY <1>4, <1>5

LEMMA AfterTurnType ==
  ASSUME Kept, NEW i \in Index, NEW live, NEW kept
  PROVE  LET obj == AfterTurn(i, live, kept) IN
         /\ obj \in Object /\ obj.kind = object[i].kind /\ obj.done = object[i].done
         /\ obj.weak = (IF i \in Cleared(live) THEN Null ELSE object[i].weak)
         /\ obj.refs = (IF i \in Pruned(live) THEN {} ELSE object[i].refs)
<1> DEFINE weak == IF i \in Cleared(live) THEN Null ELSE object[i].weak
           refs == IF i \in Pruned(live) THEN {} ELSE object[i].refs
           views == Saturating(object[i].views, Cardinality(DeadViews(i, live)))
           spared == \/ object[i].spared
                     \/ object[i].kind # "lease" /\ i \notin live
                     \/ DeadViews(i, live) \cap kept # {}
<1>1. object[i] \in Object
  BY DEF Kept, Types, TypeOK
<1>2. weak \in Handle \cup {Null} /\ refs \in SUBSET Handle /\ object[i].views \in Nat
  BY <1>1 DEF Object
<1>3. views \in Nat
  <2>1. DeadViews(i, live) \in SUBSET Index
    BY DEF DeadViews, Dead, Used
  <2>2. Cardinality(DeadViews(i, live)) \in Nat
    BY <2>1, Handles, FS_Subset, FS_CardinalityType
  <2> QED
    BY <1>2, <2>2, SaturatingType
<1>4. spared \in BOOLEAN
  OBVIOUS
<1>5. AfterTurn(i, live, kept) =
        [object[i] EXCEPT !.weak = weak, !.refs = refs, !.views = views, !.spared = spared]
  BY <1>1 DEF AfterTurn, Object
<1> HIDE DEF weak, refs, views, spared
<1>6. LET obj == AfterTurn(i, live, kept) IN
      /\ obj \in Object /\ obj.kind = object[i].kind /\ obj.done = object[i].done
      /\ obj.weak = weak /\ obj.refs = refs
  BY <1>1, <1>2, <1>3, <1>4, <1>5 DEF Object
<1> QED
  BY <1>6 DEF weak, refs

(* What a turn keeps. *)
KeptBy(actions) == Live \cup Marked(ActionRoots(actions), {})

TurnBy(actions) ==
  /\ Swept(KeptBy(actions))
  /\ \A i \in KeptBy(actions) : object'[i] = AfterTurn(i, Live, KeptBy(actions))
  /\ IF actions = <<>> THEN stack' = Settled(Below)
     ELSE stack' = Append(Below,
            [Top EXCEPT !.todo = actions, !.temp = ActionRoots(actions)])

LEMMA KeptByClosed ==
  ASSUME Kept, NEW actions \in Actions(Live)
  PROVE  /\ Live \subseteq KeptBy(actions) /\ KeptBy(actions) \subseteq Used
         /\ \A h \in RootHandles \cup ActionRoots(actions) : Alive(h) => h[1] \in KeptBy(actions)
         /\ \A i \in KeptBy(actions) : \A h \in object[i].refs :
              Alive(h) => h[1] \in KeptBy(actions)
<1> DEFINE more == Marked(ActionRoots(actions), {})
<1>1. /\ Live \subseteq Used
      /\ \A h \in RootHandles : Alive(h) => h[1] \in Live
      /\ \A i \in Live : \A h \in object[i].refs : Alive(h) => h[1] \in Live
  BY MarkedProperties DEF Live
<1>2. /\ more \subseteq Used
      /\ \A h \in ActionRoots(actions) : Alive(h) => h[1] \in more
      /\ \A i \in more : \A h \in object[i].refs : Alive(h) => h[1] \in more
  BY MarkedProperties
<1> HIDE DEF more
<1>3. KeptBy(actions) = Live \cup more
  BY DEF KeptBy, more
<1> QED
  BY <1>1, <1>2, <1>3

LEMMA TurnTypes ==
  ASSUME Kept, UNCHANGED program, Turn
  PROVE  \E actions \in Actions(Live) :
           TurnBy(actions) /\ object' \in [Index -> Object] /\ generation' \in [Index -> 0 .. MaxGeneration]
<1>1. PICK actions \in Actions(Live) :
        LET live == Live
            kept == live \cup Marked(ActionRoots(actions), {})
            swept == Used \ kept IN
        /\ object' = [i \in Index |-> IF i \in kept THEN AfterTurn(i, live, kept) ELSE Free]
        /\ generation' = [i \in Index |->
             IF i \in swept THEN SweptGeneration(generation[i]) ELSE generation[i]]
        /\ \E freed \in Listings({i \in swept : generation[i] # MaxGeneration}, BySlot) :
             free' = free \o freed
        /\ IF actions = <<>>
           THEN stack' = Settled(Below)
           ELSE stack' = Append(Below,
                  [Top EXCEPT !.todo = actions, !.temp = ActionRoots(actions)])
  BY DEF Turn
<1> DEFINE kept == KeptBy(actions)
<1>2. /\ object' = [i \in Index |-> IF i \in kept THEN AfterTurn(i, Live, kept) ELSE Free]
      /\ generation' = [i \in Index |->
           IF i \in Used \ kept THEN SweptGeneration(generation[i]) ELSE generation[i]]
      /\ \E freed \in Listings({i \in Used \ kept : generation[i] # MaxGeneration}, BySlot) :
           free' = free \o freed
      /\ IF actions = <<>>
         THEN stack' = Settled(Below)
         ELSE stack' = Append(Below,
                [Top EXCEPT !.todo = actions, !.temp = ActionRoots(actions)])
  BY <1>1 DEF KeptBy
<1>3. kept \subseteq Used /\ Used \subseteq Index
  BY KeptByClosed DEF Used
<1> HIDE DEF kept
<1>4. \A i \in Index : AfterTurn(i, Live, kept) \in Object /\ AfterTurn(i, Live, kept).kind = object[i].kind
  BY AfterTurnType
<1>5. Free \in Object /\ Free.kind = "free"
  BY BlankType DEF Free, Blank
<1>6. object' \in [Index -> Object]
  BY <1>2, <1>4, <1>5
<1>7. generation' \in [Index -> 0 .. MaxGeneration]
  BY <1>2, ConstantsAssumption DEF SweptGeneration, Kept, Types, TypeOK
<1>8. Swept(kept)
  <2>1. \A i \in kept : object'[i].kind = object[i].kind
    BY <1>2, <1>3, <1>4
  <2>2. \A i \in Index \ kept : object'[i].kind = "free"
    BY <1>2, <1>5
  <2> QED
    BY <1>2, <1>3, <2>1, <2>2 DEF Swept, Turn
<1>9. TurnBy(actions)
  BY <1>2, <1>3, <1>8 DEF TurnBy, kept
<1> QED
  BY <1>6, <1>7, <1>9

LEMMA TurnSafe ==
  ASSUME Kept, NEW actions \in Actions(Live), TurnBy(actions)
  PROVE  Safe /\ Used' = KeptBy(actions)
         /\ \A h \in Handle : Alive(h) /\ h[1] \in KeptBy(actions) => Stays(h) /\ Alive(h)'
<1> DEFINE kept == KeptBy(actions)
<1>1. /\ Live \subseteq kept /\ kept \subseteq Used
      /\ \A h \in RootHandles \cup ActionRoots(actions) : Alive(h) => h[1] \in kept
      /\ \A i \in kept : \A h \in object[i].refs : Alive(h) => h[1] \in kept
  BY KeptByClosed
<1>2. Swept(kept) /\ \A i \in kept : object'[i] = AfterTurn(i, Live, kept)
  BY DEF TurnBy
<1>3. Used \subseteq Index
  BY DEF Used
<1> HIDE DEF kept
<1>4. Used' = kept
  BY <1>1, <1>2, <1>3 DEF Swept, Used
<1>5. \A i \in Used \cap Used' : Evolved(i)
  <2> SUFFICES ASSUME NEW i \in kept PROVE Evolved(i)
    BY <1>4
  <2>1. i \in Index /\ object'[i] = AfterTurn(i, Live, kept)
    BY <1>1, <1>2, <1>3
  <2>2. object[i].kind = "view" => i \notin Pruned(Live)
    BY DEF Pruned
  <2> QED
    BY <2>1, <2>2, AfterTurnType DEF Evolved
<1>6. \A h \in Handle : Alive(h) /\ h[1] \in kept => Stays(h) /\ Alive(h)'
  BY <1>1, <1>2, HandlesStay DEF Stays, Kept
<1>7. ASSUME NEW k \in DOMAIN stack, NEW h \in stack[k].temp PROVE Stays(h)
  <2>1. h \in RootHandles
    <3>1. DOMAIN stack = 1 .. Len(stack)
      BY DEF Kept, Types, TypeOK
    <3> QED
      BY <3>1 DEF RootHandles
  <2>2. h \in Handle
    BY FrameTypes DEF Kept
  <2> QED
    BY <1>1, <1>6, <2>1, <2>2 DEF Stays
<1>8. ASSUME NEW i \in Used \cap Used', object[i].kind = "view", NEW l \in object[i].refs
      PROVE  Stays(l)
  <2>1. l \in Handle
    BY <1>3 DEF Kept, Types, TypeOK, Object
  <2> QED
    BY <1>1, <1>4, <1>6, <2>1 DEF Stays
<1>9. Shaped
  BY <1>1, <1>2 DEF Shaped
<1> QED
  BY <1>1, <1>4, <1>5, <1>6, <1>7, <1>8, <1>9 DEF Safe, kept

(* The stack after a turn. *)
LEMMA TurnStack ==
  ASSUME Kept, stack # <<>>, NEW actions \in Actions(Live), TurnBy(actions), actions # <<>>
  PROVE  LET n == Len(stack) IN
         /\ stack' \in Seq(Frame) /\ Len(stack') = n /\ DOMAIN stack' = DOMAIN stack
         /\ n \in DOMAIN stack'
         /\ stack'[n].op = Top.op /\ stack'[n].saved = Top.saved
         /\ stack'[n].todo = actions /\ stack'[n].temp = ActionRoots(actions)
         /\ \A k \in DOMAIN stack : k # n => stack'[k] = stack[k] /\ Continued(k)
<1> DEFINE top == [Top EXCEPT !.todo = actions, !.temp = ActionRoots(actions)]
<1>1. /\ Below \in Seq(Frame) /\ Top \in Frame
      /\ Len(stack) \in DOMAIN stack /\ Top = stack[Len(stack)]
      /\ Len(Below) = Len(stack) - 1
      /\ \A k \in DOMAIN Below : k \in DOMAIN stack /\ Below[k] = stack[k]
      /\ stack \in Seq(Frame)
  BY StackBelow DEF Kept, Types, TypeOK
<1>2. /\ top \in Frame /\ top.op = Top.op /\ top.saved = Top.saved
      /\ top.todo = actions /\ top.temp = ActionRoots(actions)
  BY <1>1, ActionsType, ActionRootsType DEF Frame
<1>3. stack' = Append(Below, top)
  BY DEF TurnBy
<1> HIDE DEF top
<1>4. /\ stack' \in Seq(Frame) /\ Len(stack') = Len(Below) + 1 /\ stack'[Len(Below) + 1] = top
      /\ \A k \in 1 .. Len(Below) : stack'[k] = Below[k]
  BY <1>1, <1>2, <1>3, AppendProperties
<1>5. /\ Len(stack') = Len(stack) /\ DOMAIN stack' = DOMAIN stack /\ stack'[Len(stack)] = top
      /\ \A k \in DOMAIN stack : k # Len(stack) => stack'[k] = stack[k]
  <2>1. /\ DOMAIN stack = 1 .. Len(stack) /\ DOMAIN Below = 1 .. Len(Below)
        /\ DOMAIN stack' = 1 .. Len(stack') /\ Len(stack) \in Nat
    BY <1>1, <1>4
  <2> QED
    BY <1>1, <1>4, <2>1
<1>6. \A k \in DOMAIN stack : k # Len(stack) => Continued(k)
  BY <1>5, FrameSame DEF Kept
<1> QED
  BY <1>1, <1>2, <1>4, <1>5, <1>6

LEMMA TurnKept ==
  ASSUME Kept, UNCHANGED program, Turn
  PROVE  Types' /\ Safe /\ CallsKept'
<1>1. PICK actions \in Actions(Live) :
        TurnBy(actions) /\ object' \in [Index -> Object] /\ generation' \in [Index -> 0 .. MaxGeneration]
  BY TurnTypes
<1>2. /\ Safe /\ Used' = KeptBy(actions)
      /\ \A h \in Handle : Alive(h) /\ h[1] \in KeptBy(actions) => Alive(h)'
  BY <1>1, TurnSafe
<1>3. free' \in Seq(Index)
  BY <1>1, KeptByClosed, SlotsSwept DEF TurnBy, Kept
<1>4. builtins' \subseteq Handle \X Handle
  BY DEF Turn, Kept, Types, TypeOK
<1>5. CASE actions = <<>>
  <2>1. stack' \in Seq(Frame) /\ Stacked
    BY <1>1, <1>5, StackPopped DEF TurnBy, Turn, Kept
  <2>2. Types'
    BY <1>1, <1>3, <1>4, <2>1 DEF Turn, Kept, Types, TypeOK
  <2> QED
    BY <1>2, <2>1, <2>2, CallsStep
<1>6. CASE actions # <<>>
  <2>1. /\ stack' \in Seq(Frame) /\ Len(stack') = Len(stack) /\ DOMAIN stack' = DOMAIN stack
        /\ stack'[Len(stack)].op = "collect"
        /\ stack'[Len(stack)].todo = actions /\ stack'[Len(stack)].temp = ActionRoots(actions)
        /\ \A k \in DOMAIN stack : k # Len(stack) => Continued(k)
    BY <1>1, <1>6, TurnStack DEF Turn
  <2>2. Types'
    BY <1>1, <1>3, <1>4, <2>1 DEF Turn, Kept, Types, TypeOK
  <2>3. ASSUME NEW n \in DOMAIN actions, NEW h, h = actions[n], h # Null
        PROVE  h \in ActionRoots(actions) /\ Alive(h)'
    <3>1. h \in ActionRoots(actions) /\ Alive(h) /\ h \in Handle
      BY <2>3, ActionRootsType
    <3> QED
      BY <1>2, <3>1, KeptByClosed
  <2>4. FrameKept(Len(stack))'
    <3>1. PICK n : n = Len(stack)
      OBVIOUS
    <3>2. FrameKept(n)'
      BY <2>1, <2>3, <3>1 DEF FrameKept
    <3> QED
      BY <2>1, <3>1, <3>2
  <2>5. (\A k \in DOMAIN stack : FrameKept(k))'
    BY <1>2, <2>1, <2>4, FrameContinued
  <2> QED
    BY <1>2, <2>2, <2>5, ViewsStep DEF CallsKept
<1> QED
  BY <1>5, <1>6

-----------------------------------------------------------------------------
(* Types and handles *)

LEMMA PythonGood == Kept /\ Python /\ UNCHANGED program => Good
<1> SUFFICES ASSUME Kept, Python, UNCHANGED program PROVE Good
  OBVIOUS
<1>0. AtMostOne \subseteq SUBSET roots
  BY DEF AtMostOne
<1>1. ASSUME NEW kind \in {"plain", "instance", "generator", "container"},
             NEW child \in AtMostOne, New(kind, child)
      PROVE  Good
  BY <1>0, <1>1, NewGood
<1>2. ASSUME NEW h \in roots, NewFunction(h) \/ Drop(h) \/ Raise(h) PROVE Good
  BY <1>2, NewFunctionGood, DropGood, RaiseGood
<1>3. ASSUME NEW h \in roots, NEW value \in AtMostOne, NewWeakref(h, value) \/ Link(h, value)
      PROVE  Good
  BY <1>0, <1>3, NewWeakrefGood, LinkGood
<1>4. ASSUME NEW h \in roots, NEW key \in roots, NEW value \in AtMostOne, Insert(h, key, value)
      PROVE  Good
  BY <1>0, <1>4, InsertGood
<1>5. ASSUME NEW h \in Handle, Load(h) \/ LoadArgument(h) PROVE Good
  BY <1>5, LoadGood
<1>6. ASSUME NEW w \in Index, Dereference(w) PROVE Good
  BY <1>6, DereferenceGood
<1>7. CASE Catch
  BY <1>7, CatchGood
<1>8. ASSUME NEW h \in roots, Acquire(h) \/ Derive(h) \/ Release(h) PROVE Good
  BY <1>8, AcquireGood, DeriveGood, ReleaseGood
<1> QED
  BY <1>1, <1>2, <1>3, <1>4, <1>5, <1>6, <1>7, <1>8 DEF Python

LEMMA StepGood ==
  Kept /\ Next => Types' /\ Safe /\ CallsKept' /\ (~Turn => Stacked /\ AllStay)
<1> SUFFICES ASSUME Kept, Next
             PROVE  Types' /\ Safe /\ CallsKept' /\ (~Turn => Stacked /\ AllStay)
  OBVIOUS
<1>1. CASE Turn
  BY <1>1, TurnKept DEF Next
<1>2. CASE ~Turn
  <2>1. Good
    BY <1>2, PythonGood, ViewAllocatedGood, ViewRefusedGood, CollectGood, RunActionGood,
       CallbackReturnsGood DEF Next
  <2> QED
    BY <2>1, CallsStep DEF Good, Steady
<1> QED
  BY <1>1, <1>2

LEMMA KeptInit == Init => Kept
<1> SUFFICES ASSUME Init PROVE Kept
  OBVIOUS
<1>1. Free \in Object /\ Free.kind = "free"
  BY BlankType DEF Free, Blank
<1>2. object \in [Index -> Object] /\ Used = {} /\ DOMAIN free = {} /\ DOMAIN stack = {}
  BY <1>1 DEF Init, Used
<1>3. generation \in [Index -> 0 .. MaxGeneration] /\ calls \in [Handle -> Nat]
  BY ConstantsAssumption DEF Init
<1>4. Types
  BY <1>2, <1>3 DEF Init, Types, TypeOK
<1>5. SlotsKept /\ CallsKept
  BY <1>1, <1>2 DEF Init, SlotsKept, CallsKept, ViewsKept
<1> QED
  BY <1>4, <1>5 DEF Kept

LEMMA KeptStutters == Kept /\ UNCHANGED vars => Kept'
<1> SUFFICES ASSUME Kept, UNCHANGED vars PROVE Kept'
  OBVIOUS
<1>1. UNCHANGED <<program, object, generation, free, builtins, roots, raised, stack, issued, calls>>
  BY DEF vars, heapVars
<1>2. Types'
  BY <1>1 DEF Kept, Types, TypeOK
<1>3. SlotsKept'
  <2>1. Touched
    BY <1>1 DEF Touched
  <2> QED
    BY <2>1, SlotsTouched DEF Kept
<1>4. CallsKept'
  <2>1. Types' /\ Safe /\ Stacked
    BY <1>1, QuietGood, SameStack DEF Kept, Types, TypeOK, Steady
  <2> QED
    BY <2>1, CallsStep
<1> QED
  BY <1>2, <1>3, <1>4 DEF Kept

LEMMA KeptStep == Kept /\ [Next]_vars => Kept'
<1> SUFFICES ASSUME Kept, [Next]_vars PROVE Kept'
  OBVIOUS
<1>1. CASE Next
  <2>1. Types' /\ Safe /\ CallsKept'
    BY <1>1, StepGood
  <2> QED
    BY <2>1, SlotsStep DEF Kept, Safe
<1> QED
  BY <1>1, KeptStutters

LEMMA KeptAlways == Spec => []Kept
<1> QED
  BY KeptInit, KeptStep, PTL DEF Spec

(* Type correctness: whatever Python the callbacks of nested collections    *)
(* run, the heap, the free list and the call stack keep their types; no     *)
(* view ever looks for a lease it does not have.                            *)
THEOREM HeapTypeCorrect == Spec => []TypeOK
<1>1. Kept => TypeOK
  BY DEF Kept, Types
<1> QED
  BY <1>1, KeptAlways, PTL

(* A handle whose object was swept is never that of another object, for any *)
(* number of slots and generations: the sweep raises the generation, and    *)
(* retires a slot at the last one.                                         *)
THEOREM HandlesNotReused == Spec => NoAlias
<1>1. Kept /\ [Next]_vars => [\A h \in issued : ~Alive(h) => ~Alive(h)']_vars
  <2> SUFFICES ASSUME Kept, Next, NEW h \in issued, ~Alive(h) PROVE ~Alive(h)'
    OBVIOUS
  <2>1. Shaped
    BY StepGood DEF Safe
  <2> QED
    BY <2>1, HandlesGone DEF Kept
<1> QED
  BY <1>1, KeptAlways, PTL DEF Spec, NoAlias

-----------------------------------------------------------------------------
(* Hooks *)

HooksSound == HooksKept /\ WeakrefsOnce

(* Once Python was called for an object, the object shows it. *)
Marks(h) == IF At(h).kind = "weakref" THEN At(h).weak = Null ELSE At(h).done

(* The step calls Python for h, for the first time. *)
CalledFor(h) ==
  /\ calls[h] = 0 /\ calls' = [calls EXCEPT ![h] = @ + 1]
  /\ h \in issued
  /\ Marks(h)'
  /\ \A k \in DOMAIN stack' : \A n \in DOMAIN stack'[k].todo :
       stack'[k].todo[n] = h => (At(h).kind)' # "weakref"

LEMMA IssuedGrows == Shaped => issued \subseteq issued'
BY DEF Shaped, Touched, Grown, Swept

LEMMA HandleIssued ==
  ASSUME Kept, NEW h \in Handle, Alive(h)
  PROVE  h \in issued
<1>1. h[1] \in Used /\ h = <<h[1], generation[h[1]]>>
  BY Handles DEF Alive
<1> QED
  BY <1>1 DEF Kept, SlotsKept

(* An object that is still there has kept its marks. *)
LEMMA MarksStay ==
  ASSUME Kept, Safe, NEW h \in issued, Alive(h)', Alive(h) => Marks(h)
  PROVE  Marks(h)' /\ Alive(h)
<1>1. Alive(h)
  BY HandlesGone DEF Safe, Kept
<1>2. h[1] \in Used \cap Used'
  BY <1>1 DEF Alive
<1>3. object'[h[1]].kind = object[h[1]].kind /\ Evolved(h[1])
  BY <1>2, SlotStays DEF Safe
<1> QED
  BY <1>1, <1>3 DEF Marks, At, Evolved

LEMMA HooksStep ==
  ASSUME Kept, HooksKept, Safe, UNCHANGED calls \/ \E h \in Handle : CalledFor(h)
  PROVE  HooksKept'
<1>1. SUFFICES ASSUME NEW g \in Handle
               PROVE  /\ calls'[g] <= 1
                      /\ calls'[g] = 1 => g \in issued'
                      /\ Alive(g)' /\ calls'[g] = 1 => Marks(g)'
  BY DEF HooksKept, Marks
<1>2. calls[g] \in Nat /\ calls[g] <= 1 /\ (calls[g] = 1 => g \in issued)
      /\ (Alive(g) /\ calls[g] = 1 => Marks(g))
  BY DEF HooksKept, Marks, Kept, Types, TypeOK
<1>3. issued \subseteq issued'
  BY IssuedGrows DEF Safe
<1>4. CASE calls'[g] = calls[g]
  BY <1>2, <1>3, <1>4, MarksStay
<1>5. ASSUME CalledFor(g)
      PROVE  calls'[g] <= 1 /\ g \in issued' /\ Marks(g)'
  <2>1. calls'[g] = 1
    BY <1>5 DEF CalledFor, Kept, Types, TypeOK
  <2> QED
    BY <1>3, <1>5, <2>1 DEF CalledFor
<1>6. \A h \in Handle : CalledFor(h) /\ h # g => calls'[g] = calls[g]
  BY DEF CalledFor, Kept, Types, TypeOK
<1> QED
  BY <1>4, <1>5, <1>6

(* A scheduled callback that goes on waiting. *)
LEMMA CallbackWaits ==
  ASSUME Kept, HooksSound, Safe, stack' \in Seq(Frame), NEW k \in DOMAIN stack', Continued(k),
         NEW n \in DOMAIN stack'[k].todo, NEW h, h = stack'[k].todo[n], h # Null,
         (At(h).kind)' = "weakref", UNCHANGED calls \/ \E g \in Handle : CalledFor(g)
  PROVE  /\ Alive(h) /\ At(h).kind = "weakref" /\ (At(h).weak)' = Null /\ calls'[h] = 0
         /\ \A m \in DOMAIN stack' : Continued(m) =>
              \A p \in DOMAIN stack'[m].todo : stack'[m].todo[p] = h => m = k /\ p = n
<1>1. PICK d \in {0, 1} : \A q \in DOMAIN stack'[k].todo :
        q + d \in DOMAIN stack[k].todo /\ stack'[k].todo[q] = stack[k].todo[q + d]
  BY DEF Continued
<1>2. k \in DOMAIN stack /\ n + d \in DOMAIN stack[k].todo /\ h = stack[k].todo[n + d]
  BY <1>1 DEF Continued
<1>3. h \in stack[k].temp /\ Alive(h) /\ Stays(h)
  BY <1>2 DEF Kept, CallsKept, FrameKept, Safe
<1>4. At(h).kind = "weakref" /\ Alive(h)'
  BY <1>3 DEF Stays
<1>5. /\ At(h).weak = Null /\ calls[h] = 0
      /\ \A m \in DOMAIN stack : \A p \in DOMAIN stack[m].todo :
           stack[m].todo[p] = h => m = k /\ p = n + d
  BY <1>2, <1>4 DEF HooksSound, WeakrefsOnce
<1>6. (At(h).weak)' = Null
  <2>1. h[1] \in Used \cap Used'
    BY <1>3, <1>4 DEF Alive
  <2> QED
    BY <1>5, <2>1 DEF Safe, Evolved, At
<1>7. calls'[h] = 0
  <2>1. h \in Handle
    BY <1>2, <1>3, FrameTypes DEF Kept
  <2>2. \A g \in Handle : CalledFor(g) => g # h
    BY DEF CalledFor
  <2> QED
    BY <1>5, <2>1, <2>2 DEF CalledFor, Kept, Types, TypeOK
<1>8. ASSUME NEW m \in DOMAIN stack', Continued(m), NEW p \in DOMAIN stack'[m].todo,
             stack'[m].todo[p] = h
      PROVE  m = k /\ p = n
  <2>1. PICK e \in {0, 1} : \A q \in DOMAIN stack'[m].todo :
          q + e \in DOMAIN stack[m].todo /\ stack'[m].todo[q] = stack[m].todo[q + e]
    BY <1>8 DEF Continued
  <2>2. m \in DOMAIN stack /\ p + e \in DOMAIN stack[m].todo /\ stack[m].todo[p + e] = h
    BY <1>8, <2>1 DEF Continued
  <2>3. m = k
    BY <1>5, <2>2
  <2>4. p + d \in DOMAIN stack[k].todo /\ stack[k].todo[p + d] = h
    BY <1>1, <1>8, <2>3
  <2>5. p + d = n + d
    BY <1>5, <1>2, <2>4
  <2>6. p \in Int /\ n \in Int
    <3>1. stack'[k] \in Frame
      OBVIOUS
    <3>2. stack'[k].todo \in Seq(Handle \cup {Null})
      BY <3>1 DEF Frame
    <3> QED
      BY <1>8, <2>3, <3>2
  <2> QED
    BY <2>3, <2>5, <2>6
<1> QED
  BY <1>3, <1>4, <1>6, <1>7, <1>8

LEMMA WeakrefsStep ==
  ASSUME Kept, HooksSound, Safe, Stacked, stack' \in Seq(Frame), UNCHANGED calls \/ \E h \in Handle : CalledFor(h)
  PROVE  WeakrefsOnce'
<1>1. ASSUME NEW k \in DOMAIN stack', NEW n \in DOMAIN stack'[k].todo
      PROVE  Continued(k)
  <2>1. ~Begun(k)
    BY <1>1 DEF Begun
  <2> QED
    BY <2>1 DEF Stacked
<1>2. ASSUME NEW k \in DOMAIN stack', NEW n \in DOMAIN stack'[k].todo,
             NEW h, h = stack'[k].todo[n], h # Null, (At(h).kind)' = "weakref"
      PROVE  /\ (At(h).weak)' = Null /\ calls'[h] = 0
             /\ \A m \in DOMAIN stack' : \A p \in DOMAIN stack'[m].todo :
                  stack'[m].todo[p] = h => m = k /\ p = n
  BY <1>1, <1>2, CallbackWaits
<1> QED
  BY <1>2 DEF WeakrefsOnce

(* A lease whose hook starts: it was not released before. *)
LEMMA LeaseCalled ==
  ASSUME Kept, HooksKept, NEW lease \in Handle, IsLease(lease), ~At(lease).done,
         calls' = [calls EXCEPT ![lease] = @ + 1],
         object'[lease[1]] = Hooked(object[lease[1]])
  PROVE  CalledFor(lease)
<1>1. lease[1] \in Index /\ object[lease[1]] \in Object /\ object[lease[1]].kind = "lease"
  BY Handles DEF IsLease, At, Kept, Types, TypeOK
<1>2. object'[lease[1]].kind = "lease" /\ object'[lease[1]].done
  BY <1>1, HookedType
<1>3. calls[lease] = 0
  <2>1. calls[lease] \in Nat /\ calls[lease] <= 1 /\ calls[lease] # 1
    BY <1>1 DEF HooksKept, IsLease, At, Kept, Types, TypeOK
  <2> QED
    BY <2>1
<1> QED
  BY <1>2, <1>3, HandleIssued DEF CalledFor, IsLease, Marks, At

LEMMA ReleaseCalls ==
  ASSUME Kept, HooksKept, NEW view \in roots, Release(view)
  PROVE  UNCHANGED calls \/ \E h \in Handle : CalledFor(h)
<1>1. PICK lease \in Handle : lease = LeaseOf(view) /\ IsLease(lease)
  BY ViewHasLease DEF Release, IsLease
<1>2. CASE ~At(lease).done /\ LastView(lease)
  <2> DEFINE released == [object EXCEPT ![view[1]].done = TRUE]
  <2>1. /\ object' = [released EXCEPT ![lease[1]] = Hooked(@)]
        /\ calls' = [calls EXCEPT ![lease] = @ + 1]
    BY <1>1, <1>2 DEF Release, CallPython
  <2>2. view[1] # lease[1] /\ lease[1] \in Index
    BY <1>1, Handles DEF IsLease, At, Release
  <2>3. object'[lease[1]] = Hooked(object[lease[1]])
    BY <2>1, <2>2 DEF Kept, Types, TypeOK
  <2> QED
    BY <1>1, <1>2, <2>1, <2>3, LeaseCalled
<1>3. CASE ~(~At(lease).done /\ LastView(lease))
  BY <1>1, <1>3 DEF Release
<1> QED
  BY <1>2, <1>3

LEMMA ViewRefusedCalls ==
  ASSUME Kept, HooksKept, ViewRefused
  PROVE  UNCHANGED calls \/ \E h \in Handle : CalledFor(h)
<1>1. PICK lease \in Handle : lease = NewViewsLease /\ IsLease(lease)
  BY NewViewHasLease DEF ViewRefused, IsLease
<1>2. CASE ~At(lease).done /\ ~UNCHANGED calls
  <2>1. /\ object' = [object EXCEPT ![lease[1]] = Hooked(@)]
        /\ calls' = [calls EXCEPT ![lease] = @ + 1]
    BY <1>1, <1>2 DEF ViewRefused, CallPython
  <2>2. object'[lease[1]] = Hooked(object[lease[1]])
    BY <2>1, Handles DEF Kept, Types, TypeOK
  <2> QED
    BY <1>1, <1>2, <2>1, <2>2, LeaseCalled
<1>3. CASE At(lease).done
  BY <1>1, <1>3 DEF ViewRefused
<1> QED
  BY <1>2, <1>3

(* The first action of a collection, when it is not to be skipped. *)
LEMMA ActionCalled ==
  ASSUME Kept, HooksSound, RunAction, NEW h, h = Head(Top.todo), h # Null, ~At(h).done
  PROVE  h \in Handle /\ CalledFor(h)
<1> DEFINE last == Len(stack)
<1>1. /\ stack # <<>> /\ Top.op = "collect" /\ Top.todo # <<>> /\ Top = stack[last]
      /\ last \in DOMAIN stack
  BY StackBelow DEF RunAction, Kept, Types, TypeOK
<1>2. /\ Rest \in Seq(Frame) /\ Len(Rest) = last /\ DOMAIN Rest = DOMAIN stack
      /\ \A k \in DOMAIN stack : k # last => Rest[k] = stack[k]
      /\ Rest[last].todo = Tail(Top.todo)
      /\ \A n \in DOMAIN Tail(Top.todo) :
           n + 1 \in DOMAIN Top.todo /\ Tail(Top.todo)[n] = Top.todo[n + 1]
      /\ h \in Handle \cup {Null} /\ h = Top.todo[1] /\ 1 \in DOMAIN Top.todo
      /\ \A n \in DOMAIN Tail(Top.todo) : n \in Nat \ {0}
  <2>1. Tail(Top.todo) \in Seq(Handle \cup {Null})
    BY <1>1, FrameTypes, HeadTailProperties DEF Kept
  <2> QED
    BY <1>1, <2>1, RestFrames DEF Kept
<1>3. h \in Handle /\ Alive(h)
  BY <1>1, <1>2 DEF Kept, CallsKept, FrameKept
<1>4. /\ object' = IF At(h).kind = "weakref" THEN object
                   ELSE [object EXCEPT ![h[1]] = Hooked(@)]
      /\ CallPython(Rest, h, {h} \cup
           IF At(h).kind \in {"weakref", "lease"} THEN At(h).refs ELSE {})
  BY DEF RunAction, Rest
<1>5. /\ calls' = [calls EXCEPT ![h] = @ + 1]
      /\ DOMAIN stack' = DOMAIN stack \cup {last + 1}
      /\ stack'[last + 1].todo = <<>>
      /\ \A k \in DOMAIN stack : stack'[k] = Rest[k]
  <2> DEFINE temp == {h} \cup IF At(h).kind \in {"weakref", "lease"} THEN At(h).refs ELSE {}
  <2>1. temp \in SUBSET Handle
    BY <1>3, Handles DEF At, Object, Kept, Types, TypeOK
  <2>2. \A k \in DOMAIN Rest : Rest[k] = stack'[k] => Continued(k)
    BY <1>1, <1>2, RestContinued
  <2> HIDE DEF temp
  <2>3. CallPython(Rest, h, temp)
    BY <1>4 DEF temp
  <2>4. Rest \in Seq(Frame) /\ Types
    BY <1>2 DEF Kept
  <2>5. /\ DOMAIN stack' = DOMAIN Rest \cup {Len(Rest) + 1} /\ Len(stack') = Len(Rest) + 1
        /\ stack'[Len(stack')].todo = <<>>
        /\ \A k \in DOMAIN Rest : stack'[k] = Rest[k]
    BY <1>3, <2>1, <2>2, <2>3, <2>4, PythonCalled
  <2>6. calls' = [calls EXCEPT ![h] = @ + 1]
    BY <2>3 DEF CallPython
  <2> QED
    BY <1>2, <2>5, <2>6
<1>6. CASE At(h).kind = "weakref"
  <2>1. /\ At(h).weak = Null /\ calls[h] = 0
        /\ \A m \in DOMAIN stack : \A p \in DOMAIN stack[m].todo :
             stack[m].todo[p] = h => m = last /\ p = 1
    BY <1>1, <1>2, <1>3, <1>6, Handles DEF HooksSound, WeakrefsOnce
  <2>2. ASSUME NEW k \in DOMAIN stack', NEW n \in DOMAIN stack'[k].todo, stack'[k].todo[n] = h
        PROVE  FALSE
    <3>1. k \in DOMAIN stack /\ stack'[k] = Rest[k]
      <4>1. DOMAIN <<>> = {}
        OBVIOUS
      <4> QED
        BY <1>5, <2>2, <4>1
    <3>2. CASE k # last
      BY <1>2, <2>1, <2>2, <3>1, <3>2
    <3>3. CASE k = last
      <4>1. n \in DOMAIN Tail(Top.todo) /\ Tail(Top.todo)[n] = h
        BY <1>2, <2>2, <3>1, <3>3
      <4>2. n + 1 \in DOMAIN stack[last].todo /\ stack[last].todo[n + 1] = h /\ n \in Nat \ {0}
        BY <1>1, <1>2, <4>1
      <4>3. n + 1 = 1
        BY <1>1, <2>1, <4>2
      <4> QED
        BY <4>2, <4>3
    <3> QED
      BY <3>2, <3>3
  <2>3. Marks(h)'
    BY <1>4, <1>6, <2>1 DEF Marks, At
  <2> QED
    BY <1>3, <1>5, <2>1, <2>2, <2>3, HandleIssued DEF CalledFor
<1>7. CASE At(h).kind # "weakref"
  <2>1. calls[h] = 0
    <3>1. calls[h] \in Nat /\ calls[h] <= 1 /\ calls[h] # 1
      BY <1>3, <1>7 DEF HooksSound, HooksKept, Kept, Types, TypeOK
    <3> QED
      BY <3>1
  <2>2. object'[h[1]] = Hooked(object[h[1]]) /\ object[h[1]] \in Object
    BY <1>3, <1>4, <1>7, Handles DEF Kept, Types, TypeOK
  <2>3. (At(h).kind)' # "weakref" /\ (At(h).done)'
    BY <1>7, <2>2, HookedType DEF At
  <2> QED
    BY <1>3, <1>5, <2>1, <2>3, HandleIssued DEF CalledFor, Marks
<1> QED
  BY <1>3, <1>6, <1>7

LEMMA RunActionCalls ==
  ASSUME Kept, HooksSound, RunAction
  PROVE  UNCHANGED calls \/ \E h \in Handle : CalledFor(h)
<1>1. CASE Head(Top.todo) = Null \/ At(Head(Top.todo)).done
  BY <1>1 DEF RunAction
<1>2. CASE ~(Head(Top.todo) = Null \/ At(Head(Top.todo)).done)
  BY <1>2, ActionCalled
<1> QED
  BY <1>1, <1>2

LEMMA StepCalls ==
  ASSUME Kept, HooksSound, Next
  PROVE  UNCHANGED calls \/ \E h \in Handle : CalledFor(h)
<1>1. CASE Python
  <2>1. UNCHANGED calls \/ \E h \in roots : Release(h)
    BY <1>1 DEF Python, New, NewFunction, Drop, Raise, NewWeakref, Link, Insert, Load,
       LoadArgument, Dereference, Catch, Acquire, Derive
  <2> QED
    BY <2>1, ReleaseCalls DEF HooksSound
<1>2. CASE ViewRefused
  BY <1>2, ViewRefusedCalls DEF HooksSound
<1>3. CASE RunAction
  BY <1>3, RunActionCalls
<1>4. CASE ViewAllocated \/ Collect \/ Turn \/ CallbackReturns
  BY <1>4 DEF ViewAllocated, Collect, Turn, CallbackReturns
<1> QED
  BY <1>1, <1>2, <1>3, <1>4 DEF Next

(* A turn schedules the callback of a weak reference that it clears, and of *)
(* no other.                                                               *)
LEMMA CallbackScheduled ==
  ASSUME Kept, HooksSound, NEW actions \in Actions(Live), TurnBy(actions),
         NEW n \in DOMAIN actions, NEW h, h = actions[n], h # Null,
         At(h).kind = "weakref"
  PROVE  /\ h \in Handle /\ Alive(h) /\ At(h).weak # Null /\ calls[h] = 0
         /\ h[1] \in Cleared(Live) /\ h[1] \in Live
<1>1. PICK i \in Scheduled(Live) : h = HandleOf(i)
  BY ActionsType
<1>2. h \in Handle /\ Alive(h) /\ At(h) = object[i] /\ h[1] = i
  BY <1>1, ScheduledUsed, UsedAlive DEF Kept, HandleOf
<1>3. i \in Cleared(Live)
  BY <1>2 DEF Scheduled, PendingFinalizers, Dead
<1>4. object[i].weak # Null /\ i \in Live
  BY <1>3 DEF Cleared, Observing
<1>5. calls[h] \in Nat /\ calls[h] <= 1 /\ calls[h] # 1
  BY <1>2, <1>4 DEF HooksSound, HooksKept, Kept, Types, TypeOK
<1> QED
  BY <1>2, <1>3, <1>4, <1>5

LEMMA WeakrefsTurn ==
  ASSUME Kept, HooksSound, UNCHANGED program, Turn
  PROVE  WeakrefsOnce'
<1>1. PICK actions \in Actions(Live) : TurnBy(actions)
  BY TurnTypes
<1>2. Safe /\ Types' /\ UNCHANGED calls
  BY TurnKept DEF Turn
<1>3. stack' \in Seq(Frame)
  BY <1>2 DEF Types, TypeOK
<1>4. CASE actions = <<>>
  <2>1. Stacked
    BY <1>1, <1>4, StackPopped DEF TurnBy, Turn, Kept
  <2> QED
    BY <1>2, <1>3, <2>1, WeakrefsStep
<1>5. CASE actions # <<>>
  <2> DEFINE last == Len(stack)
  <2>1. /\ DOMAIN stack' = DOMAIN stack /\ last \in DOMAIN stack'
        /\ stack'[last].todo = actions
        /\ \A k \in DOMAIN stack : k # last => Continued(k)
    BY <1>1, <1>5, TurnStack DEF Turn
  <2> HIDE DEF last
  <2>2. ASSUME NEW n \in DOMAIN actions, NEW h, h = actions[n], h # Null,
               (At(h).kind)' = "weakref"
        PROVE  /\ At(h).weak # Null /\ (At(h).weak)' = Null /\ calls'[h] = 0
    <3>1. h \in Handle /\ Alive(h) /\ h[1] \in KeptBy(actions)
      <4>1. h \in ActionRoots(actions) /\ Alive(h) /\ h \in Handle
        BY <2>2, ActionRootsType
      <4> QED
        BY <4>1, KeptByClosed
    <3>2. At(h).kind = "weakref"
      BY <1>1, <2>2, <3>1, TurnSafe DEF Stays
    <3>3. At(h).weak # Null /\ calls[h] = 0 /\ h[1] \in Cleared(Live)
      BY <1>1, <2>2, <3>2, CallbackScheduled
    <3>4. object'[h[1]] = AfterTurn(h[1], Live, KeptBy(actions)) /\ h[1] \in Index
      BY <1>1, <3>1, Handles DEF TurnBy
    <3>5. (At(h).weak)' = Null
      BY <3>3, <3>4, AfterTurnType DEF At
    <3> QED
      BY <1>2, <3>3, <3>5
  <2>3. ASSUME NEW k \in DOMAIN stack, k # last, NEW n \in DOMAIN stack'[k].todo,
               NEW h, h = stack'[k].todo[n], h # Null, (At(h).kind)' = "weakref"
        PROVE  /\ At(h).weak = Null /\ (At(h).weak)' = Null /\ calls'[h] = 0
               /\ \A m \in DOMAIN stack : m # last =>
                    \A p \in DOMAIN stack'[m].todo : stack'[m].todo[p] = h => m = k /\ p = n
    <3>1. Continued(k) /\ k \in DOMAIN stack'
      BY <2>1, <2>3
    <3>2. /\ Alive(h) /\ At(h).kind = "weakref" /\ (At(h).weak)' = Null /\ calls'[h] = 0
          /\ \A m \in DOMAIN stack' : Continued(m) =>
               \A p \in DOMAIN stack'[m].todo : stack'[m].todo[p] = h => m = k /\ p = n
      BY <1>2, <1>3, <2>3, <3>1, CallbackWaits
    <3>3. At(h).weak = Null
      <4>1. PICK d \in {0, 1} :
              n + d \in DOMAIN stack[k].todo /\ stack'[k].todo[n] = stack[k].todo[n + d]
        BY <2>3, <3>1 DEF Continued
      <4> QED
        BY <2>3, <3>2, <4>1 DEF HooksSound, WeakrefsOnce
    <3> QED
      BY <2>1, <3>2, <3>3
  <2>4. ASSUME NEW k \in DOMAIN stack', NEW n \in DOMAIN stack'[k].todo,
               NEW h, h = stack'[k].todo[n], h # Null, (At(h).kind)' = "weakref"
        PROVE  /\ (At(h).weak)' = Null /\ calls'[h] = 0
               /\ \A m \in DOMAIN stack' : \A p \in DOMAIN stack'[m].todo :
                    stack'[m].todo[p] = h => m = k /\ p = n
    <3>1. CASE k = last
      <4>1. ASSUME NEW m \in DOMAIN stack', NEW p \in DOMAIN stack'[m].todo,
                   stack'[m].todo[p] = h
            PROVE  m = k /\ p = n
        <5>1. m = last
          BY <2>1, <2>2, <2>3, <2>4, <3>1, <4>1
        <5>2. \A q, r \in DOMAIN actions : actions[q] # Null /\ actions[q] = actions[r] => q = r
          BY ActionsType
        <5> QED
          BY <2>1, <2>4, <3>1, <4>1, <5>1, <5>2
      <4> QED
        BY <2>1, <2>2, <2>4, <3>1, <4>1
    <3>2. CASE k # last
      BY <2>1, <2>2, <2>3, <2>4, <3>2
    <3> QED
      BY <3>1, <3>2
  <2> QED
    BY <2>4 DEF WeakrefsOnce
<1> QED
  BY <1>4, <1>5

LEMMA HooksInit == Init => HooksSound
<1> SUFFICES ASSUME Init PROVE HooksSound
  OBVIOUS
<1>1. DOMAIN stack = {} /\ Used = {} /\ \A h \in Handle : calls[h] = 0
  BY KeptInit DEF Init, Free, Blank, Used
<1> QED
  BY <1>1 DEF HooksSound, HooksKept, WeakrefsOnce, Alive

LEMMA HooksSoundStep == Kept /\ HooksSound /\ [Next]_vars => HooksSound'
<1> SUFFICES ASSUME Kept, HooksSound, [Next]_vars PROVE HooksSound'
  OBVIOUS
<1>1. CASE Next
  <2>1. Safe /\ (~Turn => Stacked) /\ stack' \in Seq(Frame)
    BY <1>1, StepGood DEF Types, TypeOK
  <2>2. UNCHANGED calls \/ \E h \in Handle : CalledFor(h)
    BY <1>1, StepCalls
  <2>3. HooksKept'
    BY <2>1, <2>2, HooksStep DEF HooksSound
  <2>4. WeakrefsOnce'
    BY <1>1, <2>1, <2>2, WeakrefsStep, WeakrefsTurn DEF Next
  <2> QED
    BY <2>3, <2>4 DEF HooksSound
<1>2. CASE UNCHANGED vars
  BY <1>2 DEF vars, heapVars, HooksSound, HooksKept, WeakrefsOnce, Alive, At, Used
<1> QED
  BY <1>1, <1>2

LEMMA HooksAlways == Spec => []HooksSound
<1> QED
  BY HooksInit, HooksSoundStep, KeptAlways, PTL DEF Spec

(* A hook runs once: however collections nest and whatever is resurrected,  *)
(* Python is called at most once for each object, because an object shows  *)
(* that its hook has run before it can be scheduled again, and a weak       *)
(* reference is cleared in the turn that schedules its callback.            *)
THEOREM HooksRunOnce == Spec => []HooksOnce
<1>1. HooksSound => HooksOnce
  BY DEF HooksSound, HooksKept, HooksOnce
<1> QED
  BY <1>1, HooksAlways, PTL

-----------------------------------------------------------------------------
(* The exception a collection found *)

LEMMA NestedInit == Init => ExceptionsNested
BY DEF Init, ExceptionsNested

(* Nothing but a callback runs on top of a collection. *)
LEMMA NotOnCollection ==
  ASSUME Kept, ExceptionsNested, stack # <<>>, Top.op # "callback"
  PROVE  Below # <<>> => Below[Len(Below)].op # "collect"
<1>1. /\ Len(stack) \in DOMAIN stack /\ Top = stack[Len(stack)]
      /\ Len(Below) = Len(stack) - 1 /\ Below \in Seq(Frame)
      /\ \A k \in DOMAIN Below : k \in DOMAIN stack /\ Below[k] = stack[k]
      /\ Len(stack) \in Nat
  BY StackBelow DEF Kept, Types, TypeOK
<1>2. ASSUME Below # <<>> PROVE Len(Below) \in DOMAIN Below /\ Len(stack) > 1
  <2>1. Len(Below) > 0
    BY <1>1, <1>2
  <2> QED
    BY <1>1, <2>1
<1> QED
  BY <1>1, <1>2 DEF ExceptionsNested

(* The pairs of neighbouring calls that were on the stack stay as they are. *)
LEMMA NestedBelow ==
  ASSUME Kept, ExceptionsNested, NEW k \in DOMAIN stack', k > 1,
         stack'[k - 1].op = "collect",
         Continued(k - 1), Continued(k)
  PROVE  stack'[k].op = "callback" /\ stack'[k].saved = stack'[k - 1].saved
BY DEF ExceptionsNested, Continued

(* Every call but the innermost goes on; the new innermost one is on top of *)
(* no collection, or is a callback with the exception the collection set    *)
(* aside.                                                                  *)
LEMMA NestedStep ==
  ASSUME Kept, ExceptionsNested, stack' \in Seq(Frame),
         \A k \in DOMAIN stack' : k < Len(stack') => Continued(k),
         LET n == Len(stack') IN
         /\ n > 0 => \/ Continued(n)
                     \/ n > 1 /\ stack'[n - 1].op = "collect" =>
                          stack'[n].op = "callback" /\ stack'[n].saved = stack'[n - 1].saved
         /\ n > 0 /\ stack'[n].op = "collect" => raised' = stack'[n].saved
  PROVE  ExceptionsNested'
<1>1. DOMAIN stack' = 1 .. Len(stack') /\ Len(stack') \in Nat
  OBVIOUS
<1>2. ASSUME NEW k \in DOMAIN stack', k > 1, stack'[k - 1].op = "collect"
      PROVE  stack'[k].op = "callback" /\ stack'[k].saved = stack'[k - 1].saved
  <2>1. k - 1 \in DOMAIN stack' /\ k - 1 < Len(stack')
    BY <1>1, <1>2
  <2>2. CASE Continued(k)
    BY <1>2, <2>1, <2>2, NestedBelow
  <2>3. CASE ~Continued(k)
    <3>1. k = Len(stack')
      BY <1>1, <1>2, <2>3
    <3> QED
      BY <1>2, <2>3, <3>1
  <2> QED
    BY <2>2, <2>3
<1>3. stack' # <<>> => Len(stack') > 0
  BY <1>1
<1> QED
  BY <1>2, <1>3 DEF ExceptionsNested, Top

(* With the stack as it was, only code that is not a collection may change  *)
(* the exception state.                                                    *)
LEMMA NestedSame ==
  ASSUME Kept, ExceptionsNested, UNCHANGED stack,
         UNCHANGED raised \/ (stack # <<>> => Top.op = "callback")
  PROVE  ExceptionsNested'
<1>1. UNCHANGED Top
  BY DEF Top
<1> QED
  BY <1>1 DEF ExceptionsNested

(* A call other than a collection is made on calls that end in no           *)
(* collection.                                                             *)
LEMMA NestedPushed ==
  ASSUME Kept, ExceptionsNested, NEW s \in Seq(Frame), NEW f \in Frame,
         stack' = Append(s, f), \A k \in DOMAIN s : s[k] = stack'[k] => Continued(k),
         s # <<>> => s[Len(s)].op # "collect",
         f.op = "collect" => raised' = f.saved
  PROVE  ExceptionsNested'
<1>1. /\ stack' \in Seq(Frame) /\ Len(stack') = Len(s) + 1 /\ stack'[Len(s) + 1] = f
      /\ \A k \in 1 .. Len(s) : stack'[k] = s[k]
  BY AppendProperties
<1>2. DOMAIN s = 1 .. Len(s) /\ DOMAIN stack' = 1 .. Len(s) + 1 /\ Len(s) \in Nat
  BY <1>1
<1>3. \A k \in DOMAIN stack' : k < Len(stack') => Continued(k)
  BY <1>1, <1>2
<1>4. Len(stack') > 1 => stack'[Len(stack') - 1].op # "collect"
  <2> SUFFICES ASSUME Len(stack') > 1 PROVE stack'[Len(stack') - 1].op # "collect"
    OBVIOUS
  <2>1. Len(s) \in 1 .. Len(s) /\ s # <<>> /\ Len(stack') - 1 = Len(s)
    BY <1>1, <1>2
  <2> QED
    BY <1>1, <2>1
<1> QED
  BY <1>1, <1>3, <1>4, NestedStep

LEMMA AppendedFrame ==
  ASSUME NEW s \in Seq(Frame), NEW f, stack' = Append(s, f), stack' \in Seq(Frame)
  PROVE  f \in Frame
<1>1. Len(Append(s, f)) = Len(s) + 1 /\ Append(s, f)[Len(s) + 1] = f
  OBVIOUS
<1>2. Len(s) + 1 \in 1 .. Len(stack')
  BY <1>1
<1> QED
  BY <1>1, <1>2

(* A call made on the whole stack, or in place of the innermost call. *)
LEMMA NestedCalled ==
  ASSUME Kept, ExceptionsNested, NEW s, s = stack \/ (stack # <<>> /\ s = Below),
         stack # <<>> => IF s = stack THEN Top.op # "collect" ELSE Top.op # "callback",
         NEW f, stack' = Append(s, f), stack' \in Seq(Frame), f.op # "collect" \/ raised' = f.saved
  PROVE  ExceptionsNested'
<1>1. stack \in Seq(Frame)
  BY DEF Kept, Types, TypeOK
<1>2. s \in Seq(Frame) /\ \A k \in DOMAIN s : k \in DOMAIN stack /\ s[k] = stack[k]
  BY <1>1, StackBelow
<1>3. \A k \in DOMAIN s : s[k] = stack'[k] => Continued(k)
  BY <1>2, FrameSame DEF Kept
<1>4. s # <<>> => s[Len(s)].op # "collect"
  <2>1. CASE s = stack
    BY <2>1 DEF Top
  <2>2. CASE s # stack
    BY <2>2, NotOnCollection
  <2> QED
    BY <2>1, <2>2
<1>5. f \in Frame
  BY <1>2, AppendedFrame
<1> QED
  BY <1>2, <1>3, <1>4, <1>5, NestedPushed

(* The innermost call ends. *)
LEMMA NestedPopped ==
  ASSUME Kept, ExceptionsNested, stack # <<>>, stack' = Below \/ stack' = Settled(Below),
         Top.op = "callback" => raised' = Top.saved
  PROVE  ExceptionsNested'
<1>1. /\ stack' \in Seq(Frame) /\ Len(stack') = Len(stack) - 1 /\ DOMAIN stack' = DOMAIN Below
      /\ \A k \in DOMAIN stack' : Continued(k)
  BY StackPopped DEF Kept
<1>2. Len(stack) \in DOMAIN stack /\ Top = stack[Len(stack)] /\ Len(stack) \in Nat
  BY StackBelow DEF Kept, Types, TypeOK
<1>3. ASSUME Len(stack') > 0, stack'[Len(stack')].op = "collect"
      PROVE  raised' = stack'[Len(stack')].saved
  <2> DEFINE n == Len(stack')
  <2>1. n \in DOMAIN stack' /\ n = Len(stack) - 1
    BY <1>1, <1>3
  <2>2. stack[n].op = "collect" /\ stack'[n].saved = stack[n].saved
    BY <1>1, <1>3, <2>1 DEF Continued
  <2>3. Top.op = "callback" /\ Top.saved = stack[n].saved
    <3>1. Len(stack) > 1 /\ Len(stack) - 1 = n
      BY <1>2, <1>3, <2>1
    <3> QED
      BY <1>2, <2>2, <3>1 DEF ExceptionsNested
  <2> QED
    BY <2>2, <2>3
<1>4. Len(stack') > 0 => Len(stack') \in DOMAIN stack'
  BY <1>1
<1> QED
  BY <1>1, <1>3, <1>4, NestedStep

LEMMA NestedPython ==
  ASSUME Kept, ExceptionsNested, Python, UNCHANGED program
  PROVE  ExceptionsNested'
<1>1. stack' \in Seq(Frame)
  BY PythonGood DEF Good, Types, TypeOK
<1>2. \/ UNCHANGED stack /\ (stack # <<>> => Top.op = "callback")
      \/ \E h \in roots : Acquire(h) \/ Derive(h) \/ Release(h)
  BY DEF Python, New, NewFunction, Drop, Raise, NewWeakref, Link, Insert, Load, LoadArgument,
     Dereference, Catch, PythonRuns
<1>3. CASE UNCHANGED stack /\ (stack # <<>> => Top.op = "callback")
  BY <1>3, NestedSame
<1>4. ASSUME NEW op \in {"callback", "acquire", "derive"}, NEW temp, NEW saved,
             stack' = Append(stack, Call(op, temp, saved)), PythonRuns
      PROVE  ExceptionsNested'
  <2>1. Call(op, temp, saved).op # "collect"
    BY DEF Call
  <2>2. stack # <<>> => Top.op # "collect"
    BY <1>4 DEF PythonRuns
  <2> HIDE DEF Call
  <2> QED
    BY <1>1, <1>4, <2>1, <2>2, NestedCalled
<1>5. ASSUME NEW h \in roots, Acquire(h) \/ Derive(h) \/ Release(h) PROVE ExceptionsNested'
  <2>1. CASE Acquire(h)
    <3>1. PICK temp : stack' = Append(stack, Call("acquire", temp, Null)) /\ PythonRuns
      BY <2>1 DEF Acquire
    <3> QED
      BY <1>4, <3>1
  <2>2. CASE Derive(h)
    <3>1. PICK temp : stack' = Append(stack, Call("derive", temp, Null)) /\ PythonRuns
      BY <2>2 DEF Derive
    <3> QED
      BY <1>4, <3>1
  <2>3. CASE Release(h)
    <3>1. PythonRuns /\ \/ UNCHANGED stack
                        \/ \E temp : stack' = Append(stack, Call("callback", temp, raised))
      BY <2>3 DEF Release, CallPython
    <3>2. CASE UNCHANGED stack
      BY <3>1, <3>2, NestedSame DEF PythonRuns
    <3> QED
      BY <1>4, <3>1, <3>2
  <2> QED
    BY <1>5, <2>1, <2>2, <2>3
<1> QED
  BY <1>2, <1>3, <1>5

LEMMA NestedViewRefused ==
  ASSUME Kept, ExceptionsNested, ViewRefused, UNCHANGED program
  PROVE  ExceptionsNested'
<1>1. stack # <<>> /\ Top.op # "callback" /\ stack' \in Seq(Frame)
  BY ViewRefusedGood DEF ViewRefused, Good, Types, TypeOK
<1>2. CASE stack' = Below
  BY <1>1, <1>2, NestedPopped
<1>3. CASE stack' = Append(Below, Call("callback", Top.temp, raised))
  <2>1. Call("callback", Top.temp, raised).op # "collect"
    BY DEF Call
  <2>2. Below # stack
    BY <1>1, StackBelow DEF Kept, Types, TypeOK
  <2> QED
    BY <1>1, <1>3, <2>1, <2>2, NestedCalled
<1> QED
  BY <1>2, <1>3 DEF ViewRefused, CallPython

LEMMA NestedRunAction ==
  ASSUME Kept, ExceptionsNested, RunAction, UNCHANGED program
  PROVE  ExceptionsNested'
<1> DEFINE last == Len(stack)
<1>1. /\ stack # <<>> /\ Top.op = "collect" /\ Top.todo # <<>> /\ raised = Top.saved
      /\ last \in DOMAIN stack /\ last \in Nat
  BY StackBelow DEF RunAction, ExceptionsNested, Kept, Types, TypeOK
<1>2. /\ Rest \in Seq(Frame) /\ Len(Rest) = last /\ DOMAIN Rest = DOMAIN stack
      /\ Rest[last].saved = raised
  BY <1>1, RestFrames DEF Kept
<1>3. stack' \in Seq(Frame)
  BY RunActionGood DEF Good, Types, TypeOK
<1> HIDE DEF last
<1>4. CASE stack' = Settled(Rest) /\ UNCHANGED raised
  <2>1. Len(stack') = last /\ DOMAIN stack' = DOMAIN stack /\ stack'[last].saved = raised
    BY <1>1, <1>2, <1>4, SettledFrames
  <2>2. \A k \in DOMAIN stack' : Continued(k)
    BY <1>1, <1>4, <2>1, RestContinued
  <2> QED
    BY <1>1, <1>3, <1>4, <2>1, <2>2, NestedStep
<1>5. ASSUME NEW temp, stack' = Append(Rest, Call("callback", temp, raised))
      PROVE  ExceptionsNested'
  <2> DEFINE f == Call("callback", temp, raised)
  <2>1. f.op = "callback" /\ f.saved = raised
    BY DEF Call
  <2> HIDE DEF f
  <2>2. f \in Frame
    BY <1>2, <1>3, <1>5, AppendedFrame DEF f
  <2>3. /\ Len(stack') = last + 1 /\ stack'[last + 1] = f
        /\ \A k \in 1 .. last : stack'[k] = Rest[k]
    BY <1>2, <1>5, <2>2, AppendProperties DEF f
  <2>4. DOMAIN stack' = 1 .. last + 1 /\ DOMAIN stack = 1 .. last
    BY <1>2, <1>3, <2>3
  <2>5. \A k \in DOMAIN stack' : k < Len(stack') => Continued(k)
    <3> SUFFICES ASSUME NEW k \in 1 .. last PROVE Continued(k)
      BY <1>1, <2>3, <2>4
    <3>1. k \in DOMAIN stack /\ stack'[k] = Rest[k]
      BY <2>3, <2>4
    <3> QED
      BY <1>1, <3>1, RestContinued
  <2>6. stack'[last].saved = raised /\ Len(stack') - 1 = last
    BY <1>1, <1>2, <2>3, <2>4
  <2> QED
    BY <1>3, <2>1, <2>3, <2>5, <2>6, NestedStep
<1> QED
  BY <1>4, <1>5 DEF RunAction, Rest, CallPython

LEMMA NestedTurn ==
  ASSUME Kept, ExceptionsNested, Turn, UNCHANGED program
  PROVE  ExceptionsNested'
<1>1. PICK actions \in Actions(Live) : TurnBy(actions)
  BY TurnTypes
<1>2. stack # <<>> /\ Top.op = "collect" /\ raised' = Top.saved
  BY DEF Turn, ExceptionsNested
<1>3. CASE actions = <<>>
  <2>1. stack' = Settled(Below)
    BY <1>1, <1>3 DEF TurnBy
  <2> QED
    BY <1>2, <2>1, NestedPopped
<1>4. CASE actions # <<>>
  <2> DEFINE n == Len(stack)
  <2>1. /\ stack' \in Seq(Frame) /\ Len(stack') = n /\ DOMAIN stack' = DOMAIN stack
        /\ n \in DOMAIN stack'
        /\ stack'[n].op = Top.op /\ stack'[n].saved = Top.saved
        /\ \A k \in DOMAIN stack : k # n => stack'[k] = stack[k] /\ Continued(k)
    BY <1>1, <1>2, <1>4, TurnStack
  <2>2. Top = stack[n] /\ n \in Nat
    BY <2>1 DEF Top
  <2> HIDE DEF n
  <2>3. n > 1 => n - 1 \in DOMAIN stack /\ n - 1 # n
    BY <2>1, <2>2
  <2>4. n > 1 /\ stack'[n - 1].op = "collect" =>
          stack'[n].op = "callback" /\ stack'[n].saved = stack'[n - 1].saved
    BY <1>2, <2>1, <2>2, <2>3 DEF ExceptionsNested
  <2>5. \A k \in DOMAIN stack' : k < Len(stack') => Continued(k)
    BY <2>1, <2>2
  <2> QED
    BY <1>2, <2>1, <2>4, <2>5, NestedStep
<1> QED
  BY <1>3, <1>4

LEMMA NestedNext == Kept /\ ExceptionsNested /\ [Next]_vars => ExceptionsNested'
<1> SUFFICES ASSUME Kept, ExceptionsNested, [Next]_vars PROVE ExceptionsNested'
  OBVIOUS
<1>1. CASE Python /\ UNCHANGED program
  BY <1>1, NestedPython
<1>2. CASE ViewAllocated
  BY <1>2, NestedPopped DEF ViewAllocated
<1>3. CASE ViewRefused /\ UNCHANGED program
  BY <1>3, NestedViewRefused
<1>4. CASE Collect /\ UNCHANGED program
  <2>1. stack' \in Seq(Frame)
    BY <1>4, CollectGood DEF Good, Types, TypeOK
  <2>2. Call("collect", {}, raised).saved = raised
    BY DEF Call
  <2> QED
    BY <1>4, <2>1, <2>2, NestedCalled DEF Collect
<1>5. CASE Turn /\ UNCHANGED program
  BY <1>5, NestedTurn
<1>6. CASE RunAction /\ UNCHANGED program
  BY <1>6, NestedRunAction
<1>7. CASE CallbackReturns
  BY <1>7, NestedPopped DEF CallbackReturns, Restored
<1>8. CASE UNCHANGED vars
  BY <1>8 DEF vars, ExceptionsNested, Top
<1> QED
  BY <1>1, <1>2, <1>3, <1>4, <1>5, <1>6, <1>7, <1>8 DEF Next

LEMMA NestedAlways == Spec => []ExceptionsNested
<1> QED
  BY NestedInit, NestedNext, KeptAlways, PTL DEF Spec

(* The code a collection interrupted finds the exception that was pending   *)
(* before, however deep the collections of its callbacks nest and whatever *)
(* they raise.                                                             *)
THEOREM ExceptionHandedBack == Spec => ExceptionKept
<1>1. Kept /\ ExceptionsNested /\ [Next]_vars =>
        [stack # <<>> /\ Top.op = "collect" /\ Len(stack') < Len(stack)
           => raised' = Top.saved]_vars
  <2> SUFFICES ASSUME Kept, ExceptionsNested, Next,
                      stack # <<>>, Top.op = "collect", Len(stack') < Len(stack)
               PROVE  raised' = Top.saved
    OBVIOUS
  <2>1. raised = Top.saved
    BY DEF ExceptionsNested
  <2>2. CASE RunAction
    <3>1. Top.todo # <<>>
      BY <2>2 DEF RunAction
    <3>2. Rest \in Seq(Frame) /\ Len(Rest) = Len(stack) /\ Len(stack) \in Nat
      BY <3>1, RestFrames DEF Kept, Types, TypeOK
    <3>3. stack' = Settled(Rest) \/ \E f : stack' = Append(Rest, f)
      BY <2>2 DEF RunAction, CallPython, Rest
    <3>4. Len(stack') = Len(stack) \/ Len(stack') = Len(stack) + 1
      BY <3>2, <3>3, SettledFrames
    <3> QED
      BY <3>2, <3>4
  <2>3. CASE UNCHANGED raised
    BY <2>1, <2>3
  <2>4. \/ RunAction
        \/ UNCHANGED raised
    BY DEF Next, Python, New, NewFunction, Drop, Raise, NewWeakref, Link, Insert, Load,
       LoadArgument, Dereference, Catch, Acquire, Derive, Release, PythonRuns,
       ViewAllocated, ViewRefused, Collect, Turn, CallbackReturns
  <2> QED
    BY <2>2, <2>3, <2>4
<1> QED
  BY <1>1, NestedAlways, KeptAlways, PTL DEF Spec, ExceptionKept

-----------------------------------------------------------------------------
(* Nothing that is in use is swept *)

(* Calls go on, or keep no exception and hold what is there. *)
FramesSolid ==
  \A k \in DOMAIN stack' :
    Continued(k) \/ (stack'[k].saved = Null /\ \A h \in stack'[k].temp : Alive(h)')

(* Objects refer to what they did, or to what is there. *)
RefsSolid ==
  \A i \in Used' : \A h \in object'[i].refs :
    (i \in Used /\ h \in object[i].refs) \/ Alive(h)'

RootsSolid == raised' = Null /\ \A h \in roots' : h \in roots \/ Alive(h)'

LEMMA SolidStep ==
  ASSUME Kept, Solid, ~program.raising, AllStay, FramesSolid, RefsSolid, RootsSolid
  PROVE  Solid'
<1>1. /\ \A h \in roots : h \in Handle /\ Alive(h)
      /\ \A k \in DOMAIN stack :
           stack[k].saved = Null /\ \A h \in stack[k].temp : h \in Handle /\ Alive(h)
      /\ \A i \in Used : \A h \in object[i].refs : h \in Handle /\ Alive(h)
  <2>1. \A i \in Used : object[i].refs \subseteq Handle
    BY DEF Used, Kept, Types, TypeOK, Object
  <2> QED
    BY <2>1, FrameTypes DEF Solid, Kept, Types, TypeOK
<1>2. \A h \in Handle : Alive(h) => Alive(h)'
  BY DEF AllStay, Stays
<1>3. \A h \in roots' : Alive(h)'
  BY <1>1, <1>2 DEF RootsSolid
<1>4. ASSUME NEW k \in DOMAIN stack'
      PROVE  stack'[k].saved = Null /\ \A h \in stack'[k].temp : Alive(h)'
  BY <1>1, <1>2 DEF FramesSolid, Continued
<1>5. \A i \in Used' : \A h \in object'[i].refs : Alive(h)'
  BY <1>1, <1>2 DEF RefsSolid
<1> QED
  BY <1>3, <1>4, <1>5 DEF Solid, RootsSolid

LEMMA FramesSame ==
  ASSUME Kept, \A k \in DOMAIN stack' : Continued(k)
  PROVE  FramesSolid
BY DEF FramesSolid

(* A call is made on calls that go on. *)
LEMMA FramesPushed ==
  ASSUME Kept, NEW s \in Seq(Frame), NEW f, stack' = Append(s, f), stack' \in Seq(Frame),
         \A k \in DOMAIN s : s[k] = stack'[k] => Continued(k),
         f.saved = Null, \A h \in f.temp : Alive(h)'
  PROVE  FramesSolid
<1>1. f \in Frame
  BY AppendedFrame
<1>2. /\ Len(stack') = Len(s) + 1 /\ stack'[Len(s) + 1] = f
      /\ \A k \in 1 .. Len(s) : stack'[k] = s[k]
  BY <1>1, AppendProperties
<1>3. DOMAIN s = 1 .. Len(s) /\ DOMAIN stack' = 1 .. Len(s) + 1 /\ Len(s) \in Nat
  BY <1>2
<1> QED
  BY <1>2, <1>3 DEF FramesSolid

LEMMA RefsSame == UNCHANGED object => RefsSolid
BY DEF RefsSolid, Used

(* An object that is allocated refers to what is there, and is there. *)
LEMMA RefsStored ==
  ASSUME Kept, AllStay, NEW i \in Index, NEW obj, Store(i, obj), obj.kind # "free",
         \A h \in obj.refs : h \in Handle /\ Alive(h)
  PROVE  RefsSolid /\ \A h : h = <<i, generation'[i]>> => Alive(h)'
<1>1. object'[i] = obj /\ \A j \in Index \ {i} : object'[j] = object[j]
  BY DEF Store, Kept, Types, TypeOK
<1>2. \A h \in obj.refs : Alive(h)'
  BY DEF AllStay, Stays
<1>3. \A h : h = <<i, generation'[i]>> => Alive(h)'
  BY <1>1 DEF Alive, Used
<1>4. RefsSolid
  BY <1>1, <1>2 DEF RefsSolid, Used
<1> QED
  BY <1>3, <1>4

(* What code holds is there. *)
LEMMA SolidFacts ==
  ASSUME Kept, Solid, ~program.raising
  PROVE  /\ raised = Null
         /\ \A h \in roots : h \in Handle /\ Alive(h)
         /\ \A i \in Used : \A h \in object[i].refs : h \in Handle /\ Alive(h)
         /\ stack # <<>> => Top.saved = Null /\ \A h \in Top.temp : h \in Handle /\ Alive(h)
<1>1. \A i \in Used : object[i].refs \subseteq Handle
  BY DEF Used, Kept, Types, TypeOK, Object
<1>2. stack # <<>> => Len(stack) \in DOMAIN stack /\ Top = stack[Len(stack)]
  BY StackBelow DEF Kept, Types, TypeOK
<1>3. stack # <<>> => Top.saved = Null /\ \A h \in Top.temp : h \in Handle /\ Alive(h)
  BY <1>2, FrameTypes DEF Solid, Kept
<1> QED
  BY <1>1, <1>3 DEF Solid, Kept, Types, TypeOK

LEMMA SolidStack ==
  ASSUME Kept
  PROVE  stack \in Seq(Frame) /\ \A k \in DOMAIN stack : stack[k] = stack'[k] => Continued(k)
BY FrameSame DEF Kept, Types, TypeOK

LEMMA SolidQuiet ==
  ASSUME Kept, Solid, ~program.raising, AllStay, UNCHANGED <<object, stack>>,
         \/ \E h \in roots : Drop(h) \/ Raise(h)
         \/ \E h \in Handle : Load(h) \/ LoadArgument(h)
         \/ \E w \in Index : Dereference(w)
         \/ Catch
         \/ raised' = Null /\ \E i \in Used : Hold(HandleOf(i))
  PROVE  Solid'
<1>1. FramesSolid /\ RefsSolid
  BY RefsSame, SameStack, FramesSame DEF Kept
<1>2. RootsSolid
  <2> DEFINE Held1 == \E h \in Handle : roots' = roots \cup {h} /\ Alive(h)
  <2>1. CASE raised' = Null /\ Held1
    BY <2>1 DEF RootsSolid, AllStay, Stays
  <2>2. ASSUME NEW h \in roots, Drop(h) \/ Raise(h) PROVE RootsSolid
    BY <2>2, SolidFacts DEF Drop, Raise, RootsSolid
  <2>3. ASSUME NEW h \in Handle, Load(h) \/ LoadArgument(h) PROVE raised' = Null /\ Held1
    BY <2>3, SolidFacts DEF Load, LoadArgument, Hold
  <2>4. ASSUME NEW w \in Index, Dereference(w) PROVE raised' = Null /\ Held1
    <3>1. object[w].weak \in Handle
      BY <2>4 DEF Dereference, Kept, Types, TypeOK, Object
    <3> QED
      BY <2>4, <3>1, SolidFacts DEF Dereference, Hold
  <2>5. ~Catch
    BY SolidFacts DEF Catch
  <2>6. ASSUME NEW i \in Used, Hold(HandleOf(i)) PROVE Held1
    BY <2>6, UsedAlive DEF Hold, Kept
  <2> HIDE DEF Held1
  <2> QED
    BY <2>1, <2>2, <2>3, <2>4, <2>5, <2>6
<1> QED
  BY <1>1, <1>2, SolidStep

(* Allocations by Python code, other than of a view or a lease. *)
LEMMA SolidStored ==
  ASSUME Kept, Solid, ~program.raising, AllStay, NEW i \in Index, NEW obj, Store(i, obj),
         obj.kind # "free", \A h \in obj.refs : h \in Handle /\ Alive(h), FramesSolid, UNCHANGED raised,
         UNCHANGED roots \/ Hold(<<i, generation'[i]>>)
  PROVE  Solid'
<1>1. RefsSolid /\ \A h : h = <<i, generation'[i]>> => Alive(h)'
  BY RefsStored
<1>2. RootsSolid
  BY <1>1, SolidFacts DEF RootsSolid, Hold
<1> QED
  BY <1>1, <1>2, SolidStep

LEMMA SolidNew ==
  ASSUME Kept, Solid, ~program.raising, AllStay,
         \/ \E kind \in {"plain", "instance", "generator", "container"}, child \in AtMostOne :
              New(kind, child)
         \/ \E h \in roots : NewFunction(h)
         \/ \E h \in roots, value \in AtMostOne : NewWeakref(h, value)
  PROVE  Solid'
<1>1. UNCHANGED <<stack, raised>>
  BY DEF New, NewFunction, NewWeakref
<1>2. FramesSolid
  BY <1>1, SameStack, FramesSame DEF Kept
<1>3. AtMostOne \subseteq SUBSET roots
  BY DEF AtMostOne
<1>4. ASSUME NEW kind \in {"plain", "instance", "generator", "container"},
             NEW child \in AtMostOne, New(kind, child)
      PROVE  Solid'
  <2> DEFINE obj == [Blank(kind, IF kind = "instance" THEN Ordinal ELSE 0) EXCEPT !.refs = child]
  <2>1. PICK i \in Index : Store(i, obj) /\ Hold(<<i, generation'[i]>>)
    BY <1>4 DEF New
  <2>2. obj.kind # "free" /\ obj.refs = child
    BY DEF Blank
  <2> HIDE DEF obj
  <2>3. \A h \in obj.refs : h \in Handle /\ Alive(h)
    BY <1>3, <2>2, SolidFacts
  <2> QED
    BY <1>1, <1>2, <2>1, <2>2, <2>3, SolidStored
<1>5. ASSUME NEW n \in roots, NewFunction(n) PROVE Solid'
  <2> DEFINE obj == Blank("function", 0)
  <2>1. PICK i \in Index : Store(i, obj) /\ Hold(<<i, generation'[i]>>)
    BY <1>5 DEF NewFunction
  <2>2. obj.kind # "free" /\ obj.refs = {}
    BY DEF Blank
  <2> HIDE DEF obj
  <2> QED
    BY <1>1, <1>2, <2>1, <2>2, SolidStored
<1>6. ASSUME NEW r \in roots, NEW value \in AtMostOne, NewWeakref(r, value) PROVE Solid'
  <2> DEFINE obj == [Blank("weakref", Ordinal) EXCEPT !.refs = value, !.weak = r]
  <2>1. CASE /\ \E i \in Canonical(r) : Hold(HandleOf(i))
             /\ UNCHANGED <<object, generation, free, issued>>
    <3>1. \E i \in Used : Hold(HandleOf(i))
      BY <2>1 DEF Canonical
    <3> QED
      BY <1>1, <2>1, <3>1, SolidQuiet, SolidFacts
  <2>2. ASSUME NEW i \in Index, Store(i, obj), Hold(<<i, generation'[i]>>) PROVE Solid'
    <3>1. obj.kind # "free" /\ obj.refs = value
      BY DEF Blank
    <3> HIDE DEF obj
    <3>2. \A h \in obj.refs : h \in Handle /\ Alive(h)
      BY <1>3, <3>1, SolidFacts
    <3> QED
      BY <1>1, <1>2, <2>2, <3>1, <3>2, SolidStored
  <2> QED
    BY <1>6, <2>1, <2>2 DEF NewWeakref
<1> QED
  BY <1>4, <1>5, <1>6

LEMMA SolidEdit ==
  ASSUME Kept, Solid, ~program.raising, AllStay,
         \/ \E h, key \in roots, value \in AtMostOne : Insert(h, key, value)
         \/ \E h \in roots, value \in AtMostOne : Link(h, value)
  PROVE  Solid'
<1>1. UNCHANGED <<stack, raised, roots>>
  BY DEF Insert, Link
<1>2. FramesSolid
  BY <1>1, SameStack, FramesSame DEF Kept
<1>3. RootsSolid
  BY <1>1, SolidFacts DEF RootsSolid
<1>4. AtMostOne \subseteq SUBSET roots
  BY DEF AtMostOne
<1>5. \A h \in roots : Alive(h)'
  BY SolidFacts DEF AllStay, Stays
<1>6. ASSUME NEW c \in roots, NEW key \in roots, NEW value \in AtMostOne, Insert(c, key, value)
      PROVE  RefsSolid
  <2> DEFINE entry == [Blank("entry", 0) EXCEPT !.weak = key]
             t == c[1]
  <2>1. PICK i \in Index : object' = [object EXCEPT
          ![i] = entry, ![t].refs = {<<i, generation'[i]>>} \cup value] /\ NextSlot(i)
          /\ generation' = [generation EXCEPT ![i] = IF free = <<>> THEN 1 ELSE @]
    BY <1>6 DEF Insert
  <2>2. t \in Used /\ t \in Index /\ i \notin Used /\ object[t] \in Object
    BY <1>6, <2>1, NewSlot DEF Insert, Alive, Used, Kept, Types, TypeOK
  <2>3. entry.refs = {} /\ entry.kind # "free"
    BY DEF Blank
  <2> DEFINE filled == [object[t] EXCEPT !.refs = {<<i, generation'[i]>>} \cup value]
  <2>4. filled.refs = {<<i, generation'[i]>>} \cup value
    BY <2>2 DEF Object
  <2> HIDE DEF entry, filled, t
  <2>5. object' = [[object EXCEPT ![i] = entry] EXCEPT ![t] = filled]
    BY <2>1, <2>2 DEF filled, Kept, Types, TypeOK
  <2>6. /\ object'[i] = entry /\ object'[t] = filled
        /\ \A j \in Index \ {i, t} : object'[j] = object[j]
    BY <2>2, <2>5 DEF Kept, Types, TypeOK
  <2>7. \A h : h = <<i, generation'[i]>> => Alive(h)'
    BY <2>3, <2>6 DEF Alive, Used
  <2>8. \A h \in filled.refs : Alive(h)'
    BY <1>4, <1>5, <2>4, <2>7
  <2> QED
    BY <2>2, <2>3, <2>6, <2>8 DEF RefsSolid, Used
<1>7. ASSUME NEW c \in roots, NEW value \in AtMostOne, Link(c, value)
      PROVE  RefsSolid
  <2> DEFINE t == c[1]
             linked == [object[t] EXCEPT !.refs = value]
  <2>1. t \in Index /\ object[t] \in Object /\ object' = [object EXCEPT ![t] = linked]
    BY <1>7 DEF Link, Alive, Used, Kept, Types, TypeOK
  <2>2. linked.refs = value /\ linked.kind = object[t].kind
    BY <2>1 DEF Object
  <2> HIDE DEF linked, t
  <2>3. \A j \in Index : object'[j] = IF j = t THEN linked ELSE object[j]
    BY <2>1 DEF Kept, Types, TypeOK
  <2> QED
    BY <1>4, <1>5, <2>2, <2>3 DEF RefsSolid, Used
<1>8. RefsSolid
  BY <1>6, <1>7
<1> QED
  BY <1>2, <1>3, <1>8, SolidStep

LEMMA SolidPush ==
  ASSUME Kept, Solid, ~program.raising, AllStay, RefsSolid, NEW s \in Seq(Frame), NEW f,
         stack' = Append(s, f), stack' \in Seq(Frame),
         \A k \in DOMAIN s : s[k] = stack'[k] => Continued(k),
         f.saved = Null, \A h \in f.temp : Alive(h)',
         UNCHANGED roots, raised' = Null
  PROVE  Solid'
<1>1. FramesSolid
  BY FramesPushed
<1>2. RootsSolid
  BY DEF RootsSolid
<1> QED
  BY <1>1, <1>2, SolidStep

(* Changes that leave what objects refer to. *)
LEMMA RefsKept ==
  ASSUME Kept, \A i \in Index : object'[i].kind = object[i].kind /\ object'[i].refs = object[i].refs
  PROVE  RefsSolid
BY DEF RefsSolid, Used

LEMMA RefsReplaced ==
  ASSUME Kept, NEW t \in Index, NEW new, object' = [object EXCEPT ![t] = new],
         new.kind = object[t].kind, new.refs = object[t].refs
  PROVE  RefsSolid
<1>1. \A i \in Index : object'[i] = IF i = t THEN new ELSE object[i]
  BY DEF Kept, Types, TypeOK
<1> QED
  BY <1>1, RefsKept

LEMMA SolidAcquire ==
  ASSUME Kept, Solid, ~program.raising, AllStay, stack' \in Seq(Frame),
         NEW provider \in roots, Acquire(provider)
  PROVE  Solid'
<1> DEFINE obj == [Blank("lease", 0) EXCEPT !.refs = {provider}, !.views = 1]
<1>1. PICK i \in Index :
        /\ Store(i, obj)
        /\ stack' = Append(stack, Call("acquire", {<<i, generation'[i]>>, provider}, Null))
  BY DEF Acquire
<1>2. obj.kind # "free" /\ obj.refs = {provider}
  BY DEF Blank
<1> HIDE DEF obj
<1>3. RefsSolid /\ \A h : h = <<i, generation'[i]>> => Alive(h)'
  BY <1>1, <1>2, SolidFacts, RefsStored
<1>4. \A h \in roots : Alive(h)'
  BY SolidFacts DEF AllStay, Stays
<1> DEFINE f == Call("acquire", {<<i, generation'[i]>>, provider}, Null)
<1>5. f.temp = {<<i, generation'[i]>>, provider} /\ f.saved = Null
  BY DEF Call
<1> HIDE DEF f
<1>6. \A h \in f.temp : Alive(h)'
  BY <1>3, <1>4, <1>5
<1>7. stack' = Append(stack, f)
  BY <1>1 DEF f
<1>8. UNCHANGED roots /\ raised' = Null
  BY SolidFacts DEF Acquire
<1> QED
  BY <1>3, <1>5, <1>6, <1>7, <1>8, SolidStack, SolidPush

LEMMA SolidDerive ==
  ASSUME Kept, Solid, ~program.raising, AllStay, stack' \in Seq(Frame),
         NEW view \in roots, Derive(view)
  PROVE  Solid'
<1>1. PICK lease \in Handle : lease = LeaseOf(view) /\ IsLease(lease)
  BY ViewHasLease DEF Derive, IsLease
<1> DEFINE t == lease[1]
           new == [object[t] EXCEPT !.views = object[t].views + 1]
           f == Call("derive", {lease}, Null)
<1>2. t \in Index /\ object[t] \in Object /\ object[t].views \in Nat
  BY Handles DEF Kept, Types, TypeOK, Object
<1>3. object' = [object EXCEPT ![t] = new] /\ stack' = Append(stack, f)
  BY <1>1 DEF Derive
<1>4. new.kind = object[t].kind /\ new.refs = object[t].refs
  BY <1>2, CountedType
<1> HIDE DEF new, t
<1>5. RefsSolid
  BY <1>2, <1>3, <1>4, RefsReplaced
<1>6. f.temp = {lease} /\ f.saved = Null
  BY DEF Call
<1> HIDE DEF f
<1>7. \A h \in f.temp : Alive(h)'
  BY <1>1, <1>6 DEF AllStay, Stays, IsLease
<1>8. UNCHANGED roots /\ raised' = Null
  BY SolidFacts DEF Derive
<1> QED
  BY <1>3, <1>5, <1>6, <1>7, <1>8, SolidStack, SolidPush

(* What Python is called with is there. *)
LEMMA SolidCall ==
  ASSUME Kept, Solid, ~program.raising, AllStay, RefsSolid, stack' \in Seq(Frame),
         NEW s \in Seq(Frame), NEW h, NEW temp, CallPython(s, h, temp),
         \A k \in DOMAIN s : s[k] = stack'[k] => Continued(k),
         \A g \in temp : g \in Handle /\ Alive(g), UNCHANGED roots
  PROVE  Solid'
<1> DEFINE f == Call("callback", temp, raised)
<1>1. stack' = Append(s, f) /\ raised' = Null
  BY DEF CallPython
<1>2. f.temp = temp /\ f.saved = Null
  BY SolidFacts DEF Call
<1> HIDE DEF f
<1>3. \A g \in f.temp : Alive(g)'
  BY <1>2 DEF AllStay, Stays
<1> QED
  BY <1>1, <1>2, <1>3, SolidPush

LEMMA LeaseHolds ==
  ASSUME Kept, Solid, ~program.raising, NEW h \in Handle, Alive(h)
  PROVE  \A g \in {h} \cup At(h).refs : g \in Handle /\ Alive(g)
<1>1. h[1] \in Used
  BY DEF Alive
<1> QED
  BY <1>1, SolidFacts DEF At

LEMMA SolidRelease ==
  ASSUME Kept, Solid, ~program.raising, AllStay, stack' \in Seq(Frame),
         NEW view \in roots, Release(view)
  PROVE  Solid'
<1>1. PICK lease \in Handle : lease = LeaseOf(view) /\ IsLease(lease)
  BY ViewHasLease DEF Release, IsLease
<1> DEFINE v == view[1]
           t == lease[1]
           closed == [object[v] EXCEPT !.done = TRUE]
           released == [object EXCEPT ![v].done = TRUE]
           counted == [object[t] EXCEPT !.views = Saturating(object[t].views, 1)]
<1>2. /\ t \in Index /\ object[t] \in Object /\ v \in Index /\ object[v] \in Object
      /\ object[t].views \in Nat /\ t # v
  BY <1>1, Handles DEF IsLease, Alive, At, Used, Release, Kept, Types, TypeOK, Object
<1>3. closed.kind = object[v].kind /\ closed.refs = object[v].refs
  BY <1>2 DEF Object
<1>4. /\ released \in [Index -> {released[i] : i \in Index}] /\ released[v] = closed
      /\ \A j \in Index \ {v} : released[j] = object[j]
  BY <1>2 DEF Kept, Types, TypeOK
<1>5. object' = [released EXCEPT ![t] = Hooked(object[t])] \/ object' = [released EXCEPT ![t] = counted]
  BY <1>1, <1>2, <1>4 DEF Release
<1>6. /\ Hooked(object[t]).kind = object[t].kind /\ Hooked(object[t]).refs = object[t].refs
      /\ counted.kind = object[t].kind /\ counted.refs = object[t].refs
  BY <1>2, HookedType, CountedType, SaturatingType
<1>7. RefsSolid
  <2> HIDE DEF released, counted, closed, v, t
  <2>1. /\ object'[v] = closed /\ (object'[t] = Hooked(object[t]) \/ object'[t] = counted)
        /\ \A j \in Index \ {v, t} : object'[j] = object[j]
    BY <1>2, <1>4, <1>5
  <2> QED
    BY <1>2, <1>3, <1>6, <2>1, RefsKept
<1>8. CASE ~At(lease).done /\ LastView(lease)
  <2>1. CallPython(stack, lease, {lease} \cup At(lease).refs) /\ UNCHANGED roots
    BY <1>1, <1>8 DEF Release
  <2>2. \A g \in {lease} \cup At(lease).refs : g \in Handle /\ Alive(g)
    BY <1>1, LeaseHolds DEF IsLease
  <2> QED
    BY <1>7, <2>1, <2>2, SolidStack, SolidCall
<1>9. CASE ~(~At(lease).done /\ LastView(lease))
  <2>1. UNCHANGED <<raised, stack, roots>>
    BY <1>1, <1>9 DEF Release
  <2>2. FramesSolid /\ RootsSolid
    BY <2>1, SameStack, FramesSame, SolidFacts DEF RootsSolid, Kept
  <2> QED
    BY <1>7, <2>2, SolidStep
<1> QED
  BY <1>8, <1>9

LEMMA SolidViewAllocated ==
  ASSUME Kept, Solid, ~program.raising, AllStay, ViewAllocated
  PROVE  Solid'
<1> DEFINE obj == [Blank("view", 0) EXCEPT !.refs = {NewViewsLease}]
<1>1. PICK i \in Index : Store(i, obj) /\ Hold(<<i, generation'[i]>>)
  BY DEF ViewAllocated
<1>2. obj.kind # "free" /\ obj.refs = {NewViewsLease}
  BY DEF Blank
<1> HIDE DEF obj
<1>3. \A h \in obj.refs : h \in Handle /\ Alive(h)
  BY <1>2, NewViewHasLease DEF ViewAllocated, IsLease
<1>4. FramesSolid
  BY StackPopped, FramesSame DEF ViewAllocated, Kept
<1> QED
  BY <1>1, <1>2, <1>3, <1>4, SolidStored DEF ViewAllocated

LEMMA SolidViewRefused ==
  ASSUME Kept, Solid, ~program.raising, AllStay, stack' \in Seq(Frame), ViewRefused
  PROVE  Solid'
<1>1. PICK lease \in Handle : lease = NewViewsLease /\ IsLease(lease)
  BY NewViewHasLease DEF ViewRefused, IsLease
<1> DEFINE t == lease[1]
           counted == [object[t] EXCEPT !.views = Saturating(object[t].views, 1)]
<1>2. /\ t \in Index /\ object[t] \in Object /\ object[t].views \in Nat /\ stack # <<>>
      /\ object \in [Index -> Object]
  BY Handles DEF ViewRefused, Kept, Types, TypeOK, Object
<1>3. /\ Hooked(object[t]).kind = object[t].kind /\ Hooked(object[t]).refs = object[t].refs
      /\ counted.kind = object[t].kind /\ counted.refs = object[t].refs
  BY <1>2, HookedType, CountedType, SaturatingType
<1>4. \/ object' = object
      \/ object' = [object EXCEPT ![t] = counted]
      \/ object' = [object EXCEPT ![t] = Hooked(object[t])]
  BY <1>1, <1>2 DEF ViewRefused
<1>5. RefsSolid
  <2> HIDE DEF counted, t
  <2> QED
    BY <1>2, <1>3, <1>4, RefsReplaced, RefsSame
<1>6. CASE stack' = Below /\ UNCHANGED raised
  <2>1. FramesSolid
    BY <1>2, <1>6, StackPopped, FramesSame DEF Kept
  <2>2. RootsSolid
    BY <1>6, SolidFacts DEF ViewRefused, RootsSolid
  <2> QED
    BY <1>5, <2>1, <2>2, SolidStep
<1>7. CASE CallPython(Below, lease, Top.temp)
  <2>1. Below \in Seq(Frame) /\ \A k \in DOMAIN Below : Below[k] = stack'[k] => Continued(k)
    <3>1. Below \in Seq(Frame) /\ \A k \in DOMAIN Below : k \in DOMAIN stack /\ Below[k] = stack[k]
      BY <1>2, StackBelow DEF Kept, Types, TypeOK
    <3> QED
      BY <3>1, FrameSame DEF Kept
  <2>2. \A g \in Top.temp : g \in Handle /\ Alive(g)
    BY <1>2, SolidFacts
  <2> QED
    BY <1>5, <1>7, <2>1, <2>2, SolidCall DEF ViewRefused
<1> QED
  BY <1>1, <1>6, <1>7 DEF ViewRefused

LEMMA SolidCollect ==
  ASSUME Kept, Solid, ~program.raising, AllStay, stack' \in Seq(Frame), Collect
  PROVE  Solid'
<1> DEFINE f == Call("collect", {}, raised)
<1>1. f.temp = {} /\ f.saved = Null
  BY SolidFacts DEF Call
<1>2. stack' = Append(stack, f)
  BY DEF Collect
<1> HIDE DEF f
<1>3. UNCHANGED roots /\ raised' = Null /\ RefsSolid
  BY SolidFacts, RefsSame DEF Collect, heapVars
<1> QED
  BY <1>1, <1>2, <1>3, SolidStack, SolidPush

LEMMA SolidCallbackReturns ==
  ASSUME Kept, Solid, ~program.raising, AllStay, CallbackReturns
  PROVE  Solid'
<1>1. FramesSolid
  BY StackPopped, FramesSame DEF CallbackReturns, Kept
<1>2. RootsSolid /\ RefsSolid
  BY SolidFacts, RefsSame DEF CallbackReturns, Restored, RootsSolid, heapVars
<1> QED
  BY <1>1, <1>2, SolidStep

LEMMA SolidRunAction ==
  ASSUME Kept, Solid, ~program.raising, AllStay, stack' \in Seq(Frame), RunAction
  PROVE  Solid'
<1>1. stack # <<>> /\ Top.op = "collect" /\ Top.todo # <<>>
  BY DEF RunAction
<1> DEFINE h == Head(Top.todo)
           t == h[1]
<1>2. /\ Rest \in Seq(Frame) /\ DOMAIN Rest = DOMAIN stack /\ h \in Handle \cup {Null}
      /\ h = Top.todo[1] /\ 1 \in DOMAIN Top.todo
  BY <1>1, RestFrames DEF Kept
<1>3. UNCHANGED roots
  BY DEF RunAction
<1>4. CASE stack' = Settled(Rest) /\ UNCHANGED <<object, raised>>
  <2>1. DOMAIN stack' = DOMAIN stack
    BY <1>2, <1>4, SettledFrames
  <2>2. FramesSolid
    BY <1>1, <1>4, <2>1, RestContinued, FramesSame
  <2>3. RootsSolid /\ RefsSolid
    BY <1>3, <1>4, SolidFacts, RefsSame DEF RootsSolid
  <2> QED
    BY <2>2, <2>3, SolidStep
<1>5. CASE /\ h # Null
           /\ object' = IF At(h).kind = "weakref" THEN object
                        ELSE [object EXCEPT ![h[1]] = Hooked(@)]
           /\ CallPython(Rest, h, {h} \cup
                IF At(h).kind \in {"weakref", "lease"} THEN At(h).refs ELSE {})
  <2> DEFINE temp == {h} \cup IF At(h).kind \in {"weakref", "lease"} THEN At(h).refs ELSE {}
  <2>1. h \in Handle /\ Alive(h)
    <3>1. Len(stack) \in DOMAIN stack /\ Top = stack[Len(stack)]
      BY <1>1, StackBelow DEF Kept, Types, TypeOK
    <3> QED
      BY <1>2, <1>5, <3>1 DEF Kept, CallsKept, FrameKept
  <2>2. t \in Index /\ object[t] \in Object /\ object \in [Index -> Object]
    BY <2>1, Handles DEF Kept, Types, TypeOK
  <2>3. RefsSolid
    <3>1. Hooked(object[t]).kind = object[t].kind /\ Hooked(object[t]).refs = object[t].refs
      BY <2>2, HookedType
    <3>2. object' = object \/ object' = [object EXCEPT ![t] = Hooked(object[t])]
      BY <1>5
    <3> HIDE DEF t, h
    <3> QED
      BY <2>2, <3>1, <3>2, RefsReplaced, RefsSame
  <2>4. \A g \in temp : g \in Handle /\ Alive(g)
    <3> HIDE DEF h
    <3>1. \A g \in {h} \cup At(h).refs : g \in Handle /\ Alive(g)
      BY <2>1, LeaseHolds
    <3> QED
      BY <3>1
  <2>5. \A k \in DOMAIN Rest : Rest[k] = stack'[k] => Continued(k)
    BY <1>1, <1>2, RestContinued
  <2> HIDE DEF temp, h
  <2>6. CallPython(Rest, h, temp)
    BY <1>5 DEF temp
  <2> QED
    BY <1>2, <1>3, <2>3, <2>4, <2>5, <2>6, SolidCall
<1> QED
  BY <1>4, <1>5 DEF RunAction, Rest

LEMMA SolidTurn ==
  ASSUME Kept, Solid, ~program.raising, UNCHANGED program, Turn
  PROVE  Solid'
<1>1. PICK actions \in Actions(Live) : TurnBy(actions)
  BY TurnTypes
<1> DEFINE kept == KeptBy(actions)
<1>2. /\ kept \subseteq Used
      /\ \A h \in RootHandles \cup ActionRoots(actions) : Alive(h) => h[1] \in kept
      /\ \A i \in kept : \A h \in object[i].refs : Alive(h) => h[1] \in kept
      /\ Used' = kept
      /\ \A h \in Handle : Alive(h) /\ h[1] \in kept => Alive(h)'
  BY <1>1, KeptByClosed, TurnSafe
<1> HIDE DEF kept
<1>3. raised' = Null /\ UNCHANGED roots
  BY SolidFacts DEF Turn
<1>4. \A h \in roots' : Alive(h)'
  BY <1>2, <1>3, SolidFacts DEF RootHandles
<1>5. ASSUME NEW i \in Used', NEW h \in object'[i].refs PROVE Alive(h)'
  <2>1. i \in kept /\ i \in Index /\ object'[i] = AfterTurn(i, Live, kept)
    BY <1>1, <1>2 DEF TurnBy, Used, kept
  <2>2. h \in object[i].refs
    BY <1>5, <2>1, AfterTurnType
  <2> QED
    BY <1>2, <2>1, <2>2, SolidFacts
<1>6. ASSUME NEW k \in DOMAIN stack', Continued(k)
      PROVE  stack'[k].saved = Null /\ \A h \in stack'[k].temp : Alive(h)'
  <2>1. k \in DOMAIN stack /\ stack'[k].saved = Null
    BY <1>6 DEF Continued, Solid
  <2>2. ASSUME NEW h \in stack[k].temp PROVE Alive(h)'
    <3>1. h \in Handle /\ Alive(h)
      BY <2>1, FrameTypes DEF Solid, Kept
    <3>2. h \in RootHandles
      <4>1. DOMAIN stack = 1 .. Len(stack)
        BY DEF Kept, Types, TypeOK
      <4> QED
        BY <2>1, <4>1 DEF RootHandles
    <3> QED
      BY <1>2, <3>1, <3>2
  <2> QED
    BY <1>6, <2>1, <2>2 DEF Continued
<1>7. \A h \in ActionRoots(actions) : Alive(h)'
  <2>1. ActionRoots(actions) \subseteq Handle
    BY ActionRootsType
  <2>2. \A h \in Range(actions) \ {Null} : h \in Handle /\ Alive(h)
    <3>1. \A n \in DOMAIN actions : actions[n] # Null => actions[n] \in Handle /\ Alive(actions[n])
      BY ActionRootsType
    <3> QED
      BY <3>1 DEF Range
  <2>3. \A h \in ActionRoots(actions) : Alive(h)
    BY <2>2, LeaseHolds DEF ActionRoots
  <2> QED
    BY <1>2, <2>1, <2>3
<1>8. ASSUME NEW k \in DOMAIN stack'
      PROVE  stack'[k].saved = Null /\ \A h \in stack'[k].temp : Alive(h)'
  <2>1. CASE actions = <<>>
    <3>1. Continued(k)
      BY <1>1, <2>1, StackPopped DEF TurnBy, Turn, Kept
    <3> QED
      BY <1>6, <3>1
  <2>2. CASE actions # <<>>
    <3>1. /\ DOMAIN stack' = DOMAIN stack
          /\ stack'[Len(stack)].saved = Top.saved
          /\ stack'[Len(stack)].temp = ActionRoots(actions)
          /\ k # Len(stack) => Continued(k)
      BY <1>1, <2>2, TurnStack DEF Turn
    <3>2. Top.saved = Null
      BY SolidFacts DEF Turn
    <3> QED
      BY <1>6, <1>7, <3>1, <3>2
  <2> QED
    BY <2>1, <2>2
<1> QED
  BY <1>3, <1>4, <1>5, <1>8 DEF Solid

LEMMA SolidNext == Kept /\ Solid /\ [Next]_vars => Solid'
<1> SUFFICES ASSUME Kept, Solid, [Next]_vars PROVE Solid'
  OBVIOUS
<1>1. CASE UNCHANGED vars
  BY <1>1 DEF vars, heapVars, Solid, Alive, Used
<1>2. CASE Next
  <2>1. UNCHANGED program
    BY <1>2 DEF Next
  <2> SUFFICES ASSUME ~program.raising PROVE Solid'
    BY <2>1 DEF Solid
  <2>2. CASE Turn
    BY <2>1, <2>2, SolidTurn
  <2>3. CASE ~Turn
    <3>1. AllStay /\ stack' \in Seq(Frame)
      BY <1>2, <2>3, StepGood DEF Types, TypeOK
    <3>2. CASE Python
      <4>1. CASE \/ \E h \in roots : Drop(h) \/ Raise(h)
                 \/ \E h \in Handle : Load(h) \/ LoadArgument(h)
                 \/ \E w \in Index : Dereference(w)
                 \/ Catch
        <5>1. UNCHANGED <<object, stack>>
          BY <4>1 DEF Drop, Raise, Load, LoadArgument, Dereference, Catch, heapVars
        <5> QED
          BY <3>1, <4>1, <5>1, SolidQuiet
      <4>2. CASE \E h \in roots : Acquire(h) \/ Derive(h) \/ Release(h)
        BY <3>1, <4>2, SolidAcquire, SolidDerive, SolidRelease
      <4> QED
        BY <3>1, <3>2, <4>1, <4>2, SolidNew, SolidEdit DEF Python
    <3> QED
      BY <1>2, <2>3, <3>1, <3>2, SolidViewAllocated, SolidViewRefused, SolidCollect,
         SolidRunAction, SolidCallbackReturns DEF Next
  <2> QED
    BY <2>2, <2>3
<1> QED
  BY <1>1, <1>2

LEMMA SolidInit == Init => Solid
<1> SUFFICES ASSUME Init PROVE Solid
  OBVIOUS
<1>1. DOMAIN stack = {} /\ Used = {}
  BY DEF Init, Free, Blank, Used
<1> QED
  BY <1>1 DEF Init, Solid

(* What the program holds, and what it can reach from there, is never       *)
(* swept, unless it allocates with an exception pending: a turn keeps what *)
(* roots, callers' temporaries and scheduled actions lead to, so no used    *)
(* object is left with a handle to a swept one.                            *)
THEOREM NothingDangles == Spec => []NoDangling
<1>1. Kept /\ Solid => NoDangling
  <2> SUFFICES ASSUME Kept, Solid, ~program.raising
               PROVE  /\ \A h \in Held : Alive(h)
                      /\ \A i \in Marked(Held, {}) : \A h \in object[i].refs : Alive(h)
    BY DEF NoDangling
  <2>1. ASSUME NEW h \in Held PROVE Alive(h)
    <3>1. CASE h \in roots
      BY <3>1 DEF Solid
    <3>2. ASSUME NEW k \in 1 .. Len(stack), h \in stack[k].temp \cup (Range(stack[k].todo) \ {Null})
          PROVE  Alive(h)
      <4>1. k \in DOMAIN stack
        BY DEF Kept, Types, TypeOK
      <4>2. CASE h \in stack[k].temp
        BY <4>1, <4>2 DEF Solid
      <4>3. ASSUME NEW n \in DOMAIN stack[k].todo, h = stack[k].todo[n], h # Null
            PROVE  Alive(h)
        BY <4>1, <4>3 DEF Kept, CallsKept, FrameKept
      <4> QED
        BY <3>2, <4>2, <4>3 DEF Range
    <3> QED
      BY <2>1, <3>1, <3>2 DEF Held
  <2>2. Marked(Held, {}) \subseteq Used
    BY MarkedProperties
  <2> QED
    BY <2>1, <2>2 DEF Solid
<1>2. Spec => []Solid
  BY SolidInit, SolidNext, KeptAlways, PTL DEF Spec
<1> QED
  BY <1>1, <1>2, KeptAlways, PTL

-----------------------------------------------------------------------------
(* Finalizers run before weak references are cleared *)

(* Python was called for an instance that is marked as finalized, and an    *)
(* empty slot observes nothing.                                            *)
Finalized ==
  /\ \A i \in Used : object[i].kind = "instance" /\ object[i].done => calls[HandleOf(i)] = 1
  /\ \A i \in Index : object[i].kind = "free" => object[i].weak = Null

(* The object in slot i stays; the step marks it as finalized only when it  *)
(* calls Python for it, and recounts the views of no lease outside T.      *)
Lasting(i, T) ==
  /\ object'[i].kind = object[i].kind
  /\ object'[i].weak = object[i].weak
  /\ object'[i].spared = object[i].spared
  /\ object'[i].kind = "instance" /\ object'[i].done =>
       object[i].done \/ CalledFor(HandleOf(i))
  /\ object'[i].kind = "lease" =>
       object'[i].done \/ object'[i].views = object[i].views \/ i \in T

(* An object is allocated, no view or lease outside T, and no hook of it has *)
(* run.                                                                    *)
Made(i, T) ==
  /\ i \notin Used /\ i \in Used' /\ ~object'[i].done
  /\ object'[i].kind \in {"view", "lease"} => i \in T

Lasts(T) == \A i \in Index : Lasting(i, T) \/ Made(i, T)

LEMMA LastingSame == UNCHANGED object => Lasts({})
BY DEF Lasts, Lasting

(* One object is allocated. *)
LEMMA LastingStored ==
  ASSUME Kept, NEW i \in Index, NEW obj, Store(i, obj), obj.kind # "free", ~obj.done
  PROVE  /\ Lasts({i}) /\ object'[i] = obj /\ i \notin Used
         /\ obj.kind \notin {"view", "lease"} => Lasts({})
<1>1. object'[i] = obj /\ \A j \in Index \ {i} : object'[j] = object[j]
  BY DEF Store, Kept, Types, TypeOK
<1>2. i \notin Used
  BY SlotTaken DEF Store
<1>3. \A j \in Index \ {i} : Lasting(j, {})
  BY <1>1 DEF Lasting
<1>4. \A j \in Index \ {i} : Lasting(j, {i})
  BY <1>1 DEF Lasting
<1> QED
  BY <1>1, <1>2, <1>3, <1>4 DEF Lasts, Made, Used

(* One object is replaced by one that has changed as objects may. *)
LEMMA LastingReplaced ==
  ASSUME Kept, NEW t \in Index, NEW new \in Object, object' = [object EXCEPT ![t] = new],
         new.kind = object[t].kind, new.weak = object[t].weak, new.spared = object[t].spared,
         new.kind = "instance" /\ new.done => object[t].done \/ CalledFor(HandleOf(t))
  PROVE  /\ Lasts({t}) /\ object'[t] = new
         /\ new.kind # "lease" \/ new.done \/ new.views = object[t].views => Lasts({})
<1>1. \A j \in Index : object'[j] = IF j = t THEN new ELSE object[j]
  BY DEF Kept, Types, TypeOK
<1> QED
  BY <1>1 DEF Lasts, Lasting

LEMMA LastingNew ==
  ASSUME Kept,
         \/ \E kind \in {"plain", "instance", "generator", "container"}, child \in AtMostOne :
              New(kind, child)
         \/ \E h \in roots : NewFunction(h)
         \/ \E h \in roots, value \in AtMostOne : NewWeakref(h, value)
  PROVE  Lasts({})
<1>1. ASSUME NEW kind \in {"plain", "instance", "generator", "container"},
             NEW child \in AtMostOne, New(kind, child)
      PROVE  Lasts({})
  <2> DEFINE obj == [Blank(kind, IF kind = "instance" THEN Ordinal ELSE 0) EXCEPT !.refs = child]
  <2>1. PICK i \in Index : Store(i, obj)
    BY <1>1 DEF New
  <2>2. obj.kind \notin {"free", "view", "lease"} /\ ~obj.done
    BY DEF Blank
  <2> HIDE DEF obj
  <2> QED
    BY <2>1, <2>2, LastingStored
<1>2. ASSUME NEW h \in roots, NewFunction(h) PROVE Lasts({})
  <2>1. PICK i \in Index : Store(i, Blank("function", 0))
    BY <1>2 DEF NewFunction
  <2>2. Blank("function", 0).kind \notin {"free", "view", "lease"} /\ ~Blank("function", 0).done
    BY DEF Blank
  <2> QED
    BY <2>1, <2>2, LastingStored
<1>3. ASSUME NEW h \in roots, NEW value \in AtMostOne, NewWeakref(h, value) PROVE Lasts({})
  <2> DEFINE obj == [Blank("weakref", Ordinal) EXCEPT !.refs = value, !.weak = h]
  <2>1. UNCHANGED object \/ \E i \in Index : Store(i, obj)
    BY <1>3 DEF NewWeakref
  <2>2. obj.kind \notin {"free", "view", "lease"} /\ ~obj.done
    BY DEF Blank
  <2> HIDE DEF obj
  <2> QED
    BY <2>1, <2>2, LastingStored, LastingSame
<1> QED
  BY <1>1, <1>2, <1>3

(* A new lease with one view to come. *)
LEMMA LastingAcquire ==
  ASSUME Kept, NEW provider \in roots, Acquire(provider)
  PROVE  \E i \in Index :
           /\ Lasts({i}) /\ i \notin Used
           /\ object'[i].kind = "lease" /\ object'[i].views = 1
           /\ stack' = Append(stack, Call("acquire", {<<i, generation'[i]>>, provider}, Null))
<1> DEFINE obj == [Blank("lease", 0) EXCEPT !.refs = {provider}, !.views = 1]
<1>1. PICK i \in Index :
        /\ Store(i, obj)
        /\ stack' = Append(stack, Call("acquire", {<<i, generation'[i]>>, provider}, Null))
  BY DEF Acquire
<1>2. obj.kind = "lease" /\ ~obj.done /\ obj.views = 1
  BY DEF Blank
<1> HIDE DEF obj
<1> QED
  BY <1>1, <1>2, LastingStored

(* A new view of the lease that awaits it. *)
LEMMA LastingViewAllocated ==
  ASSUME Kept, ViewAllocated
  PROVE  \E i \in Index :
           Lasts({i}) /\ i \notin Used /\ object'[i].kind = "view" /\ object'[i].refs = {NewViewsLease}
<1> DEFINE obj == [Blank("view", 0) EXCEPT !.refs = {NewViewsLease}]
<1>1. PICK i \in Index : Store(i, obj)
  BY DEF ViewAllocated
<1>2. obj.kind = "view" /\ ~obj.done /\ obj.refs = {NewViewsLease}
  BY DEF Blank
<1> HIDE DEF obj
<1> QED
  BY <1>1, <1>2, LastingStored

LEMMA LastingInsert ==
  ASSUME Kept, NEW container \in roots, NEW key \in roots, NEW value \in SUBSET roots,
         Insert(container, key, value)
  PROVE  Lasts({})
<1> DEFINE entry == [Blank("entry", 0) EXCEPT !.weak = key]
           c == container[1]
<1>1. PICK i \in Index :
       /\ NextSlot(i)
       /\ generation' = [generation EXCEPT ![i] = IF free = <<>> THEN 1 ELSE @]
       /\ issued' = issued \cup {<<i, generation'[i]>>}
       /\ free' = IF free = <<>> THEN free ELSE SubSeq(free, 1, Len(free) - 1)
       /\ object' = [object EXCEPT
            ![i] = entry,
            ![c].refs = {<<i, generation'[i]>>} \cup value]
  BY DEF Insert
<1> DEFINE filled == [object[c] EXCEPT !.refs = {<<i, generation'[i]>>} \cup value]
<1>2. i \notin Used
  BY <1>1, SlotTaken
<1>3. entry.kind = "entry" /\ ~entry.done
  BY DEF Blank
<1>4. /\ c \in Used /\ object[c].kind = "container" /\ c \in Index /\ c # i
      /\ object[c] \in Object /\ object \in [Index -> Object]
  BY <1>2 DEF Insert, Alive, At, Used, Kept, Types, TypeOK
<1>5. filled.kind = "container" /\ filled.weak = object[c].weak /\ filled.spared = object[c].spared
  BY <1>4 DEF Object
<1> HIDE DEF entry, filled, c
<1>6. object' = [[object EXCEPT ![i] = entry] EXCEPT ![c] = filled]
  BY <1>1, <1>4 DEF filled
<1>7. \A j \in Index : object'[j] = IF j = c THEN filled ELSE IF j = i THEN entry ELSE object[j]
  BY <1>4, <1>6
<1> QED
  BY <1>2, <1>3, <1>4, <1>5, <1>7 DEF Lasts, Lasting, Made, Used

LEMMA LastingLink ==
  ASSUME Kept, NEW target \in roots, NEW value \in SUBSET roots, Link(target, value)
  PROVE  Lasts({})
<1> DEFINE t == target[1]
           new == [object[t] EXCEPT !.refs = value]
<1>1. t \in Index /\ object[t] \in Object /\ value \in SUBSET Handle
  BY DEF Link, Alive, Used, Kept, Types, TypeOK
<1>2. /\ new \in Object /\ new.kind = object[t].kind /\ new.done = object[t].done
      /\ new.weak = object[t].weak /\ new.spared = object[t].spared
      /\ new.views = object[t].views
  BY <1>1 DEF Object
<1>3. object' = [object EXCEPT ![t] = new]
  BY DEF Link
<1> HIDE DEF t, new
<1> QED
  BY <1>1, <1>2, <1>3, LastingReplaced

LEMMA LastingDerive ==
  ASSUME Kept, NEW view \in roots, Derive(view), NEW lease \in Handle, lease = LeaseOf(view)
  PROVE  Lasts({lease[1]}) /\ object'[lease[1]].views = object[lease[1]].views + 1
<1> DEFINE t == lease[1]
           new == [object[t] EXCEPT !.views = object[t].views + 1]
<1>1. t \in Index /\ object[t] \in Object /\ object[t].views + 1 \in Nat
  <2>1. t \in Index /\ object[t] \in Object /\ object[t].views \in Nat
    BY Handles DEF Kept, Types, TypeOK, Object
  <2> QED
    BY <2>1
<1>2. object' = [object EXCEPT ![t] = new]
  BY DEF Derive
<1>3. /\ new \in Object /\ new.kind = object[t].kind /\ new.done = object[t].done
      /\ new.weak = object[t].weak /\ new.spared = object[t].spared
      /\ new.views = object[t].views + 1
  BY <1>1, CountedType
<1> HIDE DEF new, t
<1>4. Lasts({t}) /\ object'[t] = new
  BY <1>1, <1>2, <1>3, LastingReplaced
<1> QED
  BY <1>3, <1>4 DEF t

(* Both objects a release changes stay, and neither is an instance. *)
LEMMA LastingRelease ==
  ASSUME Kept, NEW view \in roots, Release(view), NEW lease \in Handle, lease = LeaseOf(view)
  PROVE  /\ Lasts({lease[1]})
         /\ object'[view[1]].done
         /\ \/ object'[lease[1]].done
            \/ object'[lease[1]].views = Saturating(object[lease[1]].views, 1)
         /\ ~object[lease[1]].done /\ object'[lease[1]].done => LastView(lease)
<1>1. IsLease(lease)
  BY ViewHasLease DEF Release
<1> DEFINE v == view[1]
           t == lease[1]
           closed == [object[v] EXCEPT !.done = TRUE]
           counted == [object[t] EXCEPT !.views = Saturating(object[t].views, 1)]
<1>2. /\ t \in Index /\ object[t] \in Object /\ object[t].kind = "lease"
      /\ v \in Index /\ object[v] \in Object /\ object[v].kind = "view"
      /\ object[t].views \in Nat /\ t # v
  BY <1>1, Handles DEF IsLease, Alive, At, Used, Release, Kept, Types, TypeOK, Object
<1>3. /\ closed \in Object /\ closed.kind = "view" /\ closed.weak = object[v].weak
      /\ closed.done /\ closed.spared = object[v].spared
      /\ counted \in Object /\ counted.kind = "lease" /\ counted.weak = object[t].weak
      /\ counted.spared = object[t].spared /\ counted.done = object[t].done
      /\ counted.views = Saturating(object[t].views, 1)
      /\ Hooked(object[t]) \in Object /\ Hooked(object[t]).kind = "lease"
      /\ Hooked(object[t]).weak = object[t].weak /\ Hooked(object[t]).done
      /\ Hooked(object[t]).spared = object[t].spared
  <2>1. /\ closed \in Object /\ closed.kind = "view" /\ closed.weak = object[v].weak
        /\ closed.done /\ closed.spared = object[v].spared
    BY <1>2 DEF Object
  <2>2. /\ counted \in Object /\ counted.kind = "lease" /\ counted.weak = object[t].weak
        /\ counted.spared = object[t].spared /\ counted.done = object[t].done
        /\ counted.views = Saturating(object[t].views, 1)
    BY <1>2, CountedType, SaturatingType
  <2> QED
    BY <1>2, <2>1, <2>2, HookedType
<1>4. \E new \in {Hooked(object[t]), counted} :
        /\ object' = [[object EXCEPT ![v] = closed] EXCEPT ![t] = new]
        /\ new = Hooked(object[t]) => new = counted \/ LastView(lease)
  <2> DEFINE released == [object EXCEPT ![v].done = TRUE]
  <2>1. released = [object EXCEPT ![v] = closed] /\ released[t] = object[t]
    BY <1>2 DEF Kept, Types, TypeOK
  <2>2. \/ object' = [released EXCEPT ![t] = Hooked(released[t])] /\ LastView(lease)
        \/ object' = [released EXCEPT ![t] =
             [released[t] EXCEPT !.views = Saturating(released[t].views, 1)]]
    BY DEF Release
  <2> HIDE DEF released, closed
  <2> QED
    BY <2>1, <2>2
<1>5. PICK new \in {Hooked(object[t]), counted} :
        /\ object' = [[object EXCEPT ![v] = closed] EXCEPT ![t] = new]
        /\ new = Hooked(object[t]) => new = counted \/ LastView(lease)
  BY <1>4
<1>6. /\ new \in Object /\ new.kind = "lease" /\ new.weak = object[t].weak
      /\ new.spared = object[t].spared
      /\ new.done \/ new.views = Saturating(object[t].views, 1)
      /\ ~object[t].done /\ new.done => LastView(lease)
  BY <1>3, <1>5
<1> HIDE DEF closed, counted, v, t
<1>7. \A j \in Index : object'[j] = IF j = t THEN new ELSE IF j = v THEN closed ELSE object[j]
  BY <1>2, <1>3, <1>5, <1>6 DEF Kept, Types, TypeOK
<1>8. Lasts({t})
  BY <1>2, <1>3, <1>6, <1>7 DEF Lasts, Lasting
<1> QED
  BY <1>2, <1>3, <1>6, <1>7, <1>8 DEF t, v

(* A refused view is no longer counted; a new lease is released. *)
LEMMA LastingViewRefused ==
  ASSUME Kept, ViewRefused, NEW lease \in Handle, lease = NewViewsLease
  PROVE  /\ Lasts({lease[1]})
         /\ \/ /\ Top.op = "derive" /\ stack' = Below
               /\ object'[lease[1]].views = Saturating(object[lease[1]].views, 1)
               /\ object'[lease[1]].done = object[lease[1]].done
            \/ /\ object'[lease[1]].done /\ Top.op = "acquire" /\ Lasts({})
               /\ stack' = Below \/ CallPython(Below, lease, Top.temp)
<1>1. IsLease(lease)
  BY NewViewHasLease DEF ViewRefused
<1> DEFINE t == lease[1]
           counted == [object[t] EXCEPT !.views = Saturating(object[t].views, 1)]
<1>2. /\ t \in Index /\ object[t] \in Object /\ object[t].views \in Nat
      /\ object[t].kind = "lease"
  BY <1>1, Handles DEF IsLease, At, Kept, Types, TypeOK, Object
<1>3. /\ counted \in Object /\ counted.kind = "lease" /\ counted.weak = object[t].weak
      /\ counted.views = Saturating(object[t].views, 1) /\ counted.done = object[t].done
      /\ counted.spared = object[t].spared
      /\ Hooked(object[t]) \in Object /\ Hooked(object[t]).kind = "lease"
      /\ Hooked(object[t]).weak = object[t].weak /\ Hooked(object[t]).done
      /\ Hooked(object[t]).spared = object[t].spared
  BY <1>2, CountedType, SaturatingType, HookedType
<1>4. CASE UNCHANGED object /\ Top.op = "acquire" /\ object[t].done /\ stack' = Below
  <2>1. Lasts({}) /\ Lasts({t})
    BY <1>4, LastingSame DEF Lasts, Lasting
  <2> QED
    BY <1>4, <2>1
<1>5. CASE /\ object' = [object EXCEPT ![t] = Hooked(object[t])] /\ Top.op = "acquire"
           /\ CallPython(Below, lease, Top.temp)
  <2>1. PICK new \in Object :
          /\ new.kind = "lease" /\ new.weak = object[t].weak /\ new.done
          /\ new.spared = object[t].spared /\ object' = [object EXCEPT ![t] = new]
    BY <1>3, <1>5
  <2> HIDE DEF t
  <2>2. Lasts({t}) /\ Lasts({}) /\ object'[t] = new
    BY <1>2, <2>1, LastingReplaced
  <2> QED
    BY <1>5, <2>1, <2>2 DEF t
<1>6. CASE object' = [object EXCEPT ![t] = counted] /\ Top.op = "derive" /\ stack' = Below
  <2> HIDE DEF t, counted
  <2>1. Lasts({t}) /\ object'[t] = counted
    BY <1>2, <1>3, <1>6, LastingReplaced
  <2> QED
    BY <1>3, <1>6, <2>1 DEF t
<1>7. \/ UNCHANGED object /\ Top.op = "acquire" /\ object[t].done /\ stack' = Below
      \/ /\ object' = [object EXCEPT ![t] = Hooked(object[t])] /\ Top.op = "acquire"
         /\ CallPython(Below, lease, Top.temp)
      \/ object' = [object EXCEPT ![t] = counted] /\ Top.op = "derive" /\ stack' = Below
  BY <1>2 DEF ViewRefused, Kept, Types, TypeOK, At
<1> QED
  BY <1>4, <1>5, <1>6, <1>7

LEMMA LastingRunAction ==
  ASSUME Kept, HooksSound, RunAction
  PROVE  Lasts({})
<1>1. PICK h : h = Head(Top.todo)
  OBVIOUS
<1>2. CASE h = Null \/ At(h).done
  BY <1>1, <1>2, LastingSame DEF RunAction
<1>3. CASE ~(h = Null \/ At(h).done)
  <2>1. h \in Handle /\ CalledFor(h)
    BY <1>1, <1>3, ActionCalled
  <2>2. h[1] \in Index /\ object[h[1]] \in Object
    BY <2>1, Handles DEF Kept, Types, TypeOK
  <2>3. CASE At(h).kind = "weakref"
    BY <1>1, <1>3, <2>3, LastingSame DEF RunAction
  <2>4. CASE At(h).kind # "weakref"
    <3>1. object' = [object EXCEPT ![h[1]] = Hooked(object[h[1]])]
      BY <1>1, <1>3, <2>2, <2>4 DEF RunAction, Kept, Types, TypeOK
    <3>2. Alive(h)
      <4>1. /\ Len(stack) \in DOMAIN stack /\ Top = stack[Len(stack)]
            /\ 1 \in DOMAIN Top.todo /\ h = Top.todo[1]
        BY <1>1, StackBelow, RestFrames DEF RunAction, Kept, Types, TypeOK
      <4> QED
        BY <1>3, <4>1 DEF Kept, CallsKept, FrameKept
    <3>3. HandleOf(h[1]) = h
      BY <2>1, <3>2, Handles DEF Alive, HandleOf
    <3>4. /\ Hooked(object[h[1]]) \in Object /\ Hooked(object[h[1]]).kind = object[h[1]].kind
          /\ Hooked(object[h[1]]).weak = object[h[1]].weak /\ Hooked(object[h[1]]).done
          /\ Hooked(object[h[1]]).spared = object[h[1]].spared
      BY <2>2, HookedType
    <3>5. PICK new \in Object :
            /\ new.kind = object[h[1]].kind /\ new.weak = object[h[1]].weak /\ new.done
            /\ new.spared = object[h[1]].spared /\ object' = [object EXCEPT ![h[1]] = new]
      BY <3>1, <3>4
    <3>6. CalledFor(HandleOf(h[1]))
      BY <2>1, <3>3
    <3> QED
      BY <2>2, <3>5, <3>6, LastingReplaced
  <2> QED
    BY <2>3, <2>4
<1> QED
  BY <1>2, <1>3

(* Steps other than those that make, count or release a view. *)
Viewing ==
  \/ \E h \in roots : Acquire(h) \/ Derive(h) \/ Release(h)
  \/ ViewAllocated \/ ViewRefused

LEMMA LastingQuiet ==
  ASSUME Kept, HooksSound, Next, ~Turn, ~Viewing
  PROVE  Lasts({})
<1>1. CASE Python
  <2>1. AtMostOne \subseteq SUBSET roots
    BY DEF AtMostOne
  <2>2. CASE \/ \E h \in roots : Drop(h) \/ Raise(h)
             \/ \E h \in Handle : Load(h) \/ LoadArgument(h)
             \/ \E w \in Index : Dereference(w)
             \/ Catch
    BY <2>2, LastingSame DEF Drop, Raise, Load, LoadArgument, Dereference, Catch, heapVars
  <2> QED
    BY <1>1, <2>1, <2>2, LastingNew, LastingInsert, LastingLink DEF Python, Viewing
<1>2. CASE Collect \/ CallbackReturns
  BY <1>2, LastingSame DEF Collect, CallbackReturns, heapVars
<1> QED
  BY <1>1, <1>2, LastingRunAction DEF Next, Viewing

LEMMA LastingStep ==
  ASSUME Kept, HooksSound, Next, ~Turn
  PROVE  \E T \in SUBSET Index : Lasts(T)
<1>1. CASE ~Viewing
  BY <1>1, LastingQuiet
<1>2. ASSUME NEW h \in roots, Acquire(h) PROVE \E T \in SUBSET Index : Lasts(T)
  BY <1>2, LastingAcquire
<1>3. ASSUME NEW h \in roots, Derive(h) \/ Release(h) PROVE \E T \in SUBSET Index : Lasts(T)
  <2>1. PICK lease \in Handle : lease = LeaseOf(h)
    BY <1>3, ViewHasLease DEF Derive, Release, IsLease
  <2>2. lease[1] \in Index /\ Lasts({lease[1]})
    BY <1>3, <2>1, Handles, LastingDerive, LastingRelease
  <2> QED
    BY <2>2
<1>4. CASE ViewAllocated
  BY <1>4, LastingViewAllocated
<1>5. CASE ViewRefused
  <2>1. PICK lease \in Handle : lease = NewViewsLease
    BY <1>5, NewViewHasLease DEF ViewRefused, IsLease
  <2>2. lease[1] \in Index /\ Lasts({lease[1]})
    BY <1>5, <2>1, Handles, LastingViewRefused
  <2> QED
    BY <2>2
<1> QED
  BY <1>1, <1>2, <1>3, <1>4, <1>5 DEF Viewing

(* A swept slot is blank. *)
LEMMA TurnFrees ==
  ASSUME Kept, Turn, NEW i \in Index, i \notin Used'
  PROVE  object'[i] = Free
<1>1. PICK actions \in Actions(Live) :
        object' = [j \in Index |-> IF j \in KeptBy(actions)
                                   THEN AfterTurn(j, Live, KeptBy(actions)) ELSE Free]
  BY DEF Turn, KeptBy
<1>2. KeptBy(actions) \subseteq Used
  BY KeptByClosed
<1>3. AfterTurn(i, Live, KeptBy(actions)).kind = object[i].kind
  BY AfterTurnType
<1> QED
  BY <1>1, <1>2, <1>3 DEF Used

LEMMA FinalizedInit == Init => Finalized
<1> SUFFICES ASSUME Init PROVE Finalized
  OBVIOUS
<1>1. Used = {} /\ \A i \in Index : object[i].weak = Null
  BY DEF Init, Free, Blank, Used
<1> QED
  BY <1>1 DEF Finalized

LEMMA FinalizedStep == Kept /\ HooksSound /\ Finalized /\ [Next]_vars => Finalized'
<1> SUFFICES ASSUME Kept, HooksSound, Finalized, [Next]_vars PROVE Finalized'
  OBVIOUS
<1>1. CASE UNCHANGED vars
  BY <1>1 DEF vars, heapVars, Finalized, HandleOf, Used
<1>2. CASE Next /\ ~Turn
  <2>1. PICK T \in SUBSET Index : Lasts(T)
    BY <1>2, LastingStep
  <2>2. Safe
    BY <1>2, StepGood
  <2>3. UNCHANGED calls \/ \E g \in Handle : CalledFor(g)
    BY <1>2, StepCalls
  <2>4. ASSUME NEW i \in Used', object'[i].kind = "instance", object'[i].done
        PROVE  calls'[<<i, generation'[i]>>] = 1
    <3>1. i \in Index /\ Lasting(i, T)
      BY <2>1, <2>4 DEF Lasts, Made, Used
    <3>2. i \in Used /\ object[i].kind = "instance"
      BY <2>4, <3>1 DEF Lasting, Used
    <3>3. generation'[i] = generation[i]
      BY <2>2, <2>4, <3>2, SlotStays DEF Safe
    <3>4. PICK h \in Handle : h = HandleOf(i)
      BY <3>2, UsedAlive DEF Kept
    <3>5. calls'[h] = 1
      <4>1. calls \in [Handle -> Nat]
        BY DEF Kept, Types, TypeOK
      <4>2. CASE object[i].done
        <5>1. calls[h] = 1
          BY <3>2, <3>4, <4>2 DEF Finalized
        <5> QED
          BY <2>3, <4>1, <5>1 DEF CalledFor
      <4>3. CASE CalledFor(h)
        BY <4>1, <4>3 DEF CalledFor
      <4> QED
        BY <2>4, <3>1, <3>4, <4>2, <4>3 DEF Lasting
    <3> QED
      BY <3>3, <3>4, <3>5 DEF HandleOf
  <2>5. ASSUME NEW i \in Index, object'[i].kind = "free" PROVE object'[i].weak = Null
    BY <2>1, <2>5 DEF Lasts, Lasting, Made, Finalized, Used
  <2> QED
    BY <2>4, <2>5 DEF Finalized, HandleOf
<1>3. CASE Next /\ Turn
  <2>1. PICK actions \in Actions(Live) : TurnBy(actions)
    BY <1>3, TurnTypes DEF Next
  <2>2. Safe /\ Used' = KeptBy(actions) /\ KeptBy(actions) \subseteq Used
    BY <2>1, TurnSafe, KeptByClosed
  <2>3. ASSUME NEW i \in Used', object'[i].kind = "instance", object'[i].done
        PROVE  calls'[<<i, generation'[i]>>] = 1
    <3>1. i \in Used /\ i \in Index /\ object'[i] = AfterTurn(i, Live, KeptBy(actions))
      BY <2>1, <2>2, <2>3 DEF TurnBy, Used
    <3>2. object[i].kind = "instance" /\ object[i].done
      BY <2>3, <3>1, AfterTurnType
    <3>3. generation'[i] = generation[i]
      BY <2>2, <2>3, <3>1, SlotStays DEF Safe
    <3> QED
      BY <1>3, <3>1, <3>2, <3>3 DEF Finalized, HandleOf, Turn
  <2>4. ASSUME NEW i \in Index, object'[i].kind = "free" PROVE object'[i].weak = Null
    <3>1. i \notin Used'
      BY <2>4 DEF Used
    <3>2. object'[i] = Free
      BY <1>3, <2>2, <2>4, <3>1, TurnFrees
    <3> QED
      BY <3>2 DEF Free, Blank
  <2> QED
    BY <2>3, <2>4 DEF Finalized, HandleOf
<1> QED
  BY <1>1, <1>2, <1>3

(* An object with __del__ is finalized before any reachable weak reference  *)
(* to it is cleared: a turn that finds an unfinalized one dead schedules     *)
(* its finalizer and protects the references to it, and only a turn clears. *)
THEOREM FinalizersRunFirst == Spec => FinalizedBeforeCleared
<1> DEFINE First ==
      \A i \in Index :
        LET h == object[i].weak IN
        object[i].kind = object'[i].kind /\ h # Null /\ object'[i].weak = Null
          /\ Alive(h) /\ At(h).kind = "instance"
          => calls[h] = 1
<1>1. Kept /\ HooksSound /\ Finalized /\ [Next]_vars => [First]_vars
  <2> SUFFICES ASSUME Kept, HooksSound, Finalized, Next,
                      NEW i \in Index, NEW h, h = object[i].weak,
                      object[i].kind = object'[i].kind, h # Null, object'[i].weak = Null,
                      Alive(h), At(h).kind = "instance"
               PROVE  calls[h] = 1
    OBVIOUS
  <2>1. CASE ~Turn
    <3>1. \E T : Lasting(i, T) \/ Made(i, T)
      BY <2>1, LastingStep DEF Lasts
    <3> QED
      BY <3>1 DEF Lasting, Made, Used
  <2>2. CASE Turn
    <3>1. PICK actions \in Actions(Live) : TurnBy(actions)
      BY <2>2, TurnTypes DEF Next
    <3>2. Used' = KeptBy(actions) /\ KeptBy(actions) \subseteq Used
      BY <3>1, TurnSafe, KeptByClosed
    <3>3. i \in KeptBy(actions)
      <4>1. object[i].kind # "free"
        BY DEF Finalized
      <4> QED
        BY <3>2, <4>1 DEF Used
    <3>4. i \in Cleared(Live)
      BY <3>1, <3>3, AfterTurnType DEF TurnBy
    <3>5. h[1] \notin Live /\ h \notin {HandleOf(j) : j \in PendingFinalizers(Live)}
      BY <3>4 DEF Cleared
    <3>6. h \in Handle /\ h[1] \in Used /\ h = HandleOf(h[1])
      <4>1. h \in Handle
        BY DEF Kept, Types, TypeOK, Object
      <4> QED
        BY <4>1, Handles DEF Alive, HandleOf
    <3>7. object[h[1]].done
      BY <3>5, <3>6 DEF PendingFinalizers, Dead, At
    <3> QED
      BY <3>6, <3>7 DEF Finalized, At
  <2> QED
    BY <2>1, <2>2
<1>2. Spec => []Finalized
  BY FinalizedInit, FinalizedStep, KeptAlways, HooksAlways, PTL DEF Spec
<1> HIDE DEF First
<1>3. Spec => [][First]_vars
  BY <1>1, <1>2, KeptAlways, HooksAlways, PTL DEF Spec
<1> QED
  BY <1>3 DEF First, FinalizedBeforeCleared

-----------------------------------------------------------------------------
(* A collection that ends has found everything *)

(* A collection about to make a turn holds nothing itself. *)
Rests(s) ==
  s # <<>> /\ s[Len(s)].op = "collect" /\ s[Len(s)].todo = <<>> => s[Len(s)].temp = {}
Rested == Rests(stack)

LEMMA SettledRests ==
  ASSUME NEW s \in Seq(Frame)
  PROVE  Rests(Settled(s))
<1> SUFFICES ASSUME Settled(s) # <<>>, Settled(s)[Len(Settled(s))].op = "collect",
                    Settled(s)[Len(Settled(s))].todo = <<>>
             PROVE  Settled(s)[Len(Settled(s))].temp = {}
  BY DEF Rests
<1> DEFINE n == Len(s)
<1>1. Len(Settled(s)) = n /\ s # <<>> /\ n \in DOMAIN s
  <2>1. Len(Settled(s)) = n
    BY SettledFrames
  <2>2. s # <<>>
    BY <2>1
  <2> QED
    BY <2>1, <2>2
<1>2. s[n].op = "collect" /\ s[n].todo = <<>> /\ s[n] \in Frame
  BY <1>1, SettledFrames
<1>3. PICK top : top = [s[n] EXCEPT !.temp = {}]
  OBVIOUS
<1>4. top.temp = {}
  BY <1>2, <1>3 DEF Frame
<1>5. Settled(s) = [s EXCEPT ![n] = top]
  BY <1>1, <1>2, <1>3 DEF Settled
<1> QED
  BY <1>1, <1>4, <1>5

(* A call is made that is no collection, or holds nothing yet. *)
LEMMA PushedRests ==
  ASSUME NEW s \in Seq(Frame), NEW f, stack' = Append(s, f), stack' \in Seq(Frame),
         f.op # "collect" \/ f.temp = {} \/ f.todo # <<>>
  PROVE  Rested'
<1>1. f \in Frame
  BY AppendedFrame
<1>2. Len(stack') = Len(s) + 1 /\ stack'[Len(s) + 1] = f
  BY <1>1, AppendProperties
<1> QED
  BY <1>2 DEF Rested, Rests

(* The innermost call, no collection, ends. *)
LEMMA BelowRests ==
  ASSUME Kept, ExceptionsNested, stack # <<>>, Top.op # "callback", stack' = Below
  PROVE  Rested'
BY NotOnCollection DEF Rested, Rests

LEMMA RestedInit == Init => Rested
BY DEF Init, Rested, Rests

LEMMA RestedStep == Kept /\ ExceptionsNested /\ Rested /\ [Next]_vars => Rested'
<1> SUFFICES ASSUME Kept, ExceptionsNested, Rested, [Next]_vars PROVE Rested'
  OBVIOUS
<1>1. CASE UNCHANGED stack
  BY <1>1 DEF Rested
<1>2. CASE Next
  <2>1. stack \in Seq(Frame) /\ stack' \in Seq(Frame)
    BY <1>2, StepGood DEF Kept, Types, TypeOK
  <2>2. stack # <<>> => Below \in Seq(Frame)
    BY <2>1, StackBelow
  <2>3. ASSUME NEW op \in {"callback", "acquire", "derive"}, NEW temp, NEW saved,
               NEW s \in Seq(Frame), stack' = Append(s, Call(op, temp, saved))
        PROVE  Rested'
    <3>1. Call(op, temp, saved).op # "collect"
      BY DEF Call
    <3> HIDE DEF Call
    <3> QED
      BY <2>1, <2>3, <3>1, PushedRests
  <2>4. CASE Python
    <3>1. \/ UNCHANGED stack
          \/ \E op \in {"callback", "acquire", "derive"} : \E temp, saved :
               stack' = Append(stack, Call(op, temp, saved))
      BY <2>4 DEF Python, New, NewFunction, Drop, Raise, NewWeakref, Link, Insert, Load,
         LoadArgument, Dereference, Catch, Acquire, Derive, Release, CallPython
    <3> QED
      BY <1>1, <2>1, <2>3, <3>1
  <2>5. CASE ViewAllocated
    BY <2>5, BelowRests DEF ViewAllocated
  <2>6. CASE ViewRefused
    <3>1. \/ stack' = Below
          \/ \E temp, saved : stack' = Append(Below, Call("callback", temp, saved))
      BY <2>6 DEF ViewRefused, CallPython
    <3>2. stack # <<>> /\ Top.op # "callback"
      BY <2>6 DEF ViewRefused
    <3> QED
      BY <2>2, <2>3, <3>1, <3>2, BelowRests
  <2>7. CASE Collect
    <3>1. PICK f : stack' = Append(stack, f) /\ f = Call("collect", {}, raised)
      BY <2>7 DEF Collect
    <3>2. f.temp = {}
      BY <3>1 DEF Call
    <3> QED
      BY <2>1, <3>1, <3>2, PushedRests
  <2>8. CASE Turn
    <3>1. PICK actions \in Actions(Live) : TurnBy(actions)
      BY <1>2, <2>8, TurnTypes DEF Next
    <3>2. CASE actions = <<>>
      BY <2>2, <2>8, <3>1, <3>2, SettledRests DEF TurnBy, Turn, Rested
    <3>3. CASE actions # <<>>
      BY <2>8, <3>1, <3>3, TurnStack DEF Turn, Rested, Rests
    <3> QED
      BY <3>2, <3>3
  <2>9. CASE RunAction
    <3>1. Rest \in Seq(Frame)
      BY <2>9, RestFrames DEF RunAction, Kept
    <3>2. \/ stack' = Settled(Rest)
          \/ \E temp, saved : stack' = Append(Rest, Call("callback", temp, saved))
      BY <2>9 DEF RunAction, CallPython, Rest
    <3> QED
      BY <2>3, <3>1, <3>2, SettledRests DEF Rested
  <2>10. CASE CallbackReturns
    BY <2>2, <2>10, SettledRests DEF CallbackReturns, Rested
  <2> QED
    BY <1>2, <2>4, <2>5, <2>6, <2>7, <2>8, <2>9, <2>10 DEF Next
<1> QED
  BY <1>1, <1>2 DEF vars

(* Marking reaches the values of the pairs whose keys it reaches, and no     *)
(* more than any closed set that holds the roots.                          *)
LEMMA MarkedPairs ==
  ASSUME NEW from, NEW pairs
  PROVE  /\ \A p \in pairs :
              Alive(p[1]) /\ p[1][1] \in Marked(from, pairs) /\ Alive(p[2])
                => p[2][1] \in Marked(from, pairs)
         /\ \A S \in SUBSET Used :
              (\A h \in from : Alive(h) => h[1] \in S) /\ Closed(S, pairs)
                => Marked(from, pairs) \subseteq S
<1> DEFINE start == {h[1] : h \in {g \in from : Alive(g)}}
           closed == {S \in SUBSET Used : start \subseteq S /\ Closed(S, pairs)}
<1>1. Marked(from, pairs) = {i \in Used : \A S \in closed : i \in S}
  BY DEF Marked
<1>2. ASSUME NEW p \in pairs, Alive(p[1]), p[1][1] \in Marked(from, pairs), Alive(p[2])
      PROVE  p[2][1] \in Marked(from, pairs)
  <2>1. p[2][1] \in Used
    BY <1>2 DEF Alive
  <2>2. ASSUME NEW S \in closed PROVE p[2][1] \in S
    BY <1>1, <1>2, <2>2 DEF Closed
  <2> QED
    BY <1>1, <2>1, <2>2
<1>3. ASSUME NEW S \in SUBSET Used, \A h \in from : Alive(h) => h[1] \in S, Closed(S, pairs)
      PROVE  Marked(from, pairs) \subseteq S
  <2>1. S \in closed
    BY <1>3
  <2> QED
    BY <1>1, <2>1
<1> QED
  BY <1>2, <1>3

(* The last turn of a collection keeps what it marked, and prunes nothing. *)
LEMMA LastTurn ==
  ASSUME Kept, NEW actions \in Actions(Live), actions = <<>>
  PROVE  KeptBy(actions) = Live /\ Pruned(Live) = {}
<1>1. ActionRoots(actions) = {}
  BY DEF ActionRoots, Range
<1>2. Marked({}, {}) = {}
  <2>1. Closed({}, {})
    BY DEF Closed
  <2> QED
    BY <2>1, MarkedPairs
<1>3. Recollect(Live) = <<>>
  <2>1. PICK s \in Listings(Scheduled(Live), Sooner) :
          actions = [k \in DOMAIN s |-> HandleOf(s[k])] \o Recollect(Live)
    BY DEF Actions
  <2> DEFINE t == [k \in DOMAIN s |-> HandleOf(s[k])]
  <2>2. t \in Seq(Handle)
    <3>1. Cardinality(Scheduled(Live)) \in Nat
      BY ScheduledUsed, Handles, FS_Subset, FS_CardinalityType
    <3>2. s \in Seq(Scheduled(Live))
      BY <3>1 DEF Listings
    <3>3. \A i \in Scheduled(Live) : HandleOf(i) \in Handle
      BY ScheduledUsed, UsedAlive DEF Kept
    <3> HIDE DEF HandleOf, Scheduled
    <3> QED
      BY <3>2, <3>3
  <2> HIDE DEF t
  <2>3. Recollect(Live) \in Seq({Null})
    <3>1. <<>> \in Seq({Null}) /\ <<Null>> \in Seq({Null})
      OBVIOUS
    <3> QED
      BY <3>1 DEF Recollect
  <2>4. t \in Seq(Handle \cup {Null}) /\ Recollect(Live) \in Seq(Handle \cup {Null})
    BY <2>2, <2>3
  <2>5. Len(actions) = Len(t) + Len(Recollect(Live))
    BY <2>1, <2>4, ConcatProperties DEF t
  <2>6. Len(actions) = 0 /\ Len(t) \in Nat /\ Len(Recollect(Live)) \in Nat
    BY <2>4
  <2>7. Len(Recollect(Live)) = 0
    BY <2>5, <2>6
  <2> QED
    BY <2>4, <2>7, EmptySeq
<1>4. Pruned(Live) = {}
  <2>1. <<Null>> # <<>>
    OBVIOUS
  <2> QED
    BY <1>3, <2>1 DEF Recollect
<1> QED
  BY <1>1, <1>2, <1>4 DEF KeptBy

(* When the outermost collection ends, nothing unreachable is left: its     *)
(* last turn had nothing to do, swept what it did not mark, and the roots   *)
(* are those it marked from.                                               *)
THEOREM CollectionsFindAll == Spec => CollectComplete
<1> DEFINE Ends == stack # <<>> /\ stack' = <<>> /\ Top.op = "collect"
           All == Ends => Used' \subseteq Marked(RootHandles, builtins)'
<1>1. ASSUME Kept, Rested, Next, Ends PROVE Turn
  <2>1. ~RunAction
    <3>1. ASSUME RunAction PROVE FALSE
      <4>1. Rest \in Seq(Frame) /\ Len(Rest) = Len(stack) /\ Len(stack) \in Nat \ {0}
        BY <1>1, <3>1, RestFrames DEF RunAction, Kept, Types, TypeOK
      <4>2. stack' = Settled(Rest) \/ \E f : stack' = Append(Rest, f)
        BY <3>1 DEF RunAction, CallPython, Rest
      <4>3. Len(stack') # 0
        BY <4>1, <4>2, SettledFrames
      <4> QED
        BY <1>1, <4>3
    <3> QED
      BY <3>1
  <2>2. ~(ViewAllocated \/ ViewRefused \/ CallbackReturns \/ Collect)
    BY <1>1 DEF ViewAllocated, ViewRefused, CallbackReturns, Collect
  <2>3. ~PythonRuns
    BY <1>1 DEF PythonRuns
  <2>4. ~Python
    <3>1. ~Catch
      BY <1>1 DEF Catch
    <3> QED
      BY <2>3, <3>1 DEF Python, New, NewFunction, Drop, Raise, NewWeakref, Link, Insert, Load,
         LoadArgument, Dereference, Acquire, Derive, Release
  <2> QED
    BY <1>1, <2>1, <2>2, <2>4 DEF Next
<1>2. ASSUME Kept, Rested, Next, Ends, Turn PROVE Used' \subseteq Marked(RootHandles, builtins)'
  <2>1. PICK actions \in Actions(Live) : TurnBy(actions)
    BY <1>2, TurnTypes DEF Next
  <2>2. actions = <<>>
    <3>1. actions # <<>> => Len(stack') = Len(stack)
      BY <1>2, <2>1, TurnStack
    <3>2. Len(stack) # 0 /\ Len(stack') = 0
      BY <1>2 DEF Kept, Types, TypeOK
    <3> QED
      BY <3>1, <3>2
  <2>3. /\ Used' = Live /\ Live \subseteq Used /\ Live \subseteq Index
        /\ \A h \in Handle : Alive(h) /\ h[1] \in Live => Alive(h)'
    BY <1>2, <2>1, <2>2, TurnSafe, LastTurn, ScheduledUsed DEF Used
  <2>4. \A i \in Live : object'[i].refs = object[i].refs
    BY <1>2, <2>1, <2>2, <2>3, LastTurn, AfterTurnType DEF TurnBy
  <2>5. RootHandles \subseteq RootHandles' /\ RootHandles \subseteq Handle
    <3>1. Len(stack) = 1
      <4>1. stack' = Settled(Below) /\ Below \in Seq(Frame) /\ Len(Below) = Len(stack) - 1
        BY <1>2, <2>1, <2>2, StackBelow DEF TurnBy, Kept, Types, TypeOK
      <4>2. Len(Settled(Below)) = Len(Below) /\ Len(stack') = 0
        BY <1>2, <4>1, SettledFrames
      <4> QED
        BY <1>2, <4>1, <4>2 DEF Kept, Types, TypeOK
    <3>2. stack[1].temp = {}
      BY <1>2, <3>1 DEF Rested, Rests, Turn, Top
    <3>3. RootHandles = roots \cup ({raised} \ {Null})
      BY <3>1, <3>2 DEF RootHandles
    <3>4. UNCHANGED <<roots, raised>> /\ roots \subseteq Handle /\ raised \in Handle \cup {Null}
      BY <1>2 DEF Turn, Kept, Types, TypeOK
    <3>5. RootHandles' = roots \cup ({raised} \ {Null})
      <4>1. Len(stack') = 0
        BY <1>2
      <4> QED
        BY <3>4, <4>1 DEF RootHandles
    <3> QED
      BY <3>3, <3>4, <3>5
  <2>6. \A p \in builtins :
          p[1] \in Handle /\ p[2] \in Handle
          /\ (Alive(p[1]) /\ p[1][1] \in Live => p \in builtins')
    <3>1. builtins' = {p \in builtins : p[1][1] \in Live /\ Alive(p[1])}
      <4>1. PICK acts \in Actions(Live) :
              /\ object' = [i \in Index |-> IF i \in KeptBy(acts)
                                          THEN AfterTurn(i, Live, KeptBy(acts)) ELSE Free]
              /\ acts = <<>> => builtins' = {p \in builtins : p[1][1] \in KeptBy(acts) /\ Alive(p[1])}
              /\ acts # <<>> => \E f : stack' = Append(Below, f)
        BY <1>2 DEF Turn, KeptBy
      <4>2. acts = <<>>
        <5>1. Below \in Seq(Frame)
          BY <1>2, StackBelow DEF Kept, Types, TypeOK
        <5>2. \A f : Append(Below, f) # <<>>
          <6>1. ASSUME NEW s \in Seq(Frame), NEW f, Append(s, f) = <<>> PROVE FALSE
            <7>1. Len(Append(s, f)) = Len(s) + 1
              OBVIOUS
            <7>2. Len(s) \in Nat /\ Len(Append(s, f)) = 0
              BY <6>1
            <7> QED
              BY <7>1, <7>2
          <6> QED
            BY <5>1, <6>1
        <5> QED
          BY <1>2, <4>1, <5>2
      <4> QED
        BY <1>2, <4>1, <4>2, LastTurn
    <3> QED
      BY <1>2, <3>1 DEF Kept, Types, TypeOK
  <2> DEFINE from1 == RootHandles'
             pairs1 == builtins'
  <2>7. ASSUME NEW S \in SUBSET Used', \A h \in RootHandles' : Alive(h)' => h[1] \in S,
               \A i \in S : \A h \in object'[i].refs : Alive(h)' => h[1] \in S,
               \A p \in builtins' : Alive(p[1])' /\ p[1][1] \in S /\ Alive(p[2])' => p[2][1] \in S
        PROVE  Live \subseteq S
    <3>1. S \in SUBSET Used
      BY <2>3
    <3>2. ASSUME NEW h \in RootHandles, Alive(h) PROVE h[1] \in S
      <4>1. h[1] \in Live
        BY <3>2, MarkedProperties DEF Live
      <4> QED
        BY <2>3, <2>5, <2>7, <3>2, <4>1
    <3>3. Closed(S, builtins)
      <4>1. ASSUME NEW i \in S, NEW h \in object[i].refs, Alive(h) PROVE h[1] \in S
        <5>1. i \in Live /\ i \in Index
          BY <2>3
        <5>2. h[1] \in Live /\ h \in Handle
          BY <1>2, <4>1, <5>1, MarkedProperties DEF Live, Kept, Types, TypeOK, Object
        <5> QED
          BY <2>3, <2>4, <2>7, <4>1, <5>1, <5>2
      <4>2. ASSUME NEW p \in builtins, Alive(p[1]), p[1][1] \in S, Alive(p[2])
            PROVE  p[2][1] \in S
        <5>1. p[1][1] \in Live /\ p \in builtins' /\ p[1] \in Handle /\ p[2] \in Handle
          BY <2>3, <2>6, <4>2
        <5>2. p[2][1] \in Live
          BY <4>2, <5>1, MarkedPairs DEF Live
        <5> QED
          BY <2>3, <2>7, <4>2, <5>1, <5>2
      <4> QED
        BY <4>1, <4>2 DEF Closed
    <3> QED
      BY <3>1, <3>2, <3>3, MarkedPairs DEF Live
  <2>8. ASSUME NEW i \in Used' PROVE i \in Marked(RootHandles, builtins)'
    BY <2>3, <2>7 DEF Marked, Closed
  <2> QED
    BY <2>8
<1>3. Kept /\ Rested /\ [Next]_vars => [All]_vars
  BY <1>1, <1>2
<1>4. Spec => []Rested
  BY RestedInit, RestedStep, KeptAlways, NestedAlways, PTL DEF Spec
<1> HIDE DEF All
<1>5. Spec => [][All]_vars
  BY <1>3, <1>4, KeptAlways, PTL DEF Spec
<1> QED
  BY <1>5 DEF All, CollectComplete

-----------------------------------------------------------------------------
(* A buffer is released after its last view *)

(* A lease that has not been released, and none of whose views the lifecycle *)
(* phase spared.                                                           *)
Unspent(h) == IsLease(h) /\ ~At(h).done /\ ~At(h).spared

(* The calls that are about to allocate a view of a lease. *)
Pending(h) ==
  {k \in DOMAIN stack : stack[k].op \in {"acquire", "derive"} /\ h \in stack[k].temp}

(* An action of a collection is for h. *)
Waiting(h) == \E k \in DOMAIN stack : \E n \in DOMAIN stack[k].todo : stack[k].todo[n] = h

(* A lease counts its open views and those to come; a view that is the first *)
(* of its lease is the only one; a lease that a collection will finalize has *)
(* none.                                                                   *)
ClaimKept(h) ==
  Unspent(h) =>
    /\ Cardinality(OpenViews(h)) + Cardinality(Pending(h)) <= At(h).views
    /\ \A k \in Pending(h) : stack[k].op = "acquire" => OpenViews(h) = {} /\ Pending(h) = {k}
    /\ Waiting(h) => OpenViews(h) = {} /\ Pending(h) = {}

ClaimsKept == \A h \in Handle : ClaimKept(h)

(* Nothing on the stack that was not there concerns h. *)
Carried(h) ==
  \A k \in DOMAIN stack' :
    \/ Continued(k)
    \/ stack'[k].todo = <<>>
       /\ (stack'[k].op \in {"acquire", "derive"} => h \notin stack'[k].temp)

LEMMA ClaimsFinite ==
  ASSUME Types, NEW h
  PROVE  /\ IsFiniteSet(OpenViews(h)) /\ Cardinality(OpenViews(h)) \in Nat
         /\ IsFiniteSet(Pending(h)) /\ Cardinality(Pending(h)) \in Nat
<1>1. OpenViews(h) \subseteq Index
  BY DEF OpenViews, Used
<1>2. IsFiniteSet(DOMAIN stack)
  <2>1. DOMAIN stack = 1 .. Len(stack) /\ Len(stack) \in Nat
    BY DEF Types, TypeOK
  <2> QED
    BY <2>1, FS_Interval
<1>3. Pending(h) \subseteq DOMAIN stack
  BY DEF Pending
<1> QED
  BY <1>1, <1>2, <1>3, Handles, FS_Subset, FS_CardinalityType

LEMMA CarriedClaims ==
  ASSUME NEW h, Carried(h)
  PROVE  /\ Pending(h)' \subseteq Pending(h)
         /\ \A k \in Pending(h)' : stack'[k].op = stack[k].op
         /\ Waiting(h)' => Waiting(h)
<1>1. ASSUME NEW k \in Pending(h)' PROVE k \in Pending(h) /\ stack'[k].op = stack[k].op
  <2>1. /\ k \in DOMAIN stack' /\ stack'[k].op \in {"acquire", "derive"} /\ h \in stack'[k].temp
    BY <1>1 DEF Pending
  <2>2. Continued(k)
    BY <2>1 DEF Carried
  <2> QED
    BY <2>1, <2>2 DEF Continued, Pending
<1>2. ASSUME NEW k \in DOMAIN stack', NEW n \in DOMAIN stack'[k].todo, stack'[k].todo[n] = h
      PROVE  Waiting(h)
  <2>1. Continued(k)
    <3>1. DOMAIN <<>> = {}
      OBVIOUS
    <3> QED
      BY <1>2, <3>1 DEF Carried
  <2>2. PICK d \in {0, 1} : n + d \in DOMAIN stack[k].todo /\ stack'[k].todo[n] = stack[k].todo[n + d]
    BY <2>1 DEF Continued
  <2> QED
    BY <1>2, <2>1, <2>2 DEF Waiting, Continued
<1> QED
  BY <1>1, <1>2 DEF Waiting

(* A view stays a view of its lease and does not reopen. *)
LEMMA OpenViewsStep ==
  ASSUME Kept, Safe, NEW h
  PROVE  \A i \in OpenViews(h)' : i \in Used => i \in OpenViews(h)
<1> SUFFICES ASSUME NEW i \in Used', i \in Used, object'[i].kind = "view", ~object'[i].done,
                    h \in object'[i].refs
             PROVE  i \in OpenViews(h)
  BY DEF OpenViews
<1>1. object[i].kind = "view" /\ Evolved(i)
  BY SlotStays DEF Safe
<1> QED
  BY <1>1 DEF OpenViews, Evolved

(* A lease that is unspent after a step was so before, unless it is new. *)
LEMMA UnspentStep ==
  ASSUME Kept, Safe, NEW T, Lasts(T), NEW h \in Handle, Unspent(h)', h[1] \in Used \/ h[1] \notin T
  PROVE  Unspent(h) /\ (h[1] \notin T => (At(h).views)' = At(h).views)
<1>1. h[1] \in Index /\ h[1] \in Used' /\ object'[h[1]].kind = "lease"
      /\ ~object'[h[1]].done /\ ~object'[h[1]].spared /\ generation'[h[1]] = h[2]
  BY Handles DEF Unspent, IsLease, Alive, At
<1>2. Lasting(h[1], T)
  BY <1>1 DEF Lasts, Made
<1>3. h[1] \in Used
  BY <1>1, <1>2 DEF Lasting, Used
<1>4. generation[h[1]] = h[2] /\ Evolved(h[1])
  BY <1>1, <1>3, SlotStays DEF Safe
<1> QED
  BY <1>1, <1>2, <1>3, <1>4 DEF Unspent, IsLease, Alive, At, Lasting, Evolved

(* Fewer open views, fewer views to come, and the same count. *)
LEMMA ClaimQuiet ==
  ASSUME Types, Types', NEW h \in Handle, ClaimKept(h), Unspent(h), Unspent(h)',
         OpenViews(h)' \subseteq OpenViews(h), Carried(h), (At(h).views)' = At(h).views
  PROVE  ClaimKept(h)'
<1>1. PICK V, V1, P, P1, n :
        V = OpenViews(h) /\ V1 = OpenViews(h)' /\ P = Pending(h) /\ P1 = Pending(h)'
        /\ n = At(h).views
  OBVIOUS
<1>2. /\ IsFiniteSet(V) /\ IsFiniteSet(P) /\ Cardinality(V) \in Nat /\ Cardinality(P) \in Nat
      /\ V1 \subseteq V /\ P1 \subseteq P
  BY <1>1, ClaimsFinite, CarriedClaims
<1>3. /\ Cardinality(V1) \in Nat /\ Cardinality(V1) <= Cardinality(V)
      /\ Cardinality(P1) \in Nat /\ Cardinality(P1) <= Cardinality(P)
  BY <1>2, FS_Subset, FS_CardinalityType
<1>4. n \in Nat
  <2>1. h[1] \in Index /\ object[h[1]] \in Object
    BY Handles DEF Types, TypeOK
  <2> QED
    BY <1>1, <2>1 DEF At, Object
<1>5. /\ Cardinality(V) + Cardinality(P) <= n
      /\ \A k \in P : stack[k].op = "acquire" => V = {} /\ P = {k}
      /\ Waiting(h) => V = {} /\ P = {}
  BY <1>1 DEF ClaimKept
<1>6. Cardinality(V1) + Cardinality(P1) <= n
  BY <1>2, <1>3, <1>4, <1>5
<1>7. \A k \in P1 : stack'[k].op = "acquire" => V1 = {} /\ P1 = {k}
  BY <1>1, <1>2, <1>5, CarriedClaims
<1>8. Waiting(h)' => V1 = {} /\ P1 = {}
  BY <1>2, <1>5, CarriedClaims
<1> QED
  BY <1>1, <1>6, <1>7, <1>8 DEF ClaimKept

(* The steps that concern no view and no lease outside T leave every other   *)
(* lease as it is.                                                         *)
LEMMA ClaimLasts ==
  ASSUME Kept, Types', Safe, ClaimsKept, NEW T, Lasts(T), NEW h \in Handle, Carried(h), h[1] \notin T,
         \A i \in T \ Used : object'[i].kind = "view" => h \notin object'[i].refs
  PROVE  ClaimKept(h)'
<1> SUFFICES ASSUME Unspent(h)' PROVE ClaimKept(h)'
  BY DEF ClaimKept
<1>1. Unspent(h) /\ (At(h).views)' = At(h).views
  BY UnspentStep
<1>2. ASSUME NEW i \in OpenViews(h)' PROVE i \in OpenViews(h)
  <2>1. CASE i \in Used
    BY <1>2, <2>1, OpenViewsStep
  <2>2. CASE i \notin Used
    <3>1. i \in Used' /\ i \in Index /\ object'[i].kind = "view" /\ h \in object'[i].refs
      BY <1>2 DEF OpenViews, Used
    <3>2. ~Lasting(i, T)
      BY <2>2, <3>1 DEF Lasting, Used
    <3> QED
      BY <2>2, <3>1, <3>2 DEF Lasts, Made
  <2> QED
    BY <2>1, <2>2
<1> QED
  BY <1>1, <1>2, ClaimQuiet DEF ClaimsKept, Kept

(* A call that concerns no view is made on calls that go on. *)
LEMMA CarriedPushed ==
  ASSUME NEW s \in Seq(Frame), NEW f, stack' = Append(s, f), stack' \in Seq(Frame), f.todo = <<>>,
         \A k \in DOMAIN s : s[k] = stack'[k] => Continued(k),
         NEW h, f.op \in {"acquire", "derive"} => h \notin f.temp
  PROVE  Carried(h)
<1>1. f \in Frame
  BY AppendedFrame
<1>2. /\ Len(stack') = Len(s) + 1 /\ stack'[Len(s) + 1] = f
      /\ \A k \in 1 .. Len(s) : stack'[k] = s[k]
  BY <1>1, AppendProperties
<1>3. DOMAIN s = 1 .. Len(s) /\ DOMAIN stack' = 1 .. Len(s) + 1 /\ Len(s) \in Nat
  BY <1>2
<1> QED
  BY <1>2, <1>3 DEF Carried

LEMMA CarriedCall ==
  ASSUME NEW s \in Seq(Frame), NEW op, NEW temp, NEW saved, stack' = Append(s, Call(op, temp, saved)),
         stack' \in Seq(Frame), \A k \in DOMAIN s : s[k] = stack'[k] => Continued(k),
         NEW h, op \in {"acquire", "derive"} => h \notin temp
  PROVE  Carried(h)
<1>1. PICK f : f = Call(op, temp, saved)
  OBVIOUS
<1>2. f.todo = <<>> /\ f.op = op /\ f.temp = temp
  BY <1>1 DEF Call
<1> QED
  BY <1>1, <1>2, CarriedPushed

LEMMA CarriedSame ==
  ASSUME \A k \in DOMAIN stack' : Continued(k)
  PROVE  \A h : Carried(h)
BY DEF Carried

LEMMA BelowContinued ==
  ASSUME Types, stack # <<>>
  PROVE  Below \in Seq(Frame) /\ \A k \in DOMAIN Below : Below[k] = stack'[k] => Continued(k)
<1>1. Below \in Seq(Frame) /\ \A k \in DOMAIN Below : k \in DOMAIN stack /\ Below[k] = stack[k]
  BY StackBelow DEF Types, TypeOK
<1> QED
  BY <1>1, FrameSame

LEMMA CarriedQuiet ==
  ASSUME Kept, Types', Next, ~Turn, ~Viewing
  PROVE  \A h : Carried(h)
<1>1. stack' \in Seq(Frame) /\ stack \in Seq(Frame)
      /\ \A k \in DOMAIN stack : stack[k] = stack'[k] => Continued(k)
  BY SolidStack DEF Types, TypeOK
<1>2. CASE UNCHANGED stack
  BY <1>2, SameStack, CarriedSame DEF Kept
<1>3. CASE Python
  <2>1. UNCHANGED stack
    BY <1>3 DEF Viewing, Python, New, NewFunction, Drop, Raise, NewWeakref, Link, Insert, Load,
       LoadArgument, Dereference, Catch
  <2> QED
    BY <1>2, <2>1
<1>4. CASE Collect
  BY <1>1, <1>4, CarriedCall DEF Collect
<1>5. CASE CallbackReturns
  BY <1>5, StackPopped, CarriedSame DEF CallbackReturns, Kept
<1>6. CASE RunAction
  <2>1. /\ Rest \in Seq(Frame) /\ DOMAIN Rest = DOMAIN stack
        /\ \A k \in DOMAIN stack :
             stack'[k] = Rest[k] \/ stack'[k] = Settled(Rest)[k] => Continued(k)
    BY <1>6, RestFrames, RestContinued DEF RunAction, Kept
  <2>2. CASE stack' = Settled(Rest)
    <3>1. DOMAIN stack' = DOMAIN stack
      BY <2>1, <2>2, SettledFrames
    <3> QED
      BY <2>1, <2>2, <3>1, CarriedSame
  <2>3. ASSUME NEW temp, NEW saved, stack' = Append(Rest, Call("callback", temp, saved))
        PROVE  \A h : Carried(h)
    BY <1>1, <2>1, <2>3, CarriedCall
  <2> QED
    BY <1>6, <2>2, <2>3 DEF RunAction, CallPython, Rest
<1> QED
  BY <1>3, <1>4, <1>5, <1>6 DEF Next, Viewing

LEMMA ClaimsQuiet ==
  ASSUME Kept, HooksSound, Types', Safe, ClaimsKept, Next, ~Turn, ~Viewing
  PROVE  ClaimsKept'
<1>1. Lasts({})
  BY LastingQuiet
<1>2. ASSUME NEW h \in Handle PROVE ClaimKept(h)'
  BY <1>1, CarriedQuiet, ClaimLasts
<1> QED
  BY <1>2 DEF ClaimsKept

(* A handle that is not alive is nowhere on the stack among actions, leases  *)
(* of views to come and leases of views.                                   *)
LEMMA DeadUnclaimed ==
  ASSUME Kept, NEW h \in Handle, ~Alive(h)
  PROVE  OpenViews(h) = {} /\ Pending(h) = {} /\ ~Waiting(h)
<1>1. OpenViews(h) = {}
  BY DEF OpenViews, Kept, CallsKept, ViewsKept, IsLease
<1>2. Pending(h) = {}
  BY DEF Pending, Kept, CallsKept, FrameKept
<1>3. ~Waiting(h)
  BY Handles DEF Waiting, Kept, CallsKept, FrameKept
<1> QED
  BY <1>1, <1>2, <1>3

(* A step that makes no view of h opens none. *)
LEMMA OpenViewsKept ==
  ASSUME Kept, Safe, NEW T, Lasts(T), NEW h,
         \A i \in T \ Used : object'[i].kind = "view" => h \notin object'[i].refs
  PROVE  OpenViews(h)' \subseteq OpenViews(h)
<1> SUFFICES ASSUME NEW i \in OpenViews(h)', i \notin Used PROVE FALSE
  BY OpenViewsStep
<1>1. i \in Used' /\ i \in Index /\ object'[i].kind = "view" /\ h \in object'[i].refs
  BY DEF OpenViews, Used
<1>2. ~Lasting(i, T)
  BY <1>1 DEF Lasting, Used
<1> QED
  BY <1>1, <1>2 DEF Lasts, Made

LEMMA ClaimsAcquire ==
  ASSUME Kept, Types', Safe, AllStay, ClaimsKept, NEW provider \in roots, Acquire(provider)
  PROVE  ClaimsKept'
<1>1. PICK i \in Index :
        /\ Lasts({i}) /\ i \notin Used
        /\ object'[i].kind = "lease" /\ object'[i].views = 1
        /\ stack' = Append(stack, Call("acquire", {<<i, generation'[i]>>, provider}, Null))
  BY LastingAcquire
<1>2. PICK g : g = <<i, generation'[i]>>
  OBVIOUS
<1>3. stack \in Seq(Frame) /\ stack' \in Seq(Frame)
      /\ \A k \in DOMAIN stack : stack[k] = stack'[k] => Continued(k)
  BY SolidStack DEF Types, TypeOK
<1>4. PICK f : f = Call("acquire", {g, provider}, Null)
  OBVIOUS
<1>5. f.todo = <<>> /\ f.op = "acquire" /\ f.temp = {g, provider}
  BY <1>4 DEF Call
<1>6. stack' = Append(stack, f)
  BY <1>1, <1>2, <1>4
<1>7. provider \in Handle /\ Alive(provider)' /\ (At(provider).kind)' \in {"plain", "instance"}
  BY DEF Acquire, Kept, Types, TypeOK, AllStay, Stays
<1>8. ASSUME NEW h \in Handle, h # g PROVE ClaimKept(h)'
  <2> SUFFICES ASSUME Unspent(h)' PROVE ClaimKept(h)'
    BY DEF ClaimKept
  <2>1. h[1] # i
    BY <1>2, <1>8, Handles DEF Unspent, IsLease, Alive
  <2>2. h # provider
    BY <1>7 DEF Unspent, IsLease
  <2>3. Carried(h)
    BY <1>3, <1>5, <1>6, <1>8, <2>2, CarriedPushed
  <2> QED
    BY <1>1, <2>1, <2>3, ClaimLasts
<1>9. ASSUME NEW h \in Handle, h = g PROVE ClaimKept(h)'
  <2>1. ~Alive(h)
    BY <1>1, <1>2, <1>9 DEF Alive
  <2>2. OpenViews(h) = {} /\ Pending(h) = {} /\ ~Waiting(h)
    BY <2>1, DeadUnclaimed
  <2>3. OpenViews(h)' = {}
    <3>1. ASSUME NEW j \in OpenViews(h)' PROVE FALSE
      <4>1. j \notin Used
        BY <2>2, <3>1, OpenViewsStep
      <4>2. j \in Index /\ object'[j].kind = "view"
        BY <3>1 DEF OpenViews, Used
      <4>3. ~Lasting(j, {i})
        BY <4>1, <4>2 DEF Lasting, Used
      <4>4. j = i
        BY <1>1, <4>2, <4>3 DEF Lasts, Made
      <4> QED
        BY <1>1, <4>2, <4>4
    <3> QED
      BY <3>1
  <2> DEFINE n == Len(stack) + 1
  <2>4. /\ Len(stack') = n /\ stack'[n] = f /\ DOMAIN stack' = DOMAIN stack \cup {n}
        /\ \A k \in DOMAIN stack : stack'[k] = stack[k]
    <3>1. f \in Frame
      BY <1>3, <1>6, AppendedFrame
    <3>2. /\ Len(stack') = n /\ stack'[n] = f
          /\ \A k \in 1 .. Len(stack) : stack'[k] = stack[k]
      BY <1>3, <1>6, <3>1, AppendProperties
    <3>3. DOMAIN stack = 1 .. Len(stack) /\ DOMAIN stack' = 1 .. Len(stack) + 1 /\ Len(stack) \in Nat
      BY <1>3, <3>2
    <3> QED
      BY <3>2, <3>3
  <2> HIDE DEF n
  <2>5. Pending(h)' \subseteq {n}
    BY <2>2, <2>4 DEF Pending
  <2>6. ~Waiting(h)'
    <3>1. DOMAIN <<>> = {}
      OBVIOUS
    <3> QED
      BY <1>5, <2>2, <2>4, <3>1 DEF Waiting
  <2>7. (At(h).views)' = 1
    BY <1>1, <1>2, <1>9 DEF At
  <2>8. Cardinality(OpenViews(h)') = 0
    BY <2>3, FS_EmptySet
  <2>10. PICK V1, P1 : V1 = OpenViews(h)' /\ P1 = Pending(h)'
    OBVIOUS
  <2>9. Cardinality(P1) \in Nat /\ Cardinality(P1) <= 1
    <3>1. IsFiniteSet({n}) /\ Cardinality({n}) = 1
      BY FS_Singleton
    <3>2. P1 \subseteq {n}
      BY <2>5, <2>10
    <3>3. IsFiniteSet(P1) /\ Cardinality(P1) <= Cardinality({n})
      BY <3>1, <3>2, FS_Subset
    <3> QED
      BY <3>1, <3>3, FS_CardinalityType
  <2>11. Cardinality(V1) + Cardinality(P1) <= 1
    BY <2>8, <2>9, <2>10
  <2> QED
    BY <2>3, <2>5, <2>6, <2>7, <2>10, <2>11 DEF ClaimKept
<1> QED
  BY <1>8, <1>9 DEF ClaimsKept

LEMMA ClaimsDerive ==
  ASSUME Kept, Types', Safe, ClaimsKept, NEW view \in roots, Derive(view)
  PROVE  ClaimsKept'
<1>1. PICK lease \in Handle : lease = LeaseOf(view) /\ IsLease(lease) /\ lease \in At(view).refs
  BY ViewHasLease DEF Derive, IsLease
<1>2. Lasts({lease[1]}) /\ object'[lease[1]].views = object[lease[1]].views + 1
  BY <1>1, LastingDerive
<1>3. stack \in Seq(Frame) /\ stack' \in Seq(Frame)
      /\ \A k \in DOMAIN stack : stack[k] = stack'[k] => Continued(k)
  BY SolidStack DEF Types, TypeOK
<1>4. PICK f : f = Call("derive", {lease}, Null)
  OBVIOUS
<1>5. f.todo = <<>> /\ f.op = "derive" /\ f.temp = {lease}
  BY <1>4 DEF Call
<1>6. stack' = Append(stack, f)
  BY <1>1, <1>4 DEF Derive
<1>7. view[1] \in OpenViews(lease)
  BY <1>1 DEF OpenViews, Derive, Alive, At
<1>8. \A i \in {lease[1]} \ Used : FALSE
  BY <1>1 DEF IsLease, Alive
<1>9. ASSUME NEW h \in Handle, h # lease PROVE ClaimKept(h)'
  <2> SUFFICES ASSUME Unspent(h)' PROVE ClaimKept(h)'
    BY DEF ClaimKept
  <2>1. h[1] # lease[1]
    <3>1. lease[1] \in Used /\ generation[lease[1]] = lease[2]
      BY <1>1 DEF IsLease, Alive
    <3>2. h[1] \in Used' /\ generation'[h[1]] = h[2]
      BY DEF Unspent, IsLease, Alive
    <3>3. UNCHANGED generation
      BY DEF Derive
    <3> QED
      BY <1>9, <3>1, <3>2, <3>3, Handles
  <2>2. Carried(h)
    BY <1>3, <1>5, <1>6, <1>9, CarriedPushed
  <2> QED
    BY <1>2, <1>8, <2>1, <2>2, ClaimLasts
<1>10. ASSUME Unspent(lease)' PROVE ClaimKept(lease)'
  <2>1. Unspent(lease)
    BY <1>1, <1>2, <1>10, UnspentStep DEF IsLease, Alive
  <2>2. /\ Cardinality(OpenViews(lease)) + Cardinality(Pending(lease)) <= At(lease).views
        /\ \A k \in Pending(lease) : stack[k].op # "acquire"
        /\ ~Waiting(lease)
    BY <1>7, <2>1 DEF ClaimsKept, ClaimKept
  <2>3. OpenViews(lease)' \subseteq OpenViews(lease)
    BY <1>2, <1>8, OpenViewsKept
  <2> DEFINE n == Len(stack) + 1
  <2>4. /\ Len(stack') = n /\ stack'[n] = f /\ DOMAIN stack' = DOMAIN stack \cup {n}
        /\ \A k \in DOMAIN stack : stack'[k] = stack[k]
        /\ n \notin DOMAIN stack
    <3>1. f \in Frame
      BY <1>3, <1>6, AppendedFrame
    <3>2. /\ Len(stack') = n /\ stack'[n] = f
          /\ \A k \in 1 .. Len(stack) : stack'[k] = stack[k]
      BY <1>3, <1>6, <3>1, AppendProperties
    <3>3. DOMAIN stack = 1 .. Len(stack) /\ DOMAIN stack' = 1 .. Len(stack) + 1 /\ Len(stack) \in Nat
      BY <1>3, <3>2
    <3> QED
      BY <3>2, <3>3
  <2> HIDE DEF n
  <2>5. Pending(lease)' = Pending(lease) \cup {n} /\ n \notin Pending(lease)
    BY <1>5, <2>4 DEF Pending
  <2>6. \A k \in Pending(lease)' : stack'[k].op # "acquire"
    BY <1>5, <2>2, <2>4, <2>5 DEF Pending
  <2>7. ~Waiting(lease)'
    <3>1. DOMAIN <<>> = {}
      OBVIOUS
    <3> QED
      BY <1>5, <2>2, <2>4, <3>1 DEF Waiting
  <2>8. PICK V, V1, P, P1, m :
          V = OpenViews(lease) /\ V1 = OpenViews(lease)' /\ P = Pending(lease) /\ P1 = Pending(lease)'
          /\ m = At(lease).views
    OBVIOUS
  <2>9. /\ IsFiniteSet(V) /\ IsFiniteSet(P) /\ Cardinality(V) \in Nat /\ Cardinality(P) \in Nat
    BY <2>8, ClaimsFinite DEF Kept
  <2>10. Cardinality(P1) = Cardinality(P) + 1
    BY <2>5, <2>8, <2>9, FS_AddElement
  <2>11. Cardinality(V1) \in Nat /\ Cardinality(V1) <= Cardinality(V)
    BY <2>3, <2>8, <2>9, FS_Subset, FS_CardinalityType
  <2>12. m \in Nat /\ (At(lease).views)' = m + 1
    <3>1. lease[1] \in Index /\ object[lease[1]] \in Object
      BY Handles DEF Kept, Types, TypeOK
    <3> QED
      BY <1>2, <2>8, <3>1 DEF At, Object
  <2>13. Cardinality(V1) + Cardinality(P1) <= m + 1
    BY <2>2, <2>8, <2>9, <2>10, <2>11, <2>12
  <2> QED
    BY <2>6, <2>7, <2>8, <2>12, <2>13 DEF ClaimKept
<1> QED
  BY <1>9, <1>10 DEF ClaimsKept, ClaimKept

(* The innermost call awaits a view of a lease; no other call then awaits    *)
(* the first one, and no action will finalize it.                          *)
LEMMA ViewAwaited ==
  ASSUME Kept, ClaimsKept, stack # <<>>, Top.op \in {"acquire", "derive"},
         NEW lease \in Handle, lease = NewViewsLease, Unspent(lease), stack' = Below
  PROVE  /\ Len(stack) \in Pending(lease)
         /\ Pending(lease)' = Pending(lease) \ {Len(stack)}
         /\ \A k \in Pending(lease)' : stack'[k].op # "acquire"
         /\ ~Waiting(lease)'
<1>1. lease \in Top.temp
  BY NewViewHasLease
<1>2. /\ Below \in Seq(Frame) /\ Len(stack) \in DOMAIN stack /\ Top = stack[Len(stack)]
      /\ Len(Below) = Len(stack) - 1 /\ stack \in Seq(Frame)
      /\ \A k \in DOMAIN Below : k \in DOMAIN stack /\ Below[k] = stack[k]
  BY StackBelow DEF Kept, Types, TypeOK
<1>3. Len(stack) \in Pending(lease)
  BY <1>1, <1>2 DEF Pending
<1>4. DOMAIN stack' = DOMAIN stack \ {Len(stack)}
  <2>1. DOMAIN stack = 1 .. Len(stack) /\ DOMAIN stack' = 1 .. Len(stack) - 1 /\ Len(stack) \in Nat
    BY <1>2
  <2> QED
    BY <2>1
<1>5. Pending(lease)' = Pending(lease) \ {Len(stack)}
  BY <1>2, <1>4 DEF Pending
<1>6. \A k \in Pending(lease)' : stack'[k].op # "acquire"
  <2>1. \A k \in Pending(lease) : stack[k].op = "acquire" => Pending(lease) = {k}
    BY DEF ClaimsKept, ClaimKept
  <2>2. \A k \in Pending(lease)' :
          k \in Pending(lease) /\ k # Len(stack) /\ k \in DOMAIN stack' /\ stack'[k] = stack[k]
    BY <1>2, <1>4, <1>5 DEF Pending
  <2> QED
    BY <1>3, <2>1, <2>2
<1>7. ~Waiting(lease)
  BY <1>3 DEF ClaimsKept, ClaimKept
<1>8. ~Waiting(lease)'
  BY <1>2, <1>4, <1>7 DEF Waiting
<1> QED
  BY <1>3, <1>5, <1>6, <1>8

LEMMA ClaimsViewAllocated ==
  ASSUME Kept, Types', Safe, AllStay, ClaimsKept, ViewAllocated
  PROVE  ClaimsKept'
<1>1. PICK lease \in Handle : lease = NewViewsLease /\ IsLease(lease)
  BY NewViewHasLease DEF ViewAllocated, IsLease
<1>2. PICK i \in Index : Lasts({i}) /\ i \notin Used /\ object'[i].kind = "view" /\ object'[i].refs = {lease}
  BY <1>1, LastingViewAllocated
<1>3. stack' = Below /\ stack # <<>> /\ Top.op \in {"acquire", "derive"}
  BY DEF ViewAllocated
<1>4. \A h : Carried(h)
  BY <1>3, StackPopped, CarriedSame DEF Kept
<1>5. \A h \in Handle : Unspent(h)' => h[1] # i
  BY <1>2 DEF Unspent, IsLease, At
<1>6. ASSUME NEW h \in Handle, h # lease PROVE ClaimKept(h)'
  BY <1>2, <1>4, <1>5, <1>6, ClaimLasts DEF ClaimKept
<1>7. ASSUME Unspent(lease)' PROVE ClaimKept(lease)'
  <2>1. Unspent(lease) /\ (At(lease).views)' = At(lease).views
    BY <1>1, <1>2, <1>5, <1>7, UnspentStep
  <2>2. /\ Len(stack) \in Pending(lease)
        /\ Pending(lease)' = Pending(lease) \ {Len(stack)}
        /\ \A k \in Pending(lease)' : stack'[k].op # "acquire"
        /\ ~Waiting(lease)'
    BY <1>1, <1>3, <2>1, ViewAwaited
  <2>3. OpenViews(lease)' \subseteq OpenViews(lease) \cup {i}
    <3>1. ASSUME NEW j \in OpenViews(lease)', j \notin Used PROVE j = i
      <4>1. j \in Index /\ object'[j].kind = "view"
        BY <3>1 DEF OpenViews, Used
      <4>2. ~Lasting(j, {i})
        BY <3>1, <4>1 DEF Lasting, Used
      <4> QED
        BY <1>2, <4>1, <4>2 DEF Lasts, Made
    <3> QED
      BY <3>1, OpenViewsStep
  <2>4. PICK V, V1, P, P1, m :
          V = OpenViews(lease) /\ V1 = OpenViews(lease)' /\ P = Pending(lease) /\ P1 = Pending(lease)'
          /\ m = At(lease).views
    OBVIOUS
  <2>5. /\ IsFiniteSet(V) /\ IsFiniteSet(P) /\ Cardinality(V) \in Nat /\ Cardinality(P) \in Nat
    BY <2>4, ClaimsFinite DEF Kept
  <2>6. Cardinality(P1) = Cardinality(P) - 1
    BY <2>2, <2>4, <2>5, FS_RemoveElement
  <2>7. Cardinality(V1) \in Nat /\ Cardinality(V1) <= Cardinality(V) + 1
    <3>1. i \notin V
      BY <1>2, <2>4 DEF OpenViews
    <3>2. IsFiniteSet(V \cup {i}) /\ Cardinality(V \cup {i}) = Cardinality(V) + 1
      BY <2>5, <3>1, FS_AddElement
    <3> QED
      BY <2>3, <2>4, <3>2, FS_Subset, FS_CardinalityType
  <2>8. Cardinality(V) + Cardinality(P) <= m
    BY <2>1, <2>4 DEF ClaimsKept, ClaimKept
  <2>9. m \in Nat
    <3>1. lease[1] \in Index /\ object[lease[1]] \in Object
      BY Handles DEF Kept, Types, TypeOK
    <3> QED
      BY <2>4, <3>1 DEF At, Object
  <2>10. Cardinality(V1) + Cardinality(P1) <= m
    BY <2>5, <2>6, <2>7, <2>8, <2>9
  <2> QED
    BY <2>1, <2>2, <2>4, <2>10 DEF ClaimKept
<1> QED
  BY <1>6, <1>7 DEF ClaimsKept, ClaimKept

LEMMA ClaimsViewRefused ==
  ASSUME Kept, Types', Safe, ClaimsKept, ViewRefused
  PROVE  ClaimsKept'
<1>1. PICK lease \in Handle : lease = NewViewsLease /\ IsLease(lease)
  BY NewViewHasLease DEF ViewRefused, IsLease
<1>2. stack # <<>> /\ Top.op \in {"acquire", "derive"} /\ UNCHANGED generation
  BY DEF ViewRefused
<1>3. \A h : Carried(h)
  <2>1. CASE stack' = Below
    BY <1>2, <2>1, StackPopped, CarriedSame DEF Kept
  <2>2. CASE CallPython(Below, lease, Top.temp)
    <3>1. stack' = Append(Below, Call("callback", Top.temp, raised))
      BY <2>2 DEF CallPython
    <3>2. stack' \in Seq(Frame) /\ Below \in Seq(Frame)
          /\ \A k \in DOMAIN Below : Below[k] = stack'[k] => Continued(k)
      BY <1>2, BelowContinued DEF Kept, Types, TypeOK
    <3> QED
      BY <3>1, <3>2, CarriedCall
  <2> QED
    BY <1>1, <2>1, <2>2, LastingViewRefused
<1>4. \A i \in {lease[1]} \ Used : FALSE
  BY <1>1 DEF IsLease, Alive
<1>5. Lasts({lease[1]})
  BY <1>1, LastingViewRefused
<1>6. ASSUME NEW h \in Handle, h # lease PROVE ClaimKept(h)'
  <2> SUFFICES ASSUME Unspent(h)' PROVE ClaimKept(h)'
    BY DEF ClaimKept
  <2>1. h[1] # lease[1]
    BY <1>1, <1>2, <1>6, Handles DEF Unspent, IsLease, Alive
  <2> QED
    BY <1>3, <1>4, <1>5, <2>1, ClaimLasts
<1>7. ASSUME Unspent(lease)' PROVE ClaimKept(lease)'
  <2>1. /\ stack' = Below /\ ~object[lease[1]].done
        /\ object'[lease[1]].views = Saturating(object[lease[1]].views, 1)
    BY <1>1, <1>7, LastingViewRefused DEF Unspent, At
  <2>2. Unspent(lease)
    BY <1>1, <1>5, <1>7, UnspentStep DEF IsLease, Alive
  <2>3. /\ Len(stack) \in Pending(lease)
        /\ Pending(lease)' = Pending(lease) \ {Len(stack)}
        /\ \A k \in Pending(lease)' : stack'[k].op # "acquire"
        /\ ~Waiting(lease)'
    BY <1>1, <1>2, <2>1, <2>2, ViewAwaited
  <2>4. OpenViews(lease)' \subseteq OpenViews(lease)
    BY <1>4, <1>5, OpenViewsKept
  <2>5. PICK V, V1, P, P1, m :
          V = OpenViews(lease) /\ V1 = OpenViews(lease)' /\ P = Pending(lease) /\ P1 = Pending(lease)'
          /\ m = At(lease).views
    OBVIOUS
  <2>6. /\ IsFiniteSet(V) /\ IsFiniteSet(P) /\ Cardinality(V) \in Nat /\ Cardinality(P) \in Nat
    BY <2>5, ClaimsFinite DEF Kept
  <2>7. Cardinality(P1) = Cardinality(P) - 1 /\ Cardinality(P1) \in Nat
    BY <2>3, <2>5, <2>6, FS_RemoveElement, FS_CardinalityType
  <2>8. Cardinality(V1) \in Nat /\ Cardinality(V1) <= Cardinality(V)
    BY <2>4, <2>5, <2>6, FS_Subset, FS_CardinalityType
  <2>9. Cardinality(V) + Cardinality(P) <= m
    BY <2>2, <2>5 DEF ClaimsKept, ClaimKept
  <2>10. m \in Nat /\ (At(lease).views)' = Saturating(m, 1)
    <3>1. lease[1] \in Index /\ object[lease[1]] \in Object
      BY Handles DEF Kept, Types, TypeOK
    <3> QED
      BY <2>1, <2>5, <3>1 DEF At, Object
  <2>11. Cardinality(V1) + Cardinality(P1) <= Saturating(m, 1)
    BY <2>6, <2>7, <2>8, <2>9, <2>10 DEF Saturating
  <2> QED
    BY <2>3, <2>5, <2>10, <2>11 DEF ClaimKept
<1> QED
  BY <1>6, <1>7 DEF ClaimsKept, ClaimKept

LEMMA ClaimsRelease ==
  ASSUME Kept, Types', Safe, ClaimsKept, NEW view \in roots, Release(view)
  PROVE  ClaimsKept'
<1>1. PICK lease \in Handle : lease = LeaseOf(view) /\ IsLease(lease) /\ lease \in At(view).refs
  BY ViewHasLease DEF Release, IsLease
<1>2. /\ Lasts({lease[1]}) /\ object'[view[1]].done /\ UNCHANGED generation
      /\ \/ object'[lease[1]].done
         \/ object'[lease[1]].views = Saturating(object[lease[1]].views, 1)
  BY <1>1, LastingRelease DEF Release
<1>3. \A h : Carried(h)
  <2>1. CASE UNCHANGED stack
    BY <2>1, SameStack, CarriedSame DEF Kept
  <2>2. ASSUME NEW temp, NEW saved, stack' = Append(stack, Call("callback", temp, saved))
        PROVE  \A h : Carried(h)
    <3>1. stack \in Seq(Frame) /\ stack' \in Seq(Frame)
          /\ \A k \in DOMAIN stack : stack[k] = stack'[k] => Continued(k)
      BY SolidStack DEF Types, TypeOK
    <3>2. PICK op : op = "callback"
      OBVIOUS
    <3>3. op \notin {"acquire", "derive"} /\ stack' = Append(stack, Call(op, temp, saved))
      BY <2>2, <3>2
    <3> QED
      BY <3>1, <3>3, CarriedCall
  <2>3. CASE CallPython(stack, LeaseOf(view), {LeaseOf(view)} \cup At(LeaseOf(view)).refs)
    <3>1. PICK temp, saved : stack' = Append(stack, Call("callback", temp, saved))
      BY <2>3 DEF CallPython
    <3> QED
      BY <2>2, <3>1
  <2> QED
    BY <2>1, <2>3 DEF Release
<1>4. \A i \in {lease[1]} \ Used : FALSE
  BY <1>1 DEF IsLease, Alive
<1>5. view[1] \in OpenViews(lease)
  BY <1>1 DEF OpenViews, Release, Alive, At
<1>6. ASSUME NEW h \in Handle, h # lease PROVE ClaimKept(h)'
  <2> SUFFICES ASSUME Unspent(h)' PROVE ClaimKept(h)'
    BY DEF ClaimKept
  <2>1. h[1] # lease[1]
    BY <1>1, <1>2, <1>6, Handles DEF Unspent, IsLease, Alive
  <2> QED
    BY <1>2, <1>3, <1>4, <2>1, ClaimLasts
<1>7. ASSUME Unspent(lease)' PROVE ClaimKept(lease)'
  <2>1. Unspent(lease)
    BY <1>1, <1>2, <1>7, UnspentStep DEF IsLease, Alive
  <2>2. /\ Pending(lease)' \subseteq Pending(lease)
        /\ \A k \in Pending(lease)' : stack'[k].op # "acquire"
        /\ ~Waiting(lease)'
    BY <1>3, <1>5, <2>1, CarriedClaims DEF ClaimsKept, ClaimKept
  <2>3. OpenViews(lease)' \subseteq OpenViews(lease) \ {view[1]}
    <3>1. OpenViews(lease)' \subseteq OpenViews(lease)
      BY <1>2, <1>4, OpenViewsKept
    <3>2. view[1] \notin OpenViews(lease)'
      BY <1>2 DEF OpenViews
    <3> QED
      BY <3>1, <3>2
  <2>4. PICK V, V1, P, P1, m :
          V = OpenViews(lease) /\ V1 = OpenViews(lease)' /\ P = Pending(lease) /\ P1 = Pending(lease)'
          /\ m = At(lease).views
    OBVIOUS
  <2>5. /\ IsFiniteSet(V) /\ IsFiniteSet(P) /\ Cardinality(V) \in Nat /\ Cardinality(P) \in Nat
    BY <2>4, ClaimsFinite DEF Kept
  <2>6. Cardinality(P1) \in Nat /\ Cardinality(P1) <= Cardinality(P)
    BY <2>2, <2>4, <2>5, FS_Subset, FS_CardinalityType
  <2>7. Cardinality(V1) \in Nat /\ Cardinality(V1) <= Cardinality(V) - 1
    <3>1. IsFiniteSet(V \ {view[1]}) /\ Cardinality(V \ {view[1]}) = Cardinality(V) - 1
      BY <1>5, <2>4, <2>5, FS_RemoveElement
    <3> QED
      BY <2>3, <2>4, <3>1, FS_Subset, FS_CardinalityType
  <2>8. Cardinality(V) + Cardinality(P) <= m
    BY <2>1, <2>4 DEF ClaimsKept, ClaimKept
  <2>9. m \in Nat /\ (At(lease).views)' = Saturating(m, 1)
    <3>1. lease[1] \in Index /\ object[lease[1]] \in Object
      BY Handles DEF Kept, Types, TypeOK
    <3>2. ~object'[lease[1]].done
      BY <1>7 DEF Unspent, At
    <3> QED
      BY <1>2, <2>4, <3>1, <3>2 DEF At, Object
  <2>10. Cardinality(V1) + Cardinality(P1) <= Saturating(m, 1)
    BY <2>5, <2>6, <2>7, <2>8, <2>9 DEF Saturating
  <2> QED
    BY <2>2, <2>4, <2>9, <2>10 DEF ClaimKept
<1> QED
  BY <1>6, <1>7 DEF ClaimsKept, ClaimKept

(* The count and the history of an object after a turn. *)
LEMMA AfterTurnViews ==
  ASSUME Kept, NEW i \in Index, NEW live, NEW kept
  PROVE  /\ AfterTurn(i, live, kept).views =
              Saturating(object[i].views, Cardinality(DeadViews(i, live)))
         /\ ~AfterTurn(i, live, kept).spared =>
              ~object[i].spared /\ DeadViews(i, live) \cap kept = {}
<1> DEFINE weak == IF i \in Cleared(live) THEN Null ELSE object[i].weak
           refs == IF i \in Pruned(live) THEN {} ELSE object[i].refs
           views == Saturating(object[i].views, Cardinality(DeadViews(i, live)))
           spared == \/ object[i].spared
                     \/ object[i].kind # "lease" /\ i \notin live
                     \/ DeadViews(i, live) \cap kept # {}
<1>1. object[i] \in Object
  BY DEF Kept, Types, TypeOK
<1>2. AfterTurn(i, live, kept) =
        [object[i] EXCEPT !.weak = weak, !.refs = refs, !.views = views, !.spared = spared]
  BY <1>1 DEF AfterTurn, Object
<1> HIDE DEF weak, refs, views, spared
<1>3. AfterTurn(i, live, kept).views = views /\ AfterTurn(i, live, kept).spared = spared
  BY <1>1, <1>2 DEF Object
<1> QED
  BY <1>3 DEF views, spared

(* What a turn leaves of an unspent lease: it was there, its count is less  *)
(* by the views found dead, and none of those is kept.                     *)
LEMMA TurnUnspent ==
  ASSUME Kept, NEW actions \in Actions(Live), TurnBy(actions), NEW h \in Handle, Unspent(h)'
  PROVE  /\ Unspent(h) /\ h[1] \in Index /\ h = HandleOf(h[1])
         /\ DeadViews(h[1], Live) \subseteq OpenViews(h)
         /\ OpenViews(h)' \subseteq OpenViews(h) \ DeadViews(h[1], Live)
         /\ (At(h).views)' = Saturating(At(h).views, Cardinality(DeadViews(h[1], Live)))
<1>1. /\ Safe /\ Used' = KeptBy(actions) /\ KeptBy(actions) \subseteq Used /\ UNCHANGED issued
  BY TurnSafe, KeptByClosed DEF TurnBy, Swept
<1>2. h[1] \in Index /\ h[1] \in KeptBy(actions) /\ Alive(h)' /\ Alive(h) /\ h = HandleOf(h[1])
  <2>1. Alive(h)' /\ h[1] \in Used' /\ h[1] \in Index
    BY Handles DEF Unspent, IsLease, Alive
  <2>2. generation'[h[1]] = h[2] /\ h[1] \in Used
    BY <1>1, <2>1 DEF Alive
  <2>3. generation[h[1]] = h[2]
    BY <1>1, <2>1, <2>2, SlotStays DEF Safe
  <2> QED
    BY <1>1, <2>1, <2>2, <2>3, Handles DEF Alive, HandleOf
<1>3. object'[h[1]] = AfterTurn(h[1], Live, KeptBy(actions))
  BY <1>2 DEF TurnBy
<1>4. object'[h[1]].kind = "lease" /\ ~object'[h[1]].done /\ ~object'[h[1]].spared
  BY DEF Unspent, IsLease, At
<1>5. /\ object[h[1]].kind = "lease" /\ ~object[h[1]].done /\ ~object[h[1]].spared
      /\ object'[h[1]].views = Saturating(object[h[1]].views, Cardinality(DeadViews(h[1], Live)))
      /\ DeadViews(h[1], Live) \cap KeptBy(actions) = {}
  BY <1>2, <1>3, <1>4, AfterTurnType, AfterTurnViews
<1>6. Unspent(h)
  BY <1>2, <1>5 DEF Unspent, IsLease, At
<1>7. DeadViews(h[1], Live) \subseteq OpenViews(h)
  BY <1>2 DEF DeadViews, Dead, OpenViews
<1>8. OpenViews(h)' \subseteq OpenViews(h)
  BY <1>1, OpenViewsStep DEF OpenViews
<1>9. OpenViews(h)' \subseteq KeptBy(actions)
  BY <1>1 DEF OpenViews
<1> QED
  BY <1>2, <1>5, <1>6, <1>7, <1>8, <1>9 DEF At

LEMMA TurnFrames ==
  ASSUME Kept, Turn, NEW actions \in Actions(Live), TurnBy(actions)
  PROVE  \A k \in DOMAIN stack' :
           \/ Continued(k)
           \/ stack'[k].op = "collect" /\ stack'[k].todo = actions
<1>1. CASE actions = <<>>
  BY <1>1, StackPopped DEF Turn, TurnBy, Kept
<1>2. CASE actions # <<>>
  BY <1>2, TurnStack DEF Turn
<1> QED
  BY <1>1, <1>2

(* No view that is still open refers to a lease that a turn is to finalize, *)
(* and no call is about to make one.                                       *)
LEMMA TurnClaims ==
  ASSUME Kept, NEW actions \in Actions(Live), TurnBy(actions), NEW h \in Handle, Unspent(h)',
         NEW n \in DOMAIN actions, actions[n] = h
  PROVE  OpenViews(h)' = {} /\ Pending(h) = {}
<1>1. /\ Unspent(h) /\ h[1] \in Index /\ h = HandleOf(h[1])
      /\ OpenViews(h)' \subseteq OpenViews(h) \ DeadViews(h[1], Live)
  BY TurnUnspent
<1>2. PICK i \in Scheduled(Live) : h = HandleOf(i)
  BY ActionsType, Handles
<1>3. i = h[1] /\ object[i].kind = "lease" /\ Alive(h)
  BY <1>1, <1>2 DEF HandleOf, Unspent, IsLease, At
<1>4. i \notin Live
  BY <1>2, <1>3 DEF Scheduled, PendingFinalizers, Dead, Cleared, Observing
<1>5. /\ \A g \in RootHandles : Alive(g) => g[1] \in Live
      /\ \A j \in Live : \A g \in object[j].refs : Alive(g) => g[1] \in Live
  BY MarkedProperties DEF Live
<1>6. ASSUME NEW j \in OpenViews(h) PROVE j \in DeadViews(h[1], Live)
  <2>1. j \in Used /\ object[j].kind = "view" /\ ~object[j].done /\ h \in object[j].refs
    BY <1>6 DEF OpenViews
  <2>2. j \notin Live
    BY <1>3, <1>4, <1>5, <2>1
  <2> QED
    BY <1>1, <2>1, <2>2 DEF DeadViews, Dead
<1>7. ASSUME NEW k \in Pending(h) PROVE FALSE
  <2>1. k \in DOMAIN stack /\ h \in stack[k].temp /\ DOMAIN stack = 1 .. Len(stack)
    BY <1>7 DEF Pending, Kept, Types, TypeOK
  <2>2. h \in RootHandles
    BY <2>1 DEF RootHandles
  <2> QED
    BY <1>3, <1>4, <1>5, <2>2
<1> QED
  BY <1>1, <1>6, <1>7

LEMMA ClaimsTurn ==
  ASSUME Kept, UNCHANGED program, ClaimsKept, Turn
  PROVE  ClaimsKept'
<1>1. PICK actions \in Actions(Live) : TurnBy(actions)
  BY TurnTypes
<1> SUFFICES ASSUME NEW h \in Handle, Unspent(h)' PROVE ClaimKept(h)'
  BY DEF ClaimsKept, ClaimKept
<1>2. PICK V, V1, P, P1, D, m :
        V = OpenViews(h) /\ V1 = OpenViews(h)' /\ P = Pending(h) /\ P1 = Pending(h)'
        /\ m = At(h).views /\ D = DeadViews(h[1], Live)
  OBVIOUS
<1>3. /\ Unspent(h) /\ D \subseteq V /\ V1 \subseteq V \ D
      /\ (At(h).views)' = Saturating(m, Cardinality(D))
  BY <1>1, <1>2, TurnUnspent
<1>4. \A k \in P1 : k \in P /\ stack'[k].op = stack[k].op
  BY <1>1, <1>2, TurnFrames DEF Pending, Continued
<1>5. /\ Cardinality(V) + Cardinality(P) <= m
      /\ \A k \in P : stack[k].op = "acquire" => V = {} /\ P = {k}
      /\ Waiting(h) => V = {} /\ P = {}
  BY <1>2, <1>3 DEF ClaimsKept, ClaimKept
<1>6. Waiting(h)' => V1 = {} /\ P1 = {}
  <2>1. SUFFICES ASSUME NEW k \in DOMAIN stack', NEW n \in DOMAIN stack'[k].todo, stack'[k].todo[n] = h
                 PROVE  V1 = {} /\ P1 = {}
    BY DEF Waiting
  <2>2. CASE Continued(k)
    <3>1. PICK d \in {0, 1} : n + d \in DOMAIN stack[k].todo /\ stack'[k].todo[n] = stack[k].todo[n + d]
      BY <2>2 DEF Continued
    <3>2. Waiting(h)
      BY <2>1, <2>2, <3>1 DEF Waiting, Continued
    <3> QED
      BY <1>3, <1>4, <1>5, <3>2
  <2>3. CASE stack'[k].todo = actions
    BY <1>1, <1>2, <1>4, <2>1, <2>3, TurnClaims
  <2> QED
    BY <1>1, <2>2, <2>3, TurnFrames
<1>7. /\ IsFiniteSet(V) /\ IsFiniteSet(P) /\ Cardinality(V) \in Nat /\ Cardinality(P) \in Nat
  BY <1>2, ClaimsFinite DEF Kept
<1>8. m \in Nat
  <2>1. h[1] \in Index /\ object[h[1]] \in Object
    BY Handles DEF Kept, Types, TypeOK
  <2> QED
    BY <1>2, <2>1 DEF At, Object
<1>9. Cardinality(P1) \in Nat /\ Cardinality(P1) <= Cardinality(P)
  BY <1>4, <1>7, FS_Subset, FS_CardinalityType
<1>10. /\ Cardinality(V1) \in Nat /\ Cardinality(D) \in Nat
       /\ Cardinality(V1) <= Cardinality(V) - Cardinality(D)
  <2>1. IsFiniteSet(D) /\ Cardinality(D) \in Nat
    BY <1>3, <1>7, FS_Subset, FS_CardinalityType
  <2>2. IsFiniteSet(V \ D) /\ Cardinality(V \ D) = Cardinality(V) - Cardinality(V \cap D)
    BY <1>7, FS_Difference
  <2>3. V \cap D = D
    BY <1>3
  <2>4. IsFiniteSet(V1) /\ Cardinality(V1) <= Cardinality(V \ D)
    BY <1>3, <2>2, FS_Subset
  <2> QED
    BY <2>1, <2>2, <2>3, <2>4, FS_CardinalityType
<1>11. Cardinality(V1) + Cardinality(P1) <= Saturating(m, Cardinality(D))
  BY <1>5, <1>7, <1>8, <1>9, <1>10 DEF Saturating
<1>12. \A k \in P1 : stack'[k].op = "acquire" => V1 = {} /\ P1 = {k}
  BY <1>3, <1>4, <1>5
<1> QED
  BY <1>2, <1>3, <1>6, <1>11, <1>12 DEF ClaimKept

LEMMA ClaimsInit == Init => ClaimsKept
<1> SUFFICES ASSUME Init, NEW h \in Handle, Unspent(h) PROVE FALSE
  BY DEF ClaimsKept, ClaimKept
<1> QED
  BY DEF Init, Unspent, IsLease, Alive, Used, Free, Blank

LEMMA ClaimsStep == Kept /\ HooksSound /\ ClaimsKept /\ [Next]_vars => ClaimsKept'
<1> SUFFICES ASSUME Kept, HooksSound, ClaimsKept, [Next]_vars PROVE ClaimsKept'
  OBVIOUS
<1>1. CASE UNCHANGED vars
  BY <1>1 DEF vars, heapVars, ClaimsKept, ClaimKept, Unspent, IsLease, Alive, At, Used, OpenViews, Pending, Waiting
<1>2. CASE Next /\ Turn
  BY <1>2, ClaimsTurn DEF Next
<1>3. CASE Next /\ ~Turn
  <2>1. Types' /\ Safe /\ AllStay
    BY <1>3, StepGood DEF Good, Steady
  <2>2. CASE Viewing
    BY <2>1, <2>2, ClaimsAcquire, ClaimsDerive, ClaimsRelease, ClaimsViewAllocated, ClaimsViewRefused
       DEF Viewing
  <2>3. CASE ~Viewing
    BY <1>3, <2>1, <2>3, ClaimsQuiet
  <2> QED
    BY <2>2, <2>3
<1> QED
  BY <1>1, <1>2, <1>3

(* Only three steps release a lease. *)
LEMMA ReleaseSteps ==
  ASSUME Kept, Next, NEW i \in Index, ReleaseOf(i)
  PROVE  RunAction \/ ViewRefused \/ \E view \in roots : Release(view)
<1>1. object[i].kind = "lease" /\ ~object[i].done /\ object'[i].done /\ i \in Used /\ object[i] \in Object
  BY DEF ReleaseOf, Used, Kept, Types, TypeOK
<1>2. object \in [Index -> Object]
  BY DEF Kept, Types, TypeOK
<1>3. \A j, obj : Store(j, obj) => i # j
  BY <1>1, SlotTaken DEF Store
<1>4. ASSUME NEW j \in Index, NEW obj, Store(j, obj) PROVE FALSE
  <2>1. object'[i] = object[i]
    BY <1>2, <1>3, <1>4 DEF Store
  <2> QED
    BY <1>1, <2>1
<1>5. ~UNCHANGED object
  BY <1>1
<1>6. CASE Turn
  <2>1. PICK actions \in Actions(Live) : TurnBy(actions)
    BY <1>6, TurnTypes DEF Next
  <2>2. Used' = KeptBy(actions)
    BY <2>1, TurnSafe
  <2>3. i \in KeptBy(actions)
    BY <2>2 DEF ReleaseOf, Used
  <2> QED
    BY <1>1, <2>1, <2>3, AfterTurnType DEF TurnBy
<1>7. CASE Collect \/ CallbackReturns
  BY <1>5, <1>7 DEF Collect, CallbackReturns, heapVars
<1>8. CASE ViewAllocated
  BY <1>4, <1>8 DEF ViewAllocated
<1>9. CASE Python
  <2>1. ASSUME NEW kind, NEW child, New(kind, child) PROVE FALSE
    BY <1>4, <2>1 DEF New
  <2>2. ASSUME NEW h, NewFunction(h) PROVE FALSE
    BY <1>4, <2>2 DEF NewFunction
  <2>3. ASSUME NEW h, NEW value, NewWeakref(h, value) PROVE FALSE
    BY <1>4, <1>5, <2>3 DEF NewWeakref
  <2>4. ASSUME NEW h, NEW value, Link(h, value) PROVE FALSE
    <3>1. object'[i].done = object[i].done
      BY <1>1, <1>2, <2>4 DEF Link, Object
    <3> QED
      BY <1>1, <3>1
  <2>5. ASSUME NEW h, NEW key, NEW value, Insert(h, key, value) PROVE FALSE
    <3>1. PICK j, entry, refs :
            /\ j \in Index
            /\ j \notin Used
            /\ object' = [object EXCEPT ![j] = entry, ![h[1]].refs = refs]
      <4>1. PICK j \in Index :
              /\ NextSlot(j)
              /\ generation' = [generation EXCEPT ![j] = IF free = <<>> THEN 1 ELSE @]
              /\ issued' = issued \cup {<<j, generation'[j]>>}
              /\ free' = IF free = <<>> THEN free ELSE SubSeq(free, 1, Len(free) - 1)
              /\ object' = [object EXCEPT
                   ![j] = [Blank("entry", 0) EXCEPT !.weak = key],
                   ![h[1]].refs = {<<j, generation'[j]>>} \cup value]
        BY <2>5 DEF Insert
      <4>2. j \notin Used
        BY <4>1, SlotTaken
      <4> QED
        BY <4>1, <4>2
    <3>2. i # j
      BY <1>1, <3>1
    <3>3. i # h[1]
      BY <1>1, <2>5 DEF Insert, At
    <3>4. object'[i] = object[i]
      BY <1>2, <3>1, <3>2, <3>3
    <3> QED
      BY <1>1, <3>4
  <2>6. ASSUME NEW h, Acquire(h) PROVE FALSE
    BY <1>4, <2>6 DEF Acquire
  <2>7. ASSUME NEW h, Derive(h) PROVE FALSE
    <3>1. object'[i].done = object[i].done
      BY <1>1, <1>2, <2>7 DEF Derive, Object
    <3> QED
      BY <1>1, <3>1
  <2>8. ASSUME NEW h, Drop(h) \/ Raise(h) \/ Load(h) \/ LoadArgument(h) \/ Dereference(h) \/ Catch PROVE FALSE
    BY <1>5, <2>8 DEF Drop, Raise, Load, LoadArgument, Dereference, Catch, heapVars
  <2> QED
    BY <1>9, <2>1, <2>2, <2>3, <2>4, <2>5, <2>6, <2>7, <2>8 DEF Python
<1> QED
  BY <1>6, <1>7, <1>8, <1>9 DEF Next

(* A step that releases an unspent lease leaves none of its views open. *)
LEMMA ReleasedUnviewed ==
  ASSUME Kept, HooksSound, ClaimsKept, Next, NEW i \in Index, ReleaseOf(i), ~object[i].spared
  PROVE  OpenViews(HandleOf(i))' = {}
<1>1. /\ object[i].kind = "lease" /\ ~object[i].done /\ object'[i].done /\ i \in Used /\ i \in Used'
      /\ object \in [Index -> Object] /\ object[i] \in Object
  BY DEF ReleaseOf, Used, Kept, Types, TypeOK
<1>2. PICK h \in Handle : h = HandleOf(i)
  BY <1>1, UsedAlive DEF Kept
<1>3. Alive(h) /\ h[1] = i /\ At(h) = object[i] /\ Unspent(h)
  BY <1>1, <1>2, UsedAlive DEF Kept, Unspent, IsLease, HandleOf
<1>4. Safe /\ Types'
  BY StepGood
<1>5. HandleOf(i)' = h
  BY <1>1, <1>2, <1>4, SlotStays DEF HandleOf, Safe
<1> SUFFICES OpenViews(h)' = {}
  BY <1>5 DEF OpenViews
<1>6. /\ Cardinality(OpenViews(h)) + Cardinality(Pending(h)) <= object[i].views
      /\ \A k \in Pending(h) : stack[k].op = "acquire" => OpenViews(h) = {}
      /\ Waiting(h) => OpenViews(h) = {}
  BY <1>3 DEF ClaimsKept, ClaimKept
<1>7. CASE RunAction
  <2>1. OpenViews(h)' \subseteq OpenViews(h)
    BY <1>4, <1>7, LastingRunAction, OpenViewsKept
  <2>2. PICK g : g = Head(Top.todo)
    OBVIOUS
  <2>3. /\ Len(stack) \in DOMAIN stack /\ Top = stack[Len(stack)]
        /\ 1 \in DOMAIN Top.todo /\ g = Top.todo[1]
    BY <1>7, <2>2, StackBelow, RestFrames DEF RunAction, Kept, Types, TypeOK
  <2>4. object' # object
    BY <1>1
  <2>5. g # Null /\ object' = [object EXCEPT ![g[1]] = Hooked(@)]
    BY <1>7, <2>2, <2>4 DEF RunAction
  <2>6. Alive(g) /\ g \in Handle
    BY <2>3, <2>5, FrameTypes DEF Kept, CallsKept, FrameKept
  <2>7. g[1] = i
    BY <1>1, <2>5
  <2>8. g = h
    BY <1>3, <2>6, <2>7, Handles DEF Alive
  <2>9. Waiting(h)
    BY <2>3, <2>8 DEF Waiting
  <2> QED
    BY <1>6, <2>1, <2>9
<1>8. CASE ViewRefused
  <2>1. PICK lease \in Handle : lease = NewViewsLease /\ IsLease(lease) /\ lease \in Top.temp
    BY <1>8, NewViewHasLease DEF ViewRefused, IsLease
  <2>2. Lasts({lease[1]}) /\ lease[1] \in Used
    BY <1>8, <2>1, LastingViewRefused DEF IsLease, Alive
  <2>3. OpenViews(h)' \subseteq OpenViews(h)
    BY <1>4, <2>2, OpenViewsKept
  <2>4. \/ Top.op = "derive" /\ object' = [object EXCEPT ![lease[1]].views = Saturating(@, 1)]
        \/ UNCHANGED object
        \/ Top.op = "acquire" /\ object' = [object EXCEPT ![lease[1]] = Hooked(@)]
    BY <1>8, <2>1 DEF ViewRefused
  <2>5. Top.op = "acquire" /\ lease[1] = i
    BY <1>1, <2>4 DEF Object
  <2>6. lease = h
    BY <1>3, <2>1, <2>5, Handles DEF IsLease, Alive
  <2>7. Len(stack) \in DOMAIN stack /\ Top = stack[Len(stack)]
    BY <1>8, StackBelow DEF ViewRefused, Kept, Types, TypeOK
  <2>8. Len(stack) \in Pending(h)
    BY <2>1, <2>5, <2>6, <2>7 DEF Pending
  <2> QED
    BY <1>6, <2>3, <2>5, <2>7, <2>8
<1>9. ASSUME NEW view \in roots, Release(view) PROVE OpenViews(h)' = {}
  <2>1. PICK lease \in Handle : lease = LeaseOf(view) /\ IsLease(lease) /\ lease \in At(view).refs
    BY <1>9, ViewHasLease DEF Release, IsLease
  <2>2. /\ Lasts({lease[1]}) /\ lease[1] \in Used /\ object'[view[1]].done
        /\ ~object[lease[1]].done /\ object'[lease[1]].done => LastView(lease)
    BY <1>9, <2>1, LastingRelease DEF IsLease, Alive
  <2>3. OpenViews(h)' \subseteq OpenViews(h)
    BY <1>4, <2>2, OpenViewsKept
  <2>4. lease[1] = i
    <3>1. i # view[1]
      BY <1>1, <1>9 DEF Release, At
    <3>2. CASE i # lease[1]
      <4>1. object'[i] = object[i]
        <5> DEFINE released == [object EXCEPT ![view[1]].done = TRUE]
        <5>1. released[i] = object[i] /\ released \in [Index -> Object]
          BY <1>1, <3>1 DEF Object
        <5>2. \/ object' = [released EXCEPT ![lease[1]] = Hooked(@)]
              \/ object' = [released EXCEPT ![lease[1]].views = Saturating(@, 1)]
          BY <1>9, <2>1 DEF Release
        <5> HIDE DEF released
        <5> QED
          BY <3>2, <5>1, <5>2
      <4> QED
        BY <1>1, <4>1
    <3> QED
      BY <3>2
  <2>5. lease = h
    BY <1>3, <2>1, <2>4, Handles DEF IsLease, Alive
  <2>6. object[i].views <= 1 /\ object[i].views \in Nat
    BY <1>1, <1>3, <2>2, <2>4, <2>5 DEF LastView, Object
  <2>7. view[1] \in OpenViews(h) /\ view[1] \notin OpenViews(h)'
    BY <1>9, <2>1, <2>2, <2>5 DEF OpenViews, Release, Alive, At
  <2>8. PICK V, P : V = OpenViews(h) /\ P = Pending(h)
    OBVIOUS
  <2>9. IsFiniteSet(V) /\ Cardinality(V) \in Nat /\ Cardinality(P) \in Nat
    BY <2>8, ClaimsFinite DEF Kept
  <2>10. Cardinality(V \ {view[1]}) = Cardinality(V) - 1 /\ IsFiniteSet(V \ {view[1]})
    BY <2>7, <2>8, <2>9, FS_RemoveElement
  <2>11. Cardinality(V \ {view[1]}) = 0
    <3>1. Cardinality(V) <= 1
      BY <1>6, <2>6, <2>8, <2>9
    <3>2. Cardinality(V \ {view[1]}) \in Nat
      BY <2>10, FS_CardinalityType
    <3> QED
      BY <2>9, <2>10, <3>1, <3>2
  <2>12. V \ {view[1]} = {}
    BY <2>10, <2>11, FS_EmptySet
  <2> QED
    BY <2>3, <2>7, <2>8, <2>12
<1> QED
  BY <1>7, <1>8, <1>9, ReleaseSteps

(* __release_buffer__ is called for a lease whose views no lifecycle phase   *)
(* spared only when the program holds no open view of it: the count of a     *)
(* lease covers its open views and those being allocated, whatever           *)
(* collections run in between.                                             *)
THEOREM BuffersOutliveViews == Spec => MarkedReleaseAfterLastView
<1> DEFINE Late ==
      \A i \in Index :
        ReleaseOf(i) /\ ~object[i].spared => OpenViews(HandleOf(i))' \cap InProgram = {}
<1>1. Kept /\ HooksSound /\ ClaimsKept /\ [Next]_vars => [Late]_vars
  BY ReleasedUnviewed
<1>2. Spec => []ClaimsKept
  BY ClaimsInit, ClaimsStep, KeptAlways, HooksAlways, PTL DEF Spec
<1> HIDE DEF Late
<1>3. Spec => [][Late]_vars
  BY <1>1, <1>2, KeptAlways, HooksAlways, PTL DEF Spec
<1> QED
  BY <1>3 DEF Late, MarkedReleaseAfterLastView
=============================================================================
