--------------------------- MODULE ContainersProofs ---------------------------
(***************************************************************************)
(* Proofs about Containers, for any keys, any code behind __hash__ and     *)
(* __eq__, any number of entries and any depth of operations inside        *)
(* operations: keys stay pairwise unequal; iterators are faithful; every   *)
(* operation is one of an ordered map.  As in the runs, a table is not     *)
(* thrown away under an operation or an iterator ("clear") and a weak      *)
(* container is not assigned to while an operation on it waits ("put"),    *)
(* and, for the map, does not lose entries while a value is replaced       *)
(* ("prune"): the code is known to go wrong in all three.                  *)
(***************************************************************************)
EXTENDS Containers, FiniteSetTheorems, SequenceTheorems, NaturalsInduction, TLAPS

Ops == {"get", "take", "put", "default", "assign"}
Stored == Values \cup {None} \cup BOOLEAN
EntryType == [key : Keys, value : Stored, weak : Nat]
Frame == [op : Ops, key : Keys, value : Stored, rest : Seq(Keys),
          phase : {"hash", "compare", "allocate"}, at : EntryType, id : Nat, place : Nat,
          todo : SUBSET Nat, version : Nat, since : Nat]

TypeOK ==
  /\ kind \in Kinds
  /\ table \in [Live -> EntryType]
  /\ \A i \in Live : i \in Nat \ {0} /\ i < next
  /\ next \in Nat \ {0} /\ version \in Nat
  /\ stack \in Seq(Frame)

Inserting(f) == f.op \in {"put", "default"}

(* Every live entry with a key equal to that of f is among S. *)
Covers(f, S) == \A i \in Live : Equal(table[i].key, f.key) => i \in S

(* A dictionary or a set whose version the search has seen is as it was:    *)
(* the candidate is there, and what was passed over is not the key.         *)
Current(f) ==
  f.phase = "compare" /\ f.version = version =>
    /\ f.id \in Live /\ table[f.id].key = f.at.key
    /\ Covers(f, f.todo \cup {f.id})

(* A weak container that is being assigned to only loses entries.           *)
Shrinking(f) ==
  /\ f.phase = "compare" =>
       /\ f.since = next
       /\ f.id \in Live => table[f.id].key = f.at.key /\ table[f.id].weak = f.at.weak
       /\ Covers(f, f.todo \cup {f.id})
       /\ Equal(f.at.key, f.key) => Covers(f, {f.id})
  /\ f.phase = "allocate" /\ f.id = 0 => Covers(f, {})

Distinct(s) == \A m, n \in DOMAIN s : m # n => ~Equal(s[m], s[n])

Sound(f, k) ==
  /\ f.phase = "compare" => f.op # "assign"
  /\ f.phase = "allocate" => Weak /\ Inserting(f)
  /\ f.op = "assign" => ~Weak /\ Distinct(f.rest)
  /\ f.version <= version
  /\ Weak /\ Inserting(f) => k = 1
  /\ IF Weak THEN Shrinking(f) ELSE Current(f)

IInv ==
  /\ TypeOK /\ UniqueKeys
  /\ Weak => \A i \in Live : table[i].weak < next
  /\ \A k \in 1 .. Len(stack) : Sound(stack[k], k)

-----------------------------------------------------------------------------
(* Numbers, ranks and stacks *)

(* A set of numbers that is not empty has a least element. *)
LEMMA LeastOf ==
  ASSUME NEW S \in SUBSET Nat, S # {}
  PROVE  Least(S) \in S /\ \A j \in S : Least(S) <= j
<1> DEFINE R == {ss \in Nat \X Nat : ss[1] < ss[2]}
<1>0. IsWellFoundedOn(R, Nat)
  BY NatLessThanWellFounded DEF OpToRel
<1> HIDE DEF R
<1>1. PICK i \in S : \A j \in S : ~(<<j, i>> \in R)
  BY <1>0, WFMin
<1>2. ASSUME NEW j \in S PROVE i <= j
  <2>1. i \in Nat /\ j \in Nat
    OBVIOUS
  <2>2. j < i => <<j, i>> \in R
    BY <2>1 DEF R
  <2> QED
    BY <1>1, <2>1, <2>2
<1> QED
  BY <1>2 DEF Least

LEMMA LiveFinite ==
  ASSUME TypeOK
  PROVE  IsFiniteSet(Live)
<1>1. Live \in SUBSET Nat /\ \A i \in Live : i <= next
  BY DEF TypeOK
<1> QED
  BY <1>1, FS_BoundedSetOfNaturals DEF TypeOK

LEMMA RankType ==
  ASSUME TypeOK, NEW i
  PROVE  Rank(i) \in Nat
<1>1. {j \in Live : j <= i} \in SUBSET Live
  OBVIOUS
<1>2. IsFiniteSet({j \in Live : j <= i})
  BY <1>1, LiveFinite, FS_Subset
<1> QED
  BY <1>2, FS_CardinalityType DEF Rank

LEMMA StackParts ==
  ASSUME TypeOK, stack # <<>>
  PROVE  /\ Below \in Seq(Frame) /\ Top \in Frame
         /\ Len(stack) \in Nat \ {0} /\ Len(Below) = Len(stack) - 1
         /\ \A k \in 1 .. Len(Below) : k \in 1 .. Len(stack) /\ Below[k] = stack[k]
<1> DEFINE n == Len(stack)
<1>1. n \in Nat \ {0} /\ DOMAIN stack = 1 .. n /\ \A k \in 1 .. n : stack[k] \in Frame
  BY DEF TypeOK
<1>2. Top \in Frame
  BY <1>1 DEF Top
<1>3. Below \in Seq(Frame) /\ Len(Below) = n - 1 /\ \A k \in 1 .. n - 1 : Below[k] = stack[k]
  BY <1>1, SubSeqProperties DEF Below, TypeOK
<1> QED
  BY <1>1, <1>2, <1>3

LEMMA Pushed ==
  ASSUME NEW S, NEW s \in Seq(S), NEW e \in S
  PROVE  /\ Append(s, e) \in Seq(S) /\ Len(Append(s, e)) = Len(s) + 1
         /\ Append(s, e)[Len(s) + 1] = e
         /\ \A k \in 1 .. Len(s) : Append(s, e)[k] = s[k]
  BY AppendProperties

LEMMA OperationType ==
  ASSUME NEW op \in Ops, NEW k \in Keys, NEW v \in Stored, NEW rest \in Seq(Keys)
  PROVE  Operation(op, k, v, rest) \in Frame
  BY DEF Operation, Frame, Entry, EntryType

(* An operation that waits for __hash__ has not looked at the table yet. *)
LEMMA FreshSound ==
  ASSUME version' \in Nat, NEW CONSTANT op \in Ops \ {"assign"}, NEW CONSTANT k \in Keys,
         NEW CONSTANT v, NEW CONSTANT rest, NEW CONSTANT n,
         Weak' /\ op \in {"put", "default"} => n = 1
  PROVE  Sound(Operation(op, k, v, rest), n)'
  BY DEF Sound, Operation, Inserting, Shrinking, Current

-----------------------------------------------------------------------------
(* What changes of the table mean for operations in progress *)

(* The table is as it was, a dictionary or a set got a new version, or a     *)
(* weak container lost entries.                                             *)
Steady ==
  /\ kind' = kind /\ version' >= version
  /\ \/ UNCHANGED <<table, next, version>>
     \/ ~Weak /\ version' > version
     \/ /\ Weak /\ next' = next
        /\ DOMAIN table' \subseteq Live /\ \A i \in DOMAIN table' : table'[i] = table[i]

LEMMA SoundStays ==
  ASSUME TypeOK, version' \in Nat, Steady, NEW CONSTANT f \in Frame, NEW CONSTANT n, Sound(f, n)
  PROVE  Sound(f, n)'
<1>1. Weak' <=> Weak
  BY DEF Steady, Weak
<1>2. f.version \in Nat /\ version \in Nat
  BY DEF TypeOK, Frame
<1>3. f.version <= version'
  BY <1>2 DEF Sound, Steady
<1>4. ASSUME ~Weak PROVE Current(f)'
  <2>1. CASE version' > version
    BY <1>2, <1>4, <2>1 DEF Sound, Current
  <2>2. CASE UNCHANGED <<table, next, version>>
    BY <1>4, <2>2 DEF Sound, Current, Covers, Equal, Live
  <2> QED
    BY <1>4, <2>1, <2>2 DEF Steady
<1>5. ASSUME Weak PROVE Shrinking(f)'
  <2>1. next' = next /\ DOMAIN table' \subseteq Live /\ \A i \in DOMAIN table' : table'[i] = table[i]
    BY <1>5 DEF Steady, Live
  <2>2. Shrinking(f)
    BY <1>5 DEF Sound
  <2> QED
    BY <2>1, <2>2 DEF Shrinking, Covers, Equal, Live
<1> QED
  BY <1>1, <1>3, <1>4, <1>5 DEF Sound, Inserting, Distinct, Equal

(* The rest of the invariant, apart from the stack. *)
Entries ==
  /\ kind \in Kinds
  /\ table \in [Live -> EntryType]
  /\ \A i \in Live : i \in Nat \ {0} /\ i < next
  /\ next \in Nat \ {0} /\ version \in Nat
  /\ UniqueKeys
  /\ Weak => \A i \in Live : table[i].weak < next

(* A step that leaves the operations below alone and has at most one more. *)
LEMMA StackKeeps ==
  ASSUME IInv, Entries', Steady, NEW rest, NEW CONSTANT f \in Frame,
         rest \in Seq(Frame),
         \A k \in 1 .. Len(rest) : k \in 1 .. Len(stack) /\ rest[k] = stack[k],
         stack' = rest \/ (stack' = Append(rest, f) /\ Sound(f, Len(rest) + 1)')
  PROVE  IInv'
<1>1. TypeOK /\ version' \in Nat
  BY DEF IInv, Entries
<1>2. stack' \in Seq(Frame)
  BY Pushed
<1>3. TypeOK'
  BY <1>2 DEF TypeOK, Entries
<1>4. ASSUME NEW CONSTANT k \in 1 .. Len(stack'), k \in 1 .. Len(rest)
      PROVE  Sound(stack[k], k)'
  <2>1. PICK g \in Frame : g = stack[k]
    BY <1>1, <1>4 DEF TypeOK
  <2>2. stack'[k] = g
    BY <1>4, <2>1, Pushed
  <2>3. Sound(g, k)
    BY <1>4, <2>1 DEF IInv
  <2>4. Sound(g, k)'
    BY <1>1, <2>3, SoundStays
  <2> QED
    BY <2>2, <2>4
<1>5. ASSUME NEW CONSTANT k \in 1 .. Len(stack'), k \notin 1 .. Len(rest)
      PROVE  Sound(stack[k], k)'
  <2>1. stack' = Append(rest, f) /\ Sound(f, Len(rest) + 1)'
    BY <1>5
  <2>2. Len(rest) \in Nat /\ k = Len(rest) + 1 /\ stack'[k] = f
    BY <1>5, <2>1, Pushed
  <2> QED
    BY <2>1, <2>2
<1> QED
  BY <1>3, <1>4, <1>5 DEF IInv, Entries

LEMMA EmptyKeeps ==
  ASSUME Entries', stack' = <<>>
  PROVE  IInv'
<1>1. stack' \in Seq(Frame) /\ Len(stack') = 0
  OBVIOUS
<1> QED
  BY <1>1 DEF IInv, TypeOK, Entries

-----------------------------------------------------------------------------
(* The table after a change *)

LEMMA SameEntries ==
  ASSUME IInv, UnchangedTable, kind' = kind
  PROVE  Entries' /\ Steady
<1>1. UNCHANGED <<table, next, version, kind>>
  BY DEF UnchangedTable
<1>2. Steady
  BY <1>1 DEF Steady, IInv, TypeOK
<1>3. Entries'
  BY <1>1 DEF IInv, TypeOK, Entries, UniqueKeys, Equal, Live, Weak
<1> QED
  BY <1>2, <1>3

LEMMA InsertEntries ==
  ASSUME IInv, kind' = kind, NEW k \in Keys, NEW v \in Stored, Insert(k, v),
         \A i \in Live : ~Equal(table[i].key, k)
  PROVE  Entries' /\ (~Weak => Steady)
<1>1. /\ next' = next + 1 /\ version' = version + 1
      /\ DOMAIN table' = Live \cup {next} /\ next \notin Live
      /\ table'[next] = Entry(k, v, next)
      /\ \A i \in Live : table'[i] = table[i]
      /\ next \in Nat \ {0} /\ version \in Nat
  BY DEF Insert, IInv, TypeOK
<1>2. Entry(k, v, next) \in EntryType /\ Entry(k, v, next).key = k /\ Entry(k, v, next).weak = next
  BY <1>1 DEF Entry, EntryType
<1>3. table' \in [Live' -> EntryType]
  <2>1. table' \in [Live \cup {next} -> EntryType]
    BY <1>1, <1>2 DEF Insert, IInv, TypeOK
  <2> QED
    BY <1>1, <2>1 DEF Live
<1>4. \A i \in Live' : i \in Nat \ {0} /\ i < next'
  BY <1>1 DEF Live, IInv, TypeOK
<1>5. UniqueKeys'
  <2> SUFFICES ASSUME NEW i \in Live', NEW j \in Live', i # j
               PROVE  ~Equal(table'[i].key, table'[j].key)
    BY DEF UniqueKeys, Equal
  <2>1. CASE i = next \/ j = next
    BY <1>1, <1>2, <2>1 DEF Equal, Live
  <2>2. CASE i # next /\ j # next
    BY <1>1, <2>2 DEF IInv, UniqueKeys, Live
  <2> QED
    BY <2>1, <2>2
<1>6. Weak' => \A i \in Live' : table'[i].weak < next'
  <2> SUFFICES ASSUME Weak', NEW i \in Live' PROVE table'[i].weak < next'
    OBVIOUS
  <2>1. CASE i = next
    BY <1>1, <1>2, <2>1
  <2>2. CASE i \in Live
    <3>1. table[i].weak < next /\ table[i].weak \in Nat
      BY <2>2 DEF IInv, TypeOK, EntryType, Weak
    <3> QED
      BY <1>1, <2>2, <3>1
  <2> QED
    BY <1>1, <2>1, <2>2 DEF Live
<1>7. Steady \/ Weak
  BY <1>1 DEF Steady
<1> QED
  BY <1>1, <1>3, <1>4, <1>5, <1>6, <1>7 DEF Entries, IInv, TypeOK

(* Entries go. *)
LEMMA FewerEntries ==
  ASSUME IInv, kind' = kind, NEW S \in SUBSET Live, table' \in [S -> EntryType],
         \A i \in S : table'[i] = table[i], next' = next, version' \in Nat, version' >= version, ~Weak => version' > version
  PROVE  Entries' /\ Steady
<1>1. DOMAIN table' = S /\ \A i \in S : table'[i] = table[i]
  OBVIOUS
<1>2. Steady
  BY <1>1 DEF Steady
<1>3. Entries'
  BY <1>1 DEF IInv, TypeOK, Entries, UniqueKeys, Equal, Live, Weak
<1> QED
  BY <1>2, <1>3

LEMMA RemoveEntries ==
  ASSUME IInv, kind' = kind, NEW i, Remove(i)
  PROVE  Entries' /\ Steady
<1>1. version \in Nat /\ Live \ {i} \in SUBSET Live
  BY DEF IInv, TypeOK
<1>2. table' \in [Live \ {i} -> EntryType] /\ \A j \in Live \ {i} : table'[j] = table[j]
  BY DEF Remove, IInv, TypeOK
<1> QED
  BY <1>1, <1>2, FewerEntries DEF Remove

-----------------------------------------------------------------------------
(* The operators of a search *)

LEMMA TopSound ==
  ASSUME IInv, stack # <<>>
  PROVE  /\ TypeOK /\ Top \in Frame /\ Sound(Top, Len(stack))
         /\ Below \in Seq(Frame) /\ Len(stack) \in Nat \ {0} /\ Len(Below) = Len(stack) - 1
         /\ \A k \in 1 .. Len(Below) : k \in 1 .. Len(stack) /\ Below[k] = stack[k]
<1>1. TypeOK
  BY DEF IInv
<1> QED
  BY <1>1, StackParts DEF IInv, Top

(* The innermost operation ends. *)
LEMMA PopKeeps ==
  ASSUME IInv, stack # <<>>, Entries', Steady, stack' = Below
  PROVE  IInv'
<1>1. PICK f \in Frame : TRUE
  BY TopSound
<1> QED
  BY TopSound, StackKeeps, <1>1

(* It becomes another. *)
LEMMA SwapKeeps ==
  ASSUME IInv, stack # <<>>, Entries', Steady, NEW CONSTANT f \in Frame,
         stack' = Append(Below, f), Sound(f, Len(stack))'
  PROVE  IInv'
<1>1. Len(Below) + 1 = Len(stack)
  BY TopSound
<1>2. PICK n : n = Len(stack)
  OBVIOUS
<1> QED
  BY <1>1, TopSound, StackKeeps

LEMMA FollowingKeeps ==
  ASSUME IInv, stack # <<>>, Entries', Steady, NEW CONSTANT f \in Frame, f.op # "assign",
         Weak /\ Inserting(f) => Len(stack) = 1, Following(Below, f)
  PROVE  IInv'
<1>1. CASE f.rest = <<>>
  BY <1>1, PopKeeps DEF Following
<1>2. CASE f.rest # <<>>
  <2>1. f.rest \in Seq(Keys) /\ Head(f.rest) \in Keys /\ Tail(f.rest) \in Seq(Keys)
    BY <1>2, HeadTailProperties DEF Frame
  <2>2. f.op \in Ops \ {"assign"} /\ f.value \in Stored
    BY DEF Frame
  <2>3. PICK g : g = Operation(f.op, Head(f.rest), f.value, Tail(f.rest))
    OBVIOUS
  <2>4. g \in Frame
    BY <2>1, <2>2, <2>3, OperationType
  <2>5. stack' = Append(Below, g)
    BY <1>2, <2>3 DEF Following
  <2>6. PICK n : n = Len(stack)
    OBVIOUS
  <2>7. Sound(g, n)'
    <3>1. Weak' /\ f.op \in {"put", "default"} => n = 1
      BY <2>6 DEF Steady, Weak, Inserting
    <3>2. version' \in Nat
      BY DEF Entries
    <3> QED
      BY <2>1, <2>2, <2>3, <3>1, <3>2, FreshSound
  <2>8. Len(stack') = n
    BY <2>4, <2>5, <2>6, TopSound, Pushed
  <2> QED
    BY <2>4, <2>5, <2>7, <2>8, SwapKeeps
<1> QED
  BY <1>1, <1>2

(* A weak reference is to be allocated for a new entry, or for entry i. *)
LEMMA AllocateKeeps ==
  ASSUME IInv, stack # <<>>, kind' = kind, NEW CONSTANT f \in Frame, NEW CONSTANT i \in Nat,
         i # 0 => i \in Live, Weak, Inserting(f), Len(stack) = 1, f.version <= version,
         i = 0 => Covers(f, {}), Allocate(Below, f, i)
  PROVE  IInv'
<1>1. PICK e : e = IF i = 0 THEN Entry(f.key, f.value, 0) ELSE table[i]
  OBVIOUS
<1>2. PICK p : p = IF i = 0 THEN 0 ELSE Rank(i)
  OBVIOUS
<1>3. e \in EntryType /\ p \in Nat
  BY <1>1, <1>2, RankType DEF IInv, TypeOK, Frame, Entry, EntryType
<1>4. PICK g : g = [f EXCEPT !.phase = "allocate", !.id = i, !.todo = {}, !.at = e, !.place = p]
  OBVIOUS
<1>5. /\ g \in Frame /\ g.phase = "allocate" /\ g.id = i /\ g.op = f.op /\ g.key = f.key
      /\ g.version = f.version
  BY <1>3, <1>4 DEF Frame
<1>6. stack' = Append(Below, g) /\ UnchangedTable
  BY <1>1, <1>2, <1>4 DEF Allocate
<1>7. Entries' /\ Steady
  BY <1>6, SameEntries
<1>8. Sound(g, 1)'
  <2>1. Covers(f, {}) => Covers(g, {})'
    BY <1>5, <1>6 DEF Covers, Equal, UnchangedTable, Live
  <2>2. Weak' /\ version' = version
    BY <1>6 DEF Weak, UnchangedTable
  <2> QED
    BY <1>5, <2>1, <2>2 DEF Sound, Inserting, Shrinking
<1>9. Len(stack') = 1
  BY <1>5, <1>6, TopSound, Pushed
<1> QED
  BY <1>5, <1>6, <1>7, <1>8, <1>9, SwapKeeps

LEMMA ConcludeKeeps ==
  ASSUME IInv, stack # <<>>, kind' = kind, NEW CONSTANT f \in Frame, NEW CONSTANT i \in Nat,
         i # 0 => i \in Live, f.op # "assign", f.version <= version,
         Weak /\ Inserting(f) => Len(stack) = 1,
         i = 0 => Covers(f, {}),
         Conclude(Below, f, i)
  PROVE  IInv'
<1>1. CASE /\ f.op = "get" \/ (f.op = "default" /\ i # 0)
           /\ IF i = 0 THEN stack' = Below ELSE Following(Below, f)
           /\ UnchangedTable
  <2>1. Entries' /\ Steady
    BY <1>1, SameEntries
  <2> QED
    BY <1>1, <2>1, PopKeeps, FollowingKeeps
<1>2. CASE stack' = Below /\ IF i = 0 THEN UnchangedTable ELSE Remove(i)
  <2>1. Entries' /\ Steady
    BY <1>2, SameEntries, RemoveEntries
  <2> QED
    BY <1>2, <2>1, PopKeeps
<1>3. CASE /\ f.op = "default" /\ stack' = Append(Below, Operation("put", f.key, f.value, <<>>))
           /\ UnchangedTable
  <2>1. Entries' /\ Steady
    BY <1>3, SameEntries
  <2>2. PICK g : g = Operation("put", f.key, f.value, <<>>)
    OBVIOUS
  <2>3. <<>> \in Seq(Keys) /\ f.key \in Keys /\ f.value \in Stored /\ "put" \in Ops \ {"assign"}
    BY DEF Frame, Ops
  <2>4. g \in Frame
    BY <2>2, <2>3, OperationType
  <2>5. PICK n : n = Len(stack)
    OBVIOUS
  <2>6. Sound(g, n)'
    <3>1. Weak' => n = 1
      BY <1>3, <2>5 DEF Weak, Inserting
    <3>2. version' \in Nat
      BY <2>1 DEF Entries
    <3> QED
      BY <2>2, <2>3, <3>1, <3>2, FreshSound
  <2>7. Len(stack') = n
    BY <1>3, <2>2, <2>4, <2>5, TopSound, Pushed
  <2> QED
    BY <1>3, <2>1, <2>2, <2>4, <2>6, <2>7, SwapKeeps
<1>4. CASE /\ f.op = "put" /\ (i = 0 => ~Weak) /\ Following(Below, f)
           /\ IF i = 0 THEN Insert(f.key, f.value) ELSE UnchangedTable
  <2>1. CASE i = 0
    <3>1. /\ \A j \in Live : ~Equal(table[j].key, f.key)
          /\ f.key \in Keys /\ f.value \in Stored
      BY <1>4, <2>1 DEF Covers, Inserting, Frame
    <3>2. Entries' /\ Steady
      BY <1>4, <2>1, <3>1, InsertEntries
    <3> QED
      BY <1>4, <3>2, FollowingKeeps
  <2>2. CASE i # 0
    <3>1. Entries' /\ Steady
      BY <1>4, <2>2, SameEntries
    <3> QED
      BY <1>4, <3>1, FollowingKeeps
  <2> QED
    BY <2>1, <2>2
<1>5. CASE /\ Weak /\ Inserting(f) /\ Allocate(Below, f, i)
  BY <1>5, AllocateKeeps
<1>6. kind = "weakvalue" \/ kind = "weakkey" => Weak
  BY DEF Weak
<1> QED
  BY <1>1, <1>2, <1>3, <1>4, <1>5, <1>6 DEF Conclude, Inserting

(* The key of f is in entry i, or (0) in none. *)
Found(f, i) == IF i = 0 THEN Covers(f, {}) ELSE i \in Live /\ Equal(table[i].key, f.key)

(* f is what the operation g has become. *)
SameOperation(f, g) ==
  f.op = g.op /\ f.key = g.key /\ f.value = g.value /\ f.rest = g.rest

(* A search of f ends with what is the case, or asks a candidate. *)
Ends(f) == \E i \in Nat : Found(f, i) /\ Conclude(Below, f, i)
Asks(f) ==
  \E g \in Frame : /\ SameOperation(g, f) /\ g.phase = "compare" /\ Sound(g, Len(stack))'
                   /\ stack' = Append(Below, g) /\ UnchangedTable /\ UNCHANGED event

LEMMA SearchEnds ==
  ASSUME IInv, kind' = kind, NEW CONSTANT f \in Frame, NEW CONSTANT todo \in SUBSET Nat,
         stack # <<>>, f.op # "assign",
         Weak => f.since = next, Weak /\ Inserting(f) => Len(stack) = 1,
         Covers(f, todo),
         Search(Below, f, todo)
  PROVE  Ends(f) \/ Asks(f)
<1>1. PICK left : left = {i \in todo \cap Live : Weak => table[i].weak < f.since}
  OBVIOUS
<1>2. left \in SUBSET Nat /\ left \subseteq Live /\ left \subseteq todo
  BY <1>1
<1>3. Covers(f, left)
  BY <1>1 DEF Covers, IInv
<1>4. CASE left = {}
  <2>1. Conclude(Below, f, 0)
    BY <1>1, <1>4 DEF Search
  <2> QED
    BY <1>3, <1>4, <2>1 DEF Ends, Found
<1>5. CASE left # {}
  <2>1. PICK i : i = Least(left)
    OBVIOUS
  <2>2. i \in left /\ i \in Nat /\ i \in Live /\ i # 0
    BY <1>2, <1>5, <2>1, LeastOf DEF IInv, TypeOK
  <2>3. CASE Conclude(Below, f, i) /\ table[i].key = f.key
    BY <2>2, <2>3 DEF Ends, Found, Equal
  <2>4. CASE /\ stack' = Append(Below, [f EXCEPT !.phase = "compare", !.id = i, !.at = table[i],
                                           !.todo = left \ {i}, !.version = version])
             /\ UnchangedTable /\ UNCHANGED event
    <3>2. PICK e : e = table[i]
      OBVIOUS
    <3>3. PICK v : v = version
      OBVIOUS
    <3>4. e \in EntryType /\ v \in Nat
      BY <2>2, <3>2, <3>3 DEF IInv, TypeOK
    <3>5. PICK g : g = [f EXCEPT !.phase = "compare", !.id = i, !.at = e,
                                 !.todo = left \ {i}, !.version = v]
      OBVIOUS
    <3>6. /\ g \in Frame /\ g.phase = "compare" /\ g.id = i /\ g.at = e /\ g.todo = left \ {i}
          /\ g.version = v /\ g.op = f.op /\ g.key = f.key /\ g.since = f.since /\ g.rest = f.rest
          /\ g.value = f.value
      BY <1>2, <2>2, <3>4, <3>5 DEF Frame
    <3>7. stack' = Append(Below, g)
      BY <2>4, <3>2, <3>3, <3>5
    <3>8. PICK n : n = Len(stack)
      OBVIOUS
    <3>9. /\ table' = table /\ version' = v /\ next' = next /\ kind' = kind
          /\ Live' = Live /\ Weak' = Weak
      BY <2>4, <3>3 DEF UnchangedTable, Live, Weak
    <3>10. Covers(g, g.todo \cup {g.id})'
      BY <1>3, <3>6, <3>9 DEF Covers, Equal
    <3>11. Equal(g.at.key, g.key) => Covers(g, {g.id})'
      <4> SUFFICES ASSUME Equal(e.key, f.key), NEW j \in Live, Equal(table[j].key, f.key)
                   PROVE  j = i
        BY <3>6, <3>9 DEF Covers, Equal
      <4>1. Equal(table[i].key, table[j].key)
        BY <3>2 DEF Equal
      <4> QED
        BY <2>2, <4>1 DEF IInv, UniqueKeys
    <3>12. Sound(g, n)'
      <4>1. ~Weak => Current(g)'
        BY <2>2, <3>2, <3>6, <3>9, <3>10 DEF Current
      <4>2. Weak => Shrinking(g)'
        BY <2>2, <3>2, <3>6, <3>8, <3>9, <3>10, <3>11 DEF Shrinking, Equal
      <4>3. Weak /\ Inserting(f) => n = 1
        BY <3>8
      <4> QED
        BY <3>3, <3>4, <3>6, <3>9, <4>1, <4>2, <4>3 DEF Sound, Inserting
    <3>13. Len(stack') = n
      BY <3>6, <3>7, <3>8, TopSound, Pushed
    <3> QED
      BY <2>4, <3>6, <3>7, <3>8, <3>12, <3>13 DEF Asks, SameOperation
  <2> QED
    BY <1>1, <1>5, <2>1, <2>3, <2>4 DEF Search
<1> QED
  BY <1>4, <1>5

(* What a step of a lookup is, for the operation in front of it: the search  *)
(* ends, asks a candidate, or passes a key that a set has lost meanwhile.    *)
Skips(f) == kind = "set" /\ Following(Below, f) /\ UnchangedTable /\ UNCHANGED event

LEMMA HashedIs ==
  ASSUME IInv, Hashed
  PROVE  \E f \in Frame : SameOperation(f, Top) /\ f.version = Top.version /\ (Ends(f) \/ Asks(f))
<1>1. stack # <<>> /\ Top.op # "assign" /\ kind' = kind
  BY DEF Hashed
<1>2. PICK f : f = [Top EXCEPT !.since = IF Weak THEN next ELSE 0]
  OBVIOUS
<1>3. Top \in Frame /\ Sound(Top, Len(stack)) /\ next \in Nat
  BY <1>1, TopSound DEF TypeOK
<1>4. /\ f \in Frame /\ f.op = Top.op /\ f.key = Top.key /\ f.version = Top.version
      /\ SameOperation(f, Top) /\ (Weak => f.since = next)
  BY <1>2, <1>3 DEF Frame, SameOperation
<1>5. PICK todo : todo = Bucket(Top.key)
  OBVIOUS
<1>6. todo \in SUBSET Nat
  BY <1>5 DEF Bucket, IInv, TypeOK
<1>7. Covers(f, todo)
  <2> SUFFICES ASSUME NEW i \in Live, Equal(table[i].key, f.key) PROVE i \in todo
    BY DEF Covers
  <2>1. table[i].key \in Keys /\ f.key \in Keys
    BY <1>4 DEF IInv, TypeOK, EntryType, Frame
  <2>2. Hash[table[i].key] = Hash[f.key]
    BY <2>1, ContainersAssumption DEF Equal
  <2> QED
    BY <1>4, <1>5, <2>2 DEF Bucket
<1>8. Weak /\ Inserting(f) => Len(stack) = 1
  BY <1>3, <1>4 DEF Sound, Inserting
<1>9. Search(Below, f, todo)
  BY <1>2, <1>5 DEF Hashed
<1>10. Ends(f) \/ Asks(f)
  BY <1>1, <1>4, <1>6, <1>7, <1>8, <1>9, SearchEnds
<1> QED
  BY <1>4, <1>10

LEMMA ComparedIs ==
  ASSUME IInv, Compared
  PROVE  Ends(Top) \/ Asks(Top) \/ Skips(Top)
<1>1. stack # <<>> /\ Top.phase = "compare" /\ kind' = kind
  BY DEF Compared
<1>2. PICK f : f = Top
  OBVIOUS
<1>3. f \in Frame /\ Sound(f, Len(stack)) /\ f.phase = "compare"
  BY <1>1, <1>2, TopSound
<1>4. f.op # "assign" /\ f.id \in Nat /\ f.todo \in SUBSET Nat
  BY <1>3 DEF Sound, Frame
<1>5. (Weak => f.since = next) /\ (Weak /\ Inserting(f) => Len(stack) = 1)
  BY <1>3 DEF Sound, Shrinking
<1>6. CASE Onward(Below, f) /\ (~Equal(f.at.key, f.key) \/ (~StillThere(f) /\ ~Weak))
  <2>1. PICK todo : todo = IF ~Weak /\ version # f.version THEN Bucket(f.key) ELSE f.todo
    OBVIOUS
  <2>2. todo \in SUBSET Nat
    BY <1>4, <2>1 DEF Bucket, IInv, TypeOK
  <2>3. Covers(f, todo)
    <3> SUFFICES ASSUME NEW i \in Live, Equal(table[i].key, f.key) PROVE i \in todo
      BY DEF Covers
    <3>1. CASE ~Weak /\ version # f.version
      <4>1. table[i].key \in Keys /\ f.key \in Keys
        BY <1>3 DEF IInv, TypeOK, EntryType, Frame
      <4>2. Hash[table[i].key] = Hash[f.key]
        BY <4>1, ContainersAssumption DEF Equal
      <4> QED
        BY <2>1, <3>1, <4>2 DEF Bucket
    <3>2. CASE Weak
      <4>1. /\ Covers(f, f.todo \cup {f.id}) /\ ~Equal(f.at.key, f.key)
            /\ f.id \in Live => table[f.id].key = f.at.key
        BY <1>3, <1>6, <3>2 DEF Sound, Shrinking
      <4> QED
        BY <2>1, <3>2, <4>1 DEF Covers
    <3>3. CASE ~Weak /\ version = f.version
      <4>1. /\ Covers(f, f.todo \cup {f.id})
            /\ f.id \in Live /\ table[f.id].key = f.at.key
        BY <1>3, <3>3 DEF Sound, Current
      <4>2. ~Equal(f.at.key, f.key)
        BY <1>6, <3>3, <4>1 DEF StillThere
      <4> QED
        BY <2>1, <3>3, <4>1, <4>2 DEF Covers
    <3> QED
      BY <3>1, <3>2, <3>3
  <2>4. Search(Below, f, todo)
    BY <1>6, <2>1 DEF Onward
  <2> QED
    BY <1>1, <1>2, <1>3, <1>4, <1>5, <2>2, <2>3, <2>4, SearchEnds
<1>7. CASE Equal(f.at.key, f.key) /\ StillThere(f) /\ Conclude(Below, f, f.id)
  <2>1. f.id \in Live /\ f.id # 0
    BY <1>7 DEF StillThere, IInv, TypeOK
  <2>2. table[f.id].key = f.at.key
    BY <1>3, <1>7, <2>1 DEF StillThere, Sound, Shrinking
  <2> QED
    BY <1>2, <1>4, <1>7, <2>1, <2>2 DEF Ends, Found
<1>8. CASE Equal(f.at.key, f.key) /\ ~StillThere(f) /\ Weak /\ Conclude(Below, f, 0)
  <2>1. /\ Covers(f, {f.id})
        /\ f.id \in Live => table[f.id].weak = f.at.weak
    BY <1>3, <1>8 DEF Sound, Shrinking
  <2>2. f.id \notin Live
    BY <1>8, <2>1 DEF StillThere
  <2>3. Covers(f, {})
    BY <2>1, <2>2 DEF Covers
  <2> QED
    BY <1>2, <1>8, <2>3 DEF Ends, Found
<1>9. IF ~Equal(f.at.key, f.key) THEN Onward(Below, f)
      ELSE IF StillThere(f) THEN Conclude(Below, f, f.id)
      ELSE IF Weak THEN Conclude(Below, f, 0)
      ELSE Skips(f) \/ Onward(Below, f)
  <2>1. IF ~Equal(Top.at.key, Top.key) THEN Onward(Below, Top)
        ELSE IF StillThere(Top) THEN Conclude(Below, Top, Top.id)
        ELSE IF Weak THEN Conclude(Below, Top, 0)
        ELSE Skips(Top) \/ Onward(Below, Top)
    BY Zenon DEF Compared, Skips
  <2> QED
    BY <1>2, <2>1, Zenon
<1> QED
  BY <1>2, <1>6, <1>7, <1>8, <1>9

LEMMA LookupIs ==
  ASSUME IInv, Hashed \/ Compared
  PROVE  /\ stack # <<>> /\ kind' = kind
         /\ \E f \in Frame : /\ SameOperation(f, Top) /\ f.op # "assign" /\ f.version <= version
                             /\ Weak /\ Inserting(f) => Len(stack) = 1
                             /\ Ends(f) \/ Asks(f) \/ Skips(f)
<1>1. stack # <<>> /\ kind' = kind
  BY DEF Hashed, Compared
<1>2. Top \in Frame /\ Sound(Top, Len(stack)) /\ Top.op # "assign"
  BY <1>1, TopSound DEF Hashed, Compared, Sound
<1>3. Top.version <= version /\ (Weak /\ Inserting(Top) => Len(stack) = 1)
  BY <1>2 DEF Sound
<1>4. CASE Hashed
  BY <1>1, <1>2, <1>3, <1>4, HashedIs DEF SameOperation, Inserting
<1>5. CASE Compared
  BY <1>1, <1>2, <1>3, <1>5, ComparedIs DEF SameOperation
<1> QED
  BY <1>4, <1>5

LEMMA LookupKeeps ==
  ASSUME IInv, Hashed \/ Compared
  PROVE  IInv'
<1>1. stack # <<>> /\ kind' = kind
  BY LookupIs
<1>2. PICK f \in Frame : /\ SameOperation(f, Top) /\ f.op # "assign" /\ f.version <= version
                         /\ Weak /\ Inserting(f) => Len(stack) = 1
                         /\ Ends(f) \/ Asks(f) \/ Skips(f)
  BY LookupIs
<1>3. CASE Ends(f)
  <2>1. PICK i \in Nat : Found(f, i) /\ Conclude(Below, f, i)
    BY <1>3 DEF Ends
  <2>2. (i # 0 => i \in Live) /\ (i = 0 => Covers(f, {}))
    BY <2>1 DEF Found
  <2> QED
    BY <1>1, <1>2, <2>1, <2>2, ConcludeKeeps
<1>4. CASE Asks(f)
  <2>1. PICK g \in Frame : /\ Sound(g, Len(stack))' /\ stack' = Append(Below, g) /\ UnchangedTable
    BY <1>4 DEF Asks
  <2>2. Entries' /\ Steady
    BY <1>1, <2>1, SameEntries
  <2> QED
    BY <1>1, <2>1, <2>2, SwapKeeps
<1>5. CASE Skips(f)
  <2>1. Following(Below, f) /\ UnchangedTable
    BY <1>5 DEF Skips
  <2>2. Entries' /\ Steady
    BY <1>1, <2>1, SameEntries
  <2> QED
    BY <1>1, <1>2, <2>1, <2>2, FollowingKeeps
<1> QED
  BY <1>2, <1>3, <1>4, <1>5

LEMMA AllocatedKeeps ==
  ASSUME IInv, Allocated
  PROVE  IInv'
<1>1. stack # <<>> /\ Top.phase = "allocate" /\ kind' = kind /\ stack' = Below
  BY DEF Allocated
<1>2. /\ Top \in Frame /\ Sound(Top, Len(stack)) /\ Top.key \in Keys /\ Top.value \in Stored
      /\ Below \in Seq(Frame) /\ Len(Below) = Len(stack) - 1
  BY <1>1, TopSound DEF Frame
<1>3. Weak /\ Inserting(Top) /\ Len(stack) = 1 /\ Shrinking(Top)
  BY <1>1, <1>2 DEF Sound
<1>4. stack' = <<>>
  <2>1. Len(Below) = 0
    BY <1>2, <1>3
  <2> QED
    BY <1>1, <1>2, <2>1, EmptySeq
<1>5. CASE Top.id = 0 /\ Insert(Top.key, Top.value)
  <2>1. \A i \in Live : ~Equal(table[i].key, Top.key)
    BY <1>1, <1>3, <1>5 DEF Shrinking, Covers
  <2>2. Entries'
    BY <1>1, <1>2, <1>5, <2>1, InsertEntries
  <2> QED
    BY <1>4, <2>2, EmptyKeeps
<1>6. CASE /\ table' = [i \in Live |-> IF Rank(i) = Top.place THEN Entry(table[i].key, Top.value, next)
                                      ELSE table[i]]
           /\ next' = next + 1 /\ version' = version
  <2>1. /\ next \in Nat \ {0} /\ version \in Nat /\ kind \in Kinds
        /\ \A i \in Live : i \in Nat \ {0} /\ i < next /\ table[i] \in EntryType
    BY DEF IInv, TypeOK
  <2>2. DOMAIN table' = Live
    BY <1>6
  <2>3. ASSUME NEW i \in Live
        PROVE  /\ table'[i] \in EntryType /\ table'[i].key = table[i].key
               /\ table'[i].weak < next'
    <3>1. CASE table'[i] = Entry(table[i].key, Top.value, next)
      BY <1>2, <1>6, <2>1, <3>1 DEF Entry, EntryType
    <3>2. CASE table'[i] = table[i]
      <4>1. table[i].weak < next /\ table[i].weak \in Nat
        BY <1>3, <2>1 DEF IInv, EntryType
      <4> QED
        BY <1>6, <2>1, <3>2, <4>1
    <3> QED
      BY <1>6, <3>1, <3>2
  <2>4. table' \in [Live -> EntryType]
    BY <1>6, <2>3
  <2>5. UniqueKeys'
    BY <2>2, <2>3 DEF IInv, UniqueKeys, Equal, Live
  <2>6. Entries'
    BY <1>1, <1>6, <2>1, <2>2, <2>3, <2>4, <2>5 DEF Entries, Live
  <2> QED
    BY <1>4, <2>6, EmptyKeeps
<1> QED
  BY <1>5, <1>6 DEF Allocated

-----------------------------------------------------------------------------
(* What code does *)

(* Operations in progress are as they were. *)
LEMMA StackStays ==
  ASSUME IInv, Entries', Steady, stack' = stack
  PROVE  IInv'
<1>1. stack \in Seq(Frame) /\ DOMAIN stack = 1 .. Len(stack)
  BY DEF IInv, TypeOK
<1>2. CASE stack = <<>>
  BY <1>2, EmptyKeeps
<1>3. CASE stack # <<>>
  <2>1. PICK f \in Frame : TRUE
    BY <1>3, TopSound
  <2> QED
    BY <1>1, <2>1, StackKeeps
<1> QED
  BY <1>2, <1>3

(* An operation begins. *)
LEMMA PushKeeps ==
  ASSUME IInv, NEW CONSTANT f \in Frame, Push(f), f.phase = "hash", f.version = 0,
         f.op = "assign" => ~Weak /\ Distinct(f.rest),
         Weak /\ Inserting(f) => stack = <<>>
  PROVE  IInv'
<1>1. stack' = Append(stack, f) /\ UnchangedTable /\ kind' = kind
  BY DEF Push
<1>2. Entries' /\ Steady
  BY <1>1, SameEntries
<1>3. stack \in Seq(Frame) /\ Len(stack) \in Nat
  BY DEF IInv, TypeOK
<1>4. PICK n : n = Len(stack) + 1
  OBVIOUS
<1>5. Sound(f, n)'
  <2>1. Weak' /\ Inserting(f) => n = 1
    BY <1>1, <1>4, EmptySeq DEF Weak
  <2>2. 0 <= version'
    BY <1>2 DEF Entries
  <2>3. f.op = "assign" => ~Weak' /\ Distinct(f.rest)'
    BY <1>1 DEF Weak, Distinct, Equal
  <2> QED
    BY <2>1, <2>2, <2>3 DEF Sound, Inserting, Shrinking, Current
<1>6. Len(stack') = n
  BY <1>1, <1>3, <1>4, Pushed
<1>7. \A k \in 1 .. Len(stack) : k \in 1 .. Len(stack) /\ stack[k] = stack[k]
  OBVIOUS
<1> QED
  BY <1>1, <1>2, <1>3, <1>4, <1>5, <1>6, <1>7, StackKeeps

LEMMA BeginKeeps ==
  ASSUME IInv, NEW CONSTANT op \in Ops \ {"assign"}, NEW CONSTANT k \in Keys,
         NEW CONSTANT v \in Stored, NEW CONSTANT rest \in Seq(Keys),
         Weak /\ op \in {"put", "default"} => stack = <<>>,
         Push(Operation(op, k, v, rest))
  PROVE  IInv'
<1>1. PICK f : f = Operation(op, k, v, rest)
  OBVIOUS
<1>2. f \in Frame
  BY <1>1, OperationType
<1>3. f.phase = "hash" /\ f.version = 0 /\ f.op = op
  BY <1>1 DEF Operation
<1> QED
  BY <1>1, <1>2, <1>3, PushKeeps DEF Inserting

(* The result of an operator is finite and has no two equal keys. *)
LEMMA ResultsDistinct ==
  ASSUME IInv, NEW operator \in {"and", "minus", "or", "xor"}, NEW k \in Keys,
         NEW s \in Results(Wanted(operator, k))
  PROVE  s \in Seq(Keys) /\ Distinct(s)
<1> DEFINE here == {table[i].key : i \in Live}
           wanted == Wanted(operator, k)
<1>1. IsFiniteSet(here)
  <2> DEFINE keyOf == [i \in Live |-> table[i].key]
  <2>1. keyOf \in Surjection(Live, here)
    BY DEF Surjection
  <2> HIDE DEF keyOf
  <2> QED
    BY <2>1, LiveFinite, FS_Surjection DEF IInv
<1>2. here \subseteq Keys
  BY DEF IInv, TypeOK, EntryType
<1>3. wanted \subseteq here \cup {k}
  BY DEF Wanted
<1>4. IsFiniteSet(here \cup {k})
  BY <1>1, FS_AddElement
<1>5. Cardinality(wanted) \in Nat
  <2>1. IsFiniteSet(wanted)
    BY <1>3, <1>4, FS_Subset
  <2> QED
    BY <2>1, FS_CardinalityType
<1>6. wanted \subseteq Keys
  BY <1>2, <1>3
<1> HIDE DEF wanted, here
<1>7. s \in [1 .. Cardinality(wanted) -> wanted] /\ Distinct(s)
  BY DEF Results, Distinct, wanted
<1>8. s \in [1 .. Cardinality(wanted) -> Keys]
  BY <1>6, <1>7
<1> QED
  BY <1>5, <1>7, <1>8

LEMMA AssignKeeps ==
  ASSUME IInv, NEW operator \in {"and", "minus", "or", "xor"}, NEW k \in Keys,
         NEW method \in BOOLEAN, Assign(operator, k, method)
  PROVE  IInv'
<1>1. kind = "set" /\ ~Weak
  BY DEF Assign, Weak
<1>2. PICK s \in Results(Wanted(operator, k)) : Push(Operation("assign", k, method, s))
  BY DEF Assign
<1>3. s \in Seq(Keys) /\ Distinct(s)
  BY <1>2, ResultsDistinct
<1>4. PICK f : f = Operation("assign", k, method, s)
  OBVIOUS
<1>5. f \in Frame
  BY <1>3, <1>4, OperationType DEF Ops, Stored
<1>6. f.phase = "hash" /\ f.version = 0 /\ f.op = "assign" /\ f.rest = s
  BY <1>4 DEF Operation
<1> QED
  BY <1>1, <1>2, <1>3, <1>4, <1>5, <1>6, PushKeeps

LEMMA AssignedKeeps ==
  ASSUME IInv, Assigned, "clear" \notin Exposed
  PROVE  IInv'
<1>1. stack # <<>> /\ Top.op = "assign" /\ kind' = kind /\ stack' = Below
  BY DEF Assigned
<1>2. /\ Top \in Frame /\ Sound(Top, Len(stack)) /\ Top.rest \in Seq(Keys)
      /\ Below \in Seq(Frame) /\ Len(Below) = Len(stack) - 1 /\ Len(stack) \in Nat \ {0}
  BY <1>1, TopSound DEF Frame
<1>3. ~Weak /\ Distinct(Top.rest)
  BY <1>1, <1>2 DEF Sound
<1>4. PICK s \in Seq(Keys) : s = Top.rest
  BY <1>2
<1>5. PICK n \in Nat : n = Len(s)
  OBVIOUS
<1>6. /\ DOMAIN table' = 1 .. n /\ next' = n + 1
      /\ \A i \in 1 .. n : table'[i] = Entry(s[i], None, i) /\ s[i] \in Keys
      /\ table' = [i \in 1 .. n |-> Entry(s[i], None, i)]
  BY <1>4, <1>5 DEF Assigned, Fresh
<1>7. Entries'
  <2>1. \A i \in 1 .. n : Entry(s[i], None, i) \in EntryType /\ Entry(s[i], None, i).key = s[i]
    BY <1>6 DEF Entry, EntryType, Stored
  <2>2. table' \in [1 .. n -> EntryType]
    BY <1>6, <2>1
  <2>3. UniqueKeys'
    <3> SUFFICES ASSUME NEW i \in 1 .. n, NEW j \in 1 .. n, i # j PROVE ~Equal(s[i], s[j])
      BY <1>6, <2>1 DEF UniqueKeys, Live, Equal
    <3> QED
      BY <1>3, <1>4, <1>5 DEF Distinct
  <2>4. version' \in Nat
    BY <1>4, <1>5 DEF Assigned, IInv, TypeOK
  <2>5. kind' \in Kinds /\ ~Weak'
    BY <1>1, <1>3 DEF IInv, TypeOK, Weak
  <2> QED
    BY <1>6, <2>2, <2>3, <2>4, <2>5 DEF Entries, Live
<1>8. CASE Top.value
  <2>1. version' = version + 1 /\ version \in Nat
    BY <1>8 DEF Assigned, IInv, TypeOK
  <2>2. Steady
    BY <1>1, <1>3, <2>1 DEF Steady
  <2> QED
    BY <1>1, <1>7, <2>2, PopKeeps
<1>9. CASE ~Top.value
  <2>1. Len(Below) = 0
    BY <1>2, <1>9 DEF Assigned
  <2>2. stack' = <<>>
    BY <1>1, <1>2, <2>1, EmptySeq
  <2> QED
    BY <1>7, <2>2, EmptyKeeps
<1> QED
  BY <1>8, <1>9

LEMMA PopItemKeeps ==
  ASSUME IInv, Pop
  PROVE  IInv'
<1>1. kind' = kind /\ stack' = stack
  BY DEF Pop
<1>2. PICK i : Remove(i)
  BY DEF Pop
<1>3. Entries' /\ Steady
  BY <1>1, <1>2, RemoveEntries
<1> QED
  BY <1>1, <1>3, StackStays

LEMMA ClearKeeps ==
  ASSUME IInv, Clear, "clear" \notin Exposed
  PROVE  IInv'
<1>1. kind' = kind /\ stack' = stack /\ table' = <<>>
  BY DEF Clear
<1>2. DOMAIN table' = {} /\ table' \in [{} -> EntryType]
  BY <1>1
<1>3. CASE Weak
  <2>1. /\ next' = next /\ version' \in Nat /\ version' >= version
    BY <1>3 DEF Clear, IInv, TypeOK
  <2>2. Entries' /\ Steady
    <3>1. {} \in SUBSET Live
      OBVIOUS
    <3> QED
      BY <1>1, <1>2, <1>3, <2>1, <3>1, FewerEntries
  <2> QED
    BY <1>1, <2>2, StackStays
<1>4. CASE ~Weak
  <2>1. stack' = <<>> /\ version' = 0 /\ next' = 1
    BY <1>1, <1>4 DEF Clear, Nested
  <2>2. Entries'
    BY <1>1, <1>2, <1>4, <2>1 DEF Entries, UniqueKeys, Live, Weak, IInv, TypeOK
  <2> QED
    BY <2>1, <2>2, EmptyKeeps
<1> QED
  BY <1>3, <1>4

LEMMA CollectKeeps ==
  ASSUME IInv, NEW x, Collect(x)
  PROVE  IInv'
<1>1. kind' = kind /\ stack' = stack /\ next' = next /\ version' = version /\ Weak
  BY DEF Collect
<1>2. PICK S : S = {i \in Live : Dies(i) # x}
  OBVIOUS
<1>3. S \in SUBSET Live /\ table' = [i \in S |-> table[i]]
  BY <1>2 DEF Collect
<1>4. table' \in [S -> EntryType] /\ \A i \in S : table'[i] = table[i]
  BY <1>3 DEF IInv, TypeOK
<1>5. version' \in Nat /\ version' >= version
  BY <1>1 DEF IInv, TypeOK
<1>6. Entries' /\ Steady
  BY <1>1, <1>3, <1>4, <1>5, FewerEntries
<1> QED
  BY <1>1, <1>6, StackStays

LEMMA QuietKeeps ==
  ASSUME IInv, UNCHANGED <<kind, table, next, version, stack>>
  PROVE  IInv'
<1>1. IInv => Entries
  BY DEF IInv, TypeOK, Entries
<1>2. Entries'
  BY <1>1 DEF Entries, UniqueKeys, Equal, Live, Weak
<1>3. Steady
  BY DEF Steady, IInv, TypeOK
<1> QED
  BY <1>2, <1>3, StackStays

LEMMA CodeKeeps ==
  ASSUME IInv, Code, "clear" \notin Exposed, "put" \notin Exposed
  PROVE  IInv'
<1>1. /\ None \in Stored /\ Mapped \subseteq Stored /\ Usable \subseteq Keys
      /\ <<>> \in Seq(Keys)
  BY DEF Stored, Mapped, Usable
<1>2. MayPut /\ Weak => stack = <<>>
  BY DEF MayPut, Nested
<1>3. ASSUME NEW k \in Usable, Contains(k) \/ GetItem(k) \/ Delete(k) \/ Discard(k)
      PROVE  IInv'
  <2>1. \E op \in {"get", "take"} : Push(Operation(op, k, None, <<>>))
    BY <1>3 DEF Contains, GetItem, Delete, Discard
  <2> QED
    BY <1>1, <2>1, BeginKeeps DEF Ops
<1>4. ASSUME NEW k \in Usable, NEW v \in Mapped, Put(k, v) \/ SetDefault(k, v)
      PROVE  IInv'
  <2>1. /\ MayPut
        /\ \E op \in {"put", "default"} : Push(Operation(op, k, v, <<>>))
    BY <1>4 DEF Put, SetDefault
  <2> QED
    BY <1>1, <1>2, <2>1, BeginKeeps DEF Ops
<1>5. ASSUME NEW k \in Usable, NEW j \in Usable, NEW v \in Mapped, Compare(k, j) \/ Update(k, j, v)
      PROVE  IInv'
  <2>1. /\ ~Weak
        /\ Push(Operation("get", k, None, <<j>>)) \/ Push(Operation("put", k, v, <<j>>))
    BY <1>5 DEF Compare, Update
  <2>2. <<j>> \in Seq(Keys)
    BY <1>1
  <2> QED
    BY <1>1, <2>1, <2>2, BeginKeeps DEF Ops
<1>6. ASSUME NEW k \in Usable, NEW operator \in {"and", "minus", "or", "xor"}, NEW method \in BOOLEAN,
             Assign(operator, k, method)
      PROVE  IInv'
  BY <1>1, <1>6, AssignKeeps
<1>7. ASSUME \/ IteratorNext
             \/ \E reverse \in BOOLEAN : NewIterator(reverse)
      PROVE  IInv'
  BY <1>7, QuietKeeps DEF IteratorNext, NewIterator
<1> QED
  BY <1>3, <1>4, <1>5, <1>6, <1>7, PopItemKeeps, ClearKeeps, CollectKeeps DEF Code

LEMMA StepKeeps ==
  ASSUME IInv, [Next]_vars, "clear" \notin Exposed, "put" \notin Exposed
  PROVE  IInv'
<1>1. CASE Raise
  <2>1. stack # <<>> /\ stack' = Below /\ UnchangedTable /\ kind' = kind
    BY <1>1 DEF Raise
  <2> QED
    BY <2>1, SameEntries, PopKeeps
<1>2. CASE UNCHANGED vars
  BY <1>2, QuietKeeps DEF vars
<1> QED
  BY <1>1, <1>2, LookupKeeps, AllocatedKeeps, AssignedKeeps, CodeKeeps DEF Next

LEMMA InitKeeps ==
  ASSUME Init
  PROVE  IInv
<1>1. DOMAIN table = {} /\ table \in [{} -> EntryType]
  BY DEF Init
<1>2. stack = <<>> /\ next = 1 /\ version = 0 /\ kind \in Kinds
  BY DEF Init
<1> QED
  BY <1>1, <1>2, EmptySeq DEF IInv, TypeOK, UniqueKeys, Live

(* The keys of a container stay pairwise unequal, whatever the code of keys  *)
(* does in the middle of a search, and whatever a collection takes from a    *)
(* weak container while an entry of it is being allocated.                  *)
THEOREM KeysStayUnique ==
  {"clear", "put"} \cap Exposed = {} => (Spec => []UniqueKeys)
<1> SUFFICES ASSUME "clear" \notin Exposed, "put" \notin Exposed
             PROVE  Spec => []UniqueKeys
  OBVIOUS
<1>1. Init => IInv
  BY InitKeeps
<1>2. IInv /\ [Next]_vars => IInv'
  BY StepKeeps
<1>3. IInv => UniqueKeys
  BY DEF IInv
<1> QED
  BY <1>1, <1>2, <1>3, PTL DEF Spec

-----------------------------------------------------------------------------
(* Ranks: the position of an entry among the live ones *)

RankIn(S, i) == Cardinality({j \in S : j <= i})

LEMMA RankInBounds ==
  ASSUME NEW S \in SUBSET Nat, IsFiniteSet(S)
  PROVE  /\ Cardinality(S) \in Nat
         /\ \A i \in S : RankIn(S, i) \in 1 .. Cardinality(S)
         /\ \A i, j \in S : i < j => RankIn(S, i) < RankIn(S, j)
         /\ \A i, j \in S : RankIn(S, i) = RankIn(S, j) => i = j
<1>1. Cardinality(S) \in Nat
  BY FS_CardinalityType
<1>2. ASSUME NEW i \in S, NEW U, U = {j \in S : j <= i}
      PROVE  /\ IsFiniteSet(U \ {i}) /\ RankIn(S, i) \in 1 .. Cardinality(S)
             /\ Cardinality(U) = RankIn(S, i) /\ Cardinality(U \ {i}) = RankIn(S, i) - 1
  <2>1. U \in SUBSET S /\ i \in U /\ Cardinality(U) = RankIn(S, i)
    BY <1>2 DEF RankIn
  <2>2. IsFiniteSet(U) /\ Cardinality(U) <= Cardinality(S)
    BY <2>1, FS_Subset
  <2>3. IsFiniteSet(U \ {i}) /\ Cardinality(U \ {i}) = Cardinality(U) - 1
    BY <2>1, <2>2, FS_RemoveElement
  <2>4. Cardinality(U) \in Nat /\ Cardinality(U \ {i}) \in Nat
    BY <2>2, <2>3, FS_CardinalityType
  <2> QED
    BY <1>1, <2>1, <2>2, <2>3, <2>4
<1>3. ASSUME NEW i \in S PROVE RankIn(S, i) \in 1 .. Cardinality(S)
  BY <1>2
<1>4. ASSUME NEW i \in S, NEW j \in S, i < j PROVE RankIn(S, i) < RankIn(S, j)
  <2>1. PICK U : U = {k \in S : k <= i}
    OBVIOUS
  <2>2. PICK V : V = {k \in S : k <= j}
    OBVIOUS
  <2>3. U \subseteq V \ {j}
    <3> SUFFICES ASSUME NEW k \in S, k <= i PROVE k <= j /\ k # j
      BY <2>1, <2>2
    <3>1. k \in Nat /\ i \in Nat /\ j \in Nat
      OBVIOUS
    <3> QED
      BY <1>4, <3>1
  <2>4. Cardinality(U) = RankIn(S, i) /\ RankIn(S, i) \in Nat
    BY <1>1, <1>3, <2>1 DEF RankIn
  <2>5. IsFiniteSet(V \ {j}) /\ Cardinality(V \ {j}) = RankIn(S, j) - 1 /\ RankIn(S, j) \in Nat
    BY <1>1, <1>2, <2>2
  <2>6. Cardinality(U) <= Cardinality(V \ {j})
    BY <2>3, <2>5, FS_Subset
  <2> QED
    BY <2>4, <2>5, <2>6
<1>5. ASSUME NEW i \in S, NEW j \in S, RankIn(S, i) = RankIn(S, j) PROVE i = j
  <2>1. i \in Nat /\ j \in Nat /\ RankIn(S, i) \in Nat /\ RankIn(S, j) \in Nat
    BY <1>1, <1>3
  <2> QED
    BY <1>4, <1>5, <2>1
<1> QED
  BY <1>1, <1>3, <1>4, <1>5

(* Every rank up to the number of members is that of a member: the one after *)
(* the member of the rank before.                                           *)
LEMMA RankInOnto ==
  ASSUME NEW S \in SUBSET Nat, IsFiniteSet(S)
  PROVE  \A n \in 1 .. Cardinality(S) : \E i \in S : RankIn(S, i) = n
<1> DEFINE gaps == {n \in 1 .. Cardinality(S) : \A i \in S : RankIn(S, i) # n}
<1>1. Cardinality(S) \in Nat
  BY FS_CardinalityType
<1> SUFFICES ASSUME gaps # {} PROVE FALSE
  OBVIOUS
<1>2. PICK n \in gaps : \A m \in gaps : n <= m
  <2>1. gaps \in SUBSET Nat
    BY <1>1
  <2> QED
    BY <2>1, LeastOf
<1>3. n \in Nat \ {0} /\ n <= Cardinality(S) /\ \A i \in S : RankIn(S, i) # n
  BY <1>1, <1>2
<1>4. PICK U \in SUBSET S : /\ Cardinality(U) = n - 1
                            /\ \A i \in U, j \in S : j <= i => j \in U
  <2>1. CASE n = 1
    <3>1. {} \in SUBSET S /\ Cardinality({}) = n - 1
      BY <2>1, FS_EmptySet
    <3> QED
      BY <3>1
  <2>2. CASE n # 1
    <3>1. n - 1 \in 1 .. Cardinality(S) /\ n - 1 \notin gaps
      BY <1>1, <1>2, <1>3, <2>2
    <3>2. PICK i \in S : RankIn(S, i) = n - 1
      BY <3>1
    <3>3. /\ {j \in S : j <= i} \in SUBSET S
          /\ \A k \in {j \in S : j <= i}, j \in S : j <= k => j \in {h \in S : h <= i}
      OBVIOUS
    <3> QED
      BY <3>2, <3>3 DEF RankIn
  <2> QED
    BY <2>1, <2>2
<1>5. S \ U # {}
  <2>1. Cardinality(U) # Cardinality(S)
    BY <1>1, <1>3, <1>4
  <2>2. U # S
    BY <2>1
  <2> QED
    BY <2>2
<1>6. PICK j \in S \ U : \A k \in S \ U : j <= k
  <2>1. S \ U \in SUBSET Nat
    OBVIOUS
  <2> QED
    BY <1>5, <2>1, LeastOf
<1>7. {k \in S : k <= j} = U \cup {j}
  <2>1. ASSUME NEW k \in S, k <= j PROVE k \in U \cup {j}
    BY <1>6, <2>1
  <2>2. ASSUME NEW k \in U PROVE k <= j
    BY <1>4, <1>6
  <2> QED
    BY <1>6, <2>1, <2>2
<1>8. IsFiniteSet(U)
  BY FS_Subset
<1>9. RankIn(S, j) = n
  <2>1. RankIn(S, j) = Cardinality(U \cup {j})
    BY <1>7 DEF RankIn
  <2>2. Cardinality(U \cup {j}) = Cardinality(U) + 1
    BY <1>6, <1>8, FS_AddElement
  <2> QED
    BY <1>3, <1>4, <2>1, <2>2
<1> QED
  BY <1>3, <1>6, <1>9

LEMMA LiveRanks ==
  ASSUME TypeOK
  PROVE  /\ Live \in SUBSET Nat /\ IsFiniteSet(Live)
         /\ \A i : Rank(i) = RankIn(Live, i)
  BY LiveFinite DEF TypeOK, Rank, RankIn

LEMMA RankBounds ==
  ASSUME TypeOK
  PROVE  /\ Cardinality(Live) \in Nat
         /\ \A i \in Live : Rank(i) \in 1 .. Cardinality(Live)
         /\ \A i, j \in Live : i < j => Rank(i) < Rank(j)
  BY LiveRanks, RankInBounds

(* No two entries have one rank. *)
LEMMA RankInjective ==
  ASSUME TypeOK, NEW i \in Live, NEW j \in Live, Rank(i) = Rank(j)
  PROVE  i = j
  BY LiveRanks, RankInBounds

LEMMA RankOnto ==
  ASSUME TypeOK
  PROVE  \A n \in 1 .. Cardinality(Live) : At(n) # {}
  BY LiveRanks, RankInOnto DEF At

-----------------------------------------------------------------------------
(* Iterators *)

IteratorType ==
  [state : {"none", "open", "raised", "exhausted", "repeated"}, touched : BOOLEAN,
   keep : SUBSET Nat, yielded : SUBSET Nat, expected : Nat, index : Int, reverse : BOOLEAN,
   pending : SUBSET Nat]

(* What an iterator has yielded of a table it has not seen change: all up to *)
(* its position, or all from there.                                         *)
Passed(it, i) == IF it.reverse THEN Rank(i) > it.index + 1 ELSE Rank(i) <= it.index

OverTable(it) ==
  /\ it.expected <= version
  /\ it.expected < version => it.touched
  /\ it.expected = version =>
       /\ ~it.touched /\ it.keep = Live
       /\ \A i \in Nat : i \in it.yielded <=> i \in Live /\ Passed(it, i)
       /\ IF it.reverse THEN it.index \in -1 .. Cardinality(Live) - 1 ELSE it.index \in Nat

OverWeak(it) ==
  /\ it.expected # version => it.touched
  /\ it.keep \subseteq Live
  /\ it.keep \subseteq it.yielded \cup it.pending
  /\ it.yielded \cap it.pending = {}

Faithful(it) ==
  /\ it.state # "repeated"
  /\ it.state = "exhausted" => it.keep \subseteq it.yielded
  /\ it.state = "raised" => it.touched
  /\ it.state = "exhausted" /\ ~Weak => ~it.touched

Iterated ==
  /\ iterator \in IteratorType
  /\ Faithful(iterator)
  /\ iterator.state = "open" => IF Weak THEN OverWeak(iterator) ELSE OverTable(iterator)

(* What a step does, as far as an iterator is concerned. *)
Unnoticed == Live' = Live /\ version' = version /\ iterator' = iterator
Noticed == \E live : /\ version' = version + 1 /\ iterator' = Touched(live)
                     /\ live \subseteq DOMAIN table'
Unseen == iterator.state # "open" /\ iterator' = iterator
Lost == \E keep : /\ Weak /\ version' = version
                  /\ iterator' = [iterator EXCEPT !.keep = keep]
                  /\ keep \subseteq iterator.keep /\ keep \subseteq DOMAIN table'

LEMMA IteratorSteps ==
  ASSUME IInv, [Next]_vars, "clear" \notin Exposed
  PROVE  \/ (Unnoticed \/ Noticed \/ Unseen \/ Lost) /\ kind' = kind
         \/ IteratorNext
         \/ \E reverse \in BOOLEAN : NewIterator(reverse)
<1>1. UnchangedTable => Unnoticed
  BY DEF UnchangedTable, Unnoticed, Live
<1>2. ASSUME NEW k, NEW v, Insert(k, v) PROVE Noticed
  BY <1>2 DEF Insert, Noticed, Live
<1>3. ASSUME NEW i, Remove(i) PROVE Noticed
  BY <1>3 DEF Remove, Noticed, Live
<1>4. ASSUME NEW f, NEW i, Conclude(Below, f, i) PROVE Unnoticed \/ Noticed
  BY <1>1, <1>2, <1>3, <1>4 DEF Conclude, Allocate
<1>5. ASSUME NEW f, NEW todo, Search(Below, f, todo) PROVE Unnoticed \/ Noticed
  BY <1>1, <1>4, <1>5 DEF Search
<1>6. CASE Hashed
  BY <1>5, <1>6 DEF Hashed
<1>7. CASE Compared
  BY <1>1, <1>4, <1>5, <1>7 DEF Compared, Onward
<1>8. CASE Allocated
  <2>1. kind' = kind
    BY <1>8 DEF Allocated
  <2>2. CASE Insert(Top.key, Top.value)
    BY <1>2, <2>1, <2>2
  <2>3. CASE ~Insert(Top.key, Top.value)
    BY <1>8, <2>1, <2>3 DEF Allocated, Unnoticed, Live
  <2> QED
    BY <2>2, <2>3
<1>9. CASE Assigned
  <2>1. kind' = kind /\ iterator' = Touched({})
    BY <1>9 DEF Assigned
  <2>2. CASE Top.value
    BY <1>9, <2>1, <2>2 DEF Assigned, Noticed
  <2>3. CASE ~Top.value
    BY <1>9, <2>1, <2>3 DEF Assigned, Unseen, Iterating, Touched
  <2> QED
    BY <2>2, <2>3
<1>10. CASE Raise
  BY <1>1, <1>10 DEF Raise
<1>11. CASE Pop
  BY <1>3, <1>11 DEF Pop
<1>12. CASE Clear
  <2>1. /\ kind' = kind /\ DOMAIN table' = {}
        /\ iterator' = IF Live = {} THEN iterator ELSE Touched({})
    BY <1>12 DEF Clear
  <2>2. CASE Weak /\ Live = {}
    BY <1>12, <2>1, <2>2 DEF Clear, Unnoticed, Live
  <2>3. CASE Weak /\ Live # {}
    BY <1>12, <2>1, <2>3 DEF Clear, Noticed
  <2>4. CASE ~Weak
    BY <1>12, <2>1, <2>4 DEF Clear, Unseen, Iterating, Touched
  <2> QED
    BY <2>2, <2>3, <2>4
<1>13. ASSUME NEW x, Collect(x) PROVE Lost /\ kind' = kind
  <2>1. PICK keep : keep = {i \in iterator.keep \cap Live : Dies(i) # x}
    OBVIOUS
  <2>2. iterator' = [iterator EXCEPT !.keep = keep]
    BY <1>13, <2>1 DEF Collect
  <2>3. DOMAIN table' = {i \in Live : Dies(i) # x}
    BY <1>13 DEF Collect
  <2>4. keep \subseteq iterator.keep /\ keep \subseteq DOMAIN table'
    BY <2>1, <2>3
  <2> QED
    BY <1>13, <2>2, <2>4 DEF Collect, Lost
<1>14. ASSUME NEW f, Push(f) PROVE Unnoticed /\ kind' = kind
  BY <1>1, <1>14 DEF Push
<1>15. CASE Code
  BY <1>11, <1>12, <1>13, <1>14, <1>15
  DEF Code, Contains, GetItem, Delete, Discard, Put, SetDefault, Compare, Update, Assign
<1>16. CASE UNCHANGED vars
  BY <1>16 DEF vars, Unnoticed, Live
<1> QED
  BY <1>6, <1>7, <1>8, <1>9, <1>10, <1>15, <1>16 DEF Next

(* Entries came or went, and an open iterator was told. *)
LEMMA NoticedKeeps ==
  ASSUME IInv, Iterated, Noticed, kind' = kind
  PROVE  Iterated'
<1>1. PICK live : /\ version' = version + 1 /\ iterator' = Touched(live)
                  /\ live \subseteq DOMAIN table'
  BY DEF Noticed
<1>2. version \in Nat /\ iterator \in IteratorType /\ (Weak' <=> Weak)
  BY DEF IInv, TypeOK, Iterated, Weak
<1>3. CASE iterator.state # "open"
  BY <1>1, <1>2, <1>3 DEF Touched, Iterated, Faithful
<1>4. CASE iterator.state = "open"
  <2>1. PICK keep : keep = iterator.keep \cap live
    OBVIOUS
  <2>2. iterator' = [iterator EXCEPT !.touched = TRUE, !.keep = keep]
    BY <1>1, <1>4, <2>1 DEF Touched
  <2>3. keep \subseteq iterator.keep /\ keep \in SUBSET Nat /\ keep \subseteq Live'
    BY <1>1, <1>2, <2>1 DEF IteratorType, Live
  <2>4. /\ iterator' \in IteratorType /\ iterator'.state = "open" /\ iterator'.touched
        /\ iterator'.keep = keep /\ iterator'.yielded = iterator.yielded
        /\ iterator'.pending = iterator.pending /\ iterator'.expected = iterator.expected
        /\ iterator.expected \in Nat
    BY <1>2, <1>4, <2>2, <2>3 DEF IteratorType
  <2>5. Weak => OverWeak(iterator)'
    BY <1>1, <1>4, <2>3, <2>4 DEF Iterated, OverWeak
  <2>6. ~Weak => OverTable(iterator)'
    BY <1>1, <1>2, <1>4, <2>4 DEF Iterated, OverTable
  <2> QED
    BY <1>2, <2>4, <2>5, <2>6 DEF Iterated, Faithful
<1> QED
  BY <1>3, <1>4

LEMMA LostKeeps ==
  ASSUME IInv, Iterated, Lost, kind' = kind
  PROVE  Iterated'
<1>1. PICK keep : /\ Weak /\ version' = version
                  /\ iterator' = [iterator EXCEPT !.keep = keep]
                  /\ keep \subseteq iterator.keep /\ keep \subseteq DOMAIN table'
  BY DEF Lost
<1>2. iterator \in IteratorType /\ Weak'
  BY <1>1 DEF Iterated, Weak
<1>3. /\ iterator' \in IteratorType /\ iterator'.state = iterator.state
      /\ iterator'.keep = keep /\ iterator'.yielded = iterator.yielded
      /\ iterator'.pending = iterator.pending /\ iterator'.expected = iterator.expected
      /\ iterator'.touched = iterator.touched
  BY <1>1, <1>2 DEF IteratorType
<1>4. iterator.state = "open" => OverWeak(iterator)'
  BY <1>1, <1>3 DEF Iterated, OverWeak, Live
<1> QED
  BY <1>1, <1>2, <1>3, <1>4 DEF Iterated, Faithful

LEMMA UnnoticedKeeps ==
  ASSUME Iterated, Unnoticed \/ Unseen, kind' = kind
  PROVE  Iterated'
<1>1. Weak' <=> Weak
  BY DEF Weak
<1>2. CASE Unnoticed
  <2>1. /\ Live' = Live /\ version' = version /\ iterator' = iterator
        /\ \A i : Rank(i)' = Rank(i)
    BY <1>2 DEF Unnoticed, Rank
  <2> QED
    BY <1>1, <2>1 DEF Iterated, Faithful, OverWeak, OverTable, Passed
<1>3. CASE Unseen
  BY <1>1, <1>3 DEF Unseen, Iterated, Faithful
<1> QED
  BY <1>2, <1>3

LEMMA NewIteratorKeeps ==
  ASSUME IInv, NEW CONSTANT reverse \in BOOLEAN, NewIterator(reverse)
  PROVE  Iterated'
<1>1. PICK it : it = Iterator(reverse)
  OBVIOUS
<1>2. /\ version \in Nat /\ Live \in SUBSET Nat /\ Cardinality(Live) \in Nat
      /\ \A i \in Live : Rank(i) \in 1 .. Cardinality(Live)
  BY RankBounds DEF IInv, TypeOK
<1>3. /\ it \in IteratorType /\ it.state = "open" /\ it.keep = Live /\ it.yielded = {}
      /\ it.expected = version /\ ~it.touched /\ it.reverse = reverse
      /\ it.pending = (IF Weak THEN Live ELSE {})
      /\ it.index = IF reverse THEN Cardinality(Live) - 1 ELSE 0
  BY <1>1, <1>2 DEF Iterator, IteratorType
<1>4. iterator' = it /\ UNCHANGED <<kind, table, version>>
  BY <1>1 DEF NewIterator
<1>5. Live' = Live /\ (Weak' <=> Weak) /\ \A i : Rank(i)' = Rank(i)
  BY <1>4 DEF Live, Weak, Rank
<1>6. \A i \in Live : ~Passed(it, i)
  BY <1>2, <1>3 DEF Passed
<1>7. OverTable(it)
  BY <1>2, <1>3, <1>6 DEF OverTable
<1>8. Weak => OverWeak(it)
  BY <1>3 DEF OverWeak
<1>9. (~Weak => OverTable(it)') /\ (Weak => OverWeak(it)')
  BY <1>4, <1>5, <1>7, <1>8 DEF OverTable, OverWeak, Passed
<1> QED
  BY <1>3, <1>4, <1>5, <1>9 DEF Iterated, Faithful

(* Entry i is yielded: it was not before. *)
LEMMA YieldType ==
  ASSUME NEW it \in IteratorType, it.state = "open", NEW i \in Nat \ it.yielded
  PROVE  Yield(it, i) = [it EXCEPT !.yielded = it.yielded \cup {i}]
<1>1. Yield(it, i) = [it EXCEPT !.yielded = it.yielded \cup {i}, !.state = "open"]
  BY DEF Yield
<1> QED
  BY <1>1 DEF IteratorType

LEMMA TableNext ==
  ASSUME IInv, ~Weak, NEW it \in IteratorType, it.state = "open", OverTable(it),
         NEW new, new = NextOfTable(it)
  PROVE  new \in IteratorType /\ Faithful(new) /\ (new.state = "open" => OverTable(new))
<1>1. /\ Live \in SUBSET Nat /\ Cardinality(Live) \in Nat
      /\ \A i \in Live : Rank(i) \in 1 .. Cardinality(Live)
  BY RankBounds DEF IInv, TypeOK
<1>2. CASE version # it.expected
  <2>1. new = [it EXCEPT !.state = "raised"] /\ it.touched
    BY <1>2 DEF NextOfTable, OverTable, IInv, TypeOK, IteratorType
  <2> QED
    BY <2>1 DEF Faithful, IteratorType
<1>3. CASE version = it.expected /\ At(it.index + 1) = {}
  <2>1. new = [it EXCEPT !.state = "exhausted"] /\ ~it.touched /\ it.keep = Live
    BY <1>3 DEF NextOfTable, OverTable
  <2>2. \A i \in Live : Passed(it, i)
    <3> SUFFICES ASSUME NEW i \in Live PROVE Passed(it, i)
      OBVIOUS
    <3>1. Rank(i) \in 1 .. Cardinality(Live) /\ it.index \in Int
      BY <1>1 DEF IteratorType
    <3>2. it.index + 1 \notin 1 .. Cardinality(Live)
      BY <1>3, RankOnto DEF IInv
    <3> QED
      BY <1>1, <1>3, <3>1, <3>2 DEF Passed, OverTable
  <2>3. Live \subseteq it.yielded
    BY <1>1, <1>3, <2>2 DEF OverTable
  <2> QED
    BY <2>1, <2>3 DEF Faithful, IteratorType
<1>4. CASE version = it.expected /\ At(it.index + 1) # {}
  <2>1. PICK i : i = CHOOSE j \in At(it.index + 1) : TRUE
    OBVIOUS
  <2>2. i \in Live /\ Rank(i) = it.index + 1 /\ i \in Nat /\ it.index \in Int
    BY <1>1, <1>4, <2>1 DEF At, IteratorType
  <2>3. PICK n \in Int : n = IF it.reverse THEN it.index - 1 ELSE it.index + 1
    BY <2>2
  <2>4. PICK on : on = [it EXCEPT !.index = n]
    OBVIOUS
  <2>5. /\ on \in IteratorType /\ on.state = "open" /\ on.index = n /\ on.yielded = it.yielded
        /\ on.keep = it.keep /\ on.touched = it.touched /\ on.reverse = it.reverse
        /\ on.expected = it.expected
    BY <2>3, <2>4 DEF IteratorType
  <2>6. i \notin it.yielded
    BY <1>4, <2>2 DEF OverTable, Passed
  <2>7. new = Yield(on, i)
    BY <1>4, <2>1, <2>3, <2>4 DEF NextOfTable
  <2>8. new = [on EXCEPT !.yielded = it.yielded \cup {i}]
    BY <2>2, <2>5, <2>6, <2>7, YieldType
  <2>9. /\ new \in IteratorType /\ new.state = "open" /\ new.index = n
        /\ new.yielded = it.yielded \cup {i} /\ new.keep = it.keep /\ new.touched = it.touched
        /\ new.reverse = it.reverse /\ new.expected = it.expected
    BY <2>2, <2>5, <2>8 DEF IteratorType
  <2>10. ASSUME NEW j \in Live PROVE Passed(new, j) <=> Passed(it, j) \/ j = i
    <3>1. Rank(j) \in Nat /\ (Rank(j) = it.index + 1 => j = i)
      BY <2>2, RankType, RankInjective DEF IInv
    <3> QED
      BY <2>2, <2>3, <2>9, <3>1 DEF Passed
  <2>11. IF new.reverse THEN new.index \in -1 .. Cardinality(Live) - 1 ELSE new.index \in Nat
    BY <1>1, <1>4, <2>2, <2>3, <2>9 DEF OverTable
  <2>12. OverTable(new)
    BY <1>1, <1>4, <2>2, <2>9, <2>10, <2>11 DEF OverTable
  <2> QED
    BY <2>9, <2>12 DEF Faithful
<1> QED
  BY <1>2, <1>3, <1>4

LEMMA WeakNext ==
  ASSUME IInv, Weak, NEW it \in IteratorType, it.state = "open", OverWeak(it),
         NEW new, new = NextOfWeak(it)
  PROVE  new \in IteratorType /\ Faithful(new) /\ (new.state = "open" => OverWeak(new))
<1>1. PICK left : left = it.pending \cap Live
  OBVIOUS
<1>2. left \in SUBSET Nat
  BY <1>1 DEF IteratorType
<1>3. CASE it.pending # {} /\ version # it.expected
  <2>1. new = [it EXCEPT !.state = "raised"] /\ it.touched
    BY <1>3 DEF NextOfWeak, OverWeak
  <2> QED
    BY <2>1 DEF Faithful, IteratorType
<1>4. CASE ~(it.pending # {} /\ version # it.expected) /\ left = {}
  <2>1. new = [it EXCEPT !.state = "exhausted"]
    BY <1>1, <1>4 DEF NextOfWeak
  <2>2. it.keep \subseteq it.yielded
    BY <1>1, <1>4 DEF OverWeak
  <2> QED
    BY <2>1, <2>2 DEF Faithful, IteratorType
<1>5. CASE ~(it.pending # {} /\ version # it.expected) /\ left # {}
  <2>1. PICK i : i = Least(left)
    OBVIOUS
  <2>2. i \in left /\ i \in Nat /\ i \notin it.yielded
    BY <1>1, <1>2, <1>5, <2>1, LeastOf DEF OverWeak
  <2>3. PICK on : on = [it EXCEPT !.pending = left \ {i}]
    OBVIOUS
  <2>4. /\ on \in IteratorType /\ on.state = "open" /\ on.pending = left \ {i}
        /\ on.yielded = it.yielded /\ on.keep = it.keep /\ on.touched = it.touched
        /\ on.expected = it.expected
    BY <1>2, <2>3 DEF IteratorType
  <2>5. new = Yield(on, i)
    BY <1>1, <1>5, <2>1, <2>3 DEF NextOfWeak
  <2>6. new = [on EXCEPT !.yielded = it.yielded \cup {i}]
    BY <2>2, <2>4, <2>5, YieldType
  <2>7. /\ new \in IteratorType /\ new.state = "open" /\ new.pending = left \ {i}
        /\ new.yielded = it.yielded \cup {i} /\ new.keep = it.keep /\ new.touched = it.touched
        /\ new.expected = it.expected
    BY <2>2, <2>4, <2>6 DEF IteratorType
  <2>8. OverWeak(new)
    BY <1>1, <2>2, <2>7 DEF OverWeak
  <2> QED
    BY <2>7, <2>8 DEF Faithful
<1> QED
  BY <1>1, <1>3, <1>4, <1>5

LEMMA IteratorNextKeeps ==
  ASSUME IInv, Iterated, IteratorNext
  PROVE  Iterated'
<1>1. PICK new : new = IF Weak THEN NextOfWeak(iterator) ELSE NextOfTable(iterator)
  OBVIOUS
<1>2. /\ iterator.state = "open" /\ iterator' = new /\ UNCHANGED <<kind, table, version>>
  BY <1>1 DEF IteratorNext, Iterating
<1>3. /\ new \in IteratorType /\ Faithful(new)
      /\ new.state = "open" => IF Weak THEN OverWeak(new) ELSE OverTable(new)
  BY <1>1, <1>2, TableNext, WeakNext DEF Iterated
<1>4. Live' = Live /\ (Weak' <=> Weak) /\ \A i : Rank(i)' = Rank(i)
  BY <1>2 DEF Live, Weak, Rank
<1> QED
  BY <1>2, <1>3, <1>4 DEF Iterated, Faithful, OverWeak, OverTable, Passed

(* An iterator yields no entry twice and every entry that stays, and raises   *)
(* only, and for a dictionary or a set always, when entries came or went.   *)
THEOREM IteratorsFaithful ==
  {"clear", "put"} \cap Exposed = {} => (Spec => []IterationFaithful)
<1> SUFFICES ASSUME "clear" \notin Exposed, "put" \notin Exposed
             PROVE  Spec => []IterationFaithful
  OBVIOUS
<1>1. Init => IInv /\ Iterated
  <2>1. Init => Iterated
    BY DEF Init, Iterated, Faithful, IteratorType
  <2> QED
    BY <2>1, InitKeeps
<1>2. (IInv /\ Iterated) /\ [Next]_vars => (IInv /\ Iterated)'
  BY StepKeeps, IteratorSteps, NoticedKeeps, LostKeeps, UnnoticedKeeps, NewIteratorKeeps, IteratorNextKeeps
<1>3. IInv /\ Iterated => IterationFaithful
  BY DEF Iterated, Faithful, IterationFaithful
<1> QED
  BY <1>1, <1>2, <1>3, PTL DEF Spec
-----------------------------------------------------------------------------
(* The content of a container, as the ordered map sees it *)

LEMMA ImageSize ==
  ASSUME NEW S \in SUBSET Nat, IsFiniteSet(S), NEW U \in SUBSET S,
         NEW W, W = {RankIn(S, i) : i \in U}
  PROVE  IsFiniteSet(W) /\ Cardinality(W) = Cardinality(U)
<1> DEFINE f == [i \in U |-> RankIn(S, i)]
<1>1. f \in Surjection(U, W)
  BY DEF Surjection
<1>2. f \in Injection(U, W)
  <2>1. \A i, j \in U : RankIn(S, i) = RankIn(S, j) => i = j
    BY RankInBounds
  <2> QED
    BY <2>1 DEF Injection, IsInjective
<1>3. IsFiniteSet(U)
  BY FS_Subset
<1> HIDE DEF f
<1> QED
  BY <1>1, <1>2, <1>3, FS_Surjection

(* Ranks keep the order: among the ranks of T, a rank has the rank that its  *)
(* member has in T.                                                         *)
LEMMA RankedImage ==
  ASSUME NEW S \in SUBSET Nat, IsFiniteSet(S), NEW T \in SUBSET S,
         NEW left, left = {RankIn(S, i) : i \in T}
  PROVE  /\ Cardinality(left) = Cardinality(T)
         /\ \A i \in T : RankIn(left, RankIn(S, i)) = RankIn(T, i)
<1>1. Cardinality(left) = Cardinality(T)
  BY ImageSize
<1>2. ASSUME NEW i \in T
      PROVE  RankIn(left, RankIn(S, i)) = RankIn(T, i)
  <2>1. PICK U : U = {j \in T : j <= i}
    OBVIOUS
  <2>2. PICK W : W = {n \in left : n <= RankIn(S, i)}
    OBVIOUS
  <2>3. ASSUME NEW j \in T PROVE RankIn(S, j) <= RankIn(S, i) <=> j <= i
    <3>1. /\ i \in S /\ j \in S /\ i \in Nat /\ j \in Nat
          /\ RankIn(S, i) \in Nat /\ RankIn(S, j) \in Nat
      BY RankInBounds
    <3>2. /\ i < j => RankIn(S, i) < RankIn(S, j)
          /\ j < i => RankIn(S, j) < RankIn(S, i)
      BY <3>1, RankInBounds
    <3> QED
      BY <3>1, <3>2
  <2>4. W = {RankIn(S, j) : j \in U}
    BY <2>1, <2>2, <2>3
  <2>5. U \in SUBSET S
    BY <2>1
  <2>6. Cardinality(W) = Cardinality(U)
    BY <2>4, <2>5, ImageSize
  <2> QED
    BY <2>1, <2>2, <2>6 DEF RankIn
<1> QED
  BY <1>1, <1>2

Item(i) == [key |-> table[i].key, value |-> table[i].value]

(* c lists the live entries in their order. *)
Lists(c) ==
  /\ c = [n \in 1 .. Cardinality(Live) |-> c[n]]
  /\ \A i \in Live : c[Rank(i)] = Item(i)

LEMMA ContentLists == TypeOK => Lists(Content)
<1> SUFFICES ASSUME TypeOK PROVE Lists(Content)
  OBVIOUS
<1>1. Content = [n \in 1 .. Cardinality(Live) |-> Item(CHOOSE i \in At(n) : TRUE)]
  BY DEF Content, Item
<1>2. ASSUME NEW i \in Live PROVE Content[Rank(i)] = Item(i)
  <2>1. At(Rank(i)) = {i}
    BY RankInjective DEF At
  <2>2. (CHOOSE j \in At(Rank(i)) : TRUE) = i
    BY <2>1
  <2> QED
    BY <1>1, <2>2, RankBounds
<1>3. Content = [n \in 1 .. Cardinality(Live) |-> Content[n]]
  BY <1>1
<1> QED
  BY <1>2, <1>3 DEF Lists

ListsOnlyContent == \A c : TypeOK /\ Lists(c) => c = Content

LEMMA ListsContent == ListsOnlyContent
<1> SUFFICES ASSUME TypeOK, NEW c, Lists(c) PROVE c = Content
  BY DEF ListsOnlyContent
<1>1. Lists(Content)
  BY ContentLists
<1>2. ASSUME NEW n \in 1 .. Cardinality(Live) PROVE c[n] = Content[n]
  <2>1. PICK i \in Live : Rank(i) = n
    BY RankOnto DEF At
  <2> QED
    BY <1>1, <2>1 DEF Lists
<1> QED
  BY <1>1, <1>2 DEF Lists

LEMMA NextContent ==
  ASSUME TypeOK', NEW CONSTANT s, Lists(s)'
  PROVE  Content' = s
<1>1. ListsOnlyContent'
  BY ListsContent, PTL
<1> QED
  BY <1>1 DEF ListsOnlyContent

LEMMA SameContent ==
  ASSUME UNCHANGED table
  PROVE  Content' = Content
  BY DEF Content, At, Rank, Live

(* The ranks of the entries with a key equal to k. *)
LEMMA SameRanks ==
  ASSUME TypeOK, NEW k
  PROVE  Map!Same(k) = {Rank(i) : i \in {j \in Live : Equal(table[j].key, k)}}
<1>1. DOMAIN Content = 1 .. Cardinality(Live) /\ \A i \in Live : Content[Rank(i)] = Item(i)
  BY ContentLists DEF Lists
<1>2. \A n \in 1 .. Cardinality(Live) : \E i \in Live : Rank(i) = n
  BY RankOnto DEF At
<1>3. ASSUME NEW i \in Live
      PROVE  Rank(i) \in 1 .. Cardinality(Live) /\ Content[Rank(i)].key = table[i].key
  <2>1. Item(i).key = table[i].key
    BY DEF Item
  <2> QED
    BY <1>1, <2>1, RankBounds
<1>4. Map!Same(k) = {n \in 1 .. Cardinality(Live) : Class[Content[n].key] = Class[k]}
  BY <1>1 DEF Map!Same
<1> QED
  BY <1>2, <1>3, <1>4 DEF Equal

(* The map counts as this module does. *)
LEMMA MapCounts == \A S : Map!Cardinality(S) = Cardinality(S)
  BY Zenon DEF Cardinality, Map!Cardinality

(* Entries go: the others are listed in their order. *)
LEMMA LessContent ==
  ASSUME TypeOK, TypeOK', NEW R \in SUBSET Live, Live' = Live \ R,
         \A i \in Live \ R : table'[i] = table[i]
  PROVE  Content' = Map!Without({Rank(i) : i \in R})
<1>1. PICK S : S = Live
  OBVIOUS
<1>2. PICK T : T = Live \ R
  OBVIOUS
<1>3. /\ S \in SUBSET Nat /\ IsFiniteSet(S) /\ T \in SUBSET S /\ IsFiniteSet(T)
      /\ \A i : Rank(i) = RankIn(S, i)
  BY <1>1, <1>2, LiveRanks, FS_Subset
<1>4. \A i : Rank(i)' = RankIn(T, i)
  BY <1>2 DEF Rank, RankIn
<1>5. PICK left : left = DOMAIN Content \ {Rank(i) : i \in R}
  OBVIOUS
<1>6. DOMAIN Content = 1 .. Cardinality(S) /\ \A i \in S : Content[Rank(i)] = Item(i)
  BY <1>1, ContentLists DEF Lists
<1>7. left = {RankIn(S, i) : i \in T}
  <2>1. \A n \in 1 .. Cardinality(S) : \E i \in S : RankIn(S, i) = n
    BY <1>3, RankInOnto
  <2>2. \A i, j \in S : RankIn(S, i) = RankIn(S, j) => i = j
    BY <1>3, RankInBounds
  <2>3. \A i \in S : RankIn(S, i) \in 1 .. Cardinality(S)
    BY <1>3, RankInBounds
  <2>4. left = (1 .. Cardinality(S)) \ {RankIn(S, i) : i \in R}
    BY <1>3, <1>5, <1>6
  <2> QED
    BY <1>1, <1>2, <2>1, <2>2, <2>3, <2>4
<1>8. /\ Cardinality(left) = Cardinality(T)
      /\ \A i \in T : RankIn(left, RankIn(S, i)) = RankIn(T, i)
  BY <1>3, <1>7, RankedImage
<1>9. ASSUME NEW i \in T PROVE Map!Nth(left, RankIn(T, i)) = RankIn(S, i)
  <2>1. RankIn(S, i) \in left /\ RankIn(left, RankIn(S, i)) = RankIn(T, i)
    BY <1>7, <1>8
  <2>2. ASSUME NEW n \in left, RankIn(left, n) = RankIn(T, i) PROVE n = RankIn(S, i)
    <3>1. PICK j \in T : n = RankIn(S, j)
      BY <1>7
    <3>2. RankIn(T, j) = RankIn(T, i)
      BY <1>8, <2>2, <3>1
    <3>3. j = i
      BY <1>3, <3>2, RankInBounds
    <3> QED
      BY <3>1, <3>3
  <2>3. Map!Nth(left, RankIn(T, i)) = CHOOSE n \in left : RankIn(left, n) = RankIn(T, i)
    <3>1. Map!Nth(left, RankIn(T, i)) =
          CHOOSE n \in left : Cardinality({j \in left : j <= n}) = RankIn(T, i)
      BY MapCounts, Zenon DEF Map!Nth
    <3> QED
      BY <3>1, Zenon DEF RankIn
  <2> QED
    BY <2>1, <2>2, <2>3
<1>10. PICK c : c = Map!Without({Rank(i) : i \in R})
  OBVIOUS
<1>11. c = [n \in 1 .. Cardinality(T) |-> Content[Map!Nth(left, n)]]
  <2>1. c = [n \in 1 .. Cardinality(left) |-> Content[Map!Nth(left, n)]]
    <3>1. c = [n \in 1 .. Map!Cardinality(left) |-> Content[Map!Nth(left, n)]]
      BY <1>5, <1>10, Zenon DEF Map!Without
    <3> QED
      BY <3>1, MapCounts
  <2> QED
    BY <1>8, <2>1
<1>12. ASSUME NEW i \in T PROVE c[RankIn(T, i)] = Item(i)
  BY <1>2, <1>3, <1>6, <1>9, <1>11, RankInBounds
<1>13. Lists(c)'
  <2>1. Live' = T /\ \A i \in T : Item(i)' = Item(i)
    BY <1>2 DEF Item
  <2>2. c = [n \in 1 .. Cardinality(T) |-> c[n]]
    BY <1>11
  <2> QED
    BY <1>4, <1>12, <2>1, <2>2 DEF Lists
<1> QED
  BY <1>10, <1>13, NextContent

(* An entry is added: it comes last. *)
LEMMA MoreContent ==
  ASSUME TypeOK, TypeOK', NEW CONSTANT k, NEW CONSTANT v, Insert(k, v)
  PROVE  Content' = Append(Content, [key |-> k, value |-> v])
<1>0. PICK m : m = next
  OBVIOUS
<1>1. /\ Live' = Live \cup {m} /\ m \notin Live /\ m \in Nat
      /\ \A i \in Live : i \in Nat /\ i < m /\ table'[i] = table[i]
      /\ table'[m] = Entry(k, v, m)
  BY <1>0 DEF Insert, TypeOK, Live
<1>14. \A i \in Live : Item(i)' = Item(i)
  BY <1>1 DEF Item
<1>15. Item(m)' = [key |-> k, value |-> v]
  BY <1>1 DEF Item, Entry
<1>2. PICK n : n = Cardinality(Live)
  OBVIOUS
<1>3. IsFiniteSet(Live) /\ n \in Nat /\ Cardinality(Live') = n + 1
  <2>1. IsFiniteSet(Live)
    BY LiveFinite
  <2> QED
    BY <1>1, <1>2, <2>1, FS_AddElement, FS_CardinalityType
<1>4. \A i \in Live : Rank(i)' = Rank(i)
  <2> SUFFICES ASSUME NEW i \in Live PROVE Rank(i)' = Rank(i)
    OBVIOUS
  <2>1. {j \in Live \cup {m} : j <= i} = {j \in Live : j <= i}
    BY <1>1
  <2> QED
    BY <1>1, <2>1 DEF Rank
<1>6. Rank(m)' = n + 1
  <2>1. {j \in Live \cup {m} : j <= m} = Live \cup {m}
    BY <1>1
  <2> QED
    BY <1>1, <1>3, <2>1 DEF Rank
<1>7. /\ Content = [i \in 1 .. n |-> Content[i]] /\ \A i \in Live : Content[Rank(i)] = Item(i)
      /\ \A i \in Live : Rank(i) \in 1 .. n
  BY <1>2, ContentLists, RankBounds DEF Lists
<1>8. PICK e : e = [key |-> k, value |-> v]
  OBVIOUS
<1>9. PICK c : c = Append(Content, e)
  OBVIOUS
<1>10. c = [i \in 1 .. n + 1 |-> IF i = n + 1 THEN e ELSE Content[i]]
  <2>1. PICK d : d = Content
    OBVIOUS
  <2>2. d = [i \in 1 .. n |-> d[i]]
    BY <1>7, <2>1
  <2>3. PICK Q : Q = {d[i] : i \in 1 .. n} \cup {e}
    OBVIOUS
  <2>4. d \in Seq(Q) /\ Len(d) = n /\ e \in Q
    BY <1>3, <2>2, <2>3
  <2>5. c \in Seq(Q) /\ Len(c) = n + 1 /\ c[n + 1] = e /\ \A i \in 1 .. n : c[i] = d[i]
    BY <1>9, <2>1, <2>4, Pushed
  <2> QED
    BY <1>3, <2>1, <2>5
<1>11. \A i \in Live : c[Rank(i)] = Item(i)
  BY <1>3, <1>7, <1>10
<1>12. c[n + 1] = e
  BY <1>3, <1>10
<1>13. Lists(c)'
  <2>1. c = [i \in 1 .. n + 1 |-> c[i]]
    BY <1>10
  <2>2. \A i \in Live : c[Rank(i)'] = Item(i)'
    BY <1>4, <1>11, <1>14
  <2>3. c[Rank(m)'] = Item(m)'
    BY <1>6, <1>8, <1>12, <1>15
  <2> QED
    BY <1>1, <1>3, <2>1, <2>2, <2>3 DEF Lists
<1> QED
  BY <1>8, <1>9, <1>13, NextContent

(* One entry gets another value: it stays where it is. *)
LEMMA NewValue ==
  ASSUME TypeOK, TypeOK', NEW CONSTANT p, NEW CONSTANT v, Live' = Live,
         \A i \in Live : Item(i)' = IF Rank(i) = p THEN [key |-> table[i].key, value |-> v] ELSE Item(i)
  PROVE  Content' = [n \in DOMAIN Content |-> IF n \in {p} THEN [Content[n] EXCEPT !.value = v]
                                              ELSE Content[n]]
<1>1. PICK n : n = Cardinality(Live)
  OBVIOUS
<1>2. /\ Content = [i \in 1 .. n |-> Content[i]] /\ \A i \in Live : Content[Rank(i)] = Item(i)
      /\ \A i \in Live : Rank(i) \in 1 .. n
  BY <1>1, ContentLists, RankBounds DEF Lists
<1>3. PICK c : c = [i \in DOMAIN Content |-> IF i \in {p} THEN [Content[i] EXCEPT !.value = v]
                                             ELSE Content[i]]
  OBVIOUS
<1>4. DOMAIN Content = 1 .. n
  BY <1>2
<1>5. \A i \in Live : Rank(i)' = Rank(i)
  BY DEF Rank
<1>6. ASSUME NEW i \in Live PROVE c[Rank(i)] = Item(i)'
  <2>1. c[Rank(i)] = IF Rank(i) = p THEN [Item(i) EXCEPT !.value = v] ELSE Item(i)
    BY <1>2, <1>3, <1>4
  <2>2. [Item(i) EXCEPT !.value = v] = [key |-> table[i].key, value |-> v]
    BY DEF Item
  <2> QED
    BY <2>1, <2>2
<1>7. Lists(c)'
  <2>1. c = [i \in 1 .. n |-> c[i]]
    BY <1>3, <1>4
  <2> QED
    BY <1>1, <1>5, <1>6, <2>1 DEF Lists
<1> QED
  BY <1>3, <1>7, NextContent

-----------------------------------------------------------------------------
(* What the map needs beside the invariant: a container without mapped values *)
(* has None for each, and while a value is replaced its entry stays where it  *)
(* is, because all that runs meanwhile only reads.                            *)

Mappable(v) == IF kind = "weakvalue" THEN v \in Values \cup {None} ELSE v = None
Replaces(f) == f.phase = "allocate" /\ f.id # 0
InPlace(f) ==
  /\ f.op = "put" /\ kind = "weakvalue"
  /\ f.id \in Live /\ Rank(f.id) = f.place /\ Equal(table[f.id].key, f.key)
Carried(f) == f.op # "assign" => Mappable(f.value)
OnlyReads(k) == \A n \in k + 1 .. Len(stack) : stack[n].op = "get"
ValuesFit == \A i \in Live : Mappable(table[i].value)

Orderly ==
  /\ ValuesFit
  /\ \A k \in 1 .. Len(stack) :
       /\ Carried(stack[k])
       /\ Replaces(stack[k]) => InPlace(stack[k]) /\ OnlyReads(k)

(* No operation below the innermost one replaces a value. *)
NoneBelow == \A k \in 1 .. Len(stack) - 1 : ~Replaces(stack[k])

LEMMA OnlyReadersAbove ==
  ASSUME IInv, Orderly, stack # <<>>, Top.op # "get"
  PROVE  NoneBelow
<1> SUFFICES ASSUME NEW k \in 1 .. Len(stack) - 1, Replaces(stack[k]) PROVE FALSE
  BY DEF NoneBelow
<1>1. Len(stack) \in Nat \ {0}
  BY TopSound
<1>2. OnlyReads(k)
  BY <1>1 DEF Orderly
<1> QED
  BY <1>1, <1>2 DEF OnlyReads, Top

LEMMA StrongNone ==
  ASSUME IInv, ~Weak
  PROVE  \A k \in 1 .. Len(stack) : ~Replaces(stack[k])
  BY DEF IInv, Sound, Replaces

(* The stack keeps its lower part, perhaps with one operation on top. *)
LEMMA OrderlyKeeps ==
  ASSUME IInv, Orderly, kind' = kind, ValuesFit', NEW rest, rest \in Seq(Frame),
         Len(rest) <= Len(stack),
         \A k \in 1 .. Len(rest) : rest[k] = stack[k],
         (\A k \in 1 .. Len(rest) : ~Replaces(stack[k])) \/ UNCHANGED table,
         NEW CONSTANT f \in Frame,
         \/ stack' = rest
         \/ /\ stack' = Append(rest, f) /\ Carried(f) /\ (Replaces(f) => InPlace(f)')
            /\ (\A k \in 1 .. Len(rest) : ~Replaces(stack[k])) \/ f.op = "get"
  PROVE  Orderly'
<1>1. Len(stack) \in Nat /\ Len(rest) \in Nat /\ stack \in Seq(Frame)
  BY DEF IInv, TypeOK
<1>2. ASSUME NEW CONSTANT k \in 1 .. Len(rest)
      PROVE  /\ Carried(stack[k])' /\ stack'[k] = stack[k]
             /\ Replaces(stack[k])' => InPlace(stack[k])' /\ OnlyReads(k)'
  <2>1. k \in 1 .. Len(stack) /\ rest[k] = stack[k]
    BY <1>1
  <2>2. PICK g \in Frame : g = stack[k]
    BY <1>1, <2>1
  <2>3. stack'[k] = g
    BY <2>1, <2>2, Pushed
  <2>4. Carried(g)'
    BY <2>1, <2>2 DEF Orderly, Carried, Mappable
  <2>5. ASSUME Replaces(g) PROVE InPlace(g)' /\ OnlyReads(k)'
    <3>1. UNCHANGED table /\ InPlace(g) /\ OnlyReads(k)
      BY <2>1, <2>2, <2>5 DEF Orderly
    <3>2. InPlace(g)'
      BY <3>1 DEF InPlace, Live, Rank, Equal
    <3>3. \A n \in k + 1 .. Len(rest) : stack'[n] = stack[n] /\ stack[n].op = "get"
      <4> SUFFICES ASSUME NEW n \in k + 1 .. Len(rest)
                   PROVE  stack'[n] = stack[n] /\ stack[n].op = "get"
        OBVIOUS
      <4>1. n \in 1 .. Len(rest) /\ n \in k + 1 .. Len(stack)
        BY <1>1
      <4> QED
        BY <3>1, <4>1, Pushed DEF OnlyReads
    <3>4. CASE stack' = rest
      BY <1>1, <3>2, <3>3, <3>4 DEF OnlyReads
    <3>5. CASE stack' = Append(rest, f) /\ f.op = "get"
      <4>1. Len(stack') = Len(rest) + 1 /\ stack'[Len(rest) + 1] = f
        BY <3>5, Pushed
      <4>2. ASSUME NEW n \in k + 1 .. Len(rest) + 1 PROVE stack'[n].op = "get"
        BY <1>1, <3>3, <3>5, <4>1
      <4> QED
        BY <3>2, <4>1, <4>2 DEF OnlyReads
    <3> QED
      BY <2>2, <2>5, <3>4, <3>5
  <2> QED
    BY <2>2, <2>3, <2>4, <2>5 DEF Replaces
<1>3. CASE stack' = rest
  BY <1>2, <1>3 DEF Orderly
<1>4. CASE stack' = Append(rest, f) /\ Carried(f) /\ (Replaces(f) => InPlace(f)')
  <2>1. PICK m : m = Len(rest) + 1
    OBVIOUS
  <2>2. m \in Nat /\ Len(stack') = m /\ stack'[m] = f
    BY <1>1, <1>4, <2>1, Pushed
  <2>3. Carried(stack[m])'
    BY <1>4, <2>2 DEF Carried, Mappable
  <2>4. Replaces(stack[m])' => InPlace(stack[m])'
    BY <1>4, <2>2 DEF Replaces
  <2>5. OnlyReads(m)'
    BY <2>2 DEF OnlyReads
  <2>6. \A k \in 1 .. m : k = m \/ k \in 1 .. Len(rest)
    BY <1>1, <2>1
  <2> QED
    BY <1>2, <2>2, <2>3, <2>4, <2>5, <2>6 DEF Orderly
<1> QED
  BY <1>3, <1>4

(* The innermost operation ends or becomes another. *)
LEMMA OrderlyBelow ==
  ASSUME IInv, Orderly, kind' = kind, ValuesFit', stack # <<>>,
         NoneBelow \/ UNCHANGED table, NEW CONSTANT f \in Frame,
         \/ stack' = Below
         \/ /\ stack' = Append(Below, f) /\ Carried(f) /\ (Replaces(f) => InPlace(f)')
            /\ NoneBelow \/ f.op = "get"
  PROVE  Orderly'
<1>1. /\ Below \in Seq(Frame) /\ Len(Below) = Len(stack) - 1 /\ Len(stack) \in Nat \ {0}
      /\ \A k \in 1 .. Len(Below) : Below[k] = stack[k]
  BY TopSound
<1>2. Len(Below) <= Len(stack)
  BY <1>1
<1>3. NoneBelow <=> \A k \in 1 .. Len(Below) : ~Replaces(stack[k])
  BY <1>1 DEF NoneBelow
<1> QED
  BY <1>1, <1>2, <1>3, OrderlyKeeps

LEMMA OrderlyFollowing ==
  ASSUME IInv, Orderly, kind' = kind, ValuesFit', stack # <<>>,
         NoneBelow \/ UNCHANGED table, NEW CONSTANT f \in Frame,
         SameOperation(f, Top), f.op # "assign", Following(Below, f)
  PROVE  Orderly'
<1>1. CASE f.rest = <<>>
  BY <1>1, OrderlyBelow DEF Following
<1>2. CASE f.rest # <<>>
  <2>1. PICK g : g = Operation(f.op, Head(f.rest), f.value, Tail(f.rest))
    OBVIOUS
  <2>2. f.rest \in Seq(Keys) /\ Head(f.rest) \in Keys /\ Tail(f.rest) \in Seq(Keys)
    BY <1>2, HeadTailProperties DEF Frame
  <2>3. g \in Frame
    BY <2>1, <2>2, OperationType DEF Frame
  <2>4. g.op = f.op /\ g.value = f.value /\ g.phase = "hash"
    BY <2>1 DEF Operation
  <2>5. Carried(g)
    <3>1. Carried(Top)
      BY TopSound DEF Orderly, Top
    <3> QED
      BY <2>4, <3>1 DEF Carried, SameOperation
  <2>6. NoneBelow \/ g.op = "get"
    BY <2>4, OnlyReadersAbove DEF SameOperation
  <2>7. stack' = Append(Below, g)
    BY <1>2, <2>1 DEF Following
  <2> QED
    BY <2>3, <2>4, <2>5, <2>6, <2>7, OrderlyBelow DEF Replaces
<1> QED
  BY <1>1, <1>2

-----------------------------------------------------------------------------
(* The steps of the map *)

MapSteps == [Map!Next]_(Map!vars)

LEMMA Stutters ==
  ASSUME UNCHANGED table, UNCHANGED event
  PROVE  MapSteps
  BY SameContent DEF MapSteps, Map!vars

LEMMA FoundSame ==
  ASSUME IInv, NEW CONSTANT f \in Frame, NEW CONSTANT i \in Nat, Found(f, i)
  PROVE  /\ {j \in Live : Equal(table[j].key, f.key)} = IF i = 0 THEN {} ELSE {i}
         /\ Map!Same(f.key) = IF i = 0 THEN {} ELSE {Rank(i)}
<1>1. {j \in Live : Equal(table[j].key, f.key)} = IF i = 0 THEN {} ELSE {i}
  BY DEF Found, Covers, Equal, IInv, UniqueKeys
<1>2. Map!Same(f.key) = {Rank(j) : j \in {j \in Live : Equal(table[j].key, f.key)}}
  BY SameRanks DEF IInv
<1> QED
  BY <1>1, <1>2

LEMMA GetMaps ==
  ASSUME IInv, NEW CONSTANT f \in Frame, NEW CONSTANT i \in Nat, Found(f, i),
         UNCHANGED table, event' = <<"get", f.key, i # 0>>
  PROVE  MapSteps
<1>1. (Map!Same(f.key) # {}) = (i # 0)
  BY FoundSame
<1>2. Content' = Content
  BY SameContent
<1>3. Map!Get(f.key)
  BY <1>1, <1>2 DEF Map!Get
<1>4. f.key \in Keys
  BY DEF Frame
<1> QED
  BY <1>3, <1>4 DEF MapSteps, Map!Next

LEMMA TakeMaps ==
  ASSUME IInv, TypeOK', NEW CONSTANT f \in Frame, NEW CONSTANT i \in Nat, Found(f, i),
         IF i = 0 THEN UnchangedTable ELSE Remove(i), event' = <<"take", f.key, i # 0>>
  PROVE  MapSteps
<1>1. PICK R : R = {j \in Live : Equal(table[j].key, f.key)}
  OBVIOUS
<1>2. R = IF i = 0 THEN {} ELSE {i}
  BY <1>1, FoundSame
<1>3. Live' = Live \ R /\ \A j \in Live \ R : table'[j] = table[j]
  BY <1>2 DEF UnchangedTable, Remove, Live
<1>4. Content' = Map!Without({Rank(j) : j \in R})
  BY <1>1, <1>3, LessContent DEF IInv
<1>5. Map!Same(f.key) = {Rank(j) : j \in R}
  BY <1>1, SameRanks DEF IInv
<1>6. (Map!Same(f.key) # {}) = (i # 0)
  BY FoundSame
<1>7. Map!Take(f.key)
  BY <1>4, <1>5, <1>6 DEF Map!Take
<1>8. f.key \in Keys
  BY DEF Frame
<1> QED
  BY <1>7, <1>8 DEF MapSteps, Map!Next

LEMMA PutMaps ==
  ASSUME IInv, TypeOK', NEW CONSTANT f \in Frame, NEW CONSTANT i \in Nat, Found(f, i),
         f.value \in Values \cup {None},
         \/ i = 0 /\ Insert(f.key, f.value)
         \/ /\ i # 0 /\ Live' = Live
            /\ \A j \in Live : Item(j)' = IF Rank(j) = Rank(i)
                                          THEN [key |-> table[j].key, value |-> f.value]
                                          ELSE Item(j),
         event' = <<"put", f.key, f.value>>
  PROVE  MapSteps
<1>1. f.key \in Keys
  BY DEF Frame
<1>2. PICK p : p = Rank(i)
  OBVIOUS
<1>3. Map!Same(f.key) = IF i = 0 THEN {} ELSE {p}
  BY <1>2, FoundSame
<1>4. PICK k : k = f.key
  OBVIOUS
<1>5. PICK v : v = f.value
  OBVIOUS
<1>6. Map!Put(k, v)
  <2>1. CASE i = 0
    <3>1. Content' = Append(Content, [key |-> k, value |-> v])
      BY <1>4, <1>5, <2>1, MoreContent DEF IInv
    <3> QED
      BY <1>3, <1>4, <1>5, <2>1, <3>1 DEF Map!Put
  <2>2. CASE i # 0
    <3>0. /\ TypeOK /\ Live' = Live
          /\ \A j \in Live : Item(j)' = IF Rank(j) = p THEN [key |-> table[j].key, value |-> v]
                                          ELSE Item(j)
      BY <1>2, <1>5, <2>2 DEF IInv
    <3>1. Content' = [n \in DOMAIN Content |-> IF n \in {p} THEN [Content[n] EXCEPT !.value = v]
                                               ELSE Content[n]]
      BY <3>0, NewValue
    <3>2. Map!Same(k) = {p} /\ {p} # {}
      BY <1>3, <1>4, <2>2
    <3>3. Content' = [n \in DOMAIN Content |-> IF n \in Map!Same(k) THEN [Content[n] EXCEPT !.value = v]
                                               ELSE Content[n]]
      BY <3>1, <3>2
    <3> QED
      BY <1>4, <1>5, <3>2, <3>3, Zenon DEF Map!Put
  <2> QED
    BY <2>1, <2>2
<1> QED
  BY <1>1, <1>4, <1>5, <1>6 DEF MapSteps, Map!Next


(* An operation that found where its key is, or that it is nowhere. *)
LEMMA ConcludeMaps ==
  ASSUME IInv, TypeOK', Orderly, stack # <<>>, kind' = kind,
         NEW CONSTANT f \in Frame, SameOperation(f, Top), f.op # "assign",
         NEW CONSTANT i \in Nat, Found(f, i), Weak /\ Inserting(f) => Len(stack) = 1,
         Conclude(Below, f, i)
  PROVE  Orderly' /\ MapSteps
<1>1. Carried(Top) /\ Mappable(f.value) /\ f.op = Top.op
  <2>1. Len(stack) \in 1 .. Len(stack)
    BY TopSound
  <2> QED
    BY <2>1 DEF Orderly, Top, Carried, SameOperation
<1>2. f.op # "get" => NoneBelow
  BY <1>1, OnlyReadersAbove
<1>3. f.value \in Values \cup {None}
  BY <1>1 DEF Mappable
<1>4. ASSUME UNCHANGED table PROVE ValuesFit'
  BY <1>4 DEF Orderly, ValuesFit, Live, Mappable
<1>5. CASE /\ f.op = "get" \/ (f.op = "default" /\ i # 0)
           /\ IF i = 0 THEN stack' = Below ELSE Following(Below, f)
           /\ event' = <<"get", f.key, i # 0>>
           /\ UnchangedTable
  <2>1. UNCHANGED table
    BY <1>5 DEF UnchangedTable
  <2>2. MapSteps
    BY <1>5, <2>1, GetMaps
  <2>3. CASE i = 0
    BY <1>4, <1>5, <2>1, <2>2, <2>3, OrderlyBelow
  <2>4. CASE i # 0
    BY <1>4, <1>5, <2>1, <2>2, <2>4, OrderlyFollowing
  <2> QED
    BY <2>3, <2>4
<1>6. CASE /\ f.op = "take"
           /\ stack' = Below
           /\ event' = <<"take", f.key, i # 0>>
           /\ IF i = 0 THEN UnchangedTable ELSE Remove(i)
  <2>1. MapSteps
    BY <1>6, TakeMaps
  <2>2. ValuesFit'
    <3>1. \A j \in Live' : j \in Live /\ table'[j] = table[j]
      BY <1>6 DEF UnchangedTable, Remove, Live
    <3> QED
      BY <3>1 DEF Orderly, ValuesFit, Mappable
  <2> QED
    BY <1>2, <1>6, <2>1, <2>2, OrderlyBelow
<1>7. CASE /\ f.op = "default" /\ i = 0 /\ kind # "weakkey"
           /\ stack' = Append(Below, Operation("put", f.key, f.value, <<>>))
           /\ event' = <<"get", f.key, FALSE>>
           /\ UnchangedTable
  <2>1. UNCHANGED table
    BY <1>7 DEF UnchangedTable
  <2>2. MapSteps
    BY <1>7, <2>1, GetMaps
  <2>3. PICK g : g = Operation("put", f.key, f.value, <<>>)
    OBVIOUS
  <2>4. g \in Frame
    <3>1. f.key \in Keys /\ f.value \in Stored /\ <<>> \in Seq(Keys)
      BY DEF Frame
    <3> QED
      BY <2>3, <3>1, OperationType DEF Ops
  <2>5. g.op = "put" /\ g.value = f.value /\ g.phase = "hash"
    BY <2>3 DEF Operation
  <2>6. Carried(g) /\ ~Replaces(g)
    BY <1>1, <2>5 DEF Carried, Replaces
  <2> QED
    BY <1>2, <1>4, <1>7, <2>1, <2>2, <2>3, <2>4, <2>6, OrderlyBelow
<1>8. CASE /\ f.op = "put" /\ IF i = 0 THEN ~Weak ELSE kind # "weakvalue"
           /\ Following(Below, f)
           /\ event' = <<"put", f.key, f.value>>
           /\ IF i = 0 THEN Insert(f.key, f.value) ELSE UnchangedTable
  <2>1. CASE i = 0
    <3>1. MapSteps
      BY <1>3, <1>8, <2>1, PutMaps
    <3>2. ValuesFit'
      <4>1. \A j \in Live' : \/ j \in Live /\ table'[j] = table[j]
                          \/ table'[j].value = f.value
        BY <1>8, <2>1 DEF Insert, Live, Entry
      <4> QED
        BY <1>1, <4>1 DEF Orderly, ValuesFit, Mappable
    <3> QED
      BY <1>2, <1>8, <3>1, <3>2, OrderlyFollowing
  <2>2. CASE i # 0
    <3>1. UNCHANGED table /\ Live' = Live
      BY <1>8, <2>2 DEF UnchangedTable, Live
    <3>2. \A j \in Live : Item(j)' = IF Rank(j) = Rank(i)
                                     THEN [key |-> table[j].key, value |-> f.value]
                                     ELSE Item(j)
      BY <1>1, <1>8, <2>2, <3>1 DEF Orderly, ValuesFit, Mappable, Item
    <3>3. MapSteps
      BY <1>3, <1>8, <2>2, <3>1, <3>2, PutMaps
    <3> QED
      BY <1>4, <1>8, <3>1, <3>3, OrderlyFollowing
  <2> QED
    BY <2>1, <2>2
<1>9. CASE /\ \/ f.op = "put" /\ IF i = 0 THEN Weak ELSE kind = "weakvalue"
              \/ f.op = "default" /\ i = 0 /\ kind = "weakkey"
           /\ Allocate(Below, f, i)
  <2>1. UNCHANGED table /\ UNCHANGED event
    BY <1>9 DEF Allocate, UnchangedTable
  <2>2. PICK g : g = [f EXCEPT !.phase = "allocate", !.id = i, !.todo = {},
                               !.at = IF i = 0 THEN Entry(f.key, f.value, 0) ELSE table[i],
                               !.place = IF i = 0 THEN 0 ELSE Rank(i)]
    OBVIOUS
  <2>3. stack' = Append(Below, g)
    BY <1>9, <2>2, Zenon DEF Allocate
  <2>4. g \in Frame
    <3>1. (IF i = 0 THEN Entry(f.key, f.value, 0) ELSE table[i]) \in EntryType
      BY DEF Found, IInv, TypeOK, Entry, EntryType, Frame
    <3>2. (IF i = 0 THEN 0 ELSE Rank(i)) \in Nat
      BY RankType DEF Found, IInv
    <3> QED
      BY <2>2, <3>1, <3>2 DEF Frame
  <2>5. g.op = f.op /\ g.value = f.value /\ g.key = f.key /\ g.id = i /\ (i # 0 => g.place = Rank(i))
    BY <2>2 DEF Frame
  <2>6. Carried(g)
    BY <1>1, <2>5 DEF Carried
  <2>7. Replaces(g) => InPlace(g)'
    <3> SUFFICES ASSUME i # 0 PROVE InPlace(g)'
      BY <2>5 DEF Replaces
    <3>1. i \in Live /\ Equal(table[i].key, f.key) /\ f.op = "put" /\ kind = "weakvalue"
      BY <1>9 DEF Found
    <3>2. Live' = Live /\ Rank(i)' = Rank(i)
      BY <2>1 DEF Live, Rank
    <3> QED
      BY <2>1, <2>5, <3>1, <3>2 DEF InPlace, Equal
  <2>8. MapSteps
    BY <2>1, Stutters
  <2> QED
    BY <1>2, <1>4, <1>9, <2>1, <2>3, <2>4, <2>6, <2>7, <2>8, OrderlyBelow
<1> QED
  BY <1>5, <1>6, <1>7, <1>8, <1>9 DEF Conclude

LEMMA LookupMaps ==
  ASSUME IInv, TypeOK', Orderly, Hashed \/ Compared
  PROVE  Orderly' /\ MapSteps
<1>1. stack # <<>> /\ kind' = kind
  BY LookupIs
<1>2. PICK f \in Frame : /\ SameOperation(f, Top) /\ f.op # "assign" /\ f.version <= version
                         /\ Weak /\ Inserting(f) => Len(stack) = 1
                         /\ Ends(f) \/ Asks(f) \/ Skips(f)
  BY LookupIs
<1>3. CASE Ends(f)
  BY <1>1, <1>2, <1>3, ConcludeMaps DEF Ends
<1>4. CASE Asks(f) \/ Skips(f)
  <2>1. UNCHANGED table /\ UNCHANGED event
    BY <1>4 DEF Asks, Skips, UnchangedTable
  <2>2. MapSteps
    BY <2>1, Stutters
  <2>3. ValuesFit'
    BY <1>1, <2>1 DEF Orderly, ValuesFit, Live, Mappable
  <2>4. CASE Asks(f)
    <3>1. PICK g \in Frame : SameOperation(g, f) /\ g.phase = "compare" /\ stack' = Append(Below, g)
      BY <2>4 DEF Asks
    <3>2. Carried(Top)
      BY <1>1, TopSound DEF Orderly, Top
    <3>3. Carried(g) /\ ~Replaces(g)
      BY <1>2, <3>1, <3>2 DEF Carried, Replaces, SameOperation
    <3>4. NoneBelow \/ g.op = "get"
      BY <1>1, <1>2, <3>1, OnlyReadersAbove DEF SameOperation
    <3> QED
      BY <1>1, <2>1, <2>2, <2>3, <3>1, <3>3, <3>4, OrderlyBelow
  <2>5. CASE Skips(f)
    BY <1>1, <1>2, <2>1, <2>2, <2>3, <2>5, OrderlyFollowing DEF Skips
  <2> QED
    BY <1>4, <2>4, <2>5
<1> QED
  BY <1>2, <1>3, <1>4


LEMMA AllocatedMaps ==
  ASSUME IInv, TypeOK', Orderly, Allocated
  PROVE  Orderly' /\ MapSteps
<1>1. stack # <<>> /\ Top.phase = "allocate" /\ kind' = kind /\ stack' = Below
  BY DEF Allocated
<1>2. PICK f \in Frame : f = Top
  BY <1>1, TopSound
<1>3. Inserting(f) /\ (f.id = 0 => Covers(f, {})) /\ NoneBelow
  <2>1. Sound(Top, Len(stack)) /\ Inserting(Top) /\ Shrinking(Top)
    BY <1>1, TopSound DEF Sound
  <2>2. Top.op # "get"
    BY <2>1 DEF Inserting
  <2> QED
    BY <1>1, <1>2, <2>1, <2>2, OnlyReadersAbove DEF Shrinking
<1>4. /\ f.op # "assign" /\ Mappable(f.value) /\ f.value \in Values \cup {None}
      /\ f.id # 0 => InPlace(f)
  <2>1. Len(stack) \in 1 .. Len(stack)
    BY <1>1, TopSound
  <2>2. Carried(f) /\ (Replaces(f) => InPlace(f))
    BY <1>2, <2>1 DEF Orderly, Top
  <2> QED
    BY <1>1, <1>2, <1>3, <2>2 DEF Carried, Replaces, Inserting, Mappable
<1>5. ASSUME \A j \in Live' : \/ j \in Live /\ table'[j].value = table[j].value
                              \/ table'[j].value = f.value
      PROVE  Orderly'
  <2>1. ValuesFit'
    BY <1>1, <1>4, <1>5 DEF Orderly, ValuesFit, Mappable
  <2> QED
    BY <1>1, <1>3, <2>1, OrderlyBelow
<1>6. CASE f.id = 0 /\ Insert(f.key, f.value) /\ event' = <<"put", f.key, f.value>>
  <2>1. 0 \in Nat /\ Found(f, 0)
    BY <1>3, <1>6 DEF Found
  <2>2. MapSteps
    BY <1>4, <1>6, <2>1, PutMaps
  <2>3. \A j \in Live' : \/ j \in Live /\ table'[j].value = table[j].value
                         \/ table'[j].value = f.value
    BY <1>6 DEF Insert, Live, Entry
  <2> QED
    BY <1>5, <2>2, <2>3
<1>7. CASE /\ f.id # 0
           /\ table' = [i \in Live |-> IF Rank(i) = f.place THEN Entry(table[i].key, f.value, next)
                                       ELSE table[i]]
           /\ event' = IF At(f.place) = {} THEN event ELSE <<"put", f.key, f.value>>
  <2>1. PICK m : m = f.id
    OBVIOUS
  <2>2. m \in Nat /\ Found(f, m) /\ m # 0 /\ Rank(m) = f.place /\ m \in Live
    BY <1>4, <1>7, <2>1 DEF InPlace, Found, Frame
  <2>3. event' = <<"put", f.key, f.value>>
    BY <1>7, <2>2 DEF At
  <2>4. Live' = Live
    BY <1>7 DEF Live
  <2>5. \A j \in Live : Item(j)' = IF Rank(j) = Rank(m)
                                   THEN [key |-> table[j].key, value |-> f.value]
                                   ELSE Item(j)
    BY <1>7, <2>2 DEF Item, Entry
  <2>6. MapSteps
    BY <1>4, <2>2, <2>3, <2>4, <2>5, PutMaps
  <2>7. \A j \in Live' : \/ j \in Live /\ table'[j].value = table[j].value
                         \/ table'[j].value = f.value
    BY <1>7, <2>4 DEF Entry
  <2> QED
    BY <1>5, <2>6, <2>7
<1> QED
  BY <1>2, <1>6, <1>7 DEF Allocated

-----------------------------------------------------------------------------
(* Steps of code, on the map *)

(* Operations in progress are as they were. *)
LEMMA OrderlyStays ==
  ASSUME IInv, Orderly, kind' = kind, stack' = stack, ValuesFit',
         (\A k \in 1 .. Len(stack) : ~Replaces(stack[k])) \/ UNCHANGED table
  PROVE  Orderly'
<1>1. stack \in Seq(Frame) /\ Len(stack) \in Nat
  BY DEF IInv, TypeOK
<1>2. CASE stack = <<>>
  BY <1>2, EmptySeq DEF Orderly
<1>3. CASE stack # <<>>
  <2>1. PICK f \in Frame : TRUE
    BY <1>3, TopSound
  <2>2. Len(stack) <= Len(stack) /\ \A k \in 1 .. Len(stack) : stack[k] = stack[k]
    BY <1>1
  <2> QED
    BY <1>1, <2>1, <2>2, OrderlyKeeps
<1> QED
  BY <1>2, <1>3

(* What the map cannot see. *)
LEMMA QuietMaps ==
  ASSUME IInv, Orderly, UNCHANGED <<kind, table, stack, event>>
  PROVE  Orderly' /\ MapSteps
<1>1. ValuesFit'
  BY DEF Orderly, ValuesFit, Live, Mappable
<1>2. Orderly'
  BY <1>1, OrderlyStays
<1> QED
  BY <1>2, Stutters

LEMMA PushMaps ==
  ASSUME IInv, Orderly, NEW CONSTANT f \in Frame, Push(f), f.phase = "hash", Carried(f),
         (\A k \in 1 .. Len(stack) : ~Replaces(stack[k])) \/ f.op = "get"
  PROVE  Orderly' /\ MapSteps
<1>1. stack' = Append(stack, f) /\ UNCHANGED table /\ UNCHANGED event /\ kind' = kind
  BY DEF Push, UnchangedTable
<1>2. stack \in Seq(Frame) /\ Len(stack) <= Len(stack) /\ \A k \in 1 .. Len(stack) : stack[k] = stack[k]
  BY DEF IInv, TypeOK
<1>3. ValuesFit'
  BY <1>1 DEF Orderly, ValuesFit, Live, Mappable
<1>4. ~Replaces(f)
  BY DEF Replaces
<1>5. Orderly'
  BY <1>1, <1>2, <1>3, <1>4, OrderlyKeeps
<1> QED
  BY <1>1, <1>5, Stutters

LEMMA BeginMaps ==
  ASSUME IInv, Orderly, NEW CONSTANT op \in Ops, NEW CONSTANT k \in Keys,
         NEW CONSTANT v \in Stored, NEW CONSTANT rest \in Seq(Keys),
         op # "assign" => Mappable(v),
         (\A n \in 1 .. Len(stack) : ~Replaces(stack[n])) \/ op = "get",
         Push(Operation(op, k, v, rest))
  PROVE  Orderly' /\ MapSteps
<1>1. PICK f : f = Operation(op, k, v, rest)
  OBVIOUS
<1>2. f \in Frame
  BY <1>1, OperationType
<1>3. f.phase = "hash" /\ f.op = op /\ f.value = v
  BY <1>1 DEF Operation
<1> QED
  BY <1>1, <1>2, <1>3, PushMaps DEF Carried

LEMMA AssignMaps ==
  ASSUME IInv, Orderly, NEW operator \in {"and", "minus", "or", "xor"}, NEW CONSTANT k \in Keys,
         NEW CONSTANT method \in BOOLEAN, Assign(operator, k, method)
  PROVE  Orderly' /\ MapSteps
<1>1. ~Weak
  BY DEF Assign, Weak
<1>2. PICK s \in Results(Wanted(operator, k)) : Push(Operation("assign", k, method, s))
  BY DEF Assign
<1>3. s \in Seq(Keys)
  BY ResultsDistinct
<1>4. \A n \in 1 .. Len(stack) : ~Replaces(stack[n])
  BY <1>1, StrongNone
<1>5. method \in Stored /\ "assign" \in Ops
  BY DEF Stored, Ops
<1> QED
  BY <1>2, <1>3, <1>4, <1>5, BeginMaps

(* Unequal keys stay unequal in the map. *)
Apart ==
  \A i, j \in DOMAIN Content : i # j => Class[Content[i].key] # Class[Content[j].key]

LEMMA ContentApart == TypeOK /\ UniqueKeys => Apart
<1> SUFFICES ASSUME TypeOK, UniqueKeys, NEW m \in DOMAIN Content, NEW n \in DOMAIN Content, m # n
             PROVE  Class[Content[m].key] # Class[Content[n].key]
  BY DEF Apart
<1>1. DOMAIN Content = 1 .. Cardinality(Live) /\ \A i \in Live : Content[Rank(i)] = Item(i)
  BY ContentLists DEF Lists
<1>2. PICK i \in Live : Rank(i) = m
  BY <1>1, RankOnto DEF At
<1>3. PICK j \in Live : Rank(j) = n
  BY <1>1, RankOnto DEF At
<1>4. Content[m].key = table[i].key /\ Content[n].key = table[j].key
  <2>1. Item(i).key = table[i].key /\ Item(j).key = table[j].key
    BY DEF Item
  <2> QED
    BY <1>1, <1>2, <1>3, <2>1
<1> QED
  BY <1>2, <1>3, <1>4 DEF UniqueKeys, Equal

LEMMA AssignedMaps ==
  ASSUME IInv, IInv', Orderly, Assigned
  PROVE  Orderly' /\ MapSteps
<1>1. stack # <<>> /\ Top.op = "assign" /\ kind' = kind /\ stack' = Below /\ event' = <<"assign">>
  BY DEF Assigned
<1>2. PICK f \in Frame : f = Top
  BY <1>1, TopSound
<1>3. ~Weak /\ NoneBelow
  BY <1>1, TopSound, OnlyReadersAbove DEF Sound
<1>4. \A j \in Live' : table'[j].value = None
  BY DEF Assigned, Fresh, Entry, Live
<1>5. ValuesFit'
  BY <1>1, <1>3, <1>4 DEF ValuesFit, Mappable, Weak
<1>6. Orderly'
  BY <1>1, <1>2, <1>3, <1>5, OrderlyBelow
<1>7. (TypeOK /\ UniqueKeys => Apart)'
  BY ContentApart, PTL
<1>8. Apart'
  BY <1>7 DEF IInv
<1>9. Map!Assign(Content')
  BY <1>1, <1>8 DEF Map!Assign, Apart
<1> QED
  BY <1>6, <1>9 DEF MapSteps, Map!Next


(* The first and the last entry are at the ends of the map. *)
LEMMA EndRanks ==
  ASSUME TypeOK, Live # {}
  PROVE  /\ Least(Live) \in Live /\ Rank(Least(Live)) = 1
         /\ Greatest(Live) \in Live /\ Rank(Greatest(Live)) = Cardinality(Live)
<1>1. PICK c : c = Cardinality(Live)
  OBVIOUS
<1>2. c \in Nat \ {0}
  BY <1>1, LiveFinite, FS_CardinalityType, FS_EmptySet
<1>3. \A i \in Live : i \in Nat /\ Rank(i) \in 1 .. c
  BY <1>1, RankBounds DEF TypeOK
<1>4. \A i, j \in Live : i < j => Rank(i) < Rank(j)
  BY LiveRanks, RankInBounds
<1>5. PICK i \in Live : Rank(i) = 1
  BY <1>1, <1>2, RankOnto DEF At
<1>6. PICK j \in Live : Rank(j) = c
  BY <1>1, <1>2, RankOnto DEF At
<1>7. Least(Live) = i
  <2>1. \A m \in Live : i <= m
    BY <1>2, <1>3, <1>4, <1>5
  <2>2. \A n \in Live : (\A m \in Live : n <= m) => n = i
    BY <1>3, <2>1
  <2> QED
    BY <2>1, <2>2 DEF Least
<1>8. Greatest(Live) = j
  <2>1. \A m \in Live : m <= j
    BY <1>2, <1>3, <1>4, <1>6
  <2>2. \A n \in Live : (\A m \in Live : m <= n) => n = j
    BY <1>3, <2>1
  <2> QED
    BY <2>1, <2>2 DEF Greatest
<1> QED
  BY <1>1, <1>5, <1>6, <1>7, <1>8

LEMMA PopMaps ==
  ASSUME IInv, TypeOK', Orderly, Pop
  PROVE  Orderly' /\ MapSteps
<1>1. /\ ~Weak /\ Live # {} /\ kind' = kind /\ stack' = stack /\ event' = <<"pop">>
      /\ TypeOK
  BY DEF Pop, IInv
<1>2. PICK c : c = Cardinality(Live)
  OBVIOUS
<1>3. PICK i \in Live : Remove(i) /\ Rank(i) \in {1, c}
  BY <1>1, <1>2, EndRanks DEF Pop
<1>4. Live' = Live \ {i} /\ \A j \in Live \ {i} : table'[j] = table[j]
  BY <1>3 DEF Remove, Live
<1>5. Content' = Map!Without({Rank(i)})
  <2>1. {i} \in SUBSET Live /\ {Rank(j) : j \in {i}} = {Rank(i)}
    BY <1>3
  <2>2. Content' = Map!Without({Rank(j) : j \in {i}})
    BY <1>1, <1>4, <2>1, LessContent
  <2> QED
    BY <2>1, <2>2
<1>6. PICK r : r = Rank(i)
  OBVIOUS
<1>7. DOMAIN Content = 1 .. c /\ c \in Nat /\ Len(Content) = c /\ r \in 1 .. c
  <2>1. Content = [n \in 1 .. c |-> Content[n]]
    BY <1>1, <1>2, ContentLists DEF Lists
  <2>2. c \in Nat
    BY <1>1, <1>2, LiveFinite, FS_CardinalityType
  <2>3. r \in 1 .. c
    BY <1>1, <1>2, <1>3, <1>6, RankBounds
  <2>4. Len(Content) = c
    BY <2>1, <2>2
  <2> QED
    BY <2>1, <2>2, <2>3, <2>4
<1>8. Map!Pop(r)
  BY <1>1, <1>3, <1>5, <1>6, <1>7 DEF Map!Pop
<1>9. Orderly'
  <2>1. \A j \in Live' : j \in Live /\ table'[j] = table[j]
    BY <1>4
  <2>2. ValuesFit'
    BY <1>1, <2>1 DEF Orderly, ValuesFit, Mappable
  <2> QED
    BY <1>1, <2>2, StrongNone, OrderlyStays
<1> QED
  BY <1>7, <1>8, <1>9 DEF MapSteps, Map!Next

(* No entry goes while a value is replaced. *)
LEMMA NoneReplaced ==
  ASSUME IInv, ~Replacing
  PROVE  \A k \in 1 .. Len(stack) : ~Replaces(stack[k])
  BY DEF IInv, TypeOK, Replacing, Replaces

LEMMA ClearMaps ==
  ASSUME IInv, TypeOK', Orderly, Clear, "prune" \notin Exposed
  PROVE  Orderly' /\ MapSteps
<1>1. kind' = kind /\ stack' = stack /\ table' = <<>> /\ event' = <<"clear">> /\ Live' = {}
  BY DEF Clear, Live
<1>2. \A k \in 1 .. Len(stack) : ~Replaces(stack[k])
  BY NoneReplaced, StrongNone DEF Clear
<1>3. ValuesFit'
  BY <1>1 DEF ValuesFit
<1>4. Orderly'
  BY <1>1, <1>2, <1>3, OrderlyStays
<1>5. Content' = <<>>
  <2>1. Cardinality({}) = 0
    BY FS_EmptySet
  <2>2. Lists(<<>>)'
    BY <1>1, <2>1 DEF Lists
  <2> QED
    BY <2>2, NextContent
<1>6. Map!Clear
  BY <1>1, <1>5 DEF Map!Clear
<1> QED
  BY <1>4, <1>6 DEF MapSteps, Map!Next

LEMMA CollectMaps ==
  ASSUME IInv, TypeOK', Orderly, NEW CONSTANT x \in Keys \cup Values, Collect(x),
         "prune" \notin Exposed
  PROVE  Orderly' /\ MapSteps
<1>1. kind' = kind /\ stack' = stack /\ event' = <<"lose", x>> /\ TypeOK /\ ~Replacing
  BY DEF Collect, IInv
<1>2. PICK R : R = {i \in Live : Dies(i) = x}
  OBVIOUS
<1>3. R \in SUBSET Live /\ Live' = Live \ R /\ \A j \in Live \ R : table'[j] = table[j]
  BY <1>2 DEF Collect, Live
<1>4. Content' = Map!Without({Rank(i) : i \in R})
  BY <1>1, <1>3, LessContent
<1>5. ASSUME NEW i \in Live PROVE x \in {Item(i).key, Item(i).value} <=> i \in R
  <2>1. Mappable(table[i].value) /\ x # None
    BY ContainersAssumption DEF Orderly, ValuesFit, None
  <2>2. Item(i).key = table[i].key /\ Item(i).value = table[i].value
    BY DEF Item
  <2>3. CASE kind = "weakvalue"
    BY <1>2, <2>2, <2>3 DEF Collect, Dies
  <2>4. CASE kind # "weakvalue"
    BY <1>2, <2>1, <2>2, <2>4 DEF Mappable, Dies
  <2> QED
    BY <2>3, <2>4
<1>6. {n \in DOMAIN Content : x \in {Content[n].key, Content[n].value}} = {Rank(i) : i \in R}
  <2>1. DOMAIN Content = 1 .. Cardinality(Live) /\ \A i \in Live : Content[Rank(i)] = Item(i)
    BY <1>1, ContentLists DEF Lists
  <2>2. \A n \in 1 .. Cardinality(Live) : \E i \in Live : Rank(i) = n
    BY <1>1, RankOnto DEF At
  <2>3. \A i \in Live : Rank(i) \in 1 .. Cardinality(Live)
    BY <1>1, RankBounds
  <2> QED
    BY <1>3, <1>5, <2>1, <2>2, <2>3
<1>7. Map!Lose(x)
  BY <1>1, <1>4, <1>6 DEF Map!Lose
<1>8. Orderly'
  <2>1. \A j \in Live' : j \in Live /\ table'[j] = table[j]
    BY <1>3
  <2>2. ValuesFit'
    BY <1>1, <2>1 DEF Orderly, ValuesFit, Mappable
  <2> QED
    BY <1>1, <2>2, NoneReplaced, OrderlyStays
<1>9. x \in Keys \cup (Values \cup {None})
  OBVIOUS
<1> QED
  BY <1>7, <1>8, <1>9 DEF MapSteps, Map!Next

LEMMA CodeMaps ==
  ASSUME IInv, IInv', Orderly, Code, "put" \notin Exposed, "prune" \notin Exposed
  PROVE  Orderly' /\ MapSteps
<1>1. /\ None \in Stored /\ Mapped \subseteq Stored /\ Usable \subseteq Keys
      /\ <<>> \in Seq(Keys) /\ Mappable(None) /\ \A v \in Mapped : Mappable(v)
  BY DEF Stored, Mapped, Usable, Mappable
<1>2. MayPut => \A n \in 1 .. Len(stack) : ~Replaces(stack[n])
  <2>1. stack = <<>> => Len(stack) = 0
    BY EmptySeq
  <2> QED
    BY <2>1, StrongNone DEF MayPut, Nested
<1>3. ASSUME NEW k \in Usable, Contains(k) \/ GetItem(k) \/ Delete(k) \/ Discard(k)
      PROVE  Orderly' /\ MapSteps
  <2>1. CASE Contains(k) \/ GetItem(k)
    <3>1. Push(Operation("get", k, None, <<>>))
      BY <2>1 DEF Contains, GetItem
    <3> QED
      BY <1>1, <3>1, BeginMaps DEF Ops
  <2>2. CASE Delete(k) \/ Discard(k)
    <3>1. Push(Operation("take", k, None, <<>>)) /\ ~Replacing
      BY <2>2 DEF Delete, Discard
    <3> QED
      BY <1>1, <3>1, NoneReplaced, BeginMaps DEF Ops
  <2> QED
    BY <1>3, <2>1, <2>2
<1>4. ASSUME NEW k \in Usable, NEW v \in Mapped, Put(k, v) \/ SetDefault(k, v)
      PROVE  Orderly' /\ MapSteps
  <2>1. /\ MayPut
        /\ \E op \in {"put", "default"} : Push(Operation(op, k, v, <<>>))
    BY <1>4 DEF Put, SetDefault
  <2> QED
    BY <1>1, <1>2, <2>1, BeginMaps DEF Ops
<1>5. ASSUME NEW k \in Usable, NEW j \in Usable, NEW v \in Mapped, Compare(k, j) \/ Update(k, j, v)
      PROVE  Orderly' /\ MapSteps
  <2>1. /\ ~Weak
        /\ Push(Operation("get", k, None, <<j>>)) \/ Push(Operation("put", k, v, <<j>>))
    BY <1>5 DEF Compare, Update
  <2>2. <<j>> \in Seq(Keys)
    BY <1>1
  <2> QED
    BY <1>1, <2>1, <2>2, StrongNone, BeginMaps DEF Ops
<1>6. ASSUME NEW k \in Usable, NEW operator \in {"and", "minus", "or", "xor"}, NEW method \in BOOLEAN,
             Assign(operator, k, method)
      PROVE  Orderly' /\ MapSteps
  BY <1>1, <1>6, AssignMaps
<1>7. ASSUME \/ IteratorNext
             \/ \E reverse \in BOOLEAN : NewIterator(reverse)
      PROVE  Orderly' /\ MapSteps
  BY <1>7, QuietMaps DEF IteratorNext, NewIterator
<1>8. TypeOK'
  BY DEF IInv
<1> QED
  BY <1>3, <1>4, <1>5, <1>6, <1>7, <1>8, PopMaps, ClearMaps, CollectMaps DEF Code

LEMMA StepMaps ==
  ASSUME IInv, IInv', Orderly, [Next]_vars, "put" \notin Exposed, "prune" \notin Exposed
  PROVE  Orderly' /\ MapSteps
<1>1. CASE Raise
  <2>1. stack # <<>> /\ stack' = Below /\ UNCHANGED table /\ UNCHANGED event /\ kind' = kind
    BY <1>1 DEF Raise, UnchangedTable
  <2>2. ValuesFit'
    BY <2>1 DEF Orderly, ValuesFit, Live, Mappable
  <2>3. PICK f \in Frame : TRUE
    BY <2>1, TopSound
  <2> QED
    BY <2>1, <2>2, <2>3, OrderlyBelow, Stutters
<1>2. CASE UNCHANGED vars
  BY <1>2, QuietMaps DEF vars
<1>3. TypeOK'
  BY DEF IInv
<1> QED
  BY <1>1, <1>2, <1>3, LookupMaps, AllocatedMaps, AssignedMaps, CodeMaps DEF Next

LEMMA InitMaps ==
  ASSUME Init
  PROVE  Orderly /\ Map!Init
<1>1. Live = {} /\ stack = <<>> /\ event = <<"new">>
  BY DEF Init, Live
<1>2. Orderly
  BY <1>1, EmptySeq DEF Orderly, ValuesFit
<1>3. Lists(<<>>)
  <2>1. Cardinality({}) = 0
    BY FS_EmptySet
  <2> QED
    BY <1>1, <2>1 DEF Lists
<1>4. Content = <<>>
  <2>1. TypeOK
    BY InitKeeps DEF IInv
  <2> QED
    BY <1>3, <2>1, ListsContent DEF ListsOnlyContent
<1> QED
  BY <1>1, <1>2, <1>4 DEF Map!Init

(* Every operation takes effect at once on an ordered map with unequal keys,  *)
(* although it searches in several steps between which the code of keys runs  *)
(* and changes the container, and although a weak container loses entries:    *)
(* what a lookup answers, what a removal removes and what a store stores is   *)
(* so in the map at the step that ends the operation.  "prune" has to be      *)
(* closed beside the two others: a weak dictionary replaces a value by the    *)
(* place the entry had before the allocation.                                 *)
THEOREM ContainersAreMaps ==
  {"clear", "put", "prune"} \cap Exposed = {} => (Spec => ImplementsMap)
<1> SUFFICES ASSUME "clear" \notin Exposed, "put" \notin Exposed, "prune" \notin Exposed
             PROVE  Spec => ImplementsMap
  OBVIOUS
<1>1. Init => IInv /\ Orderly /\ Map!Init
  BY InitKeeps, InitMaps
<1>2. IInv /\ Orderly /\ [Next]_vars => IInv' /\ Orderly' /\ [Map!Next]_(Map!vars)
  BY StepKeeps, StepMaps DEF MapSteps
<1> QED
  BY <1>1, <1>2, PTL DEF Spec, ImplementsMap, Map!Spec
==============================================================================
