--------------------------- MODULE ClassHierarchy ----------------------------
(***************************************************************************)
(* Classes of the runtime context (crates/rimera-runtime/src/context.rs):  *)
(* creation, the method resolution order, inherited slots, and assignment  *)
(* of __bases__, which replans every descendant before it commits.         *)
(*                                                                         *)
(* Creating a class computes its order first and allocates it afterwards.  *)
(* The allocation may collect, and a collection runs Python: other classes *)
(* are made and __bases__ assigned in between.  Assigning __bases__        *)
(* allocates nothing and is one step.                                      *)
(*                                                                         *)
(* Metaclasses, the layouts of builtin bases and the dictionary and weak   *)
(* reference flags only refuse more classes; they are left out.            *)
(***************************************************************************)
EXTENDS Integers, Sequences, FiniteSets, SequencesExt

CONSTANTS
  Start,       \* the bases of the classes a program makes first, in order
  MaxClasses,  \* bound on the classes a program makes
  MaxBases,    \* bound on the bases of one class
  Slots,       \* names a class may put in __slots__
  MaxDepth,    \* bound on nested class creations
  MaxAssignments, \* bound on assignments to __bases__
  Reentrant,   \* may Python run while a class is allocated?
  SlotReuse    \* may a class get a heap slot below that of an older class?

ConstantsAssumption ==
  /\ MaxClasses \in Nat
  /\ MaxBases \in Nat \ {0}
  /\ MaxDepth \in Nat \ {0}
  /\ MaxAssignments \in Nat
  /\ Reentrant \in BOOLEAN
  /\ SlotReuse \in BOOLEAN

(* A class is named by the heap slot it occupies; `object` comes first. *)
Object == 0
User == 1 .. MaxClasses
Class == {Object} \cup User

StartAssumption ==
  /\ Len(Start) <= MaxClasses
  /\ \A c \in 1 .. Len(Start) :
       /\ Start[c] # <<>> /\ IsInjective(Start[c])
       /\ Range(Start[c]) \subseteq 0 .. c - 1

HierarchyAssumption == ConstantsAssumption /\ StartAssumption

(* In place of an order that does not exist. *)
Conflict == -1

(* A class whose creation has not reached its allocation. *)
Draft == [bases : Seq(Class), tail : Seq(Class), own : Seq(Slots),
          inherited : Seq(Slots)]

VARIABLES
  bases,      \* TypeObject::bases, <<>> for a class not made yet
  mro,        \* TypeObject::mro
  own,        \* the slots the class declares itself, in order
  slots,      \* TypeObject::slot_names
  making,     \* class creations in progress, innermost last
  assigned,   \* history: how many assignments were made
  repeated,   \* history: an assignment planned some class twice
  overtaken   \* history: an assignment was made while a class was allocated

vars == <<bases, mro, own, slots, making, assigned, repeated, overtaken>>

-----------------------------------------------------------------------------
(* Linearization *)

(* Is c in the tail of one of these sequences? *)
InTail(c, seqs) ==
  \E k \in 1 .. Len(seqs) : \E j \in 2 .. Len(seqs[k]) : seqs[k][j] = c

Without(c, s) == IF Head(s) = c THEN Tail(s) ELSE s

(* Mutant: only the head of the first sequence is tried. *)
CandidatesFirst(open) ==
  SelectSeq(<<open[1]>>, LAMBDA s : ~InTail(Head(s), open))

(* The sequences whose head may come next. *)
Candidates(open) == SelectSeq(open, LAMBDA s : ~InTail(Head(s), open))

(* The loop of compute_c3_mro: the first head that is in no tail comes next. *)
Merge[seqs \in Seq(Seq(Int))] ==
  LET open == SelectSeq(seqs, LAMBDA s : s # <<>>) IN
  IF open = <<>> THEN <<>>
  ELSE IF Candidates(open) = <<>> THEN <<Conflict>>
  ELSE LET c == Head(Candidates(open)[1]) IN
       <<c>> \o Merge[[k \in 1 .. Len(open) |-> Without(c, open[k])]]

(* The orders of the bases and the bases themselves, merged. *)
C3(bs, order) == Merge[[k \in 1 .. Len(bs) |-> order[bs[k]]] \o <<bs>>]

Exists(order) == Conflict \notin Range(order)

-----------------------------------------------------------------------------
(* Class creation: new_class_with_metaclass *)

Born == {c \in Class : mro[c] # <<>>}

(* Legal lists of bases: no base is named twice.  `object` is listed alone,  *)
(* as for a class that names no base.                                      *)
BaseLists ==
  {<<Object>>} \cup
  {bs \in SeqOf(Born \ {Object}, MaxBases) : bs # <<>> /\ IsInjective(bs)}

(* The slots of the bases, each name once, in the order of the bases. *)
MergedSlots(bs) ==
  FoldLeft(LAMBDA names, b :
             names \o SelectSeq(slots[b], LAMBDA s : s \notin Range(names)),
           <<>>, bs)

(* Python code runs: outside a class creation, or in a collection that the  *)
(* allocation of a class caused.                                           *)
PythonRuns == making # <<>> => Reentrant

(* Up to the allocation of the class: the bases are checked, the order and  *)
(* the slots computed.  An error changes nothing.                          *)
NewClass(bs, names) ==
  LET tail == C3(bs, mro) IN
  /\ PythonRuns
  /\ Len(making) < MaxDepth
  /\ Exists(tail)
  /\ Range(names) \cap Range(MergedSlots(bs)) = {}
  /\ making' = Append(making, [bases |-> bs, tail |-> tail, own |-> names,
                               inherited |-> MergedSlots(bs)])
  /\ UNCHANGED <<bases, mro, own, slots, assigned, repeated, overtaken>>

(* The class is stored in a free heap slot. *)
ClassAllocated(c) ==
  LET draft == Last(making) IN
  /\ making # <<>>
  /\ c \notin Born
  /\ SlotReuse \/ 1 .. c - 1 \subseteq Born
  /\ bases' = [bases EXCEPT ![c] = draft.bases]
  /\ mro' = [mro EXCEPT ![c] = <<c>> \o draft.tail]
  /\ own' = [own EXCEPT ![c] = draft.own]
  /\ slots' = [slots EXCEPT ![c] = draft.inherited \o draft.own]
  /\ making' = Front(making)
  /\ UNCHANGED <<assigned, repeated, overtaken>>

(* The heap limit refuses the class. *)
ClassRefused ==
  /\ making # <<>>
  /\ making' = Front(making)
  /\ UNCHANGED <<bases, mro, own, slots, assigned, repeated, overtaken>>

-----------------------------------------------------------------------------
(* Assignment of __bases__: set_class_bases *)

(* The direct subclasses of p, in the order of live_values. *)
Children(p) == SetToSortSeq({c \in User : p \in Range(bases[c])}, <)

(* collect_descendants: depth first, a class once for every path to it. *)
Descendants(c) ==
  LET Below[p \in Class] ==
        FlattenSeq([k \in 1 .. Len(Children(p)) |->
                      <<Children(p)[k]>> \o Below[Children(p)[k]]]) IN
  Below[c]

(* Mutant: a descendant is planned from the orders now in force. *)
OrderInForce(plan, b) == mro[b]

(* The order of b that a plan goes by: its first plan, or the one in force. *)
Planned(plan, b) ==
  LET of_b == SelectSeq(plan, LAMBDA p : p.class = b) IN
  IF of_b = <<>> THEN mro[b] ELSE of_b[1].mro

(* Plan one more descendant: compute_c3_mro_planned. *)
PlanNext(plan, d) ==
  LET order == [b \in Range(bases[d]) |-> Planned(plan, b)] IN
  Append(plan, [class |-> d, mro |-> <<d>> \o C3(bases[d], order)])

(* The plan of an assignment: the class, then its descendants. *)
Plan(c, bs) ==
  FoldLeft(PlanNext, <<[class |-> c, mro |-> <<c>> \o C3(bs, mro)]>>, Descendants(c))

(* May the bases of c be bs, before any order is planned?  No builtin base, *)
(* no cycle, and the same slots as before.                                 *)
Eligible(c, bs) ==
  /\ \A k \in 1 .. Len(bs) : bs[k] # Object /\ c \notin Range(mro[bs[k]])
  /\ MergedSlots(bs) = slots[c]

(* Every order of the plan exists: `?` after each computation. *)
Accepted(plan) == \A k \in 1 .. Len(plan) : Exists(plan[k].mro)

(* c.__bases__ = bs.  The plans are committed in order, so that the last    *)
(* one of a class stays.                                                   *)
SetBases(c, bs) ==
  LET plan == Plan(c, bs) IN
  /\ PythonRuns
  /\ assigned < MaxAssignments
  /\ Eligible(c, bs)
  /\ Accepted(plan)
  /\ bases' = [bases EXCEPT ![c] = bs]
  /\ mro' = FoldLeft(LAMBDA m, p : [m EXCEPT ![p.class] = p.mro], mro, plan)
  /\ assigned' = assigned + 1
  /\ repeated' = (repeated \/ ~IsInjective(Descendants(c)))
  /\ overtaken' = (overtaken \/ making # <<>>)
  /\ UNCHANGED <<own, slots, making>>

-----------------------------------------------------------------------------

(* The orders of the classes made first. *)
StartMro[c \in Class] ==
  IF c = Object THEN <<Object>>
  ELSE IF c > Len(Start) THEN <<>>
  ELSE <<c>> \o C3(Start[c], [b \in 0 .. c - 1 |-> StartMro[b]])

Init ==
  /\ bases = [c \in Class |-> IF c \in 1 .. Len(Start) THEN Start[c] ELSE <<>>]
  /\ mro = StartMro
  /\ own = [c \in Class |-> <<>>]
  /\ slots = [c \in Class |-> <<>>]
  /\ making = <<>>
  /\ assigned = 0
  /\ repeated = FALSE
  /\ overtaken = FALSE

(* A class declares at most one slot of its own. *)
Next ==
  \/ \E bs \in BaseLists, names \in SeqOf(Slots, 1) : NewClass(bs, names)
  \/ \E c \in User : ClassAllocated(c)
  \/ ClassRefused
  \/ \E c \in Born \ {Object}, bs \in BaseLists : SetBases(c, bs)

Spec == Init /\ [][Next]_vars

-----------------------------------------------------------------------------
(* Properties *)

(* Type invariant. *)
TypeOK ==
  /\ bases \in [Class -> Seq(Class)]
  /\ mro \in [Class -> Seq(Class)]
  /\ own \in [Class -> Seq(Slots)]
  /\ slots \in [Class -> Seq(Slots)]
  /\ making \in Seq(Draft)
  /\ assigned \in 0 .. MaxAssignments
  /\ repeated \in BOOLEAN
  /\ overtaken \in BOOLEAN

(* The order of every class is the C3 linearization of its bases, in their  *)
(* present orders: set_class_bases plans the target and every descendant.  *)
MroIsC3 ==
  \A c \in Born \ {Object} : mro[c] = <<c>> \o C3(bases[c], mro)

(* The same, as long as no assignment planned a class twice or overtook a   *)
(* class being made.                                                       *)
MroIsC3Undisturbed == repeated \/ overtaken \/ MroIsC3

Position(c, s) == CHOOSE k \in 1 .. Len(s) : s[k] = c

(* s is what is left of t without some of its members. *)
Keeps(t, s) ==
  /\ Range(s) \subseteq Range(t)
  /\ \A j, k \in 1 .. Len(s) : j < k => Position(s[j], t) < Position(s[k], t)

(* Do these sequences agree on some order of their members? *)
Agree(seqs) ==
  LET members == UNION {Range(seqs[k]) : k \in 1 .. Len(seqs)}
      Before(S, c) == \A k \in 1 .. Len(seqs) :
        \A i, j \in 1 .. Len(seqs[k]) : i < j /\ seqs[k][j] = c => seqs[k][i] \notin S IN
  \A S \in SUBSET members : S # {} => \E c \in S : Before(S, c)

(* A list of bases is refused only when no order of the classes agrees with *)
(* all of the orders it brings together.  (Stated outside class creations:  *)
(* a class not yet allocated is in no list, and refusing it leads back to  *)
(* the same classes.)                                                      *)
RefusedOnlyOnConflict ==
  making = <<>> => \A bs \in BaseLists :
    ~Exists(C3(bs, mro)) => ~Agree([k \in 1 .. Len(bs) |-> mro[bs[k]]] \o <<bs>>)

(* The descriptor that an attribute lookup finds for a slot: the class that *)
(* declared it, first in the order; it holds the index there.              *)
Declarer(c, s) ==
  mro[c][CHOOSE k \in 1 .. Len(mro[c]) :
           /\ s \in Range(own[mro[c][k]])
           /\ \A j \in 1 .. k - 1 : s \notin Range(own[mro[c][j]])]

(* Two slots of an instance have two places: the descriptor of a slot       *)
(* addresses the storage of that slot in the instances of every subclass.  *)
SlotsAddressed ==
  \A c \in Born : \A s \in Range(slots[c]) :
    LET declarer == Declarer(c, s) IN
    slots[c][Position(s, slots[declarer])] = s
=============================================================================
