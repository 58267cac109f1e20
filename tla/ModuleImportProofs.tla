-------------------------- MODULE ModuleImportProofs --------------------------
(***************************************************************************)
(* Proofs about ModuleImport, for any registry of modules, any statements   *)
(* and any number of module objects, statements, refusals and hooks.  The    *)
(* invariant speaks of a set S of sound modules: the module objects that a   *)
(* refused import left behind are outside of it, and nothing refers to them. *)
(* What keeps one object per load is that an entry of sys.modules that       *)
(* neither the program nor a hook in the middle of an import touched is the  *)
(* only sound object of that name that has not failed; what keeps failures   *)
(* unpublished is that a module is imported inside the import of its parent  *)
(* or after it, so the child fails first.                                   *)
(***************************************************************************)
EXTENDS ModuleImport, FiniteSetTheorems, SequenceTheorems, TLAPS

-----------------------------------------------------------------------------
(* Types *)

Reference == Int \ {Missing}
Namespace == UNION {[D -> Reference] : D \in SUBSET STRING}
ModuleState == {"ready", "initializing", "failed"}
ModuleObject == [name : Dotted, state : ModuleState, package : BOOLEAN, attributes : Namespace]

(* The names that an import may begin with. *)
Named == Dotted \ {<<"__main__">>}

AnyStatement == [form : Form \cup {"item", "listed"}, name : Dotted, item : STRING]
InImport == [at : {"importing"}, statement : AnyStatement, todo : Seq(Dotted),
             given : Kind \cup {"registered"}, value : Int,
             leaf : Int, unread : Seq(STRING), package : Int]
InCreation == [at : {"creating"}, name : Named, definition : Kind]
InPublication == [at : {"publishing"}, into : Int, value : Int,
                  stage : {"body", "bare", "done"}, grows : BOOLEAN]
Reloading == [at |-> "reloading"]
Doing == {Idle, Raised, Reloading} \cup InImport \cup InCreation \cup InPublication
BodyRecord == [module : Nat, for : {"main", "import", "reload", "hook"}, doing : Doing]

TypeOK ==
  /\ modules \in Seq(ModuleObject)
  /\ bodies \in Seq(BodyRecord)
  /\ namespaces \in Seq(Nat)
  /\ DOMAIN cache \subseteq Dotted

Name(v) == modules[v].name
State(v) == modules[v].state

-----------------------------------------------------------------------------
(* Dotted names and namespaces *)

LEMMA Dots ==
  ASSUME NEW n \in Dotted
  PROVE  /\ Len(n) \in Nat /\ Len(n) >= 1
         /\ Last(n) \in STRING /\ Head(n) \in STRING /\ <<Head(n)>> \in Dotted
         /\ Tail(n) \in Seq(STRING) /\ Len(Tail(n)) = Len(n) - 1
         /\ IsChild(n) => Parent(n) \in Dotted /\ Len(Parent(n)) = Len(n) - 1 /\ Parent(n) # n
<1>1. n \in Seq(STRING) /\ n # <<>> /\ Len(n) \in Nat /\ Len(n) >= 1
  BY EmptySeq DEF Dotted
<1>2. /\ Last(n) \in STRING /\ Head(n) \in STRING
      /\ Tail(n) \in Seq(STRING) /\ Len(Tail(n)) = Len(n) - 1
  BY <1>1, HeadTailProperties DEF Last
<1>3. <<Head(n)>> \in Dotted
  BY <1>2 DEF Dotted
<1>4. ASSUME IsChild(n)
      PROVE  Parent(n) \in Dotted /\ Len(Parent(n)) = Len(n) - 1 /\ Parent(n) # n
  <2>1. Parent(n) \in Seq(STRING) /\ Len(Parent(n)) = Len(n) - 1
    BY <1>1, <1>4 DEF Parent, Front, IsChild
  <2>2. Parent(n) # <<>> /\ Parent(n) # n
    BY <1>1, <1>4, <2>1 DEF IsChild
  <2> QED
    BY <2>1, <2>2 DEF Dotted
<1> QED
  BY <1>1, <1>2, <1>3, <1>4

LEMMA SameDots ==
  ASSUME NEW m \in Dotted, NEW n \in Dotted, IsChild(m), IsChild(n),
         Parent(m) = Parent(n), Last(m) = Last(n)
  PROVE  m = n
<1>1. m \in Seq(STRING) /\ n \in Seq(STRING) /\ Len(m) \in Nat /\ Len(n) \in Nat
      /\ Len(m) > 1 /\ Len(n) > 1
  BY DEF Dotted, IsChild
<1>2. Len(m) = Len(n)
  <2>1. Len(Parent(m)) = Len(m) - 1
    BY Dots
  <2>2. Len(Parent(n)) = Len(n) - 1
    BY Dots
  <2> QED
    BY <1>1, <2>1, <2>2
<1>3. \A i \in 1 .. Len(m) - 1 : Parent(m)[i] = m[i] /\ Parent(n)[i] = n[i]
  BY <1>1, <1>2 DEF Parent, Front
<1>4. m[Len(m)] = n[Len(n)]
  BY DEF Last
<1>5. \A i \in 1 .. Len(m) : m[i] = n[i]
  BY <1>1, <1>2, <1>3, <1>4
<1> QED
  BY <1>1, <1>2, <1>5, SeqEqual

LEMMA Rejoined ==
  ASSUME NEW n \in Dotted, IsChild(n)
  PROVE  Append(Parent(n), Last(n)) = n
<1>1. n \in Seq(STRING) /\ Len(n) \in Nat /\ Len(n) > 1
  BY DEF Dotted, IsChild
<1> QED
  BY <1>1 DEF Parent, Front, Last

LEMMA Extended ==
  ASSUME NEW n \in Dotted, NEW c \in STRING, NEW m \in Dotted, IsChild(m), Parent(m) = n, Last(m) = c
  PROVE  m = Append(n, c)
  BY Rejoined

LEMMA Namespaces ==
  ASSUME NEW f \in Namespace
  PROVE  /\ DOMAIN f \subseteq STRING
         /\ \A k \in DOMAIN f : f[k] \in Reference
         /\ \A k \in STRING, v \in Reference : With(f, k, v) \in Namespace
         /\ \A k \in STRING : Without(f, k) \in Namespace
         /\ \A g \in Namespace : Overlaid(f, g) \in Namespace
<1>1. \A g \in Namespace : DOMAIN g \in SUBSET STRING /\ g \in [DOMAIN g -> Reference]
  BY DEF Namespace
<1>2. ASSUME NEW D \in SUBSET STRING, NEW g \in [D -> Reference] PROVE g \in Namespace
  BY DEF Namespace
<1>3. ASSUME NEW k \in STRING, NEW v \in Reference PROVE With(f, k, v) \in Namespace
  <2>1. With(f, k, v) \in [DOMAIN f \cup {k} -> Reference]
    BY <1>1 DEF With
  <2> QED
    BY <1>1, <1>2, <2>1
<1>4. ASSUME NEW k \in STRING PROVE Without(f, k) \in Namespace
  <2>1. Without(f, k) \in [DOMAIN f \ {k} -> Reference]
    BY <1>1 DEF Without, Restrict
  <2> QED
    BY <1>1, <1>2, <2>1
<1>5. ASSUME NEW g \in Namespace PROVE Overlaid(f, g) \in Namespace
  <2>1. Overlaid(f, g) \in [DOMAIN f \cup DOMAIN g -> Reference]
    BY <1>1 DEF Overlaid
  <2> QED
    BY <1>1, <1>2, <2>1
<1> QED
  BY <1>1, <1>3, <1>4, <1>5

LEMMA EmptyNamespace == Nothing \in Namespace /\ DOMAIN Nothing = {}
<1>1. Nothing \in [{} -> Reference]
  BY DEF Nothing, None
<1> QED
  BY <1>1 DEF Namespace

LEMMA PrefixNames ==
  ASSUME NEW n \in Dotted
  PROVE  /\ PrefixesOf(n) \in Seq(Dotted) /\ Len(PrefixesOf(n)) = Len(n)
         /\ \A i \in 1 .. Len(n) : PrefixesOf(n)[i] = SubSeq(n, 1, i) /\ SubSeq(n, 1, i) \in Dotted
<1>1. n \in Seq(STRING) /\ Len(n) \in Nat /\ Len(n) >= 1
  BY Dots DEF Dotted
<1>2. \A i \in 1 .. Len(n) : SubSeq(n, 1, i) \in Seq(STRING) /\ Len(SubSeq(n, 1, i)) = i
  BY <1>1
<1>3. \A i \in 1 .. Len(n) : SubSeq(n, 1, i) \in Dotted
  BY <1>2 DEF Dotted
<1> QED
  BY <1>1, <1>3 DEF PrefixesOf

LEMMA WantedNames ==
  ASSUME NEW s, s.name \in Dotted, s.form # "call"
  PROVE  /\ Wanted(s) \in Seq(Dotted) /\ Len(Wanted(s)) = Len(s.name) + 1
         /\ \A i \in 1 .. Len(s.name) : Wanted(s)[i] = SubSeq(s.name, 1, i)
         /\ Wanted(s)[Len(s.name) + 1] = SubSeq(s.name, 1, 1)
         /\ SubSeq(s.name, 1, 1) = <<Head(s.name)>>
<1> DEFINE n == s.name
<1>1. n \in Seq(STRING) /\ Len(n) \in Nat /\ Len(n) >= 1 /\ <<Head(n)>> \in Dotted
  BY Dots DEF Dotted
<1>4. /\ PrefixesOf(n) \in Seq(Dotted) /\ Len(PrefixesOf(n)) = Len(n)
      /\ \A i \in 1 .. Len(n) : PrefixesOf(n)[i] = SubSeq(n, 1, i)
  BY PrefixNames
<1>5. Wanted(s) = Append(PrefixesOf(n), <<Head(n)>>)
  BY DEF Wanted
<1>6. SubSeq(n, 1, 1) = <<Head(n)>>
  <2> DEFINE s1 == SubSeq(n, 1, 1)
             s2 == <<Head(n)>>
  <2>1. s1 \in Seq(STRING) /\ Len(s1) = 1 /\ s1[1] = n[1]
    BY <1>1
  <2>2. s2 \in Seq(STRING) /\ Len(s2) = 1 /\ s2[1] = n[1]
    BY <1>1 DEF Dotted
  <2> HIDE DEF s1, s2
  <2>3. s1 = s2
    BY <2>1, <2>2, SeqEqual
  <2> QED
    BY <2>3 DEF s1, s2
<1> QED
  BY <1>1, <1>4, <1>5, <1>6

LEMMA TailOfSubSeq ==
  ASSUME NEW S, NEW s \in Seq(S), NEW i \in 1 .. Len(s)
  PROVE  Tail(SubSeq(s, i, Len(s))) = SubSeq(s, i + 1, Len(s))
<1>1. Len(s) \in i .. Len(s)
  OBVIOUS
<1> QED
  BY <1>1, HeadTailOfSubSeq

LEMMA PrefixOfPrefix ==
  ASSUME NEW S, NEW s \in Seq(S), NEW j \in 1 .. Len(s), NEW i \in 1 .. j
  PROVE  SubSeq(SubSeq(s, 1, j), 1, i) = SubSeq(s, 1, i)
<1> DEFINE p == SubSeq(s, 1, j)
           t == SubSeq(s, 1, i)
           u == SubSeq(p, 1, i)
<1>1. Len(s) \in Nat /\ j \in Nat /\ i \in Nat /\ i <= j /\ j <= Len(s)
  OBVIOUS
<1>2. p \in Seq(S) /\ Len(p) = j /\ \A k \in 1 .. j : p[k] = s[k]
  BY <1>1
<1>3. t \in Seq(S) /\ Len(t) = i /\ \A k \in 1 .. i : t[k] = s[k]
  BY <1>1
<1> HIDE DEF p, t
<1>4. u \in Seq(S) /\ Len(u) = i /\ \A k \in 1 .. i : u[k] = p[k]
  BY <1>1, <1>2
<1> HIDE DEF u
<1>5. t = u
  BY <1>1, <1>2, <1>3, <1>4, SeqEqual
<1> QED
  BY <1>5 DEF p, t, u

LEMMA NextComponent ==
  ASSUME NEW n \in Dotted, NEW unread \in Seq(STRING), unread # <<>>, NEW read \in 1 .. Len(n),
         unread = SubSeq(n, read + 1, Len(n))
  PROVE  /\ read + 1 \in 1 .. Len(n) /\ Len(n) - Len(Tail(unread)) = read + 1
         /\ Head(unread) = n[read + 1] /\ Tail(unread) = SubSeq(n, read + 2, Len(n))
<1>1. n \in Seq(STRING) /\ Len(n) \in Nat /\ read \in Nat /\ read >= 1
  BY Dots DEF Dotted
<1>2. Len(unread) \in Nat /\ Len(unread) >= 1 /\ Len(Tail(unread)) = Len(unread) - 1
  BY HeadTailProperties
<1>3. Len(unread) = Len(n) - read
  BY <1>1, <1>2
<1>4. read + 1 \in 1 .. Len(n) /\ read + 1 + 1 = read + 2 /\ Len(n) - Len(Tail(unread)) = read + 1
  <2>1. PICK l \in Nat : l = Len(n)
    BY <1>1
  <2>2. PICK u \in Nat : u = Len(unread)
    BY <1>2
  <2>3. u >= 1 /\ u = l - read /\ Len(Tail(unread)) = u - 1
    BY <1>2, <1>3, <2>1, <2>2
  <2>4. read + 1 \in 1 .. l /\ read + 1 + 1 = read + 2 /\ l - (u - 1) = read + 1
    BY <1>1, <2>3
  <2> QED
    BY <2>1, <2>3, <2>4
<1>5. Tail(SubSeq(n, read + 1, Len(n))) = SubSeq(n, read + 1 + 1, Len(n))
  BY <1>1, <1>4, TailOfSubSeq
<1>6. unread[1] = n[read + 1]
  BY <1>1, <1>4
<1>7. Head(unread) = unread[1]
  BY <1>2
<1> QED
  BY <1>4, <1>5, <1>6, <1>7

LEMMA PrefixIsChild ==
  ASSUME NEW n \in Dotted, NEW read \in 1 .. Len(n), read + 1 \in 1 .. Len(n)
  PROVE  LET p == SubSeq(n, 1, read + 1) IN
         p \in Dotted /\ IsChild(p) /\ Parent(p) = SubSeq(n, 1, read) /\ Last(p) = n[read + 1]
<1> DEFINE p == SubSeq(n, 1, read + 1)
           q == SubSeq(n, 1, read)
           r == SubSeq(p, 1, read)
<1>1. n \in Seq(STRING) /\ Len(n) \in Nat /\ read \in Nat /\ read >= 1 /\ read \in 1 .. read + 1
  BY Dots DEF Dotted
<1>2. p \in Seq(STRING) /\ Len(p) = read + 1 /\ p[read + 1] = n[read + 1]
  BY <1>1
<1>3. r = q
  BY <1>1, PrefixOfPrefix
<1> HIDE DEF p, q
<1>4. Len(p) - 1 = read /\ Len(p) > 1
  BY <1>1, <1>2
<1>5. p \in Dotted /\ IsChild(p)
  BY <1>2, <1>4 DEF Dotted, IsChild
<1>6. Last(p) = n[read + 1]
  BY <1>2 DEF Last
<1>7. Parent(p) = q
  BY <1>3, <1>4 DEF Parent, Front
<1> QED
  BY <1>5, <1>6, <1>7 DEF p, q

LEMMA FrontOf ==
  ASSUME NEW S, NEW s \in Seq(S), Len(s) > 0
  PROVE  /\ Front(s) \in Seq(S) /\ Len(Front(s)) = Len(s) - 1
         /\ \A k \in 1 .. Len(s) - 1 : Front(s)[k] = s[k]
<1>1. Front(s) = SubSeq(s, 1, Len(s) - 1)
  BY DEF Front
<1>2. Len(s) \in Nat /\ 1 <= Len(s) - 1 + 1 /\ Len(s) - 1 <= Len(s)
  OBVIOUS
<1>3. \A i \in 1 .. Len(s) - 1 : s[i] \in S
  BY <1>2, ElementOfSeq
<1>4. Len(SubSeq(s, 1, Len(s) - 1)) = Len(s) - 1
  BY <1>2
<1>5. SubSeq(s, 1, Len(s) - 1) \in Seq(S)
  BY <1>2, <1>3
<1>6. \A k \in 1 .. Len(s) - 1 : SubSeq(s, 1, Len(s) - 1)[k] = s[k]
  BY <1>2
<1> QED
  BY <1>1, <1>4, <1>5, <1>6

-----------------------------------------------------------------------------
(* The running bodies *)

LEMMA Innermosts ==
  ASSUME NEW calls \in Seq(BodyRecord), Len(calls) > 0, NEW d \in Doing
  PROVE  LET new == Innermost(calls, d) IN
         /\ new \in Seq(BodyRecord) /\ Len(new) = Len(calls)
         /\ \A k \in 1 .. Len(calls) :
              /\ new[k].module = calls[k].module /\ new[k].for = calls[k].for
              /\ new[k].doing = IF k = Len(calls) THEN d ELSE calls[k].doing
<1> DEFINE n == Len(calls)
           b == [calls[n] EXCEPT !.doing = d]
<1>1. n \in Nat /\ n \in 1 .. n
  OBVIOUS
<1>2. calls[n] \in BodyRecord
  BY <1>1, ElementOfSeq
<1>3. b \in BodyRecord /\ b.doing = d /\ b.module = calls[n].module /\ b.for = calls[n].for
  BY <1>2 DEF BodyRecord
<1>4. Innermost(calls, d) = [calls EXCEPT ![n] = b]
  BY DEF Innermost
<1> HIDE DEF n, b
<1> QED
  BY <1>1, <1>3, <1>4, ExceptSeq DEF n

LEMMA ABody ==
  ASSUME NEW calls \in Seq(BodyRecord), NEW k \in 1 .. Len(calls)
  PROVE  calls[k] \in BodyRecord /\ calls[k].doing \in Doing /\ calls[k].module \in Nat
<1>1. calls[k] \in BodyRecord
  BY ElementOfSeq
<1> QED
  BY <1>1 DEF BodyRecord

LEMMA Doings ==
  ASSUME NEW d \in Doing
  PROVE  /\ d.at = "importing" => d \in InImport
         /\ d.at = "creating" => d \in InCreation
         /\ d.at = "publishing" => d \in InPublication
         /\ d.at = "idle" => d = Idle
         /\ d.at = "raised" => d = Raised
  BY DEF Doing, Idle, Raised, Reloading, InImport, InCreation, InPublication

LEMMA Receives ==
  ASSUME NEW d \in Doing, NEW v \in Int, d.at = "importing" => d.todo # <<>>
  PROVE  /\ Received(d, v) \in Doing
         /\ d.at = "importing" =>
              /\ Received(d, v) \in InImport /\ Received(d, v).todo = Tail(d.todo)
              /\ Received(d, v).value = v /\ Received(d, v).leaf = v
              /\ Received(d, v).statement = d.statement /\ Received(d, v).unread = d.unread
              /\ Received(d, v).package = d.package /\ Received(d, v).given = d.given
         /\ d.at # "importing" => Received(d, v) = Idle
<1>1. CASE d.at = "importing"
  <2>1. d \in InImport
    BY <1>1, Doings
  <2>2. Tail(d.todo) \in Seq(Dotted)
    BY <1>1, <2>1 DEF InImport
  <2> QED
    BY <1>1, <2>1, <2>2 DEF Received, InImport, Doing
<1>2. CASE d.at # "importing"
  BY <1>2 DEF Received, Doing
<1> QED
  BY <1>1, <1>2

LEMMA Sizes ==
  ASSUME TypeOK
  PROVE  /\ modules \in Seq(ModuleObject) /\ Len(modules) \in Nat /\ Modules = 1 .. Len(modules)
         /\ Modules \subseteq Int /\ Modules \subseteq Nat /\ Depth \in Nat
         /\ Names \subseteq Named /\ Named \subseteq Dotted
         /\ \A v \in Modules : Name(v) \in Dotted /\ State(v) \in ModuleState
<1>1. modules \in Seq(ModuleObject) /\ Len(modules) \in Nat /\ Depth \in Nat
  BY DEF TypeOK, Depth
<1>2. \A v \in 1 .. Len(modules) : modules[v] \in ModuleObject
  BY <1>1, ElementOfSeq
<1>3. Names \subseteq Named
  BY ConstantsAssumption DEF Named
<1> QED
  BY <1>1, <1>2, <1>3 DEF Modules, Name, State, ModuleObject, Named

-----------------------------------------------------------------------------
(* The module objects *)

(* Attribute, of any sequence of module objects. *)
At(ms, v, c) == IF c \in DOMAIN ms[v].attributes THEN ms[v].attributes[c] ELSE Missing

Put(ms, w, A) == [ms EXCEPT ![w].attributes = A]

SameObjects(ms, new) ==
  /\ new \in Seq(ModuleObject) /\ Len(new) = Len(ms)
  /\ \A u \in 1 .. Len(ms) : new[u].name = ms[u].name

LEMMA AttributeAt ==
  /\ \A v \in Modules : \A c : Attribute(v, c) = At(modules, v, c)
  /\ \A v, c : v \notin Modules => Attribute(v, c) = Missing
  BY DEF Attribute, At, IsModule

LEMMA Assigns ==
  ASSUME NEW ms \in Seq(ModuleObject), NEW w \in 1 .. Len(ms), NEW A \in Namespace
  PROVE  LET new == Put(ms, w, A) IN
         /\ SameObjects(ms, new)
         /\ \A u \in 1 .. Len(ms) :
              /\ new[u].state = ms[u].state
              /\ new[u].attributes = IF u = w THEN A ELSE ms[u].attributes
<1> DEFINE m == [ms[w] EXCEPT !.attributes = A]
<1>1. ms[w] \in ModuleObject
  BY ElementOfSeq
<1>2. m \in ModuleObject /\ m.name = ms[w].name /\ m.state = ms[w].state /\ m.attributes = A
  BY <1>1 DEF ModuleObject
<1>3. Put(ms, w, A) = [ms EXCEPT ![w] = m]
  BY DEF Put
<1> HIDE DEF m
<1> QED
  BY <1>2, <1>3, ExceptSeq DEF SameObjects

LEMMA MovesOn ==
  ASSUME NEW ms \in Seq(ModuleObject), NEW w \in 1 .. Len(ms), NEW s \in ModuleState
  PROVE  LET new == Moved(ms, w, s) IN
         /\ SameObjects(ms, new)
         /\ \A u \in 1 .. Len(ms) :
              /\ new[u].state = IF u = w THEN s ELSE ms[u].state
              /\ new[u].attributes = ms[u].attributes
<1> DEFINE m == [ms[w] EXCEPT !.state = s]
<1>1. ms[w] \in ModuleObject
  BY ElementOfSeq
<1>2. m \in ModuleObject /\ m.name = ms[w].name /\ m.attributes = ms[w].attributes /\ m.state = s
  BY <1>1 DEF ModuleObject
<1>3. Moved(ms, w, s) = [ms EXCEPT ![w] = m]
  BY DEF Moved
<1> HIDE DEF m
<1> QED
  BY <1>2, <1>3, ExceptSeq DEF SameObjects

LEMMA SetsAttribute ==
  ASSUME NEW ms \in Seq(ModuleObject), NEW w \in 1 .. Len(ms), NEW c \in STRING, NEW v \in Reference
  PROVE  LET new == SetAttribute(ms, w, c, v) IN
         /\ SameObjects(ms, new)
         /\ \A u \in 1 .. Len(ms) :
              /\ new[u].state = ms[u].state
              /\ \A d \in STRING : At(new, u, d) = IF u = w /\ d = c THEN v ELSE At(ms, u, d)
<1> DEFINE A == With(ms[w].attributes, c, v)
<1>1. ms[w].attributes \in Namespace
  <2>1. ms[w] \in ModuleObject
    BY ElementOfSeq
  <2> QED
    BY <2>1 DEF ModuleObject
<1>2. A \in Namespace
  BY <1>1, Namespaces
<1>3. SetAttribute(ms, w, c, v) = Put(ms, w, A)
  BY DEF SetAttribute, Put
<1>4. \A d \in STRING : /\ d \in DOMAIN A <=> d \in DOMAIN ms[w].attributes \/ d = c
                        /\ d = c => A[d] = v
                        /\ d # c /\ d \in DOMAIN A => A[d] = ms[w].attributes[d]
  BY DEF With
<1> HIDE DEF A
<1> DEFINE new == Put(ms, w, A)
<1>5. /\ SameObjects(ms, new)
      /\ \A u \in 1 .. Len(ms) :
           /\ new[u].state = ms[u].state
           /\ new[u].attributes = IF u = w THEN A ELSE ms[u].attributes
  BY <1>2, Assigns
<1>6. new = SetAttribute(ms, w, c, v)
  BY <1>3
<1> HIDE DEF new
<1>7. ASSUME NEW u \in 1 .. Len(ms), NEW d \in STRING
      PROVE  At(new, u, d) = IF u = w /\ d = c THEN v ELSE At(ms, u, d)
  BY <1>4, <1>5 DEF At
<1> QED
  BY <1>5, <1>6, <1>7

Published(ms, new, into, n, v) ==
  /\ SameObjects(ms, new)
  /\ \A u \in 1 .. Len(ms) :
       /\ new[u].state = ms[u].state
       /\ \A d \in STRING :
            At(new, u, d) = IF IsChild(n) /\ u = into /\ d = Last(n) THEN v ELSE At(ms, u, d)

LEMMA PublishesAttribute ==
  ASSUME NEW ms \in Seq(ModuleObject), NEW into, NEW n \in Dotted, NEW v \in Reference,
         IsChild(n) => into \in 1 .. Len(ms)
  PROVE  Published(ms, Publish(ms, into, n, v), into, n, v)
<1>1. CASE IsChild(n)
  <2>1. PICK w \in 1 .. Len(ms) : w = into
    BY <1>1
  <2>2. PICK c \in STRING : c = Last(n)
    BY Dots
  <2>3. Publish(ms, into, n, v) = SetAttribute(ms, w, c, v)
    BY <1>1, <2>1, <2>2 DEF Publish
  <2> QED
    BY <1>1, <2>1, <2>2, <2>3, SetsAttribute DEF Published
<1>2. CASE ~IsChild(n)
  BY <1>2 DEF Publish, SameObjects, Published
<1> QED
  BY <1>1, <1>2

Unpublished(ms, new, ch, n, v) ==
  /\ SameObjects(ms, new)
  /\ \A u \in 1 .. Len(ms) :
       /\ new[u].state = ms[u].state
       /\ \A d \in STRING :
            At(new, u, d) = IF /\ IsChild(n) /\ Parent(n) \in DOMAIN ch /\ u = ch[Parent(n)]
                               /\ d = Last(n) /\ At(ms, u, d) = v
                            THEN Missing ELSE At(ms, u, d)

LEMMA RemovesFromParent ==
  ASSUME NEW ms \in Seq(ModuleObject), NEW ch, NEW n \in Dotted, NEW v,
         Len(ms) = Len(modules), \A u \in Modules : ms[u].attributes = modules[u].attributes
  PROVE  Unpublished(ms, RemoveFromParent(ms, ch, n, v), ch, n, v)
<1>1. CASE IsChild(n) /\ Parent(n) \in DOMAIN ch /\ ch[Parent(n)] \in Modules
           /\ Attribute(ch[Parent(n)], Last(n)) = v
  <2>1. PICK w \in Modules : w = ch[Parent(n)]
    BY <1>1
  <2>2. PICK c \in STRING : c = Last(n)
    BY Dots
  <2> DEFINE A == Without(ms[w].attributes, c)
  <2>3. w \in 1 .. Len(ms)
    BY DEF Modules
  <2>4. ms[w].attributes \in Namespace
    <3>1. ms[w] \in ModuleObject
      BY <2>3, ElementOfSeq
    <3> QED
      BY <3>1 DEF ModuleObject
  <2>5. A \in Namespace
    BY <2>4, Namespaces
  <2>6. RemoveFromParent(ms, ch, n, v) = Put(ms, w, A)
    BY <1>1, <2>1, <2>2 DEF RemoveFromParent, IsModule, Put
  <2>7. \A d \in STRING : /\ d \in DOMAIN A <=> d \in DOMAIN ms[w].attributes /\ d # c
                          /\ d \in DOMAIN A => A[d] = ms[w].attributes[d]
    BY DEF Without, Restrict
  <2>8. At(ms, w, c) = v
    BY <1>1, <2>1, <2>2, AttributeAt DEF At
  <2> HIDE DEF A
  <2>9. LET new == Put(ms, w, A) IN
        /\ SameObjects(ms, new)
        /\ \A u \in 1 .. Len(ms) :
             /\ new[u].state = ms[u].state
             /\ new[u].attributes = IF u = w THEN A ELSE ms[u].attributes
    BY <2>3, <2>5, Assigns
  <2> QED
    BY <1>1, <2>1, <2>2, <2>6, <2>7, <2>8, <2>9 DEF At, Unpublished
<1>2. CASE ~(IsChild(n) /\ Parent(n) \in DOMAIN ch /\ ch[Parent(n)] \in Modules
             /\ Attribute(ch[Parent(n)], Last(n)) = v)
  <2>1. RemoveFromParent(ms, ch, n, v) = ms
    BY <1>2 DEF RemoveFromParent, IsModule
  <2>2. ASSUME NEW u \in 1 .. Len(ms), NEW d \in STRING, IsChild(n), Parent(n) \in DOMAIN ch,
               u = ch[Parent(n)], d = Last(n), At(ms, u, d) = v
        PROVE  FALSE
    <3>1. u \in Modules
      BY <2>2 DEF Modules
    <3>2. Attribute(u, d) = v
      BY <2>2, <3>1, AttributeAt DEF At
    <3> QED
      BY <1>2, <2>2, <3>1, <3>2
  <2> QED
    BY <2>1, <2>2 DEF SameObjects, Unpublished
<1> QED
  BY <1>1, <1>2

LEMMA AddsModule ==
  ASSUME NEW ms \in Seq(ModuleObject), NEW n \in Dotted, NEW s \in ModuleState, NEW definition
  PROVE  LET new == Append(ms, NewModule(n, s, definition)) IN
         /\ new \in Seq(ModuleObject) /\ Len(new) = Len(ms) + 1
         /\ new[Len(ms) + 1].name = n /\ new[Len(ms) + 1].state = s
         /\ \A d : At(new, Len(ms) + 1, d) = Missing
         /\ \A u \in 1 .. Len(ms) : new[u] = ms[u]
<1> DEFINE m == NewModule(n, s, definition)
<1>1. m \in ModuleObject /\ m.name = n /\ m.state = s /\ m.attributes = Nothing
  <2>1. (definition \in {"package", "namespace"}) \in BOOLEAN
    OBVIOUS
  <2> QED
    BY <2>1, EmptyNamespace DEF NewModule, ModuleObject
<1>2. Len(ms) \in Nat
  OBVIOUS
<1> HIDE DEF m
<1>3. /\ Append(ms, m) \in Seq(ModuleObject) /\ Len(Append(ms, m)) = Len(ms) + 1
      /\ Append(ms, m)[Len(ms) + 1] = m /\ \A u \in 1 .. Len(ms) : Append(ms, m)[u] = ms[u]
  BY <1>1, <1>2
<1> QED
  BY <1>1, <1>3, EmptyNamespace DEF m, At

-----------------------------------------------------------------------------
(* What refers to what *)

(* What the program and the running bodies may refer to: sound modules, and  *)
(* what is no module.                                                      *)
Values(S) == {Value, None} \cup S

Refers(S, doing) ==
  /\ doing.at = "importing" =>
       /\ {doing.value, doing.leaf, doing.package} \subseteq Values(S)
       /\ doing.given # "registered" => doing.todo \in Seq(Named)
  /\ doing.at = "publishing" => doing.value \in Values(S) /\ doing.into \in S \cup {None}

Known(S) ==
  /\ S \subseteq Modules /\ Main \in S
  /\ \A n \in DOMAIN cache : cache[n] \in Values(S)
  /\ \A v \in S, c \in STRING : Attribute(v, c) \in Values(S) \cup {Missing}
  /\ \A v \in Modules \ S, c \in STRING : Attribute(v, c) = Missing
  /\ \A k \in 1 .. Depth : bodies[k].module \in S \cup {None} /\ Refers(S, bodies[k].doing)
  /\ \A k \in 1 .. Len(namespaces) : namespaces[k] \in S
  /\ Name(Main) = <<"__main__">> /\ State(Main) = "ready"
  /\ \A v \in S \ {Main} : Name(v) # <<"__main__">>

(* Before the body of a module, or after it. *)
Loading(doing) == doing.at \in {"creating", "publishing"}

(* What body k runs for: an import of the name that the one below wants, a   *)
(* reload, or a collection.                                                *)
Under(k) ==
  \/ /\ bodies[k].for = "import"
     /\ bodies[k - 1].doing.at = "importing" /\ bodies[k - 1].doing.todo # <<>>
     /\ \/ /\ bodies[k].doing.at = "creating" /\ bodies[k].module = None
           /\ bodies[k].doing.name = Head(bodies[k - 1].doing.todo)
        \/ /\ bodies[k].doing.at # "creating" /\ bodies[k].module # None
           /\ Name(bodies[k].module) = Head(bodies[k - 1].doing.todo)
  \/ /\ bodies[k].for = "reload" /\ bodies[k - 1].doing.at = "reloading"
     /\ bodies[k].module # None /\ ~Loading(bodies[k].doing)
  \/ /\ bodies[k].for = "hook" /\ Loading(bodies[k - 1].doing)
     /\ bodies[k].module = None /\ ~Loading(bodies[k].doing)

Nesting ==
  /\ Depth >= 1 /\ bodies[1].module = Main /\ bodies[1].for = "main" /\ ~Loading(bodies[1].doing)
  /\ \A k \in 2 .. Depth : Under(k)

(* A sound module is initializing while one import or reload of it runs. *)
Running(S) ==
  /\ \A j, k \in 2 .. Depth : bodies[j].module = bodies[k].module /\ bodies[j].module # None => j = k
  /\ \A v \in S : State(v) = "initializing" <=> \E k \in 2 .. Depth : bodies[k].module = v

(* Names whose entry the program, or a hook in the middle of an import, made. *)
Touched == changed \cup overtaken

NoneFailed == \A v \in Modules : State(v) # "failed"

(* An entry of sys.modules that the program did not change is a module of    *)
(* its name that did not fail ...                                          *)
Cached(S) ==
  \A n \in DOMAIN cache : n \notin changed =>
    \E v \in S : cache[n] = v /\ Name(v) = n /\ State(v) # "failed"

(* ... and, untouched, is the only one.                                     *)
Loaded(S) ==
  \A v \in S \ {Main} : State(v) # "failed" /\ Name(v) \notin Touched =>
    Name(v) \in DOMAIN cache /\ cache[Name(v)] = v

(* While nothing failed there is an entry, whosever it is. *)
Entered(S) ==
  NoneFailed => \A v \in S \ {Main} : Name(v) \in changed \/ Name(v) \in DOMAIN cache

OneEach(S) ==
  \A v, w \in S : v < w /\ Name(v) = Name(w) => State(v) = "failed" \/ Name(v) \in Touched

(* The module v of the name n is an attribute of w, which has the name of    *)
(* its parent, and the program did not assign it.                           *)
Holds(w, v, n) ==
  Name(v) = n /\ IsChild(n) /\ n \notin assigned /\ Name(w) = Parent(n) /\ Attribute(w, Last(n)) = v

(* What is published is the module itself, in its parent, for the first time *)
(* unless its body is done.                                                *)
Announced(S, v, n, doing) ==
  /\ doing.stage # "done" => doing.value = v /\ \A w \in S : ~Holds(w, v, n)
  /\ doing.value # v => n \in Touched
  /\ IsChild(n) => doing.into \in S /\ (Name(doing.into) = Parent(n) \/ Parent(n) \in changed)

Publication(S) ==
  \A k \in 2 .. Depth, v \in S, n \in Dotted, doing \in InPublication :
    bodies[k].doing = doing /\ bodies[k].module = v /\ Name(v) = n => Announced(S, v, n, doing)

(* A module that is an attribute of its parent did not fail. *)
Gone(S) ==
  \A v, w \in S, n \in Dotted : Holds(w, v, n) /\ Parent(n) \notin changed => State(v) # "failed"

(* Import k is of a module that is an attribute of w, or is becoming one. *)
Tied(k, w, v, n) ==
  /\ bodies[k].for = "import" /\ bodies[k].module = v /\ Name(v) = n
  /\ IsChild(n) /\ Name(w) = Parent(n) /\ Parent(n) \notin changed
  /\ Holds(w, v, n) \/ (bodies[k].doing.at = "publishing" /\ bodies[k].doing.into = w)

(* Meanwhile the parent stays in sys.modules, because its own import is done *)
(* or runs around that of the module, and no other import of it is about to  *)
(* make an entry.                                                          *)
Placed(S) ==
  \A k \in 2 .. Depth, v, w \in S, n \in Dotted : Tied(k, w, v, n) =>
    /\ Parent(n) \in DOMAIN cache /\ cache[Parent(n)] = w
    /\ \A j \in 2 .. Depth :
         /\ bodies[j].for = "import" /\ bodies[j].module = w => j < k
         /\ bodies[j].doing.at = "creating" /\ bodies[j].doing.name = Parent(n) => j < k

(* An attribute that the program did not assign is the submodule's module. *)
Told(S) ==
  \A w \in S, c \in STRING :
    \/ Append(Name(w), c) \in assigned \/ Attribute(w, c) = Missing
    \/ \E v \in S : Name(v) = Append(Name(w), c) /\ Attribute(w, c) = v

(* p is in sys.modules and is still to become an attribute of its parent. *)
Half(p) ==
  \E k \in 2 .. Depth :
    bodies[k].doing.at = "publishing" /\ bodies[k].doing.stage # "done" /\ Name(bodies[k].module) = p

Attached(S) ==
  NoneFailed =>
    \A p \in DOMAIN cache :
      IsChild(p) /\ p \notin Touched \cup assigned /\ Parent(p) \notin Touched /\ ~Half(p) =>
        /\ Parent(p) \in DOMAIN cache
        /\ \A w \in S : cache[Parent(p)] = w => Attribute(w, Last(p)) # Missing

(* How far an import statement is: it has imported the first of the names    *)
(* that it wants, and then reads one component of the name after the other.  *)
Reached(doing) ==
  doing.at = "importing" /\ doing.statement.form \in {"plain", "alias", "from", "star"} =>
    LET want == Wanted(doing.statement)
        n == doing.statement.name
        done == Len(want) - Len(doing.todo)
        read == Len(n) - Len(doing.unread) IN
    /\ done \in 0 .. Len(want) /\ doing.todo = SubSeq(want, done + 1, Len(want))
    /\ \A i \in 1 .. done : want[i] \notin changed => want[i] \in DOMAIN cache
    /\ read \in 1 .. Len(n) /\ doing.unread = SubSeq(n, read + 1, Len(n))
    /\ doing.todo # <<>> => read = 1
    /\ doing.todo = <<>> /\ (\A i \in 1 .. Len(n) : SubSeq(n, 1, i) \notin Touched \cup assigned) =>
         doing.leaf = cache[SubSeq(n, 1, read)]

Progress == NoneFailed => \A k \in 1 .. Depth : Reached(bodies[k].doing)

IInv(S) ==
  /\ TypeOK /\ Known(S) /\ Nesting /\ Running(S)
  /\ Cached(S) /\ Loaded(S) /\ Entered(S) /\ OneEach(S)
  /\ Publication(S) /\ Gone(S) /\ Placed(S) /\ Told(S)
  /\ Attached(S) /\ Progress

(* The invariant: there is such a set. *)
Consistent == \E S \in SUBSET Modules : IInv(S)

-----------------------------------------------------------------------------
(* A step, seen from the running bodies: the innermost one may have ended;   *)
(* body m then does d; body b may have begun.                               *)
Shape(m, d, b) ==
  /\ m \in Nat /\ m >= 1 /\ Depth \in {m, m + 1} /\ Depth' \in {m, m + 1}
  /\ bodies' \in Seq(BodyRecord)
  /\ \A k \in 1 .. m :
       /\ bodies'[k].module = bodies[k].module /\ bodies'[k].for = bodies[k].for
       /\ bodies'[k].doing = IF k = m THEN d ELSE bodies[k].doing
  /\ Depth' = m + 1 => bodies'[m + 1] = b

(* The innermost body does something else. *)
LEMMA ShapeOfTurn ==
  ASSUME TypeOK, NEW m \in Nat, m = Depth, m >= 1, NEW d \in Doing, NEW b, bodies' = Now(d)
  PROVE  Shape(m, d, b) /\ Depth' = m
<1>1. LET new == Innermost(bodies, d) IN
      /\ new \in Seq(BodyRecord) /\ Len(new) = Len(bodies)
      /\ \A k \in 1 .. Len(bodies) :
           /\ new[k].module = bodies[k].module /\ new[k].for = bodies[k].for
           /\ new[k].doing = IF k = Len(bodies) THEN d ELSE bodies[k].doing
  BY Innermosts DEF TypeOK, Depth
<1> QED
  BY <1>1 DEF Shape, Now, Depth

(* It calls another one. *)
LEMMA ShapeOfCall ==
  ASSUME TypeOK, NEW m \in Nat, m = Depth, m >= 1, NEW d \in Doing, NEW b \in BodyRecord,
         bodies' = Append(Now(d), b)
  PROVE  Shape(m, d, b) /\ Depth' = m + 1
<1> DEFINE now == Innermost(bodies, d)
<1>1. /\ now \in Seq(BodyRecord) /\ Len(now) = m
      /\ \A k \in 1 .. m :
           /\ now[k].module = bodies[k].module /\ now[k].for = bodies[k].for
           /\ now[k].doing = IF k = m THEN d ELSE bodies[k].doing
  BY Innermosts DEF TypeOK, Depth
<1>2. bodies' = Append(now, b)
  BY DEF Now
<1> HIDE DEF now
<1>3. /\ Append(now, b) \in Seq(BodyRecord) /\ Len(Append(now, b)) = m + 1
      /\ Append(now, b)[m + 1] = b
      /\ \A k \in 1 .. m : Append(now, b)[k] = now[k]
  BY <1>1
<1> QED
  BY <1>1, <1>2, <1>3 DEF Shape, Depth

LEMMA AsItIs ==
  ASSUME NEW calls \in Seq(BodyRecord), Len(calls) > 0, NEW d, d = calls[Len(calls)].doing
  PROVE  Innermost(calls, d) = calls
<1> DEFINE n == Len(calls)
<1>1. n \in Nat /\ n \in 1 .. n /\ calls[n] \in BodyRecord
  BY ElementOfSeq
<1>2. [calls[n] EXCEPT !.doing = d] = calls[n]
  BY <1>1 DEF BodyRecord
<1>3. Innermost(calls, d) = [calls EXCEPT ![n] = calls[n]]
  BY <1>2 DEF Innermost
<1>4. [calls EXCEPT ![n] = calls[n]] = calls
  BY <1>1
<1> QED
  BY <1>3, <1>4

LEMMA BodiesBelow ==
  ASSUME TypeOK, NEW m \in Nat, Depth = m + 1
  PROVE  /\ Front(bodies) \in Seq(BodyRecord) /\ Len(Front(bodies)) = m
         /\ \A k \in 1 .. m : Front(bodies)[k] = bodies[k]
<1>1. bodies \in Seq(BodyRecord) /\ Len(bodies) = m + 1 /\ Len(bodies) > 0 /\ Len(bodies) - 1 = m
  BY DEF TypeOK, Depth
<1> QED
  BY <1>1, FrontOf

(* It ends, and the body that called it goes on. *)
LEMMA ShapeOfReturn ==
  ASSUME TypeOK, NEW m \in Nat, Depth = m + 1, m >= 1, NEW d \in Doing, NEW b,
         bodies' = Innermost(Front(bodies), d)
  PROVE  Shape(m, d, b) /\ Depth' = m
<1> DEFINE rest == Front(bodies)
<1>1. /\ rest \in Seq(BodyRecord) /\ Len(rest) = m
      /\ \A k \in 1 .. m : rest[k] = bodies[k]
  BY BodiesBelow
<1>3. bodies' = Innermost(rest, d)
  OBVIOUS
<1> HIDE DEF rest
<1>2. LET new == Innermost(rest, d) IN
      /\ new \in Seq(BodyRecord) /\ Len(new) = Len(rest)
      /\ \A k \in 1 .. Len(rest) :
           /\ new[k].module = rest[k].module /\ new[k].for = rest[k].for
           /\ new[k].doing = IF k = Len(rest) THEN d ELSE rest[k].doing
  BY <1>1, Innermosts
<1> QED
  BY <1>1, <1>2, <1>3 DEF Shape, Depth

(* Another one takes its place. *)
LEMMA ShapeOfTailCall ==
  ASSUME TypeOK, NEW m \in Nat, Depth = m + 1, m >= 1, NEW d, d = bodies[m].doing,
         NEW b \in BodyRecord, bodies' = Append(Front(bodies), b)
  PROVE  Shape(m, d, b) /\ Depth' = m + 1
<1> DEFINE rest == Front(bodies)
<1>1. /\ rest \in Seq(BodyRecord) /\ Len(rest) = m
      /\ \A k \in 1 .. m : rest[k] = bodies[k]
  BY BodiesBelow
<1>2. bodies' = Append(rest, b)
  OBVIOUS
<1> HIDE DEF rest
<1>3. /\ Append(rest, b) \in Seq(BodyRecord) /\ Len(Append(rest, b)) = m + 1
      /\ Append(rest, b)[m + 1] = b
      /\ \A k \in 1 .. m : Append(rest, b)[k] = rest[k]
  BY <1>1
<1> QED
  BY <1>1, <1>2, <1>3 DEF Shape, Depth

(* It stays, and is what is next to be seen. *)
LEMMA ShapeOfChange ==
  ASSUME TypeOK, NEW m \in Nat, Depth = m + 1, m >= 1, NEW d, d = bodies[m].doing,
         NEW e \in Doing, bodies' = Now(e), NEW b, b = bodies'[m + 1]
  PROVE  /\ Shape(m, d, b) /\ Depth' = m + 1 /\ b \in BodyRecord
         /\ b.module = bodies[m + 1].module /\ b.for = bodies[m + 1].for /\ b.doing = e
<1>1. LET new == Innermost(bodies, e) IN
      /\ new \in Seq(BodyRecord) /\ Len(new) = Len(bodies)
      /\ \A k \in 1 .. Len(bodies) :
           /\ new[k].module = bodies[k].module /\ new[k].for = bodies[k].for
           /\ new[k].doing = IF k = Len(bodies) THEN e ELSE bodies[k].doing
  BY Innermosts DEF TypeOK, Depth
<1>2. bodies' \in Seq(BodyRecord) /\ Depth' = m + 1
  BY <1>1 DEF Now, Depth
<1>3. b \in BodyRecord
  BY <1>2, ElementOfSeq DEF Depth
<1>4. \A k \in 1 .. m : k \in 1 .. Len(bodies) /\ k # Len(bodies)
  BY DEF Depth
<1> QED
  BY <1>1, <1>2, <1>3, <1>4 DEF Shape, Now, Depth

-----------------------------------------------------------------------------
(* What a step may do, so that the invariant is kept.  S are the sound       *)
(* modules before it and T after it; x is the module that it publishes, and  *)
(* f the one that fails, if there is one.                                  *)

Continued(T, m, d) ==
  /\ d \in Doing /\ Refers(T, d)
  /\ d = bodies[m].doing \/ (~Loading(d) /\ ~Loading(bodies[m].doing))
  /\ NoneFailed' => Reached(d)'

(* Body b is called, or goes on when what it called has ended. *)
Begun(S, T, m, b) ==
  Depth' = m + 1 =>
    /\ b \in BodyRecord /\ b.module \in T \cup {None} /\ Refers(T, b.doing) /\ b.doing.at # "importing"
    /\ Under(m + 1)'
    /\ b.for = "import" /\ b.module \in S =>
         Depth = m + 1 /\ bodies[m + 1].for = "import" /\ bodies[m + 1].module = b.module
    /\ b.doing.at = "creating" => b.doing.name \notin DOMAIN cache'
    /\ \A v \in T, n \in Dotted :
         b.doing.at = "publishing" /\ b.module = v /\ Name(v)' = n => Announced(T, v, n, b.doing)'
    /\ \A v, w \in T, n \in Dotted :
         Tied(m + 1, w, v, n)' => Parent(n) \in DOMAIN cache' /\ cache'[Parent(n)] = w

Runs(S, T, m, b) ==
  /\ \A v \in T : State(v)' = "initializing" <=>
       \/ Depth' = m + 1 /\ b.module = v
       \/ v \in S /\ State(v) = "initializing" /\ ~(Depth = m + 1 /\ bodies[m + 1].module = v)
  /\ Depth' = m + 1 /\ b.module \in S =>
       State(b.module) # "initializing" \/ (Depth = m + 1 /\ bodies[m + 1].module = b.module)

(* Module objects stay, and one may be new: then it is in sys.modules. *)
Objects(S, T, f) ==
  /\ modules' \in Seq(ModuleObject) /\ Modules \subseteq Modules' /\ S \subseteq T /\ T \subseteq Modules'
  /\ \A u \in Modules : State(u) = "failed" => State(u)' = "failed"
  /\ \A u \in S : Name(u)' = Name(u) /\ (State(u)' = "failed" => State(u) = "failed" \/ u = f)
  /\ State(Main)' = "ready"
  /\ \A u \in T \ S :
       /\ u \notin Modules /\ State(u)' = "initializing" /\ Name(u)' \in Named /\ \A w \in S : w < u
       /\ Name(u)' \in DOMAIN cache' /\ cache'[Name(u)'] = u
       /\ Name(u)' \in DOMAIN cache => Name(u)' \in overtaken'
       /\ \A c \in STRING : Attribute(u, c)' = Missing
  /\ \A u, v \in T \ S : u = v

(* An attribute is removed, recorded as assigned, or published. *)
Attributes(S, T, x) ==
  /\ assigned \subseteq assigned'
  /\ \A w \in S, c \in STRING :
       /\ Attribute(w, c)' \in Values(S) \cup {Missing}
       /\ \/ Attribute(w, c)' = Missing \/ Append(Name(w), c) \in assigned'
          \/ Attribute(w, c)' = Attribute(w, c)
          \/ x \in S /\ Attribute(w, c)' = x /\ Append(Name(w), c) = Name(x)
       /\ NoneFailed' /\ Attribute(w, c)' = Missing =>
            Attribute(w, c) = Missing \/ Append(Name(w), c) \in assigned'
  /\ \A w \in Modules' \ T, c \in STRING : Attribute(w, c)' = Missing

(* An entry of sys.modules is kept, unless the program changes it, the import *)
(* of the module makes another one or has no parent, or the module failed.  *)
Entries(S, T, m, f) ==
  /\ changed \subseteq changed' /\ overtaken \subseteq overtaken' /\ DOMAIN cache' \subseteq Dotted
  /\ \A n \in DOMAIN cache' : cache'[n] \in Values(T)
  /\ \A n \in Dotted : n \notin changed' =>
       \/ n \in DOMAIN cache' /\ n \in DOMAIN cache /\ cache'[n] = cache[n]
       \/ n \notin DOMAIN cache' /\ n \notin DOMAIN cache
       \/ /\ Depth = m + 1 /\ bodies[m + 1].doing.at = "creating" /\ bodies[m + 1].doing.name = n
          /\ n \in DOMAIN cache => n \in overtaken'
          /\ \/ n \notin DOMAIN cache' /\ ~NoneFailed'
             \/ /\ n \in DOMAIN cache' /\ Half(n)'
                /\ \E u \in T \ S : cache'[n] = u /\ Name(u)' = n
       \/ f \in S /\ Name(f) = n /\ n \in DOMAIN cache /\ cache[n] = f /\ n \notin DOMAIN cache'
  /\ namespaces' \in Seq(Nat) /\ \A k \in 1 .. Len(namespaces') : namespaces'[k] \in T

Failure(S, m, f) ==
  f \in S =>
    /\ Depth = m + 1 /\ bodies[m + 1].for = "import" /\ bodies[m + 1].module = f
    /\ State(f)' = "failed"
    /\ Name(f) \in DOMAIN cache' => cache'[Name(f)] # f \/ Name(f) \in changed'
    /\ \A w \in S, n \in Dotted : Holds(w, f, n)' => Parent(n) \in changed'

Success(S, m, x) ==
  /\ x \in S => /\ Depth = m + 1 /\ bodies[m + 1].for = "import" /\ bodies[m + 1].module = x
                /\ State(x)' # "failed"
  /\ NoneFailed' /\ Depth = m + 1 /\ bodies[m + 1].doing.at = "publishing"
       /\ bodies[m + 1].doing.stage # "done" =>
         \A v, w \in S, n \in Dotted :
           /\ bodies[m + 1].module = v /\ bodies[m + 1].doing.into = w /\ Name(v) = n
           /\ IsChild(n) /\ n \notin Touched \cup assigned' /\ Parent(n) \notin Touched
           => Attribute(w, Last(n))' # Missing

Step(S, T, m, d, b, x, f) ==
  /\ Shape(m, d, b) /\ Continued(T, m, d) /\ Begun(S, T, m, b) /\ Runs(S, T, m, b)
  /\ Objects(S, T, f) /\ Attributes(S, T, x) /\ Entries(S, T, m, f)
  /\ Failure(S, m, f) /\ Success(S, m, x)

-----------------------------------------------------------------------------
(* How each part of the invariant survives *)

LEMMA SoundModules ==
  ASSUME NEW S, TypeOK, Known(S)
  PROVE  /\ S \subseteq Nat /\ None \notin S /\ Value \notin S /\ Missing \notin Values(S)
         /\ Values(S) \subseteq Int /\ Main \in S
         /\ \A v \in S : Name(v) \in Dotted
  BY Sizes DEF Known, Values, None, Value, Missing

LEMMA NewIsUnknown ==
  ASSUME NEW S, NEW T, TypeOK, Known(S), NEW f, Objects(S, T, f)
  PROVE  /\ \A u \in T \ S : u \in Nat /\ u \notin Values(S) /\ u # Missing
         /\ T \subseteq Nat /\ None \notin T /\ Value \notin T
         /\ \A u \in T : Name(u)' \in Dotted
<1>1. modules' \in Seq(ModuleObject) /\ Modules' = 1 .. Len(modules') /\ Len(modules') \in Nat
  BY DEF Objects, Modules
<1>2. T \subseteq 1 .. Len(modules')
  BY <1>1 DEF Objects
<1>3. \A u \in T : modules'[u] \in ModuleObject
  BY <1>1, <1>2, ElementOfSeq
<1> QED
  BY <1>1, <1>2, <1>3 DEF Values, None, Value, Missing, Name, ModuleObject, Objects, Known

LEMMA KnownKept ==
  ASSUME NEW S, IInv(S), NEW T, NEW m, NEW d, NEW b, NEW x, NEW f, Step(S, T, m, d, b, x, f)
  PROVE  TypeOK' /\ Known(T)'
<1>1. TypeOK'
  BY DEF Step, Shape, Objects, Entries, TypeOK
<1>2. \A n \in DOMAIN cache' : cache'[n] \in Values(T)
  BY DEF Step, Entries
<1>3. ASSUME NEW v \in T, NEW c \in STRING PROVE Attribute(v, c)' \in Values(T) \cup {Missing}
  BY DEF Step, Attributes, Objects, Values
<1>4. ASSUME NEW k \in 1 .. Depth' PROVE bodies'[k].module \in T \cup {None} /\ Refers(T, bodies[k].doing)'
  <2>1. CASE k \in 1 .. m
    <3>1. bodies[k].module \in S \cup {None} /\ Refers(S, bodies[k].doing)
      BY <2>1 DEF Step, Shape, IInv, Known
    <3>2. bodies'[k].module \in T \cup {None}
      BY <2>1, <3>1 DEF Step, Shape, Objects
    <3>3. Refers(T, bodies[k].doing)
      BY <3>1 DEF Step, Objects, Refers, Values
    <3>4. bodies'[k].doing = bodies[k].doing \/ bodies'[k].doing = d
      BY <2>1 DEF Step, Shape
    <3> QED
      BY <3>2, <3>3, <3>4 DEF Step, Continued, Refers
  <2>2. CASE k \notin 1 .. m
    <3>1. k = m + 1 /\ Depth' = m + 1
      BY <2>2 DEF Step, Shape
    <3> QED
      BY <3>1 DEF Step, Shape, Begun, Refers
  <2> QED
    BY <2>1, <2>2
<1>5. \A k \in 1 .. Len(namespaces') : namespaces'[k] \in T
  BY DEF Step, Entries
<1>6. \A v \in T \ {Main} : Name(v)' # <<"__main__">>
  BY DEF Step, Objects, Named, IInv, Known
<1> QED
  BY <1>1, <1>2, <1>3, <1>4, <1>5, <1>6 DEF Known, Step, Objects, Attributes, IInv

LEMMA NestingKept ==
  ASSUME NEW S, IInv(S), NEW T, NEW m, NEW d, NEW b, NEW x, NEW f, Step(S, T, m, d, b, x, f)
  PROVE  Nesting'
<1>1. /\ m \in Nat /\ m >= 1 /\ Depth \in {m, m + 1} /\ Depth' \in {m, m + 1}
      /\ \A k \in 1 .. m :
           /\ bodies'[k].module = bodies[k].module /\ bodies'[k].for = bodies[k].for
           /\ bodies'[k].doing = IF k = m THEN d ELSE bodies[k].doing
      /\ d = bodies[m].doing \/ (~Loading(d) /\ ~Loading(bodies[m].doing))
  BY DEF Step, Shape, Continued
<1>2. /\ bodies[1].module = Main /\ bodies[1].for = "main" /\ ~Loading(bodies[1].doing)
      /\ \A k \in 2 .. Depth : Under(k)
  BY DEF IInv, Nesting
<1>3. Depth' >= 1 /\ bodies'[1].module = Main /\ bodies'[1].for = "main" /\ ~Loading(bodies'[1].doing)
  BY <1>1, <1>2
<1>4. ASSUME NEW k \in 2 .. m PROVE Under(k)'
  <2>1. Under(k) /\ k \in 1 .. m /\ k - 1 \in 1 .. m /\ k - 1 # m
    BY <1>1, <1>2
  <2>2. /\ bodies'[k].module = bodies[k].module /\ bodies'[k].for = bodies[k].for
        /\ bodies'[k - 1].doing = bodies[k - 1].doing
        /\ bodies'[k].doing = bodies[k].doing \/ (~Loading(bodies'[k].doing) /\ ~Loading(bodies[k].doing))
    BY <1>1, <2>1
  <2>3. bodies[k].module # None => Name(bodies[k].module)' = Name(bodies[k].module)
    <3>1. bodies[k].module \in S \cup {None}
      BY <1>1, <2>1 DEF IInv, Known
    <3>2. PICK v : v = bodies[k].module
      OBVIOUS
    <3>3. v # None => Name(v)' = Name(v)
      BY <3>1, <3>2 DEF Step, Objects
    <3>4. bodies'[k].module = v
      BY <2>2, <3>2
    <3> QED
      BY <3>2, <3>3, <3>4 DEF Name
  <2> QED
    BY <2>1, <2>2, <2>3 DEF Under, Loading, Name
<1>5. Depth' = m + 1 => Under(m + 1)'
  BY DEF Step, Begun
<1>6. \A k \in 2 .. Depth' : k \in 2 .. m \/ (k = m + 1 /\ Depth' = m + 1)
  BY <1>1
<1>7. \A k \in 2 .. Depth' : Under(k)'
  BY <1>4, <1>5, <1>6
<1> QED
  BY <1>3, <1>7 DEF Nesting, Loading

LEMMA RunningKept ==
  ASSUME NEW S, IInv(S), NEW T, NEW m, NEW d, NEW b, NEW x, NEW f, Step(S, T, m, d, b, x, f)
  PROVE  Running(T)'
<1>1. /\ m \in Nat /\ m >= 1 /\ Depth \in {m, m + 1} /\ Depth' \in {m, m + 1}
      /\ \A k \in 1 .. m : bodies'[k].module = bodies[k].module
      /\ Depth' = m + 1 => bodies'[m + 1] = b
  BY DEF Step, Shape
<1>2. /\ \A k \in 1 .. Depth : bodies[k].module \in S \cup {None}
      /\ \A j, k \in 2 .. Depth : bodies[j].module = bodies[k].module /\ bodies[j].module # None => j = k
      /\ \A v \in S : State(v) = "initializing" <=> \E k \in 2 .. Depth : bodies[k].module = v
  BY DEF IInv, Known, Running
<1>3. None \notin S /\ None \notin T /\ S \subseteq T
  BY SoundModules, NewIsUnknown DEF IInv, Step, Objects
<1>4. /\ Depth' = m + 1 => b.module \in T \cup {None}
      /\ \A v \in T : State(v)' = "initializing" <=>
           \/ Depth' = m + 1 /\ b.module = v
           \/ v \in S /\ State(v) = "initializing" /\ ~(Depth = m + 1 /\ bodies[m + 1].module = v)
      /\ Depth' = m + 1 /\ b.module \in S =>
           State(b.module) # "initializing" \/ (Depth = m + 1 /\ bodies[m + 1].module = b.module)
  BY DEF Step, Begun, Runs
<1>5. ASSUME NEW k \in 2 .. m, Depth' = m + 1, b.module = bodies[k].module, b.module # None PROVE FALSE
  <2>1. k \in 2 .. Depth /\ k \in 1 .. Depth /\ b.module \in S
    BY <1>1, <1>2, <1>5
  <2>2. State(b.module) = "initializing"
    BY <1>2, <1>5, <2>1
  <2>3. Depth = m + 1 /\ bodies[m + 1].module = b.module /\ m + 1 \in 2 .. Depth /\ k # m + 1
    BY <1>1, <1>4, <1>5, <2>1, <2>2
  <2> QED
    BY <1>2, <1>5, <2>1, <2>3
<1>6. ASSUME NEW j \in 2 .. Depth', NEW k \in 2 .. Depth',
             bodies'[j].module = bodies'[k].module, bodies'[j].module # None
      PROVE  j = k
  <2>1. CASE j \in 2 .. m /\ k \in 2 .. m
    <3>1. j \in 2 .. Depth /\ k \in 2 .. Depth /\ j \in 1 .. m /\ k \in 1 .. m
      BY <1>1, <2>1
    <3> QED
      BY <1>1, <1>2, <1>6, <3>1
  <2>2. CASE j = m + 1 \/ k = m + 1
    <3>1. Depth' = m + 1 /\ (j = m + 1 \/ j \in 2 .. m) /\ (k = m + 1 \/ k \in 2 .. m)
      BY <1>1, <2>2
    <3>2. \A i \in 2 .. m : i \in 1 .. m
      OBVIOUS
    <3> QED
      BY <1>1, <1>5, <1>6, <2>2, <3>1, <3>2
  <2> QED
    BY <1>1, <2>1, <2>2
<1>7. ASSUME NEW v \in T
      PROVE  State(v)' = "initializing" <=> \E k \in 2 .. Depth' : bodies'[k].module = v
  <2>1. ASSUME State(v)' = "initializing" PROVE \E k \in 2 .. Depth' : bodies'[k].module = v
    <3>1. CASE Depth' = m + 1 /\ b.module = v
      <4>1. m + 1 \in 2 .. Depth'
        BY <1>1, <3>1
      <4> QED
        BY <1>1, <3>1, <4>1
    <3>2. CASE v \in S /\ State(v) = "initializing" /\ ~(Depth = m + 1 /\ bodies[m + 1].module = v)
      <4>1. PICK k \in 2 .. Depth : bodies[k].module = v
        BY <1>2, <3>2
      <4>2. k \in 2 .. m /\ k \in 1 .. m /\ k \in 2 .. Depth'
        BY <1>1, <3>2, <4>1
      <4> QED
        BY <1>1, <4>1, <4>2
    <3> QED
      BY <1>4, <2>1, <3>1, <3>2
  <2>2. ASSUME NEW k \in 2 .. Depth', bodies'[k].module = v PROVE State(v)' = "initializing"
    <3>1. CASE k = m + 1
      BY <1>1, <1>4, <2>2, <3>1
    <3>2. CASE k # m + 1
      <4>1. k \in 2 .. m /\ k \in 1 .. m /\ k \in 2 .. Depth /\ k \in 1 .. Depth
        BY <1>1, <3>2
      <4>2. bodies[k].module = v /\ v \in S
        BY <1>1, <1>2, <1>3, <2>2, <4>1
      <4>3. State(v) = "initializing" /\ ~(Depth = m + 1 /\ bodies[m + 1].module = v)
        <5>1. ASSUME Depth = m + 1, bodies[m + 1].module = v PROVE FALSE
          <6>1. m + 1 \in 2 .. Depth
            BY <1>1, <5>1
          <6> QED
            BY <1>2, <1>3, <3>2, <4>1, <4>2, <5>1, <6>1
        <5> QED
          BY <1>2, <4>1, <4>2, <5>1
      <4> QED
        BY <1>4, <4>2, <4>3
    <3> QED
      BY <3>1, <3>2
  <2> QED
    BY <2>1, <2>2
<1> QED
  BY <1>6, <1>7 DEF Running

LEMMA EntriesKept ==
  ASSUME NEW S, IInv(S), NEW T, NEW m, NEW d, NEW b, NEW x, NEW f, Step(S, T, m, d, b, x, f)
  PROVE  Cached(T)' /\ Loaded(T)' /\ OneEach(T)'
<1>1. Touched' = changed' \cup overtaken' /\ Touched = changed \cup overtaken
  BY DEF Touched
<1>2. /\ changed \subseteq changed' /\ overtaken \subseteq overtaken' /\ DOMAIN cache' \subseteq Dotted
      /\ \A u \in S : Name(u)' = Name(u) /\ (State(u)' = "failed" => State(u) = "failed" \/ u = f)
      /\ S \subseteq T
  BY DEF Step, Entries, Objects
<1>3. \A n \in Dotted : n \notin changed' =>
         \/ n \in DOMAIN cache' /\ n \in DOMAIN cache /\ cache'[n] = cache[n]
         \/ n \notin DOMAIN cache' /\ n \notin DOMAIN cache
         \/ /\ n \in DOMAIN cache => n \in overtaken'
            /\ \/ n \notin DOMAIN cache'
               \/ n \in DOMAIN cache' /\ \E u \in T \ S : cache'[n] = u /\ Name(u)' = n
         \/ f \in S /\ Name(f) = n /\ cache[n] = f /\ n \notin DOMAIN cache'
  BY DEF Step, Entries
<1>4. \A u \in T \ S :
       /\ u \notin Modules /\ State(u)' = "initializing" /\ \A w \in S : w < u
       /\ Name(u)' \in DOMAIN cache' /\ cache'[Name(u)'] = u
       /\ Name(u)' \in DOMAIN cache => Name(u)' \in overtaken'
  BY DEF Step, Objects
<1>5. Cached(T)'
  <2> SUFFICES ASSUME NEW n \in DOMAIN cache', n \notin changed'
               PROVE  \E v \in T : cache'[n] = v /\ Name(v)' = n /\ State(v)' # "failed"
    BY DEF Cached
  <2>1. CASE n \in DOMAIN cache /\ cache'[n] = cache[n]
    <3>1. PICK v \in S : cache[n] = v /\ Name(v) = n /\ State(v) # "failed"
      BY <1>2, <2>1 DEF IInv, Cached
    <3>2. v # f
      BY <2>1, <3>1 DEF Step, Failure
    <3> QED
      BY <1>2, <2>1, <3>1, <3>2
  <2>2. CASE \E u \in T \ S : cache'[n] = u /\ Name(u)' = n
    BY <1>4, <2>2
  <2> QED
    BY <1>2, <1>3, <2>1, <2>2
<1>6. Loaded(T)'
  <2> SUFFICES ASSUME NEW v \in T \ {Main}, State(v)' # "failed", Name(v)' \notin changed' \cup overtaken'
               PROVE  Name(v)' \in DOMAIN cache' /\ cache'[Name(v)'] = v
    BY <1>1 DEF Loaded
  <2>1. CASE v \in S
    <3>1. PICK n \in Dotted : n = Name(v)
      BY <2>1, SoundModules DEF IInv
    <3>2. State(v) # "failed" /\ Name(v)' = n
      BY <1>2, <2>1, <3>1 DEF Step, Objects, IInv, Known
    <3>3. n \in DOMAIN cache /\ cache[n] = v /\ n \notin changed' /\ n \notin overtaken'
      BY <1>1, <1>2, <2>1, <3>1, <3>2 DEF IInv, Loaded
    <3>4. v # f
      BY <2>1 DEF Step, Failure
    <3> QED
      BY <1>3, <3>1, <3>2, <3>3, <3>4
  <2>2. CASE v \notin S
    BY <1>4, <2>2
  <2> QED
    BY <2>1, <2>2
<1>7. OneEach(T)'
  <2> SUFFICES ASSUME NEW v \in T, NEW w \in T, v < w, Name(v)' = Name(w)', State(v)' # "failed",
                      Name(v)' \notin changed' \cup overtaken'
               PROVE  FALSE
    BY <1>1 DEF OneEach
  <2>1. S \subseteq Nat /\ T \subseteq Nat
    BY SoundModules, NewIsUnknown DEF IInv, Step
  <2>2. CASE v \in S /\ w \in S
    <3>1. State(v) # "failed" /\ Name(v) = Name(w) /\ Name(v) \notin Touched
      BY <1>1, <1>2, <2>2 DEF Step, Objects, IInv, Known
    <3> QED
      BY <2>2, <3>1 DEF IInv, OneEach
  <2>3. CASE v \in S /\ w \notin S
    <3>1. State(v) # "failed" /\ Name(v)' = Name(v) /\ Name(v) \notin Touched
      BY <1>1, <1>2, <2>3 DEF Step, Objects, IInv, Known
    <3>2. v # Main
      <4>1. Name(w)' \in Named
        BY <2>3 DEF Step, Objects
      <4>2. Name(Main) = <<"__main__">>
        BY DEF IInv, Known
      <4> QED
        BY <3>1, <4>1, <4>2 DEF Named
    <3>3. Name(v) \in DOMAIN cache
      BY <2>3, <3>1, <3>2 DEF IInv, Loaded
    <3> QED
      BY <1>4, <2>3, <3>1, <3>3
  <2>4. CASE v \notin S
    <3>1. w \in S => w < v
      BY <1>4, <2>4
    <3>2. w \notin S => w = v
      BY <2>4 DEF Step, Objects
    <3> QED
      BY <2>1, <3>1, <3>2
  <2> QED
    BY <2>2, <2>3, <2>4
<1> QED
  BY <1>5, <1>6, <1>7

LEMMA EnteredKept ==
  ASSUME NEW S, IInv(S), NEW T, NEW m, NEW d, NEW b, NEW x, NEW f, Step(S, T, m, d, b, x, f)
  PROVE  Entered(T)'
<1> SUFFICES ASSUME NoneFailed', NEW v \in T \ {Main}, Name(v)' \notin changed'
             PROVE  Name(v)' \in DOMAIN cache'
  BY DEF Entered
<1>1. CASE v \in S
  <2>1. NoneFailed
    BY DEF Step, Objects, NoneFailed, State
  <2>2. PICK n \in Dotted : n = Name(v)
    BY <1>1, SoundModules DEF IInv
  <2>3. Name(v)' = n /\ n \notin changed /\ n \notin changed'
    BY <1>1, <2>2 DEF Step, Objects, Entries
  <2>4. n \in DOMAIN cache
    BY <1>1, <2>1, <2>2, <2>3 DEF IInv, Entered
  <2>5. f \notin S
    <3>1. f \in S => f \in Modules' /\ State(f)' = "failed"
      BY DEF Step, Objects, Failure
    <3> QED
      BY <3>1 DEF NoneFailed
  <2>6. n \in DOMAIN cache'
    BY <2>3, <2>4, <2>5 DEF Step, Entries
  <2> QED
    BY <2>3, <2>6
<1>2. CASE v \notin S
  BY <1>2 DEF Step, Objects
<1> QED
  BY <1>1, <1>2

LEMMA OneImport ==
  ASSUME NEW S, IInv(S), NEW j \in 2 .. Depth, NEW k \in 2 .. Depth, NEW v \in S,
         bodies[j].module = v, bodies[k].module = v
  PROVE  j = k
  BY SoundModules DEF IInv, Running

LEMMA HeldBefore ==
  ASSUME NEW S, IInv(S), NEW T, NEW m, NEW d, NEW b, NEW x, NEW f, Step(S, T, m, d, b, x, f),
         NEW w \in T, NEW v \in T, NEW n \in Dotted, Holds(w, v, n)'
  PROVE  /\ w \in S /\ v \in S /\ Name(v) = n /\ Name(w) = Parent(n)
         /\ Holds(w, v, n) \/ (x \in S /\ v = x)
<1>1. /\ Name(v)' = n /\ IsChild(n) /\ n \notin assigned' /\ Name(w)' = Parent(n)
      /\ Attribute(w, Last(n))' = v
  BY DEF Holds
<1>2. Last(n) \in STRING /\ Append(Parent(n), Last(n)) = n
  BY <1>1, Dots, Rejoined
<1>3. /\ \A u \in T \ S : u \notin Values(S) /\ u # Missing
      /\ \A u \in T \ S : Attribute(u, Last(n))' = Missing
      /\ v # Missing
  <2>1. TypeOK /\ Known(S) /\ Objects(S, T, f)
    BY DEF IInv, Step
  <2>2. T \subseteq Nat /\ \A u \in T \ S : u \notin Values(S)
    BY <2>1, NewIsUnknown
  <2>3. \A u \in T \ S : Attribute(u, Last(n))' = Missing
    BY <1>2, <2>1 DEF Objects
  <2> QED
    BY <2>2, <2>3 DEF Missing
<1>4. w \in S /\ Name(w) = Parent(n)
  BY <1>1, <1>3 DEF Step, Objects
<1>5. PICK c \in STRING : c = Last(n)
  BY <1>2
<1>6. Attribute(w, c)' = v /\ Append(Name(w), c) = n
  BY <1>1, <1>2, <1>4, <1>5
<1>7. Attribute(w, c)' = Attribute(w, c) \/ (x \in S /\ v = x)
  BY <1>1, <1>3, <1>4, <1>6 DEF Step, Attributes
<1>8. v \in S
  <2>1. Attribute(w, c) \in Values(S) \cup {Missing}
    BY <1>4 DEF IInv, Known
  <2> QED
    BY <1>3, <1>6, <1>7, <2>1
<1>9. Name(v) = n /\ n \notin assigned
  BY <1>1, <1>8 DEF Step, Objects, Attributes
<1> QED
  BY <1>1, <1>4, <1>5, <1>6, <1>7, <1>8, <1>9 DEF Holds

(* The bodies below the innermost one stay as they are. *)
LEMMA BodiesStay ==
  ASSUME NEW S, IInv(S), NEW T, NEW m, NEW d, NEW b, NEW x, NEW f, Step(S, T, m, d, b, x, f)
  PROVE  /\ m \in Nat /\ m >= 1 /\ Depth \in {m, m + 1} /\ Depth' \in {m, m + 1}
         /\ \A k \in 2 .. Depth' : k \in 2 .. m \/ (k = m + 1 /\ Depth' = m + 1 /\ bodies'[k] = b)
         /\ \A k \in 2 .. m :
              /\ k \in 2 .. Depth /\ k \in 2 .. Depth' /\ k \in 1 .. m
              /\ bodies'[k].module = bodies[k].module /\ bodies'[k].for = bodies[k].for
              /\ bodies[k].module \in S \cup {None} /\ bodies[k].doing \in Doing
              /\ Loading(bodies'[k].doing) \/ Loading(bodies[k].doing) => bodies'[k].doing = bodies[k].doing
<1>1. /\ m \in Nat /\ m >= 1 /\ Depth \in {m, m + 1} /\ Depth' \in {m, m + 1}
      /\ \A k \in 1 .. m :
           /\ bodies'[k].module = bodies[k].module /\ bodies'[k].for = bodies[k].for
           /\ bodies'[k].doing = IF k = m THEN d ELSE bodies[k].doing
      /\ Depth' = m + 1 => bodies'[m + 1] = b
      /\ d = bodies[m].doing \/ (~Loading(d) /\ ~Loading(bodies[m].doing))
  BY DEF Step, Shape, Continued
<1>2. \A k \in 1 .. Depth : bodies[k].module \in S \cup {None} /\ bodies[k].doing \in Doing
  BY ABody DEF IInv, Known, TypeOK, Depth
<1>3. ASSUME NEW k \in 2 .. m
      PROVE  /\ k \in 2 .. Depth /\ k \in 2 .. Depth' /\ k \in 1 .. m /\ k \in 1 .. Depth
             /\ bodies'[k].module = bodies[k].module /\ bodies'[k].for = bodies[k].for
             /\ Loading(bodies'[k].doing) \/ Loading(bodies[k].doing) => bodies'[k].doing = bodies[k].doing
  BY <1>1
<1>4. \A k \in 2 .. Depth' : k \in 2 .. m \/ (k = m + 1 /\ Depth' = m + 1 /\ bodies'[k] = b)
  BY <1>1
<1> QED
  BY <1>1, <1>2, <1>3, <1>4

LEMMA PublicationKept ==
  ASSUME NEW S, IInv(S), NEW T, NEW m, NEW d, NEW b, NEW x, NEW f, Step(S, T, m, d, b, x, f)
  PROVE  Publication(T)'
<1> SUFFICES ASSUME NEW k \in 2 .. Depth', NEW v \in T, NEW n \in Dotted, NEW doing \in InPublication,
                    bodies'[k].doing = doing, bodies'[k].module = v, Name(v)' = n
             PROVE  Announced(T, v, n, doing)'
  BY DEF Publication
<1>0. doing.at = "publishing"
  BY DEF InPublication
<1>1. CASE k \in 2 .. m
  <2>1. bodies[k].doing = doing /\ bodies[k].module = v /\ v \in S /\ k \in 2 .. Depth
    <3>1. v # None
      BY NewIsUnknown DEF IInv, Step
    <3> QED
      BY <1>0, <1>1, <3>1, BodiesStay DEF Loading
  <2>2. Name(v) = n
    BY <2>1 DEF Step, Objects
  <2>3. Announced(S, v, n, doing)
    BY <2>1, <2>2 DEF IInv, Publication
  <2>4. ASSUME NEW w \in T, Holds(w, v, n)' PROVE Holds(w, v, n) /\ w \in S
    <3>1. w \in S /\ (Holds(w, v, n) \/ (x \in S /\ v = x))
      BY <2>4, HeldBefore
    <3>2. ~(x \in S /\ v = x)
      <4> SUFFICES ASSUME x \in S, v = x PROVE FALSE
        OBVIOUS
      <4>1. Depth = m + 1 /\ bodies[m + 1].module = v /\ m \in Nat /\ m >= 1
        BY BodiesStay DEF Step, Success
      <4>2. m + 1 \in 2 .. Depth /\ k # m + 1
        BY <1>1, <4>1
      <4> QED
        BY <2>1, <4>1, <4>2, OneImport
    <3> QED
      BY <3>1, <3>2
  <2>5. Touched \subseteq Touched' /\ changed \subseteq changed'
    BY DEF Step, Entries, Touched
  <2>6. IsChild(n) => doing.into \in T /\ (Name(doing.into)' = Parent(n) \/ Parent(n) \in changed')
    <3>1. PICK w : w = doing.into
      OBVIOUS
    <3>2. IsChild(n) => w \in S /\ (Name(w) = Parent(n) \/ Parent(n) \in changed)
      BY <2>3, <3>1 DEF Announced
    <3>3. IsChild(n) => w \in T /\ (Name(w)' = Parent(n) \/ Parent(n) \in changed')
      BY <2>5, <3>2 DEF Step, Objects
    <3> QED
      BY <3>1, <3>3 DEF Name
  <2>7. doing.stage # "done" => doing.value = v /\ \A w \in T : ~Holds(w, v, n)'
    BY <2>3, <2>4 DEF Announced
  <2>8. doing.value # v => n \in Touched'
    BY <2>3, <2>5 DEF Announced
  <2> QED
    BY <2>6, <2>7, <2>8 DEF Announced, Name
<1>2. CASE k = m + 1 /\ Depth' = m + 1 /\ bodies'[k] = b
  <2>1. b.doing = doing /\ b.module = v /\ b.doing.at = "publishing"
    BY <1>0, <1>2
  <2>2. Announced(T, v, n, b.doing)'
    BY <1>2, <2>1 DEF Step, Begun
  <2> QED
    BY <2>1, <2>2
<1> QED
  BY <1>1, <1>2, BodiesStay

LEMMA GoneKept ==
  ASSUME NEW S, IInv(S), NEW T, NEW m, NEW d, NEW b, NEW x, NEW f, Step(S, T, m, d, b, x, f)
  PROVE  Gone(T)'
<1> SUFFICES ASSUME NEW v \in T, NEW w \in T, NEW n \in Dotted, Holds(w, v, n)', Parent(n) \notin changed',
                    State(v)' = "failed"
             PROVE  FALSE
  BY DEF Gone
<1>1. v \in S /\ w \in S /\ (Holds(w, v, n) \/ (x \in S /\ v = x))
  BY HeldBefore
<1>2. v # f
  BY <1>1 DEF Step, Failure
<1>3. v # x \/ x \notin S
  BY DEF Step, Success
<1>4. State(v) = "failed" /\ Holds(w, v, n)
  BY <1>1, <1>2, <1>3 DEF Step, Objects
<1>5. Parent(n) \notin changed
  BY DEF Step, Entries
<1> QED
  BY <1>1, <1>4, <1>5 DEF IInv, Gone

LEMMA PlacedKept ==
  ASSUME NEW S, IInv(S), NEW T, NEW m, NEW d, NEW b, NEW x, NEW f, Step(S, T, m, d, b, x, f)
  PROVE  Placed(T)'
<1> SUFFICES ASSUME NEW k \in 2 .. Depth', NEW v \in T, NEW w \in T, NEW n \in Dotted, Tied(k, w, v, n)'
             PROVE  /\ Parent(n) \in DOMAIN cache' /\ cache'[Parent(n)] = w
                    /\ \A j \in 2 .. Depth' :
                         /\ bodies'[j].for = "import" /\ bodies'[j].module = w => j < k
                         /\ bodies'[j].doing.at = "creating" /\ bodies'[j].doing.name = Parent(n) => j < k
  BY DEF Placed
<1>0. /\ bodies'[k].for = "import" /\ bodies'[k].module = v /\ Name(v)' = n
      /\ IsChild(n) /\ Name(w)' = Parent(n) /\ Parent(n) \notin changed'
      /\ Holds(w, v, n)' \/ (bodies'[k].doing.at = "publishing" /\ bodies'[k].doing.into = w)
  BY DEF Tied
<1>1. Parent(n) \in Dotted /\ Parent(n) # n
  BY <1>0, Dots
<1>2. v # None /\ w # None /\ \A u \in T \ S : u \notin Values(S)
  <2>1. TypeOK /\ Known(S) /\ Objects(S, T, f)
    BY DEF IInv, Step
  <2>2. None \notin T /\ \A u \in T \ S : u \notin Values(S)
    BY <2>1, NewIsUnknown
  <2> QED
    BY <2>2
<1>3. CASE k \in 2 .. m
  <2>1. k \in 2 .. Depth /\ bodies[k].for = "import" /\ bodies[k].module = v /\ v \in S
    BY <1>0, <1>2, <1>3, BodiesStay
  <2>2. Name(v) = n /\ Parent(n) \notin changed
    BY <1>0, <2>1 DEF Step, Objects, Entries
  <2>3. w \in S /\ (Holds(w, v, n) \/ (bodies[k].doing.at = "publishing" /\ bodies[k].doing.into = w))
    <3>1. CASE Holds(w, v, n)'
      <4>1. w \in S /\ (Holds(w, v, n) \/ (x \in S /\ v = x))
        BY <3>1, HeldBefore
      <4>2. ~(x \in S /\ v = x)
        <5> SUFFICES ASSUME x \in S, v = x PROVE FALSE
          OBVIOUS
        <5>1. Depth = m + 1 /\ bodies[m + 1].module = v /\ m \in Nat /\ m >= 1
          BY BodiesStay DEF Step, Success
        <5>2. m + 1 \in 2 .. Depth /\ k # m + 1
          BY <1>3, <5>1
        <5> QED
          BY <2>1, <5>1, <5>2, OneImport
      <4> QED
        BY <4>1, <4>2
    <3>2. CASE bodies'[k].doing.at = "publishing" /\ bodies'[k].doing.into = w
      <4>1. bodies[k].doing.at = "publishing" /\ bodies[k].doing.into = w
        BY <1>3, <3>2, BodiesStay DEF Loading
      <4>2. bodies[k].doing.into \in S \cup {None}
        <5>1. k \in 1 .. Depth
          BY <2>1
        <5> QED
          BY <4>1, <5>1 DEF IInv, Known, Refers
      <4> QED
        BY <1>2, <4>1, <4>2
    <3> QED
      BY <1>0, <3>1, <3>2
  <2>4. Tied(k, w, v, n)
    BY <1>0, <2>1, <2>2, <2>3 DEF Tied, Step, Objects
  <2>5. /\ Parent(n) \in DOMAIN cache /\ cache[Parent(n)] = w
        /\ \A j \in 2 .. Depth :
             /\ bodies[j].for = "import" /\ bodies[j].module = w => j < k
             /\ bodies[j].doing.at = "creating" /\ bodies[j].doing.name = Parent(n) => j < k
    BY <2>1, <2>3, <2>4 DEF IInv, Placed
  <2>6. /\ m \in Nat /\ m >= 1
        /\ Depth = m + 1 => m + 1 \in 2 .. Depth /\ ~(m + 1 < k)
    BY <1>3, BodiesStay
  <2>7. Parent(n) \in DOMAIN cache' /\ cache'[Parent(n)] = w
    <3>1. ~(Depth = m + 1 /\ bodies[m + 1].doing.at = "creating" /\ bodies[m + 1].doing.name = Parent(n))
      BY <2>5, <2>6
    <3>2. ~(f \in S /\ f = w)
      BY <2>5, <2>6 DEF Step, Failure
    <3> QED
      BY <1>0, <1>1, <2>5, <3>1, <3>2 DEF Step, Entries
  <2>8. ASSUME NEW j \in 2 .. Depth'
        PROVE  /\ bodies'[j].for = "import" /\ bodies'[j].module = w => j < k
               /\ bodies'[j].doing.at = "creating" /\ bodies'[j].doing.name = Parent(n) => j < k
    <3>1. CASE j \in 2 .. m
      <4>1. j \in 2 .. Depth /\ bodies'[j].module = bodies[j].module /\ bodies'[j].for = bodies[j].for
            /\ (bodies'[j].doing.at = "creating" => bodies'[j].doing = bodies[j].doing)
        BY <3>1, BodiesStay DEF Loading
      <4> QED
        BY <2>5, <4>1
    <3>2. CASE j = m + 1 /\ Depth' = m + 1 /\ bodies'[j] = b
      <4>1. ~(b.for = "import" /\ b.module = w)
        BY <2>3, <2>5, <2>6, <3>2 DEF Step, Begun
      <4>2. ~(b.doing.at = "creating" /\ b.doing.name = Parent(n))
        BY <2>7, <3>2 DEF Step, Begun
      <4> QED
        BY <3>2, <4>1, <4>2
    <3> QED
      BY <3>1, <3>2, BodiesStay
  <2> QED
    BY <2>7, <2>8
<1>4. CASE k = m + 1 /\ Depth' = m + 1 /\ bodies'[k] = b
  <2>1. Tied(m + 1, w, v, n)'
    BY <1>4
  <2>2. Parent(n) \in DOMAIN cache' /\ cache'[Parent(n)] = w
    BY <1>4, <2>1 DEF Step, Begun
  <2>3. ASSUME NEW j \in 2 .. Depth'
        PROVE  /\ bodies'[j].for = "import" /\ bodies'[j].module = w => j < k
               /\ bodies'[j].doing.at = "creating" /\ bodies'[j].doing.name = Parent(n) => j < k
    <3>1. CASE j \in 2 .. m
      BY <1>4, <3>1, BodiesStay
    <3>2. CASE j = m + 1 /\ Depth' = m + 1 /\ bodies'[j] = b
      <4>1. w # v
        BY <1>0, <1>1 DEF Name
      <4>2. ~(b.doing.at = "creating" /\ b.doing.name = Parent(n))
        BY <2>2, <3>2 DEF Step, Begun
      <4> QED
        BY <1>0, <1>4, <3>2, <4>1, <4>2
    <3> QED
      BY <3>1, <3>2, BodiesStay
  <2> QED
    BY <2>2, <2>3
<1> QED
  BY <1>3, <1>4, BodiesStay

LEMMA ToldKept ==
  ASSUME NEW S, IInv(S), NEW T, NEW m, NEW d, NEW b, NEW x, NEW f, Step(S, T, m, d, b, x, f)
  PROVE  Told(T)'
<1> SUFFICES ASSUME NEW w \in T, NEW c \in STRING, Append(Name(w)', c) \notin assigned',
                    Attribute(w, c)' # Missing
             PROVE  \E v \in T : Name(v)' = Append(Name(w)', c) /\ Attribute(w, c)' = v
  BY DEF Told
<1>1. w \in S /\ Name(w)' = Name(w)
  BY DEF Step, Objects
<1>2. CASE Attribute(w, c)' = Attribute(w, c)
  <2>1. Append(Name(w), c) \notin assigned /\ Attribute(w, c) # Missing
    BY <1>1, <1>2 DEF Step, Attributes
  <2>2. PICK v \in S : Name(v) = Append(Name(w), c) /\ Attribute(w, c) = v
    BY <1>1, <2>1 DEF IInv, Told
  <2>3. v \in T /\ Name(v)' = Name(v)
    BY DEF Step, Objects
  <2> QED
    BY <1>1, <1>2, <2>2, <2>3
<1>3. CASE x \in S /\ Attribute(w, c)' = x /\ Append(Name(w), c) = Name(x)
  <2>1. x \in T /\ Name(x)' = Name(x)
    BY <1>3 DEF Step, Objects
  <2> QED
    BY <1>1, <1>3, <2>1
<1> QED
  BY <1>1, <1>2, <1>3 DEF Step, Attributes

LEMMA FailuresStay ==
  ASSUME NEW S, NEW T, NEW f, Objects(S, T, f), NoneFailed'
  PROVE  NoneFailed
  BY DEF Objects, NoneFailed

(* The entry of a submodule's parent, while nothing failed. *)
LEMMA ParentStays ==
  ASSUME NEW S, IInv(S), NEW T, NEW m, NEW d, NEW b, NEW x, NEW f, Step(S, T, m, d, b, x, f), NoneFailed',
         NEW q \in Dotted, q \in DOMAIN cache, q \notin Touched'
  PROVE  q \in DOMAIN cache' /\ cache'[q] = cache[q]
<1>1. f \notin S
  <2> SUFFICES ASSUME f \in S PROVE FALSE
    OBVIOUS
  <2>1. State(f)' = "failed" /\ f \in Modules'
    BY DEF Step, Failure, Objects
  <2> QED
    BY <2>1 DEF NoneFailed
<1>2. q \notin changed' /\ q \notin overtaken'
  BY DEF Touched
<1> QED
  BY <1>1, <1>2 DEF Step, Entries

LEMMA AttachedKept ==
  ASSUME NEW S, IInv(S), NEW T, NEW m, NEW d, NEW b, NEW x, NEW f, Step(S, T, m, d, b, x, f)
  PROVE  Attached(T)'
<1> SUFFICES ASSUME NoneFailed', NEW p \in DOMAIN cache', IsChild(p), p \notin Touched', p \notin assigned',
                    Parent(p) \notin Touched', ~Half(p)'
             PROVE  /\ Parent(p) \in DOMAIN cache'
                    /\ \A w \in T : cache'[Parent(p)] = w => Attribute(w, Last(p))' # Missing
  BY DEF Attached
<1>1. /\ p \in Dotted /\ Parent(p) \in Dotted /\ Last(p) \in STRING /\ Append(Parent(p), Last(p)) = p
      /\ NoneFailed
  <2>1. p \in Dotted
    BY DEF Step, Entries
  <2> QED
    BY <2>1, Dots, Rejoined, FailuresStay DEF Step
<1>2. Touched \subseteq Touched' /\ assigned \subseteq assigned' /\ changed \subseteq Touched
  BY DEF Step, Entries, Attributes, Touched
<1>3. p \in DOMAIN cache /\ p \notin Touched /\ p \notin assigned /\ Parent(p) \notin Touched
  <2>1. p \notin changed'
    BY DEF Touched
  <2> QED
    BY <1>1, <1>2, <2>1 DEF Step, Entries
<1>4. ASSUME NEW w \in S, Parent(p) \in DOMAIN cache, cache[Parent(p)] = w, Attribute(w, Last(p))' # Missing
      PROVE  /\ Parent(p) \in DOMAIN cache'
             /\ \A u \in T : cache'[Parent(p)] = u => Attribute(u, Last(p))' # Missing
  <2>1. Parent(p) \in DOMAIN cache' /\ cache'[Parent(p)] = w
    BY <1>1, <1>4, ParentStays
  <2> QED
    BY <1>4, <2>1
<1>5. CASE ~Half(p)
  <2>1. Parent(p) \in DOMAIN cache
    BY <1>1, <1>3, <1>5 DEF IInv, Attached
  <2>2. PICK w \in S : cache[Parent(p)] = w /\ Name(w) = Parent(p)
    BY <1>2, <1>3, <2>1 DEF IInv, Cached
  <2>3. Attribute(w, Last(p)) # Missing
    BY <1>1, <1>3, <1>5, <2>2 DEF IInv, Attached
  <2>4. PICK c \in STRING : c = Last(p)
    BY <1>1
  <2>5. Attribute(w, c)' # Missing
    BY <1>1, <2>2, <2>3, <2>4 DEF Step, Attributes
  <2> QED
    BY <1>4, <2>1, <2>2, <2>4, <2>5
<1>6. CASE Half(p)
  <2>1. PICK k \in 2 .. Depth : /\ bodies[k].doing.at = "publishing" /\ bodies[k].doing.stage # "done"
                                /\ Name(bodies[k].module) = p
    BY <1>6 DEF Half
  <2>2. Under(k) /\ k \in 1 .. Depth /\ bodies[k].doing \in Doing
    BY <2>1, ABody DEF IInv, Nesting, TypeOK, Depth
  <2>3. PICK v : v = bodies[k].module
    OBVIOUS
  <2>4. v # None /\ bodies[k].for = "import"
    BY <2>1, <2>2, <2>3 DEF Under, Loading
  <2>5. v \in S /\ Name(v) = p
    BY <2>1, <2>2, <2>3, <2>4 DEF IInv, Known
  <2>6. k \notin 2 .. m
    <3> SUFFICES ASSUME k \in 2 .. m PROVE FALSE
      OBVIOUS
    <3>1. k \in 2 .. Depth' /\ bodies'[k].module = v /\ bodies'[k].doing = bodies[k].doing
      BY <2>1, <2>3, BodiesStay DEF Loading
    <3>2. Name(v)' = p
      BY <2>5 DEF Step, Objects
    <3>3. Half(p)'
      BY <2>1, <3>1, <3>2 DEF Half, Name
    <3> QED
      BY <3>3
  <2>7. Depth = m + 1 /\ k = m + 1
    BY <2>1, <2>6, BodiesStay
  <2>8. PICK doing \in InPublication : doing = bodies[k].doing
    BY <2>1, <2>2, Doings
  <2>9. PICK w : w = doing.into
    OBVIOUS
  <2>10. w \in S /\ Name(w) = Parent(p)
    <3>1. Announced(S, v, p, doing)
      BY <1>1, <2>1, <2>3, <2>5, <2>8 DEF IInv, Publication
    <3> QED
      BY <1>2, <1>3, <2>9, <3>1 DEF Announced
  <2>11. Tied(k, w, v, p)
    BY <1>2, <1>3, <2>1, <2>3, <2>4, <2>5, <2>8, <2>9, <2>10 DEF Tied
  <2>12. Parent(p) \in DOMAIN cache /\ cache[Parent(p)] = w
    BY <1>1, <2>1, <2>5, <2>10, <2>11 DEF IInv, Placed
  <2>13. Attribute(w, Last(p))' # Missing
    BY <1>1, <1>3, <2>1, <2>3, <2>5, <2>7, <2>8, <2>9, <2>10 DEF Step, Success
  <2> QED
    BY <1>4, <2>10, <2>12, <2>13
<1> QED
  BY <1>5, <1>6

(* The entries of sys.modules that nothing touched are kept. *)
KeepsEntries ==
  /\ changed \subseteq changed' /\ assigned \subseteq assigned' /\ Touched \subseteq Touched'
  /\ changed' \subseteq Touched'
  /\ \A n \in Dotted : n \in DOMAIN cache /\ n \notin changed' =>
       n \in DOMAIN cache' /\ (n \notin Touched' => cache'[n] = cache[n])

LEMMA ReachedStays ==
  ASSUME TypeOK, KeepsEntries, NEW d \in Doing, Reached(d)
  PROVE  Reached(d)'
<1> SUFFICES ASSUME d.at = "importing", d.statement.form \in {"plain", "alias", "from", "star"}
             PROVE  Reached(d)'
  BY DEF Reached
<1> DEFINE want == Wanted(d.statement)
           n == d.statement.name
           done == Len(want) - Len(d.todo)
           read == Len(n) - Len(d.unread)
<1>1. /\ done \in 0 .. Len(want) /\ d.todo = SubSeq(want, done + 1, Len(want))
      /\ \A i \in 1 .. done : want[i] \notin changed => want[i] \in DOMAIN cache
      /\ read \in 1 .. Len(n) /\ d.unread = SubSeq(n, read + 1, Len(n))
      /\ d.todo # <<>> => read = 1
      /\ d.todo = <<>> /\ (\A i \in 1 .. Len(n) : SubSeq(n, 1, i) \notin Touched \cup assigned) =>
           d.leaf = cache[SubSeq(n, 1, read)]
  BY DEF Reached
<1>2. d \in InImport
  BY Doings
<1>3. n \in Dotted /\ n \in Seq(STRING) /\ Len(n) \in Nat
  BY <1>2 DEF InImport, AnyStatement, Dotted
<1>4. /\ Len(want) = Len(n) + 1 /\ want \in Seq(Dotted)
      /\ \A i \in 1 .. Len(n) : want[i] = SubSeq(n, 1, i)
  BY <1>2, <1>3, WantedNames DEF InImport, AnyStatement
<1> HIDE DEF want, n, read, done
<1>5. \A i \in 1 .. done : want[i] \notin changed' => want[i] \in DOMAIN cache'
  <2>1. \A i \in 1 .. done : want[i] \in Dotted
    BY <1>1, <1>4, ElementOfSeq
  <2> QED
    BY <1>1, <2>1 DEF KeepsEntries
<1>6. ASSUME d.todo = <<>>, \A i \in 1 .. Len(n) : SubSeq(n, 1, i) \notin (Touched \cup assigned)'
      PROVE  d.leaf = cache'[SubSeq(n, 1, read)]
  <2>1. \A i \in 1 .. Len(n) : SubSeq(n, 1, i) \notin Touched \cup assigned
    BY <1>6 DEF KeepsEntries
  <2>2. d.leaf = cache[SubSeq(n, 1, read)]
    BY <1>1, <1>6, <2>1
  <2>3. read \in 1 .. done /\ want[read] = SubSeq(n, 1, read)
    <3>1. Len(d.todo) = 0
      BY <1>6
    <3>2. done = Len(want)
      BY <3>1, <1>3, <1>4 DEF done
    <3> QED
      BY <1>1, <1>3, <1>4, <3>2
  <2>4. SubSeq(n, 1, read) \notin changed /\ SubSeq(n, 1, read) \notin Touched'
        /\ SubSeq(n, 1, read) \notin changed'
    BY <1>1, <1>6, <2>1 DEF KeepsEntries
  <2>5. SubSeq(n, 1, read) \in DOMAIN cache
    BY <1>1, <2>3, <2>4
  <2>6. SubSeq(n, 1, read) \in Dotted
    BY <1>1, <1>3, PrefixNames
  <2> QED
    BY <2>2, <2>4, <2>5, <2>6 DEF KeepsEntries
<1>7. /\ done \in 0 .. Len(want) /\ d.todo = SubSeq(want, done + 1, Len(want))
      /\ \A i \in 1 .. done : want[i] \notin changed' => want[i] \in DOMAIN cache'
      /\ read \in 1 .. Len(n) /\ d.unread = SubSeq(n, read + 1, Len(n))
      /\ d.todo # <<>> => read = 1
      /\ d.todo = <<>> /\ (\A i \in 1 .. Len(n) : SubSeq(n, 1, i) \notin (Touched \cup assigned)') =>
           d.leaf = cache'[SubSeq(n, 1, read)]
  BY <1>1, <1>5, <1>6
<1> QED
  BY <1>7 DEF Reached, want, n, read, done

LEMMA EntriesStay ==
  ASSUME NEW S, TypeOK, NEW T, NEW m, NEW f, NEW x, Entries(S, T, m, f), Attributes(S, T, x),
         Objects(S, T, f), Failure(S, m, f), NoneFailed'
  PROVE  KeepsEntries
<1>1. f \notin S
  <2> SUFFICES ASSUME f \in S PROVE FALSE
    OBVIOUS
  <2>1. State(f)' = "failed" /\ f \in Modules'
    BY DEF Failure, Objects
  <2> QED
    BY <2>1 DEF NoneFailed
<1>2. \A n \in Dotted : n \in DOMAIN cache /\ n \notin changed' =>
        n \in DOMAIN cache' /\ (n \notin overtaken' => cache'[n] = cache[n])
  BY <1>1 DEF Entries
<1> QED
  BY <1>2 DEF KeepsEntries, Touched, Entries, Attributes

LEMMA ProgressKept ==
  ASSUME NEW S, IInv(S), NEW T, NEW m, NEW d, NEW b, NEW x, NEW f, Step(S, T, m, d, b, x, f)
  PROVE  Progress'
<1> SUFFICES ASSUME NoneFailed', NEW k \in 1 .. Depth' PROVE Reached(bodies[k].doing)'
  BY DEF Progress
<1>1. /\ m \in Nat /\ m >= 1 /\ Depth \in {m, m + 1} /\ Depth' \in {m, m + 1}
      /\ \A j \in 1 .. m : bodies'[j].doing = IF j = m THEN d ELSE bodies[j].doing
      /\ Depth' = m + 1 => bodies'[m + 1] = b
      /\ NoneFailed /\ KeepsEntries
  BY FailuresStay, EntriesStay DEF Step, Shape, IInv
<1>2. PICK e : e = bodies'[k].doing
  OBVIOUS
<1>3. Reached(e)'
  <2>1. CASE k = m + 1
    <3>1. e.at # "importing"
      BY <1>1, <1>2, <2>1 DEF Step, Begun
    <3> QED
      BY <3>1 DEF Reached
  <2>2. CASE k = m
    <3>1. e = d
      BY <1>1, <1>2, <2>2
    <3> QED
      BY <3>1 DEF Step, Continued
  <2>3. CASE k # m /\ k # m + 1
    <3>1. k \in 1 .. Depth /\ e = bodies[k].doing
      BY <1>1, <1>2, <2>3
    <3>2. Reached(e) /\ e \in Doing
      BY <1>1, <3>1, ABody DEF IInv, Progress, TypeOK, Depth
    <3> QED
      BY <1>1, <3>2, ReachedStays DEF IInv
  <2> QED
    BY <2>1, <2>2, <2>3
<1> QED
  BY <1>2, <1>3

LEMMA StepKeeps ==
  ASSUME NEW S, IInv(S), NEW T, NEW m, NEW d, NEW b, NEW x, NEW f, Step(S, T, m, d, b, x, f)
  PROVE  IInv(T)' /\ Consistent'
<1>1. TypeOK' /\ Known(T)'
  BY KnownKept
<1>2. Nesting'
  BY NestingKept
<1>3. Running(T)'
  BY RunningKept
<1>4. Cached(T)' /\ Loaded(T)' /\ OneEach(T)'
  BY EntriesKept
<1>5. Publication(T)'
  BY PublicationKept
<1>6. Gone(T)'
  BY GoneKept
<1>7. Placed(T)'
  BY PlacedKept
<1>8. Told(T)'
  BY ToldKept
<1>9. Attached(T)'
  BY AttachedKept
<1>10. Progress'
  BY ProgressKept
<1>11. Entered(T)'
  BY EnteredKept
<1>12. IInv(T)'
  BY <1>1, <1>2, <1>3, <1>4, <1>5, <1>6, <1>7, <1>8, <1>9, <1>10, <1>11 DEF IInv
<1>13. T \in SUBSET Modules'
  BY <1>1 DEF Known
<1> QED
  BY <1>12, <1>13 DEF Consistent

-----------------------------------------------------------------------------
(* What the statements of a body may change. *)
Edits(S) ==
  /\ modules' \in Seq(ModuleObject) /\ Modules \subseteq Modules'
  /\ \A u \in Modules : Name(u)' = Name(u) /\ State(u)' = State(u)
  /\ \A u \in S, c \in STRING :
       /\ Attribute(u, c)' \in Values(S) \cup {Missing}
       /\ Attribute(u, c)' = Attribute(u, c) \/ Append(Name(u), c) \in assigned'
  /\ \A u \in Modules' \ S, c \in STRING : Attribute(u, c)' = Missing
  /\ DOMAIN cache' \subseteq Dotted
  /\ \A n \in DOMAIN cache' : cache'[n] \in Values(S)
  /\ \A n : n \notin changed' =>
       /\ n \in DOMAIN cache' <=> n \in DOMAIN cache
       /\ n \in DOMAIN cache => cache'[n] = cache[n]
  /\ changed \subseteq changed' /\ assigned \subseteq assigned'
  /\ namespaces' = namespaces /\ overtaken' = overtaken

(* Bodies may begin and end meanwhile, if no module is loaded by them. *)
LEMMA EditsAreSteps ==
  ASSUME NEW S, IInv(S), Edits(S), NEW m, NEW d, NEW b, Shape(m, d, b), Continued(S, m, d),
         Begun(S, S, m, b), Depth' = m + 1 => b.module = None,
         Depth = m + 1 => bodies[m + 1].module = None
  PROVE  Consistent'
<1>1. None \notin S /\ S \subseteq Modules
  BY SoundModules DEF IInv, Known
<1>2. Objects(S, S, None) /\ Attributes(S, S, None)
  <2>1. State(Main)' = "ready"
    BY <1>1 DEF Edits, IInv, Known
  <2> QED
    BY <1>1, <2>1 DEF Edits, Objects, Attributes
<1>3. Entries(S, S, m, None)
  <2>1. namespaces' \in Seq(Nat) /\ \A k \in 1 .. Len(namespaces') : namespaces'[k] \in S
    BY DEF Edits, IInv, TypeOK, Known
  <2> QED
    BY <2>1 DEF Edits, Entries
<1>4. Runs(S, S, m, b)
  BY <1>1 DEF Edits, Runs
<1>5. Failure(S, m, None) /\ Success(S, m, None)
  <2>1. ASSUME Depth = m + 1 PROVE bodies[m + 1].doing.at # "publishing"
    <3>1. m \in Nat /\ m >= 1 /\ m + 1 \in 2 .. Depth
      BY <2>1 DEF Shape
    <3>2. Under(m + 1)
      BY <3>1 DEF IInv, Nesting
    <3> QED
      BY <2>1, <3>2 DEF Under, Loading
  <2> QED
    BY <1>1, <2>1 DEF Failure, Success
<1>6. Step(S, S, m, d, b, None, None)
  BY <1>2, <1>3, <1>4, <1>5 DEF Step
<1> QED
  BY <1>6, StepKeeps

(* The innermost body goes on. *)
LEMMA EditsKeep ==
  ASSUME NEW S, IInv(S), Edits(S), NEW d \in Doing, Refers(S, d), bodies' = Now(d),
         ~Loading(d), ~Loading(Body.doing), NoneFailed' => Reached(d)'
  PROVE  Consistent'
<1>1. PICK m \in Nat : m = Depth /\ m >= 1
  BY Sizes DEF IInv, Nesting
<1>2. Shape(m, d, None) /\ Depth' = m
  BY <1>1, ShapeOfTurn DEF IInv
<1>3. Continued(S, m, d)
  BY <1>1 DEF Continued, Body
<1>4. Begun(S, S, m, None)
  BY <1>1, <1>2 DEF Begun
<1> QED
  BY <1>1, <1>2, <1>3, <1>4, EditsAreSteps

LEMMA StaysPut ==
  ASSUME NEW S, TypeOK, Known(S), UNCHANGED <<modules, cache, namespaces, changed, assigned, overtaken>>
  PROVE  Edits(S)
<1>1. /\ modules' \in Seq(ModuleObject)
      /\ Modules' = Modules /\ S \subseteq Modules
      /\ \A u : Name(u)' = Name(u) /\ State(u)' = State(u)
      /\ \A u, c : Attribute(u, c)' = Attribute(u, c)
  BY Sizes DEF Known, Attribute, IsModule, Modules, Name, State
<1> QED
  BY <1>1 DEF Edits, TypeOK, Known

LEMMA AttributesEdited ==
  ASSUME NEW S, TypeOK, Known(S), UNCHANGED <<cache, namespaces, changed, overtaken>>, assigned \subseteq assigned',
         NEW w \in S, NEW A \in Namespace, modules' = Put(modules, w, A),
         \A c \in DOMAIN A : A[c] \in Values(S),
         \A c \in STRING :
           \/ Append(Name(w), c) \in assigned'
           \/ (IF c \in DOMAIN A THEN A[c] ELSE Missing) = Attribute(w, c)
  PROVE  Edits(S)
<1>0. S \subseteq Modules
  BY DEF Known
<1>1. /\ SameObjects(modules, modules')
      /\ \A u \in Modules : /\ modules'[u].state = modules[u].state
                            /\ modules'[u].attributes = IF u = w THEN A ELSE modules[u].attributes
  <2>1. modules \in Seq(ModuleObject) /\ Modules = 1 .. Len(modules) /\ w \in 1 .. Len(modules)
    BY <1>0, Sizes
  <2> DEFINE new == Put(modules, w, A)
  <2>2. /\ SameObjects(modules, new)
        /\ \A u \in 1 .. Len(modules) :
             /\ new[u].state = modules[u].state
             /\ new[u].attributes = IF u = w THEN A ELSE modules[u].attributes
    BY <2>1, Assigns
  <2>3. modules' = new
    OBVIOUS
  <2> HIDE DEF new
  <2> QED
    BY <2>1, <2>2, <2>3
<1>2. Modules' = Modules /\ modules' \in Seq(ModuleObject)
  BY <1>1 DEF Modules, SameObjects
<1>3. \A u \in Modules : Name(u)' = Name(u) /\ State(u)' = State(u)
  BY <1>1 DEF Name, State, SameObjects, Modules
<1>4. ASSUME NEW u \in S, NEW c \in STRING
      PROVE  /\ Attribute(u, c)' \in Values(S) \cup {Missing}
             /\ Attribute(u, c)' = Attribute(u, c) \/ Append(Name(u), c) \in assigned'
  <2>1. CASE u = w
    <3>1. Attribute(u, c)' = IF c \in DOMAIN A THEN A[c] ELSE Missing
      BY <1>0, <1>1, <1>2, <2>1 DEF Attribute, IsModule
    <3> QED
      BY <2>1, <3>1
  <2>2. CASE u # w
    <3>1. Attribute(u, c)' = Attribute(u, c)
      BY <1>0, <1>1, <1>2, <2>2 DEF Attribute, IsModule
    <3> QED
      BY <3>1 DEF Known
  <2> QED
    BY <2>1, <2>2
<1>5. ASSUME NEW u \in Modules \ S, NEW c \in STRING PROVE Attribute(u, c)' = Missing
  <2>1. Attribute(u, c)' = Attribute(u, c)
    BY <1>1, <1>2 DEF Attribute, IsModule
  <2> QED
    BY <2>1 DEF Known
<1> QED
  BY <1>2, <1>3, <1>4, <1>5 DEF Edits, TypeOK, Known

LEMMA AttributesKnown ==
  ASSUME NEW S, TypeOK, Known(S), NEW w \in S
  PROVE  /\ modules[w].attributes \in Namespace /\ DOMAIN modules[w].attributes \subseteq STRING
         /\ \A d \in DOMAIN modules[w].attributes : modules[w].attributes[d] \in Values(S)
<1>0. w \in Modules
  BY DEF Known
<1>1. modules[w] \in ModuleObject
  BY <1>0, Sizes, ElementOfSeq
<1>2. modules[w].attributes \in Namespace
  BY <1>1 DEF ModuleObject
<1>3. /\ DOMAIN modules[w].attributes \subseteq STRING
      /\ \A d \in DOMAIN modules[w].attributes : modules[w].attributes[d] \in Reference
  BY <1>2, Namespaces
<1>4. ASSUME NEW d \in DOMAIN modules[w].attributes PROVE modules[w].attributes[d] \in Values(S)
  <2>1. Attribute(w, d) = modules[w].attributes[d]
    BY <1>0 DEF Attribute, IsModule
  <2>2. d \in STRING /\ modules[w].attributes[d] # Missing
    BY <1>3 DEF Reference
  <2> QED
    BY <2>1, <2>2 DEF Known
<1> QED
  BY <1>2, <1>3, <1>4

LEMMA AttributeSet ==
  ASSUME NEW S, TypeOK, Known(S), UNCHANGED <<cache, namespaces, changed, overtaken>>, assigned \subseteq assigned',
         NEW w \in S, NEW c \in STRING, Append(Name(w), c) \in assigned',
         NEW v \in Values(S), modules' = SetAttribute(modules, w, c, v)
  PROVE  Edits(S)
<1> DEFINE old == modules[w].attributes
           A == With(modules[w].attributes, c, v)
<1>1. old \in Namespace /\ DOMAIN old \subseteq STRING /\ \A d \in DOMAIN old : old[d] \in Values(S)
  BY AttributesKnown
<1>2. v \in Reference
  BY SoundModules DEF Reference
<1>3. A \in Namespace
  BY <1>1, <1>2, Namespaces
<1>4. modules' = Put(modules, w, A)
  BY DEF SetAttribute, Put
<1>5. \A d : /\ d \in DOMAIN A <=> d \in DOMAIN old \/ d = c
             /\ d = c => A[d] = v
             /\ d # c /\ d \in DOMAIN A => A[d] = old[d]
  BY DEF With
<1>6. \A d : Attribute(w, d) = IF d \in DOMAIN old THEN old[d] ELSE Missing
  BY DEF Attribute, IsModule, Known
<1> HIDE DEF A, old
<1>7. \A d \in DOMAIN A : A[d] \in Values(S)
  BY <1>1, <1>5
<1>8. \A d \in STRING : Append(Name(w), d) \in assigned'
                        \/ (IF d \in DOMAIN A THEN A[d] ELSE Missing) = Attribute(w, d)
  BY <1>5, <1>6
<1> QED
  BY <1>3, <1>4, <1>7, <1>8, AttributesEdited

LEMMA AttributeDeleted ==
  ASSUME NEW S, TypeOK, Known(S), UNCHANGED <<cache, namespaces, changed, overtaken>>, assigned \subseteq assigned',
         NEW w \in S, NEW c \in STRING, Append(Name(w), c) \in assigned',
         modules' = Put(modules, w, Without(modules[w].attributes, c))
  PROVE  Edits(S)
<1> DEFINE old == modules[w].attributes
           A == Without(modules[w].attributes, c)
<1>1. old \in Namespace /\ DOMAIN old \subseteq STRING /\ \A d \in DOMAIN old : old[d] \in Values(S)
  BY AttributesKnown
<1>3. A \in Namespace
  BY <1>1, Namespaces
<1>4. modules' = Put(modules, w, A)
  OBVIOUS
<1>5. \A d : /\ d \in DOMAIN A <=> d \in DOMAIN old /\ d # c
             /\ d \in DOMAIN A => A[d] = old[d]
  BY DEF Without, Restrict
<1>6. \A d : Attribute(w, d) = IF d \in DOMAIN old THEN old[d] ELSE Missing
  BY DEF Attribute, IsModule, Known
<1> HIDE DEF A, old
<1>7. \A d \in DOMAIN A : A[d] \in Values(S)
  BY <1>1, <1>5
<1>8. \A d \in STRING : Append(Name(w), d) \in assigned'
                        \/ (IF d \in DOMAIN A THEN A[d] ELSE Missing) = Attribute(w, d)
  BY <1>5, <1>6
<1> QED
  BY <1>3, <1>4, <1>7, <1>8, AttributesEdited

LEMMA AttributesOverlaid ==
  ASSUME NEW S, TypeOK, Known(S), UNCHANGED <<cache, namespaces, changed, overtaken>>,
         NEW w \in S, NEW v \in S,
         modules' = Put(modules, w, Overlaid(modules[w].attributes, modules[v].attributes)),
         assigned' = assigned \cup {Append(Name(w), c) : c \in DOMAIN modules[v].attributes}
  PROVE  Edits(S)
<1> DEFINE old == modules[w].attributes
           more == modules[v].attributes
           A == Overlaid(modules[w].attributes, modules[v].attributes)
<1>1. /\ old \in Namespace /\ DOMAIN old \subseteq STRING /\ \A d \in DOMAIN old : old[d] \in Values(S)
  BY AttributesKnown
<1>2. more \in Namespace /\ DOMAIN more \subseteq STRING /\ \A d \in DOMAIN more : more[d] \in Values(S)
  BY AttributesKnown
<1>3. A \in Namespace
  BY <1>1, <1>2, Namespaces
<1>4. modules' = Put(modules, w, A)
  OBVIOUS
<1>5. \A d : /\ d \in DOMAIN A <=> d \in DOMAIN old \/ d \in DOMAIN more
             /\ d \in DOMAIN A => A[d] = IF d \in DOMAIN more THEN more[d] ELSE old[d]
  BY DEF Overlaid
<1>6. \A d : Attribute(w, d) = IF d \in DOMAIN old THEN old[d] ELSE Missing
  BY DEF Attribute, IsModule, Known
<1>9. assigned' = assigned \cup {Append(Name(w), c) : c \in DOMAIN more}
  OBVIOUS
<1> HIDE DEF A, old, more
<1>7. \A d \in DOMAIN A : A[d] \in Values(S)
  BY <1>1, <1>2, <1>5
<1>8. \A d \in STRING : Append(Name(w), d) \in assigned'
                        \/ (IF d \in DOMAIN A THEN A[d] ELSE Missing) = Attribute(w, d)
  BY <1>5, <1>6, <1>9
<1>10. assigned \subseteq assigned'
  BY <1>9
<1> QED
  BY <1>3, <1>4, <1>7, <1>8, <1>10, AttributesEdited

LEMMA CacheEdited ==
  ASSUME NEW S, TypeOK, Known(S), UNCHANGED <<modules, namespaces, assigned, overtaken>>, NEW n \in Names,
         changed' = changed \cup {n},
         \/ \E v \in Values(S) : cache' = With(cache, n, v)
         \/ cache' = Without(cache, n)
  PROVE  Edits(S)
<1>1. /\ modules' \in Seq(ModuleObject)
      /\ Modules' = Modules /\ S \subseteq Modules
      /\ \A u : Name(u)' = Name(u) /\ State(u)' = State(u)
      /\ \A u, c : Attribute(u, c)' = Attribute(u, c)
  BY Sizes DEF Known, Attribute, IsModule, Modules, Name, State
<1>2. /\ DOMAIN cache' \subseteq Dotted
      /\ \A m \in DOMAIN cache' : cache'[m] \in Values(S)
      /\ \A m : m # n => /\ m \in DOMAIN cache' <=> m \in DOMAIN cache
                         /\ m \in DOMAIN cache => cache'[m] = cache[m]
  <2>1. n \in Dotted
    BY Sizes
  <2>2. CASE \E v \in Values(S) : cache' = With(cache, n, v)
    <3>1. PICK v \in Values(S) : cache' = With(cache, n, v)
      BY <2>2
    <3> QED
      BY <2>1, <3>1 DEF With, TypeOK, Known
  <2>3. CASE cache' = Without(cache, n)
    BY <2>1, <2>3 DEF Without, Restrict, TypeOK, Known
  <2> QED
    BY <2>2, <2>3
<1> QED
  BY <1>1, <1>2 DEF Edits, Known

-----------------------------------------------------------------------------
(* Statements *)

LEMMA Inside ==
  ASSUME NEW S, IInv(S)
  PROVE  /\ Depth \in Nat /\ Depth > 0 /\ Body \in BodyRecord /\ Body.doing \in Doing
         /\ Body.module \in S \cup {None} /\ Refers(S, Body.doing) /\ Last(bodies) = Body
         /\ Body.doing.at = "importing" =>
              /\ Body.doing \in InImport
              /\ {Body.doing.value, Body.doing.leaf, Body.doing.package} \subseteq Values(S)
<1>1. Depth \in Nat /\ Depth > 0 /\ Depth \in 1 .. Depth
  BY Sizes DEF IInv, Nesting
<1>2. /\ Body \in BodyRecord /\ Body.doing \in Doing
      /\ Body.doing.at = "importing" => Body.doing \in InImport
  BY <1>1, ABody, Doings DEF IInv, TypeOK, Body, Depth
<1>3. Body.module \in S \cup {None} /\ Refers(S, Body.doing)
  BY <1>1 DEF IInv, Known, Body
<1>4. Last(bodies) = Body
  BY DEF Last, Body, Depth
<1> QED
  BY <1>1, <1>2, <1>3, <1>4 DEF Refers

LEMMA Rests ==
  ASSUME NEW S, NEW d \in {Idle, Raised, Reloading}
  PROVE  d \in Doing /\ Refers(S, d) /\ Reached(d) /\ Reached(d)' /\ ~Loading(d)
<1>1. d.at \notin {"importing", "creating", "publishing"}
  BY DEF Idle, Raised, Reloading
<1> QED
  BY <1>1 DEF Doing, Refers, Reached, Loading

LEMMA EditAndRest ==
  ASSUME NEW S, IInv(S), Edits(S), NEW d \in {Idle, Raised}, bodies' = Now(d), ~Loading(Body.doing)
  PROVE  Consistent'
<1>1. d \in Doing /\ Refers(S, d) /\ Reached(d)' /\ ~Loading(d)
  BY Rests
<1> QED
  BY <1>1, EditsKeep

(* A statement begins while the body is idle, or goes on. *)
LEMMA NotLoading ==
  /\ Body.doing \in {Idle, Raised} => ~Loading(Body.doing)
  /\ Body.doing.at = "importing" => ~Loading(Body.doing)
  BY DEF Idle, Raised, Loading

LEMMA GlobalsAreOfAModule ==
  ASSUME NEW S, IInv(S)
  PROVE  Globals \in S
<1>1. CASE namespaces = <<>>
  BY <1>1 DEF IInv, Known, Globals
<1>2. CASE namespaces # <<>>
  <2>1. Len(namespaces) \in 1 .. Len(namespaces)
    BY <1>2, EmptySeq DEF IInv, TypeOK
  <2> QED
    BY <1>2, <2>1 DEF IInv, Known, Globals, Last
<1> QED
  BY <1>1, <1>2

LEMMA AttributeValues ==
  ASSUME NEW S, IInv(S), NEW v, NEW c \in STRING, Attribute(v, c) # Missing
  PROVE  v \in S /\ Attribute(v, c) \in Values(S)
<1>1. v \in Modules
  BY AttributeAt
<1> QED
  BY <1>1 DEF IInv, Known

LEMMA StartImportKeeps ==
  ASSUME NEW S, IInv(S), NEW s \in Statements, StartImport(s)
  PROVE  Consistent'
<1> DEFINE d == Importing(s, Wanted(s), "registered", None)
<1>1. /\ s \in [form : Form, name : Dotted, item : STRING]
      /\ s.name \in Dotted /\ s.form \in Form /\ s \in AnyStatement
  BY ConstantsAssumption DEF AnyStatement
<1>2. bodies' = Now(d) /\ UNCHANGED <<modules, cache, namespaces, changed, assigned, overtaken>>
  BY DEF StartImport, Executes
<1>3. /\ Reads(s) \in Seq(STRING)
      /\ s.form \in {"plain", "alias", "from", "star"} => Reads(s) = Tail(s.name)
  <2>1. Tail(s.name) \in Seq(STRING)
    BY <1>1, Dots
  <2>2. <<>> \in Seq(STRING)
    BY EmptySeq
  <2> QED
    BY <2>1, <2>2 DEF Reads
<1>4. Wanted(s) \in Seq(Dotted)
  <2>1. CASE s.form # "call"
    BY <1>1, <2>1, WantedNames
  <2>2. CASE s.form = "call"
    BY <1>1, <2>2, PrefixNames DEF Wanted
  <2> QED
    BY <2>1, <2>2
<1>5. d \in InImport
  BY <1>1, <1>3, <1>4 DEF Importing, InImport, None
<1>6. Refers(S, d)
  BY DEF Refers, Importing, Values, Kind
<1>7. Reached(d)'
  <2> SUFFICES ASSUME s.form \in {"plain", "alias", "from", "star"} PROVE Reached(d)'
    BY DEF Reached, Importing
  <2> DEFINE want == Wanted(s)
             n == s.name
  <2>1. /\ want \in Seq(Dotted) /\ Len(want) = Len(n) + 1
    BY <1>1, WantedNames
  <2>2. n \in Seq(STRING) /\ Len(n) \in Nat /\ Len(n) >= 1 /\ Tail(n) \in Seq(STRING) /\ Len(Tail(n)) = Len(n) - 1
    BY <1>1, Dots DEF Dotted
  <2>3. d.at = "importing" /\ d.statement = s /\ d.todo = want /\ d.unread = Tail(n) /\ want # <<>>
    <3>1. Len(want) # 0
      BY <2>1, <2>2
    <3>2. want # <<>>
      BY <3>1
    <3> QED
      BY <1>3, <3>2 DEF Importing
  <2> HIDE DEF want, d
  <2>4. want = SubSeq(want, 1, Len(want))
    BY <2>1, SubSeqFull
  <2>5. Tail(n) = SubSeq(n, 2, Len(n))
    BY <2>2, TailIsSubSeq
  <2> HIDE DEF n
  <2>6. /\ Len(want) - Len(d.todo) = 0 /\ Len(n) - Len(d.unread) = 1
    BY <2>1, <2>2, <2>3
  <2>7. d.statement.name = n /\ Wanted(d.statement) = want
    BY <2>3 DEF n, want
  <2> QED
    BY <2>1, <2>2, <2>3, <2>4, <2>5, <2>6, <2>7 DEF Reached
<1> HIDE DEF d
<1>8. d \in Doing /\ ~Loading(d) /\ ~Loading(Body.doing) /\ Edits(S)
  <2>1. Body.doing = Idle
    BY DEF StartImport, Executes
  <2> QED
    BY <1>2, <1>5, <2>1, StaysPut, NotLoading DEF Doing, IInv, InImport, Loading
<1> QED
  BY <1>2, <1>6, <1>7, <1>8, EditsKeep

LEMMA StatementRaisesKeeps ==
  ASSUME NEW S, IInv(S), StatementRaises \/ Handle
  PROVE  Consistent'
<1>1. /\ UNCHANGED <<modules, cache, namespaces, changed, assigned, overtaken>> /\ ~Loading(Body.doing)
      /\ \E d \in {Idle, Raised} : bodies' = Now(d)
  BY NotLoading DEF StatementRaises, Handle, Executes
<1> QED
  BY <1>1, StaysPut, EditAndRest DEF IInv

LEMMA HeldModules ==
  ASSUME NEW S, IInv(S)
  PROVE  Held \subseteq S /\ Components \subseteq STRING
<1>1. Components \subseteq STRING
  <2>1. \A n \in Names : n \in Dotted
    BY ConstantsAssumption
  <2>2. \A n \in Names : Last(n) \in STRING /\ Head(n) \in STRING
    BY <2>1, Dots
  <2> QED
    BY <2>2 DEF Components
<1>2. ASSUME NEW v \in Held PROVE v \in S
  <2>1. v \in Modules /\ v # Value /\ v # None /\ v # Missing
    <3>1. v \in Nat /\ v \in Modules /\ Modules = 1 .. Len(modules)
      BY Sizes DEF Held, IInv
    <3> QED
      BY <3>1 DEF Value, None, Missing
  <2>2. CASE \E n \in DOMAIN cache : cache[n] = v
    BY <2>1, <2>2 DEF IInv, Known, Values
  <2>3. CASE \E w \in Modules : \E c \in DOMAIN modules[w].attributes : modules[w].attributes[c] = v
    <3>1. PICK w \in Modules : \E c \in DOMAIN modules[w].attributes : modules[w].attributes[c] = v
      BY <2>3
    <3>2. PICK c \in DOMAIN modules[w].attributes : modules[w].attributes[c] = v
      BY <3>1
    <3>3. c \in STRING
      <4>1. modules[w] \in ModuleObject
        BY Sizes, ElementOfSeq DEF IInv
      <4>2. modules[w].attributes \in Namespace
        BY <4>1 DEF ModuleObject
      <4> QED
        BY <4>2, Namespaces
    <3>4. Attribute(w, c) = v
      BY <3>2 DEF Attribute, IsModule
    <3>5. Attribute(w, c) \in Values(S)
      BY <2>1, <3>3, <3>4, AttributeValues
    <3> QED
      BY <2>1, <3>4, <3>5 DEF Values
  <2> QED
    BY <2>2, <2>3 DEF Held
<1> QED
  BY <1>1, <1>2

LEMMA AssignAttributeKeeps ==
  ASSUME NEW S, IInv(S), NEW v \in Held, NEW c \in Components, AssignAttribute(v, c)
  PROVE  Consistent'
<1>1. /\ v \in S /\ c \in STRING /\ Value \in Values(S)
      /\ ~Loading(Body.doing) /\ bodies' = Now(Idle) /\ modules' = SetAttribute(modules, v, c, Value)
      /\ assigned' = assigned \cup {Append(Name(v), c)} /\ UNCHANGED <<cache, namespaces, changed, overtaken>>
  BY HeldModules, NotLoading DEF AssignAttribute, Executes, Values, Name
<1>2. Edits(S)
  BY <1>1, AttributeSet DEF IInv
<1> QED
  BY <1>1, <1>2, EditAndRest

LEMMA DeleteAttributeKeeps ==
  ASSUME NEW S, IInv(S), NEW v \in Held, NEW c \in Components, DeleteAttribute(v, c)
  PROVE  Consistent'
<1>1. /\ v \in S /\ c \in STRING
      /\ ~Loading(Body.doing) /\ bodies' = Now(Idle) /\ modules' = Put(modules, v, Without(modules[v].attributes, c))
      /\ assigned' = assigned \cup {Append(Name(v), c)} /\ UNCHANGED <<cache, namespaces, changed, overtaken>>
  BY HeldModules, NotLoading DEF DeleteAttribute, Executes, Name, Put
<1>2. Edits(S)
  BY <1>1, AttributeDeleted DEF IInv
<1> QED
  BY <1>1, <1>2, EditAndRest

LEMMA CacheStatementsKeep ==
  ASSUME NEW S, IInv(S), NEW n \in Names, DeleteCache(n) \/ \E v \in Held \cup {None, Value} : AssignCache(n, v)
  PROVE  Consistent'
<1>1. /\ ~Loading(Body.doing) /\ bodies' = Now(Idle) /\ UNCHANGED <<modules, namespaces, assigned, overtaken>>
      /\ changed' = changed \cup {n}
      /\ cache' = Without(cache, n) \/ \E v \in Values(S) : cache' = With(cache, n, v)
  BY HeldModules, NotLoading DEF DeleteCache, AssignCache, Executes, Values
<1>2. Edits(S)
  BY <1>1, CacheEdited DEF IInv
<1> QED
  BY <1>1, <1>2, EditAndRest

-----------------------------------------------------------------------------
(* Import statements *)

(* An import statement receives the module of the next name that it wants. *)
LEMMA ReachedReceives ==
  ASSUME KeepsEntries, NEW d \in InImport, d.todo # <<>>, Reached(d), NEW v \in Int,
         Head(d.todo) \notin changed' => Head(d.todo) \in DOMAIN cache',
         Head(d.todo) \notin Touched' => v = cache'[Head(d.todo)],
         NEW e, e = Received(d, v)
  PROVE  Reached(e)'
<1> SUFFICES ASSUME d.statement.form \in {"plain", "alias", "from", "star"} PROVE Reached(e)'
  <2>1. d.at = "importing" /\ d \in Doing
    BY DEF InImport, Doing
  <2>2. e.statement = d.statement
    BY <2>1, Receives
  <2> QED
    BY <2>2 DEF Reached
<1> DEFINE want == Wanted(d.statement)
           n == d.statement.name
           done == Len(want) - Len(d.todo)
           read == Len(n) - Len(d.unread)
<1>1. /\ d.at = "importing" /\ d \in Doing /\ d.todo \in Seq(Dotted) /\ d.unread \in Seq(STRING)
      /\ d.statement \in AnyStatement
  BY DEF InImport, Doing
<1>2. /\ e.at = "importing" /\ e.todo = Tail(d.todo) /\ e.leaf = v
      /\ e.statement = d.statement /\ e.unread = d.unread
  <2>1. e \in InImport
    BY <1>1, Receives
  <2>2. e.at = "importing"
    BY <2>1 DEF InImport
  <2> QED
    BY <1>1, <2>2, Receives
<1>3. /\ done \in 0 .. Len(want) /\ d.todo = SubSeq(want, done + 1, Len(want))
      /\ \A i \in 1 .. done : want[i] \notin changed => want[i] \in DOMAIN cache
      /\ read \in 1 .. Len(n) /\ d.unread = SubSeq(n, read + 1, Len(n))
      /\ read = 1
  BY <1>1 DEF Reached
<1>4. n \in Dotted /\ n \in Seq(STRING) /\ Len(n) \in Nat
  BY <1>1, Dots DEF AnyStatement, Dotted
<1>5. /\ want \in Seq(Dotted) /\ Len(want) = Len(n) + 1 /\ \A i \in 1 .. Len(n) : want[i] = SubSeq(n, 1, i)
      /\ want[Len(n) + 1] = SubSeq(n, 1, 1)
  BY <1>1, <1>4, WantedNames DEF AnyStatement
<1>6. /\ Len(d.todo) \in Nat /\ Len(d.todo) >= 1 /\ Len(Tail(d.todo)) = Len(d.todo) - 1
      /\ Head(d.todo) = d.todo[1]
  BY <1>1
<1> HIDE DEF want, n, read
<1>7. done + 1 \in 1 .. Len(want) /\ done \in Nat /\ Len(want) - Len(e.todo) = done + 1
  <2>1. /\ Len(want) \in Nat /\ Len(d.todo) \in Nat /\ Len(d.todo) >= 1 /\ Len(e.todo) = Len(d.todo) - 1
        /\ done >= 0 /\ done = Len(want) - Len(d.todo)
    BY <1>2, <1>3, <1>4, <1>5, <1>6
  <2> QED
    BY <2>1
<1>8. Len(want) - Len(e.todo) = done + 1
  BY <1>7
<1> HIDE DEF done
<1>9. Head(d.todo) = want[done + 1]
  <2>1. want \in Seq(Dotted) /\ Len(want) \in Nat /\ done + 1 \in 1 .. Len(want) /\ done \in Nat
    BY <1>4, <1>5, <1>7
  <2>2. SubSeq(want, done + 1, Len(want))[1] = want[done + 1]
    BY <2>1
  <2> QED
    BY <1>3, <1>6, <2>2
<1>10. e.todo = SubSeq(want, done + 2, Len(want))
  <2>1. Tail(SubSeq(want, done + 1, Len(want))) = SubSeq(want, done + 2, Len(want))
    BY <1>4, <1>5, <1>7, TailOfSubSeq
  <2> QED
    BY <1>2, <1>3, <2>1
<1>11. \A i \in 1 .. done + 1 : want[i] \notin changed' => want[i] \in DOMAIN cache'
  <2> SUFFICES ASSUME NEW i \in 1 .. done + 1, want[i] \notin changed' PROVE want[i] \in DOMAIN cache'
    OBVIOUS
  <2>1. CASE i = done + 1
    BY <1>9, <2>1
  <2>2. CASE i # done + 1
    <3>1. i \in 1 .. done
      BY <1>7, <2>2
    <3>2. want[i] \notin changed
      BY DEF KeepsEntries
    <3>3. want[i] \in Dotted
      BY <1>3, <1>5, <3>1, ElementOfSeq
    <3> QED
      BY <1>3, <3>1, <3>2, <3>3 DEF KeepsEntries
  <2> QED
    BY <2>1, <2>2
<1>12. ASSUME e.todo = <<>>, \A i \in 1 .. Len(n) : SubSeq(n, 1, i) \notin (Touched \cup assigned)'
       PROVE  e.leaf = cache'[SubSeq(n, 1, read)]
  <2>1. Len(e.todo) = 0
    BY <1>12
  <2>2. done + 1 = Len(n) + 1
    BY <1>4, <1>5, <1>7, <1>8, <2>1
  <2>3. Head(d.todo) = SubSeq(n, 1, 1)
    BY <1>5, <1>9, <2>2
  <2>4. Head(d.todo) \notin Touched'
    BY <1>3, <1>12, <2>3
  <2> QED
    BY <1>2, <1>3, <2>3, <2>4
<1>13. /\ done + 1 \in 0 .. Len(want) /\ e.todo = SubSeq(want, done + 1 + 1, Len(want))
       /\ Len(n) - Len(e.unread) = read
       /\ e.unread = SubSeq(n, read + 1, Len(n)) /\ read \in 1 .. Len(n) /\ read = 1
  <2>1. done + 1 \in 0 .. Len(want) /\ done + 2 = done + 1 + 1
    BY <1>7
  <2>2. Len(n) - Len(e.unread) = read
    BY <1>2 DEF read
  <2> QED
    BY <1>2, <1>3, <1>10, <2>1, <2>2
<1>14. e.statement.name = n /\ Wanted(e.statement) = want
  BY <1>2 DEF n, want
<1> QED
  BY <1>8, <1>11, <1>12, <1>13, <1>14 DEF Reached

LEMMA OtherForms ==
  ASSUME NEW d, d.statement.form \in {"call", "item", "listed"}
  PROVE  Reached(d) /\ Reached(d)'
  BY DEF Reached

LEMMA InsideReached ==
  ASSUME NEW S, IInv(S), NoneFailed
  PROVE  Reached(Body.doing)
  BY Inside DEF IInv, Progress, Body

LEMMA Untouched ==
  ASSUME UNCHANGED <<cache, changed, assigned, overtaken>>
  PROVE  KeepsEntries /\ Touched' = Touched
  BY DEF KeepsEntries, Touched

LEMMA Unfailed ==
  ASSUME UNCHANGED modules
  PROVE  NoneFailed' = NoneFailed
  BY DEF NoneFailed, State, Modules

LEMMA ImportCachedKeeps ==
  ASSUME NEW S, IInv(S), Body.doing.at = "importing", Body.doing.todo # <<>>,
         ImportCached(Head(Body.doing.todo)) \/ ImportUnknown(Head(Body.doing.todo))
  PROVE  Consistent'
<1>1. UNCHANGED <<modules, cache, namespaces, changed, assigned, overtaken>>
  BY DEF ImportCached, ImportUnknown
<1>2. Edits(S) /\ KeepsEntries /\ NoneFailed' = NoneFailed /\ ~Loading(Body.doing)
  BY <1>1, StaysPut, Untouched, Unfailed, NotLoading DEF IInv
<1>3. CASE bodies' = Now(Raised)
  BY <1>2, <1>3, EditAndRest
<1>4. CASE bodies' # Now(Raised)
  <2>1. PICK d \in InImport : d = Body.doing
    BY Inside
  <2>2. PICK n : n = Head(d.todo)
    OBVIOUS
  <2>3. n \in DOMAIN cache /\ bodies' = Yields(bodies, cache[n])
    BY <1>4, <2>1, <2>2 DEF ImportCached, ImportUnknown, Raise
  <2>4. PICK v \in Values(S) : v = cache[n]
    BY <2>3 DEF IInv, Known
  <2>5. PICK e : e = Received(d, v)
    OBVIOUS
  <2>6. bodies' = Now(e)
    BY <2>1, <2>3, <2>4, <2>5, Inside DEF Yields, Now
  <2>7. v \in Int /\ d.at = "importing" /\ d \in Doing /\ d.todo # <<>>
    BY <2>1, SoundModules DEF IInv, InImport, Doing
  <2>8. e \in InImport /\ e \in Doing /\ e.value = v /\ e.leaf = v /\ e.package = d.package
        /\ e.todo = Tail(d.todo) /\ e.given = d.given
    BY <2>1, <2>5, <2>7, Receives
  <2>9. Refers(S, e) /\ ~Loading(e)
    <3>1. Refers(S, d)
      BY <2>1, Inside
    <3>2. d.given # "registered" => Tail(d.todo) \in Seq(Named)
      BY <2>7, <3>1, HeadTailProperties DEF Refers
    <3> QED
      BY <2>7, <2>8, <3>1, <3>2 DEF Refers, InImport, Loading
  <2>10. NoneFailed' => Reached(e)'
    BY <1>1, <1>2, <2>1, <2>2, <2>3, <2>4, <2>5, <2>7, InsideReached, ReachedReceives
  <2> QED
    BY <1>2, <2>6, <2>8, <2>9, <2>10, EditsKeep
<1> QED
  BY <1>3, <1>4

LEMMA ReachedReads ==
  ASSUME NEW S, IInv(S), NoneFailed, UNCHANGED <<cache, changed, assigned, overtaken>>, NEW d \in InImport, Reached(d),
         d.todo = <<>>, d.unread # <<>>,
         NEW e \in InImport, e.leaf = Attribute(d.leaf, Head(d.unread)), e.leaf # Missing,
         e.todo = <<>>, e.unread = Tail(d.unread), e.statement = d.statement
  PROVE  Reached(e)'
<1> SUFFICES ASSUME d.statement.form \in {"plain", "alias", "from", "star"} PROVE Reached(e)'
  BY DEF Reached
<1> DEFINE want == Wanted(d.statement)
           n == d.statement.name
           done == Len(want) - Len(d.todo)
           read == Len(n) - Len(d.unread)
<1>1. /\ d.at = "importing" /\ d.unread \in Seq(STRING) /\ d.statement \in AnyStatement
  BY DEF InImport
<1>3. /\ done \in 0 .. Len(want) /\ d.todo = SubSeq(want, done + 1, Len(want))
      /\ \A i \in 1 .. done : want[i] \notin changed => want[i] \in DOMAIN cache
      /\ read \in 1 .. Len(n) /\ d.unread = SubSeq(n, read + 1, Len(n))
      /\ d.todo = <<>> /\ (\A i \in 1 .. Len(n) : SubSeq(n, 1, i) \notin Touched \cup assigned) =>
           d.leaf = cache[SubSeq(n, 1, read)]
  BY <1>1 DEF Reached
<1>4. n \in Dotted /\ n \in Seq(STRING) /\ Len(n) \in Nat
  BY <1>1, Dots DEF AnyStatement, Dotted
<1>5. /\ want \in Seq(Dotted) /\ Len(want) = Len(n) + 1
      /\ \A i \in 1 .. Len(n) : want[i] = SubSeq(n, 1, i)
  BY <1>1, <1>4, WantedNames DEF AnyStatement
<1>7. done = Len(n) + 1
  <2>1. Len(d.todo) = 0
    OBVIOUS
  <2> QED
    BY <1>4, <1>5, <2>1
<1> HIDE DEF want, done
<1>8. /\ read + 1 \in 1 .. Len(n) /\ read \in 1 .. Len(n) /\ Len(n) - Len(e.unread) = read + 1
      /\ Head(d.unread) = n[read + 1] /\ e.unread = SubSeq(n, read + 2, Len(n))
  BY <1>1, <1>3, <1>4, NextComponent
<1> HIDE DEF n, read
<1>10. ASSUME \A i \in 1 .. Len(n) : SubSeq(n, 1, i) \notin Touched \cup assigned
       PROVE  e.leaf = cache[SubSeq(n, 1, read + 1)]
  <2> DEFINE p == SubSeq(n, 1, read + 1)
  <2>1. d.leaf = cache[SubSeq(n, 1, read)]
    BY <1>3, <1>10
  <2>2. p \in Dotted /\ IsChild(p) /\ Parent(p) = SubSeq(n, 1, read) /\ Last(p) = n[read + 1]
    BY <1>4, <1>8, PrefixIsChild
  <2>3. p = want[read + 1] /\ read + 1 \in 1 .. done
    <3>1. want[read + 1] = SubSeq(n, 1, read + 1)
      BY <1>5, <1>8
    <3>2. \A k \in 1 .. Len(n) : k \in 1 .. done
      BY <1>4, <1>7
    <3> QED
      BY <1>8, <3>1, <3>2
  <2>4. p \notin Touched \cup assigned /\ Parent(p) \notin Touched
    BY <1>8, <1>10, <2>2
  <2>5. Parent(p) = want[read] /\ read \in 1 .. done
    <3>1. want[read] = SubSeq(n, 1, read)
      BY <1>5, <1>8
    <3>2. \A k \in 1 .. Len(n) : k \in 1 .. done
      BY <1>4, <1>7
    <3> QED
      BY <1>8, <2>2, <3>1, <3>2
  <2>6. Parent(p) \notin changed /\ Parent(p) \in DOMAIN cache
    <3>1. Parent(p) \notin changed
      BY <2>4 DEF Touched
    <3> QED
      BY <1>3, <2>5, <3>1
  <2> HIDE DEF p
  <2>7. PICK w \in S : cache[Parent(p)] = w /\ Name(w) = Parent(p)
    BY <2>6 DEF IInv, Cached
  <2>8. PICK c \in STRING : c = Last(p)
    BY <2>2, Dots
  <2>9. e.leaf = Attribute(w, c) /\ Append(Name(w), c) = p
    BY <1>8, <2>1, <2>2, <2>7, <2>8, Rejoined
  <2>10. PICK v \in S : Name(v) = p /\ Attribute(w, c) = v
    BY <2>4, <2>7, <2>9 DEF IInv, Told
  <2>11. v # Main /\ State(v) # "failed"
    <3>1. <<"__main__">> # p
      <4>1. ASSUME NEW main, Len(main) = 1 PROVE main # p
        <5>1. PICK k : k = Len(p)
          OBVIOUS
        <5>2. k > 1
          BY <2>2, <5>1 DEF IsChild
        <5>3. k # 1
          BY <5>2
        <5> QED
          BY <4>1, <5>1, <5>3, Zenon
      <4>2. Len(<<"__main__">>) = 1
        OBVIOUS
      <4> QED
        BY <4>1, <4>2, Zenon
    <3>2. v \in Modules /\ Name(Main) = <<"__main__">>
      BY DEF IInv, Known
    <3> QED
      BY <2>10, <3>1, <3>2 DEF NoneFailed
  <2>12. cache[p] = v
    BY <2>4, <2>10, <2>11 DEF IInv, Loaded
  <2> QED
    BY <2>9, <2>10, <2>12 DEF p
<1>11. e.statement.name = n /\ Wanted(e.statement) = want /\ Len(want) - Len(e.todo) = done
  BY DEF n, want, done
<1>12. e.todo = SubSeq(want, done + 1, Len(want))
  BY <1>3
<1>13. read + 1 + 1 = read + 2
  BY <1>8
<1>14. changed' = changed /\ cache' = cache /\ (Touched \cup assigned)' = Touched \cup assigned
  BY DEF Touched
<1> QED
  BY <1>3, <1>8, <1>10, <1>11, <1>12, <1>13, <1>14 DEF Reached

LEMMA ReadAttributeKeeps ==
  ASSUME NEW S, IInv(S), ReadAttribute
  PROVE  Consistent'
<1>1. UNCHANGED <<modules, cache, namespaces, changed, assigned, overtaken>> /\ Arrived /\ Body.doing.unread # <<>>
  BY DEF ReadAttribute
<1>2. Edits(S) /\ NoneFailed' = NoneFailed /\ ~Loading(Body.doing)
  BY <1>1, StaysPut, Unfailed, NotLoading DEF IInv, Arrived
<1>3. PICK d \in InImport : d = Body.doing
  BY <1>1, Inside DEF Arrived
<1>4. PICK c \in STRING : c = Head(d.unread)
  <2>1. d.unread \in Seq(STRING) /\ d.unread # <<>>
    BY <1>1, <1>3 DEF InImport
  <2>2. Head(d.unread) \in STRING
    BY <2>1, HeadTailProperties
  <2> QED
    BY <2>2
<1>5. CASE Attribute(d.leaf, c) = Missing
  <2>1. bodies' = Now(Raised)
    BY <1>3, <1>4, <1>5 DEF ReadAttribute
  <2> QED
    BY <1>2, <2>1, EditAndRest
<1>6. CASE Attribute(d.leaf, c) # Missing
  <2>1. PICK v \in Values(S) : v = Attribute(d.leaf, c)
    BY <1>6, AttributeValues
  <2>2. PICK e : e = [d EXCEPT !.leaf = v, !.unread = Tail(d.unread)]
    OBVIOUS
  <2>3. bodies' = Now(e)
    <3>1. bodies' = Now([Body.doing EXCEPT !.leaf = v, !.unread = Tail(@)])
      BY <1>3, <1>4, <1>6, <2>1 DEF ReadAttribute
    <3>2. [Body.doing EXCEPT !.leaf = v, !.unread = Tail(@)] = e
      BY <1>3, <2>2
    <3> QED
      BY <3>1, <3>2
  <2>4. v \in Int /\ Tail(d.unread) \in Seq(STRING)
    <3>1. d.unread \in Seq(STRING) /\ d.unread # <<>>
      BY <1>1, <1>3 DEF InImport
    <3> QED
      BY <3>1, SoundModules, HeadTailProperties DEF IInv
  <2>5. /\ e \in InImport /\ e.leaf = v /\ e.unread = Tail(d.unread) /\ e.todo = d.todo
        /\ e.statement = d.statement /\ e.value = d.value /\ e.package = d.package /\ e.given = d.given
    BY <2>2, <2>4 DEF InImport
  <2>6. Refers(S, e) /\ ~Loading(e) /\ e \in Doing
    <3>1. Refers(S, d) /\ d.at = "importing"
      BY <1>1, <1>3, Inside DEF Arrived
    <3> QED
      BY <2>1, <2>5, <3>1 DEF Refers, InImport, Loading, Doing
  <2>7. d.todo = <<>> /\ d.unread # <<>>
    BY <1>1, <1>3 DEF Arrived
  <2>8. NoneFailed' => Reached(e)'
    BY <1>1, <1>2, <1>3, <1>4, <1>6, <2>1, <2>5, <2>7, InsideReached, ReachedReads
  <2> QED
    BY <1>2, <2>3, <2>6, <2>8, EditsKeep
<1> QED
  BY <1>5, <1>6

-----------------------------------------------------------------------------
(* The statement goes on with its module *)

LEMMA BindKeeps ==
  ASSUME NEW S, IInv(S), NEW c \in STRING, NEW v \in Values(S), Bind(c, v), Arrived,
         UNCHANGED <<cache, namespaces, changed, overtaken>>
  PROVE  Consistent'
<1>1. bodies' = Now(Idle) /\ ~Loading(Body.doing)
  BY NotLoading DEF Bind, Arrived
<1>2. CASE Body.for = "hook"
  <2>1. UNCHANGED <<modules, cache, namespaces, changed, assigned, overtaken>>
    BY <1>2 DEF Bind
  <2> QED
    BY <1>1, <2>1, StaysPut, EditAndRest DEF IInv
<1>3. CASE Body.for # "hook"
  <2>1. PICK w \in S : w = Globals
    BY GlobalsAreOfAModule
  <2>2. modules' = SetAttribute(modules, w, c, v) /\ assigned' = assigned \cup {Append(Name(w), c)}
    BY <1>3, <2>1 DEF Bind, Name
  <2>3. Edits(S)
    BY <2>2, AttributeSet DEF IInv
  <2> QED
    BY <1>1, <2>3, EditAndRest
<1> QED
  BY <1>2, <1>3

LEMMA ImportedFacts ==
  ASSUME NEW S, IInv(S), Arrived
  PROVE  /\ Body.doing \in InImport /\ Body.doing.statement \in AnyStatement
         /\ Body.doing.statement.name \in Dotted /\ Body.doing.statement.item \in STRING
         /\ Head(Body.doing.statement.name) \in STRING
         /\ Body.doing.value \in Values(S) /\ Body.doing.leaf \in Values(S) /\ Body.doing.package \in Values(S)
<1>1. /\ Body.doing \in InImport
      /\ Body.doing.value \in Values(S) /\ Body.doing.leaf \in Values(S) /\ Body.doing.package \in Values(S)
  BY Inside DEF Arrived
<1>2. Body.doing.statement \in AnyStatement
  BY <1>1 DEF InImport
<1>3. Body.doing.statement.name \in Dotted /\ Body.doing.statement.item \in STRING
  BY <1>2 DEF AnyStatement
<1> QED
  BY <1>1, <1>2, <1>3, Dots

LEMMA BindsKeep ==
  ASSUME NEW S, IInv(S), BindTop \/ BindLeaf \/ BindItem \/ BindSubmodule
  PROVE  Consistent'
<1>1. Arrived /\ UNCHANGED <<cache, namespaces, changed, overtaken>>
  BY DEF BindTop, BindLeaf, BindItem, BindSubmodule, Imported
<1>2. CASE BindTop
  BY <1>1, <1>2, ImportedFacts, BindKeeps DEF BindTop
<1>3. CASE BindLeaf
  BY <1>1, <1>3, ImportedFacts, BindKeeps DEF BindLeaf, ImportedLeaf
<1>4. CASE BindItem
  <2>1. Body.doing.statement.item \in STRING
    BY <1>1, ImportedFacts
  <2>2. Attribute(ImportedLeaf, Body.doing.statement.item) \in Values(S)
    BY <1>4, <2>1, AttributeValues DEF BindItem
  <2> QED
    BY <1>1, <1>4, <2>1, <2>2, BindKeeps DEF BindItem
<1>5. CASE BindSubmodule
  <2>1. Body.doing.statement.item \in STRING /\ Body.doing.value \in Values(S) /\ Body.doing.package \in Values(S)
    BY <1>1, ImportedFacts
  <2> QED
    BY <1>1, <1>5, <2>1, BindKeeps DEF BindSubmodule
<1> QED
  BY <1>2, <1>3, <1>4, <1>5

LEMMA BindRaisesKeeps ==
  ASSUME NEW S, IInv(S), BindRaises
  PROVE  Consistent'
<1>1. UNCHANGED <<modules, cache, namespaces, changed, assigned, overtaken>> /\ bodies' = Now(Raised)
      /\ ~Loading(Body.doing)
  BY NotLoading DEF BindRaises, Raise, Imported, Arrived
<1> QED
  BY <1>1, StaysPut, EditAndRest DEF IInv

LEMMA BindAllKeeps ==
  ASSUME NEW S, IInv(S), BindAll
  PROVE  Consistent'
<1>1. PICK w \in S : w = Globals
  BY GlobalsAreOfAModule
<1>2. PICK v \in S : v = ImportedLeaf
  <2>1. ImportedLeaf \in Modules /\ ImportedLeaf \in Values(S)
    BY ImportedFacts DEF BindAll, IsModule, ImportedLeaf, Imported
  <2>2. Value \notin Modules /\ None \notin Modules
    BY Sizes DEF IInv, Value, None
  <2> QED
    BY <2>1, <2>2 DEF Values
<1>3. /\ modules' = Put(modules, w, Overlaid(modules[w].attributes, modules[v].attributes))
      /\ assigned' = assigned \cup {Append(Name(w), c) : c \in DOMAIN modules[v].attributes}
      /\ bodies' = Now(Idle) /\ UNCHANGED <<cache, namespaces, changed, overtaken>>
  BY <1>1, <1>2 DEF BindAll, Name, Put
<1>4. Edits(S) /\ ~Loading(Body.doing)
  BY <1>3, AttributesOverlaid, NotLoading DEF IInv, BindAll, Imported, Arrived
<1> QED
  BY <1>3, <1>4, EditAndRest

(* It imports a submodule first. *)
LEMMA ImportsMoreKeeps ==
  ASSUME NEW S, IInv(S), Arrived, UNCHANGED <<modules, cache, namespaces, changed, assigned, overtaken>>,
         NEW form \in {"item", "listed"}, NEW n \in Named, NEW v \in Values(S),
         NEW given \in Kind \cup {"registered"},
         bodies' = Now(Importing([Body.doing.statement EXCEPT !.form = form], <<n>>, given, v))
  PROVE  Consistent'
<1>1. PICK s \in AnyStatement : s = Body.doing.statement
  BY ImportedFacts
<1>2. PICK t : t = [s EXCEPT !.form = form]
  OBVIOUS
<1>3. t \in AnyStatement /\ t.form = form
  BY <1>1, <1>2 DEF AnyStatement
<1>4. n \in Dotted /\ v \in Int
  BY Sizes, SoundModules DEF IInv
<1>5. PICK todo : todo = <<n>>
  OBVIOUS
<1>6. todo \in Seq(Dotted) /\ todo \in Seq(Named)
  BY <1>4, <1>5
<1>7. PICK d : d = Importing(t, todo, given, v)
  OBVIOUS
<1>8. Reads(t) \in Seq(STRING)
  <2>1. <<>> \in Seq(STRING)
    BY EmptySeq
  <2> QED
    BY <1>3, <2>1 DEF Reads
<1>9. /\ d \in InImport /\ d.statement = t /\ d.at = "importing" /\ d.todo = todo
      /\ d.value = None /\ d.leaf = None /\ d.package = v
  BY <1>3, <1>4, <1>6, <1>7, <1>8 DEF Importing, InImport, None
<1>10. Reached(d)'
  BY <1>3, <1>9, OtherForms
<1>11. d \in Doing /\ Refers(S, d) /\ ~Loading(d)
  BY <1>6, <1>9 DEF Refers, Values, Doing, Loading
<1>12. Edits(S) /\ ~Loading(Body.doing)
  BY StaysPut, NotLoading DEF IInv, Arrived
<1>13. bodies' = Now(d)
  BY <1>1, <1>2, <1>5, <1>7
<1> QED
  BY <1>10, <1>11, <1>12, <1>13, EditsKeep

LEMMA LongNames ==
  ASSUME NEW n \in Dotted, NEW c \in STRING
  PROVE  Append(n, c) \in Named
<1>1. n \in Seq(STRING) /\ Len(n) \in Nat /\ Len(n) >= 1
  BY Dots DEF Dotted
<1>2. PICK m : m = Append(n, c)
  OBVIOUS
<1>3. m \in Seq(STRING) /\ Len(m) = Len(n) + 1
  BY <1>1, <1>2, AppendProperties
<1>4. ASSUME NEW main, Len(main) = 1 PROVE main # m
  <2>1. Len(m) # 1
    BY <1>1, <1>3
  <2> QED
    BY <1>4, <2>1, Zenon
<1>5. Len(<<"__main__">>) = 1
  OBVIOUS
<1>6. m # <<"__main__">>
  BY <1>4, <1>5, Zenon
<1>7. m # <<>>
  BY <1>1, <1>3
<1> QED
  BY <1>2, <1>3, <1>6, <1>7 DEF Named, Dotted

LEMMA ImportItemKeeps ==
  ASSUME NEW S, IInv(S), ImportItem
  PROVE  Consistent'
<1>1. /\ Arrived /\ UNCHANGED <<modules, cache, namespaces, changed, assigned, overtaken>>
      /\ ImportedLeaf \in Modules
  BY DEF ImportItem, Imported, IsModule
<1>2. PICK given \in Given :
        bodies' = Now(Importing([Body.doing.statement EXCEPT !.form = "item"], <<Submodule>>, given, None))
  BY DEF ImportItem
<1>3. given \in Kind \cup {"registered"}
  <2>1. \A n \in Names : Definitions[n] \in Kind
    BY ConstantsAssumption DEF Names, Range
  <2> QED
    BY <1>2, <2>1 DEF Given
<1>4. PICK n \in Named : n = Submodule
  <2>1. Name(ImportedLeaf) \in Dotted /\ Body.doing.statement.item \in STRING
    BY <1>1, Sizes, ImportedFacts DEF IInv
  <2> QED
    BY <2>1, LongNames DEF Submodule, Name
<1>5. None \in Values(S)
  BY DEF Values
<1> QED
  BY <1>1, <1>2, <1>3, <1>4, <1>5, ImportsMoreKeeps

LEMMA CallImportsListKeeps ==
  ASSUME NEW S, IInv(S), CallImportsList
  PROVE  Consistent'
<1>1. Arrived /\ UNCHANGED <<cache, namespaces, changed, overtaken>>
  BY DEF CallImportsList, Imported
<1>2. PICK leaf \in Values(S) : leaf = Body.doing.value
  BY <1>1, ImportedFacts
<1>3. PICK child : child = Append(Body.doing.statement.name, Body.doing.statement.item)
  OBVIOUS
<1>4. \/ Bind(Body.doing.statement.item, leaf)
      \/ /\ child \in Names /\ UNCHANGED <<modules, assigned>>
         /\ bodies' = Now(Importing([Body.doing.statement EXCEPT !.form = "listed"], <<child>>, "registered", leaf))
  BY <1>2, <1>3 DEF CallImportsList
<1>5. CASE Bind(Body.doing.statement.item, leaf)
  BY <1>1, <1>5, ImportedFacts, BindKeeps
<1>6. CASE ~Bind(Body.doing.statement.item, leaf)
  <2>1. child \in Named
    BY <1>4, <1>6, Sizes DEF IInv
  <2> QED
    BY <1>1, <1>4, <1>6, <2>1, ImportsMoreKeeps
<1> QED
  BY <1>5, <1>6

LEMMA BoundKeeps ==
  ASSUME NEW S, IInv(S), Bound
  PROVE  Consistent'
  BY ReadAttributeKeeps, BindsKeep, ImportItemKeeps, BindAllKeeps, BindRaisesKeeps, CallImportsListKeeps
  DEF Bound

-----------------------------------------------------------------------------
(* Imports and hooks begin and end *)

(* Nothing but the running bodies changes, and the calling body stays where  *)
(* it is.                                                                  *)
LEMMA WaitsKeep ==
  ASSUME NEW S, IInv(S), UNCHANGED <<modules, cache, namespaces, changed, assigned, overtaken>>,
         NEW m \in Nat, m >= 1, m \in 1 .. Depth, NEW d, d = bodies[m].doing, NEW b, Shape(m, d, b), Begun(S, S, m, b),
         Depth' = m + 1 => b.module = None,
         Depth = m + 1 => bodies[m + 1].module = None
  PROVE  Consistent'
<1>1. Edits(S)
  BY StaysPut DEF IInv
<1>2. d \in Doing /\ Refers(S, d)
  BY ABody DEF IInv, TypeOK, Known, Depth
<1>3. NoneFailed' => Reached(d)'
  <2>1. NoneFailed' => NoneFailed
    BY Unfailed
  <2>2. NoneFailed => Reached(d)
    BY DEF IInv, Progress
  <2>3. Reached(d) => Reached(d)'
    BY DEF Reached, Touched
  <2> QED
    BY <2>1, <2>2, <2>3
<1>4. Continued(S, m, d)
  BY <1>2, <1>3 DEF Continued
<1> QED
  BY <1>1, <1>4, EditsAreSteps

LEMMA ShapeSeen ==
  ASSUME NEW m, NEW d, NEW b, Shape(m, d, b)
  PROVE  /\ bodies'[m].doing = d /\ bodies'[m].for = bodies[m].for
         /\ bodies'[m].module = bodies[m].module
         /\ Depth' = m + 1 => bodies'[m + 1] = b
<1>1. m \in Nat /\ m >= 1 /\ m \in 1 .. m
  BY DEF Shape
<1> QED
  BY <1>1 DEF Shape

LEMMA CallsKeep ==
  ASSUME NEW S, IInv(S), UNCHANGED <<modules, cache, namespaces, changed, assigned, overtaken>>,
         NEW b \in BodyRecord, bodies' = Append(bodies, b), b.module = None,
         b.doing.at \notin {"importing", "publishing"}, b.doing.at = "creating" => b.doing.name \notin DOMAIN cache,
         \/ /\ b.for = "import" /\ Body.doing.at = "importing" /\ Body.doing.todo # <<>>
            /\ b.doing.at = "creating" /\ b.doing.name = Head(Body.doing.todo)
         \/ b.for = "hook" /\ Loading(Body.doing) /\ ~Loading(b.doing)
  PROVE  Consistent'
<1>1. PICK m \in Nat : m = Depth /\ m >= 1
  BY Inside
<1>2. PICK d \in Doing : d = Body.doing
  BY Inside
<1>3. d = bodies[m].doing
  BY <1>1, <1>2 DEF Body
<1>4. bodies \in Seq(BodyRecord) /\ Len(bodies) > 0 /\ d = bodies[Len(bodies)].doing
  BY <1>1, <1>3 DEF IInv, TypeOK, Depth
<1>5. Now(d) = bodies
  BY <1>4, AsItIs DEF Now
<1>6. Shape(m, d, b) /\ Depth' = m + 1
  BY <1>1, <1>5, ShapeOfCall DEF IInv
<1>7. bodies'[m].doing = d /\ bodies'[m + 1] = b
  BY <1>6, ShapeSeen, Zenon
<1>8. None \notin S
  BY SoundModules DEF IInv
<1>9. Under(m + 1)'
  <2>1. (m + 1) - 1 = m
    BY <1>1
  <2> QED
    BY <1>2, <1>7, <2>1 DEF Under
<1>10. Refers(S, b.doing)
  BY DEF Refers
<1>11. \A v, w \in S, n \in Dotted : ~Tied(m + 1, w, v, n)'
  BY <1>7, <1>8 DEF Tied
<1>12. Begun(S, S, m, b)
  BY <1>8, <1>9, <1>10, <1>11 DEF Begun
<1>13. m \in 1 .. Depth /\ Depth # m + 1
  BY <1>1
<1> QED
  BY <1>1, <1>3, <1>6, <1>12, <1>13, WaitsKeep

LEMMA BeginImportKeeps ==
  ASSUME NEW S, IInv(S), Body.doing.at = "importing", Body.doing.todo # <<>>, BeginImport(Head(Body.doing.todo))
  PROVE  Consistent'
<1>1. PICK d \in InImport : d = Body.doing
  BY Inside
<1>2. PICK n : n = Head(d.todo)
  OBVIOUS
<1>3. PICK definition \in Kind :
        /\ n \in Names \/ d.given # "registered"
        /\ bodies' = Append(bodies, [module |-> None, for |-> "import", doing |-> Creating(n, definition)])
  BY <1>1, <1>2 DEF BeginImport
<1>4. n \in Named
  <2>1. Names \subseteq Named
    BY Sizes DEF IInv
  <2>2. d.given # "registered" => d.todo \in Seq(Named)
    BY <1>1, Inside DEF Refers
  <2>3. d.todo \in Seq(Named) => n \in Named
    BY <1>1, <1>2, HeadTailProperties
  <2> QED
    BY <1>3, <2>1, <2>2, <2>3
<1>5. PICK c : c = Creating(n, definition)
  OBVIOUS
<1>6. c \in InCreation /\ c \in Doing /\ c.at = "creating" /\ c.name = n
  BY <1>4, <1>5 DEF Creating, InCreation, Doing
<1>7. PICK b : b = [module |-> None, for |-> "import", doing |-> c]
  OBVIOUS
<1>8. b \in BodyRecord /\ b.module = None /\ b.for = "import" /\ b.doing = c
  BY <1>6, <1>7 DEF BodyRecord, None
<1>9. bodies' = Append(bodies, b) /\ n \notin DOMAIN cache
      /\ UNCHANGED <<modules, cache, namespaces, changed, assigned, overtaken>>
  BY <1>1, <1>2, <1>3, <1>5, <1>7 DEF BeginImport
<1> QED
  BY <1>1, <1>2, <1>6, <1>8, <1>9, CallsKeep

LEMMA CollectKeeps ==
  ASSUME NEW S, IInv(S), Collect
  PROVE  Consistent'
<1>1. PICK b : b = [module |-> None, for |-> "hook", doing |-> Idle]
  OBVIOUS
<1>2. b \in BodyRecord /\ b.module = None /\ b.for = "hook" /\ b.doing.at = "idle" /\ ~Loading(b.doing)
  BY <1>1 DEF BodyRecord, None, Idle, Doing, Loading
<1>3. bodies' = Append(bodies, b) /\ Loading(Body.doing)
      /\ UNCHANGED <<modules, cache, namespaces, changed, assigned, overtaken>>
  BY <1>1 DEF Collect, Creates, Publishes, Loading
<1> QED
  BY <1>2, <1>3, CallsKeep

(* The innermost body, but the first, and the one below. *)
LEMMA Caller ==
  ASSUME NEW S, IInv(S), Body.for # "main"
  PROVE  \E m \in Nat : /\ m >= 1 /\ Depth = m + 1 /\ m + 1 \in 2 .. Depth /\ m \in 1 .. Depth
                        /\ Body = bodies[m + 1] /\ bodies[m] \in BodyRecord /\ bodies[m].doing \in Doing
                        /\ Under(m + 1) /\ Last(Front(bodies)) = bodies[m]
<1>1. PICK m \in Int : m = Depth - 1
  BY Inside
<1>2. Depth # 1
  BY DEF IInv, Nesting, Body
<1>3. m \in Nat /\ m >= 1 /\ Depth = m + 1 /\ m + 1 \in 2 .. Depth /\ m \in 1 .. Depth
  BY <1>1, <1>2, Inside
<1>4. Body = bodies[m + 1] /\ bodies[m] \in BodyRecord /\ bodies[m].doing \in Doing
  BY <1>3, ABody DEF Body, IInv, TypeOK, Depth
<1>5. Under(m + 1)
  BY <1>3 DEF IInv, Nesting
<1>6. Last(Front(bodies)) = bodies[m]
  <2>1. Len(Front(bodies)) = m /\ \A k \in 1 .. m : Front(bodies)[k] = bodies[k]
    BY <1>3, BodiesBelow DEF IInv
  <2> QED
    BY <1>3, <2>1 DEF Last
<1> QED
  BY <1>3, <1>4, <1>5, <1>6

LEMMA HookEndsKeeps ==
  ASSUME NEW S, IInv(S), HookEnds
  PROVE  Consistent'
<1>1. bodies' = Front(bodies) /\ Body.for = "hook"
      /\ UNCHANGED <<modules, cache, namespaces, changed, assigned, overtaken>>
  BY DEF HookEnds
<1>2. PICK m \in Nat : /\ m >= 1 /\ Depth = m + 1 /\ m + 1 \in 2 .. Depth /\ m \in 1 .. Depth
                       /\ Body = bodies[m + 1] /\ bodies[m] \in BodyRecord /\ bodies[m].doing \in Doing
                       /\ Under(m + 1) /\ Last(Front(bodies)) = bodies[m]
  BY <1>1, Caller
<1>3. PICK d \in Doing : d = bodies[m].doing
  BY <1>2
<1>4. Innermost(Front(bodies), d) = Front(bodies)
  <2>1. /\ Front(bodies) \in Seq(BodyRecord) /\ Len(Front(bodies)) = m
        /\ \A k \in 1 .. m : Front(bodies)[k] = bodies[k]
    BY <1>2, BodiesBelow DEF IInv
  <2>2. Len(Front(bodies)) > 0 /\ d = Front(bodies)[Len(Front(bodies))].doing
    BY <1>2, <1>3, <2>1
  <2> QED
    BY <2>1, <2>2, AsItIs
<1>5. Shape(m, d, None) /\ Depth' = m
  BY <1>1, <1>2, <1>4, ShapeOfReturn DEF IInv
<1>6. Begun(S, S, m, None)
  BY <1>5 DEF Begun
<1>7. bodies[m + 1].module = None
  BY <1>1, <1>2 DEF Under
<1>8. Depth' # m + 1
  BY <1>5
<1> QED
  BY <1>1, <1>2, <1>3, <1>5, <1>6, <1>7, <1>8, WaitsKeep

LEMMA ImportKeeps ==
  ASSUME NEW S, IInv(S), Import
  PROVE  Consistent'
  BY ImportCachedKeeps, BeginImportKeeps DEF Import

-----------------------------------------------------------------------------
(* The import of a module before its entry is made *)

(* The body m waits for the import of n, which is the innermost body. *)
Waits(S, m, d, n) ==
  /\ m \in Nat /\ m >= 1 /\ Depth = m + 1 /\ m + 1 \in 2 .. Depth /\ m \in 1 .. Depth
  /\ Body = bodies[m + 1] /\ bodies[m + 1].for = "import" /\ Last(Front(bodies)) = bodies[m]
  /\ d = bodies[m].doing /\ d \in InImport /\ d \in Doing /\ Refers(S, d) /\ ~Loading(d)
  /\ d.at = "importing" /\ d.todo # <<>> /\ n = Head(d.todo) /\ n \in Dotted

LEMMA Waiting ==
  ASSUME NEW S, IInv(S), Body.for = "import"
  PROVE  \E m, d, n : Waits(S, m, d, n)
<1>1. PICK m \in Nat : /\ m >= 1 /\ Depth = m + 1 /\ m + 1 \in 2 .. Depth /\ m \in 1 .. Depth
                       /\ Body = bodies[m + 1] /\ bodies[m] \in BodyRecord /\ bodies[m].doing \in Doing
                       /\ Under(m + 1) /\ Last(Front(bodies)) = bodies[m]
  BY Caller
<1>2. PICK d \in Doing : d = bodies[m].doing
  BY <1>1
<1>3. d.at = "importing" /\ d.todo # <<>>
  <2>1. (m + 1) - 1 = m
    BY <1>1
  <2> QED
    BY <1>1, <1>2, <2>1 DEF Under
<1>4. d \in InImport /\ ~Loading(d)
  BY <1>2, <1>3, Doings DEF Loading
<1>5. Refers(S, d)
  BY <1>1, <1>2 DEF IInv, Known
<1>6. PICK n : n = Head(d.todo)
  OBVIOUS
<1>7. n \in Dotted
  <2>1. d.todo \in Seq(Dotted)
    BY <1>4 DEF InImport
  <2> QED
    BY <1>3, <1>6, <2>1, HeadTailProperties
<1>8. Waits(S, m, d, n)
  BY <1>1, <1>2, <1>3, <1>4, <1>5, <1>6, <1>7 DEF Waits
<1> QED
  BY <1>8

LEMMA ImportOfAName ==
  ASSUME NEW S, IInv(S), NEW m, NEW d, NEW n, Waits(S, m, d, n)
  PROVE  \/ /\ bodies[m + 1].doing.at = "creating" /\ bodies[m + 1].module = None
            /\ bodies[m + 1].doing.name = n /\ bodies[m + 1].doing \in InCreation /\ n \in Named
         \/ /\ bodies[m + 1].doing.at # "creating" /\ bodies[m + 1].module \in S
            /\ Name(bodies[m + 1].module) = n /\ bodies[m + 1].module # Main
            /\ State(bodies[m + 1].module) = "initializing"
<1>1. Under(m + 1) /\ (m + 1) - 1 = m
  BY DEF IInv, Nesting, Waits
<1>2. CASE bodies[m + 1].doing.at = "creating"
  <2>1. bodies[m + 1].module = None /\ bodies[m + 1].doing.name = n
    BY <1>1, <1>2 DEF Under, Waits, Loading
  <2>2. bodies[m + 1].doing \in InCreation
    <3>1. bodies[m + 1].doing \in Doing
      BY ABody DEF IInv, TypeOK, Waits, Depth
    <3> QED
      BY <1>2, <3>1, Doings
  <2> QED
    BY <1>2, <2>1, <2>2 DEF InCreation
<1>3. CASE bodies[m + 1].doing.at # "creating"
  <2>1. bodies[m + 1].module # None /\ Name(bodies[m + 1].module) = n
    BY <1>1, <1>3 DEF Under, Waits, Loading
  <2>2. bodies[m + 1].module \in S
    BY <2>1 DEF IInv, Known, Waits
  <2>3. State(bodies[m + 1].module) = "initializing"
    BY <2>2 DEF IInv, Running, Waits
  <2>4. bodies[m + 1].module # Main
    BY <2>3 DEF IInv, Known
  <2> QED
    BY <1>3, <2>1, <2>2, <2>3, <2>4
<1> QED
  BY <1>2, <1>3

LEMMA FailsShape ==
  ASSUME NEW S, IInv(S), NEW m, NEW d, NEW n, Waits(S, m, d, n), bodies' = Fails(Front(bodies))
  PROVE  Shape(m, Raised, None) /\ Depth' = m /\ Continued(S, m, Raised) /\ \A T : Begun(S, T, m, None)
<1>1. Raised \in Doing /\ Refers(S, Raised) /\ Reached(Raised)' /\ ~Loading(Raised)
  BY Rests
<1>2. m \in Nat /\ Depth = m + 1 /\ m >= 1
  BY DEF Waits
<1>3. bodies' = Innermost(Front(bodies), Raised)
  BY DEF Fails
<1>4. Shape(m, Raised, None) /\ Depth' = m
  BY <1>1, <1>2, <1>3, ShapeOfReturn DEF IInv
<1>5. Continued(S, m, Raised)
  BY <1>1 DEF Continued, Waits
<1>6. \A T : Begun(S, T, m, None)
  BY <1>2, <1>4 DEF Begun
<1> QED
  BY <1>4, <1>5, <1>6

(* A module object is allocated, and nothing refers to it yet. *)
Allocated(v, n, state) ==
  /\ v = Len(modules) + 1
  /\ modules' \in Seq(ModuleObject) /\ Modules' = Modules \cup {v} /\ v \in Nat /\ v \notin Modules
  /\ \A u \in Modules : u < v /\ Name(u)' = Name(u) /\ State(u)' = State(u)
  /\ \A u \in Modules, c \in STRING : Attribute(u, c)' = Attribute(u, c)
  /\ Name(v)' = n /\ State(v)' = state
  /\ \A c \in STRING : Attribute(v, c)' = Missing

LEMMA Allocates ==
  ASSUME TypeOK, NEW n \in Dotted, NEW state \in ModuleState, NEW definition,
         modules' = Append(modules, NewModule(n, state, definition))
  PROVE  \E v \in Nat : Allocated(v, n, state)
<1>1. modules \in Seq(ModuleObject) /\ Modules = 1 .. Len(modules) /\ Len(modules) \in Nat
  BY Sizes
<1>2. PICK v \in Nat : v = Len(modules) + 1
  BY <1>1
<1> DEFINE new == Append(modules, NewModule(n, state, definition))
<1>3. /\ new \in Seq(ModuleObject) /\ Len(new) = Len(modules) + 1
      /\ new[Len(modules) + 1].name = n /\ new[Len(modules) + 1].state = state
      /\ \A c : At(new, Len(modules) + 1, c) = Missing
      /\ \A u \in 1 .. Len(modules) : new[u] = modules[u]
  BY <1>1, AddsModule
<1>4. modules' = new
  OBVIOUS
<1> HIDE DEF new
<1>5. /\ modules' \in Seq(ModuleObject) /\ Modules' = 1 .. v
      /\ \A u \in Modules : modules'[u] = modules[u]
  BY <1>1, <1>2, <1>3, <1>4 DEF Modules
<1>6. Modules' = Modules \cup {v} /\ v \notin Modules /\ \A u \in Modules : u < v /\ u \in Modules'
  BY <1>1, <1>2, <1>5
<1>7. \A u \in Modules : Name(u)' = Name(u) /\ State(u)' = State(u)
  BY <1>5 DEF Name, State
<1>8. \A u \in Modules, c \in STRING : Attribute(u, c)' = Attribute(u, c)
  BY <1>5, <1>6 DEF Attribute, IsModule
<1>9. Name(v)' = n /\ State(v)' = state
  BY <1>2, <1>3, <1>4 DEF Name, State
<1>10. \A c \in STRING : Attribute(v, c)' = Missing
  <2>1. \A c \in STRING : At(modules', v, c) = Missing
    BY <1>2, <1>3, <1>4
  <2> QED
    BY <2>1 DEF Attribute, At
<1>11. Allocated(v, n, state)
  BY <1>2, <1>5, <1>6, <1>7, <1>8, <1>9, <1>10 DEF Allocated
<1> QED
  BY <1>11

LEMMA ImportRefusedKeeps ==
  ASSUME NEW S, IInv(S), ImportRefused
  PROVE  Consistent'
<1>1. /\ Body.doing.at = "creating" /\ bodies' = Fails(Front(bodies))
      /\ UNCHANGED <<cache, namespaces, changed, assigned, overtaken>>
  BY DEF ImportRefused, Creates
<1>2. Body.for = "import"
  <2>1. Depth \in 1 .. Depth /\ (Depth = 1 \/ Depth \in 2 .. Depth)
    BY Inside
  <2> QED
    BY <1>1, <2>1 DEF Body, IInv, Nesting, Under, Loading
<1>3. PICK m, d, n : Waits(S, m, d, n)
  BY <1>2, Waiting
<1>4. /\ bodies[m + 1].module = None /\ n \in Named /\ Body.doing.name = n
  BY <1>1, <1>3, ImportOfAName DEF Waits
<1>5. Shape(m, Raised, None) /\ Depth' = m /\ Continued(S, m, Raised) /\ Begun(S, S, m, None)
  BY <1>1, <1>3, FailsShape
<1>6. Edits(S)
  <2>1. CASE UNCHANGED modules
    BY <1>1, <2>1, StaysPut DEF IInv
  <2>2. CASE modules' # modules
    <3>1. PICK state \in {"initializing", "failed"} :
            modules' = Append(modules, NewModule(n, state, Body.doing.definition))
      BY <1>4, <2>2 DEF ImportRefused
    <3>2. PICK v \in Nat : Allocated(v, n, state)
      BY <1>4, <3>1, Allocates DEF IInv, ModuleState, Named
    <3>3. S \subseteq Modules
      BY DEF IInv, Known
    <3>4. /\ \A u \in S, c \in STRING : Attribute(u, c)' \in Values(S) \cup {Missing}
          /\ \A u \in Modules' \ S, c \in STRING : Attribute(u, c)' = Missing
      BY <3>2, <3>3 DEF Allocated, IInv, Known
    <3> QED
      BY <1>1, <3>2, <3>3, <3>4 DEF Edits, Allocated, IInv, TypeOK, Known
  <2> QED
    BY <2>1, <2>2
<1>7. (Depth' = m + 1 => None = None) /\ m \in Nat
  BY <1>3 DEF Waits
<1> QED
  BY <1>4, <1>5, <1>6, <1>7, EditsAreSteps

-----------------------------------------------------------------------------
(* The entry is made *)

(* The calling statement waits for n, so it does not depend on what becomes   *)
(* of the entries and attributes that it has used.                         *)
LEMMA WaitsOn ==
  ASSUME NEW S, IInv(S), NEW m, NEW d, NEW n, Waits(S, m, d, n), KeepsEntries
  PROVE  NoneFailed /\ NoneFailed' => Reached(d)'
<1>1. NoneFailed => Reached(d)
  BY DEF IInv, Progress, Waits
<1>2. ASSUME Reached(d), d.statement.form \in {"plain", "alias", "from", "star"} PROVE Reached(d)'
  <2>1. PICK want : want = Wanted(d.statement)
    OBVIOUS
  <2>2. PICK name : name = d.statement.name
    OBVIOUS
  <2>3. /\ d.todo # <<>> /\ d.at = "importing" /\ d.statement \in AnyStatement /\ d.todo \in Seq(Dotted)
    BY DEF Waits, InImport
  <2>4. want \in Seq(Dotted)
    BY <1>2, <2>1, <2>3, WantedNames DEF AnyStatement
  <2>5. PICK done : done = Len(want) - Len(d.todo)
    OBVIOUS
  <2> DEFINE read == Len(name) - Len(d.unread)
  <2>6. /\ done \in 0 .. Len(want) /\ d.todo = SubSeq(want, done + 1, Len(want))
        /\ \A i \in 1 .. done : want[i] \notin changed => want[i] \in DOMAIN cache
        /\ read \in 1 .. Len(name) /\ d.unread = SubSeq(name, read + 1, Len(name)) /\ read = 1
    BY <1>2, <2>1, <2>2, <2>3, <2>5 DEF Reached
  <2>7. \A i \in 1 .. done : want[i] \in Dotted
    BY <2>4, <2>6, ElementOfSeq
  <2>8. \A i \in 1 .. done : want[i] \notin changed' => want[i] \in DOMAIN cache'
    BY <2>6, <2>7 DEF KeepsEntries
  <2> QED
    BY <2>1, <2>2, <2>3, <2>5, <2>6, <2>8 DEF Reached
<1>3. d.statement.form \notin {"plain", "alias", "from", "star"} => Reached(d)'
  BY DEF Reached
<1> QED
  BY <1>1, <1>2, <1>3

LEMMA Creation ==
  ASSUME NEW S, IInv(S), CacheModule
  PROVE  /\ Len(modules) + 1 \in Nat /\ Body.doing.definition \in Kind
         /\ \E m, d, n :
              /\ Waits(S, m, d, n) /\ n \in Named /\ bodies[m + 1].module = None
              /\ bodies[m + 1].doing.at = "creating" /\ bodies[m + 1].doing.name = n /\ n = Body.doing.name
<1>1. Body.doing.at = "creating"
  BY DEF CacheModule, Creates
<1>2. Body.for = "import"
  <2>1. Depth \in 1 .. Depth /\ (Depth = 1 \/ Depth \in 2 .. Depth)
    BY Inside
  <2> QED
    BY <1>1, <2>1 DEF Body, IInv, Nesting, Under, Loading
<1>3. PICK m, d, n : Waits(S, m, d, n)
  BY <1>2, Waiting
<1>4. /\ bodies[m + 1].module = None /\ n \in Named /\ bodies[m + 1].doing.at = "creating"
      /\ bodies[m + 1].doing.name = n /\ Body.doing \in InCreation /\ n = Body.doing.name
  BY <1>1, <1>3, ImportOfAName DEF Waits
<1>5. Body.doing.definition \in Kind
  BY <1>4 DEF InCreation
<1>6. Len(modules) + 1 \in Nat
  BY Sizes DEF IInv
<1> QED
  BY <1>3, <1>4, <1>5, <1>6

(* There is no parent. *)
LEMMA CacheFailsKeeps ==
  ASSUME NEW S, IInv(S), NEW m, NEW d, NEW n, Waits(S, m, d, n), n \in Named,
         bodies[m + 1].module = None, bodies[m + 1].doing.at = "creating", bodies[m + 1].doing.name = n,
         NEW v \in Nat, Allocated(v, n, "failed"), bodies' = Fails(Front(bodies)),
         cache' = RemoveCached(CacheNow(n, v), n, v), overtaken' = overtaken \cup ({n} \cap DOMAIN cache),
         UNCHANGED <<namespaces, changed, assigned>>
  PROVE  Consistent'
<1>1. Shape(m, Raised, None) /\ Depth' = m /\ Continued(S, m, Raised) /\ Begun(S, S, m, None)
  BY FailsShape
<1>2. m \in Nat /\ Depth = m + 1
  BY DEF Waits
<1>3. S \subseteq Modules /\ None \notin S
  BY SoundModules DEF IInv, Known
<1>4. Runs(S, S, m, None)
  BY <1>1, <1>2, <1>3 DEF Runs, Allocated
<1>5. Objects(S, S, None)
  BY <1>3 DEF Objects, Allocated, IInv, Known
<1>6. Attributes(S, S, None)
  <2>1. \A w \in Modules' \ S, c \in STRING : Attribute(w, c)' = Missing
    BY <1>3 DEF Allocated, IInv, Known
  <2>2. \A w \in S, c \in STRING : Attribute(w, c)' = Attribute(w, c) /\ Attribute(w, c) \in Values(S) \cup {Missing}
    BY <1>3 DEF Allocated, IInv, Known
  <2> QED
    BY <2>1, <2>2 DEF Attributes
<1>7. /\ DOMAIN cache' = DOMAIN cache \ {n}
      /\ \A k \in DOMAIN cache' : cache'[k] = cache[k]
  <2>1. PICK held : held = With(cache, n, v)
    OBVIOUS
  <2>2. /\ DOMAIN held = DOMAIN cache \cup {n} /\ held[n] = v
        /\ \A k \in DOMAIN cache \ {n} : held[k] = cache[k]
    BY <2>1 DEF With
  <2>3. cache' = Without(held, n)
    BY <2>1, <2>2 DEF RemoveCached, CacheNow
  <2> QED
    BY <2>2, <2>3 DEF Without, Restrict
<1>8. ~NoneFailed'
  BY DEF Allocated, NoneFailed
<1>9. Entries(S, S, m, None)
  <2>1. namespaces' \in Seq(Nat) /\ \A k \in 1 .. Len(namespaces') : namespaces'[k] \in S
    BY DEF IInv, TypeOK, Known
  <2>2. DOMAIN cache' \subseteq Dotted /\ \A k \in DOMAIN cache' : cache'[k] \in Values(S)
    BY <1>7 DEF IInv, TypeOK, Known
  <2> QED
    BY <1>2, <1>7, <1>8, <2>1, <2>2 DEF Entries
<1>10. Failure(S, m, None) /\ Success(S, m, None)
  BY <1>3, <1>8 DEF Failure, Success
<1>11. Step(S, S, m, Raised, None, None, None)
  BY <1>1, <1>4, <1>5, <1>6, <1>9, <1>10 DEF Step
<1> QED
  BY <1>11, StepKeeps

LEMMA Publications ==
  ASSUME NEW ch, NEW n, NEW v, NEW stage
  PROVE  LET p == Publishing(ch, n, v, stage) IN
         /\ p.at = "publishing" /\ p.value = v /\ p.stage = stage
         /\ p.into = IF IsChild(n) THEN ch[Parent(n)] ELSE None
         /\ v \in Int /\ p.into \in Int /\ stage \in {"body", "bare", "done"} => p \in InPublication
<1>1. PICK into : into = IF IsChild(n) THEN ch[Parent(n)] ELSE None
  OBVIOUS
<1>2. PICK grows \in BOOLEAN : grows = (IsChild(n) /\ Attribute(into, Last(n)) = Missing)
  OBVIOUS
<1>3. Publishing(ch, n, v, stage) = [at |-> "publishing", into |-> into, value |-> v, stage |-> stage, grows |-> grows]
  BY <1>1, <1>2, Zenon DEF Publishing
<1> QED
  BY <1>1, <1>3 DEF InPublication

(* The parent is there: the module is about to become an attribute of it. *)
LEMMA CacheMadeKeeps ==
  ASSUME NEW S, IInv(S), NEW m, NEW d, NEW n, Waits(S, m, d, n), n \in Named,
         bodies[m + 1].module = None, bodies[m + 1].doing.at = "creating", bodies[m + 1].doing.name = n,
         NEW v \in Nat, Allocated(v, n, "initializing"), cache' = CacheNow(n, v), ParentIsThere(cache', n),
         overtaken' = overtaken \cup ({n} \cap DOMAIN cache),
         UNCHANGED <<namespaces, changed, assigned>>,
         NEW stage \in {"body", "bare"}, NEW p, p = Publishing(cache', n, v, stage),
         bodies' = Append(Front(bodies), [module |-> v, for |-> "import", doing |-> p])
  PROVE  Consistent'
<1>1. /\ m \in Nat /\ m >= 1 /\ Depth = m + 1 /\ d = bodies[m].doing /\ d \in Doing /\ Refers(S, d) /\ ~Loading(d)
      /\ d.at = "importing" /\ d.todo # <<>> /\ n = Head(d.todo) /\ n \in Dotted
  BY DEF Waits
<1>2. /\ S \subseteq Modules /\ S \subseteq Nat /\ None \notin S /\ Value \notin S
      /\ v \notin Modules /\ v \notin S /\ v # None /\ v # Missing /\ v \notin Values(S)
      /\ None \notin Modules /\ Value \notin Modules
  <2>1. S \subseteq Modules /\ S \subseteq Nat /\ None \notin S /\ Value \notin S
    BY SoundModules DEF IInv, Known
  <2>2. v = Len(modules) + 1 /\ Len(modules) \in Nat /\ v \notin Modules /\ Modules = 1 .. Len(modules)
    BY Sizes DEF Allocated, IInv
  <2> QED
    BY <2>1, <2>2 DEF Values, None, Missing, Value
<1> DEFINE T == S \cup {v}
<1>3. /\ DOMAIN cache' = DOMAIN cache \cup {n} /\ cache'[n] = v
      /\ \A k \in DOMAIN cache \ {n} : cache'[k] = cache[k]
  BY DEF CacheNow, With
<1>4. IsChild(n) => /\ Parent(n) \in Dotted /\ Parent(n) # n /\ Parent(n) \in DOMAIN cache
                    /\ cache'[Parent(n)] = cache[Parent(n)] /\ cache[Parent(n)] \in S
  <2> SUFFICES ASSUME IsChild(n)
               PROVE  /\ Parent(n) \in Dotted /\ Parent(n) # n /\ Parent(n) \in DOMAIN cache
                      /\ cache'[Parent(n)] = cache[Parent(n)] /\ cache[Parent(n)] \in S
    OBVIOUS
  <2>1. Parent(n) \in Dotted /\ Parent(n) # n
    BY <1>1, Dots
  <2>2. Parent(n) \in DOMAIN cache /\ cache'[Parent(n)] = cache[Parent(n)] /\ cache[Parent(n)] \in Modules
    BY <1>3, <2>1 DEF ParentIsThere, IsModule
  <2>3. cache[Parent(n)] \in Values(S)
    BY <2>2 DEF IInv, Known
  <2> QED
    BY <1>2, <2>1, <2>2, <2>3 DEF Values
<1>5. /\ p.at = "publishing" /\ p.value = v /\ p.stage = stage
      /\ p.into = IF IsChild(n) THEN cache[Parent(n)] ELSE None
      /\ p.into \in S \cup {None} /\ p \in InPublication
  <2>1. /\ p.at = "publishing" /\ p.value = v /\ p.stage = stage
        /\ p.into = IF IsChild(n) THEN cache'[Parent(n)] ELSE None
        /\ v \in Int /\ p.into \in Int /\ stage \in {"body", "bare", "done"} => p \in InPublication
    BY Publications
  <2>2. p.into \in S \cup {None}
    BY <1>4, <2>1
  <2>3. v \in Int /\ p.into \in Int
    <3>1. v \in Int /\ \A u \in S \cup {None} : u \in Int
      BY <1>2 DEF None
    <3> QED
      BY <2>2, <3>1, Zenon
  <2>4. p \in InPublication
    BY <2>1, <2>3
  <2>5. p.into = IF IsChild(n) THEN cache[Parent(n)] ELSE None
    BY <1>4, <2>1
  <2> QED
    BY <2>1, <2>2, <2>4, <2>5
<1>6. PICK b : b = [module |-> v, for |-> "import", doing |-> p]
  OBVIOUS
<1>7. b.module = v /\ b.for = "import" /\ b.doing = p /\ b \in BodyRecord
  BY <1>5, <1>6 DEF BodyRecord, Doing
<1>8. Shape(m, d, b) /\ Depth' = m + 1
  <2>1. bodies' = Append(Front(bodies), b)
    BY <1>6
  <2> QED
    BY <1>1, <1>7, <2>1, ShapeOfTailCall DEF IInv
<1>9. bodies'[m].doing = d /\ bodies'[m + 1] = b
  <2>1. bodies'[m].doing = d /\ (Depth' = m + 1 => bodies'[m + 1] = b)
    BY <1>8, ShapeSeen
  <2> QED
    BY <1>8, <2>1
<1>10. KeepsEntries
  <2>1. Touched \subseteq Touched' /\ changed' \subseteq Touched'
    BY DEF Touched
  <2>2. \A k \in Dotted : k \in DOMAIN cache /\ k \notin changed' =>
          k \in DOMAIN cache' /\ (k \notin Touched' => cache'[k] = cache[k])
    BY <1>3 DEF Touched
  <2> QED
    BY <2>1, <2>2 DEF KeepsEntries
<1>11. Continued(T, m, d)
  <2>1. NoneFailed' => NoneFailed
    BY DEF Allocated, NoneFailed
  <2>2. NoneFailed' => Reached(d)'
    BY <1>10, <2>1, WaitsOn
  <2>3. Refers(T, d)
    BY <1>1 DEF Refers, Values
  <2> QED
    BY <1>1, <2>2, <2>3 DEF Continued
<1>12. \A w \in T : ~Holds(w, v, n)'
  <2>1. \A w \in T, c \in STRING : Attribute(w, c)' # v
    <3>1. \A w \in S, c \in STRING : Attribute(w, c)' \in Values(S) \cup {Missing}
      BY <1>2 DEF Allocated, IInv, Known
    <3>2. \A c \in STRING : Attribute(v, c)' = Missing
      BY DEF Allocated
    <3> QED
      BY <1>2, <3>1, <3>2
  <2>2. Last(n) \in STRING
    BY <1>1, Dots
  <2> QED
    BY <2>1, <2>2 DEF Holds
<1>13. \A u \in S : Name(u)' = Name(u) /\ State(u)' = State(u)
  BY <1>2 DEF Allocated
<1>14. Announced(T, v, n, p)'
  <2>1. ASSUME IsChild(n) PROVE p.into \in T /\ (Name(p.into)' = Parent(n) \/ Parent(n) \in changed')
    <3>1. PICK w \in S : w = p.into /\ w = cache[Parent(n)]
      BY <1>4, <1>5, <2>1
    <3>2. Parent(n) \notin changed => Name(w) = Parent(n)
      BY <1>4, <2>1, <3>1 DEF IInv, Cached
    <3>3. Name(w)' = Name(w)
      BY <1>13
    <3> QED
      BY <3>1, <3>2, <3>3
  <2> QED
    BY <1>5, <1>12, <2>1 DEF Announced
<1>15. Begun(S, T, m, b)
  <2>1. Refers(T, p)
    BY <1>5 DEF Refers, Values
  <2>2. Under(m + 1)'
    <3>1. (m + 1) - 1 = m /\ Name(v)' = n
      BY <1>1 DEF Allocated
    <3> QED
      BY <1>1, <1>2, <1>5, <1>7, <1>9, <3>1 DEF Under
  <2>3. ASSUME NEW u \in T, NEW k \in Dotted, b.module = u, Name(u)' = k PROVE Announced(T, u, k, b.doing)'
    <3>1. u = v /\ k = n
      BY <1>7, <2>3 DEF Allocated
    <3> QED
      BY <1>7, <1>14, <3>1
  <2>4. ASSUME NEW u \in T, NEW w \in T, NEW k \in Dotted, Tied(m + 1, w, u, k)'
        PROVE  Parent(k) \in DOMAIN cache' /\ cache'[Parent(k)] = w
    <3>1. u = v /\ k = n
      BY <1>7, <1>9, <2>4 DEF Tied, Allocated
    <3>2. IsChild(n) /\ (Holds(w, v, n)' \/ p.into = w)
      BY <1>7, <1>9, <2>4, <3>1 DEF Tied
    <3>3. ~Holds(w, v, n)'
      BY <1>12
    <3>4. p.into = w
      BY <3>2, <3>3
    <3> QED
      BY <1>3, <1>4, <1>5, <3>1, <3>2, <3>4
  <2> QED
    BY <1>2, <1>5, <1>7, <2>1, <2>2, <2>3, <2>4 DEF Begun
<1>16. Runs(S, T, m, b)
  BY <1>1, <1>2, <1>7, <1>8, <1>13 DEF Runs, Allocated
<1>17. Objects(S, T, None)
  <2>1. \A u \in T \ S : u = v
    OBVIOUS
  <2>2. \A w \in S : w < v
    BY <1>2 DEF Allocated
  <2>3. State(Main)' = "ready"
    BY <1>13 DEF IInv, Known
  <2>4. n \in DOMAIN cache => n \in overtaken'
    OBVIOUS
  <2> QED
    BY <1>2, <1>3, <1>13, <2>1, <2>2, <2>3, <2>4 DEF Objects, Allocated
<1>18. Attributes(S, T, None)
  <2>1. \A w \in Modules' \ T, c \in STRING : Attribute(w, c)' = Missing
    BY <1>2 DEF Allocated, IInv, Known
  <2>2. \A w \in S, c \in STRING : Attribute(w, c)' = Attribute(w, c) /\ Attribute(w, c) \in Values(S) \cup {Missing}
    BY <1>2 DEF Allocated, IInv, Known
  <2> QED
    BY <2>1, <2>2 DEF Attributes
<1>19. Half(n)'
  <2>1. m + 1 \in 2 .. Depth' /\ Name(v)' = n
    BY <1>1, <1>8 DEF Allocated
  <2> QED
    BY <1>5, <1>7, <1>9, <2>1 DEF Half
<1>20. Entries(S, T, m, None)
  <2>1. namespaces' \in Seq(Nat) /\ \A k \in 1 .. Len(namespaces') : namespaces'[k] \in T
    BY DEF IInv, TypeOK, Known
  <2>2. DOMAIN cache' \subseteq Dotted /\ \A k \in DOMAIN cache' : cache'[k] \in Values(T)
    BY <1>1, <1>3 DEF IInv, TypeOK, Known, Values
  <2>3. \E u \in T \ S : cache'[n] = u /\ Name(u)' = n
    BY <1>2, <1>3 DEF Allocated
  <2> QED
    BY <1>1, <1>3, <1>19, <2>1, <2>2, <2>3 DEF Entries
<1>21. Failure(S, m, None) /\ Success(S, m, None)
  BY <1>2 DEF Failure, Success
<1>22. Step(S, T, m, d, b, None, None)
  BY <1>8, <1>11, <1>15, <1>16, <1>17, <1>18, <1>20, <1>21 DEF Step
<1> QED
  BY <1>22, StepKeeps

LEMMA CacheModuleKeeps ==
  ASSUME NEW S, IInv(S), CacheModule
  PROVE  Consistent'
<1>0. PICK v \in Nat, definition \in Kind : v = Len(modules) + 1 /\ definition = Body.doing.definition
  BY Creation
<1>1. PICK m, d, n :
        /\ Waits(S, m, d, n) /\ n \in Named /\ bodies[m + 1].module = None
        /\ bodies[m + 1].doing.at = "creating" /\ bodies[m + 1].doing.name = n /\ n = Body.doing.name
  BY Creation
<1>2. PICK held : held = CacheNow(n, v)
  OBVIOUS
<1>3. PICK stage \in {"body", "bare"} : stage = IF definition \in {"package", "source"} THEN "body" ELSE "bare"
  OBVIOUS
<1>4. PICK p : p = Publishing(held, n, v, stage)
  OBVIOUS
<1>5. /\ overtaken' = overtaken \cup ({n} \cap DOMAIN cache) /\ UNCHANGED <<namespaces, changed, assigned>>
      /\ \/ /\ ParentIsThere(held, n) /\ cache' = held
            /\ modules' = Append(modules, NewModule(n, "initializing", definition))
            /\ bodies' = Append(Front(bodies), [module |-> v, for |-> "import", doing |-> p])
         \/ /\ modules' = Append(modules, NewModule(n, "failed", definition))
            /\ cache' = RemoveCached(held, n, v)
            /\ bodies' = Fails(Front(bodies))
  BY <1>0, <1>1, <1>2, <1>3, <1>4 DEF CacheModule
<1>6. n \in Dotted /\ {"initializing", "failed"} \subseteq ModuleState
  BY <1>1 DEF Named, ModuleState
<1>7. CASE cache' = held /\ modules' = Append(modules, NewModule(n, "initializing", definition))
  <2>1. Allocated(v, n, "initializing")
    <3>1. \E u \in Nat : Allocated(u, n, "initializing")
      BY <1>6, <1>7, Allocates DEF IInv
    <3> QED
      BY <1>0, <3>1 DEF Allocated
  <2>2. State(v)' # "failed"
    BY <2>1 DEF Allocated
  <2>3. ~(modules' = Append(modules, NewModule(n, "failed", definition)))
    <3>1. ASSUME modules' = Append(modules, NewModule(n, "failed", definition)) PROVE FALSE
      <4>1. \E u \in Nat : Allocated(u, n, "failed")
        BY <1>6, <3>1, Allocates DEF IInv
      <4> QED
        BY <1>0, <2>2, <4>1 DEF Allocated
    <3> QED
      BY <3>1
  <2>4. /\ ParentIsThere(cache', n) /\ cache' = CacheNow(n, v) /\ p = Publishing(cache', n, v, stage)
        /\ bodies' = Append(Front(bodies), [module |-> v, for |-> "import", doing |-> p])
    BY <1>2, <1>4, <1>5, <1>7, <2>3
  <2> QED
    BY <1>1, <1>5, <2>1, <2>4, CacheMadeKeeps
<1>8. CASE modules' = Append(modules, NewModule(n, "failed", definition)) /\ cache' = RemoveCached(held, n, v)
           /\ bodies' = Fails(Front(bodies))
  <2>1. Allocated(v, n, "failed")
    <3>1. \E u \in Nat : Allocated(u, n, "failed")
      BY <1>6, <1>8, Allocates DEF IInv
    <3> QED
      BY <1>0, <3>1 DEF Allocated
  <2>2. cache' = RemoveCached(CacheNow(n, v), n, v)
    BY <1>2, <1>8
  <2> QED
    BY <1>1, <1>5, <1>8, <2>1, <2>2, CacheFailsKeeps
<1> QED
  BY <1>5, <1>7, <1>8

-----------------------------------------------------------------------------
(* What the steps of an import do to the module objects *)

Restated(v, state) ==
  /\ modules' \in Seq(ModuleObject) /\ Modules' = Modules
  /\ \A u \in Modules : Name(u)' = Name(u) /\ State(u)' = IF u = v THEN state ELSE State(u)

LEMMA Restates ==
  ASSUME TypeOK, NEW ms \in Seq(ModuleObject), NEW v, NEW state, SameObjects(modules, ms), modules' = ms,
         \A u \in Modules : ms[u].state = IF u = v THEN state ELSE State(u)
  PROVE  /\ Restated(v, state)
         /\ \A u \in Modules, c \in STRING : Attribute(u, c)' = At(ms, u, c)
<1>1. Modules = 1 .. Len(modules) /\ Modules' = Modules
  BY Sizes DEF SameObjects, Modules
<1>2. \A u \in Modules : Name(u)' = Name(u) /\ State(u)' = IF u = v THEN state ELSE State(u)
  BY <1>1 DEF Name, State, SameObjects
<1>3. \A u \in Modules, c \in STRING : Attribute(u, c)' = At(ms, u, c)
  BY <1>1 DEF Attribute, IsModule, At
<1> QED
  BY <1>1, <1>2, <1>3 DEF Restated

LEMMA MovesNow ==
  ASSUME TypeOK, NEW v \in Modules, NEW state \in ModuleState, modules' = Moved(modules, v, state)
  PROVE  /\ Restated(v, state)
         /\ \A u \in Modules, c \in STRING : Attribute(u, c)' = Attribute(u, c)
<1>1. modules \in Seq(ModuleObject) /\ Modules = 1 .. Len(modules)
  BY Sizes
<1>2. PICK ms : ms = Moved(modules, v, state)
  OBVIOUS
<1>3. /\ SameObjects(modules, ms)
      /\ \A u \in Modules : /\ ms[u].state = IF u = v THEN state ELSE State(u)
                            /\ ms[u].attributes = modules[u].attributes
  BY <1>1, <1>2, MovesOn DEF State
<1>4. \A u \in Modules, c \in STRING : At(ms, u, c) = Attribute(u, c)
  BY <1>3, AttributeAt DEF At
<1>5. modules' = ms /\ ms \in Seq(ModuleObject)
  BY <1>2, <1>3 DEF SameObjects
<1>6. /\ Restated(v, state)
      /\ \A u \in Modules, c \in STRING : Attribute(u, c)' = At(ms, u, c)
  BY <1>3, <1>5, Restates
<1> QED
  BY <1>4, <1>6

(* A module that failed leaves its parent. *)
Leaves(ch, n, v) ==
  \A u \in Modules, c \in STRING :
    Attribute(u, c)' = IF IsChild(n) /\ Parent(n) \in DOMAIN ch /\ u = ch[Parent(n)] /\ c = Last(n) /\ Attribute(u, c) = v
                       THEN Missing ELSE Attribute(u, c)

LEMMA LeavesNow ==
  ASSUME TypeOK, NEW v \in Modules, NEW state \in ModuleState, NEW n \in Dotted, NEW ch,
         modules' = RemoveFromParent(Moved(modules, v, state), ch, n, v)
  PROVE  Restated(v, state) /\ Leaves(ch, n, v)
<1>1. modules \in Seq(ModuleObject) /\ Modules = 1 .. Len(modules)
  BY Sizes
<1>2. PICK moved : moved = Moved(modules, v, state)
  OBVIOUS
<1>3. /\ SameObjects(modules, moved)
      /\ \A u \in Modules : /\ moved[u].state = IF u = v THEN state ELSE State(u)
                            /\ moved[u].attributes = modules[u].attributes
  BY <1>1, <1>2, MovesOn DEF State
<1>4. PICK ms : ms = RemoveFromParent(moved, ch, n, v)
  OBVIOUS
<1>5. Unpublished(moved, ms, ch, n, v)
  BY <1>3, <1>4, RemovesFromParent DEF SameObjects
<1>6. SameObjects(modules, ms) /\ ms \in Seq(ModuleObject)
  BY <1>3, <1>5 DEF SameObjects, Unpublished
<1>7. \A u \in Modules : ms[u].state = IF u = v THEN state ELSE State(u)
  BY <1>1, <1>3, <1>5 DEF SameObjects, Unpublished
<1>8. modules' = ms
  BY <1>2, <1>4
<1>9. /\ Restated(v, state)
      /\ \A u \in Modules, c \in STRING : Attribute(u, c)' = At(ms, u, c)
  BY <1>6, <1>7, <1>8, Restates
<1>10. \A u \in Modules, c \in STRING : At(moved, u, c) = Attribute(u, c)
  BY <1>3, AttributeAt DEF At
<1>11. \A u \in Modules : u \in 1 .. Len(moved)
  BY <1>1, <1>3 DEF SameObjects
<1>12. Leaves(ch, n, v)
  BY <1>5, <1>9, <1>10, <1>11 DEF Leaves, Unpublished
<1> QED
  BY <1>9, <1>12

(* A module becomes an attribute of its parent. *)
Joins(into, n, value) ==
  \A u \in Modules, c \in STRING :
    Attribute(u, c)' = IF IsChild(n) /\ u = into /\ c = Last(n) THEN value ELSE Attribute(u, c)

LEMMA JoinsNow ==
  ASSUME TypeOK, NEW v \in Modules, NEW n \in Dotted, NEW into, IsChild(n) => into \in Modules,
         NEW value \in Reference, NEW state,
         LET published == Publish(modules, into, n, value) IN
         \/ modules' = published /\ state = State(v)
         \/ modules' = Moved(published, v, "ready") /\ state = "ready"
  PROVE  Restated(v, state) /\ Joins(into, n, value)
<1>1. modules \in Seq(ModuleObject) /\ Modules = 1 .. Len(modules)
  BY Sizes
<1>2. PICK published : published = Publish(modules, into, n, value)
  OBVIOUS
<1>3. Published(modules, published, into, n, value)
  BY <1>1, <1>2, PublishesAttribute
<1>4. /\ SameObjects(modules, published) /\ published \in Seq(ModuleObject) /\ v \in 1 .. Len(published)
      /\ \A u \in Modules : published[u].state = State(u)
  BY <1>1, <1>3 DEF Published, SameObjects, State
<1>5. \A u \in Modules, c \in STRING :
        At(published, u, c) = IF IsChild(n) /\ u = into /\ c = Last(n) THEN value ELSE Attribute(u, c)
  BY <1>1, <1>3, AttributeAt DEF Published
<1>6. ASSUME modules' = published, state = State(v) PROVE Restated(v, state) /\ Joins(into, n, value)
  <2>1. \A u \in Modules : published[u].state = IF u = v THEN state ELSE State(u)
    BY <1>4, <1>6
  <2>2. /\ Restated(v, state)
        /\ \A u \in Modules, c \in STRING : Attribute(u, c)' = At(published, u, c)
    BY <1>4, <1>6, <2>1, Restates
  <2> QED
    BY <1>5, <2>2 DEF Joins
<1>7. ASSUME modules' = Moved(published, v, "ready"), state = "ready"
      PROVE  Restated(v, state) /\ Joins(into, n, value)
  <2>1. PICK ms : ms = Moved(published, v, "ready")
    OBVIOUS
  <2>2. "ready" \in ModuleState
    BY DEF ModuleState
  <2>3. /\ SameObjects(published, ms)
        /\ \A u \in 1 .. Len(published) : /\ ms[u].state = IF u = v THEN "ready" ELSE published[u].state
                                          /\ ms[u].attributes = published[u].attributes
    BY <1>4, <2>1, <2>2, MovesOn
  <2>4. SameObjects(modules, ms) /\ ms \in Seq(ModuleObject)
    BY <1>4, <2>3 DEF SameObjects
  <2>5. \A u \in Modules : ms[u].state = IF u = v THEN state ELSE State(u)
    BY <1>1, <1>4, <1>7, <2>3 DEF SameObjects
  <2>6. \A u \in Modules, c \in STRING : At(ms, u, c) = At(published, u, c)
    BY <1>1, <1>4, <2>3 DEF At, SameObjects
  <2>7. modules' = ms
    BY <1>7, <2>1
  <2>8. /\ Restated(v, state)
        /\ \A u \in Modules, c \in STRING : Attribute(u, c)' = At(ms, u, c)
    BY <2>4, <2>5, <2>7, Restates
  <2> QED
    BY <1>5, <2>6, <2>8 DEF Joins
<1> QED
  BY <1>2, <1>6, <1>7

LEMMA OneRestated ==
  ASSUME NEW S, TypeOK, Known(S), NEW v \in S, NEW state, Restated(v, state),
         State(v) = "failed" => state = "failed", v # Main \/ state = "ready", NEW f, state = "failed" => v = f
  PROVE  Objects(S, S, f) /\ S \subseteq Modules
<1>1. S \subseteq Modules /\ Main \in S /\ State(Main) = "ready"
  BY DEF Known
<1>2. State(Main)' = "ready"
  BY <1>1 DEF Restated
<1> QED
  BY <1>1, <1>2 DEF Restated, Objects

(* sys.modules stays as it is, or loses a module that failed. *)
LEMMA EntriesLost ==
  ASSUME NEW S, TypeOK, Known(S), NEW m, NEW f, UNCHANGED <<changed, overtaken>>,
         \/ cache' = cache
         \/ f \in S /\ Name(f) \in DOMAIN cache /\ cache[Name(f)] = f /\ cache' = Without(cache, Name(f)),
         namespaces' \in Seq(Nat), \A k \in 1 .. Len(namespaces') : namespaces'[k] \in S
  PROVE  Entries(S, S, m, f)
<1>1. /\ DOMAIN cache' \subseteq DOMAIN cache /\ \A k \in DOMAIN cache' : cache'[k] = cache[k]
      /\ \A k \in DOMAIN cache \ DOMAIN cache' : f \in S /\ Name(f) = k /\ cache[k] = f
  BY DEF Without, Restrict
<1>2. DOMAIN cache' \subseteq Dotted /\ \A k \in DOMAIN cache' : cache'[k] \in Values(S)
  BY <1>1 DEF TypeOK, Known
<1> QED
  BY <1>1, <1>2 DEF Entries

LEMMA FrontOfNamespaces ==
  ASSUME NEW S, TypeOK, Known(S),
         \/ namespaces' = namespaces
         \/ namespaces' = Front(namespaces)
         \/ \E v \in S : namespaces' = Append(namespaces, v)
  PROVE  namespaces' \in Seq(Nat) /\ \A k \in 1 .. Len(namespaces') : namespaces'[k] \in S
<1>1. namespaces \in Seq(Nat) /\ (\A k \in 1 .. Len(namespaces) : namespaces[k] \in S) /\ S \subseteq Nat
  BY SoundModules DEF TypeOK, Known
<1>2. CASE namespaces' = Front(namespaces)
  <2>1. CASE Len(namespaces) > 0
    <3>1. /\ Front(namespaces) \in Seq(Nat) /\ Len(Front(namespaces)) = Len(namespaces) - 1
          /\ \A k \in 1 .. Len(namespaces) - 1 : Front(namespaces)[k] = namespaces[k]
      BY <1>1, <2>1, FrontOf
    <3> QED
      BY <1>1, <1>2, <3>1
  <2>2. CASE ~(Len(namespaces) > 0)
    <3>1. Len(namespaces) = 0
      BY <1>1, <2>2
    <3>2. Front(namespaces) = SubSeq(namespaces, 1, Len(namespaces) - 1)
      BY DEF Front
    <3>3. Front(namespaces) \in Seq(Nat) /\ Len(Front(namespaces)) = 0
      BY <1>1, <3>1, <3>2
    <3> QED
      BY <1>2, <3>3
  <2> QED
    BY <2>1, <2>2
<1>3. CASE \E v \in S : namespaces' = Append(namespaces, v)
  <2>1. PICK v \in S : namespaces' = Append(namespaces, v)
    BY <1>3
  <2>2. v \in Nat
    BY <1>1
  <2>3. /\ Append(namespaces, v) \in Seq(Nat) /\ Len(Append(namespaces, v)) = Len(namespaces) + 1
        /\ \A k \in 1 .. Len(namespaces) : Append(namespaces, v)[k] = namespaces[k]
        /\ Append(namespaces, v)[Len(namespaces) + 1] = v
    BY <1>1, <2>2, AppendProperties
  <2>4. \A k \in 1 .. Len(namespaces) + 1 : k \in 1 .. Len(namespaces) \/ k = Len(namespaces) + 1
    BY <1>1
  <2> QED
    BY <1>1, <2>1, <2>3, <2>4
<1> QED
  BY <1>1, <1>2, <1>3

-----------------------------------------------------------------------------
(* The end of an import *)

(* The innermost body imports the module v, of the name n. *)
InImportOf(S, m, d, n, v) ==
  /\ Waits(S, m, d, n) /\ v \in S /\ v = bodies[m + 1].module /\ v = Body.module
  /\ Name(v) = n /\ v # Main /\ State(v) = "initializing" /\ S \subseteq Modules /\ v \in Modules

LEMMA RunningModule ==
  ASSUME NEW S, IInv(S), Body.for = "import", Body.doing.at # "creating"
  PROVE  \E m, d, n, v : InImportOf(S, m, d, n, v)
<1>1. PICK m, d, n : Waits(S, m, d, n)
  BY Waiting
<1>2. /\ bodies[m + 1].module \in S /\ Name(bodies[m + 1].module) = n /\ bodies[m + 1].module # Main
      /\ State(bodies[m + 1].module) = "initializing" /\ bodies[m + 1].module = Body.module
  BY <1>1, ImportOfAName DEF Waits
<1>3. InImportOf(S, m, d, n, Body.module)
  BY <1>1, <1>2 DEF InImportOf, IInv, Known
<1> QED
  BY <1>3

(* The module that fails is no attribute of its parent any more. *)
Fallen(S, v) == \A w \in S, n \in Dotted : Holds(w, v, n)' => Parent(n) \in changed'

LEMMA FailureKeeps ==
  ASSUME NEW S, IInv(S), NEW m, NEW d, NEW n, NEW v, InImportOf(S, m, d, n, v), Restated(v, "failed"),
         \A u \in Modules, c \in STRING : Attribute(u, c)' \in {Attribute(u, c), Missing},
         cache' = RemoveCached(cache, n, v), Fallen(S, v),
         bodies' = Fails(Front(bodies)), UNCHANGED <<changed, assigned, overtaken>>,
         namespaces' = namespaces \/ namespaces' = Front(namespaces)
  PROVE  Consistent'
<1>1. Shape(m, Raised, None) /\ Depth' = m /\ Continued(S, m, Raised) /\ Begun(S, S, m, None)
  BY FailsShape DEF InImportOf
<1>2. /\ m \in Nat /\ Depth = m + 1 /\ v = bodies[m + 1].module /\ bodies[m + 1].for = "import"
      /\ v \in S /\ S \subseteq Modules /\ Name(v) = n /\ v # Main /\ n \in Dotted /\ None \notin S
  BY SoundModules DEF InImportOf, Waits, IInv
<1>3. Runs(S, S, m, None)
  BY <1>1, <1>2 DEF Runs, Restated
<1>4. Objects(S, S, v)
  BY <1>2, OneRestated DEF IInv
<1>5. ~NoneFailed'
  BY <1>2 DEF Restated, NoneFailed
<1>6. Attributes(S, S, None)
  <2>1. \A w \in Modules' \ S, c \in STRING : Attribute(w, c)' = Missing
    BY <1>2 DEF Restated, IInv, Known
  <2>2. \A w \in S, c \in STRING : Attribute(w, c) \in Values(S) \cup {Missing}
    BY DEF IInv, Known
  <2> QED
    BY <1>2, <1>5, <2>1, <2>2 DEF Attributes
<1>7. Entries(S, S, m, v)
  <2>1. namespaces' \in Seq(Nat) /\ \A k \in 1 .. Len(namespaces') : namespaces'[k] \in S
    BY FrontOfNamespaces DEF IInv
  <2>2. \/ cache' = cache
        \/ v \in S /\ Name(v) \in DOMAIN cache /\ cache[Name(v)] = v /\ cache' = Without(cache, Name(v))
    BY <1>2 DEF RemoveCached
  <2> QED
    BY <2>1, <2>2, EntriesLost DEF IInv
<1>8. Failure(S, m, v)
  <2>1. n \in DOMAIN cache' => cache'[n] # v
    BY DEF RemoveCached, Without, Restrict
  <2>2. State(v)' = "failed"
    BY <1>2 DEF Restated
  <2> QED
    BY <1>2, <2>1, <2>2 DEF Failure, Fallen
<1>9. Success(S, m, None)
  BY <1>2, <1>5 DEF Success
<1>10. Step(S, S, m, Raised, None, None, v)
  BY <1>1, <1>3, <1>4, <1>6, <1>7, <1>8, <1>9 DEF Step
<1> QED
  BY <1>10, StepKeeps

(* The parent is where it was, because the module is imported inside or after *)
(* its import.                                                             *)
LEMMA ParentInPlace ==
  ASSUME NEW S, IInv(S), NEW m, NEW d, NEW n, NEW v, InImportOf(S, m, d, n, v), NEW w \in S, Holds(w, v, n),
         Parent(n) \notin changed
  PROVE  Parent(n) \in DOMAIN cache /\ cache[Parent(n)] = w /\ IsChild(n) /\ Parent(n) # n
<1>1. Tied(m + 1, w, v, n) /\ m + 1 \in 2 .. Depth /\ n \in Dotted /\ v \in S /\ IsChild(n)
  BY DEF Tied, InImportOf, Waits, Holds
<1>2. Parent(n) # n
  BY <1>1, Dots
<1> QED
  BY <1>1, <1>2 DEF IInv, Placed

LEMMA FallsFromParent ==
  ASSUME NEW S, IInv(S), NEW m, NEW d, NEW n, NEW v, InImportOf(S, m, d, n, v), Restated(v, "failed"),
         Leaves(cache', n, v), cache' = RemoveCached(cache, n, v), UNCHANGED <<changed, assigned>>
  PROVE  Fallen(S, v) /\ \A u \in Modules, c \in STRING : Attribute(u, c)' \in {Attribute(u, c), Missing}
<1>1. \A u \in Modules, c \in STRING : Attribute(u, c)' \in {Attribute(u, c), Missing}
  BY DEF Leaves
<1>2. ASSUME NEW w \in S, NEW k \in Dotted, Holds(w, v, k)', Parent(k) \notin changed PROVE FALSE
  <2>1. w \in Modules /\ v \in Modules /\ v # Missing /\ Name(v) = n /\ Last(k) \in STRING
    <3>1. v \in Nat
      BY Sizes DEF IInv, InImportOf
    <3>2. v # Missing
      BY <3>1 DEF Missing
    <3>3. Last(k) \in STRING
      BY Dots
    <3> QED
      BY <3>2, <3>3 DEF InImportOf
  <2>2. k = n /\ Name(w) = Parent(n) /\ Attribute(w, Last(n))' = v /\ IsChild(n) /\ n \notin assigned
    BY <1>2, <2>1 DEF Holds, Restated
  <2>3. Attribute(w, Last(n)) = v
    BY <1>1, <2>1, <2>2
  <2>4. Holds(w, v, n)
    BY <2>1, <2>2, <2>3 DEF Holds
  <2>5. Parent(n) \in DOMAIN cache /\ cache[Parent(n)] = w /\ Parent(n) # n
    BY <1>2, <2>2, <2>4, ParentInPlace
  <2>6. Parent(n) \in DOMAIN cache' /\ cache'[Parent(n)] = w
    BY <2>5 DEF RemoveCached, Without, Restrict
  <2>7. Attribute(w, Last(n))' = Missing
    BY <2>1, <2>2, <2>3, <2>6 DEF Leaves
  <2> QED
    BY <2>1, <2>2, <2>7
<1> QED
  BY <1>1, <1>2 DEF Fallen

LEMMA FailsFromParent ==
  ASSUME NEW S, IInv(S), NEW m, NEW d, NEW n, NEW v, InImportOf(S, m, d, n, v),
         cache' = RemoveCached(cache, n, v),
         modules' = RemoveFromParent(Moved(modules, v, "failed"), cache', n, v),
         bodies' = Fails(Front(bodies)), UNCHANGED <<changed, assigned, overtaken>>,
         namespaces' = namespaces \/ namespaces' = Front(namespaces)
  PROVE  Consistent'
<1>1. v \in Modules /\ n \in Dotted /\ "failed" \in ModuleState
  BY DEF InImportOf, Waits, ModuleState
<1>2. Restated(v, "failed") /\ Leaves(cache', n, v)
  BY <1>1, LeavesNow DEF IInv
<1>3. Fallen(S, v) /\ \A u \in Modules, c \in STRING : Attribute(u, c)' \in {Attribute(u, c), Missing}
  BY <1>2, FallsFromParent
<1> QED
  BY <1>2, <1>3, FailureKeeps

LEMMA BodyFailsKeeps ==
  ASSUME NEW S, IInv(S), BodyFails
  PROVE  Consistent'
<1>1. Body.for = "import" /\ Body.doing.at # "creating"
  BY DEF BodyFails, Raised
<1>2. PICK m, d, n, v : InImportOf(S, m, d, n, v)
  BY <1>1, RunningModule
<1>3. /\ cache' = RemoveCached(cache, n, v)
      /\ modules' = RemoveFromParent(Moved(modules, v, "failed"), cache', n, v)
      /\ bodies' = Fails(Front(bodies)) /\ namespaces' = Front(namespaces)
      /\ UNCHANGED <<changed, assigned, overtaken>>
  BY <1>2 DEF BodyFails, InImportOf, Name
<1> QED
  BY <1>2, <1>3, FailsFromParent

(* A publication that the heap limit refuses. *)
LEMMA Publisher ==
  ASSUME NEW S, IInv(S), Publishes
  PROVE  /\ Body.for = "import" /\ Body.doing.at # "creating" /\ Body.doing \in InPublication
         /\ \A m, d, n, v : InImportOf(S, m, d, n, v) =>
              /\ Announced(S, v, n, Body.doing) /\ Body.doing.value \in Values(S)
              /\ Body.doing.into \in S \cup {None} /\ bodies[m + 1].doing = Body.doing
<1>1. Body.doing.at = "publishing" /\ Body.doing \in Doing /\ Refers(S, Body.doing)
  BY Inside DEF Publishes
<1>2. Body.doing \in InPublication
  BY <1>1, Doings
<1>3. Body.for = "import"
  <2>1. Depth \in 1 .. Depth /\ (Depth = 1 \/ Depth \in 2 .. Depth)
    BY Inside
  <2> QED
    BY <1>1, <2>1 DEF Body, IInv, Nesting, Under, Loading
<1>4. ASSUME NEW m, NEW d, NEW n, NEW v, InImportOf(S, m, d, n, v)
      PROVE  Announced(S, v, n, Body.doing) /\ bodies[m + 1].doing = Body.doing
  <2>1. /\ m + 1 \in 2 .. Depth /\ v \in S /\ n \in Dotted /\ Body = bodies[m + 1]
        /\ bodies[m + 1].module = v /\ Name(v) = n
    BY <1>4 DEF InImportOf, Waits
  <2>2. PICK doing \in InPublication : doing = Body.doing
    BY <1>2
  <2>3. bodies[m + 1].doing = doing
    BY <2>1, <2>2
  <2>4. Announced(S, v, n, doing)
    BY <2>1, <2>3 DEF IInv, Publication
  <2> QED
    BY <2>1, <2>2, <2>4
<1> QED
  BY <1>1, <1>2, <1>3, <1>4 DEF Refers

LEMMA PublicationRefusedKeeps ==
  ASSUME NEW S, IInv(S), PublicationRefused
  PROVE  Consistent'
<1>0. Publishes
  BY DEF PublicationRefused
<1>1. Body.for = "import" /\ Body.doing.at # "creating"
  BY <1>0, Publisher
<1>2. PICK m, d, n, v : InImportOf(S, m, d, n, v)
  BY <1>1, RunningModule
<1>3. /\ cache' = RemoveCached(cache, n, v)
      /\ modules' = IF Body.doing.stage = "done" THEN RemoveFromParent(Moved(modules, v, "failed"), cache', n, v)
                                                 ELSE Moved(modules, v, "failed")
      /\ bodies' = Fails(Front(bodies)) /\ UNCHANGED <<namespaces, changed, assigned, overtaken>>
  BY <1>2 DEF PublicationRefused, InImportOf, Name
<1>4. CASE Body.doing.stage = "done"
  BY <1>2, <1>3, <1>4, FailsFromParent
<1>5. CASE Body.doing.stage # "done"
  <2>1. v \in Modules /\ "failed" \in ModuleState /\ v \in S /\ S \subseteq Modules /\ Name(v) = n
    BY <1>2 DEF InImportOf, ModuleState
  <2>2. modules' = Moved(modules, v, "failed")
    BY <1>3, <1>5
  <2>3. Restated(v, "failed") /\ \A u \in Modules, c \in STRING : Attribute(u, c)' = Attribute(u, c)
    BY <2>1, <2>2, MovesNow DEF IInv
  <2>4. Announced(S, v, n, Body.doing)
    BY <1>0, <1>2, Publisher
  <2>5. Fallen(S, v)
    <3> SUFFICES ASSUME NEW w \in S, NEW k \in Dotted, Holds(w, v, k)' PROVE FALSE
      BY DEF Fallen
    <3>1. Last(k) \in STRING
      BY Dots
    <3>2. Name(v)' = n /\ Name(w)' = Name(w) /\ Attribute(w, Last(k))' = Attribute(w, Last(k))
      BY <2>1, <2>3, <3>1 DEF Restated
    <3>3. Holds(w, v, k) /\ k = n
      BY <1>3, <2>1, <3>2 DEF Holds
    <3> QED
      BY <1>5, <2>4, <3>3 DEF Announced
  <2>6. \A u \in Modules, c \in STRING : Attribute(u, c)' \in {Attribute(u, c), Missing}
    BY <2>3
  <2> QED
    BY <1>2, <1>3, <2>3, <2>5, <2>6, FailureKeeps
<1> QED
  BY <1>4, <1>5

-----------------------------------------------------------------------------
(* A module is published *)

LEMMA Joined ==
  ASSUME NEW S, IInv(S), NEW m, NEW d, NEW n, NEW v, InImportOf(S, m, d, n, v), Publishes,
         NEW state \in {"initializing", "ready"}, NEW into, NEW value, into = Body.doing.into, value = Body.doing.value,
         Restated(v, state), Joins(into, n, value),
         assigned' = assigned \cup Strays(into, n, value # v),
         UNCHANGED <<cache, changed, overtaken>>,
         namespaces' = namespaces \/ namespaces' = Append(namespaces, v)
  PROVE  /\ Objects(S, S, None) /\ Attributes(S, S, v) /\ Entries(S, S, m, None)
         /\ Failure(S, m, None) /\ Success(S, m, v)
         /\ KeepsEntries /\ (NoneFailed' => NoneFailed)
<1>1. /\ m \in Nat /\ Depth = m + 1 /\ v = bodies[m + 1].module /\ bodies[m + 1].for = "import"
      /\ v \in S /\ S \subseteq Modules /\ Name(v) = n /\ v # Main /\ n \in Dotted /\ None \notin S
      /\ State(v) = "initializing"
  BY SoundModules DEF InImportOf, Waits, IInv
<1>2. /\ value \in Values(S) /\ into \in S \cup {None} /\ bodies[m + 1].doing.into = into
      /\ (IsChild(n) => into \in S) /\ value # Missing
  <2>1. /\ value \in Values(S) /\ into \in S \cup {None} /\ bodies[m + 1].doing = Body.doing
        /\ Announced(S, v, n, Body.doing)
    BY Publisher
  <2>2. Missing \notin Values(S)
    BY SoundModules DEF IInv
  <2> QED
    BY <2>1, <2>2 DEF Announced
<1>3. Objects(S, S, None)
  BY <1>1, OneRestated DEF IInv
<1>4. ASSUME NEW w \in S, NEW c \in STRING
      PROVE  /\ Attribute(w, c)' \in Values(S) \cup {Missing}
             /\ \/ Append(Name(w), c) \in assigned'
                \/ Attribute(w, c)' = Attribute(w, c)
                \/ Attribute(w, c)' = v /\ Append(Name(w), c) = n
             /\ Attribute(w, c)' = Missing => Attribute(w, c) = Missing
  <2>1. w \in Modules /\ Attribute(w, c) \in Values(S) \cup {Missing}
    BY <1>1 DEF IInv, Known
  <2>2. CASE ~(IsChild(n) /\ w = into /\ c = Last(n))
    BY <2>1, <2>2 DEF Joins
  <2>3. CASE IsChild(n) /\ w = into /\ c = Last(n)
    <3>1. Attribute(w, c)' = value
      BY <2>1, <2>3 DEF Joins
    <3>2. CASE value # v \/ Name(w) # Parent(n)
      <4>1. Append(Name(w), c) \in assigned'
        BY <2>3, <3>2 DEF Strays, Name
      <4> QED
        BY <1>2, <3>1, <4>1
    <3>3. CASE value = v /\ Name(w) = Parent(n)
      <4>1. Append(Name(w), c) = n
        BY <1>1, <2>3, <3>3, Rejoined
      <4> QED
        BY <1>2, <3>1, <3>3, <4>1
    <3> QED
      BY <3>2, <3>3
  <2> QED
    BY <2>2, <2>3
<1>5. Attributes(S, S, v)
  <2>1. ASSUME NEW w \in Modules' \ S, NEW c \in STRING PROVE Attribute(w, c)' = Missing
    <3>1. w \in Modules \ S
      BY DEF Restated
    <3>2. Attribute(w, c) = Missing /\ ~(IsChild(n) /\ w = into)
      BY <1>2, <3>1 DEF IInv, Known
    <3> QED
      BY <3>1, <3>2 DEF Joins
  <2> QED
    BY <1>1, <1>4, <2>1 DEF Attributes
<1>6. Entries(S, S, m, None)
  <2>1. namespaces' \in Seq(Nat) /\ \A k \in 1 .. Len(namespaces') : namespaces'[k] \in S
    BY <1>1, FrontOfNamespaces DEF IInv
  <2> QED
    BY <2>1, EntriesLost DEF IInv
<1>7. Failure(S, m, None)
  BY <1>1 DEF Failure
<1>8. Success(S, m, v)
  <2>1. State(v)' # "failed"
    BY <1>1 DEF Restated
  <2>2. ASSUME NEW u \in S, NEW w \in S, NEW k \in Dotted, bodies[m + 1].module = u,
               bodies[m + 1].doing.into = w, Name(u) = k, IsChild(k)
        PROVE  Attribute(w, Last(k))' # Missing
    <3>1. k = n /\ w = into /\ w \in Modules /\ Last(n) \in STRING
      BY <1>1, <1>2, <2>2, Dots
    <3> QED
      BY <1>2, <2>2, <3>1 DEF Joins
  <2> QED
    BY <1>1, <2>1, <2>2 DEF Success
<1>9. KeepsEntries
  BY DEF KeepsEntries, Touched
<1>10. NoneFailed' => NoneFailed
  BY <1>1 DEF NoneFailed, Restated
<1> QED
  BY <1>3, <1>5, <1>6, <1>7, <1>8, <1>9, <1>10

(* Before its body runs. *)
LEMMA PublishedBeforeKeeps ==
  ASSUME NEW S, IInv(S), NEW m, NEW d, NEW n, NEW v, InImportOf(S, m, d, n, v), Publishes,
         NEW into, NEW value, into = Body.doing.into, value = Body.doing.value,
         Restated(v, "initializing"), Joins(into, n, value),
         assigned' = assigned \cup Strays(into, n, value # v),
         UNCHANGED <<cache, changed, overtaken>>,
         bodies' = Now(Idle), namespaces' = Append(namespaces, v)
  PROVE  Consistent'
<1>1. /\ Objects(S, S, None) /\ Attributes(S, S, v) /\ Entries(S, S, m, None)
      /\ Failure(S, m, None) /\ Success(S, m, v)
      /\ KeepsEntries /\ (NoneFailed' => NoneFailed)
  BY Joined
<1>2. /\ m \in Nat /\ m >= 1 /\ Depth = m + 1 /\ v = bodies[m + 1].module /\ bodies[m + 1].for = "import"
      /\ v \in S /\ S \subseteq Modules /\ Name(v) = n /\ n \in Dotted /\ State(v) = "initializing" /\ None \notin S
      /\ d = bodies[m].doing /\ d \in Doing /\ Refers(S, d) /\ ~Loading(d)
      /\ d.at = "importing" /\ d.todo # <<>> /\ n = Head(d.todo)
  BY SoundModules DEF InImportOf, Waits, IInv
<1>3. PICK b : b = bodies'[m + 1]
  OBVIOUS
<1>4. Idle \in Doing /\ Refers(S, Idle)
  BY Rests
<1>5. /\ Shape(m, d, b) /\ Depth' = m + 1 /\ b \in BodyRecord
      /\ b.module = bodies[m + 1].module /\ b.for = bodies[m + 1].for /\ b.doing = Idle
  BY <1>2, <1>3, <1>4, ShapeOfChange DEF IInv
<1>6. bodies'[m].doing = d /\ bodies'[m + 1] = b
  <2>1. bodies'[m].doing = d
    BY <1>5, ShapeSeen
  <2> QED
    BY <1>3, <2>1
<1>7. Continued(S, m, d)
  <2>1. NoneFailed' => Reached(d)'
    BY <1>1, WaitsOn DEF InImportOf
  <2> QED
    BY <1>2, <2>1 DEF Continued
<1>8. b.module = v /\ b.for = "import" /\ b.doing.at = "idle"
  BY <1>2, <1>5 DEF Idle
<1>9. Name(v)' = n /\ \A u \in Modules : Name(u)' = Name(u)
  BY <1>2 DEF Restated, InImportOf
<1>10. Begun(S, S, m, b)
  <2>1. Under(m + 1)'
    <3>1. (m + 1) - 1 = m /\ v # None
      BY <1>2
    <3> QED
      BY <1>2, <1>6, <1>8, <1>9, <3>1 DEF Under
  <2>2. ASSUME NEW u \in S, NEW w \in S, NEW k \in Dotted, Tied(m + 1, w, u, k)'
        PROVE  Parent(k) \in DOMAIN cache' /\ cache'[Parent(k)] = w
    <3>1. u = v /\ k = n
      BY <1>6, <1>8, <1>9, <2>2 DEF Tied
    <3>2. Holds(w, v, n)' /\ Parent(n) \notin changed /\ IsChild(n) /\ Name(w) = Parent(n)
      <4>1. w \in Modules
        BY <1>2
      <4> QED
        BY <1>6, <1>8, <1>9, <2>2, <3>1, <4>1 DEF Tied
    <3>3. Tied(m + 1, w, v, n)
      <4>1. CASE w = into
        <5>1. bodies[m + 1].doing.at = "publishing" /\ bodies[m + 1].doing.into = w
          BY <4>1 DEF Publishes, InImportOf, Waits
        <5> QED
          BY <1>2, <3>2, <5>1 DEF Tied
      <4>2. CASE w # into
        <5>1. Last(n) \in STRING /\ w \in Modules
          BY <1>2, Dots
        <5>2. Attribute(w, Last(n))' = Attribute(w, Last(n))
          BY <4>2, <5>1 DEF Joins
        <5>3. Holds(w, v, n)
          BY <1>2, <3>2, <5>2 DEF Holds
        <5> QED
          BY <1>2, <3>2, <5>3 DEF Tied
      <4> QED
        BY <4>1, <4>2
    <3>4. m + 1 \in 2 .. Depth
      BY <1>2
    <3> QED
      BY <1>2, <3>1, <3>3, <3>4 DEF IInv, Placed
  <2> QED
    BY <1>2, <1>4, <1>5, <1>8, <2>1, <2>2 DEF Begun
<1>11. Runs(S, S, m, b)
  BY <1>2, <1>5, <1>8 DEF Runs, Restated
<1>12. Step(S, S, m, d, b, v, None)
  BY <1>1, <1>5, <1>7, <1>10, <1>11 DEF Step
<1> QED
  BY <1>12, StepKeeps

(* It has no body, or its body is done: the import yields. *)
LEMMA PublishedLastKeeps ==
  ASSUME NEW S, IInv(S), NEW m, NEW d, NEW n, NEW v, InImportOf(S, m, d, n, v), Publishes,
         NEW into, NEW value, into = Body.doing.into, value = Body.doing.value,
         Restated(v, "ready"), Joins(into, n, value),
         assigned' = assigned \cup Strays(into, n, value # v),
         UNCHANGED <<cache, changed, overtaken, namespaces>>,
         bodies' = Yields(Front(bodies), value)
  PROVE  Consistent'
<1>1. /\ Objects(S, S, None) /\ Attributes(S, S, v) /\ Entries(S, S, m, None)
      /\ Failure(S, m, None) /\ Success(S, m, v)
      /\ KeepsEntries /\ (NoneFailed' => NoneFailed)
  BY Joined
<1>2. /\ m \in Nat /\ m >= 1 /\ Depth = m + 1 /\ v = bodies[m + 1].module /\ bodies[m + 1].for = "import"
      /\ v \in S /\ S \subseteq Modules /\ Name(v) = n /\ n \in Dotted /\ State(v) = "initializing" /\ v # Main
      /\ d = bodies[m].doing /\ d \in InImport /\ d \in Doing /\ Refers(S, d) /\ ~Loading(d)
      /\ d.at = "importing" /\ d.todo # <<>> /\ n = Head(d.todo) /\ Last(Front(bodies)) = bodies[m]
  BY DEF InImportOf, Waits
<1>3. value \in Values(S) /\ value \in Int /\ (value # v => n \in Touched)
  <2>1. value \in Values(S) /\ Announced(S, v, n, Body.doing)
    BY Publisher
  <2>2. Values(S) \subseteq Int
    BY SoundModules DEF IInv
  <2> QED
    BY <2>1, <2>2 DEF Announced
<1>4. PICK e : e = Received(d, value)
  OBVIOUS
<1>5. bodies' = Innermost(Front(bodies), e)
  BY <1>2, <1>4 DEF Yields
<1>6. /\ e \in InImport /\ e \in Doing /\ e.value = value /\ e.leaf = value /\ e.package = d.package
      /\ e.todo = Tail(d.todo) /\ e.given = d.given
  BY <1>2, <1>3, <1>4, Receives
<1>7. Refers(S, e) /\ ~Loading(e)
  <2>1. d.given # "registered" => Tail(d.todo) \in Seq(Named)
    BY <1>2, HeadTailProperties DEF Refers
  <2> QED
    BY <1>2, <1>3, <1>6, <2>1 DEF Refers, InImport, Loading
<1>8. Shape(m, e, None) /\ Depth' = m
  BY <1>2, <1>5, <1>6, ShapeOfReturn DEF IInv
<1>9. NoneFailed' => Reached(e)'
  <2> SUFFICES ASSUME NoneFailed' PROVE Reached(e)'
    OBVIOUS
  <2>1. NoneFailed /\ Reached(d)
    BY <1>1, <1>2 DEF IInv, Progress, InImportOf, Waits
  <2>2. n \notin changed' => n \in DOMAIN cache'
    BY <1>2, <2>1 DEF IInv, Entered
  <2>3. n \notin Touched' => value = cache'[n]
    <3>1. Touched' = Touched
      BY DEF Touched
    <3> QED
      BY <1>2, <1>3, <3>1 DEF IInv, Loaded
  <2> QED
    BY <1>1, <1>2, <1>3, <1>4, <2>1, <2>2, <2>3, ReachedReceives
<1>10. Continued(S, m, e)
  BY <1>2, <1>6, <1>7, <1>9 DEF Continued
<1>11. Begun(S, S, m, None) /\ Runs(S, S, m, None)
  BY <1>2, <1>8 DEF Begun, Runs, Restated
<1>12. Step(S, S, m, e, None, v, None)
  BY <1>1, <1>8, <1>10, <1>11 DEF Step
<1> QED
  BY <1>12, StepKeeps

LEMMA PublishModuleKeeps ==
  ASSUME NEW S, IInv(S), PublishModule
  PROVE  Consistent'
<1>0. Publishes
  BY DEF PublishModule
<1>1. Body.for = "import" /\ Body.doing.at # "creating" /\ Body.doing \in InPublication
  BY <1>0, Publisher
<1>2. PICK m, d, n, v : InImportOf(S, m, d, n, v)
  BY <1>1, RunningModule
<1>3. PICK into : into = Body.doing.into
  OBVIOUS
<1>4. PICK value : value = Body.doing.value
  OBVIOUS
<1>5. PICK published : published = Publish(modules, into, n, value)
  OBVIOUS
<1>6. /\ assigned' = assigned \cup Strays(into, n, value # v) /\ UNCHANGED <<cache, changed, overtaken>>
      /\ \/ modules' = published /\ bodies' = Now(Idle) /\ namespaces' = Append(namespaces, v)
         \/ /\ modules' = Moved(published, v, "ready") /\ bodies' = Yields(Front(bodies), value)
            /\ namespaces' = namespaces
  BY <1>2, <1>3, <1>4, <1>5 DEF PublishModule, InImportOf, Name
<1>7. /\ v \in Modules /\ n \in Dotted /\ State(v) = "initializing"
      /\ (IsChild(n) => into \in Modules) /\ value \in Reference
  <2>1. /\ Announced(S, v, n, Body.doing) /\ value \in Values(S)
    BY <1>0, <1>2, <1>4, Publisher
  <2>2. S \subseteq Modules /\ Values(S) \subseteq Int /\ Missing \notin Values(S)
    BY SoundModules DEF IInv, Known
  <2> QED
    BY <1>2, <1>3, <2>1, <2>2 DEF Announced, Reference, InImportOf, Waits
<1>8. CASE modules' = published /\ bodies' = Now(Idle) /\ namespaces' = Append(namespaces, v)
  <2>1. Restated(v, "initializing") /\ Joins(into, n, value)
    BY <1>5, <1>7, <1>8, JoinsNow DEF IInv
  <2> QED
    BY <1>0, <1>2, <1>3, <1>4, <1>6, <1>8, <2>1, PublishedBeforeKeeps
<1>9. CASE modules' = Moved(published, v, "ready") /\ bodies' = Yields(Front(bodies), value) /\ namespaces' = namespaces
  <2>1. Restated(v, "ready") /\ Joins(into, n, value)
    BY <1>5, <1>7, <1>9, JoinsNow DEF IInv
  <2> QED
    BY <1>0, <1>2, <1>3, <1>4, <1>6, <1>9, <2>1, PublishedLastKeeps
<1> QED
  BY <1>6, <1>8, <1>9

-----------------------------------------------------------------------------
(* A body ends *)

LEMMA Quiet ==
  ASSUME NEW S, IInv(S), NEW m, UNCHANGED <<modules, cache, changed, assigned, overtaken>>,
         \/ namespaces' = namespaces
         \/ namespaces' = Front(namespaces)
         \/ \E v \in S : namespaces' = Append(namespaces, v)
  PROVE  /\ Objects(S, S, None) /\ Attributes(S, S, None) /\ Entries(S, S, m, None) /\ Failure(S, m, None)
         /\ \A u \in Modules : Name(u)' = Name(u) /\ State(u)' = State(u)
         /\ \A u, c : Attribute(u, c)' = Attribute(u, c)
<1>1. /\ modules' \in Seq(ModuleObject) /\ Modules' = Modules /\ S \subseteq Modules /\ None \notin S
      /\ \A u : Name(u)' = Name(u) /\ State(u)' = State(u)
      /\ \A u, c : Attribute(u, c)' = Attribute(u, c)
      /\ State(Main) = "ready"
  BY Sizes, SoundModules DEF IInv, Known, Attribute, IsModule, Modules, Name, State
<1>2. Objects(S, S, None)
  BY <1>1 DEF Objects
<1>3. Attributes(S, S, None)
  <2>1. \A w \in S, c \in STRING : Attribute(w, c) \in Values(S) \cup {Missing}
    BY DEF IInv, Known
  <2>2. \A w \in Modules \ S, c \in STRING : Attribute(w, c) = Missing
    BY DEF IInv, Known
  <2> QED
    BY <1>1, <2>1, <2>2 DEF Attributes
<1>4. Entries(S, S, m, None)
  <2>1. namespaces' \in Seq(Nat) /\ \A k \in 1 .. Len(namespaces') : namespaces'[k] \in S
    BY FrontOfNamespaces DEF IInv
  <2> QED
    BY <2>1, EntriesLost DEF IInv
<1>5. Failure(S, m, None)
  BY <1>1 DEF Failure
<1> QED
  BY <1>1, <1>2, <1>3, <1>4, <1>5

(* What is in sys.modules is published once more. *)
LEMMA PublishesAgain ==
  ASSUME NEW S, IInv(S), NEW m, NEW d, NEW n, NEW v, InImportOf(S, m, d, n, v), Body.doing = Idle,
         n \in DOMAIN cache, NEW value, value = cache[n], ParentIsThere(cache, n),
         NEW e, e = Publishing(cache, n, value, "done"), bodies' = Now(e),
         namespaces' = Front(namespaces), UNCHANGED <<modules, cache, changed, assigned, overtaken>>
  PROVE  Consistent'
<1>1. /\ Objects(S, S, None) /\ Attributes(S, S, None) /\ Entries(S, S, m, None) /\ Failure(S, m, None)
      /\ \A u \in Modules : Name(u)' = Name(u) /\ State(u)' = State(u)
      /\ \A u, c : Attribute(u, c)' = Attribute(u, c)
  BY Quiet
<1>2. /\ m \in Nat /\ m >= 1 /\ Depth = m + 1 /\ v = bodies[m + 1].module /\ bodies[m + 1].for = "import"
      /\ v \in S /\ S \subseteq Modules /\ Name(v) = n /\ n \in Dotted /\ State(v) = "initializing" /\ None \notin S
      /\ d = bodies[m].doing /\ d \in Doing /\ Refers(S, d) /\ ~Loading(d) /\ v # Main
      /\ d.at = "importing" /\ d.todo # <<>> /\ n = Head(d.todo) /\ bodies[m + 1].doing = Idle
  BY SoundModules DEF InImportOf, Waits, IInv
<1>3. IsChild(n) => cache[Parent(n)] \in S /\ Parent(n) \in DOMAIN cache
  <2>1. IsChild(n) => Parent(n) \in DOMAIN cache /\ cache[Parent(n)] \in Modules
    BY DEF ParentIsThere, IsModule
  <2>2. Modules = 1 .. Len(modules)
    BY DEF Modules
  <2>3. Value \notin Modules /\ None \notin Modules
    BY <2>2, Sizes DEF IInv, Value, None
  <2> QED
    BY <2>1, <2>3 DEF IInv, Known, Values
<1>4. value \in Values(S) /\ Values(S) \subseteq Int /\ S \subseteq Int
  <2>1. value \in Values(S)
    BY DEF IInv, Known
  <2> QED
    BY <2>1, SoundModules DEF IInv, Values
<1>5. /\ e.at = "publishing" /\ e.value = value /\ e.stage = "done" /\ e \in InPublication
      /\ e.into = IF IsChild(n) THEN cache[Parent(n)] ELSE None
      /\ e.into \in S \cup {None}
  <2>1. /\ e.at = "publishing" /\ e.value = value /\ e.stage = "done"
        /\ e.into = IF IsChild(n) THEN cache[Parent(n)] ELSE None
        /\ (value \in Int /\ e.into \in Int /\ "done" \in {"body", "bare", "done"} => e \in InPublication)
    BY Publications
  <2>2. e.into \in S \cup {None}
    BY <1>3, <2>1
  <2>3. value \in Int /\ \A u \in S \cup {None} : u \in Int
    BY <1>4 DEF None
  <2>4. e.into \in Int
    BY <2>2, <2>3, Zenon
  <2>5. e \in InPublication
    BY <2>1, <2>3, <2>4
  <2> QED
    BY <2>1, <2>2, <2>5
<1>6. e \in Doing
  BY <1>5 DEF Doing
<1>7. PICK b : b = bodies'[m + 1]
  OBVIOUS
<1>8. /\ Shape(m, d, b) /\ Depth' = m + 1 /\ b \in BodyRecord
      /\ b.module = bodies[m + 1].module /\ b.for = bodies[m + 1].for /\ b.doing = e
  BY <1>2, <1>6, <1>7, ShapeOfChange DEF IInv
<1>9. bodies'[m].doing = d /\ bodies'[m + 1] = b
  <2>1. bodies'[m].doing = d
    BY <1>8, ShapeSeen
  <2> QED
    BY <1>7, <2>1
<1>10. NoneFailed' = NoneFailed /\ KeepsEntries
  BY Unfailed, Untouched
<1>11. Continued(S, m, d)
  <2>1. NoneFailed' => Reached(d)'
    BY <1>10, WaitsOn DEF InImportOf
  <2> QED
    BY <1>2, <2>1 DEF Continued
<1>12. Announced(S, v, n, e)'
  <2>1. value # v => n \in Touched'
    BY <1>2 DEF IInv, Loaded, Touched
  <2>2. ASSUME IsChild(n) PROVE e.into \in S /\ (Name(e.into)' = Parent(n) \/ Parent(n) \in changed')
    <3>1. PICK w \in S : w = e.into /\ w = cache[Parent(n)]
      BY <1>3, <1>5, <2>2
    <3>2. Parent(n) \notin changed => Name(w) = Parent(n)
      BY <1>3, <2>2, <3>1 DEF IInv, Cached
    <3> QED
      BY <1>1, <1>2, <3>1, <3>2
  <2> QED
    BY <1>5, <2>1, <2>2 DEF Announced
<1>13. Begun(S, S, m, b)
  <2>1. Under(m + 1)'
    <3>1. (m + 1) - 1 = m /\ v # None /\ Name(v)' = n
      BY <1>1, <1>2
    <3> QED
      BY <1>2, <1>5, <1>8, <1>9, <3>1 DEF Under
  <2>2. ASSUME NEW u \in S, NEW k \in Dotted, b.module = u, Name(u)' = k PROVE Announced(S, u, k, b.doing)'
    <3>1. u = v /\ k = n
      BY <1>1, <1>2, <1>8, <2>2
    <3> QED
      BY <1>8, <1>12, <3>1
  <2>3. ASSUME NEW u \in S, NEW w \in S, NEW k \in Dotted, Tied(m + 1, w, u, k)'
        PROVE  Parent(k) \in DOMAIN cache' /\ cache'[Parent(k)] = w
    <3>1. u = v /\ k = n
      BY <1>1, <1>2, <1>8, <1>9, <2>3 DEF Tied
    <3>2. IsChild(n) /\ Parent(n) \notin changed /\ (Holds(w, v, n)' \/ e.into = w)
      BY <1>8, <1>9, <2>3, <3>1 DEF Tied
    <3>3. CASE e.into = w
      BY <1>3, <1>5, <3>1, <3>2, <3>3
    <3>4. CASE Holds(w, v, n)'
      <4>1. Holds(w, v, n)
        BY <1>1, <1>2, <3>4 DEF Holds
      <4> QED
        BY <3>1, <3>2, <4>1, ParentInPlace
    <3> QED
      BY <3>2, <3>3, <3>4
  <2>4. Refers(S, e)
    BY <1>4, <1>5 DEF Refers
  <2> QED
    BY <1>2, <1>5, <1>8, <2>1, <2>2, <2>3, <2>4 DEF Begun
<1>14. Runs(S, S, m, b)
  BY <1>1, <1>2, <1>8 DEF Runs
<1>15. Success(S, m, None)
  BY <1>2 DEF Success, Idle
<1>16. Step(S, S, m, d, b, None, None)
  BY <1>1, <1>8, <1>11, <1>13, <1>14, <1>15 DEF Step
<1> QED
  BY <1>16, StepKeeps

LEMMA BodySucceedsKeeps ==
  ASSUME NEW S, IInv(S), BodySucceeds
  PROVE  Consistent'
<1>1. Body.for = "import" /\ Body.doing = Idle /\ Body.doing.at # "creating"
  BY DEF BodySucceeds, Idle
<1>2. PICK m, d, n, v : InImportOf(S, m, d, n, v)
  BY <1>1, RunningModule
<1>3. v = Body.module /\ n = modules[v].name /\ v # None
  BY <1>2, SoundModules DEF InImportOf, Name, IInv
<1>4. /\ namespaces' = Front(namespaces) /\ UNCHANGED <<changed, assigned, overtaken>>
      /\ \/ /\ n \in DOMAIN cache => cache[n] = None
            /\ modules' = RemoveFromParent(Moved(modules, v, "failed"), cache, n, v)
            /\ bodies' = Fails(Front(bodies)) /\ cache' = cache
         \/ /\ cache' = RemoveCached(cache, n, v)
            /\ modules' = RemoveFromParent(Moved(modules, v, "failed"), cache', n, v)
            /\ bodies' = Fails(Front(bodies))
         \/ /\ n \in DOMAIN cache /\ ParentIsThere(cache, n)
            /\ bodies' = Now(Publishing(cache, n, cache[n], "done"))
            /\ modules' = modules /\ cache' = cache
  BY <1>3 DEF BodySucceeds
<1>5. ASSUME n \in DOMAIN cache => cache[n] = None,
             modules' = RemoveFromParent(Moved(modules, v, "failed"), cache, n, v),
             bodies' = Fails(Front(bodies)), cache' = cache
      PROVE  Consistent'
  <2>1. cache' = RemoveCached(cache, n, v)
    BY <1>3, <1>5 DEF RemoveCached
  <2>2. modules' = RemoveFromParent(Moved(modules, v, "failed"), cache', n, v)
    BY <1>5
  <2> QED
    BY <1>2, <1>4, <1>5, <2>1, <2>2, FailsFromParent
<1>6. ASSUME cache' = RemoveCached(cache, n, v),
             modules' = RemoveFromParent(Moved(modules, v, "failed"), cache', n, v),
             bodies' = Fails(Front(bodies))
      PROVE  Consistent'
  BY <1>2, <1>4, <1>6, FailsFromParent
<1>7. ASSUME n \in DOMAIN cache, ParentIsThere(cache, n), modules' = modules, cache' = cache,
             bodies' = Now(Publishing(cache, n, cache[n], "done"))
      PROVE  Consistent'
  <2>1. PICK value : value = cache[n]
    OBVIOUS
  <2>2. PICK e : e = Publishing(cache, n, value, "done")
    OBVIOUS
  <2>3. bodies' = Now(e)
    BY <1>7, <2>1, <2>2
  <2> QED
    BY <1>1, <1>2, <1>4, <1>7, <2>1, <2>2, <2>3, PublishesAgain
<1> QED
  BY <1>4, <1>5, <1>6, <1>7

-----------------------------------------------------------------------------
(* Reloads *)

LEMMA Moving ==
  ASSUME NEW S, IInv(S), NEW m, NEW v \in S, v # Main, State(v) # "failed",
         NEW state \in {"ready", "initializing"}, modules' = Moved(modules, v, state),
         UNCHANGED <<cache, changed, assigned, overtaken>>,
         \/ namespaces' = namespaces
         \/ namespaces' = Front(namespaces)
         \/ namespaces' = Append(namespaces, v)
  PROVE  /\ Objects(S, S, None) /\ Attributes(S, S, None) /\ Entries(S, S, m, None) /\ Failure(S, m, None)
         /\ Restated(v, state) /\ v \in Modules
<1>1. v \in Modules /\ S \subseteq Modules /\ None \notin S /\ state \in ModuleState /\ state # "failed"
  BY SoundModules DEF IInv, Known, ModuleState
<1>2. /\ Restated(v, state)
      /\ \A u \in Modules, c \in STRING : Attribute(u, c)' = Attribute(u, c)
  BY <1>1, MovesNow DEF IInv
<1>3. Objects(S, S, None)
  BY <1>1, <1>2, OneRestated DEF IInv
<1>4. Attributes(S, S, None)
  <2>1. \A w \in S, c \in STRING : Attribute(w, c) \in Values(S) \cup {Missing}
    BY DEF IInv, Known
  <2>2. \A w \in Modules \ S, c \in STRING : Attribute(w, c) = Missing
    BY DEF IInv, Known
  <2> QED
    BY <1>1, <1>2, <2>1, <2>2 DEF Attributes, Restated
<1>5. Entries(S, S, m, None)
  <2>1. namespaces' \in Seq(Nat) /\ \A k \in 1 .. Len(namespaces') : namespaces'[k] \in S
    BY FrontOfNamespaces DEF IInv
  <2> QED
    BY <2>1, EntriesLost DEF IInv
<1>6. Failure(S, m, None)
  BY <1>1 DEF Failure
<1> QED
  BY <1>1, <1>2, <1>3, <1>4, <1>5, <1>6

LEMMA ReloadsAgain ==
  ASSUME NEW S, IInv(S), NEW v \in S, v # Main, State(v) = "ready", ~Loading(Body.doing),
         modules' = Moved(modules, v, "initializing"),
         NEW b, b = [module |-> v, for |-> "reload", doing |-> Idle],
         bodies' = Append(Now(Reloading), b),
         namespaces' = Append(namespaces, v), UNCHANGED <<cache, changed, assigned, overtaken>>
  PROVE  Consistent'
<1>1. PICK m \in Nat : m = Depth
  BY Inside
<1>2. m >= 1 /\ Body = bodies[m]
  BY <1>1, Inside DEF Body
<1>3. /\ Objects(S, S, None) /\ Attributes(S, S, None) /\ Entries(S, S, m, None) /\ Failure(S, m, None)
      /\ Restated(v, "initializing") /\ v \in Modules
  BY Moving
<1>4. /\ Reloading \in Doing /\ Refers(S, Reloading) /\ Reached(Reloading)' /\ ~Loading(Reloading)
      /\ Reloading.at = "reloading"
      /\ Idle \in Doing /\ Refers(S, Idle) /\ ~Loading(Idle) /\ Idle.at = "idle"
  BY Rests DEF Reloading, Idle
<1>5. v \in Nat /\ v # None /\ S \subseteq Modules
  BY SoundModules DEF IInv, Known
<1>6. b \in BodyRecord /\ b.module = v /\ b.for = "reload" /\ b.doing = Idle
  BY <1>4, <1>5 DEF BodyRecord
<1>7. Shape(m, Reloading, b) /\ Depth' = m + 1
  BY <1>1, <1>2, <1>4, <1>6, ShapeOfCall DEF IInv
<1>8. bodies'[m].doing = Reloading /\ bodies'[m + 1] = b
  BY <1>7, ShapeSeen
<1>9. Continued(S, m, Reloading)
  BY <1>2, <1>4 DEF Continued
<1>10. Begun(S, S, m, b)
  <2>1. Under(m + 1)'
    <3>1. (m + 1) - 1 = m
      BY <1>1
    <3> QED
      BY <1>4, <1>5, <1>6, <1>8, <3>1 DEF Under
  <2> QED
    BY <1>4, <1>6, <1>8, <2>1 DEF Begun, Tied
<1>11. Runs(S, S, m, b)
  <2>1. Depth # m + 1
    BY <1>1
  <2> QED
    BY <1>3, <1>5, <1>6, <1>7, <2>1 DEF Runs, Restated
<1>12. Success(S, m, None)
  <2>1. Depth # m + 1 /\ None \notin S
    BY <1>1, SoundModules DEF IInv
  <2> QED
    BY <2>1 DEF Success
<1>13. Step(S, S, m, Reloading, b, None, None)
  BY <1>3, <1>7, <1>9, <1>10, <1>11, <1>12 DEF Step
<1> QED
  BY <1>13, StepKeeps

LEMMA ReloadKeeps ==
  ASSUME NEW S, IInv(S), NEW v \in Held, Reload(v)
  PROVE  Consistent'
<1>1. v \in S
  BY HeldModules
<1>2. \/ /\ ~Loading(Body.doing) /\ UNCHANGED <<modules, cache, namespaces, changed, assigned, overtaken>>
         /\ \E d \in {Idle, Raised} : bodies' = Now(d)
      \/ /\ ~Loading(Body.doing) /\ Name(v) \in Names /\ State(v) = "ready"
         /\ modules' = Moved(modules, v, "initializing")
         /\ bodies' = Append(Now(Reloading), [module |-> v, for |-> "reload", doing |-> Idle])
         /\ namespaces' = Append(namespaces, v) /\ UNCHANGED <<cache, changed, assigned, overtaken>>
  BY NotLoading DEF Reload, Executes, Name, State, Reloading
<1>3. ASSUME ~Loading(Body.doing), UNCHANGED <<modules, cache, namespaces, changed, assigned, overtaken>>,
             NEW d \in {Idle, Raised}, bodies' = Now(d)
      PROVE  Consistent'
  <2>1. Edits(S)
    BY <1>3, StaysPut DEF IInv
  <2> QED
    BY <1>3, <2>1, EditAndRest
<1>4. Name(v) \in Names => v # Main
  BY ConstantsAssumption DEF IInv, Known
<1>5. ASSUME ~Loading(Body.doing), Name(v) \in Names, State(v) = "ready",
             modules' = Moved(modules, v, "initializing"),
             bodies' = Append(Now(Reloading), [module |-> v, for |-> "reload", doing |-> Idle]),
             namespaces' = Append(namespaces, v), UNCHANGED <<cache, changed, assigned, overtaken>>
      PROVE  Consistent'
  <2>1. PICK b : b = [module |-> v, for |-> "reload", doing |-> Idle]
    OBVIOUS
  <2>2. bodies' = Append(Now(Reloading), b)
    BY <1>5, <2>1
  <2> QED
    BY <1>1, <1>4, <1>5, <2>1, <2>2, ReloadsAgain
<1> QED
  BY <1>2, <1>3, <1>5

LEMMA ReloadEndsKeeps ==
  ASSUME NEW S, IInv(S), ReloadEnds
  PROVE  Consistent'
<1>1. /\ Body.for = "reload" /\ modules' = Moved(modules, Body.module, "ready")
      /\ bodies' = IF Body.doing = Idle THEN Yields(Front(bodies), Body.module) ELSE Fails(Front(bodies))
      /\ namespaces' = Front(namespaces) /\ UNCHANGED <<cache, changed, assigned, overtaken>>
  BY DEF ReloadEnds
<1>2. PICK m \in Nat : /\ m >= 1 /\ Depth = m + 1 /\ m + 1 \in 2 .. Depth /\ m \in 1 .. Depth
                       /\ Body = bodies[m + 1] /\ bodies[m] \in BodyRecord /\ bodies[m].doing \in Doing
                       /\ Under(m + 1) /\ Last(Front(bodies)) = bodies[m]
  BY <1>1, Caller
<1>3. PICK v : v = Body.module
  OBVIOUS
<1>4. bodies[m].doing.at = "reloading" /\ v # None /\ ~Loading(bodies[m + 1].doing) /\ bodies[m + 1].for = "reload"
  <2>1. (m + 1) - 1 = m
    BY <1>2
  <2> QED
    BY <1>1, <1>2, <1>3, <2>1 DEF Under
<1>5. v \in S /\ State(v) = "initializing" /\ v # Main /\ None \notin S /\ v = bodies[m + 1].module
  <2>1. v \in S /\ None \notin S
    BY <1>3, <1>4, Inside, SoundModules DEF IInv
  <2>2. v = bodies[m + 1].module /\ State(v) = "initializing"
    BY <1>2, <1>3, <2>1 DEF IInv, Running
  <2> QED
    BY <2>1, <2>2 DEF IInv, Known
<1>6. /\ Objects(S, S, None) /\ Attributes(S, S, None) /\ Entries(S, S, m, None) /\ Failure(S, m, None)
      /\ Restated(v, "ready") /\ v \in Modules
  BY <1>1, <1>3, <1>5, Moving
<1>7. PICK d \in {Idle, Raised} : bodies' = Innermost(Front(bodies), d)
  <2>1. Received(bodies[m].doing, v) = Idle
    BY <1>4 DEF Received
  <2>2. Yields(Front(bodies), v) = Innermost(Front(bodies), Idle)
    BY <1>2, <2>1 DEF Yields
  <2> QED
    BY <1>1, <1>3, <2>2 DEF Fails
<1>8. d \in Doing /\ Refers(S, d) /\ Reached(d)' /\ ~Loading(d)
  BY Rests
<1>9. Shape(m, d, None) /\ Depth' = m
  BY <1>2, <1>7, <1>8, ShapeOfReturn DEF IInv
<1>10. Continued(S, m, d)
  BY <1>4, <1>8 DEF Continued, Loading
<1>11. Depth' # m + 1
  BY <1>9
<1>12. Begun(S, S, m, None)
  BY <1>11 DEF Begun
<1>13. Runs(S, S, m, None)
  <2>1. S \subseteq Modules
    BY DEF IInv, Known
  <2> QED
    BY <1>2, <1>5, <1>6, <1>11, <2>1 DEF Runs, Restated
<1>14. Success(S, m, None)
  BY <1>4, <1>5 DEF Success, Loading
<1>15. Step(S, S, m, d, None, None, None)
  BY <1>6, <1>9, <1>10, <1>12, <1>13, <1>14 DEF Step
<1> QED
  BY <1>15, StepKeeps

-----------------------------------------------------------------------------
(* The invariant *)

LEMMA MainAtFirst ==
  ASSUME Init
  PROVE  /\ modules \in Seq(ModuleObject) /\ Modules = {Main}
         /\ Name(Main) = <<"__main__">> /\ State(Main) = "ready" /\ <<"__main__">> \in Dotted
         /\ \A c \in STRING : Attribute(Main, c) = Missing
         /\ bodies \in Seq(BodyRecord) /\ Depth = 1 /\ bodies[1].module = Main
         /\ bodies[1].for = "main" /\ bodies[1].doing = Idle
<1>1. <<"__main__">> \in Dotted
  BY ConstantsAssumption
<1>2. PICK m : m = NewModule(<<"__main__">>, "ready", "source")
  OBVIOUS
<1>3. /\ m \in ModuleObject /\ m.name = <<"__main__">> /\ m.state = "ready"
      /\ DOMAIN m.attributes = {}
  <2>1. ("source" \in {"package", "namespace"}) \in BOOLEAN
    OBVIOUS
  <2> QED
    BY <1>1, <1>2, <2>1, EmptyNamespace DEF NewModule, ModuleObject, ModuleState
<1>4. modules = <<m>>
  BY <1>2 DEF Init
<1>5. PICK b : b = [module |-> Main, for |-> "main", doing |-> Idle]
  OBVIOUS
<1>6. b \in BodyRecord /\ b.module = Main /\ b.for = "main" /\ b.doing = Idle
  BY <1>5 DEF BodyRecord, Doing, Main
<1>7. bodies = <<b>>
  BY <1>5 DEF Init
<1>8. modules \in Seq(ModuleObject) /\ Len(modules) = 1 /\ modules[1] = m
  BY <1>3, <1>4
<1>9. bodies \in Seq(BodyRecord) /\ Len(bodies) = 1 /\ bodies[1] = b
  BY <1>6, <1>7
<1> QED
  BY <1>1, <1>3, <1>6, <1>8, <1>9 DEF Modules, Main, Name, State, Attribute, IsModule, Depth

LEMMA InitKeeps ==
  ASSUME Init
  PROVE  Consistent
<1> DEFINE S == {Main}
<1>1. DOMAIN cache = {} /\ namespaces = <<>>
  BY EmptyNamespace DEF Init
<1>2. Depth = 1 /\ 1 .. Depth = {1} /\ 2 .. Depth = {}
  BY MainAtFirst
<1>3. Refers(S, Idle) /\ Reached(Idle) /\ ~Loading(Idle)
  BY Rests
<1>4. TypeOK
  BY <1>1, MainAtFirst DEF TypeOK
<1>5. Known(S)
  <2>1. \A k \in 1 .. Depth : bodies[k].module \in S \cup {None} /\ Refers(S, bodies[k].doing)
    BY <1>2, <1>3, MainAtFirst
  <2>2. /\ \A v \in S, c \in STRING : Attribute(v, c) \in Values(S) \cup {Missing}
        /\ \A v \in Modules \ S, c \in STRING : Attribute(v, c) = Missing
    BY MainAtFirst
  <2>3. \A k \in 1 .. Len(namespaces) : namespaces[k] \in S
    BY <1>1
  <2> QED
    BY <1>1, <2>1, <2>2, <2>3, MainAtFirst DEF Known
<1>6. Nesting /\ Running(S)
  BY <1>2, <1>3, MainAtFirst DEF Nesting, Running
<1>7. Cached(S) /\ Loaded(S) /\ Entered(S) /\ Attached(S)
  BY <1>1 DEF Cached, Loaded, Entered, Attached
<1>8. OneEach(S)
  BY DEF OneEach, Main
<1>9. Publication(S) /\ Placed(S)
  BY <1>2 DEF Publication, Placed
<1>10. Gone(S)
  BY MainAtFirst DEF Gone, Holds
<1>11. Told(S)
  BY MainAtFirst DEF Told
<1>12. Progress
  BY <1>2, <1>3, MainAtFirst DEF Progress
<1>13. IInv(S)
  BY <1>4, <1>5, <1>6, <1>7, <1>8, <1>9, <1>10, <1>11, <1>12 DEF IInv
<1>14. S \in SUBSET Modules
  BY MainAtFirst
<1> QED
  BY <1>13, <1>14 DEF Consistent

LEMMA StatementKeeps ==
  ASSUME NEW S, IInv(S), Statement
  PROVE  Consistent'
<1>1. CASE \E s \in Statements : StartImport(s)
  BY <1>1, StartImportKeeps
<1>2. CASE StatementRaises
  BY <1>2, StatementRaisesKeeps
<1>3. CASE \E v \in Held, c \in Components : AssignAttribute(v, c) \/ DeleteAttribute(v, c)
  BY <1>3, AssignAttributeKeeps, DeleteAttributeKeeps
<1>4. CASE \E n \in Names : DeleteCache(n) \/ \E v \in Held \cup {None, Value} : AssignCache(n, v)
  BY <1>4, CacheStatementsKeep
<1>5. CASE \E v \in Held : Reload(v)
  BY <1>5, ReloadKeeps
<1> QED
  BY <1>1, <1>2, <1>3, <1>4, <1>5 DEF Statement

LEMMA StutteringKeeps ==
  ASSUME NEW S, IInv(S), UNCHANGED vars
  PROVE  Consistent'
<1>1. UNCHANGED <<modules, cache, bodies, namespaces, changed, assigned, overtaken>>
  BY DEF vars
<1>2. PICK m \in Nat : m = Depth
  BY Inside
<1>3. m >= 1 /\ m \in 1 .. Depth /\ Body = bodies[m]
  BY <1>2, Inside DEF Body
<1>4. PICK d \in Doing : d = Body.doing
  BY Inside
<1>5. Shape(m, d, None) /\ Depth' = m
  BY <1>1, <1>2, <1>3, <1>4 DEF Shape, Depth, IInv, TypeOK
<1>6. Depth' # m + 1 /\ Depth # m + 1
  BY <1>2, <1>5
<1>7. Begun(S, S, m, None)
  BY <1>6 DEF Begun
<1> QED
  BY <1>1, <1>2, <1>3, <1>4, <1>5, <1>6, <1>7, WaitsKeep

LEMMA NextKeeps ==
  ASSUME Consistent, [Next]_vars
  PROVE  Consistent'
<1> SUFFICES ASSUME NEW S, IInv(S)
             PROVE  Consistent'
  BY DEF Consistent
<1>1. CASE Statement
  BY <1>1, StatementKeeps
<1>2. CASE Handle
  BY <1>2, StatementRaisesKeeps
<1>3. CASE Import
  BY <1>3, ImportKeeps
<1>4. CASE Bound
  BY <1>4, BoundKeeps
<1>5. CASE ImportRefused
  BY <1>5, ImportRefusedKeeps
<1>6. CASE CacheModule
  BY <1>6, CacheModuleKeeps
<1>7. CASE PublishModule
  BY <1>7, PublishModuleKeeps
<1>8. CASE PublicationRefused
  BY <1>8, PublicationRefusedKeeps
<1>9. CASE BodySucceeds
  BY <1>9, BodySucceedsKeeps
<1>10. CASE BodyFails
  BY <1>10, BodyFailsKeeps
<1>11. CASE ReloadEnds
  BY <1>11, ReloadEndsKeeps
<1>12. CASE Collect
  BY <1>12, CollectKeeps
<1>13. CASE HookEnds
  BY <1>13, HookEndsKeeps
<1>14. CASE UNCHANGED vars
  BY <1>14, StutteringKeeps
<1> QED
  BY <1>1, <1>2, <1>3, <1>4, <1>5, <1>6, <1>7, <1>8, <1>9, <1>10, <1>11, <1>12, <1>13, <1>14 DEF Next

(* What the import machinery of the runtime keeps, whatever the modules, the *)
(* bodies, the hooks that run in the middle of an import and the failures:   *)
(* the entries of sys.modules, the bodies that run, the attributes of        *)
(* packages and the imports under way agree, but for the module objects that *)
(* refused imports left behind.                                            *)
THEOREM ImportInvariant == Spec => []Consistent
<1>1. Init => Consistent
  BY InitKeeps
<1>2. Consistent /\ [Next]_vars => Consistent'
  BY NextKeeps
<1> QED
  BY <1>1, <1>2, PTL DEF Spec

-----------------------------------------------------------------------------
(* What it gives *)

LEMMA UsedModules ==
  ASSUME NEW S, IInv(S)
  PROVE  Modules \cap InUse \subseteq S
<1> SUFFICES ASSUME NEW v \in Modules, v \in InUse PROVE v \in S
  OBVIOUS
<1>1. v # None
  BY Sizes DEF IInv, None
<1>2. CASE v \in Held
  BY <1>2, HeldModules
<1>3. CASE \E k \in 2 .. Depth : v = bodies[k].module
  <2>1. PICK k \in 2 .. Depth : v = bodies[k].module
    BY <1>3
  <2>2. k \in 1 .. Depth
    BY <2>1, Inside
  <2> QED
    BY <1>1, <2>1, <2>2 DEF IInv, Known
<1> QED
  BY <1>2, <1>3 DEF InUse

(* Of what the program can get hold of or is loading, a name has a second    *)
(* module object only if the first failed, the program changed its entry in  *)
(* sys.modules, or a hook loaded it between cached_module and cache_module.  *)
THEOREM LoadedOnce == Spec => []OneObjectPerLoad
<1>1. Consistent => OneObjectPerLoad
  <2> SUFFICES ASSUME NEW S, IInv(S) PROVE OneObjectPerLoad
    BY DEF Consistent
  <2>1. Modules \cap InUse \subseteq S
    BY UsedModules
  <2> QED
    BY <2>1 DEF OneObjectPerLoad, IInv, OneEach, Touched, Name, State
<1> QED
  BY <1>1, ImportInvariant, PTL

(* A module that failed is neither in sys.modules nor in its parent, unless *)
(* the program put it there or changed the parent's entry in sys.modules:   *)
(* remove_cached_module_if and remove_module_from_parent_if find both.      *)
THEOREM FailuresLeave == Spec => []FailedUnpublished
<1>1. Consistent => FailedUnpublished
  <2> SUFFICES ASSUME NEW S, IInv(S), NEW v \in Modules, State(v) = "failed"
               PROVE  /\ \A m \in DOMAIN cache : cache[m] = v => m \in changed
                      /\ \A w \in Modules :
                           IsChild(Name(v)) /\ Name(w) = Parent(Name(v)) /\ Attribute(w, Last(Name(v))) = v =>
                             Parent(Name(v)) \in changed \/ Name(v) \in assigned
    BY DEF Consistent, FailedUnpublished, Name, State
  <2>1. \A m \in DOMAIN cache : cache[m] = v => m \in changed
    BY DEF IInv, Cached
  <2>2. PICK n \in Dotted : n = Name(v)
    BY Sizes DEF IInv
  <2>3. ASSUME NEW w \in Modules, IsChild(n), Name(w) = Parent(n), Attribute(w, Last(n)) = v
        PROVE  Parent(n) \in changed \/ n \in assigned
    <3>1. Last(n) \in STRING /\ v # Missing /\ v # None /\ v # Value
      <4>1. Last(n) \in STRING
        BY Dots
      <4>2. v # Missing /\ v # None /\ v # Value
        BY Sizes DEF IInv, Missing, None, Value
      <4> QED
        BY <4>1, <4>2
    <3>2. w \in S /\ Attribute(w, Last(n)) \in Values(S)
      BY <2>3, <3>1, AttributeValues
    <3>3. v \in S
      BY <2>3, <3>1, <3>2 DEF Values
    <3> QED
      BY <2>2, <2>3, <3>2, <3>3 DEF IInv, Gone, Holds
  <2> QED
    BY <2>1, <2>2, <2>3
<1> QED
  BY <1>1, ImportInvariant, PTL

(* A module that the program can get hold of is "initializing" exactly while *)
(* it is being loaded or reloaded, and no module is by two of them.         *)
THEOREM OneBodyRuns == Spec => []InitializingIsRunning
<1>1. Consistent => InitializingIsRunning
  <2> SUFFICES ASSUME NEW S, IInv(S), NEW v \in Modules
               PROVE  LET loads == {k \in 2 .. Depth : bodies[k].module = v} IN
                      /\ Cardinality(loads) <= 1
                      /\ loads # {} => State(v) = "initializing"
                      /\ v \in Held /\ State(v) = "initializing" => loads # {}
    BY DEF Consistent, InitializingIsRunning, State
  <2> DEFINE loads == {k \in 2 .. Depth : bodies[k].module = v}
  <2>1. v # None
    BY Sizes DEF IInv, None
  <2>2. ASSUME NEW k \in loads
        PROVE  /\ v \in S /\ State(v) = "initializing" /\ loads = {k}
    <3>1. k \in 2 .. Depth /\ bodies[k].module = v /\ k \in 1 .. Depth
      BY <2>2, Inside
    <3>2. v \in S
      BY <2>1, <3>1 DEF IInv, Known
    <3> QED
      BY <2>1, <3>1, <3>2 DEF IInv, Running
  <2>3. Cardinality(loads) <= 1
    <3>1. CASE loads = {}
      BY <3>1, FS_EmptySet
    <3>2. CASE loads # {}
      <4>1. PICK k : k \in loads
        BY <3>2
      <4>2. loads = {k}
        BY <2>2, <4>1
      <4> HIDE DEF loads
      <4>3. Cardinality(loads) = 1
        BY <4>2, FS_Singleton
      <4> QED
        BY <4>3
    <3> QED
      BY <3>1, <3>2
  <2>4. v \in Held /\ State(v) = "initializing" => loads # {}
    <3> SUFFICES ASSUME v \in Held, State(v) = "initializing" PROVE loads # {}
      OBVIOUS
    <3>1. v \in S
      BY HeldModules
    <3>2. PICK k \in 2 .. Depth : bodies[k].module = v
      BY <3>1 DEF IInv, Running
    <3> QED
      BY <3>2
  <2>5. loads # {} => State(v) = "initializing"
    BY <2>2
  <2> QED
    BY <2>3, <2>4, <2>5
<1> QED
  BY <1>1, ImportInvariant, PTL

(* An import of a.b reads, of a and then of each module the next component,  *)
(* and finds what sys.modules has for it, as long as nothing failed, the     *)
(* program changed neither the entry nor the attribute of a prefix, and no    *)
(* hook imports between the entry of a prefix and its attribute: those that  *)
(* publish_module_to_parent sets are those that lower_import reads.         *)
THEOREM ReadsFindTheirModule == Spec => []LeafIsCachedAtFirst
<1>1. Consistent => LeafIsCachedAtFirst
  <2> SUFFICES ASSUME NEW S, IInv(S), NoneFailed, Arrived,
                      Body.doing.statement.form \in {"plain", "alias", "from", "star"},
                      \A p \in Range(PrefixesOf(Body.doing.statement.name)) :
                        p \notin changed \cup assigned \cup overtaken \cup HalfPublished
               PROVE  LET n == Body.doing.statement.name
                          unread == Body.doing.unread
                          read == SubSeq(n, 1, Len(n) - Len(unread)) IN
                      /\ read \in DOMAIN cache /\ Body.doing.leaf = cache[read]
                      /\ unread # <<>> => Attribute(Body.doing.leaf, Head(unread)) # Missing
    BY DEF Consistent, LeafIsCachedAtFirst, LeafIsCached, NoneFailed, State
  <2>1. PICK d \in InImport : d = Body.doing
    BY ImportedFacts
  <2> DEFINE n == d.statement.name
             want == Wanted(d.statement)
             r == Len(n) - Len(d.unread)
  <2>2. /\ d.at = "importing" /\ d.todo = <<>> /\ d.unread \in Seq(STRING)
        /\ d.statement.form \in {"plain", "alias", "from", "star"} /\ n \in Dotted
    BY <2>1 DEF Arrived, InImport, AnyStatement
  <2>3. Reached(d)
    BY <2>1, InsideReached
  <2>4. n \in Seq(STRING) /\ Len(n) \in Nat /\ Len(n) >= 1
    BY <2>2, Dots DEF Dotted
  <2>5. \A i \in 1 .. Len(n) : SubSeq(n, 1, i) \notin Touched \cup assigned \cup HalfPublished
    <3> SUFFICES ASSUME NEW i \in 1 .. Len(n)
                 PROVE  SubSeq(n, 1, i) \in Range(PrefixesOf(n))
      BY <2>1 DEF Touched
    <3> QED
      BY DEF Range, PrefixesOf
  <2>6. /\ Len(want) = Len(n) + 1 /\ \A i \in 1 .. Len(n) : want[i] = SubSeq(n, 1, i)
    BY <2>2, WantedNames
  <2>7. /\ \A i \in 1 .. Len(want) : want[i] \notin changed => want[i] \in DOMAIN cache
        /\ r \in 1 .. Len(n) /\ d.unread = SubSeq(n, r + 1, Len(n))
        /\ d.leaf = cache[SubSeq(n, 1, r)]
    <3>1. Len(d.todo) = 0 /\ Len(want) - 0 = Len(want)
      BY <2>2, <2>4, <2>6
    <3> QED
      BY <2>2, <2>3, <2>5, <3>1 DEF Reached
  <2>8. \A i \in 1 .. Len(n) : SubSeq(n, 1, i) \in DOMAIN cache
    <3> SUFFICES ASSUME NEW i \in 1 .. Len(n) PROVE SubSeq(n, 1, i) \in DOMAIN cache
      OBVIOUS
    <3>1. i \in 1 .. Len(want)
      BY <2>4, <2>6
    <3>2. want[i] = SubSeq(n, 1, i) /\ SubSeq(n, 1, i) \notin changed
      BY <2>5, <2>6 DEF Touched
    <3> QED
      BY <2>7, <3>1, <3>2
  <2>9. ASSUME d.unread # <<>> PROVE Attribute(d.leaf, Head(d.unread)) # Missing
    <3> DEFINE p == SubSeq(n, 1, r + 1)
    <3> HIDE DEF n, want, r
    <3>1. r + 1 \in 1 .. Len(n) /\ Head(d.unread) = n[r + 1]
      <4>1. n \in Dotted /\ d.unread \in Seq(STRING) /\ r \in 1 .. Len(n) /\ d.unread = SubSeq(n, r + 1, Len(n))
        BY <2>2, <2>7
      <4> QED
        BY <2>9, <4>1, NextComponent
    <3>2. p \in Dotted /\ IsChild(p) /\ Parent(p) = SubSeq(n, 1, r) /\ Last(p) = n[r + 1]
      BY <2>2, <2>7, <3>1, PrefixIsChild
    <3>3. p \in DOMAIN cache /\ p \notin Touched \cup assigned \cup HalfPublished /\ Parent(p) \notin Touched
      BY <2>5, <2>7, <2>8, <3>1, <3>2
    <3> HIDE DEF p
    <3>4. ~Half(p)
      <4>1. \A k \in 2 .. Depth : k \in 1 .. Depth
        BY Inside
      <4> QED
        BY <3>3, <4>1 DEF Half, HalfPublished, Name
    <3>5. PICK w \in S : cache[Parent(p)] = w
      BY <2>7, <2>8, <3>2, <3>3 DEF IInv, Cached, Touched
    <3>6. Attribute(w, Last(p)) # Missing
      BY <3>2, <3>3, <3>4, <3>5 DEF IInv, Attached
    <3> QED
      BY <2>7, <3>1, <3>2, <3>5, <3>6
  <2> QED
    BY <2>1, <2>7, <2>8, <2>9
<1> QED
  BY <1>1, ImportInvariant, PTL
=============================================================================
