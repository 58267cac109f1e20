-------------------------- MODULE SuspendedProofs --------------------------
(***************************************************************************)
(* What the runtime keeps for the code that resumes a suspended object,    *)
(* and for the operations of an async generator, proved for any number of  *)
(* objects and calls and every value of the bounds.                        *)
(*                                                                         *)
(* A function of the runtime is an operator on states, and so are the      *)
(* lemmas: each says that the function, called in a good state, leaves a   *)
(* good one.  What a collection must spare is the second half: a state is  *)
(* lively when all that is named exists.  Only the lemmas on steps mention *)
(* the variables.                                                          *)
(***************************************************************************)
EXTENDS Suspended, FiniteSetTheorems, SequenceTheorems, NaturalsInduction, TLAPS

(* Names of exceptions, what can be awaited, and the kinds of calls: those   *)
(* that code makes, and those that the runtime makes to serve them.          *)
Exceptions == Nat \ {NoException}
Plain == {g \in Generators : Kind[g] # "async_generator"}
Awaited == {Io} \cup Plain \cup Operations \cup Defaults
Requests == {"next", "send", "throw", "close"}
Callers == {"call", "await", "dispatch"}
Helpers == {"method", "operation", "start", "delegate", "forward", "anext"}
Outcomes == {"none", "resumed", "yielded", "suspended", "returned", "value", "pending",
             "completed", "propagate", "error"}

(* The values of the state's parts, ...                                      *)
Object == [started : BOOLEAN, running : BOOLEAN, completed : BOOLEAN, owned : BOOLEAN,
           delegate : {None} \cup Awaited, handled : Seq(Exceptions), raised : Nat]
Exception == [kind : {"error", "stop", "stopasync", "exit", "runtime"}, context : Nat,
              cause : Nat, token : BOOLEAN]

(* ... and of the calls on the stack.                                        *)
ResumeFrame == [k : {"resume"}, gen : Generators, op : Requests, input : Nat,
                previousRaised : Nat, previousHandled : Seq(Exceptions), mark : Nat]
CallFrame == [k : {"call", "await"}, on : Awaited, raised : Nat, handled : Seq(Exceptions),
              ambient : Seq(Nat)]
DispatchFrame == [k : {"dispatch"}, on : Awaited, gen : Generators, op : Requests, raised : Nat,
                  handled : Seq(Exceptions), ambient : Seq(Nat)]
DelegateFrame == [k : {"delegate"}, op : {"send", "throw", "close"}, injected : Nat, ambient : Nat]
Frame == ResumeFrame \cup CallFrame \cup DispatchFrame \cup DelegateFrame
         \cup [k : {"method"}, op : Requests] \cup [k : {"operation"}, op : Operations]
         \cup [k : {"start"}, ambient : Nat] \cup [k : {"forward"}]
         \cup [k : {"anext"}, next : Defaults, op : Requests]

(* The types.  What exceptions exist is free.                                *)
Typed(s) ==
  /\ s \in [ctx : {s.ctx}, gen : [Generators -> Object], op : [Operations -> Flags],
            next : [Defaults -> Flags], stack : Seq(Frame),
            ret : [k : Outcomes, token : BOOLEAN], calls : Nat]
  /\ s.ctx \in [raised : Nat, handled : Seq(Exceptions), ambient : Seq(Nat),
                exceptions : {s.ctx.exceptions}]
  /\ s.ctx.exceptions \in [DOMAIN s.ctx.exceptions -> Exception]

(* Which call makes which.                                                  *)
Above(f, h) ==
  /\ h.k = "resume" => f.k \in {"method", "operation", "start"} /\ (f.k = "operation" \/ h.gen \in Plain)
  /\ h.k \in Callers => f.k = "resume"
  /\ h.k = "method" => f.k \in {"call", "delegate"}
  /\ h.k = "operation" => f.k \in {"call", "delegate", "start"}
  /\ h.k = "start" => f.k \in {"await", "forward", "anext"}
  /\ h.k = "delegate" => f.k \in {"dispatch", "anext"}
  /\ h.k = "forward" => f.k = "dispatch"
  /\ h.k = "anext" => f.k \in {"await", "dispatch"}
  /\ f.k = "operation" => h.k = "resume" /\ h.gen = Receiver[f.op]

(* Only the program is at the bottom.                                        *)
Placed(stk) ==
  /\ stk # <<>> => stk[1].k = "call"
  /\ \A i \in 1 .. Len(stk) - 1 : Above(stk[i], stk[i + 1])

(* Operation a was begun and has not ended.                                  *)
Active(s, a) == s.op[a].started /\ ~s.op[a].completed

(* An operation that was begun owns its async generator, and no other does.  *)
Rights(s) ==
  /\ \A g \in Plain : ~s.gen[g].owned
  /\ \A a \in Operations : Active(s, a) => s.gen[Receiver[a]].owned
  /\ \A a, b \in Operations : Active(s, a) /\ Active(s, b) /\ Receiver[a] = Receiver[b] => a = b

(* Call i is an operation that advances g.                                   *)
Advances(stk, i, g) == i \in DOMAIN stk /\ stk[i].k = "operation" /\ Receiver[stk[i].op] = g

(* It owns g, no other advances g, and an ended generator is owned by no     *)
(* operation but that.                                                       *)
Advancing(s) ==
  /\ \A g \in Generators : \A i \in DOMAIN s.stack : Advances(s.stack, i, g) =>
       LET a == s.stack[i].op IN
       /\ s.gen[g].owned /\ (s.op[a].running \/ s.op[a].completed)
       /\ \A b \in Operations : Active(s, b) /\ Receiver[b] = g => b = a
       /\ \A j \in DOMAIN s.stack : Advances(s.stack, j, g) => j = i
  /\ \A g \in Generators : s.gen[g].completed /\ s.gen[g].owned =>
       \E i \in DOMAIN s.stack : Advances(s.stack, i, g)

(* The body of g is on the stack.                                           *)
Runs(stk, i, g) == i \in DOMAIN stk /\ stk[i].k = "resume" /\ stk[i].gen = g

(* It is running, and only once.                                             *)
Bodies(s) ==
  \A g \in Generators : \A i \in DOMAIN s.stack : Runs(s.stack, i, g) =>
    /\ s.gen[g].running /\ ~s.gen[g].completed
    /\ \A j \in DOMAIN s.stack : Runs(s.stack, j, g) => j = i

Owners(s) == Rights(s) /\ Advancing(s) /\ Bodies(s)

(* What is above j and up to k serves the call that j makes.                *)
Under(stk, j, k) ==
  /\ j \in DOMAIN stk /\ j < k /\ stk[j].k \in Callers
  /\ \A m \in j + 1 .. k - 1 : stk[m].k \in Helpers

(* The caller finds its pending exception again.                            *)
Keeps(c) == (c.k = "dispatch" => c.op \in {"next", "send"}) /\ c.on \notin Defaults

(* What call f keeps of the registers is what caller c left in them.         *)
Serves(c, f, ambient) ==
  /\ f.k = "resume" =>
       /\ f.previousHandled = c.handled
       /\ SubSeq(ambient, 1, f.mark) = c.ambient
       /\ Keeps(c) => f.previousRaised = c.raised
  /\ f.k = "start" /\ Keeps(c) => f.ambient = c.raised
  /\ f.k = "delegate" /\ Keeps(c) => f.op = "send" /\ f.ambient = c.raised
  /\ f.k = "anext" => ~Keeps(c)

(* Every call that serves a caller keeps what it needs.                      *)
Marks(stk, ambient) ==
  /\ \A k \in DOMAIN stk : stk[k].k = "resume" =>
       /\ stk[k].mark <= Len(ambient)
       /\ stk[k].op = "throw" => stk[k].input # NoException
       /\ \A m \in DOMAIN stk : stk[m].k = "resume" /\ k < m => stk[k].mark <= stk[m].mark
  /\ \A k \in DOMAIN stk : stk[k].k = "delegate" /\ stk[k].op = "close" => stk[k].injected # NoException
  /\ \A j, k \in DOMAIN stk : Under(stk, j, k) => Serves(stk[j], stk[k], ambient)

(* What holds between any two functions of the runtime.                      *)
Base(s) == Typed(s) /\ Placed(s.stack) /\ Owners(s) /\ Marks(s.stack, s.ctx.ambient)

(* The registers are those of the code that called.                         *)
Ready(s) ==
  \A j \in DOMAIN s.stack : Under(s.stack, j, Len(s.stack) + 1) =>
    /\ s.ctx.handled = s.stack[j].handled /\ s.ctx.ambient = s.stack[j].ambient
    /\ s.ret.k \notin {"error", "propagate"} /\ Keeps(s.stack[j]) => s.ctx.raised = s.stack[j].raised

(* The registers are exchanged, but the body does not count as running yet.  *)
Entering(s) == [s EXCEPT !.gen[Last(s.stack).gen].running = TRUE]

(* How a call ends.                                                         *)
Ends(f, k) ==
  /\ f.k = "resume" => k \in {"none", "resumed", "yielded", "suspended", "returned", "error"}
  /\ f.k \in {"method", "operation"} => k \in {"yielded", "suspended", "returned", "error"}
  /\ f.k = "start" => k \in {"yielded", "suspended", "returned", "value", "error"}
  /\ f.k \in {"call", "delegate"} => k \in {"value", "error"}
  /\ f.k = "forward" => k \in {"pending", "completed", "error"}
  /\ f.k \in {"await", "anext", "dispatch"} => k \in {"pending", "completed", "propagate", "error"}

(* The inductive invariant.                                                  *)
Good(s) ==
  /\ s.stack = <<>> => s.ret = Running
  /\ s.stack # <<>> => Ends(Last(s.stack), s.ret.k)
  /\ IF s.ret.k = "resumed"
     THEN /\ Typed(s) /\ Base(Entering(s))
          /\ Last(s.stack).op \in {"next", "send"} => s.ctx.raised = s.gen[Last(s.stack).gen].raised
     ELSE /\ Base(s) /\ Ready(s)
          /\ s.ret.k = "none" => s.ret = Running
          /\ s.ret.k \in {"error", "propagate"} => s.ctx.raised # NoException
          /\ s.ret.k = "suspended" /\ Last(s.stack).k = "operation" =>
               ~s.gen[Receiver[Last(s.stack).op]].completed

(* ... of the specification.                                                 *)
IInv == \E s \in {State} : Good(s)

-----------------------------------------------------------------------------
(* Exceptions *)

(* The kinds of exceptions.                                                  *)
Kinds == {"error", "stop", "stopasync", "exit", "runtime"}

(* t has the objects and calls of s, and the registers but for the pending   *)
(* exception.                                                               *)
Same(s, t) ==
  /\ t.gen = s.gen /\ t.op = s.op /\ t.next = s.next /\ t.stack = s.stack /\ t.calls = s.calls
  /\ t.ctx.handled = s.ctx.handled /\ t.ctx.ambient = s.ctx.ambient

(* The name of a new exception is not the empty register.                   *)
LEMMA FreshType ==
  ASSUME NEW s
  PROVE  Fresh(s) \in Exceptions
<1> DEFINE R == {ss \in Nat \X Nat : ss[1] < ss[2]}
<1>0. IsWellFoundedOn(R, Nat)
  BY NatLessThanWellFounded DEF OpToRel
<1> HIDE DEF R
<1>1. Free(s) \in SUBSET Exceptions /\ Free(s) \in SUBSET Nat
  BY SuspendedAssumption DEF Free, Exceptions, NoException
<1>2. CASE Free(s) = {}
  BY <1>2, SuspendedAssumption DEF Fresh, Exceptions, NoException
<1>3. CASE Free(s) # {}
  <2>1. PICK e \in Free(s) : \A f \in Free(s) : ~(<<f, e>> \in R)
    BY <1>0, <1>1, <1>3, WFMin
  <2>2. ASSUME NEW f \in Free(s) PROVE e <= f
    <3>1. e \in Nat /\ f \in Nat
      BY <1>1
    <3>2. f < e => <<f, e>> \in R
      BY <3>1 DEF R
    <3> QED
      BY <2>1, <3>1, <3>2
  <2> QED
    BY <1>1, <1>3, <2>2 DEF Fresh
<1> QED
  BY <1>2, <1>3

(* The context of a raised exception is an exception or none.               *)
LEMMA ImplicitType ==
  ASSUME NEW s, Typed(s), NEW e
  PROVE  ImplicitContext(s.ctx, e) \in Nat
<1> DEFINE c == s.ctx
<1>1. c.raised \in Nat /\ c.handled \in Seq(Nat) /\ c.ambient \in Seq(Nat)
  BY DEF Typed, Exceptions
<1>2. c.handled # <<>> => Last(c.handled) \in Nat
  BY <1>1 DEF Last
<1>3. c.ambient # <<>> => Last(c.ambient) \in Nat
  BY <1>1 DEF Last
<1> QED
  BY <1>1, <1>2, <1>3 DEF ImplicitContext, NoException

(* Raising an exception changes its links and what is pending, nothing      *)
(* else.                                                                    *)
LEMMA RaiseValueType ==
  ASSUME NEW s, Typed(s), NEW e \in Nat, NEW cause \in Nat
  PROVE  LET t == RaiseValue(s, e, cause) IN
         /\ Typed(t) /\ Same(s, t) /\ t.ret = s.ret /\ t.ctx.raised = e
         /\ DOMAIN t.ctx.exceptions = DOMAIN s.ctx.exceptions
<1>1. PICK i : i = ImplicitContext(s.ctx, e)
  OBVIOUS
<1>2. PICK x : x = IF s.ctx.exceptions[e].context = NoException THEN i ELSE s.ctx.exceptions[e].context
  OBVIOUS
<1>3. PICK t : t = RaiseValue(s, e, cause)
  OBVIOUS
<1>4. t = [s EXCEPT !.ctx.exceptions[e].context = x, !.ctx.exceptions[e].cause = cause,
                    !.ctx.raised = e]
  BY <1>1, <1>2, <1>3 DEF RaiseValue
<1>5. /\ t.gen = s.gen /\ t.op = s.op /\ t.next = s.next /\ t.stack = s.stack /\ t.calls = s.calls
      /\ t.ret = s.ret
  BY <1>4 DEF Typed
<1>6. /\ t.ctx.handled = s.ctx.handled /\ t.ctx.ambient = s.ctx.ambient /\ t.ctx.raised = e
  BY <1>4 DEF Typed
<1>7. t.ctx.exceptions = [f \in DOMAIN s.ctx.exceptions |->
           IF f = e THEN [s.ctx.exceptions[e] EXCEPT !.context = x, !.cause = cause]
           ELSE s.ctx.exceptions[f]]
  BY <1>4 DEF Typed
<1>8. t.ctx.exceptions \in [DOMAIN s.ctx.exceptions -> Exception]
  <2> SUFFICES ASSUME NEW f \in DOMAIN s.ctx.exceptions
               PROVE  t.ctx.exceptions[f] \in Exception
    BY <1>7
  <2>1. s.ctx.exceptions[f] \in Exception
    BY DEF Typed
  <2>2. CASE f = e
    <3>1. x \in Nat
      BY <1>1, <1>2, <2>1, <2>2, ImplicitType DEF Exception
    <3> QED
      BY <1>7, <2>1, <2>2, <3>1 DEF Exception
  <2> QED
    BY <1>7, <2>1, <2>2
<1>9. Typed(t)
  <2>1. t \in [ctx : {t.ctx}, gen : [Generators -> Object], op : [Operations -> Flags],
            next : [Defaults -> Flags], stack : Seq(Frame),
            ret : [k : Outcomes, token : BOOLEAN], calls : Nat]
    BY <1>4 DEF Typed
  <2>2. t.ctx \in [raised : Nat, handled : Seq(Exceptions), ambient : Seq(Nat),
                exceptions : {t.ctx.exceptions}]
    BY <1>4 DEF Typed
  <2>3. DOMAIN t.ctx.exceptions = DOMAIN s.ctx.exceptions
    BY <1>7
  <2> QED
    BY <1>8, <2>1, <2>2, <2>3 DEF Typed
<1> QED
  BY <1>3, <1>5, <1>6, <1>8, <1>9 DEF Same

(* A new exception is added to the heap, and nothing else changes.          *)
LEMMA NewType ==
  ASSUME NEW s, Typed(s), NEW kind \in Kinds, NEW token \in BOOLEAN
  PROVE  LET t == New(s, kind, token) IN
         /\ Typed(t) /\ Same(s, t) /\ t.ret = s.ret /\ t.ctx.raised = s.ctx.raised
         /\ DOMAIN t.ctx.exceptions = DOMAIN s.ctx.exceptions \cup {Fresh(s)}
<1>1. PICK e : e = Fresh(s)
  OBVIOUS
<1>2. PICK h : h = [x \in DOMAIN s.ctx.exceptions \cup {e} |->
            IF x = e THEN [kind |-> kind, context |-> NoException, cause |-> NoException, token |-> token]
            ELSE s.ctx.exceptions[x]]
  OBVIOUS
<1>3. PICK t : t = New(s, kind, token)
  OBVIOUS
<1>4. t = [s EXCEPT !.ctx.exceptions = h]
  BY <1>1, <1>2, <1>3 DEF New, Typed
<1>5. h \in [DOMAIN h -> Exception] /\ DOMAIN h = DOMAIN s.ctx.exceptions \cup {e}
  BY <1>1, <1>2, FreshType DEF Typed, Exception, Kinds, NoException
<1>6. t.ctx.exceptions = h
  BY <1>4 DEF Typed
<1>7. Typed(t)
  <2>1. t \in [ctx : {t.ctx}, gen : [Generators -> Object], op : [Operations -> Flags],
            next : [Defaults -> Flags], stack : Seq(Frame),
            ret : [k : Outcomes, token : BOOLEAN], calls : Nat]
    BY <1>4 DEF Typed
  <2>2. t.ctx \in [raised : Nat, handled : Seq(Exceptions), ambient : Seq(Nat),
                exceptions : {t.ctx.exceptions}]
    BY <1>4 DEF Typed
  <2> QED
    BY <1>5, <1>6, <2>1, <2>2 DEF Typed
<1>8. Same(s, t) /\ t.ret = s.ret /\ t.ctx.raised = s.ctx.raised
  BY <1>4 DEF Typed, Same
<1> QED
  BY <1>1, <1>3, <1>5, <1>6, <1>7, <1>8

(* The same when it is raised.                                              *)
LEMMA RaiseNewType ==
  ASSUME NEW s, Typed(s), NEW kind \in Kinds, NEW token \in BOOLEAN
  PROVE  LET t == RaiseNew(s, kind, token) IN
         /\ Typed(t) /\ Same(s, t) /\ t.ret = s.ret /\ t.ctx.raised \in Exceptions
<1>1. PICK u : u = New(s, kind, token)
  OBVIOUS
<1>0. PICK e : e = Fresh(s)
  OBVIOUS
<1>2. PICK t : t = RaiseValue(u, e, NoException)
  OBVIOUS
<1>3. /\ Typed(u) /\ Same(s, u) /\ u.ret = s.ret
      /\ DOMAIN u.ctx.exceptions = DOMAIN s.ctx.exceptions \cup {Fresh(s)}
  BY <1>1, NewType
<1>4. e \in Exceptions /\ e \in Nat /\ NoException \in Nat
  BY <1>0, FreshType DEF Exceptions, NoException
<1>5. /\ Typed(t) /\ Same(u, t) /\ t.ret = u.ret /\ t.ctx.raised = e
      /\ DOMAIN t.ctx.exceptions = DOMAIN u.ctx.exceptions
  <2>1. Typed(u) /\ e \in Nat /\ NoException \in Nat
    BY <1>3, <1>4
  <2> QED
    BY <1>2, <2>1, RaiseValueType
<1>6. Same(s, t)
  BY <1>3, <1>5 DEF Same
<1> QED
  BY <1>0, <1>1, <1>2, <1>3, <1>4, <1>5, <1>6 DEF RaiseNew

(* A call that fails leaves objects, handlers and ambient exceptions alone. *)
LEMMA RaiseErrorType ==
  ASSUME NEW s, Typed(s), NEW kind \in Kinds
  PROVE  LET t == RaiseError(s, kind) IN
         Typed(t) /\ Same(s, t) /\ t.ret = Error /\ t.ctx.raised # NoException
<1>1. PICK u : u = RaiseNew(s, kind, FALSE)
  OBVIOUS
<1>2. Typed(u) /\ Same(s, u) /\ u.ctx.raised \in Exceptions
  BY <1>1, RaiseNewType
<1>3. PICK t : t = [u EXCEPT !.ret = Error]
  OBVIOUS
<1>4. Error \in [k : Outcomes, token : BOOLEAN]
  BY DEF Error, Gives, Outcomes
<1>5. /\ Typed(t) /\ t.ret = Error /\ t.ctx = u.ctx /\ Same(u, t)
  BY <1>2, <1>3, <1>4 DEF Typed, Same
<1> QED
  BY <1>1, <1>2, <1>3, <1>5 DEF RaiseError, Same, Exceptions

-----------------------------------------------------------------------------
(* Calls *)

(* What the kind of a call says of its fields.                              *)
LEMMA FrameType ==
  ASSUME NEW f \in Frame
  PROVE  /\ f.k \in Callers \cup Helpers \cup {"resume"}
         /\ f.k = "resume" => f \in ResumeFrame
         /\ f.k \in {"call", "await"} => f \in CallFrame
         /\ f.k = "dispatch" => f \in DispatchFrame
         /\ f.k = "delegate" => f \in DelegateFrame
         /\ f.k = "method" => f.op \in Requests
         /\ f.k = "operation" => f.op \in Operations
         /\ f.k = "start" => f.ambient \in Nat
         /\ f.k = "anext" => f.next \in Defaults /\ f.op \in Requests
  BY DEF Frame, ResumeFrame, CallFrame, DispatchFrame, DelegateFrame, Callers, Helpers

(* A sequence of calls, one longer, ...                                     *)
LEMMA AppendOne ==
  ASSUME NEW stk \in Seq(Frame), NEW f \in Frame
  PROVE  LET t == Append(stk, f) IN
         /\ t \in Seq(Frame) /\ Len(stk) \in Nat /\ Len(t) = Len(stk) + 1 /\ t # <<>>
         /\ DOMAIN stk = 1 .. Len(stk) /\ DOMAIN t = 1 .. Len(stk) + 1
         /\ t[Len(stk) + 1] = f /\ Last(t) = f
         /\ \A i \in 1 .. Len(stk) : t[i] = stk[i]
  BY AppendProperties DEF Last

(* ... and one shorter.                                                     *)
LEMMA FrontOne ==
  ASSUME NEW stk \in Seq(Frame), stk # <<>>
  PROVE  LET t == Front(stk) IN
         /\ t \in Seq(Frame) /\ Len(stk) \in Nat \ {0} /\ Len(t) = Len(stk) - 1
         /\ DOMAIN stk = 1 .. Len(stk) /\ DOMAIN t = 1 .. Len(stk) - 1
         /\ Last(stk) = stk[Len(stk)] /\ Last(stk) \in Frame
         /\ \A i \in 1 .. Len(stk) - 1 : t[i] = stk[i]
<1>1. Len(stk) \in Nat \ {0} /\ DOMAIN stk = 1 .. Len(stk)
  OBVIOUS
<1> QED
  BY <1>1, SubSeqProperties DEF Front, Last

(* Which calls serve which, when another is made ...                        *)
LEMMA UnderAppend ==
  ASSUME NEW stk \in Seq(Frame), NEW f \in Frame, NEW j
  PROVE  LET t == Append(stk, f) IN
         /\ \A k \in 1 .. Len(stk) + 1 : Under(t, j, k) <=> Under(stk, j, k)
         /\ Under(t, j, Len(t) + 1) =>
              \/ f.k \in Callers /\ j = Len(stk) + 1
              \/ f.k \in Helpers /\ Under(stk, j, Len(stk) + 1)
<1>1. PICK t : t = Append(stk, f)
  OBVIOUS
<1>2. PICK n \in Nat : n = Len(stk)
  OBVIOUS
<1>3. /\ Len(t) = n + 1 /\ DOMAIN stk = 1 .. n /\ DOMAIN t = 1 .. n + 1 /\ t[n + 1] = f
      /\ \A i \in 1 .. n : t[i] = stk[i]
  BY <1>1, <1>2, AppendOne
<1>4. ASSUME NEW k \in 1 .. n + 1 PROVE Under(t, j, k) <=> Under(stk, j, k)
  BY <1>3 DEF Under
<1>5. ASSUME Under(t, j, n + 2)
      PROVE  \/ f.k \in Callers /\ j = n + 1
             \/ f.k \in Helpers /\ Under(stk, j, n + 1)
  <2>1. CASE j = n + 1
    BY <1>3, <1>5, <2>1 DEF Under
  <2>2. CASE j # n + 1
    BY <1>3, <1>5, <2>2 DEF Under
  <2> QED
    BY <2>1, <2>2
<1> QED
  BY <1>1, <1>2, <1>3, <1>4, <1>5

(* ... and when the innermost one ends.                                     *)
LEMMA UnderFront ==
  ASSUME NEW stk \in Seq(Frame), stk # <<>>, NEW j
  PROVE  LET t == Front(stk) IN
         /\ \A k \in 1 .. Len(stk) : Under(t, j, k) <=> Under(stk, j, k)
         /\ Under(t, j, Len(t) + 1) /\ Last(stk).k \in Helpers => Under(stk, j, Len(stk) + 1)
<1>1. PICK t : t = Front(stk)
  OBVIOUS
<1>2. PICK n \in Nat \ {0} : n = Len(stk)
  OBVIOUS
<1>3. /\ Len(t) = n - 1 /\ DOMAIN stk = 1 .. n /\ DOMAIN t = 1 .. n - 1 /\ Last(stk) = stk[n]
      /\ \A i \in 1 .. n - 1 : t[i] = stk[i]
  BY <1>1, <1>2, FrontOne
<1>4. ASSUME NEW k \in 1 .. n PROVE Under(t, j, k) <=> Under(stk, j, k)
  BY <1>3 DEF Under
<1>5. ASSUME Under(stk, j, n), Last(stk).k \in Helpers PROVE Under(stk, j, n + 1)
  BY <1>3, <1>5 DEF Under
<1> QED
  BY <1>1, <1>2, <1>3, <1>4, <1>5

(* A call made from where such calls are made keeps the stack in order; ... *)
LEMMA PlacedAppend ==
  ASSUME NEW stk \in Seq(Frame), NEW f \in Frame, Placed(stk),
         IF stk = <<>> THEN f.k = "call" ELSE Above(Last(stk), f)
  PROVE  Placed(Append(stk, f))
<1>1. PICK t : t = Append(stk, f)
  OBVIOUS
<1>2. PICK n \in Nat : n = Len(stk)
  OBVIOUS
<1>3. /\ Len(t) = n + 1 /\ DOMAIN stk = 1 .. n /\ t[n + 1] = f
      /\ \A i \in 1 .. n : t[i] = stk[i]
  BY <1>1, <1>2, AppendOne
<1>4. t[1].k = "call"
  BY <1>2, <1>3 DEF Placed
<1>5. ASSUME NEW i \in 1 .. n PROVE Above(t[i], t[i + 1])
  <2>1. CASE i = n
    <3>1. stk # <<>> /\ Last(stk) = stk[n]
      BY <1>2, <2>1 DEF Last
    <3> QED
      BY <1>3, <2>1, <3>1
  <2>2. CASE i # n
    <3>1. i \in 1 .. n - 1 /\ i + 1 \in 1 .. n
      BY <2>2
    <3> QED
      BY <1>2, <1>3, <3>1 DEF Placed
  <2> QED
    BY <2>1, <2>2
<1> QED
  BY <1>1, <1>3, <1>4, <1>5 DEF Placed

(* ... so does its end, which leaves the call that made it innermost.       *)
LEMMA PlacedFront ==
  ASSUME NEW stk \in Seq(Frame), stk # <<>>, Placed(stk)
  PROVE  /\ Placed(Front(stk))
         /\ IF Front(stk) = <<>> THEN Last(stk).k = "call" ELSE Above(Last(Front(stk)), Last(stk))
<1>1. PICK t : t = Front(stk)
  OBVIOUS
<1>2. PICK n \in Nat \ {0} : n = Len(stk)
  OBVIOUS
<1>3. /\ Len(t) = n - 1 /\ t \in Seq(Frame) /\ Last(stk) = stk[n]
      /\ \A i \in 1 .. n - 1 : t[i] = stk[i]
  BY <1>1, <1>2, FrontOne
<1>4. CASE n = 1
  <2>1. t = <<>>
    BY <1>3, <1>4
  <2> QED
    BY <1>1, <1>3, <1>4, <2>1 DEF Placed
<1>5. CASE n # 1
  <2>1. n - 1 \in 1 .. n - 1 /\ t # <<>> /\ Last(t) = stk[n - 1] /\ t[1] = stk[1]
    BY <1>3, <1>5 DEF Last
  <2>2. Above(stk[n - 1], stk[n - 1 + 1])
    BY <1>2, <2>1 DEF Placed
  <2>3. \A i \in 1 .. n - 2 : Above(t[i], t[i + 1])
    BY <1>2, <1>3 DEF Placed
  <2> QED
    BY <1>1, <1>3, <2>1, <2>2, <2>3 DEF Placed
<1> QED
  BY <1>4, <1>5

(* What a new call keeps of the registers fits the code it serves; ...      *)
LEMMA MarksAppend ==
  ASSUME NEW stk \in Seq(Frame), NEW f \in Frame, NEW ambient \in Seq(Nat), Marks(stk, ambient),
         f.k = "resume" => f.mark = Len(ambient) /\ (f.op = "throw" => f.input # NoException),
         f.k = "delegate" /\ f.op = "close" => f.injected # NoException,
         \A j \in DOMAIN stk : Under(stk, j, Len(stk) + 1) => Serves(stk[j], f, ambient)
  PROVE  Marks(Append(stk, f), ambient)
<1>1. PICK t : t = Append(stk, f)
  OBVIOUS
<1>2. PICK n \in Nat : n = Len(stk)
  OBVIOUS
<1>3. /\ Len(t) = n + 1 /\ DOMAIN stk = 1 .. n /\ DOMAIN t = 1 .. n + 1 /\ t[n + 1] = f
      /\ \A i \in 1 .. n : t[i] = stk[i]
  BY <1>1, <1>2, AppendOne
<1>4. Len(ambient) \in Nat
  OBVIOUS
<1>5. ASSUME NEW k \in DOMAIN t, t[k].k = "resume"
      PROVE  /\ t[k].mark <= Len(ambient)
             /\ t[k].op = "throw" => t[k].input # NoException
             /\ \A m \in DOMAIN t : t[m].k = "resume" /\ k < m => t[k].mark <= t[m].mark
  <2>1. CASE k = n + 1
    BY <1>3, <1>4, <1>5, <2>1
  <2>2. CASE k \in 1 .. n
    BY <1>3, <1>4, <1>5, <2>2 DEF Marks
  <2> QED
    BY <1>3, <2>1, <2>2
<1>6. ASSUME NEW k \in DOMAIN t, t[k].k = "delegate", t[k].op = "close"
      PROVE  t[k].injected # NoException
  BY <1>3, <1>6 DEF Marks
<1>7. ASSUME NEW j \in DOMAIN t, NEW k \in DOMAIN t, Under(t, j, k)
      PROVE  Serves(t[j], t[k], ambient)
  <2>1. Under(stk, j, k) /\ j \in 1 .. n
    <3>1. Under(stk, j, k)
      BY <1>1, <1>2, <1>3, <1>7, UnderAppend
    <3> QED
      BY <1>3, <3>1 DEF Under
  <2>2. CASE k = n + 1
    BY <1>2, <1>3, <2>1, <2>2
  <2>3. CASE k \in 1 .. n
    BY <1>3, <2>1, <2>3 DEF Marks
  <2> QED
    BY <1>3, <2>2, <2>3
<1> QED
  BY <1>1, <1>5, <1>6, <1>7 DEF Marks

(* ... the end of a call changes nothing of that.                           *)
LEMMA MarksFront ==
  ASSUME NEW stk \in Seq(Frame), stk # <<>>, NEW ambient, Marks(stk, ambient)
  PROVE  Marks(Front(stk), ambient)
<1>1. PICK t : t = Front(stk)
  OBVIOUS
<1>2. PICK n \in Nat \ {0} : n = Len(stk)
  OBVIOUS
<1>3. /\ Len(t) = n - 1 /\ DOMAIN stk = 1 .. n /\ DOMAIN t = 1 .. n - 1
      /\ \A i \in 1 .. n - 1 : t[i] = stk[i]
  BY <1>1, <1>2, FrontOne
<1>4. ASSUME NEW j \in DOMAIN t, NEW k \in DOMAIN t, Under(t, j, k) PROVE Under(stk, j, k)
  <2>1. k \in 1 .. Len(stk)
    BY <1>2, <1>3
  <2> QED
    BY <1>1, <1>4, <2>1, UnderFront
<1> QED
  BY <1>1, <1>3, <1>4 DEF Marks

(* What the calls in progress have of the ambient exceptions is left alone. *)
LEMMA MarksAmbient ==
  ASSUME NEW stk \in Seq(Frame), NEW old \in Seq(Nat), NEW new \in Seq(Nat), NEW n \in Nat,
         n <= Len(old), n <= Len(new), \A i \in 1 .. n : new[i] = old[i],
         \A k \in DOMAIN stk : stk[k].k = "resume" => stk[k].mark <= n,
         Marks(stk, old)
  PROVE  Marks(stk, new)
<1>1. ASSUME NEW k \in DOMAIN stk, stk[k].k = "resume"
      PROVE  stk[k].mark <= Len(new) /\ SubSeq(new, 1, stk[k].mark) = SubSeq(old, 1, stk[k].mark)
  <2>1. PICK m : m = stk[k].mark
    OBVIOUS
  <2>2. m \in Nat /\ m <= n
    <3>1. stk[k] \in Frame
      OBVIOUS
    <3> QED
      BY <1>1, <2>1, <3>1, FrameType DEF ResumeFrame
  <2>3. m <= Len(old) /\ m <= Len(new) /\ \A i \in 1 .. m : new[i] = old[i]
    BY <2>2
  <2>4. /\ SubSeq(new, 1, m) \in Seq(Nat) /\ Len(SubSeq(new, 1, m)) = m
        /\ \A i \in 1 .. m : SubSeq(new, 1, m)[i] = new[i]
    BY <2>2, <2>3, SubSeqProperties
  <2>5. /\ SubSeq(old, 1, m) \in Seq(Nat) /\ Len(SubSeq(old, 1, m)) = m
        /\ \A i \in 1 .. m : SubSeq(old, 1, m)[i] = old[i]
    BY <2>2, <2>3, SubSeqProperties
  <2>6. SubSeq(new, 1, m) = SubSeq(old, 1, m)
    BY <2>3, <2>4, <2>5, SeqEqual
  <2> QED
    BY <2>1, <2>3, <2>6
<1>2. ASSUME NEW j \in DOMAIN stk, NEW k \in DOMAIN stk, Under(stk, j, k)
      PROVE  Serves(stk[j], stk[k], new)
  <2>1. Serves(stk[j], stk[k], old)
    BY <1>2 DEF Marks
  <2>2. stk[k].k = "resume" => SubSeq(new, 1, stk[k].mark) = SubSeq(old, 1, stk[k].mark)
    BY <1>1
  <2> QED
    BY <2>1, <2>2 DEF Serves
<1> QED
  BY <1>1, <1>2 DEF Marks

(* Calls other than operations and bodies do not matter for who owns what.   *)
SameRights(s, t) ==
  /\ t.op = s.op
  /\ \A g \in Generators : /\ t.gen[g].owned = s.gen[g].owned
                           /\ t.gen[g].completed = s.gen[g].completed
                           /\ t.gen[g].running = s.gen[g].running

(* Ownership depends on the operations and bodies on the stack alone; ...   *)
LEMMA OwnersStack ==
  ASSUME NEW s, NEW t, SameRights(s, t), Owners(s),
         \A i : \A g \in Generators : Advances(t.stack, i, g) <=> Advances(s.stack, i, g),
         \A i : \A g \in Generators : Advances(s.stack, i, g) => t.stack[i] = s.stack[i],
         \A i : \A g \in Generators : Runs(t.stack, i, g) => Runs(s.stack, i, g)
  PROVE  Owners(t)
<1>1. Rights(t)
  BY SuspendedAssumption DEF Owners, Rights, Active, SameRights, Plain
<1>2. ASSUME NEW g \in Generators, NEW i \in DOMAIN t.stack, Advances(t.stack, i, g)
      PROVE  LET a == t.stack[i].op IN
             /\ t.gen[g].owned /\ (t.op[a].running \/ t.op[a].completed)
             /\ \A b \in Operations : Active(t, b) /\ Receiver[b] = g => b = a
             /\ \A j \in DOMAIN t.stack : Advances(t.stack, j, g) => j = i
  <2>1. Advances(s.stack, i, g) /\ i \in DOMAIN s.stack /\ t.stack[i] = s.stack[i]
    BY <1>2 DEF Advances
  <2>2. \A j : Advances(t.stack, j, g) => Advances(s.stack, j, g) /\ j \in DOMAIN s.stack
    BY DEF Advances
  <2> QED
    BY <2>1, <2>2 DEF Owners, Advancing, Active, SameRights
<1>3. ASSUME NEW g \in Generators, t.gen[g].completed, t.gen[g].owned
      PROVE  \E i \in DOMAIN t.stack : Advances(t.stack, i, g)
  <2>1. PICK i \in DOMAIN s.stack : Advances(s.stack, i, g)
    BY <1>3 DEF Owners, Advancing, SameRights
  <2>2. Advances(t.stack, i, g)
    BY <2>1
  <2> QED
    BY <2>2 DEF Advances
<1>4. ASSUME NEW g \in Generators, NEW i \in DOMAIN t.stack, Runs(t.stack, i, g)
      PROVE  /\ t.gen[g].running /\ ~t.gen[g].completed
             /\ \A j \in DOMAIN t.stack : Runs(t.stack, j, g) => j = i
  <2>1. \A j : Runs(t.stack, j, g) => Runs(s.stack, j, g) /\ j \in DOMAIN s.stack
    BY DEF Runs
  <2> QED
    BY <1>4, <2>1 DEF Owners, Bodies, SameRights
<1> QED
  BY <1>1, <1>2, <1>3, <1>4 DEF Owners, Advancing, Bodies

(* ... it outlives another call, ...                                        *)
LEMMA OwnersAppend ==
  ASSUME NEW s, NEW t, s.stack \in Seq(Frame), NEW f \in Frame, Owners(s),
         SameRights(s, t), t.stack = Append(s.stack, f),
         f.k # "operation", f.k # "resume"
  PROVE  Owners(t)
<1>1. PICK n \in Nat : n = Len(s.stack)
  OBVIOUS
<1>2. /\ DOMAIN s.stack = 1 .. n /\ DOMAIN t.stack = 1 .. n + 1 /\ t.stack[n + 1] = f
      /\ \A i \in 1 .. n : t.stack[i] = s.stack[i]
  BY <1>1, AppendOne
<1>3. ASSUME NEW i, NEW g \in Generators
      PROVE  /\ Advances(t.stack, i, g) <=> Advances(s.stack, i, g)
             /\ Advances(s.stack, i, g) => t.stack[i] = s.stack[i]
             /\ Runs(t.stack, i, g) => Runs(s.stack, i, g)
  <2>1. CASE i \in 1 .. n
    BY <1>2, <2>1 DEF Advances, Runs
  <2>2. CASE i \notin 1 .. n
    BY <1>2, <2>2 DEF Advances, Runs
  <2> QED
    BY <2>1, <2>2
<1> QED
  BY <1>3, OwnersStack

(* ... and the end of one.                                                  *)
LEMMA OwnersFront ==
  ASSUME NEW s, NEW t, s.stack \in Seq(Frame), s.stack # <<>>, Owners(s),
         SameRights(s, t), t.stack = Front(s.stack),
         Last(s.stack).k # "operation"
  PROVE  Owners(t)
<1>1. PICK n \in Nat \ {0} : n = Len(s.stack)
  OBVIOUS
<1>2. /\ DOMAIN s.stack = 1 .. n /\ DOMAIN t.stack = 1 .. n - 1 /\ Last(s.stack) = s.stack[n]
      /\ \A i \in 1 .. n - 1 : t.stack[i] = s.stack[i]
  BY <1>1, FrontOne
<1>3. ASSUME NEW i, NEW g \in Generators
      PROVE  /\ Advances(t.stack, i, g) <=> Advances(s.stack, i, g)
             /\ Advances(s.stack, i, g) => t.stack[i] = s.stack[i]
             /\ Runs(t.stack, i, g) => Runs(s.stack, i, g)
  <2>1. CASE i \in 1 .. n - 1
    BY <1>2, <2>1 DEF Advances, Runs
  <2>2. CASE i \notin 1 .. n - 1
    BY <1>2, <2>2 DEF Advances, Runs
  <2> QED
    BY <2>1, <2>2
<1> QED
  BY <1>3, OwnersStack

-----------------------------------------------------------------------------
(* Calls and returns *)

(* A call is made.                                                          *)
LEMMA PushType ==
  ASSUME NEW s, Typed(s), NEW f \in Frame
  PROVE  LET t == Push(s, f) IN
         /\ Typed(t) /\ t.stack = Append(s.stack, f) /\ s.stack \in Seq(Frame)
         /\ t.ctx = s.ctx /\ t.gen = s.gen /\ t.op = s.op /\ t.next = s.next /\ t.ret = s.ret
         /\ t.calls = s.calls
<1>1. PICK t : t = Push(s, f)
  OBVIOUS
<1>2. t = [s EXCEPT !.stack = Append(s.stack, f)]
  BY <1>1 DEF Push, Typed
<1>3. Append(s.stack, f) \in Seq(Frame)
  BY DEF Typed
<1>4. /\ t.ctx = s.ctx /\ t.gen = s.gen /\ t.op = s.op /\ t.next = s.next /\ t.ret = s.ret
      /\ t.calls = s.calls /\ t.stack = Append(s.stack, f) /\ s.stack \in Seq(Frame)
  BY <1>2 DEF Typed
<1>5. Typed(t)
  BY <1>2, <1>3, <1>4 DEF Typed
<1> QED
  BY <1>1, <1>4, <1>5

(* A call ends.                                                             *)
LEMMA PopType ==
  ASSUME NEW s, Typed(s), s.stack # <<>>
  PROVE  LET t == Pop(s) IN
         /\ Typed(t) /\ t.stack = Front(s.stack) /\ s.stack \in Seq(Frame)
         /\ Last(s.stack) \in Frame /\ Len(s.stack) \in DOMAIN s.stack
         /\ Last(s.stack) = s.stack[Len(s.stack)]
         /\ t.ctx = s.ctx /\ t.gen = s.gen /\ t.op = s.op /\ t.next = s.next /\ t.ret = s.ret
         /\ t.calls = s.calls
<1>1. PICK t : t = Pop(s)
  OBVIOUS
<1>2. t = [s EXCEPT !.stack = Front(s.stack)]
  BY <1>1 DEF Pop, Typed
<1>3. /\ Front(s.stack) \in Seq(Frame) /\ Last(s.stack) \in Frame
      /\ Last(s.stack) = s.stack[Len(s.stack)] /\ Len(s.stack) \in DOMAIN s.stack
  BY FrontOne DEF Typed
<1>4. /\ t.ctx = s.ctx /\ t.gen = s.gen /\ t.op = s.op /\ t.next = s.next /\ t.ret = s.ret
      /\ t.calls = s.calls /\ t.stack = Front(s.stack) /\ s.stack \in Seq(Frame)
  BY <1>2 DEF Typed
<1>5. Typed(t)
  BY <1>2, <1>3, <1>4 DEF Typed
<1> QED
  BY <1>1, <1>3, <1>4, <1>5

(* Calls in progress and registers that fit each other stay so.              *)
LEMMA BaseSame ==
  ASSUME NEW s, NEW t, Base(s), Typed(t), SameRights(s, t), t.stack = s.stack,
         t.ctx.ambient = s.ctx.ambient
  PROVE  Base(t)
<1>1. Owners(t)
  BY OwnersStack DEF Base
<1> QED
  BY <1>1 DEF Base

(* The registers are those of the code that called, but for the pending one.  *)
LEMMA ReadySame ==
  ASSUME NEW s, NEW t, Ready(s), t.stack = s.stack,
         t.ctx.ambient = s.ctx.ambient, t.ctx.handled = s.ctx.handled,
         t.ret.k \in {"error", "propagate"} \/ (t.ctx.raised = s.ctx.raised
                                               /\ s.ret.k \notin {"error", "propagate"})
  PROVE  Ready(t)
  BY DEF Ready

(* A call that serves another. *)
LEMMA PushHelper ==
  ASSUME NEW s, Base(s), Ready(s), s.stack # <<>>, NEW f \in Frame,
         f.k \in Helpers \ {"operation"}, Above(Last(s.stack), f),
         f.k = "delegate" /\ f.op = "close" => f.injected # NoException,
         \A j \in DOMAIN s.stack : Under(s.stack, j, Len(s.stack) + 1) =>
             Serves(s.stack[j], f, s.ctx.ambient)
  PROVE  Base(Push(s, f)) /\ Ready(Push(s, f))
<1>1. PICK t : t = Push(s, f)
  OBVIOUS
<1>2. /\ Typed(t) /\ t.stack = Append(s.stack, f) /\ s.stack \in Seq(Frame)
      /\ t.ctx = s.ctx /\ t.gen = s.gen /\ t.op = s.op /\ t.ret = s.ret
  BY <1>1, PushType DEF Base
<1>3. f.k \notin Callers /\ f.k # "resume"
  BY DEF Helpers, Callers
<1>4. Placed(t.stack)
  BY <1>2, PlacedAppend DEF Base
<1>5. Owners(t)
  <2>1. SameRights(s, t)
    BY <1>2 DEF SameRights
  <2> QED
    BY <1>2, <1>3, <2>1, OwnersAppend DEF Base
<1>6. Marks(t.stack, t.ctx.ambient)
  BY <1>2, <1>3, MarksAppend DEF Base, Typed
<1>7. Ready(t)
  <2> SUFFICES ASSUME NEW j \in DOMAIN t.stack, Under(t.stack, j, Len(t.stack) + 1)
               PROVE  /\ j \in DOMAIN s.stack /\ Under(s.stack, j, Len(s.stack) + 1)
                      /\ t.stack[j] = s.stack[j]
    BY <1>2 DEF Ready
  <2>1. Under(s.stack, j, Len(s.stack) + 1)
    BY <1>2, <1>3, UnderAppend
  <2>2. j \in DOMAIN s.stack /\ j \in 1 .. Len(s.stack)
    BY <1>2, <2>1, AppendOne DEF Under
  <2> QED
    BY <1>2, <2>1, <2>2, AppendOne
<1> QED
  BY <1>1, <1>2, <1>4, <1>5, <1>6, <1>7 DEF Base

(* It ends. *)
LEMMA PopHelper ==
  ASSUME NEW s, Base(s), Ready(s), s.stack # <<>>, Last(s.stack).k \in Helpers \ {"operation"}
  PROVE  Base(Pop(s)) /\ Ready(Pop(s))
<1>1. PICK t : t = Pop(s)
  OBVIOUS
<1>2. /\ Typed(t) /\ t.stack = Front(s.stack) /\ s.stack \in Seq(Frame)
      /\ t.ctx = s.ctx /\ t.gen = s.gen /\ t.op = s.op /\ t.ret = s.ret
  BY <1>1, PopType DEF Base
<1>3. Placed(t.stack) /\ Owners(t) /\ Marks(t.stack, t.ctx.ambient)
  <2>1. SameRights(s, t)
    BY <1>2 DEF SameRights
  <2> QED
    BY <1>2, <2>1, PlacedFront, OwnersFront, MarksFront DEF Base
<1>4. Ready(t)
  <2> SUFFICES ASSUME NEW j \in DOMAIN t.stack, Under(t.stack, j, Len(t.stack) + 1)
               PROVE  /\ j \in DOMAIN s.stack /\ Under(s.stack, j, Len(s.stack) + 1)
                      /\ t.stack[j] = s.stack[j]
    BY <1>2, Zenon DEF Ready
  <2>1. Under(s.stack, j, Len(s.stack) + 1)
    BY <1>2, UnderFront
  <2>2. PICK n \in Nat \ {0} : n = Len(s.stack)
    BY <1>2
  <2>3. DOMAIN s.stack = 1 .. n /\ DOMAIN t.stack = 1 .. n - 1
    BY <1>2, <2>2, FrontOne
  <2>4. j \in 1 .. n - 1
    BY <2>3
  <2>5. t.stack[j] = s.stack[j]
    BY <1>2, <2>2, <2>4, FrontOne
  <2>6. j \in DOMAIN s.stack
    BY <2>3, <2>4
  <2> QED
    BY <2>1, <2>5, <2>6
<1> QED
  BY <1>1, <1>2, <1>3, <1>4 DEF Base

-----------------------------------------------------------------------------
(* Results *)

(* A result is given.                                                       *)
LEMMA SetRet ==
  ASSUME NEW s, Typed(s), NEW k \in Outcomes, NEW token \in BOOLEAN
  PROVE  LET t == [s EXCEPT !.ret = Gives(k, token)] IN
         Typed(t) /\ Same(s, t) /\ t.ctx = s.ctx /\ t.ret = Gives(k, token) /\ t.ret.k = k
<1>1. Gives(k, token) \in [k : Outcomes, token : BOOLEAN] /\ Gives(k, token).k = k
  BY DEF Gives
<1> QED
  BY <1>1 DEF Typed, Same

(* The pending exception is replaced.                                       *)
LEMMA SetRaised ==
  ASSUME NEW s, Typed(s), NEW e \in Nat
  PROVE  LET t == [s EXCEPT !.ctx.raised = e] IN
         Typed(t) /\ Same(s, t) /\ t.ret = s.ret /\ t.ctx.raised = e
<1>1. PICK t : t = [s EXCEPT !.ctx.raised = e]
  OBVIOUS
<1>2. Same(s, t) /\ t.ret = s.ret /\ t.ctx.raised = e /\ t.ctx.exceptions = s.ctx.exceptions
  BY <1>1 DEF Typed, Same
<1>3. t \in [ctx : {t.ctx}, gen : [Generators -> Object], op : [Operations -> Flags],
             next : [Defaults -> Flags], stack : Seq(Frame),
             ret : [k : Outcomes, token : BOOLEAN], calls : Nat]
  BY <1>1 DEF Typed
<1>4. t.ctx \in [raised : Nat, handled : Seq(Exceptions), ambient : Seq(Nat),
                 exceptions : {t.ctx.exceptions}]
  BY <1>1, <1>2 DEF Typed
<1> QED
  BY <1>1, <1>2, <1>3, <1>4 DEF Typed

(* The registers have no part in who owns what.                             *)
LEMMA SameIsSame ==
  ASSUME NEW s, NEW t, Same(s, t)
  PROVE  SameRights(s, t)
  BY DEF Same, SameRights

(* A call ends while the one that made it waits.                            *)
LEMMA Settled ==
  ASSUME NEW s, NEW t, Base(s), Ready(s), s.stack # <<>>, Typed(t), Same(s, t),
         Ends(Last(s.stack), t.ret.k), t.ret.k \notin {"none", "resumed", "suspended"},
         t.ret.k \in {"error", "propagate"} => t.ctx.raised # NoException,
         t.ret.k \notin {"error", "propagate"} =>
            \A j \in DOMAIN s.stack : Under(s.stack, j, Len(s.stack) + 1) /\ Keeps(s.stack[j]) =>
               t.ctx.raised = s.stack[j].raised
  PROVE  Good(t)
<1>1. /\ t.stack = s.stack /\ t.ctx.ambient = s.ctx.ambient /\ t.ctx.handled = s.ctx.handled
      /\ SameRights(s, t)
  BY SameIsSame DEF Same
<1>2. Base(t)
  BY <1>1, BaseSame
<1>3. Ready(t)
  BY <1>1 DEF Ready
<1> QED
  BY <1>1, <1>2, <1>3 DEF Good

(* A call that cannot be answered fails with a new exception.               *)
LEMMA Refused ==
  ASSUME NEW s, Base(s), Ready(s), s.stack # <<>>, NEW kind \in Kinds, Ends(Last(s.stack), "error")
  PROVE  Good(RaiseError(s, kind))
<1>1. PICK t : t = RaiseError(s, kind)
  OBVIOUS
<1>2. Typed(t) /\ Same(s, t) /\ t.ret = Error /\ t.ctx.raised # NoException
  BY <1>1, RaiseErrorType DEF Base
<1>3. t.ret.k = "error"
  BY <1>2 DEF Error, Gives
<1> QED
  BY <1>1, <1>2, <1>3, Settled

(* The call in progress has not failed.                                     *)
Open(s) == Base(s) /\ Ready(s) /\ s.stack # <<>> /\ s.ret.k \notin {"error", "propagate"}

(* Results other than a failure or an await.                                 *)
Values == {"yielded", "returned", "value", "pending", "completed"}

(* A call that goes well ends, and the code that waits is as it was.        *)
LEMMA Answered ==
  ASSUME NEW s, Open(s), NEW k \in Values, NEW token \in BOOLEAN, Ends(Last(s.stack), k)
  PROVE  Good([s EXCEPT !.ret = Gives(k, token)])
<1>1. PICK t : t = [s EXCEPT !.ret = Gives(k, token)]
  OBVIOUS
<1>2. k \in Outcomes /\ k \notin {"none", "resumed", "suspended", "error", "propagate"}
  BY DEF Values, Outcomes
<1>3. Typed(t) /\ Same(s, t) /\ t.ctx = s.ctx /\ t.ret.k = k
  BY <1>1, <1>2, SetRet DEF Open, Base
<1>4. \A j \in DOMAIN s.stack : Under(s.stack, j, Len(s.stack) + 1) /\ Keeps(s.stack[j]) =>
               t.ctx.raised = s.stack[j].raised
  BY <1>3 DEF Open, Ready
<1> QED
  BY <1>1, <1>2, <1>3, <1>4, Settled DEF Open

(* ... or it fails with an exception it was given.                          *)
LEMMA Thrown ==
  ASSUME NEW s, Base(s), Ready(s), s.stack # <<>>, NEW e \in Exceptions, NEW k \in {"error", "propagate"},
         Ends(Last(s.stack), k)
  PROVE  Good([RaiseValue(s, e, NoException) EXCEPT !.ret = Gives(k, FALSE)])
<1>1. PICK u : u = RaiseValue(s, e, NoException)
  OBVIOUS
<1>2. e \in Nat /\ NoException \in Nat /\ e # NoException /\ k \in Outcomes
  BY DEF Exceptions, NoException, Outcomes
<1>3. Typed(u) /\ Same(s, u) /\ u.ctx.raised = e
  <2>1. Typed(s)
    BY DEF Base
  <2> QED
    BY <1>1, <1>2, <2>1, RaiseValueType
<1>4. PICK t : t = [u EXCEPT !.ret = Gives(k, FALSE)]
  OBVIOUS
<1>5. Typed(t) /\ Same(u, t) /\ t.ctx = u.ctx /\ t.ret.k = k
  BY <1>2, <1>3, <1>4, SetRet
<1>6. Same(s, t)
  BY <1>3, <1>5 DEF Same
<1> QED
  BY <1>1, <1>2, <1>3, <1>4, <1>5, <1>6, Settled

-----------------------------------------------------------------------------
(* Rights *)

(* An operation is used up, ...                                             *)
LEMMA ConsumeType ==
  ASSUME NEW s, Typed(s), NEW a \in Operations
  PROVE  LET t == Consume(s, a) IN
         /\ Typed(t) /\ t.ctx = s.ctx /\ t.gen = s.gen /\ t.next = s.next /\ t.stack = s.stack
         /\ t.ret = s.ret /\ t.op[a].completed /\ ~t.op[a].running
         /\ \A b \in Operations : b # a => t.op[b] = s.op[b]
<1>1. PICK f : f = [s.op[a] EXCEPT !.running = FALSE, !.completed = TRUE]
  OBVIOUS
<1>0. s.op \in [Operations -> Flags] /\ s.op[a] \in Flags
  BY DEF Typed
<1>2. f \in Flags /\ f.completed /\ ~f.running
  BY <1>0, <1>1 DEF Flags
<1>3. PICK t : t = Consume(s, a)
  OBVIOUS
<1>4. t = [s EXCEPT !.op = [s.op EXCEPT ![a] = f]]
  BY <1>0, <1>1, <1>3 DEF Consume, Typed
<1>5. Typed(t)
  BY <1>2, <1>4 DEF Typed
<1>6. /\ t.ctx = s.ctx /\ t.gen = s.gen /\ t.next = s.next /\ t.stack = s.stack /\ t.ret = s.ret
      /\ t.op = [s.op EXCEPT ![a] = f]
  BY <1>4 DEF Typed
<1>7. t.op[a] = f /\ \A b \in Operations : b # a => t.op[b] = s.op[b]
  BY <1>0, <1>6
<1> QED
  BY <1>2, <1>3, <1>5, <1>6, <1>7

(* ... whoever owns its generator.                                          *)
LEMMA ConsumeBase ==
  ASSUME NEW s, Base(s), Ready(s), NEW a \in Operations
  PROVE  Base(Consume(s, a)) /\ Ready(Consume(s, a))
<1>1. PICK t : t = Consume(s, a)
  OBVIOUS
<1>2. /\ Typed(t) /\ t.ctx = s.ctx /\ t.gen = s.gen /\ t.stack = s.stack /\ t.ret = s.ret
      /\ t.op[a].completed
      /\ \A b \in Operations : b # a => t.op[b] = s.op[b]
  <2>1. Typed(s)
    BY DEF Base
  <2> QED
    BY <1>1, <2>1, ConsumeType
<1>3. \A b \in Operations : Active(t, b) => Active(s, b)
  BY <1>2 DEF Active
<1>4. \A g \in Generators : \A i : Advances(t.stack, i, g) => t.stack[i].op \in Operations
  BY <1>2, FrameType DEF Advances, Typed
<1>5. Rights(t)
  BY <1>2, <1>3 DEF Base, Owners, Rights
<1>6. ASSUME NEW g \in Generators, NEW i \in DOMAIN t.stack, Advances(t.stack, i, g)
      PROVE  LET c == t.stack[i].op IN
             /\ t.gen[g].owned /\ (t.op[c].running \/ t.op[c].completed)
             /\ \A b \in Operations : Active(t, b) /\ Receiver[b] = g => b = c
             /\ \A j \in DOMAIN t.stack : Advances(t.stack, j, g) => j = i
  BY <1>2, <1>3, <1>4, <1>6 DEF Base, Owners, Advancing
<1>7. Advancing(t)
  BY <1>2, <1>6 DEF Base, Owners, Advancing
<1>8. Bodies(t)
  BY <1>2 DEF Base, Owners, Bodies
<1> QED
  BY <1>1, <1>2, <1>5, <1>7, <1>8 DEF Base, Owners, Ready

(* The generator that this call resumes.                                    *)
Resumes(f, g) ==
  /\ f.k \in {"method", "operation", "start"}
  /\ IF f.k = "operation" THEN g = Receiver[f.op] ELSE g \in Plain

(* A body that never ran ends: no operation but the innermost may own it.   *)
LEMMA CloseBase ==
  ASSUME NEW s, Base(s), Ready(s), s.stack # <<>>, NEW g \in Generators, ~s.gen[g].running,
         Resumes(Last(s.stack), g)
  PROVE  LET t == Close(s, g) IN
         Base(t) /\ Ready(t) /\ t.stack = s.stack /\ t.ctx = s.ctx /\ t.ret = s.ret
<1>0. Typed(s) /\ s.gen[g] \in Object /\ s.gen \in [Generators -> Object]
  BY DEF Base, Typed
<1>1. PICK f : f = [s.gen[g] EXCEPT !.completed = TRUE]
  OBVIOUS
<1>2. f \in Object /\ f.owned = s.gen[g].owned /\ f.running = s.gen[g].running
  BY <1>0, <1>1 DEF Object
<1>3. PICK t : t = Close(s, g)
  OBVIOUS
<1>4. t = [s EXCEPT !.gen = [s.gen EXCEPT ![g] = f]]
  BY <1>0, <1>1, <1>3 DEF Close, Typed
<1>5. /\ Typed(t) /\ t.ctx = s.ctx /\ t.op = s.op /\ t.stack = s.stack /\ t.ret = s.ret
      /\ t.gen[g] = f /\ \A h \in Generators : h # g => t.gen[h] = s.gen[h]
  BY <1>0, <1>2, <1>4 DEF Typed
<1>6. \A h \in Generators : t.gen[h].owned = s.gen[h].owned /\ t.gen[h].running = s.gen[h].running
  BY <1>2, <1>5
<1>7. Rights(t)
  BY <1>5, <1>6, SuspendedAssumption DEF Base, Owners, Rights, Active, Plain
<1>8. \A h \in Generators : t.gen[h].completed /\ t.gen[h].owned =>
        \E i \in DOMAIN t.stack : Advances(t.stack, i, h)
  <2>1. CASE Last(s.stack).k = "operation"
    <3>1. Advances(s.stack, Len(s.stack), g) /\ Len(s.stack) \in DOMAIN s.stack
      BY <1>0, <2>1, FrontOne DEF Advances, Resumes, Typed
    <3> QED
      BY <1>5, <1>6, <3>1 DEF Base, Owners, Advancing
  <2>2. CASE Last(s.stack).k # "operation"
    <3>1. ~s.gen[g].owned
      BY <2>2 DEF Resumes, Base, Owners, Rights
    <3> QED
      BY <1>5, <1>6, <3>1 DEF Base, Owners, Advancing
  <2> QED
    BY <2>1, <2>2
<1>9. Advancing(t)
  BY <1>5, <1>6, <1>8 DEF Base, Owners, Advancing, Active
<1>10. Bodies(t)
  BY <1>5, <1>6 DEF Base, Owners, Bodies, Runs
<1> QED
  BY <1>3, <1>5, <1>7, <1>9, <1>10 DEF Base, Owners, Ready

(* Operation a may advance its generator.                                   *)
MayBegin(s, a) ==
  /\ ~s.op[a].completed /\ ~s.op[a].running
  /\ s.op[a].started \/ ~s.gen[Receiver[a]].owned

(* u is s but for a, which now advances its generator.                      *)
Began(s, u, a) ==
  /\ u.stack = s.stack /\ u.ret = s.ret
  /\ u.ctx.raised = s.ctx.raised /\ u.ctx.handled = s.ctx.handled /\ u.ctx.ambient = s.ctx.ambient
  /\ u.op[a].started /\ u.op[a].running /\ ~u.op[a].completed
  /\ \A b \in Operations : b # a => u.op[b] = s.op[b]
  /\ u.gen[Receiver[a]].owned
  /\ \A g \in Generators : /\ g # Receiver[a] => u.gen[g].owned = s.gen[g].owned
                           /\ u.gen[g].completed = s.gen[g].completed
                           /\ u.gen[g].running = s.gen[g].running

(* An operation takes its generator, ...                                    *)
LEMMA TakeType ==
  ASSUME NEW s, Typed(s), NEW a \in Operations, ~s.op[a].completed
  PROVE  LET t == Take(s, a) IN Typed(t) /\ Began(s, t, a) /\ t.ctx = s.ctx
<1>1. PICK t : t = Take(s, a)
  OBVIOUS
<1>2. PICK g \in Generators : g = Receiver[a]
  BY SuspendedAssumption
<1>3. /\ s.gen \in [Generators -> Object] /\ s.gen[g] \in Object
      /\ s.op \in [Operations -> Flags] /\ s.op[a] \in Flags
  BY DEF Typed
<1>4. PICK o : o = [s.gen[g] EXCEPT !.owned = TRUE]
  OBVIOUS
<1>5. PICK f : f = [s.op[a] EXCEPT !.started = TRUE, !.running = TRUE]
  OBVIOUS
<1>6. o \in Object /\ o.owned /\ o.completed = s.gen[g].completed /\ o.running = s.gen[g].running
  BY <1>3, <1>4 DEF Object
<1>7. f \in Flags /\ f.started /\ f.running /\ ~f.completed
  BY <1>3, <1>5 DEF Flags
<1>8. t = [s EXCEPT !.gen = [s.gen EXCEPT ![g] = o], !.op = [s.op EXCEPT ![a] = f]]
  BY <1>1, <1>2, <1>3, <1>4, <1>5 DEF Take, Typed
<1>9. Typed(t)
  BY <1>6, <1>7, <1>8 DEF Typed
<1>10. /\ t.ctx = s.ctx /\ t.stack = s.stack /\ t.ret = s.ret
       /\ t.gen = [s.gen EXCEPT ![g] = o] /\ t.op = [s.op EXCEPT ![a] = f]
  BY <1>8 DEF Typed
<1>11. /\ t.gen[g] = o /\ \A h \in Generators : h # g => t.gen[h] = s.gen[h]
       /\ t.op[a] = f /\ \A b \in Operations : b # a => t.op[b] = s.op[b]
  BY <1>3, <1>10
<1> QED
  BY <1>1, <1>2, <1>6, <1>7, <1>9, <1>10, <1>11 DEF Began

(* ... and is then the only one that does: it owned it, or nobody did.      *)
LEMMA BeganRights ==
  ASSUME NEW s, Base(s), NEW u, NEW t, NEW a \in Operations, MayBegin(s, a), Began(s, u, a),
         t.gen = u.gen, t.op = u.op, t.stack = Append(s.stack, [k |-> "operation", op |-> a])
  PROVE  Owners(t)
<1> DEFINE g == Receiver[a]
           f == [k |-> "operation", op |-> a]
<1>0. g \in Generators /\ g \notin Plain /\ f \in Frame /\ f.k = "operation" /\ f.op = a
  BY SuspendedAssumption DEF Plain, Frame
<1>1. Rights(s) /\ Advancing(s) /\ Bodies(s) /\ s.stack \in Seq(Frame)
  BY DEF Base, Owners, Typed
<1>2. PICK n \in Nat : n = Len(s.stack)
  BY <1>1
<1>3. /\ DOMAIN s.stack = 1 .. n /\ DOMAIN t.stack = 1 .. n + 1 /\ t.stack[n + 1] = f
      /\ \A i \in 1 .. n : t.stack[i] = s.stack[i]
  BY <1>0, <1>1, <1>2, AppendOne
<1>4. ASSUME NEW b \in Operations, Active(t, b), b # a
      PROVE  Active(s, b) /\ Receiver[b] # g
  <2>1. Active(s, b)
    BY <1>4 DEF Active, Began
  <2>2. ASSUME Receiver[b] = g PROVE FALSE
    <3>1. s.gen[g].owned
      BY <1>1, <2>1, <2>2 DEF Rights
    <3>2. Active(s, a)
      BY <3>1 DEF MayBegin, Active
    <3> QED
      BY <1>1, <1>4, <2>1, <2>2, <3>2 DEF Rights
  <2> QED
    BY <2>1, <2>2
<1>5. Rights(t)
  <2>1. \A h \in Plain : ~t.gen[h].owned
    BY <1>0, <1>1 DEF Began, Rights, Plain
  <2>2. \A b \in Operations : Active(t, b) => t.gen[Receiver[b]].owned
    BY <1>1, <1>4, SuspendedAssumption DEF Began, Rights
  <2>3. \A b, c \in Operations : Active(t, b) /\ Active(t, c) /\ Receiver[b] = Receiver[c] => b = c
    BY <1>1, <1>4 DEF Rights
  <2> QED
    BY <2>1, <2>2, <2>3 DEF Rights
<1>6. \A i \in DOMAIN s.stack : ~Advances(s.stack, i, g)
  <2> SUFFICES ASSUME NEW i \in DOMAIN s.stack, Advances(s.stack, i, g) PROVE FALSE
    OBVIOUS
  <2>1. s.gen[g].owned
    BY <1>0, <1>1 DEF Advancing
  <2>2. Active(s, a)
    BY <2>1 DEF MayBegin, Active
  <2>3. s.stack[i].op = a /\ (s.op[a].running \/ s.op[a].completed)
    BY <1>0, <1>1, <2>2 DEF Advancing
  <2> QED
    BY <2>3 DEF MayBegin
<1>7. ASSUME NEW h \in Generators, NEW i \in 1 .. n + 1
      PROVE  /\ i = n + 1 => (Advances(t.stack, i, h) <=> h = g)
             /\ i # n + 1 => (Advances(t.stack, i, h) <=> Advances(s.stack, i, h))
             /\ Runs(t.stack, i, h) <=> i # n + 1 /\ Runs(s.stack, i, h)
  BY <1>0, <1>3 DEF Advances, Runs
<1>8. ASSUME NEW h \in Generators, NEW i \in DOMAIN t.stack, Advances(t.stack, i, h)
      PROVE  LET c == t.stack[i].op IN
             /\ t.gen[h].owned /\ (t.op[c].running \/ t.op[c].completed)
             /\ \A b \in Operations : Active(t, b) /\ Receiver[b] = h => b = c
             /\ \A j \in DOMAIN t.stack : Advances(t.stack, j, h) => j = i
  <2>1. CASE i = n + 1
    BY <1>0, <1>3, <1>4, <1>6, <1>7, <1>8, <2>1 DEF Began
  <2>2. CASE i # n + 1
    <3>1. Advances(s.stack, i, h) /\ i \in DOMAIN s.stack /\ t.stack[i] = s.stack[i] /\ i \in 1 .. n
      BY <1>3, <1>7, <1>8, <2>2 DEF Advances
    <3>2. h # g
      BY <1>6, <3>1
    <3>3. s.stack[i] \in Frame /\ s.stack[i].op \in Operations /\ Receiver[s.stack[i].op] = h
      BY <1>1, <3>1, FrameType DEF Advances
    <3>4. s.stack[i].op # a
      BY <3>2, <3>3
    <3>5. /\ s.gen[h].owned /\ (s.op[s.stack[i].op].running \/ s.op[s.stack[i].op].completed)
          /\ \A b \in Operations : Active(s, b) /\ Receiver[b] = h => b = s.stack[i].op
          /\ \A j \in DOMAIN s.stack : Advances(s.stack, j, h) => j = i
      BY <1>1, <3>1 DEF Advancing
    <3> QED
      BY <1>3, <1>4, <1>7, <3>1, <3>2, <3>3, <3>4, <3>5 DEF Began
  <2> QED
    BY <2>1, <2>2
<1>9. ASSUME NEW h \in Generators, t.gen[h].completed, t.gen[h].owned
      PROVE  \E i \in DOMAIN t.stack : Advances(t.stack, i, h)
  <2>1. CASE h = g
    BY <1>2, <1>3, <1>7, <2>1
  <2>2. CASE h # g
    <3>1. PICK i \in DOMAIN s.stack : Advances(s.stack, i, h)
      BY <1>1, <1>9, <2>2 DEF Began, Advancing
    <3> QED
      BY <1>2, <1>3, <1>7, <3>1
  <2> QED
    BY <2>1, <2>2
<1>10. Advancing(t)
  BY <1>8, <1>9 DEF Advancing
<1>11. Bodies(t)
  BY <1>1, <1>3, <1>7 DEF Bodies, Began
<1> QED
  BY <1>5, <1>10, <1>11 DEF Owners

(* The call of an operation that takes its generator.                       *)
LEMMA BeginBase ==
  ASSUME NEW s, Base(s), Ready(s), s.stack # <<>>, Last(s.stack).k \in {"call", "delegate", "start"},
         NEW u, Typed(u), NEW a \in Operations, MayBegin(s, a), Began(s, u, a)
  PROVE  LET t == Push(u, [k |-> "operation", op |-> a]) IN
         /\ Base(t) /\ Ready(t) /\ t.stack # <<>> /\ t.ret = s.ret
         /\ Last(t.stack) = [k |-> "operation", op |-> a]
<1>1. PICK f : f = [k |-> "operation", op |-> a]
  OBVIOUS
<1>2. f \in Frame /\ f.k = "operation" /\ f.op = a /\ f.k \in Helpers
  BY <1>1 DEF Frame, Helpers
<1>3. PICK t : t = Push(u, f)
  OBVIOUS
<1>4. /\ Typed(t) /\ t.stack = Append(s.stack, f) /\ s.stack \in Seq(Frame)
      /\ t.ctx = u.ctx /\ t.gen = u.gen /\ t.op = u.op /\ t.ret = s.ret
  <2>1. u.stack = s.stack /\ u.ret = s.ret
    BY DEF Began
  <2> QED
    BY <1>2, <1>3, <2>1, PushType
<1>5. t.ctx.raised = s.ctx.raised /\ t.ctx.handled = s.ctx.handled /\ t.ctx.ambient = s.ctx.ambient
  BY <1>4 DEF Began
<1>6. Owners(t)
  BY <1>1, <1>4, BeganRights
<1>7. Placed(t.stack)
  <2>1. Above(Last(s.stack), f)
    BY <1>2 DEF Above, Callers
  <2> QED
    BY <1>2, <1>4, <2>1, PlacedAppend DEF Base
<1>8. Marks(t.stack, t.ctx.ambient)
  <2>1. s.ctx.ambient \in Seq(Nat) /\ Marks(s.stack, s.ctx.ambient)
    BY DEF Base, Typed
  <2>2. \A j \in DOMAIN s.stack : Serves(s.stack[j], f, s.ctx.ambient)
    BY <1>2 DEF Serves
  <2> QED
    BY <1>2, <1>4, <1>5, <2>1, <2>2, MarksAppend
<1>9. Ready(t)
  <2> SUFFICES ASSUME NEW j \in DOMAIN t.stack, Under(t.stack, j, Len(t.stack) + 1)
               PROVE  /\ j \in DOMAIN s.stack /\ Under(s.stack, j, Len(s.stack) + 1)
                      /\ t.stack[j] = s.stack[j]
    BY <1>4, <1>5, Zenon DEF Ready
  <2>1. Under(s.stack, j, Len(s.stack) + 1)
    BY <1>2, <1>4, UnderAppend DEF Helpers, Callers
  <2>2. j \in DOMAIN s.stack /\ j \in 1 .. Len(s.stack)
    BY <1>4, <2>1, AppendOne DEF Under
  <2> QED
    BY <1>2, <1>4, <2>1, <2>2, AppendOne
<1>10. t.stack # <<>> /\ Last(t.stack) = f
  BY <1>2, <1>4, AppendOne
<1> QED
  BY <1>1, <1>3, <1>4, <1>6, <1>7, <1>8, <1>9, <1>10 DEF Base

(* Operation a has been popped: t keeps what s knew of the others.          *)
Ended(s, t, a) ==
  /\ t.stack = Front(s.stack)
  /\ \A b \in Operations : b # a => t.op[b] = s.op[b]
  /\ Active(t, a) => Active(s, a)
  /\ \A g \in Generators : /\ g # Receiver[a] => t.gen[g].owned = s.gen[g].owned
                           /\ t.gen[g].completed = s.gen[g].completed
                           /\ t.gen[g].running = s.gen[g].running
  /\ \/ ~t.gen[Receiver[a]].owned /\ ~Active(t, a)
     \/ t.gen[Receiver[a]].owned = s.gen[Receiver[a]].owned /\ ~s.gen[Receiver[a]].completed

(* The operation that ends gives its generator up, or keeps it if it goes   *)
(* on.                                                                      *)
LEMMA EndedRights ==
  ASSUME NEW s, Base(s), s.stack # <<>>, Last(s.stack).k = "operation",
         NEW a, a = Last(s.stack).op, NEW t, Ended(s, t, a)
  PROVE  Owners(t)
<1> USE DEF Ended
<1> DEFINE g == Receiver[a]
<1>1. Rights(s) /\ Advancing(s) /\ Bodies(s) /\ s.stack \in Seq(Frame)
  BY DEF Base, Owners, Typed
<1>2. PICK n \in Nat \ {0} : n = Len(s.stack)
  BY <1>1
<1>3. /\ DOMAIN s.stack = 1 .. n /\ DOMAIN t.stack = 1 .. n - 1
      /\ Last(s.stack) = s.stack[n] /\ Last(s.stack) \in Frame
      /\ \A i \in 1 .. n - 1 : t.stack[i] = s.stack[i]
  BY <1>1, <1>2, FrontOne
<1>4. a \in Operations /\ g \in Generators /\ g \notin Plain
  BY <1>3, FrameType, SuspendedAssumption DEF Plain
<1>5. n \in DOMAIN s.stack /\ Advances(s.stack, n, g)
  BY <1>3 DEF Advances
<1>6. \A b \in Operations : Active(s, b) /\ Receiver[b] = g => b = a
  <2>1. \A b \in Operations : Active(s, b) /\ Receiver[b] = g => b = s.stack[n].op
    BY <1>1, <1>4, <1>5 DEF Advancing
  <2> QED
    BY <1>3, <2>1
<1>7. \A j \in DOMAIN s.stack : Advances(s.stack, j, g) => j = n
  BY <1>1, <1>4, <1>5 DEF Advancing
<1>8. \A b \in Operations : Active(t, b) => Active(s, b)
  BY DEF Active
<1>9. Rights(t)
  <2>1. \A h \in Plain : ~t.gen[h].owned
    BY <1>1, <1>4 DEF Rights, Plain
  <2>2. ASSUME NEW b \in Operations, Active(t, b) PROVE t.gen[Receiver[b]].owned
    <3>1. s.gen[Receiver[b]].owned
      BY <1>1, <1>8, <2>2 DEF Rights
    <3>2. CASE Receiver[b] = g
      BY <1>6, <1>8, <2>2, <3>1, <3>2
    <3>3. CASE Receiver[b] # g
      BY <3>1, <3>3, SuspendedAssumption
    <3> QED
      BY <3>2, <3>3
  <2> QED
    BY <1>1, <1>8, <2>1, <2>2 DEF Rights
<1>10. ASSUME NEW h \in Generators, NEW i \in 1 .. n - 1
       PROVE  /\ Advances(t.stack, i, h) <=> Advances(s.stack, i, h)
              /\ Runs(t.stack, i, h) <=> Runs(s.stack, i, h)
  BY <1>3 DEF Advances, Runs
<1>11. ASSUME NEW h \in Generators, NEW i \in DOMAIN t.stack, Advances(t.stack, i, h)
       PROVE  LET c == t.stack[i].op IN
              /\ t.gen[h].owned /\ (t.op[c].running \/ t.op[c].completed)
              /\ \A b \in Operations : Active(t, b) /\ Receiver[b] = h => b = c
              /\ \A j \in DOMAIN t.stack : Advances(t.stack, j, h) => j = i
  <2>1. i \in 1 .. n - 1 /\ i # n /\ i \in DOMAIN s.stack /\ Advances(s.stack, i, h)
    BY <1>3, <1>10, <1>11
  <2>2. h # g
    BY <1>7, <2>1
  <2>3. s.stack[i] \in Frame /\ s.stack[i].op \in Operations /\ Receiver[s.stack[i].op] = h
    BY <1>1, <2>1, FrameType DEF Advances
  <2>4. s.stack[i].op # a
    BY <2>2, <2>3
  <2>5. /\ s.gen[h].owned /\ (s.op[s.stack[i].op].running \/ s.op[s.stack[i].op].completed)
        /\ \A b \in Operations : Active(s, b) /\ Receiver[b] = h => b = s.stack[i].op
        /\ \A j \in DOMAIN s.stack : Advances(s.stack, j, h) => j = i
    BY <1>1, <2>1 DEF Advancing
  <2>6. /\ t.gen[h].owned = s.gen[h].owned /\ t.stack[i] = s.stack[i]
        /\ t.op[s.stack[i].op] = s.op[s.stack[i].op]
    BY <1>3, <2>1, <2>2, <2>3, <2>4
  <2>7. \A j \in DOMAIN t.stack : Advances(t.stack, j, h) => j = i
    BY <1>3, <1>10, <2>5
  <2> QED
    BY <1>8, <2>5, <2>6, <2>7
<1>12. ASSUME NEW h \in Generators, t.gen[h].completed, t.gen[h].owned
       PROVE  \E i \in DOMAIN t.stack : Advances(t.stack, i, h)
  <2>1. h # g /\ s.gen[h].completed /\ s.gen[h].owned
    BY <1>12
  <2>2. PICK i \in DOMAIN s.stack : Advances(s.stack, i, h)
    BY <1>1, <2>1 DEF Advancing
  <2>3. i # n
    BY <1>3, <2>1, <2>2 DEF Advances
  <2>4. i \in 1 .. n - 1
    BY <1>3, <2>2, <2>3
  <2> QED
    BY <1>3, <1>10, <2>2, <2>4
<1>13. Bodies(t)
  <2>1. ASSUME NEW h \in Generators, NEW i \in DOMAIN t.stack, Runs(t.stack, i, h)
        PROVE  /\ t.gen[h].running /\ ~t.gen[h].completed
               /\ \A j \in DOMAIN t.stack : Runs(t.stack, j, h) => j = i
    BY <1>1, <1>3, <1>10, <2>1 DEF Bodies
  <2> QED
    BY <2>1 DEF Bodies
<1> QED
  BY <1>9, <1>11, <1>12, <1>13 DEF Owners, Advancing

(* The end of a call that serves another, whatever it is.                    *)
LEMMA PopReady ==
  ASSUME NEW s, Typed(s), Ready(s), s.stack # <<>>, Last(s.stack).k \in Helpers,
         NEW t, t.stack = Front(s.stack), t.ctx = s.ctx, t.ret = s.ret
  PROVE  Ready(t)
<1> SUFFICES ASSUME NEW j \in DOMAIN t.stack, Under(t.stack, j, Len(t.stack) + 1)
             PROVE  /\ j \in DOMAIN s.stack /\ Under(s.stack, j, Len(s.stack) + 1)
                    /\ t.stack[j] = s.stack[j]
  BY Zenon DEF Ready
<1>0. s.stack \in Seq(Frame)
  BY DEF Typed
<1>1. Under(s.stack, j, Len(s.stack) + 1)
  BY <1>0, UnderFront
<1>2. PICK n \in Nat \ {0} : n = Len(s.stack)
  BY <1>0
<1>3. DOMAIN s.stack = 1 .. n /\ DOMAIN t.stack = 1 .. n - 1
  BY <1>0, <1>2, FrontOne
<1>4. j \in 1 .. n - 1
  BY <1>3
<1>5. t.stack[j] = s.stack[j]
  BY <1>0, <1>2, <1>4, FrontOne
<1>6. j \in DOMAIN s.stack
  BY <1>3, <1>4
<1> QED
  BY <1>1, <1>5, <1>6

(* Only a call of the program is at the bottom.                             *)
LEMMA PopPlaced ==
  ASSUME NEW s, Base(s), s.stack # <<>>, Last(s.stack).k # "call"
  PROVE  /\ Front(s.stack) # <<>> /\ Placed(Front(s.stack))
         /\ Above(Last(Front(s.stack)), Last(s.stack))
<1>1. s.stack \in Seq(Frame) /\ Placed(s.stack)
  BY DEF Base, Typed
<1> QED
  BY <1>1, PlacedFront

(* An operation ends for good: its generator is free.                       *)
LEMMA FinishBase ==
  ASSUME NEW s, Base(s), Ready(s), s.stack # <<>>, Last(s.stack).k = "operation",
         NEW a, a = Last(s.stack).op
  PROVE  LET t == FinishOperation(Pop(s), a) IN
         /\ Base(t) /\ Ready(t) /\ t.stack = Front(s.stack) /\ t.ctx = s.ctx /\ t.ret = s.ret
<1>1. PICK u : u = Pop(s)
  OBVIOUS
<1>2. /\ Typed(u) /\ u.stack = Front(s.stack) /\ s.stack \in Seq(Frame) /\ Last(s.stack) \in Frame
      /\ u.ctx = s.ctx /\ u.gen = s.gen /\ u.op = s.op /\ u.ret = s.ret
  BY <1>1, PopType DEF Base
<1>3. a \in Operations /\ Receiver[a] \in Generators
  BY <1>2, FrameType, SuspendedAssumption
<1>4. PICK v : v = Consume(u, a)
  OBVIOUS
<1>5. /\ Typed(v) /\ v.ctx = s.ctx /\ v.gen = s.gen /\ v.stack = Front(s.stack) /\ v.ret = s.ret
      /\ v.op[a].completed /\ \A b \in Operations : b # a => v.op[b] = s.op[b]
  <2>1. Typed(u) /\ a \in Operations
    BY <1>2, <1>3
  <2> QED
    BY <1>2, <1>4, <2>1, ConsumeType
<1>6. PICK g \in Generators : g = Receiver[a]
  BY <1>3
<1>7. PICK o : o = [v.gen[g] EXCEPT !.owned = FALSE]
  OBVIOUS
<1>8. PICK t : t = FinishOperation(u, a)
  OBVIOUS
<1>9. v.gen \in [Generators -> Object] /\ v.gen[g] \in Object
  BY <1>5 DEF Typed
<1>10. o \in Object /\ ~o.owned /\ o.completed = v.gen[g].completed /\ o.running = v.gen[g].running
  BY <1>7, <1>9 DEF Object
<1>11. t = [v EXCEPT !.gen = [v.gen EXCEPT ![g] = o]]
  <2>1. t = [v EXCEPT !.gen[g].owned = FALSE]
    BY <1>4, <1>6, <1>8, Zenon DEF FinishOperation
  <2>2. v \in [ctx : {v.ctx}, gen : [Generators -> Object], op : [Operations -> Flags],
               next : [Defaults -> Flags], stack : Seq(Frame),
               ret : [k : Outcomes, token : BOOLEAN], calls : Nat]
    BY <1>5 DEF Typed
  <2> QED
    BY <1>7, <2>1, <2>2
<1>12. Typed(t)
  BY <1>5, <1>10, <1>11 DEF Typed
<1>13. /\ t.ctx = s.ctx /\ t.stack = Front(s.stack) /\ t.ret = s.ret /\ t.op = v.op
       /\ t.gen = [v.gen EXCEPT ![g] = o]
  BY <1>5, <1>11 DEF Typed
<1>14. \A h \in Generators : /\ h # g => t.gen[h].owned = s.gen[h].owned
                             /\ t.gen[h].completed = s.gen[h].completed
                             /\ t.gen[h].running = s.gen[h].running
  BY <1>5, <1>9, <1>10, <1>13
<1>15. ~t.gen[g].owned /\ ~Active(t, a)
  BY <1>5, <1>9, <1>10, <1>13 DEF Active
<1>16. Owners(t)
  <2>1. Ended(s, t, a)
    BY <1>5, <1>6, <1>13, <1>14, <1>15 DEF Ended
  <2> QED
    BY <2>1, EndedRights
<1>17. Placed(t.stack) /\ Marks(t.stack, t.ctx.ambient)
  BY <1>2, <1>13, PlacedFront, MarksFront DEF Base
<1>18. Ready(t)
  <2>1. Typed(s) /\ Last(s.stack).k \in Helpers
    BY DEF Base, Helpers
  <2> QED
    BY <1>13, <2>1, PopReady
<1> QED
  BY <1>1, <1>8, <1>12, <1>13, <1>16, <1>17, <1>18 DEF Base

(* It rests after an await: its generator is still its own.                 *)
LEMMA RestBase ==
  ASSUME NEW s, Base(s), Ready(s), s.stack # <<>>, Last(s.stack).k = "operation",
         NEW a, a = Last(s.stack).op, ~s.gen[Receiver[a]].completed
  PROVE  LET t == [Pop(s) EXCEPT !.op[a].running = FALSE] IN
         /\ Base(t) /\ Ready(t) /\ t.stack = Front(s.stack) /\ t.ctx = s.ctx /\ t.ret = s.ret
<1>1. PICK u : u = Pop(s)
  OBVIOUS
<1>2. /\ Typed(u) /\ u.stack = Front(s.stack) /\ s.stack \in Seq(Frame) /\ Last(s.stack) \in Frame
      /\ u.ctx = s.ctx /\ u.gen = s.gen /\ u.op = s.op /\ u.ret = s.ret
  BY <1>1, PopType DEF Base
<1>3. a \in Operations /\ Receiver[a] \in Generators
  BY <1>2, FrameType, SuspendedAssumption
<1>4. PICK f : f = [u.op[a] EXCEPT !.running = FALSE]
  OBVIOUS
<1>5. PICK t : t = [u EXCEPT !.op[a].running = FALSE]
  OBVIOUS
<1>6. u.op \in [Operations -> Flags] /\ u.op[a] \in Flags
  BY <1>2, <1>3 DEF Typed
<1>7. f \in Flags /\ f.started = u.op[a].started /\ f.completed = u.op[a].completed
  BY <1>4, <1>6 DEF Flags
<1>8. t = [u EXCEPT !.op = [u.op EXCEPT ![a] = f]]
  BY <1>2, <1>3, <1>4, <1>5 DEF Typed
<1>9. Typed(t)
  BY <1>2, <1>7, <1>8 DEF Typed
<1>10. /\ t.ctx = s.ctx /\ t.stack = Front(s.stack) /\ t.ret = s.ret /\ t.gen = s.gen
       /\ t.op = [u.op EXCEPT ![a] = f]
  BY <1>2, <1>8 DEF Typed
<1>11. /\ Active(t, a) => Active(s, a)
       /\ \A b \in Operations : b # a => t.op[b] = s.op[b]
  BY <1>2, <1>3, <1>6, <1>7, <1>10 DEF Active
<1>12. Owners(t)
  <2>1. Ended(s, t, a)
    BY <1>10, <1>11 DEF Ended
  <2> QED
    BY <2>1, EndedRights
<1>13. Placed(t.stack) /\ Marks(t.stack, t.ctx.ambient)
  BY <1>2, <1>10, PlacedFront, MarksFront DEF Base
<1>14. Ready(t)
  <2>1. Typed(s) /\ Last(s.stack).k \in Helpers
    BY DEF Base, Helpers
  <2> QED
    BY <1>10, <2>1, PopReady
<1> QED
  BY <1>1, <1>5, <1>9, <1>10, <1>12, <1>13, <1>14 DEF Base

-----------------------------------------------------------------------------
(* Resuming a body *)

(* e is t but for the body of g, which runs.                                 *)
Entered(t, e, g) ==
  /\ e.ctx = t.ctx /\ e.op = t.op /\ e.stack = t.stack /\ e.ret = t.ret
  /\ e.gen[g].running
  /\ \A h \in Generators : /\ e.gen[h].owned = t.gen[h].owned
                           /\ e.gen[h].completed = t.gen[h].completed
                           /\ h # g => e.gen[h].running = t.gen[h].running

(* The body of g is on its way onto the stack.                              *)
LEMMA EnteringType ==
  ASSUME NEW t, Typed(t), Last(t.stack).gen \in Generators
  PROVE  Typed(Entering(t)) /\ Entered(t, Entering(t), Last(t.stack).gen)
<1>0. PICK g \in Generators : g = Last(t.stack).gen
  OBVIOUS
<1>1. PICK e : e = Entering(t)
  OBVIOUS
<1>2. PICK o : o = [t.gen[g] EXCEPT !.running = TRUE]
  OBVIOUS
<1>3. t.gen \in [Generators -> Object] /\ t.gen[g] \in Object
  BY DEF Typed
<1>4. o \in Object /\ o.running /\ o.completed = t.gen[g].completed /\ o.owned = t.gen[g].owned
  BY <1>2, <1>3 DEF Object
<1>5. e = [t EXCEPT !.gen[g].running = TRUE]
  BY <1>0, <1>1, Zenon DEF Entering
<1>6. e = [t EXCEPT !.gen = [t.gen EXCEPT ![g] = o]]
  BY <1>2, <1>3, <1>5 DEF Typed
<1>7. Typed(e)
  BY <1>4, <1>6 DEF Typed
<1>8. /\ e.ctx = t.ctx /\ e.op = t.op /\ e.stack = t.stack /\ e.ret = t.ret
      /\ e.gen = [t.gen EXCEPT ![g] = o]
  BY <1>6 DEF Typed
<1>9. /\ e.gen[g].running
      /\ \A h \in Generators : /\ e.gen[h].owned = t.gen[h].owned
                               /\ e.gen[h].completed = t.gen[h].completed
                               /\ h # g => e.gen[h].running = t.gen[h].running
  BY <1>3, <1>4, <1>8
<1> QED
  BY <1>0, <1>1, <1>7, <1>8, <1>9 DEF Entered

(* Only one activation of a body is on the stack.                           *)
LEMMA EnterRights ==
  ASSUME NEW s, Base(s), NEW g \in Generators, ~s.gen[g].running, ~s.gen[g].completed,
         NEW f \in Frame, f.k = "resume", f.gen = g,
         NEW e, e.op = s.op, e.stack = Append(s.stack, f), e.gen[g].running,
         \A h \in Generators : /\ e.gen[h].owned = s.gen[h].owned
                               /\ e.gen[h].completed = s.gen[h].completed
                               /\ h # g => e.gen[h].running = s.gen[h].running
  PROVE  Owners(e)
<1>1. Rights(s) /\ Advancing(s) /\ Bodies(s) /\ s.stack \in Seq(Frame)
  BY DEF Base, Owners, Typed
<1>2. PICK n \in Nat : n = Len(s.stack)
  BY <1>1
<1>3. /\ DOMAIN s.stack = 1 .. n /\ DOMAIN e.stack = 1 .. n + 1 /\ e.stack[n + 1] = f
      /\ \A i \in 1 .. n : e.stack[i] = s.stack[i]
  BY <1>1, <1>2, AppendOne
<1>4. Rights(e)
  BY <1>1, SuspendedAssumption DEF Rights, Active, Plain
<1>5. ASSUME NEW h \in Generators, NEW i \in 1 .. n + 1
      PROVE  /\ Advances(e.stack, i, h) <=> i # n + 1 /\ Advances(s.stack, i, h)
             /\ Runs(e.stack, i, h) <=> IF i = n + 1 THEN h = g ELSE Runs(s.stack, i, h)
  BY <1>3 DEF Advances, Runs
<1>6. Advancing(e)
  <2>1. ASSUME NEW h \in Generators, NEW i \in DOMAIN e.stack, Advances(e.stack, i, h)
        PROVE  LET c == e.stack[i].op IN
               /\ e.gen[h].owned /\ (e.op[c].running \/ e.op[c].completed)
               /\ \A b \in Operations : Active(e, b) /\ Receiver[b] = h => b = c
               /\ \A j \in DOMAIN e.stack : Advances(e.stack, j, h) => j = i
    BY <1>1, <1>3, <1>5, <2>1 DEF Advancing, Active
  <2>2. ASSUME NEW h \in Generators, e.gen[h].completed, e.gen[h].owned
        PROVE  \E i \in DOMAIN e.stack : Advances(e.stack, i, h)
    <3>1. PICK i \in DOMAIN s.stack : Advances(s.stack, i, h)
      BY <1>1, <2>2 DEF Advancing
    <3> QED
      BY <1>2, <1>3, <1>5, <3>1
  <2> QED
    BY <2>1, <2>2 DEF Advancing
<1>7. \A i \in DOMAIN s.stack : ~Runs(s.stack, i, g)
  BY <1>1 DEF Bodies
<1>8. Bodies(e)
  <2>1. ASSUME NEW h \in Generators, NEW i \in DOMAIN e.stack, Runs(e.stack, i, h)
        PROVE  /\ e.gen[h].running /\ ~e.gen[h].completed
               /\ \A j \in DOMAIN e.stack : Runs(e.stack, j, h) => j = i
    BY <1>1, <1>3, <1>5, <1>7, <2>1 DEF Bodies
  <2> QED
    BY <2>1 DEF Bodies
<1> QED
  BY <1>4, <1>6, <1>8 DEF Owners

(* The exchange of the registers for those of the body, which may run.      *)
LEMMA EnterGood ==
  ASSUME NEW s, Open(s), NEW g \in Generators, ~s.gen[g].running, ~s.gen[g].completed,
         NEW o \in Requests, NEW input \in Nat, o = "throw" => input # NoException,
         Resumes(Last(s.stack), g)
  PROVE  Good(EnterBody(s, g, o, input))
<1>0. /\ Typed(s) /\ Base(s) /\ s.stack \in Seq(Frame) /\ s.gen[g] \in Object /\ s.gen[g].raised \in Nat
      /\ s.ctx.raised \in Nat /\ s.ctx.handled \in Seq(Exceptions) /\ s.ctx.ambient \in Seq(Nat)
  BY DEF Open, Base, Typed, Object
<1>1. PICK own : own = [s EXCEPT !.ctx.raised = s.gen[g].raised]
  OBVIOUS
<1>2. Typed(own) /\ Same(s, own) /\ own.ctx.raised = s.gen[g].raised
  BY <1>0, <1>1, SetRaised
<1>3. PICK in : in = IF o = "throw" THEN RaiseValue(own, input, NoException) ELSE own
  OBVIOUS
<1>4. Typed(in) /\ Same(s, in) /\ (o \in {"next", "send"} => in.ctx.raised = s.gen[g].raised)
  <2>1. CASE o = "throw"
    <3>1. NoException \in Nat
      BY DEF NoException
    <3>2. Typed(in) /\ Same(own, in)
      BY <1>2, <1>3, <2>1, <3>1, RaiseValueType
    <3> QED
      BY <1>2, <2>1, <3>2 DEF Same
  <2>2. CASE o # "throw"
    BY <1>2, <1>3, <2>2
  <2> QED
    BY <2>1, <2>2
<1>5. PICK u : u = [in EXCEPT !.ret = Gives("resumed", FALSE)]
  OBVIOUS
<1>6. Typed(u) /\ Same(in, u) /\ u.ctx = in.ctx /\ u.ret.k = "resumed"
  <2>1. "resumed" \in Outcomes /\ FALSE \in BOOLEAN
    BY DEF Outcomes
  <2> QED
    BY <1>4, <1>5, <2>1, SetRet
<1>7. PICK f : f = [k |-> "resume", gen |-> g, op |-> o, input |-> input,
                    previousRaised |-> s.ctx.raised, previousHandled |-> s.ctx.handled,
                    mark |-> Len(s.ctx.ambient)]
  OBVIOUS
<1>8. /\ f \in Frame /\ f.k = "resume" /\ f.gen = g /\ f.op = o /\ f.input = input
      /\ f.previousRaised = s.ctx.raised /\ f.previousHandled = s.ctx.handled
      /\ f.mark = Len(s.ctx.ambient)
  BY <1>0, <1>7 DEF Frame, ResumeFrame
<1>9. PICK t : t = EnterBody(s, g, o, input)
  OBVIOUS
<1>10. t = Push(u, f)
  BY <1>1, <1>3, <1>5, <1>7, <1>9, Zenon DEF EnterBody
<1>11. /\ Typed(t) /\ t.stack = Append(s.stack, f) /\ t.ctx = u.ctx /\ t.gen = s.gen /\ t.op = s.op
       /\ t.ret = u.ret
  <2>1. u.stack = s.stack /\ u.gen = s.gen /\ u.op = s.op
    BY <1>4, <1>6 DEF Same
  <2> QED
    BY <1>6, <1>8, <1>10, <2>1, PushType
<1>12. t.stack # <<>> /\ Last(t.stack) = f
  BY <1>0, <1>8, <1>11, AppendOne
<1>13. t.ctx.ambient = s.ctx.ambient
  BY <1>4, <1>6, <1>11 DEF Same
<1>14. PICK e : e = Entering(t)
  OBVIOUS
<1>15. /\ Typed(e) /\ e.ctx = t.ctx /\ e.op = s.op /\ e.stack = Append(s.stack, f)
       /\ e.gen[g].running
       /\ \A h \in Generators : /\ e.gen[h].owned = s.gen[h].owned
                                /\ e.gen[h].completed = s.gen[h].completed
                                /\ h # g => e.gen[h].running = s.gen[h].running
  <2>1. Typed(t) /\ g = Last(t.stack).gen
    BY <1>8, <1>11, <1>12
  <2>2. Typed(e) /\ Entered(t, e, g)
    BY <1>14, <2>1, EnteringType
  <2> QED
    BY <1>11, <2>2 DEF Entered
<1>16. Owners(e)
  BY <1>0, <1>8, <1>15, EnterRights
<1>17. Placed(e.stack)
  <2>1. Above(Last(s.stack), f)
    BY <1>8 DEF Resumes, Above, Callers
  <2>2. Placed(s.stack) /\ s.stack # <<>>
    BY <1>0 DEF Open, Base
  <2> QED
    BY <1>0, <1>8, <1>15, <2>1, <2>2, PlacedAppend
<1>18. Marks(e.stack, e.ctx.ambient)
  <2>1. ASSUME NEW j \in DOMAIN s.stack, Under(s.stack, j, Len(s.stack) + 1)
        PROVE  Serves(s.stack[j], f, s.ctx.ambient)
    <3>1. /\ s.ctx.handled = s.stack[j].handled /\ s.ctx.ambient = s.stack[j].ambient
          /\ Keeps(s.stack[j]) => s.ctx.raised = s.stack[j].raised
      BY <2>1 DEF Open, Ready
    <3>2. SubSeq(s.ctx.ambient, 1, f.mark) = s.ctx.ambient
      BY <1>0, <1>8, SubSeqFull
    <3> QED
      BY <1>8, <3>1, <3>2 DEF Serves
  <2>2. Marks(s.stack, s.ctx.ambient)
    BY <1>0 DEF Base
  <2> QED
    BY <1>0, <1>8, <1>13, <1>15, <2>1, <2>2, MarksAppend
<1>19. Base(Entering(t))
  BY <1>14, <1>15, <1>16, <1>17, <1>18 DEF Base
<1>20. /\ t.ret.k = "resumed" /\ Ends(f, t.ret.k)
       /\ f.op \in {"next", "send"} => t.ctx.raised = t.gen[g].raised
  BY <1>4, <1>6, <1>8, <1>11 DEF Ends
<1> QED
  BY <1>8, <1>9, <1>11, <1>12, <1>19, <1>20 DEF Good

(* resume_generator: refused, answered at once, or the body is entered.     *)
LEMMA ResumeGeneratorGood ==
  ASSUME NEW s, Open(s), NEW g \in Generators, NEW o \in Requests, NEW input \in Nat,
         o = "throw" => input # NoException, Resumes(Last(s.stack), g)
  PROVE  Good(ResumeGenerator(s, g, o, input))
<1>1. PICK t : t = ResumeGenerator(s, g, o, input)
  OBVIOUS
<1>2. /\ Base(s) /\ Ready(s) /\ s.stack # <<>>
      /\ Ends(Last(s.stack), "error") /\ Ends(Last(s.stack), "returned")
      /\ "error" \in Kinds /\ "error" \in {"error", "propagate"} /\ FALSE \in BOOLEAN
      /\ "returned" \in Values
  BY DEF Open, Resumes, Ends, Kinds, Values
<1>3. s.gen[g] \in Object
  BY <1>2 DEF Base, Typed
<1>4. \/ t = RaiseError(s, "error")
      \/ o = "throw" /\ t = [RaiseValue(s, input, NoException) EXCEPT !.ret = Error]
      \/ t = [s EXCEPT !.ret = Gives("returned", FALSE)]
      \/ ~s.gen[g].running /\ t = [Close(s, g) EXCEPT !.ret = Gives("returned", FALSE)]
      \/ /\ ~s.gen[g].running /\ o = "throw"
         /\ t = [RaiseValue(Close(s, g), input, NoException) EXCEPT !.ret = Error]
      \/ /\ ~s.gen[g].running /\ ~s.gen[g].completed
         /\ t = EnterBody(s, g, o, input)
  BY <1>1, <1>3 DEF ResumeGenerator, Requests, Object
<1>5. CASE t = RaiseError(s, "error")
  BY <1>1, <1>2, <1>5, Refused
<1>6. CASE o = "throw" /\ t = [RaiseValue(s, input, NoException) EXCEPT !.ret = Error]
  <2>1. input \in Exceptions
    BY <1>6 DEF Exceptions, NoException
  <2>2. Good([RaiseValue(s, input, NoException) EXCEPT !.ret = Gives("error", FALSE)])
    BY <1>2, <2>1, Thrown
  <2> QED
    BY <1>1, <1>6, <2>2 DEF Error
<1>7. CASE t = [s EXCEPT !.ret = Gives("returned", FALSE)]
  <2>1. Good([s EXCEPT !.ret = Gives("returned", FALSE)])
    BY <1>2, Answered
  <2> QED
    BY <1>1, <1>7, <2>1
<1>8. CASE ~s.gen[g].running /\ t = [Close(s, g) EXCEPT !.ret = Gives("returned", FALSE)]
  <2>1. PICK c : c = Close(s, g)
    OBVIOUS
  <2>2. Base(c) /\ Ready(c) /\ c.stack = s.stack /\ c.ctx = s.ctx /\ c.ret = s.ret
    BY <1>2, <1>8, <2>1, CloseBase
  <2>3. Open(c)
    BY <2>2 DEF Open
  <2>4. Ends(Last(c.stack), "returned")
    BY <1>2, <2>2
  <2>5. Good([c EXCEPT !.ret = Gives("returned", FALSE)])
    BY <1>2, <2>3, <2>4, Answered
  <2> QED
    BY <1>1, <1>8, <2>1, <2>5
<1>9. CASE /\ ~s.gen[g].running /\ o = "throw"
           /\ t = [RaiseValue(Close(s, g), input, NoException) EXCEPT !.ret = Error]
  <2>1. PICK c : c = Close(s, g)
    OBVIOUS
  <2>2. Base(c) /\ Ready(c) /\ c.stack = s.stack
    BY <1>2, <1>9, <2>1, CloseBase
  <2>3. input \in Exceptions
    BY <1>9 DEF Exceptions, NoException
  <2>4. c.stack # <<>> /\ Ends(Last(c.stack), "error")
    BY <1>2, <2>2
  <2>5. Good([RaiseValue(c, input, NoException) EXCEPT !.ret = Gives("error", FALSE)])
    BY <1>2, <2>2, <2>3, <2>4, Thrown
  <2> QED
    BY <1>1, <1>9, <2>1, <2>5 DEF Error
<1>10. CASE ~s.gen[g].running /\ ~s.gen[g].completed /\ t = EnterBody(s, g, o, input)
  BY <1>1, <1>10, EnterGood
<1> QED
  BY <1>4, <1>5, <1>6, <1>7, <1>8, <1>9, <1>10

-----------------------------------------------------------------------------
(* Methods and operations *)

(* A call that serves another and goes on.                                  *)
LEMMA PushOpen ==
  ASSUME NEW s, Open(s), NEW f \in Frame, f.k \in Helpers \ {"operation"}, Above(Last(s.stack), f),
         f.k = "delegate" /\ f.op = "close" => f.injected # NoException,
         \A j \in DOMAIN s.stack : Under(s.stack, j, Len(s.stack) + 1) =>
             Serves(s.stack[j], f, s.ctx.ambient)
  PROVE  LET t == Push(s, f) IN
         /\ Open(t) /\ Last(t.stack) = f /\ t.stack = Append(s.stack, f)
         /\ t.ctx = s.ctx /\ t.gen = s.gen /\ t.op = s.op /\ t.next = s.next
<1>1. PICK t : t = Push(s, f)
  OBVIOUS
<1>2. Base(s) /\ Ready(s) /\ s.stack # <<>> /\ Typed(s)
  BY DEF Open, Base
<1>3. /\ t.stack = Append(s.stack, f) /\ s.stack \in Seq(Frame)
      /\ t.ctx = s.ctx /\ t.gen = s.gen /\ t.op = s.op /\ t.next = s.next /\ t.ret = s.ret
  BY <1>1, <1>2, PushType
<1>4. Base(t) /\ Ready(t)
  BY <1>1, <1>2, PushHelper
<1>5. t.stack # <<>> /\ Last(t.stack) = f
  BY <1>3, AppendOne
<1> QED
  BY <1>1, <1>3, <1>4, <1>5 DEF Open

(* send, throw and close of a generator or a coroutine.                     *)
LEMMA MethodGood ==
  ASSUME NEW s, Open(s), Last(s.stack).k \in {"call", "delegate"}, NEW g \in Plain,
         NEW o \in Requests, NEW input \in Nat, o = "throw" => input # NoException
  PROVE  Good(Method(s, g, o, input))
<1>1. PICK f : f = [k |-> "method", op |-> o]
  OBVIOUS
<1>2. f \in Frame /\ f.k = "method" /\ f.k \in Helpers \ {"operation"}
  BY <1>1 DEF Frame, Helpers
<1>3. Above(Last(s.stack), f) /\ \A j \in DOMAIN s.stack : Serves(s.stack[j], f, s.ctx.ambient)
  BY <1>2 DEF Above, Serves, Callers
<1>4. PICK t : t = Push(s, f)
  OBVIOUS
<1>5. Open(t) /\ Last(t.stack) = f
  BY <1>2, <1>3, <1>4, PushOpen
<1>6. g \in Generators /\ Resumes(Last(t.stack), g)
  BY <1>2, <1>5 DEF Resumes, Plain
<1>7. Good(ResumeGenerator(t, g, o, input))
  BY <1>5, <1>6, ResumeGeneratorGood
<1> QED
  BY <1>1, <1>4, <1>7 DEF Method

(* An operation resumes the generator that it may advance.                  *)
LEMMA AcquireGood ==
  ASSUME NEW s, Open(s), Last(s.stack).k \in {"call", "delegate", "start"},
         NEW a \in Operations, MayBegin(s, a), NEW o \in Requests \cup {"default"},
         NEW input \in Nat, o = "throw" => input # NoException
  PROVE  Good(Acquire(s, a, o, input))
<1>0. Base(s) /\ Ready(s) /\ Typed(s) /\ s.stack # <<>>
  BY DEF Open, Base
<1>1. PICK g \in Generators : g = Receiver[a]
  BY SuspendedAssumption
<1>2. PICK taken : taken = Take(s, a)
  OBVIOUS
<1>3. Typed(taken) /\ Began(s, taken, a) /\ taken.ctx = s.ctx
  BY <1>0, <1>2, TakeType DEF MayBegin
<1>4. PICK resume : resume = IF o # "default" THEN o ELSE IF s.op[a].started THEN "next" ELSE Protocol[a]
  OBVIOUS
<1>5. resume \in Requests
  BY <1>4, SuspendedAssumption DEF Requests
<1>6. PICK given : given = (o = "default" /\ resume = "throw")
  OBVIOUS
<1>7. PICK u : u = IF given THEN New(taken, "error", FALSE) ELSE taken
  OBVIOUS
<1>8. Typed(u) /\ Began(s, u, a)
  <2>1. CASE given
    <3>1. "error" \in Kinds /\ FALSE \in BOOLEAN
      BY DEF Kinds
    <3>2. Typed(u) /\ Same(taken, u) /\ u.ret = taken.ret /\ u.ctx.raised = taken.ctx.raised
      BY <1>3, <1>7, <2>1, <3>1, NewType
    <3> QED
      BY <1>3, <3>2 DEF Same, Began
  <2>2. CASE ~given
    BY <1>3, <1>7, <2>2
  <2> QED
    BY <2>1, <2>2
<1>9. PICK thrown : thrown = IF given THEN Fresh(taken) ELSE input
  OBVIOUS
<1>10. thrown \in Nat /\ (resume = "throw" => thrown # NoException)
  BY <1>4, <1>6, <1>9, FreshType DEF Exceptions
<1>11. PICK f : f = [k |-> "operation", op |-> a]
  OBVIOUS
<1>12. PICK t : t = Push(u, f)
  OBVIOUS
<1>13. Base(t) /\ Ready(t) /\ t.stack # <<>> /\ t.ret = s.ret /\ Last(t.stack) = f
  BY <1>0, <1>8, <1>11, <1>12, BeginBase
<1>14. Open(t)
  BY <1>13 DEF Open
<1>15. Resumes(Last(t.stack), g)
  BY <1>1, <1>11, <1>13 DEF Resumes
<1>16. Good(ResumeGenerator(t, g, resume, thrown))
  BY <1>5, <1>10, <1>14, <1>15, ResumeGeneratorGood
<1>17. Acquire(s, a, o, input) = ResumeGenerator(t, g, resume, thrown)
  BY <1>1, <1>2, <1>4, <1>6, <1>7, <1>9, <1>11, <1>12 DEF Acquire
<1> QED
  BY <1>16, <1>17

(* resume_async_generator_operation refuses every other.                    *)
LEMMA ResumeOperationGood ==
  ASSUME NEW s, Open(s), Last(s.stack).k \in {"call", "delegate", "start"},
         NEW a \in Operations, NEW o \in Requests \cup {"default"},
         NEW input \in Nat, o = "throw" => input # NoException
  PROVE  Good(ResumeOperation(s, a, o, input))
<1>1. PICK t : t = ResumeOperation(s, a, o, input)
  OBVIOUS
<1>2. Base(s) /\ Ready(s) /\ s.stack # <<>> /\ Ends(Last(s.stack), "error") /\ "error" \in Kinds
  BY DEF Open, Ends, Kinds
<1>3. \/ t = RaiseError(s, "error")
      \/ t = RaiseError(Consume(s, a), "error")
      \/ MayBegin(s, a) /\ t = Acquire(s, a, o, input)
  BY <1>1 DEF ResumeOperation, MayBegin
<1>4. CASE t = RaiseError(s, "error")
  BY <1>1, <1>2, <1>4, Refused
<1>5. CASE t = RaiseError(Consume(s, a), "error")
  <2>1. PICK c : c = Consume(s, a)
    OBVIOUS
  <2>2. Base(c) /\ Ready(c) /\ c.stack = s.stack
    <3>1. Typed(s)
      BY <1>2 DEF Base
    <3> QED
      BY <1>2, <2>1, <3>1, ConsumeBase, ConsumeType
  <2>3. c.stack # <<>> /\ Ends(Last(c.stack), "error")
    BY <1>2, <2>2
  <2> QED
    BY <1>1, <1>2, <1>5, <2>1, <2>2, <2>3, Refused
<1>6. CASE MayBegin(s, a) /\ t = Acquire(s, a, o, input)
  BY <1>1, <1>6, AcquireGood
<1> QED
  BY <1>3, <1>4, <1>5, <1>6

(* The methods of an operation.                                             *)
LEMMA OperationMethodGood ==
  ASSUME NEW s, Open(s), Last(s.stack).k \in {"call", "delegate"},
         NEW a \in Operations, NEW o \in Requests,
         NEW input \in Nat, o = "throw" => input # NoException
  PROVE  Good(OperationMethod(s, a, o, input))
<1>1. PICK t : t = OperationMethod(s, a, o, input)
  OBVIOUS
<1>2. /\ Base(s) /\ Ready(s) /\ s.stack # <<>> /\ Ends(Last(s.stack), "error") /\ "error" \in Kinds
      /\ Ends(Last(s.stack), "value") /\ "value" \in Values /\ FALSE \in BOOLEAN
  BY DEF Open, Ends, Kinds, Values
<1>3. PICK c : c = Consume(s, a)
  OBVIOUS
<1>4. Base(c) /\ Ready(c) /\ c.stack = s.stack /\ c.ret = s.ret
  <2>1. Typed(s)
    BY <1>2 DEF Base
  <2> QED
    BY <1>2, <1>3, <2>1, ConsumeBase, ConsumeType
<1>5. Open(c) /\ c.stack # <<>> /\ Ends(Last(c.stack), "error") /\ Ends(Last(c.stack), "value")
  BY <1>2, <1>4 DEF Open
<1>6. \/ \E r \in {"default", "send", "throw"} :
            (r = "throw" => o = "throw") /\ t = ResumeOperation(s, a, r, input)
      \/ t = RaiseError(c, "error")
      \/ t = [s EXCEPT !.ret = Gives("value", FALSE)]
      \/ t = [c EXCEPT !.ret = Gives("value", FALSE)]
  BY <1>1, <1>3 DEF OperationMethod, Requests
<1>7. ASSUME NEW r \in {"default", "send", "throw"}, r = "throw" => o = "throw",
             t = ResumeOperation(s, a, r, input)
      PROVE  Good(t)
  <2>1. r \in Requests \cup {"default"} /\ (r = "throw" => input # NoException)
    BY <1>7 DEF Requests
  <2> QED
    BY <1>7, <2>1, ResumeOperationGood
<1>8. CASE t = RaiseError(c, "error")
  BY <1>1, <1>2, <1>4, <1>5, <1>8, Refused
<1>9. CASE t = [s EXCEPT !.ret = Gives("value", FALSE)]
  <2>1. Good([s EXCEPT !.ret = Gives("value", FALSE)])
    BY <1>2, Answered
  <2> QED
    BY <1>1, <1>9, <2>1
<1>10. CASE t = [c EXCEPT !.ret = Gives("value", FALSE)]
  <2>1. Good([c EXCEPT !.ret = Gives("value", FALSE)])
    BY <1>2, <1>5, Answered
  <2> QED
    BY <1>1, <1>10, <2>1
<1> QED
  BY <1>1, <1>6, <1>7, <1>8, <1>9, <1>10

-----------------------------------------------------------------------------
(* Delegation *)

(* An awaitable of the program answers.                                     *)
LEMMA AnswersGood ==
  ASSUME NEW s, Open(s), Last(s.stack).k \in {"await", "forward", "anext"}, NEW t \in Answers(s)
  PROVE  Good(t)
<1>1. /\ Base(s) /\ Ready(s) /\ s.stack # <<>> /\ TRUE \in BOOLEAN
      /\ \A k \in {"pending", "completed"} : k \in Values /\ Ends(Last(s.stack), k)
      /\ Ends(Last(s.stack), "error") /\ "error" \in Kinds /\ "stopasync" \in Kinds
  BY DEF Open, Ends, Kinds, Values
<1>2. CASE \E k \in {"pending", "completed"} : t = [s EXCEPT !.ret = Gives(k, TRUE)]
  <2>1. PICK k \in {"pending", "completed"} : t = [s EXCEPT !.ret = Gives(k, TRUE)]
    BY <1>2
  <2>2. Good([s EXCEPT !.ret = Gives(k, TRUE)])
    BY <1>1, Answered
  <2> QED
    BY <2>1, <2>2
<1>3. CASE \E kind \in {"error", "stopasync"} : t = RaiseError(s, kind)
  BY <1>1, <1>3, Refused
<1> QED
  BY <1>2, <1>3 DEF Answers

(* The __next__ of an awaitable.                                            *)
LEMMA StartGood ==
  ASSUME NEW s, Open(s), Last(s.stack).k \in {"await", "forward", "anext"}, NEW x \in Awaited,
         NEW t \in Start(s, x)
  PROVE  Good(t)
<1>1. PICK f : f = [k |-> "start", ambient |-> s.ctx.raised]
  OBVIOUS
<1>2. f \in Frame /\ f.k = "start" /\ f.ambient = s.ctx.raised /\ f.k \in Helpers \ {"operation"}
  <2>1. s.ctx.raised \in Nat
    BY DEF Open, Base, Typed
  <2> QED
    BY <1>1, <2>1 DEF Frame, Helpers
<1>3. Above(Last(s.stack), f)
  BY <1>2 DEF Above, Callers
<1>4. \A j \in DOMAIN s.stack : Under(s.stack, j, Len(s.stack) + 1) =>
          Serves(s.stack[j], f, s.ctx.ambient)
  BY <1>2 DEF Open, Ready, Serves
<1>5. PICK u : u = Push(s, f)
  OBVIOUS
<1>6. Open(u) /\ Last(u.stack) = f
  BY <1>2, <1>3, <1>4, <1>5, PushOpen
<1>7. \/ x \in Operations /\ t = ResumeOperation(u, x, "default", NoException)
      \/ x \in Generators /\ t = ResumeGenerator(u, x, "next", NoException)
      \/ t \in Answers(s)
  BY <1>1, <1>5 DEF Start
<1>8. NoException \in Nat /\ "next" \in Requests /\ "default" \in Requests \cup {"default"}
  BY DEF NoException, Requests
<1>9. CASE x \in Operations /\ t = ResumeOperation(u, x, "default", NoException)
  BY <1>2, <1>6, <1>8, <1>9, ResumeOperationGood
<1>10. CASE x \in Generators /\ t = ResumeGenerator(u, x, "next", NoException)
  <2>1. x \in Plain
    BY <1>10, SuspendedAssumption DEF Awaited
  <2>2. Resumes(Last(u.stack), x)
    BY <1>2, <1>6, <2>1 DEF Resumes
  <2> QED
    BY <1>6, <1>8, <1>10, <2>2, ResumeGeneratorGood
<1>11. CASE t \in Answers(s)
  BY <1>11, AnswersGood
<1> QED
  BY <1>7, <1>9, <1>10, <1>11

(* What the innermost call is waiting for is a call that code has made.      *)
LEMMA CallerOnTop ==
  ASSUME NEW stk \in Seq(Frame), stk # <<>>, Last(stk).k \in Callers \cup {"resume"},
         NEW j, Under(stk, j, Len(stk) + 1)
  PROVE  j = Len(stk) /\ stk[j] = Last(stk) /\ Last(stk).k \in Callers
<1>1. PICK n \in Nat \ {0} : n = Len(stk)
  OBVIOUS
<1>2. DOMAIN stk = 1 .. n /\ Last(stk) = stk[n]
  BY <1>1, FrontOne
<1>3. j \in 1 .. n /\ \A m \in j + 1 .. n : stk[m].k \in Helpers
  BY <1>1, <1>2 DEF Under
<1>4. stk[n].k \notin Helpers
  BY <1>2 DEF Callers, Helpers
<1>5. j = n
  BY <1>3, <1>4
<1> QED
  BY <1>1, <1>2, <1>5 DEF Under

(* The code that waits does not find its pending exception again.           *)
Lost(s) ==
  \A j \in DOMAIN s.stack : Under(s.stack, j, Len(s.stack) + 1) => ~Keeps(s.stack[j])

(* anext() with a default takes part in the call.                           *)
LEMMA AnextOpen ==
  ASSUME NEW s, Open(s), Lost(s), Last(s.stack).k \in {"await", "dispatch"}, NEW d \in Defaults,
         NEW o \in Requests, NEW n \in Flags
  PROVE  LET u == Push([s EXCEPT !.next[d] = n], [k |-> "anext", next |-> d, op |-> o]) IN
         Open(u) /\ Lost(u) /\ Last(u.stack).k = "anext" /\ u.ctx = s.ctx
<1>1. PICK v : v = [s EXCEPT !.next[d] = n]
  OBVIOUS
<1>2. Typed(s) /\ Base(s) /\ Ready(s) /\ s.stack # <<>>
  BY DEF Open, Base
<1>3. /\ Typed(v) /\ v.ctx = s.ctx /\ v.stack = s.stack /\ v.ret = s.ret /\ v.op = s.op
      /\ v.gen = s.gen
  BY <1>1, <1>2 DEF Typed
<1>4. Base(v)
  <2>1. SameRights(s, v)
    BY <1>3 DEF SameRights
  <2> QED
    BY <1>2, <1>3, <2>1, BaseSame
<1>5. Open(v)
  BY <1>2, <1>3, <1>4 DEF Open, Ready
<1>6. PICK f : f = [k |-> "anext", next |-> d, op |-> o]
  OBVIOUS
<1>7. f \in Frame /\ f.k = "anext" /\ f.k \in Helpers \ {"operation"}
  BY <1>6 DEF Frame, Helpers
<1>8. Above(Last(v.stack), f)
  BY <1>3, <1>7 DEF Above, Callers
<1>9. \A j \in DOMAIN v.stack : Under(v.stack, j, Len(v.stack) + 1) =>
          Serves(v.stack[j], f, v.ctx.ambient)
  BY <1>3, <1>7 DEF Lost, Serves
<1>10. PICK u : u = Push(v, f)
  OBVIOUS
<1>11. Open(u) /\ Last(u.stack) = f /\ u.stack = Append(v.stack, f) /\ u.ctx = v.ctx
  BY <1>5, <1>7, <1>8, <1>9, <1>10, PushOpen
<1>12. Lost(u)
  <2> SUFFICES ASSUME NEW j \in DOMAIN u.stack, Under(u.stack, j, Len(u.stack) + 1)
               PROVE  ~Keeps(u.stack[j])
    BY DEF Lost
  <2>1. s.stack \in Seq(Frame) /\ u.stack = Append(s.stack, f)
    BY <1>2, <1>3, <1>11 DEF Typed
  <2>2. Under(s.stack, j, Len(s.stack) + 1)
    BY <1>7, <2>1, UnderAppend DEF Callers
  <2>3. j \in DOMAIN s.stack /\ j \in 1 .. Len(s.stack)
    BY <2>1, <2>2, AppendOne DEF Under
  <2> QED
    BY <1>7, <2>1, <2>2, <2>3, AppendOne DEF Lost
<1> QED
  BY <1>1, <1>3, <1>6, <1>7, <1>10, <1>11, <1>12

(* anext() with a default is advanced.                                      *)
LEMMA StartDefaultGood ==
  ASSUME NEW s, Open(s), Lost(s), Last(s.stack).k \in {"await", "dispatch"}, NEW d \in Defaults,
         NEW t \in StartDefault(s, d)
  PROVE  Good(t)
<1>1. /\ Base(s) /\ Ready(s) /\ s.stack # <<>> /\ s.next[d] \in Flags /\ s.next \in [Defaults -> Flags]
      /\ Ends(Last(s.stack), "error") /\ "error" \in Kinds /\ "next" \in Requests
  BY DEF Open, Base, Typed, Ends, Kinds, Requests
<1>2. PICK n : n = [s.next[d] EXCEPT !.running = TRUE, !.started = TRUE]
  OBVIOUS
<1>3. n \in Flags
  BY <1>1, <1>2 DEF Flags
<1>4. PICK v : v = [s EXCEPT !.next[d] = n]
  OBVIOUS
<1>5. PICK u : u = Push(v, [k |-> "anext", next |-> d, op |-> "next"])
  OBVIOUS
<1>6. Open(u) /\ Last(u.stack).k = "anext"
  BY <1>1, <1>3, <1>4, <1>5, AnextOpen
<1>7. t = RaiseError(s, "error") \/ t \in Start(u, Wrapped[d])
  <2>1. v = [s EXCEPT !.next[d].running = TRUE, !.next[d].started = TRUE]
    BY <1>1, <1>2, <1>4 DEF Base, Typed
  <2> QED
    BY <1>5, <2>1, Zenon DEF StartDefault
<1>8. CASE t = RaiseError(s, "error")
  BY <1>1, <1>8, Refused
<1>9. CASE t \in Start(u, Wrapped[d])
  <2>1. Wrapped[d] \in Awaited
    BY SuspendedAssumption DEF Awaited
  <2> QED
    BY <1>6, <1>9, <2>1, StartGood
<1> QED
  BY <1>7, <1>8, <1>9

(* generator_delegate_start: code awaits.                                   *)
LEMMA DelegateStartGood ==
  ASSUME NEW s, Open(s), Last(s.stack).k = "await", NEW x \in Awaited, Last(s.stack).on = x,
         NEW t \in DelegateStart(s, x)
  PROVE  Good(t)
<1>1. CASE x \in Defaults
  <2>1. Lost(s)
    <3> SUFFICES ASSUME NEW j \in DOMAIN s.stack, Under(s.stack, j, Len(s.stack) + 1)
                 PROVE  ~Keeps(s.stack[j])
      BY DEF Lost
    <3>1. s.stack[j] = Last(s.stack)
      BY CallerOnTop DEF Open, Base, Typed, Callers
    <3> QED
      BY <1>1, <3>1 DEF Keeps
  <2> QED
    BY <1>1, <2>1, StartDefaultGood DEF DelegateStart
<1>2. CASE x \notin Defaults
  BY <1>2, StartGood DEF DelegateStart
<1> QED
  BY <1>1, <1>2

(* A value or an exception goes on to the delegate's method.                *)
LEMMA DelegateMethodGood ==
  ASSUME NEW s, Open(s), Last(s.stack).k \in {"dispatch", "anext"}, NEW x \in Awaited,
         NEW o \in Requests \ {"next"}, NEW input \in Nat, o = "throw" => input # NoException,
         o = "close" => s.ctx.raised # NoException, o # "send" => Lost(s),
         NEW t \in DelegateMethod(s, x, o, input)
  PROVE  Good(t)
<1>0. /\ Typed(s) /\ Base(s) /\ Ready(s) /\ s.stack # <<>> /\ s.ctx.raised \in Nat /\ NoException \in Nat
      /\ Ends(Last(s.stack), "propagate")
  BY DEF Open, Base, Typed, NoException, Ends
<1>1. PICK injected : injected = IF o \in {"throw", "close"} THEN s.ctx.raised ELSE NoException
  OBVIOUS
<1>2. PICK taken : taken = IF injected = NoException THEN s ELSE [s EXCEPT !.ctx.raised = NoException]
  OBVIOUS
<1>3. /\ Typed(taken) /\ Same(s, taken) /\ taken.ret = s.ret
      /\ injected = NoException => taken.ctx.raised = s.ctx.raised
  <2>1. CASE injected = NoException
    BY <1>0, <1>2, <2>1 DEF Same
  <2>2. CASE injected # NoException
    BY <1>0, <1>2, <2>2, SetRaised
  <2> QED
    BY <2>1, <2>2
<1>4. /\ taken.stack = s.stack /\ taken.ctx.ambient = s.ctx.ambient
      /\ taken.ctx.handled = s.ctx.handled /\ taken.ctx.raised \in Nat
  BY <1>3 DEF Same, Typed
<1>5. Open(taken)
  <2>1. Base(taken)
    BY <1>0, <1>3, <1>4, SameIsSame, BaseSame
  <2>2. injected # NoException => Lost(s)
    BY <1>1 DEF Requests
  <2>3. Ready(taken)
    BY <1>0, <1>3, <1>4, <2>2 DEF Open, Ready, Lost
  <2> QED
    BY <1>3, <1>4, <2>1, <2>3 DEF Open
<1>6. PICK f : f = [k |-> "delegate", op |-> o, injected |-> injected, ambient |-> taken.ctx.raised]
  OBVIOUS
<1>7. /\ f \in Frame /\ f.k = "delegate" /\ f.op = o /\ f.injected = injected
      /\ f.ambient = taken.ctx.raised /\ f.k \in Helpers \ {"operation"}
  <2>1. injected \in Nat /\ o \in {"send", "throw", "close"}
    BY <1>0, <1>1 DEF Requests
  <2> QED
    BY <1>4, <1>6, <2>1 DEF Frame, DelegateFrame, Helpers
<1>8. Above(Last(taken.stack), f)
  BY <1>4, <1>7 DEF Above, Callers
<1>9. f.k = "delegate" /\ f.op = "close" => f.injected # NoException
  BY <1>1, <1>7
<1>10. \A j \in DOMAIN taken.stack : Under(taken.stack, j, Len(taken.stack) + 1) =>
          Serves(taken.stack[j], f, taken.ctx.ambient)
  <2> SUFFICES ASSUME NEW j \in DOMAIN taken.stack, Under(taken.stack, j, Len(taken.stack) + 1),
                      Keeps(taken.stack[j])
               PROVE  f.op = "send" /\ f.ambient = taken.stack[j].raised
    BY <1>7 DEF Serves
  <2>1. o = "send"
    BY <1>4 DEF Lost
  <2> QED
    BY <1>5, <1>7, <2>1 DEF Open, Ready
<1>11. PICK u : u = Push(taken, f)
  OBVIOUS
<1>12. Open(u) /\ Last(u.stack) = f
  BY <1>5, <1>7, <1>8, <1>9, <1>10, <1>11, PushOpen
<1>13. \/ x \in Operations /\ t = OperationMethod(u, x, o, input)
       \/ x \in Generators /\ t = Method(u, x, o, input)
       \/ \E a \in Answers(u) :
             t = [a EXCEPT !.ret = IF a.ret = Error THEN @ ELSE Gives("value", TRUE)]
       \/ /\ injected # NoException
          /\ t = [RaiseValue(s, injected, NoException) EXCEPT !.ret = Gives("propagate", FALSE)]
  BY <1>1, <1>2, <1>6, <1>11, Zenon DEF DelegateMethod
<1>14. CASE x \in Operations /\ t = OperationMethod(u, x, o, input)
  BY <1>7, <1>12, <1>14, OperationMethodGood
<1>15. CASE x \in Generators /\ t = Method(u, x, o, input)
  <2>1. x \in Plain
    BY <1>15, SuspendedAssumption DEF Awaited
  <2> QED
    BY <1>7, <1>12, <1>15, <2>1, MethodGood
<1>16. ASSUME NEW a \in Answers(u),
              t = [a EXCEPT !.ret = IF a.ret = Error THEN @ ELSE Gives("value", TRUE)]
       PROVE  Good(t)
  <2>0. /\ Base(u) /\ Ready(u) /\ u.stack # <<>> /\ Typed(u) /\ TRUE \in BOOLEAN
        /\ "value" \in Values /\ Ends(Last(u.stack), "value") /\ Ends(Last(u.stack), "error")
        /\ "error" \in Kinds /\ "stopasync" \in Kinds
    BY <1>7, <1>12 DEF Open, Base, Ends, Values, Kinds
  <2>1. CASE \E k \in {"pending", "completed"} : a = [u EXCEPT !.ret = Gives(k, TRUE)]
    <3>1. t = [u EXCEPT !.ret = Gives("value", TRUE)]
      <4>1. a.ret # Error
        BY <2>0, <2>1 DEF Typed, Gives, Error
      <4> QED
        BY <1>16, <2>0, <2>1, <4>1 DEF Typed
    <3>2. Good([u EXCEPT !.ret = Gives("value", TRUE)])
      BY <1>12, <2>0, Answered
    <3> QED
      BY <3>1, <3>2
  <2>2. CASE \E kind \in {"error", "stopasync"} : a = RaiseError(u, kind)
    <3>1. PICK kind \in {"error", "stopasync"} : a = RaiseError(u, kind)
      BY <2>2
    <3>2. Typed(a) /\ a.ret = Error
      BY <2>0, <3>1, RaiseErrorType
    <3>3. t = a
      BY <1>16, <3>2 DEF Typed
    <3> QED
      BY <2>0, <3>1, <3>3, Refused
  <2> QED
    BY <1>16, <2>1, <2>2 DEF Answers
<1>17. CASE /\ injected # NoException
            /\ t = [RaiseValue(s, injected, NoException) EXCEPT !.ret = Gives("propagate", FALSE)]
  <2>1. injected \in Exceptions
    BY <1>0, <1>1, <1>17 DEF Exceptions
  <2>2. Good([RaiseValue(s, injected, NoException) EXCEPT !.ret = Gives("propagate", FALSE)])
    BY <1>0, <2>1, Thrown
  <2> QED
    BY <1>17, <2>2
<1> QED
  BY <1>13, <1>14, <1>15, <1>16, <1>17

(* The same for anext() with a default.                                     *)
LEMMA ResumeDefaultGood ==
  ASSUME NEW s, Open(s), Lost(s), Last(s.stack).k = "dispatch", NEW d \in Defaults,
         NEW o \in Requests \ {"next"}, NEW input \in Nat, o = "throw" => input # NoException,
         o = "close" => s.ctx.raised # NoException, NEW t \in ResumeDefault(s, d, o, input)
  PROVE  Good(t)
<1>1. /\ Base(s) /\ Ready(s) /\ s.stack # <<>> /\ s.next[d] \in Flags /\ s.next \in [Defaults -> Flags]
      /\ Ends(Last(s.stack), "error") /\ "error" \in Kinds /\ o \in Requests
  BY DEF Open, Base, Typed, Ends, Kinds
<1>2. PICK n : n = [s.next[d] EXCEPT !.running = TRUE]
  OBVIOUS
<1>3. n \in Flags
  BY <1>1, <1>2 DEF Flags
<1>4. PICK v : v = [s EXCEPT !.next[d] = n]
  OBVIOUS
<1>5. PICK u : u = Push(v, [k |-> "anext", next |-> d, op |-> o])
  OBVIOUS
<1>6. Open(u) /\ Lost(u) /\ Last(u.stack).k = "anext" /\ u.ctx = s.ctx
  BY <1>1, <1>3, <1>4, <1>5, AnextOpen
<1>7. t = RaiseError(s, "error") \/ t \in DelegateMethod(u, Wrapped[d], o, input)
  <2>1. v = [s EXCEPT !.next[d].running = TRUE]
    BY <1>1, <1>2, <1>4 DEF Base, Typed
  <2> QED
    BY <1>5, <2>1, Zenon DEF ResumeDefault
<1>8. CASE t = RaiseError(s, "error")
  BY <1>1, <1>8, Refused
<1>9. CASE t \in DelegateMethod(u, Wrapped[d], o, input)
  <2>1. Wrapped[d] \in Awaited
    BY SuspendedAssumption DEF Awaited
  <2>2. o = "close" => u.ctx.raised # NoException
    BY <1>6
  <2> QED
    BY <1>6, <1>9, <2>1, <2>2, DelegateMethodGood
<1> QED
  BY <1>7, <1>8, <1>9

(* generator_delegate_resume: a body passes its resumption on.              *)
LEMMA DelegateResumeGood ==
  ASSUME NEW s, Open(s), Last(s.stack).k = "dispatch", NEW x \in Awaited, Last(s.stack).on = x,
         NEW o \in Requests, Last(s.stack).op = o,
         NEW input \in Nat, o = "throw" => input # NoException,
         o = "close" => s.ctx.raised # NoException, NEW t \in DelegateResume(s, x, o, input)
  PROVE  Good(t)
<1>1. x \in Defaults \/ o \notin {"next", "send"} => Lost(s)
  <2> SUFFICES ASSUME x \in Defaults \/ o \notin {"next", "send"}, NEW j \in DOMAIN s.stack,
                      Under(s.stack, j, Len(s.stack) + 1)
               PROVE  ~Keeps(s.stack[j])
    BY DEF Lost
  <2>1. s.stack[j] = Last(s.stack)
    BY CallerOnTop DEF Open, Base, Typed, Callers
  <2> QED
    BY <2>1 DEF Keeps
<1>2. CASE x \in Defaults /\ o = "next"
  BY <1>1, <1>2, StartDefaultGood DEF DelegateResume
<1>3. CASE x \in Defaults /\ o # "next"
  BY <1>1, <1>3, ResumeDefaultGood DEF DelegateResume
<1>4. CASE x \notin Defaults /\ o = "next"
  <2>1. PICK f : f = [k |-> "forward"]
    OBVIOUS
  <2>2. f \in Frame /\ f.k = "forward" /\ f.k \in Helpers \ {"operation"}
    BY <2>1 DEF Frame, Helpers
  <2>3. Above(Last(s.stack), f) /\ \A j \in DOMAIN s.stack : Serves(s.stack[j], f, s.ctx.ambient)
    BY <2>2 DEF Above, Callers, Serves
  <2>4. PICK u : u = Push(s, f)
    OBVIOUS
  <2>5. Open(u) /\ Last(u.stack) = f
    BY <2>2, <2>3, <2>4, PushOpen
  <2>6. t \in Start(u, x)
    BY <1>4, <2>1, <2>4 DEF DelegateResume
  <2> QED
    BY <2>2, <2>5, <2>6, StartGood
<1>5. CASE x \notin Defaults /\ o # "next"
  <2>1. t \in DelegateMethod(s, x, o, input) /\ o \in Requests \ {"next"}
    BY <1>5 DEF DelegateResume
  <2>2. o # "send" => Lost(s)
    BY <1>1, <1>5 DEF Requests
  <2> QED
    BY <2>1, <2>2, DelegateMethodGood
<1> QED
  BY <1>2, <1>3, <1>4, <1>5

-----------------------------------------------------------------------------
(* Results that reach a call *)

(* A result has reached the innermost call.                                 *)
Back(s) ==
  /\ Good(s) /\ s.stack # <<>> /\ s.ret.k \notin {"none", "resumed"}

(* A call that serves another ends.                                         *)
LEMMA PopBack ==
  ASSUME NEW s, Back(s), Last(s.stack).k \in Helpers \ {"operation"}
  PROVE  LET t == Pop(s) IN
         /\ Base(t) /\ Ready(t) /\ t.stack # <<>> /\ Above(Last(t.stack), Last(s.stack))
         /\ t.stack = Front(s.stack) /\ t.ctx = s.ctx /\ t.ret = s.ret /\ t.next = s.next
         /\ Last(s.stack) \in Frame /\ Ends(Last(s.stack), s.ret.k)
         /\ s.ret.k \in {"error", "propagate"} => s.ctx.raised # NoException
<1>1. Base(s) /\ Ready(s) /\ s.stack # <<>>
  BY DEF Back, Good
<1>2. PICK t : t = Pop(s)
  OBVIOUS
<1>3. /\ t.stack = Front(s.stack) /\ t.ctx = s.ctx /\ t.ret = s.ret /\ t.next = s.next
      /\ Last(s.stack) \in Frame
  BY <1>1, <1>2, PopType DEF Base
<1>4. Base(t) /\ Ready(t)
  BY <1>1, <1>2, PopHelper
<1>5. t.stack # <<>> /\ Above(Last(t.stack), Last(s.stack))
  BY <1>1, <1>3, PopPlaced DEF Helpers
<1>6. Ends(Last(s.stack), s.ret.k) /\ (s.ret.k \in {"error", "propagate"} => s.ctx.raised # NoException)
  BY DEF Back, Good
<1> QED
  BY <1>2, <1>3, <1>4, <1>5, <1>6

(* The result of the one is the result of the other.                        *)
LEMMA Passed ==
  ASSUME NEW s, Base(s), Ready(s), s.stack # <<>>, Ends(Last(s.stack), s.ret.k),
         s.ret.k \notin {"none", "resumed", "suspended"},
         s.ret.k \in {"error", "propagate"} => s.ctx.raised # NoException
  PROVE  Good(s)
  BY DEF Good

(* The result of a body reaches the method that resumed it, ...             *)
LEMMA MethodReturnsGood ==
  ASSUME NEW s, Back(s), Last(s.stack).k = "method"
  PROVE  Good(MethodReturns(s))
<1>1. PICK up : up = Pop(s)
  OBVIOUS
<1>2. /\ Base(up) /\ Ready(up) /\ up.stack # <<>> /\ Above(Last(up.stack), Last(s.stack))
      /\ up.ctx = s.ctx /\ up.ret = s.ret /\ Ends(Last(s.stack), s.ret.k)
      /\ s.ret.k \in {"error", "propagate"} => s.ctx.raised # NoException
  BY <1>1, PopBack DEF Helpers
<1>3. Last(up.stack).k \in {"call", "delegate"}
  BY <1>2 DEF Above
<1>4. /\ Ends(Last(up.stack), "error") /\ Ends(Last(up.stack), "value")
      /\ "runtime" \in Kinds /\ "value" \in Values /\ FALSE \in BOOLEAN /\ s.ret.token \in BOOLEAN
  <2>1. s.ret.token \in BOOLEAN
    BY <1>2 DEF Base, Typed
  <2> QED
    BY <1>3, <2>1 DEF Ends, Kinds, Values
<1>5. PICK t : t = MethodReturns(s)
  OBVIOUS
<1>6. \/ t = RaiseError(up, "runtime")
      \/ /\ s.ret.k \in {"yielded", "suspended", "returned"}
         /\ \E token \in BOOLEAN : t = [up EXCEPT !.ret = Gives("value", token)]
      \/ t = [RaiseStopIteration(up, FALSE) EXCEPT !.ret = Error]
      \/ s.ret.k = "error" /\ t = up
  BY <1>1, <1>2, <1>4, <1>5 DEF MethodReturns, Ends
<1>7. CASE t = RaiseError(up, "runtime")
  BY <1>2, <1>4, <1>5, <1>7, Refused
<1>8. CASE /\ s.ret.k \in {"yielded", "suspended", "returned"}
           /\ \E token \in BOOLEAN : t = [up EXCEPT !.ret = Gives("value", token)]
  <2>1. PICK token \in BOOLEAN : t = [up EXCEPT !.ret = Gives("value", token)]
    BY <1>8
  <2>2. Open(up)
    BY <1>2, <1>8 DEF Open
  <2>3. Good([up EXCEPT !.ret = Gives("value", token)])
    BY <1>4, <2>2, Answered
  <2> QED
    BY <1>5, <2>1, <2>3
<1>9. CASE t = [RaiseStopIteration(up, FALSE) EXCEPT !.ret = Error]
  <2>1. t = RaiseError(up, "stop") /\ "stop" \in Kinds
    BY <1>9 DEF RaiseStopIteration, RaiseError, Kinds
  <2> QED
    BY <1>2, <1>4, <1>5, <2>1, Refused
<1>10. CASE s.ret.k = "error" /\ t = up
  BY <1>2, <1>4, <1>5, <1>10, Passed
<1> QED
  BY <1>6, <1>7, <1>8, <1>9, <1>10

(* A call fails with an exception of this kind.                             *)
LEMMA RefusedWith ==
  ASSUME NEW s, Base(s), Ready(s), s.stack # <<>>, NEW kind \in Kinds, NEW token \in BOOLEAN,
         Ends(Last(s.stack), "error")
  PROVE  Good([RaiseNew(s, kind, token) EXCEPT !.ret = Error])
<1>1. PICK u : u = RaiseNew(s, kind, token)
  OBVIOUS
<1>2. Typed(u) /\ Same(s, u) /\ u.ctx.raised \in Exceptions
  <2>1. Typed(s)
    BY DEF Base
  <2> QED
    BY <1>1, <2>1, RaiseNewType
<1>3. PICK t : t = [u EXCEPT !.ret = Gives("error", FALSE)]
  OBVIOUS
<1>4. Typed(t) /\ Same(u, t) /\ t.ctx = u.ctx /\ t.ret.k = "error"
  <2>1. "error" \in Outcomes /\ FALSE \in BOOLEAN
    BY DEF Outcomes
  <2> QED
    BY <1>2, <1>3, <2>1, SetRet
<1>5. Same(s, t) /\ t.ctx.raised # NoException
  BY <1>2, <1>4 DEF Same, Exceptions
<1>6. Good(t)
  BY <1>4, <1>5, Settled
<1> QED
  BY <1>1, <1>3, <1>6 DEF Error

(* ... the operation, which ends with an item or rests after an await, ...  *)
LEMMA OperationReturnsGood ==
  ASSUME NEW s, Back(s), Last(s.stack).k = "operation"
  PROVE  Good(OperationReturns(s))
<1>1. /\ Base(s) /\ Ready(s) /\ s.stack # <<>> /\ Typed(s)
      /\ s.ret.k \in {"yielded", "suspended", "returned", "error"} /\ s.ret.token \in BOOLEAN
      /\ s.ret.k = "error" => s.ctx.raised # NoException
      /\ s.ret.k = "suspended" => ~s.gen[Receiver[Last(s.stack).op]].completed
      /\ s.ctx.raised \in Nat
  BY DEF Back, Good, Base, Typed, Ends
<1>2. PICK a : a = Last(s.stack).op
  OBVIOUS
<1>3. PICK done : done = FinishOperation(Pop(s), a)
  OBVIOUS
<1>4. /\ Base(done) /\ Ready(done) /\ done.stack = Front(s.stack) /\ done.ctx = s.ctx
      /\ done.ret = s.ret /\ Typed(done)
  BY <1>1, <1>2, <1>3, FinishBase DEF Base
<1>5. /\ done.stack # <<>> /\ Ends(Last(done.stack), "error") /\ Ends(Last(done.stack), "value")
      /\ {"runtime", "stop", "stopasync"} \subseteq Kinds /\ "value" \in Values /\ FALSE \in BOOLEAN
  <2>1. Front(s.stack) # <<>> /\ Above(Last(Front(s.stack)), Last(s.stack))
    BY <1>1, PopPlaced
  <2> QED
    BY <1>4, <2>1 DEF Above, Ends, Kinds, Values
<1>6. PICK rested : rested = [Pop(s) EXCEPT !.op[a].running = FALSE]
  OBVIOUS
<1>7. PICK t : t = OperationReturns(s)
  OBVIOUS
<1>8. \/ s.ret.k = "suspended" /\ t = [rested EXCEPT !.ret = Gives("value", s.ret.token)]
      \/ \E kind \in {"runtime", "stop", "stopasync"} : t = RaiseError(done, kind)
      \/ t = [RaiseStopIteration(done, s.ret.token) EXCEPT !.ret = Error]
      \/ s.ret.k = "error" /\ t = RaiseError([done EXCEPT !.ctx.raised = NoException], "stop")
      \/ s.ret.k = "error" /\ t = RaiseValue(New(done, "runtime", FALSE), Fresh(done), s.ctx.raised)
      \/ s.ret.k = "error" /\ t = done
  BY <1>1, <1>2, <1>3, <1>6, <1>7 DEF OperationReturns
<1>9. CASE s.ret.k = "suspended" /\ t = [rested EXCEPT !.ret = Gives("value", s.ret.token)]
  <2>1. /\ Base(rested) /\ Ready(rested) /\ rested.stack = Front(s.stack) /\ rested.ctx = s.ctx
        /\ rested.ret = s.ret
    BY <1>1, <1>2, <1>6, <1>9, RestBase
  <2>2. Open(rested) /\ Ends(Last(rested.stack), "value")
    BY <1>4, <1>5, <1>9, <2>1 DEF Open
  <2>3. Good([rested EXCEPT !.ret = Gives("value", s.ret.token)])
    BY <1>1, <1>5, <2>2, Answered
  <2> QED
    BY <1>7, <1>9, <2>3
<1>10. CASE \E kind \in {"runtime", "stop", "stopasync"} : t = RaiseError(done, kind)
  BY <1>4, <1>5, <1>7, <1>10, Refused
<1>11. CASE t = [RaiseStopIteration(done, s.ret.token) EXCEPT !.ret = Error]
  <2>1. Good([RaiseNew(done, "stop", s.ret.token) EXCEPT !.ret = Error])
    BY <1>1, <1>4, <1>5, RefusedWith
  <2> QED
    BY <1>7, <1>11, <2>1 DEF RaiseStopIteration
<1>12. CASE s.ret.k = "error" /\ t = RaiseError([done EXCEPT !.ctx.raised = NoException], "stop")
  <2>1. PICK u : u = [done EXCEPT !.ctx.raised = NoException]
    OBVIOUS
  <2>2. Typed(u) /\ Same(done, u) /\ u.ret = done.ret
    <3>1. NoException \in Nat
      BY DEF NoException
    <3> QED
      BY <1>4, <2>1, <3>1, SetRaised
  <2>3. /\ u.stack = done.stack /\ u.ctx.handled = done.ctx.handled
        /\ u.ctx.ambient = done.ctx.ambient /\ u.ret.k = "error"
    BY <1>4, <1>12, <2>2 DEF Same
  <2>4. Base(u)
    BY <1>4, <2>2, <2>3, SameIsSame, BaseSame
  <2>5. Ready(u)
    BY <1>4, <2>3, ReadySame
  <2>6. u.stack # <<>> /\ Ends(Last(u.stack), "error")
    BY <1>5, <2>3
  <2> QED
    BY <1>5, <1>7, <1>12, <2>1, <2>4, <2>5, <2>6, Refused
<1>13. CASE /\ s.ret.k = "error"
            /\ t = RaiseValue(New(done, "runtime", FALSE), Fresh(done), s.ctx.raised)
  <2>1. PICK u : u = New(done, "runtime", FALSE)
    OBVIOUS
  <2>2. Typed(u) /\ Same(done, u) /\ u.ret = done.ret
    BY <1>4, <1>5, <2>1, NewType
  <2>3. PICK e \in Exceptions : e = Fresh(done)
    BY FreshType
  <2>4. e \in Nat /\ e # NoException
    BY DEF Exceptions
  <2>5. Typed(t) /\ Same(u, t) /\ t.ret = u.ret /\ t.ctx.raised = e
    <3>1. PICK c \in Nat : c = s.ctx.raised
      BY <1>1
    <3>2. t = RaiseValue(u, e, c)
      BY <1>13, <2>1, <2>3, <3>1
    <3>3. Typed(u) /\ e \in Nat
      BY <2>2, <2>4
    <3> QED
      BY <3>2, <3>3, RaiseValueType
  <2>6. Same(done, t) /\ t.ret.k = "error"
    BY <1>4, <1>13, <2>2, <2>5 DEF Same
  <2>7. Good(t)
    BY <1>4, <1>5, <2>4, <2>5, <2>6, Settled
  <2> QED
    BY <1>7, <2>7
<1>14. CASE s.ret.k = "error" /\ t = done
  BY <1>1, <1>4, <1>5, <1>7, <1>14, Passed
<1> QED
  BY <1>8, <1>9, <1>10, <1>11, <1>12, <1>13, <1>14

(* The code that waits finds the exception that the call was made with.      *)
LEMMA Serving ==
  ASSUME NEW s, Base(s), s.stack # <<>>, Last(s.stack).k \in Helpers,
         NEW t, t.stack = Front(s.stack), NEW j \in DOMAIN t.stack, Under(t.stack, j, Len(t.stack) + 1)
  PROVE  Serves(t.stack[j], Last(s.stack), s.ctx.ambient)
<1>1. s.stack \in Seq(Frame) /\ Marks(s.stack, s.ctx.ambient)
  BY DEF Base, Typed
<1>2. PICK n \in Nat \ {0} : n = Len(s.stack)
  BY <1>1
<1>3. /\ DOMAIN s.stack = 1 .. n /\ DOMAIN t.stack = 1 .. n - 1 /\ Len(t.stack) = n - 1
      /\ Last(s.stack) = s.stack[n] /\ \A i \in 1 .. n - 1 : t.stack[i] = s.stack[i]
  BY <1>1, <1>2, FrontOne
<1>4. Under(s.stack, j, n)
  <2>1. Len(t.stack) + 1 = n /\ n \in 1 .. n
    BY <1>3
  <2> QED
    BY <1>1, <1>2, <2>1, UnderFront
<1>5. j \in DOMAIN s.stack /\ n \in DOMAIN s.stack /\ t.stack[j] = s.stack[j]
  BY <1>3
<1> QED
  BY <1>1, <1>3, <1>4, <1>5 DEF Marks

(* A StopIteration is taken as the value of a delegate.                     *)
LEMMA TakeStopType ==
  ASSUME NEW s, Typed(s), NEW e \in Nat
  PROVE  LET t == TakeStopIteration(s, e) IN
         Typed(t) /\ Same(s, t) /\ t.ret.k = "completed" /\ t.ctx.raised = e
<1>1. PICK u : u = [s EXCEPT !.ctx.raised = e]
  OBVIOUS
<1>2. Typed(u) /\ Same(s, u) /\ u.ctx.raised = e
  BY <1>1, SetRaised
<1>3. PICK t : t = [u EXCEPT !.ret = Gives("completed", FALSE)]
  OBVIOUS
<1>4. Typed(t) /\ Same(u, t) /\ t.ctx = u.ctx /\ t.ret.k = "completed"
  <2>1. "completed" \in Outcomes /\ FALSE \in BOOLEAN
    BY DEF Outcomes
  <2> QED
    BY <1>2, <1>3, <2>1, SetRet
<1>5. t = TakeStopIteration(s, e)
  BY <1>1, <1>3, Zenon DEF TakeStopIteration
<1>6. Same(s, t) /\ t.ctx.raised = e
  BY <1>2, <1>4 DEF Same
<1> QED
  BY <1>4, <1>5, <1>6

(* The first answer of a delegate.                                          *)
LEMMA StartReturnsGood ==
  ASSUME NEW s, Back(s), Last(s.stack).k = "start"
  PROVE  Good(StartReturns(s))
<1>1. PICK up : up = Pop(s)
  OBVIOUS
<1>2. /\ Base(up) /\ Ready(up) /\ up.stack # <<>> /\ Above(Last(up.stack), Last(s.stack))
      /\ up.stack = Front(s.stack) /\ up.ctx = s.ctx /\ up.ret = s.ret
      /\ Last(s.stack) \in Frame /\ Ends(Last(s.stack), s.ret.k)
      /\ s.ret.k \in {"error", "propagate"} => s.ctx.raised # NoException
  BY <1>1, PopBack DEF Helpers
<1>3. Last(up.stack).k \in {"await", "forward", "anext"}
  BY <1>2 DEF Above
<1>4. /\ Ends(Last(up.stack), "error") /\ Ends(Last(up.stack), "pending")
      /\ Ends(Last(up.stack), "completed") /\ {"pending", "completed"} \subseteq Values
      /\ FALSE \in BOOLEAN /\ s.ret.token \in BOOLEAN /\ Typed(up)
  <2>1. s.ret.token \in BOOLEAN
    BY <1>2 DEF Base, Typed
  <2> QED
    BY <1>2, <1>3, <2>1 DEF Ends, Values, Base
<1>5. PICK t : t = StartReturns(s)
  OBVIOUS
<1>6. \/ s.ret.k # "error" /\ \E k \in {"pending", "completed"}, token \in BOOLEAN :
             t = [up EXCEPT !.ret = Gives(k, token)]
      \/ s.ret.k = "error" /\ t = TakeStopIteration(up, Last(s.stack).ambient)
      \/ s.ret.k = "error" /\ t = up
  BY <1>1, <1>2, <1>4, <1>5 DEF StartReturns, Ends
<1>7. CASE s.ret.k # "error" /\ \E k \in {"pending", "completed"}, token \in BOOLEAN :
             t = [up EXCEPT !.ret = Gives(k, token)]
  <2>1. PICK k \in {"pending", "completed"}, token \in BOOLEAN : t = [up EXCEPT !.ret = Gives(k, token)]
    BY <1>7
  <2>2. Open(up)
    BY <1>2, <1>7 DEF Open, Ends
  <2>3. Good([up EXCEPT !.ret = Gives(k, token)])
    BY <1>4, <2>2, Answered
  <2> QED
    BY <1>5, <2>1, <2>3
<1>8. CASE s.ret.k = "error" /\ t = TakeStopIteration(up, Last(s.stack).ambient)
  <2>1. PICK e \in Nat : e = Last(s.stack).ambient
    BY <1>2, FrameType
  <2>2. /\ Typed(t) /\ Same(up, t) /\ t.ret.k = "completed" /\ t.ctx.raised = e
    BY <1>4, <1>8, <2>1, TakeStopType
  <2>3. \A j \in DOMAIN up.stack : Under(up.stack, j, Len(up.stack) + 1) /\ Keeps(up.stack[j]) =>
              t.ctx.raised = up.stack[j].raised
    <3>1. Base(s) /\ s.stack # <<>> /\ Last(s.stack).k \in Helpers
      BY DEF Back, Good, Helpers
    <3> QED
      BY <1>2, <2>1, <2>2, <3>1, Serving DEF Serves
  <2>4. Good(t)
    BY <1>2, <1>4, <2>2, <2>3, Settled
  <2> QED
    BY <1>5, <2>4
<1>9. CASE s.ret.k = "error" /\ t = up
  BY <1>2, <1>4, <1>5, <1>9, Passed
<1> QED
  BY <1>6, <1>7, <1>8, <1>9

(* A call asks its caller to pass the exception on.                         *)
LEMMA Propagated ==
  ASSUME NEW s, Base(s), Ready(s), s.stack # <<>>, s.ctx.raised # NoException,
         Ends(Last(s.stack), "propagate")
  PROVE  Good([s EXCEPT !.ret = Gives("propagate", FALSE)])
<1>1. PICK t : t = [s EXCEPT !.ret = Gives("propagate", FALSE)]
  OBVIOUS
<1>2. Typed(t) /\ Same(s, t) /\ t.ctx = s.ctx /\ t.ret.k = "propagate"
  <2>1. Typed(s) /\ "propagate" \in Outcomes /\ FALSE \in BOOLEAN
    BY DEF Base, Outcomes
  <2> QED
    BY <1>1, <2>1, SetRet
<1>3. Good(t)
  BY <1>2, Settled
<1> QED
  BY <1>1, <1>3

(* Every exception has a kind, a swept one too.                             *)
LEMMA KindOfKind ==
  ASSUME NEW s, Typed(s), NEW e
  PROVE  KindOf(s, e) # "none"
  BY DEF KindOf, Typed, Exception

(* The delegate's method has returned.                                      *)
LEMMA DelegateReturnsGood ==
  ASSUME NEW s, Back(s), Last(s.stack).k = "delegate"
  PROVE  Good(DelegateReturns(s))
<1>1. PICK up : up = Pop(s)
  OBVIOUS
<1>2. /\ Base(up) /\ Ready(up) /\ up.stack # <<>> /\ Above(Last(up.stack), Last(s.stack))
      /\ up.stack = Front(s.stack) /\ up.ctx = s.ctx /\ up.ret = s.ret
      /\ Last(s.stack) \in Frame /\ Ends(Last(s.stack), s.ret.k)
      /\ s.ret.k \in {"error", "propagate"} => s.ctx.raised # NoException
  BY <1>1, PopBack DEF Helpers
<1>3. Last(up.stack).k \in {"dispatch", "anext"} /\ s.ret.k \in {"value", "error"}
  BY <1>2 DEF Above, Ends
<1>4. /\ Ends(Last(up.stack), "error") /\ Ends(Last(up.stack), "pending")
      /\ Ends(Last(up.stack), "completed") /\ Ends(Last(up.stack), "propagate")
      /\ "pending" \in Values /\ s.ret.token \in BOOLEAN
      /\ Typed(up) /\ Typed(s) /\ Base(s) /\ s.stack # <<>>
  <2>1. s.ret.token \in BOOLEAN
    BY <1>2 DEF Base, Typed
  <2> QED
    BY <1>2, <1>3, <2>1 DEF Ends, Values, Base, Back, Good
<1>5. PICK l \in DelegateFrame : l = Last(s.stack)
  BY <1>2, FrameType
<1>6. l.injected \in Nat /\ l.ambient \in Nat /\ (l.op = "close" => l.injected # NoException)
  <2>1. Len(s.stack) \in DOMAIN s.stack /\ Last(s.stack) = s.stack[Len(s.stack)]
    BY <1>4, PopType
  <2> QED
    BY <1>4, <1>5, <2>1 DEF DelegateFrame, Base, Marks
<1>7. s.ret.k = "error" => KindOf(s, s.ctx.raised) # "none"
  BY <1>4, KindOfKind
<1>8. PICK t : t = DelegateReturns(s)
  OBVIOUS
<1>9. \/ s.ret.k = "error" /\ t = up
      \/ /\ l.op = "close"
         /\ t = [RaiseValue(up, l.injected, NoException) EXCEPT !.ret = Gives("propagate", FALSE)]
      \/ s.ret.k = "value" /\ t = [up EXCEPT !.ret = Gives("pending", s.ret.token)]
      \/ /\ s.ret.k = "error"
         /\ t = TakeStopIteration(up, IF l.op = "send" THEN l.ambient ELSE NoException)
      \/ s.ret.k = "error" /\ t = [up EXCEPT !.ret = Gives("propagate", FALSE)]
  BY <1>1, <1>3, <1>5, <1>7, <1>8 DEF DelegateReturns
<1>10. CASE s.ret.k = "error" /\ t = up
  BY <1>2, <1>4, <1>8, <1>10, Passed
<1>11. CASE /\ l.op = "close"
            /\ t = [RaiseValue(up, l.injected, NoException) EXCEPT !.ret = Gives("propagate", FALSE)]
  <2>1. PICK e \in Exceptions : e = l.injected
    BY <1>6, <1>11 DEF Exceptions
  <2>2. Good([RaiseValue(up, e, NoException) EXCEPT !.ret = Gives("propagate", FALSE)])
    BY <1>2, <1>4, Thrown
  <2> QED
    BY <1>8, <1>11, <2>1, <2>2
<1>12. CASE s.ret.k = "value" /\ t = [up EXCEPT !.ret = Gives("pending", s.ret.token)]
  <2>1. Open(up)
    BY <1>2, <1>12 DEF Open
  <2>2. Good([up EXCEPT !.ret = Gives("pending", s.ret.token)])
    BY <1>4, <2>1, Answered
  <2> QED
    BY <1>8, <1>12, <2>2
<1>13. CASE /\ s.ret.k = "error"
            /\ t = TakeStopIteration(up, IF l.op = "send" THEN l.ambient ELSE NoException)
  <2>1. PICK e \in Nat : e = IF l.op = "send" THEN l.ambient ELSE NoException
    BY <1>6 DEF NoException
  <2>2. Typed(t) /\ Same(up, t) /\ t.ret.k = "completed" /\ t.ctx.raised = e
    BY <1>4, <1>13, <2>1, TakeStopType
  <2>3. \A j \in DOMAIN up.stack : Under(up.stack, j, Len(up.stack) + 1) /\ Keeps(up.stack[j]) =>
              t.ctx.raised = up.stack[j].raised
    <3>1. l.k = "delegate" /\ l.k \in Helpers
      BY <1>5 DEF Helpers
    <3>2. \A j \in DOMAIN up.stack : Under(up.stack, j, Len(up.stack) + 1) =>
               Serves(up.stack[j], l, s.ctx.ambient)
      BY <1>2, <1>4, <1>5, <3>1, Serving
    <3> QED
      BY <2>1, <2>2, <3>1, <3>2 DEF Serves
  <2>4. Good(t)
    BY <1>2, <1>4, <2>2, <2>3, Settled
  <2> QED
    BY <1>8, <2>4
<1>14. CASE s.ret.k = "error" /\ t = [up EXCEPT !.ret = Gives("propagate", FALSE)]
  <2>1. Good([up EXCEPT !.ret = Gives("propagate", FALSE)])
    BY <1>2, <1>4, <1>14, Propagated
  <2> QED
    BY <1>8, <1>14, <2>1
<1> QED
  BY <1>9, <1>10, <1>11, <1>12, <1>13, <1>14

(* A failing Next is passed on to the body.                                 *)
LEMMA ForwardReturnsGood ==
  ASSUME NEW s, Back(s), Last(s.stack).k = "forward"
  PROVE  Good(ForwardReturns(s))
<1>1. PICK up : up = Pop(s)
  OBVIOUS
<1>2. /\ Base(up) /\ Ready(up) /\ up.stack # <<>> /\ Above(Last(up.stack), Last(s.stack))
      /\ up.ctx = s.ctx /\ up.ret = s.ret /\ Ends(Last(s.stack), s.ret.k)
      /\ s.ret.k \in {"error", "propagate"} => s.ctx.raised # NoException
  BY <1>1, PopBack DEF Helpers
<1>3. /\ Ends(Last(up.stack), s.ret.k) /\ Ends(Last(up.stack), "propagate")
      /\ s.ret.k \in {"pending", "completed", "error"} /\ Typed(up)
  BY <1>2 DEF Above, Ends, Base
<1>4. CASE s.ret = Error
  <2>1. s.ctx.raised # NoException
    BY <1>2, <1>4 DEF Error, Gives
  <2>2. Good([up EXCEPT !.ret = Gives("propagate", FALSE)])
    BY <1>2, <1>3, <2>1, Propagated
  <2> QED
    BY <1>1, <1>4, <2>2 DEF ForwardReturns
<1>5. CASE s.ret # Error
  <2>1. ForwardReturns(s) = up
    BY <1>1, <1>3, <1>5 DEF ForwardReturns, Typed
  <2>2. Good(up)
    BY <1>2, <1>3, Passed
  <2> QED
    BY <2>1, <2>2
<1> QED
  BY <1>4, <1>5

(* anext() with a default ends, with the default after StopAsyncIteration.  *)
LEMMA DefaultReturnsGood ==
  ASSUME NEW s, Back(s), Last(s.stack).k = "anext"
  PROVE  Good(DefaultReturns(s))
<1>1. PICK up : up = Pop(s)
  OBVIOUS
<1>2. /\ Base(up) /\ Ready(up) /\ up.stack # <<>> /\ Above(Last(up.stack), Last(s.stack))
      /\ up.stack = Front(s.stack) /\ up.ctx = s.ctx /\ up.ret = s.ret
      /\ Last(s.stack) \in Frame /\ Ends(Last(s.stack), s.ret.k)
      /\ s.ret.k \in {"error", "propagate"} => s.ctx.raised # NoException
  BY <1>1, PopBack DEF Helpers
<1>3. /\ Ends(Last(up.stack), s.ret.k) /\ Ends(Last(up.stack), "completed")
      /\ s.ret.k \in {"pending", "completed", "propagate", "error"} /\ Typed(up)
  BY <1>2 DEF Above, Ends, Base
<1>4. PICK d \in Defaults : d = Last(s.stack).next
  BY <1>2, FrameType
<1>5. PICK n : n = [started |-> up.next[d].started, running |-> FALSE,
                    completed |-> s.ret.k # "pending" \/ up.next[d].completed]
  OBVIOUS
<1>6. n \in Flags
  <2>1. up.next[d] \in Flags
    BY <1>3, <1>4 DEF Typed
  <2> QED
    BY <1>5, <2>1 DEF Flags
<1>7. PICK done : done = FinishDefault(up, d, s.ret.k # "pending")
  OBVIOUS
<1>8. done = [up EXCEPT !.next[d] = n]
  BY <1>5, <1>7, Zenon DEF FinishDefault
<1>9. /\ Typed(done) /\ done.ctx = up.ctx /\ done.stack = up.stack /\ done.ret = up.ret
      /\ done.gen = up.gen /\ done.op = up.op
  BY <1>3, <1>6, <1>8 DEF Typed
<1>10. Base(done) /\ Ready(done)
  <2>1. SameRights(up, done)
    BY <1>9 DEF SameRights
  <2> QED
    BY <1>2, <1>9, <2>1, BaseSame DEF Ready
<1>11. CASE DefaultReturns(s) = TakeStopIteration(done, NoException)
  <2>1. NoException \in Nat
    BY DEF NoException
  <2>2. PICK t : t = TakeStopIteration(done, NoException)
    OBVIOUS
  <2>3. Typed(t) /\ Same(done, t) /\ t.ret.k = "completed"
    BY <1>9, <2>1, <2>2, TakeStopType
  <2>4. \A j \in DOMAIN up.stack : Under(up.stack, j, Len(up.stack) + 1) => ~Keeps(up.stack[j])
    <3>1. Base(s) /\ s.stack # <<>> /\ Last(s.stack).k \in Helpers
      BY DEF Back, Good, Helpers
    <3>2. \A j \in DOMAIN up.stack : Under(up.stack, j, Len(up.stack) + 1) =>
               Serves(up.stack[j], Last(s.stack), s.ctx.ambient)
      BY <1>2, <3>1, Serving
    <3> QED
      BY <3>2 DEF Serves
  <2>5. Good(t)
    BY <1>2, <1>3, <1>9, <1>10, <2>3, <2>4, Settled
  <2> QED
    BY <1>11, <2>2, <2>5
<1>12. CASE DefaultReturns(s) = done
  <2>1. Good(done)
    BY <1>2, <1>3, <1>9, <1>10, Passed
  <2> QED
    BY <1>12, <2>1
<1> QED
  BY <1>1, <1>4, <1>7, <1>11, <1>12, Zenon DEF DefaultReturns, TakeStopIteration

-----------------------------------------------------------------------------
(* Results that reach code *)

(* Code runs, or the body that runs has given a result.                     *)
LEMMA InCode ==
  ASSUME NEW t, Base(t), t.stack = <<>> => t.ret = Running,
         t.stack # <<>> => Last(t.stack).k = "resume",
         \/ t.ret = Running
         \/ t.ret.k \in {"yielded", "suspended", "returned"}
         \/ t.ret.k = "error" /\ t.ctx.raised # NoException
  PROVE  Good(t)
<1>1. t.ret = Running => t.ret.k = "none"
  BY DEF Running, Gives
<1>2. Ready(t)
  <2> SUFFICES ASSUME NEW j \in DOMAIN t.stack, Under(t.stack, j, Len(t.stack) + 1) PROVE FALSE
    BY DEF Ready
  <2>1. t.stack \in Seq(Frame) /\ t.stack # <<>>
    BY DEF Base, Typed
  <2> QED
    BY <2>1, CallerOnTop DEF Callers
<1>3. t.stack # <<>> => Ends(Last(t.stack), t.ret.k)
  BY <1>1 DEF Ends
<1>4. /\ t.ret.k # "resumed" /\ (t.ret.k = "none" => t.ret = Running)
      /\ t.ret.k \in {"error", "propagate"} => t.ctx.raised # NoException
      /\ t.ret.k = "suspended" => Last(t.stack).k # "operation"
  BY <1>1 DEF Running, Gives
<1> QED
  BY <1>2, <1>3, <1>4 DEF Good

(* A call that code made ends: under it there is a body, or the program.     *)
LEMMA PopCaller ==
  ASSUME NEW s, Back(s), Last(s.stack).k \in Callers
  PROVE  LET t == Pop(s) IN
         /\ Base(t) /\ t.ctx = s.ctx /\ t.ret = s.ret /\ t.stack = Front(s.stack)
         /\ Last(s.stack) \in Frame
         /\ t.stack = <<>> => Last(s.stack).k = "call"
         /\ t.stack # <<>> => Last(t.stack).k = "resume" /\ Last(t.stack).gen \in Generators
         /\ s.ret.k \in {"error", "propagate"} => s.ctx.raised # NoException
<1>1. /\ Base(s) /\ s.stack # <<>> /\ Typed(s)
      /\ s.ret.k \in {"error", "propagate"} => s.ctx.raised # NoException
  BY DEF Back, Good, Base
<1>2. PICK t : t = Pop(s)
  OBVIOUS
<1>3. /\ Typed(t) /\ t.stack = Front(s.stack) /\ s.stack \in Seq(Frame) /\ Last(s.stack) \in Frame
      /\ t.ctx = s.ctx /\ t.gen = s.gen /\ t.op = s.op /\ t.ret = s.ret
  BY <1>1, <1>2, PopType
<1>4. Placed(t.stack) /\ Owners(t) /\ Marks(t.stack, t.ctx.ambient)
  <2>1. SameRights(s, t)
    BY <1>3 DEF SameRights
  <2>2. Last(s.stack).k # "operation"
    BY DEF Callers
  <2> QED
    BY <1>1, <1>3, <2>1, <2>2, PlacedFront, OwnersFront, MarksFront DEF Base
<1>5. /\ t.stack = <<>> => Last(s.stack).k = "call"
      /\ t.stack # <<>> => Last(t.stack).k = "resume"
  BY <1>1, <1>3, PlacedFront DEF Base, Above
<1>6. t.stack # <<>> => Last(t.stack).gen \in Generators
  <2> SUFFICES ASSUME t.stack # <<>> PROVE Last(t.stack).gen \in Generators
    OBVIOUS
  <2>1. Last(t.stack) \in Frame
    BY <1>3, FrontOne DEF Typed
  <2> QED
    BY <1>5, <2>1, FrameType DEF ResumeFrame
<1> QED
  BY <1>1, <1>2, <1>3, <1>4, <1>5, <1>6 DEF Base

(* What a suspended object is suspended on.                                  *)
LEMMA DelegateBase ==
  ASSUME NEW s, Base(s), NEW g \in Generators, NEW x \in {None} \cup Awaited
  PROVE  LET t == [s EXCEPT !.gen[g].delegate = x] IN
         Base(t) /\ t.ctx = s.ctx /\ t.stack = s.stack /\ t.ret = s.ret
<1>1. PICK n : n = [s.gen[g] EXCEPT !.delegate = x]
  OBVIOUS
<1>2. Typed(s) /\ s.gen \in [Generators -> Object] /\ s.gen[g] \in Object
  BY DEF Base, Typed
<1>3. /\ n \in Object /\ n.running = s.gen[g].running /\ n.completed = s.gen[g].completed
      /\ n.owned = s.gen[g].owned
  BY <1>1, <1>2 DEF Object
<1>4. PICK t : t = [s EXCEPT !.gen[g].delegate = x]
  OBVIOUS
<1>5. t = [s EXCEPT !.gen = [s.gen EXCEPT ![g] = n]]
  BY <1>1, <1>2, <1>4 DEF Typed
<1>6. /\ Typed(t) /\ t.ctx = s.ctx /\ t.stack = s.stack /\ t.ret = s.ret /\ t.op = s.op
      /\ t.gen = [s.gen EXCEPT ![g] = n]
  BY <1>2, <1>3, <1>5 DEF Typed
<1>7. SameRights(s, t)
  BY <1>2, <1>3, <1>6 DEF SameRights
<1> QED
  BY <1>4, <1>6, <1>7, BaseSame

(* A result changes nothing else.                                           *)
LEMMA RetBase ==
  ASSUME NEW s, Base(s), NEW k \in Outcomes, NEW token \in BOOLEAN
  PROVE  LET t == [s EXCEPT !.ret = Gives(k, token)] IN
         Base(t) /\ t.ctx = s.ctx /\ t.stack = s.stack /\ t.ret = Gives(k, token) /\ t.ret.k = k
<1>1. PICK t : t = [s EXCEPT !.ret = Gives(k, token)]
  OBVIOUS
<1>2. Typed(t) /\ Same(s, t) /\ t.ctx = s.ctx /\ t.ret = Gives(k, token) /\ t.ret.k = k
  BY <1>1, SetRet DEF Base
<1>3. Base(t) /\ t.stack = s.stack
  BY <1>2, SameIsSame, BaseSame DEF Same
<1> QED
  BY <1>1, <1>2, <1>3

(* Code runs on.                                                            *)
LEMMA RunsOn ==
  ASSUME NEW s, Base(s), s.stack # <<>> => Last(s.stack).k = "resume"
  PROVE  Good([s EXCEPT !.ret = Running])
<1>1. PICK t : t = [s EXCEPT !.ret = Running]
  OBVIOUS
<1>2. "none" \in Outcomes /\ FALSE \in BOOLEAN
  BY DEF Outcomes
<1>3. Base(t) /\ t.stack = s.stack /\ t.ret = Running
  BY <1>1, <1>2, RetBase DEF Running
<1> QED
  BY <1>1, <1>3, InCode

(* A body gives a result.                                                   *)
LEMMA Suspends ==
  ASSUME NEW s, Base(s), s.stack # <<>>, Last(s.stack).k = "resume",
         NEW k \in {"yielded", "suspended", "returned"}, NEW token \in BOOLEAN
  PROVE  Good([s EXCEPT !.ret = Gives(k, token)])
<1>1. PICK t : t = [s EXCEPT !.ret = Gives(k, token)]
  OBVIOUS
<1>2. k \in Outcomes
  BY DEF Outcomes
<1>3. Base(t) /\ t.stack = s.stack /\ t.ret.k = k
  BY <1>1, <1>2, RetBase
<1> QED
  BY <1>1, <1>3, InCode

(* A call that code made has ended: code runs on.                           *)
LEMMA CallReturnsGood ==
  ASSUME NEW s, Back(s), Last(s.stack).k = "call"
  PROVE  Good([Pop(s) EXCEPT !.ret = Running])
<1>1. PICK u : u = Pop(s)
  OBVIOUS
<1>2. Base(u) /\ (u.stack # <<>> => Last(u.stack).k = "resume")
  BY <1>1, PopCaller DEF Callers
<1> QED
  BY <1>1, <1>2, RunsOn

(* What is awaited is pending, and the body suspends on it, or it has       *)
(* ended.                                                                   *)
LEMMA AwaitReturnsGood ==
  ASSUME NEW s, Back(s), Last(s.stack).k = "await"
  PROVE  Good(AwaitReturns(s))
<1>1. PICK u : u = Pop(s)
  OBVIOUS
<1>2. /\ Base(u) /\ u.stack # <<>> /\ Last(u.stack).k = "resume" /\ Last(u.stack).gen \in Generators
      /\ Last(s.stack) \in Frame
  BY <1>1, PopCaller DEF Callers
<1>3. PICK g \in Generators : g = Last(u.stack).gen
  BY <1>2
<1>4. PICK x \in {None} \cup Awaited : x = Last(s.stack).on
  BY <1>2, FrameType DEF CallFrame
<1>5. PICK k \in {"yielded", "suspended"} :
         k = IF Kind[g] = "generator" THEN "yielded" ELSE "suspended"
  OBVIOUS
<1>6. s.ret.token \in BOOLEAN
  BY DEF Back, Good, Base, Typed
<1>7. CASE s.ret.k = "pending"
  <2>1. PICK v : v = [u EXCEPT !.gen[g].delegate = x]
    OBVIOUS
  <2>2. Base(v) /\ v.stack = u.stack
    BY <1>2, <2>1, DelegateBase
  <2>3. AwaitReturns(s) = [v EXCEPT !.ret = Gives(k, s.ret.token)]
    BY <1>1, <1>3, <1>4, <1>5, <1>7, <2>1, Zenon DEF AwaitReturns
  <2>4. Good([v EXCEPT !.ret = Gives(k, s.ret.token)])
    BY <1>2, <1>6, <2>2, Suspends
  <2> QED
    BY <2>3, <2>4
<1>8. CASE s.ret.k # "pending"
  <2>1. AwaitReturns(s) = [u EXCEPT !.ret = Running]
    BY <1>1, <1>8, Zenon DEF AwaitReturns
  <2>2. Good([u EXCEPT !.ret = Running])
    BY <1>2, RunsOn
  <2> QED
    BY <2>1, <2>2
<1> QED
  BY <1>7, <1>8

(* The delegate is pending, has ended, or leaves an exception to the body.  *)
LEMMA DispatchReturnsGood ==
  ASSUME NEW s, Back(s), Last(s.stack).k = "dispatch"
  PROVE  Good(DispatchReturns(s))
<1>1. PICK u : u = Pop(s)
  OBVIOUS
<1>2. /\ Base(u) /\ u.stack # <<>> /\ Last(u.stack).k = "resume" /\ Last(s.stack) \in Frame
      /\ u.ctx = s.ctx /\ u.ret = s.ret /\ (s.ret.k = "error" => s.ctx.raised # NoException)
  BY <1>1, PopCaller DEF Callers
<1>3. PICK g \in Generators : g = Last(s.stack).gen
  BY <1>2, FrameType DEF DispatchFrame
<1>4. PICK free : free = [u EXCEPT !.gen[g].delegate = None]
  OBVIOUS
<1>5. Base(free) /\ free.stack = u.stack /\ free.ctx = s.ctx /\ free.ret = s.ret
  <2>1. None \in {None} \cup Awaited
    OBVIOUS
  <2> QED
    BY <1>2, <1>4, <2>1, DelegateBase
<1>6. s.ret.token \in BOOLEAN /\ s.ret.k \in {"pending", "completed", "propagate", "error"}
  BY DEF Back, Good, Base, Typed, Ends
<1>7. CASE s.ret.k = "pending"
  <2>1. DispatchReturns(s) = [u EXCEPT !.ret = Gives("yielded", s.ret.token)]
    BY <1>1, <1>7, Zenon DEF DispatchReturns
  <2>2. Good([u EXCEPT !.ret = Gives("yielded", s.ret.token)])
    BY <1>2, <1>6, Suspends
  <2> QED
    BY <2>1, <2>2
<1>8. CASE s.ret.k \in {"completed", "propagate"}
  <2>1. DispatchReturns(s) = [free EXCEPT !.ret = Running]
    BY <1>1, <1>3, <1>4, <1>8 DEF DispatchReturns
  <2>2. Good([free EXCEPT !.ret = Running])
    BY <1>2, <1>5, RunsOn
  <2> QED
    BY <2>1, <2>2
<1>9. CASE s.ret.k = "error"
  <2>1. DispatchReturns(s) = free
    BY <1>1, <1>3, <1>4, <1>9 DEF DispatchReturns
  <2>2. Good(free)
    BY <1>2, <1>5, <1>9, InCode
  <2> QED
    BY <2>1, <2>2
<1> QED
  BY <1>6, <1>7, <1>8, <1>9

-----------------------------------------------------------------------------
(* The end of a resumption *)

(* The body of g has been popped: t keeps what s knew of the others.         *)
LEMMA LeaveRights ==
  ASSUME NEW s, Base(s), s.stack # <<>>, Last(s.stack).k = "resume",
         NEW g, g = Last(s.stack).gen, NEW t, t.op = s.op, t.stack = Front(s.stack),
         \A h \in Generators : /\ t.gen[h].owned = s.gen[h].owned
                               /\ h # g => /\ t.gen[h].completed = s.gen[h].completed
                                           /\ t.gen[h].running = s.gen[h].running
  PROVE  Owners(t)
<1>1. /\ Rights(s) /\ Advancing(s) /\ Bodies(s) /\ s.stack \in Seq(Frame) /\ Placed(s.stack)
      /\ Last(s.stack) \in Frame
  BY FrontOne DEF Base, Owners, Typed
<1>2. PICK n \in Nat \ {0} : n = Len(s.stack)
  BY <1>1
<1>3. /\ DOMAIN s.stack = 1 .. n /\ DOMAIN t.stack = 1 .. n - 1 /\ Last(s.stack) = s.stack[n]
      /\ \A i \in 1 .. n - 1 : t.stack[i] = s.stack[i]
      /\ t.stack \in Seq(Frame) /\ Len(t.stack) = n - 1
  BY <1>1, <1>2, FrontOne
<1>4. g \in Generators
  BY <1>1, FrameType DEF ResumeFrame
<1>5. Rights(t)
  BY <1>1, SuspendedAssumption DEF Rights, Active, Plain
<1>6. ASSUME NEW h \in Generators, NEW i \in 1 .. n
      PROVE  /\ Advances(s.stack, i, h) => i \in 1 .. n - 1
             /\ i \in 1 .. n - 1 => /\ Advances(t.stack, i, h) <=> Advances(s.stack, i, h)
                                    /\ Runs(t.stack, i, h) <=> Runs(s.stack, i, h)
  BY <1>3 DEF Advances, Runs
<1>7. Advancing(t)
  <2>1. ASSUME NEW h \in Generators, NEW i \in DOMAIN t.stack, Advances(t.stack, i, h)
        PROVE  LET c == t.stack[i].op IN
               /\ t.gen[h].owned /\ (t.op[c].running \/ t.op[c].completed)
               /\ \A b \in Operations : Active(t, b) /\ Receiver[b] = h => b = c
               /\ \A j \in DOMAIN t.stack : Advances(t.stack, j, h) => j = i
    <3>1. /\ i \in DOMAIN s.stack /\ Advances(s.stack, i, h) /\ t.stack[i] = s.stack[i]
          /\ \A j \in DOMAIN t.stack : j \in DOMAIN s.stack /\ (Advances(t.stack, j, h) <=> Advances(s.stack, j, h))
      BY <1>3, <1>6, <2>1
    <3> QED
      BY <1>1, <3>1 DEF Advancing, Active
  <2>2. ASSUME NEW h \in Generators, t.gen[h].completed, t.gen[h].owned, h # g
        PROVE  \E i \in DOMAIN t.stack : Advances(t.stack, i, h)
    <3>1. PICK i \in DOMAIN s.stack : Advances(s.stack, i, h)
      BY <1>1, <2>2 DEF Advancing
    <3>2. i \in 1 .. n - 1
      BY <1>3, <1>6, <3>1
    <3> QED
      BY <1>3, <1>6, <3>1, <3>2
  <2>3. ASSUME t.gen[g].owned
        PROVE  \E i \in DOMAIN t.stack : Advances(t.stack, i, g)
    <3>1. g \notin Plain
      BY <1>1, <1>4, <2>3 DEF Rights, Plain
    <3>2. t.stack # <<>> /\ Above(Last(t.stack), Last(s.stack))
      BY <1>1, PlacedFront
    <3>3. Last(t.stack).k = "operation" /\ Receiver[Last(t.stack).op] = g
      BY <3>1, <3>2 DEF Above
    <3>4. n - 1 \in DOMAIN t.stack /\ Last(t.stack) = t.stack[n - 1]
      BY <1>3, <3>2 DEF Last
    <3> QED
      BY <3>3, <3>4 DEF Advances
  <2> QED
    BY <2>1, <2>2, <2>3 DEF Advancing
<1>8. \A i \in 1 .. n - 1 : ~Runs(s.stack, i, g)
  <2>1. Runs(s.stack, n, g)
    BY <1>2, <1>3 DEF Runs
  <2> QED
    BY <1>1, <1>2, <1>3, <1>4, <2>1 DEF Bodies
<1>9. Bodies(t)
  <2>1. ASSUME NEW h \in Generators, NEW i \in DOMAIN t.stack, Runs(t.stack, i, h)
        PROVE  /\ t.gen[h].running /\ ~t.gen[h].completed
               /\ \A j \in DOMAIN t.stack : Runs(t.stack, j, h) => j = i
    <3>1. /\ i \in DOMAIN s.stack /\ Runs(s.stack, i, h)
          /\ \A j \in DOMAIN t.stack : j \in DOMAIN s.stack /\ (Runs(t.stack, j, h) <=> Runs(s.stack, j, h))
      BY <1>3, <1>6, <2>1
    <3>2. h # g
      BY <1>3, <1>8, <3>1
    <3> QED
      BY <1>1, <3>1, <3>2 DEF Bodies
  <2> QED
    BY <2>1 DEF Bodies
<1> QED
  BY <1>5, <1>7, <1>9 DEF Owners

(* The registers of the caller come back.                                   *)
LEMMA RestoreType ==
  ASSUME NEW s, Base(s), s.stack # <<>>, Last(s.stack).k = "resume", NEW l, l = Last(s.stack)
  PROVE  LET t == Restore(s) IN
         /\ Typed(t) /\ t.stack = Front(s.stack) /\ t.gen = s.gen /\ t.op = s.op /\ t.ret = s.ret
         /\ t.ctx.raised = s.ctx.raised /\ t.ctx.handled = l.previousHandled
         /\ t.ctx.ambient = SubSeq(s.ctx.ambient, 1, l.mark)
         /\ l \in ResumeFrame /\ l.mark <= Len(s.ctx.ambient)
<1>1. PICK u : u = Pop(s)
  OBVIOUS
<1>2. /\ Typed(u) /\ u.stack = Front(s.stack) /\ s.stack \in Seq(Frame) /\ l \in Frame
      /\ l = s.stack[Len(s.stack)] /\ Len(s.stack) \in DOMAIN s.stack
      /\ u.ctx = s.ctx /\ u.gen = s.gen /\ u.op = s.op /\ u.ret = s.ret
  BY <1>1, PopType DEF Base
<1>3. l \in ResumeFrame /\ l.mark \in Nat /\ l.previousHandled \in Seq(Exceptions)
  BY <1>2, FrameType DEF ResumeFrame
<1>4. l.mark <= Len(s.ctx.ambient) /\ s.ctx.ambient \in Seq(Nat)
  BY <1>2 DEF Base, Marks, Typed
<1>5. PICK a : a = SubSeq(s.ctx.ambient, 1, l.mark)
  OBVIOUS
<1>6. a \in Seq(Nat)
  <2>1. \A i \in 1 .. l.mark : s.ctx.ambient[i] \in Nat
    BY <1>3, <1>4
  <2>2. l.mark \in Int /\ 1 \in Int
    BY <1>3
  <2> QED
    BY <1>5, <2>1, <2>2, SubSeqProperties
<1>7. PICK t : t = Restore(s)
  OBVIOUS
<1>8. t = [u EXCEPT !.ctx.handled = l.previousHandled, !.ctx.ambient = a]
  <2>1. t = [u EXCEPT !.ctx.handled = l.previousHandled, !.ctx.ambient = SubSeq(u.ctx.ambient, 1, l.mark)]
    BY <1>1, <1>7 DEF Restore
  <2> QED
    BY <1>2, <1>5, <2>1
<1>9. PICK c : c = [u.ctx EXCEPT !.handled = l.previousHandled, !.ambient = a]
  OBVIOUS
<1>10. /\ c \in [raised : Nat, handled : Seq(Exceptions), ambient : Seq(Nat), exceptions : {u.ctx.exceptions}]
       /\ c.raised = u.ctx.raised /\ c.handled = l.previousHandled /\ c.ambient = a
  BY <1>2, <1>3, <1>6, <1>9 DEF Typed
<1>11. t = [u EXCEPT !.ctx = c]
  BY <1>2, <1>8, <1>9 DEF Typed
<1>12. /\ t.ctx = c /\ t.gen = s.gen /\ t.op = s.op /\ t.ret = s.ret /\ t.stack = Front(s.stack)
       /\ Typed(t)
  BY <1>2, <1>10, <1>11 DEF Typed
<1> QED
  BY <1>2, <1>3, <1>4, <1>5, <1>7, <1>10, <1>12

(* An exception gets another as its context and cause, and is pending.       *)
LEMMA ChainType ==
  ASSUME NEW s, Typed(s), NEW e \in Nat, NEW c \in Nat
  PROVE  LET t == RaiseFrom(s, e, c) IN
         Typed(t) /\ Same(s, t) /\ t.ret = s.ret /\ t.ctx.raised = e
<1>0. PICK t : t = RaiseFrom(s, e, c)
  OBVIOUS
<1>1. t = [s EXCEPT !.ctx.exceptions[e].context = c, !.ctx.exceptions[e].cause = c, !.ctx.raised = e]
  BY <1>0 DEF RaiseFrom
<1>2. /\ t.gen = s.gen /\ t.op = s.op /\ t.next = s.next /\ t.stack = s.stack /\ t.calls = s.calls
      /\ t.ret = s.ret
  BY <1>1 DEF Typed
<1>3. /\ t.ctx.handled = s.ctx.handled /\ t.ctx.ambient = s.ctx.ambient /\ t.ctx.raised = e
  BY <1>1 DEF Typed
<1>4. t.ctx.exceptions = [f \in DOMAIN s.ctx.exceptions |->
           IF f = e THEN [s.ctx.exceptions[e] EXCEPT !.context = c, !.cause = c]
           ELSE s.ctx.exceptions[f]]
  BY <1>1 DEF Typed
<1>5. t.ctx.exceptions \in [DOMAIN t.ctx.exceptions -> Exception]
  <2> SUFFICES ASSUME NEW f \in DOMAIN s.ctx.exceptions
               PROVE  t.ctx.exceptions[f] \in Exception
    BY <1>4
  <2>1. s.ctx.exceptions[f] \in Exception
    BY DEF Typed
  <2>2. CASE f = e
    BY <1>4, <2>1, <2>2 DEF Exception
  <2>3. CASE f # e
    BY <1>4, <2>1, <2>3
  <2> QED
    BY <2>2, <2>3
<1>6. t \in [ctx : {t.ctx}, gen : [Generators -> Object], op : [Operations -> Flags],
             next : [Defaults -> Flags], stack : Seq(Frame),
             ret : [k : Outcomes, token : BOOLEAN], calls : Nat]
  BY <1>1 DEF Typed
<1>7. t.ctx \in [raised : Nat, handled : Seq(Exceptions), ambient : Seq(Nat),
                 exceptions : {t.ctx.exceptions}]
  BY <1>1 DEF Typed
<1>8. Typed(t)
  BY <1>5, <1>6, <1>7 DEF Typed
<1> QED
  BY <1>0, <1>2, <1>3, <1>8 DEF Same

(* A GeneratorExit ends at the close that injected it, and a StopIteration  *)
(* is turned into a RuntimeError.                                           *)
LEMMA LeaveType ==
  ASSUME NEW s, Back(s), Last(s.stack).k = "resume", NEW back, back = Restore(s)
  PROVE  LET t == LeaveBody(s) IN
         /\ Typed(t) /\ Same(back, t)
         /\ t.ret.k \in {"yielded", "suspended", "returned", "error"}
         /\ t.ret.k = "error" => t.ctx.raised # NoException
<1>1. /\ Base(s) /\ s.stack # <<>> /\ s.ret.k \in {"yielded", "suspended", "returned", "error"}
      /\ s.ret.k = "error" => s.ctx.raised # NoException
      /\ s.ctx.raised \in Nat
  BY DEF Back, Good, Ends, Base, Typed
<1>2. Typed(back) /\ back.ret = s.ret /\ back.ctx.raised = s.ctx.raised
  BY <1>1, RestoreType
<1>3. PICK t : t = LeaveBody(s)
  OBVIOUS
<1>4. PICK e \in Exceptions : e = Fresh(back)
  BY FreshType
<1>5. PICK c \in Nat : c = s.ctx.raised
  BY <1>1
<1>6. PICK n : n = New(back, "runtime", FALSE)
  OBVIOUS
<1>7. \/ t = [back EXCEPT !.ctx.raised = NoException, !.ret = Gives("returned", FALSE)]
      \/ t = RaiseFrom(n, e, c)
      \/ t = back
  BY <1>3, <1>4, <1>5, <1>6, Zenon DEF LeaveBody
<1>8. CASE t = [back EXCEPT !.ctx.raised = NoException, !.ret = Gives("returned", FALSE)]
  <2>1. NoException \in Nat /\ "returned" \in Outcomes /\ FALSE \in BOOLEAN
    BY DEF NoException, Outcomes
  <2>2. PICK v : v = [back EXCEPT !.ctx.raised = NoException]
    OBVIOUS
  <2>3. Typed(v) /\ Same(back, v)
    BY <1>2, <2>1, <2>2, SetRaised
  <2>4. t = [v EXCEPT !.ret = Gives("returned", FALSE)]
    BY <1>8, <2>2
  <2>5. Typed(t) /\ Same(v, t) /\ t.ret.k = "returned"
    BY <2>1, <2>3, <2>4, SetRet
  <2> QED
    BY <1>3, <2>3, <2>5 DEF Same
<1>9. CASE t = RaiseFrom(n, e, c)
  <2>1. "runtime" \in Kinds /\ FALSE \in BOOLEAN /\ e \in Nat
    BY DEF Kinds, Exceptions
  <2>2. Typed(n) /\ Same(back, n) /\ n.ret = back.ret
    BY <1>2, <1>6, <2>1, NewType
  <2>3. Typed(t) /\ Same(n, t) /\ t.ret = n.ret /\ t.ctx.raised = e
    BY <1>5, <1>9, <2>1, <2>2, ChainType
  <2>4. Same(back, t)
    BY <2>2, <2>3 DEF Same
  <2> QED
    BY <1>1, <1>2, <1>3, <2>2, <2>3, <2>4 DEF Exceptions
<1>10. CASE t = back
  BY <1>1, <1>2, <1>3, <1>10 DEF Same
<1> QED
  BY <1>7, <1>8, <1>9, <1>10

(* The handlers, the ambient exceptions and, unless the body failed, the     *)
(* pending exception are those that the call was made with.                  *)
LEMMA FinishResumeGood ==
  ASSUME NEW s, Back(s), Last(s.stack).k = "resume"
  PROVE  Good(FinishResume(s))
<1>1. PICK l : l = Last(s.stack)
  OBVIOUS
<1>2. PICK back : back = Restore(s)
  OBVIOUS
<1>3. PICK u : u = LeaveBody(s)
  OBVIOUS
<1>4. /\ Base(s) /\ s.stack # <<>> /\ Typed(s) /\ s.stack \in Seq(Frame)
      /\ s.ctx.handled \in Seq(Exceptions) /\ s.ctx.ambient \in Seq(Nat)
  BY DEF Back, Good, Base, Typed
<1>5. /\ Typed(back) /\ back.stack = Front(s.stack) /\ back.gen = s.gen /\ back.op = s.op
      /\ back.ctx.handled = l.previousHandled
      /\ back.ctx.ambient = SubSeq(s.ctx.ambient, 1, l.mark)
      /\ l \in ResumeFrame /\ l.mark <= Len(s.ctx.ambient)
  BY <1>1, <1>2, <1>4, RestoreType
<1>6. /\ Typed(u) /\ Same(back, u) /\ u.ret.k \in {"yielded", "suspended", "returned", "error"}
      /\ u.ret.k = "error" => u.ctx.raised # NoException
  BY <1>2, <1>3, LeaveType
<1>7. /\ u.stack = Front(s.stack) /\ u.gen = s.gen /\ u.op = s.op
      /\ u.ctx.handled = l.previousHandled /\ u.ctx.ambient = SubSeq(s.ctx.ambient, 1, l.mark)
  BY <1>5, <1>6 DEF Same
<1>8. PICK g \in Generators : g = l.gen
  BY <1>5 DEF ResumeFrame
<1>10. PICK object : object =
         [started |-> u.gen[g].started, owned |-> u.gen[g].owned, running |-> FALSE,
          handled |-> s.ctx.handled,
          raised |-> IF u.ret.k \in {"error", "returned"} THEN NoException ELSE u.ctx.raised,
          completed |-> u.ret.k \in {"error", "returned"} \/ u.gen[g].completed,
          delegate |-> IF u.ret.k \in {"error", "returned"} THEN None ELSE u.gen[g].delegate]
  OBVIOUS
<1>11. /\ object \in Object /\ object.owned = s.gen[g].owned
       /\ u.ret.k \notin {"error", "returned"} => object.completed = s.gen[g].completed
  <2>1. u.gen[g] \in Object /\ u.ctx.raised \in Nat /\ NoException \in Nat
    BY <1>6 DEF Typed, NoException
  <2> QED
    BY <1>4, <1>7, <1>10, <2>1 DEF Object
<1>12. PICK e \in Nat : e = IF u.ret.k = "error" THEN u.ctx.raised ELSE l.previousRaised
  BY <1>5, <1>6 DEF Typed, ResumeFrame
<1>13. PICK t : t = FinishResume(s)
  OBVIOUS
<1>14. t = [u EXCEPT !.gen = [u.gen EXCEPT ![g] = object], !.ctx.raised = e]
  BY <1>1, <1>3, <1>8, <1>10, <1>12, <1>13, Zenon DEF FinishResume
<1>15. PICK v : v = [u EXCEPT !.gen = [u.gen EXCEPT ![g] = object]]
  OBVIOUS
<1>16. /\ Typed(v) /\ v.ctx = u.ctx /\ v.op = u.op /\ v.stack = u.stack /\ v.ret = u.ret
       /\ v.gen = [u.gen EXCEPT ![g] = object]
  BY <1>6, <1>11, <1>15 DEF Typed
<1>17. /\ Typed(t) /\ t.op = s.op /\ t.stack = Front(s.stack) /\ t.ret = u.ret /\ t.ctx.raised = e
       /\ t.gen = [s.gen EXCEPT ![g] = object]
       /\ t.ctx.handled = l.previousHandled /\ t.ctx.ambient = SubSeq(s.ctx.ambient, 1, l.mark)
  <2>1. t = [v EXCEPT !.ctx.raised = e]
    BY <1>14, <1>15
  <2>2. Typed(t) /\ Same(v, t) /\ t.ret = v.ret /\ t.ctx.raised = e
    BY <1>12, <1>16, <2>1, SetRaised
  <2> QED
    BY <1>7, <1>16, <2>2 DEF Same
<1>18. t.stack # <<>> /\ Placed(t.stack) /\ Above(Last(t.stack), l)
  BY <1>1, <1>4, <1>17, PopPlaced
<1>19. Owners(t)
  <2>1. ASSUME NEW h \in Generators
        PROVE  /\ t.gen[h].owned = s.gen[h].owned
               /\ h # g => /\ t.gen[h].completed = s.gen[h].completed
                           /\ t.gen[h].running = s.gen[h].running
    <3>1. s.gen \in [Generators -> Object]
      BY <1>4 DEF Typed
    <3> QED
      BY <1>11, <1>17, <3>1
  <2>2. g = Last(s.stack).gen
    BY <1>1, <1>8
  <2>3. Base(s) /\ s.stack # <<>> /\ t.op = s.op /\ t.stack = Front(s.stack)
    BY <1>4, <1>17
  <2> QED
    BY <2>1, <2>2, <2>3, LeaveRights
<1>20. /\ l.mark \in Nat /\ l.previousRaised \in Nat /\ t.ctx.ambient \in Seq(Nat)
       /\ Len(t.ctx.ambient) = l.mark
       /\ \A i \in 1 .. l.mark : t.ctx.ambient[i] = s.ctx.ambient[i]
  <2>1. l.mark \in Nat /\ l.previousRaised \in Nat
    BY <1>5 DEF ResumeFrame
  <2>2. \A i \in 1 .. l.mark : s.ctx.ambient[i] \in Nat
    BY <1>4, <1>5, <2>1
  <2>3. l.mark \in Int /\ 1 \in Int
    BY <2>1
  <2>4. /\ SubSeq(s.ctx.ambient, 1, l.mark) \in Seq(Nat)
        /\ Len(SubSeq(s.ctx.ambient, 1, l.mark)) = IF 1 <= l.mark THEN l.mark - 1 + 1 ELSE 0
        /\ \A i \in 1 .. l.mark - 1 + 1 : SubSeq(s.ctx.ambient, 1, l.mark)[i] = s.ctx.ambient[1 + i - 1]
    BY <2>2, <2>3, SubSeqProperties
  <2> QED
    BY <1>17, <2>1, <2>4
<1>21. PICK n \in Nat \ {0} : n = Len(s.stack)
  BY <1>4
<1>22. /\ DOMAIN s.stack = 1 .. n /\ DOMAIN t.stack = 1 .. n - 1 /\ l = s.stack[n]
       /\ t.stack \in Seq(Frame) /\ Len(t.stack) = n - 1
       /\ \A i \in 1 .. n - 1 : t.stack[i] = s.stack[i]
  BY <1>1, <1>4, <1>17, <1>21, FrontOne
<1>23. Marks(t.stack, t.ctx.ambient)
  <2>1. Marks(t.stack, s.ctx.ambient)
    BY <1>4, <1>17, MarksFront DEF Base
  <2>2. \A k \in DOMAIN t.stack : t.stack[k].k = "resume" => t.stack[k].mark <= l.mark
    <3> SUFFICES ASSUME NEW k \in DOMAIN t.stack, t.stack[k].k = "resume"
                 PROVE  t.stack[k].mark <= l.mark
      OBVIOUS
    <3>1. k \in DOMAIN s.stack /\ n \in DOMAIN s.stack /\ k < n /\ s.stack[k] = t.stack[k]
      BY <1>21, <1>22
    <3> QED
      BY <1>1, <1>4, <1>22, <3>1 DEF Base, Marks
  <2>3. l.mark <= Len(s.ctx.ambient) /\ l.mark <= Len(t.ctx.ambient)
    BY <1>5, <1>20
  <2> QED
    BY <1>4, <1>20, <1>22, <2>1, <2>2, <2>3, MarksAmbient
<1>24. ASSUME NEW j \in DOMAIN t.stack, Under(t.stack, j, Len(t.stack) + 1)
       PROVE  Serves(t.stack[j], l, s.ctx.ambient)
  <2>1. Under(s.stack, j, n)
    BY <1>4, <1>17, <1>21, <1>22, <1>24, UnderFront
  <2>2. j \in DOMAIN s.stack /\ n \in DOMAIN s.stack /\ t.stack[j] = s.stack[j]
    BY <1>21, <1>22
  <2> QED
    BY <1>4, <1>22, <2>1, <2>2 DEF Base, Marks
<1>25. Ready(t)
  <2> SUFFICES ASSUME NEW j \in DOMAIN t.stack, Under(t.stack, j, Len(t.stack) + 1)
               PROVE  /\ t.ctx.handled = t.stack[j].handled /\ t.ctx.ambient = t.stack[j].ambient
                      /\ t.ret.k \notin {"error", "propagate"} /\ Keeps(t.stack[j]) =>
                           t.ctx.raised = t.stack[j].raised
    BY DEF Ready
  <2>1. Serves(t.stack[j], l, s.ctx.ambient)
    BY <1>24
  <2> QED
    BY <1>1, <1>12, <1>17, <2>1 DEF Serves
<1>26. /\ Ends(Last(t.stack), t.ret.k) /\ t.ret.k \notin {"none", "resumed", "propagate"}
       /\ t.ret.k = "error" => t.ctx.raised # NoException
  BY <1>1, <1>6, <1>12, <1>17, <1>18 DEF Above, Ends
<1>27. ASSUME t.ret.k = "suspended", Last(t.stack).k = "operation"
       PROVE  ~t.gen[Receiver[Last(t.stack).op]].completed
  <2>1. Receiver[Last(t.stack).op] = g
    BY <1>8, <1>18, <1>27 DEF Above
  <2>2. ~s.gen[g].completed
    <3>1. Runs(s.stack, n, g)
      BY <1>1, <1>8, <1>21, <1>22 DEF Runs
    <3> QED
      BY <1>4, <1>21, <1>22, <3>1 DEF Base, Owners, Bodies
  <2>3. u.ret.k \notin {"error", "returned"}
    BY <1>17, <1>27
  <2>4. s.gen \in [Generators -> Object]
    BY <1>4 DEF Typed
  <2> QED
    BY <1>11, <1>17, <2>1, <2>2, <2>3, <2>4
<1> QED
  BY <1>13, <1>17, <1>18, <1>19, <1>23, <1>25, <1>26, <1>27 DEF Good, Base

-----------------------------------------------------------------------------
(* Code that runs *)

(* Code calls: it keeps its registers.                                       *)
LEMMA PushCaller ==
  ASSUME NEW s, Base(s), NEW f \in Frame, f.k \in Callers,
         IF s.stack = <<>> THEN f.k = "call" ELSE Last(s.stack).k = "resume",
         f.handled = s.ctx.handled, f.ambient = s.ctx.ambient,
         Keeps(f) => f.raised = s.ctx.raised, s.ret.k \notin {"error", "propagate"}
  PROVE  LET t == Push(s, f) IN
         /\ Open(t) /\ Last(t.stack) = f /\ t.ctx = s.ctx /\ t.gen = s.gen /\ t.op = s.op
         /\ t.next = s.next /\ t.ret = s.ret /\ t.stack = Append(s.stack, f)
<1>0. Typed(s) /\ s.ctx.ambient \in Seq(Nat)
  BY DEF Base, Typed
<1>1. PICK t : t = Push(s, f)
  OBVIOUS
<1>2. /\ Typed(t) /\ t.stack = Append(s.stack, f) /\ s.stack \in Seq(Frame)
      /\ t.ctx = s.ctx /\ t.gen = s.gen /\ t.op = s.op /\ t.next = s.next /\ t.ret = s.ret
      /\ s.ctx.ambient \in Seq(Nat)
  BY <1>0, <1>1, PushType
<1>3. f.k \notin Helpers /\ f.k \notin {"resume", "operation", "delegate", "start", "anext"}
  BY DEF Helpers, Callers
<1>4. t.stack # <<>> /\ Last(t.stack) = f /\ t.stack \in Seq(Frame)
  BY <1>2, AppendOne
<1>5. Placed(t.stack)
  <2>1. s.stack # <<>> => Above(Last(s.stack), f)
    BY <1>3 DEF Above, Callers
  <2>2. Placed(s.stack)
    BY DEF Base
  <2> QED
    BY <1>2, <2>1, <2>2, PlacedAppend
<1>6. Owners(t)
  <2>1. SameRights(s, t) /\ Owners(s)
    BY <1>2 DEF SameRights, Base
  <2> QED
    BY <1>2, <1>3, <2>1, OwnersAppend
<1>7. Marks(t.stack, t.ctx.ambient)
  <2>1. \A j \in DOMAIN s.stack : Serves(s.stack[j], f, s.ctx.ambient)
    BY <1>3 DEF Serves
  <2>2. Marks(s.stack, s.ctx.ambient)
    BY DEF Base
  <2> QED
    BY <1>2, <1>3, <2>1, <2>2, MarksAppend
<1>8. Ready(t)
  <2> SUFFICES ASSUME NEW j \in DOMAIN t.stack, Under(t.stack, j, Len(t.stack) + 1)
               PROVE  t.stack[j] = f
    BY <1>2 DEF Ready
  <2>1. Last(t.stack).k \in Callers \cup {"resume"}
    BY <1>4
  <2> QED
    BY <1>4, <2>1, CallerOnTop
<1> QED
  BY <1>1, <1>2, <1>4, <1>5, <1>6, <1>7, <1>8 DEF Open, Base

(* A body is running.                                                       *)
LEMMA RunType ==
  ASSUME NEW s, Typed(s), NEW g \in Generators
  PROVE  LET t == Run(s, g) IN
         /\ Typed(t) /\ Entered(s, t, g) /\ t.ctx = s.ctx
<1>1. PICK n : n = [s.gen[g] EXCEPT !.running = TRUE, !.started = TRUE]
  OBVIOUS
<1>2. s.gen \in [Generators -> Object] /\ s.gen[g] \in Object
  BY DEF Typed
<1>3. n \in Object /\ n.running /\ n.completed = s.gen[g].completed /\ n.owned = s.gen[g].owned
  BY <1>1, <1>2 DEF Object
<1>4. PICK t : t = Run(s, g)
  OBVIOUS
<1>5. t = [s EXCEPT !.gen = [s.gen EXCEPT ![g] = n]]
  BY <1>1, <1>2, <1>4 DEF Typed, Run
<1>6. /\ Typed(t) /\ t.ctx = s.ctx /\ t.op = s.op /\ t.stack = s.stack /\ t.ret = s.ret
      /\ t.gen = [s.gen EXCEPT ![g] = n]
  BY <1>2, <1>3, <1>5 DEF Typed
<1> QED
  BY <1>2, <1>3, <1>4, <1>6 DEF Entered

(* The body goes on with its own handlers and its own pending exception.     *)
LEMMA ActivateBase ==
  ASSUME NEW s, Good(s), s.ret.k = "resumed", NEW l, l = Last(s.stack)
  PROVE  LET t == Activate(s) IN
         /\ Base(t) /\ t.stack = s.stack /\ s.stack # <<>> /\ l.k = "resume" /\ l \in ResumeFrame
         /\ t.ret = s.ret /\ t.ctx.handled = s.gen[l.gen].handled
         /\ l.op \in {"next", "send"} => t.ctx.raised = s.gen[l.gen].raised
         /\ l.op = "close" => t.ctx.raised # NoException
         /\ l.op = "throw" => l.input # NoException
         /\ s.gen[l.gen] \in Object
<1>1. PICK e : e = Entering(s)
  OBVIOUS
<1>2. /\ Typed(s) /\ Base(e) /\ s.stack # <<>> /\ s.stack \in Seq(Frame)
      /\ l.op \in {"next", "send"} => s.ctx.raised = s.gen[l.gen].raised
      /\ Ends(l, "resumed")
  <2>1. s.stack # <<>>
    BY DEF Good, Running, Gives
  <2> QED
    BY <1>1, <2>1 DEF Good, Typed
<1>3. l \in Frame /\ l = s.stack[Len(s.stack)] /\ Len(s.stack) \in DOMAIN s.stack
  BY <1>2, FrontOne
<1>4. l.k = "resume" /\ l \in ResumeFrame
  BY <1>2, <1>3, FrameType DEF Ends, Callers, Helpers
<1>5. PICK g \in Generators : g = l.gen
  BY <1>4 DEF ResumeFrame
<1>6. Entered(s, e, g)
  BY <1>1, <1>2, <1>5, EnteringType
<1>7. s.gen[g] \in Object /\ s.ctx.handled \in Seq(Exceptions) /\ s.ctx.ambient \in Seq(Nat)
  BY <1>2 DEF Typed
<1>8. PICK around : around = IF s.ctx.handled # <<>> THEN Last(s.ctx.handled) ELSE l.previousRaised
  OBVIOUS
<1>9. around \in Nat
  <2>1. s.ctx.handled # <<>> => Last(s.ctx.handled) \in Nat
    BY <1>7 DEF Last, Exceptions
  <2> QED
    BY <1>4, <1>8, <2>1 DEF ResumeFrame
<1>10. PICK in : in = IF l.op = "close" THEN RaiseNew(s, "exit", FALSE) ELSE s
  OBVIOUS
<1>11. /\ Typed(in) /\ Same(s, in) /\ in.ret = s.ret
       /\ l.op # "close" => in.ctx.raised = s.ctx.raised
       /\ l.op = "close" => in.ctx.raised # NoException
  <2>1. "exit" \in Kinds /\ FALSE \in BOOLEAN
    BY DEF Kinds
  <2>2. CASE l.op = "close"
    BY <1>2, <1>10, <2>1, <2>2, RaiseNewType DEF Exceptions
  <2>3. CASE l.op # "close"
    BY <1>2, <1>10, <2>3 DEF Same
  <2> QED
    BY <2>2, <2>3
<1>12. PICK u : u = Run(in, g)
  OBVIOUS
<1>13. Typed(u) /\ Entered(in, u, g)
  BY <1>11, <1>12, RunType
<1>14. PICK h : h = s.gen[g].handled
  OBVIOUS
<1>15. PICK a : a = IF around = NoException THEN s.ctx.ambient ELSE Append(s.ctx.ambient, around)
  OBVIOUS
<1>16. /\ h \in Seq(Exceptions) /\ a \in Seq(Nat) /\ Len(s.ctx.ambient) \in Nat
       /\ Len(s.ctx.ambient) <= Len(a)
       /\ \A i \in 1 .. Len(s.ctx.ambient) : a[i] = s.ctx.ambient[i]
  BY <1>7, <1>9, <1>14, <1>15 DEF Object
<1>17. PICK t : t = Activate(s)
  OBVIOUS
<1>18. t = [u EXCEPT !.ctx.handled = h, !.ctx.ambient = a]
  <2>1. u.ctx.ambient = s.ctx.ambient
    BY <1>11, <1>13 DEF Same, Entered
  <2>2. t = [u EXCEPT !.ctx.handled = h,
                      !.ctx.ambient = IF around = NoException THEN u.ctx.ambient
                                      ELSE Append(u.ctx.ambient, around)]
    BY <1>5, <1>8, <1>10, <1>12, <1>14, <1>17 DEF Activate
  <2> QED
    BY <1>15, <2>1, <2>2
<1>19. PICK c : c = [u.ctx EXCEPT !.handled = h, !.ambient = a]
  OBVIOUS
<1>20. /\ c \in [raised : Nat, handled : Seq(Exceptions), ambient : Seq(Nat), exceptions : {u.ctx.exceptions}]
       /\ c.raised = u.ctx.raised /\ c.handled = h /\ c.ambient = a /\ c.exceptions = u.ctx.exceptions
  BY <1>13, <1>16, <1>19 DEF Typed
<1>21. t = [u EXCEPT !.ctx = c]
  BY <1>13, <1>18, <1>19 DEF Typed
<1>22. /\ t.ctx = c /\ t.gen = u.gen /\ t.op = u.op /\ t.ret = u.ret /\ t.stack = u.stack
       /\ Typed(t)
  BY <1>13, <1>20, <1>21 DEF Typed
<1>23. t.stack = s.stack /\ t.ret = s.ret /\ t.op = s.op /\ t.ctx.raised = in.ctx.raised
  BY <1>11, <1>13, <1>20, <1>22 DEF Same, Entered
<1>24. SameRights(e, t) /\ e.stack = s.stack /\ e.ctx = s.ctx
  <2>1. in.gen = s.gen
    BY <1>11 DEF Same
  <2>2. e.gen[g].running = TRUE /\ u.gen[g].running = TRUE
    <3>1. e.gen[g] \in Object /\ u.gen[g] \in Object
      BY <1>2, <1>13 DEF Base, Typed
    <3>2. e.gen[g].running \in BOOLEAN /\ u.gen[g].running \in BOOLEAN
      BY <3>1 DEF Object
    <3>3. e.gen[g].running /\ u.gen[g].running
      BY <1>6, <1>13 DEF Entered
    <3> QED
      BY <3>2, <3>3
  <2>3. ASSUME NEW k \in Generators
        PROVE  /\ e.gen[k].owned = t.gen[k].owned
               /\ e.gen[k].completed = t.gen[k].completed
               /\ e.gen[k].running = t.gen[k].running
    <3>1. /\ e.gen[k].owned = s.gen[k].owned /\ e.gen[k].completed = s.gen[k].completed
          /\ k # g => e.gen[k].running = s.gen[k].running
      BY <1>6 DEF Entered
    <3>2. /\ u.gen[k].owned = s.gen[k].owned /\ u.gen[k].completed = s.gen[k].completed
          /\ k # g => u.gen[k].running = s.gen[k].running
      BY <1>13, <2>1 DEF Entered
    <3> QED
      BY <1>22, <2>2, <3>1, <3>2
  <2>4. e.op = t.op /\ e.stack = s.stack /\ e.ctx = s.ctx
    BY <1>6, <1>23 DEF Entered
  <2> QED
    BY <2>3, <2>4 DEF SameRights
<1>25. Owners(t)
  BY <1>2, <1>23, <1>24, OwnersStack DEF Base
<1>26. Placed(t.stack)
  BY <1>2, <1>23, <1>24 DEF Base
<1>27. Marks(s.stack, s.ctx.ambient)
  BY <1>2, <1>24 DEF Base
<1>28. Marks(t.stack, t.ctx.ambient)
  <2>1. \A k \in DOMAIN s.stack : s.stack[k].k = "resume" => s.stack[k].mark <= Len(s.ctx.ambient)
    BY <1>27 DEF Marks
  <2>2. PICK n \in Nat : n = Len(s.ctx.ambient)
    BY <1>16
  <2>5. PICK stk \in Seq(Frame) : stk = s.stack
    BY <1>2
  <2>6. PICK old \in Seq(Nat) : old = s.ctx.ambient
    BY <1>7
  <2>3. /\ n <= Len(old) /\ n <= Len(a) /\ \A i \in 1 .. n : a[i] = old[i]
        /\ \A k \in DOMAIN stk : stk[k].k = "resume" => stk[k].mark <= n
        /\ Marks(stk, old) /\ a \in Seq(Nat)
    BY <1>16, <1>27, <2>1, <2>2, <2>5, <2>6
  <2>7. Marks(stk, a)
    BY <2>3, MarksAmbient
  <2>4. Marks(s.stack, a)
    BY <2>5, <2>7
  <2> QED
    BY <1>20, <1>22, <1>23, <2>4
<1>29. l.op = "throw" => l.input # NoException
  BY <1>3, <1>4, <1>27 DEF Marks
<1>30. Base(t)
  BY <1>22, <1>25, <1>26, <1>28 DEF Base
<1>31. l.op \in {"next", "send"} => t.ctx.raised = s.gen[g].raised
  BY <1>2, <1>5, <1>11, <1>23
<1>32. l.op = "close" => t.ctx.raised # NoException
  BY <1>11, <1>23
<1> QED
  BY <1>2, <1>4, <1>5, <1>7, <1>14, <1>17, <1>20, <1>22, <1>23, <1>29, <1>30, <1>31, <1>32

(* A body runs, or passes the resumption on to its delegate.                *)
LEMMA StartBodyGood ==
  ASSUME NEW s, Good(s), s.ret.k = "resumed", NEW t \in StartBody(s)
  PROVE  Good(t)
<1>1. PICK l : l = Last(s.stack)
  OBVIOUS
<1>2. PICK started : started = Activate(s)
  OBVIOUS
<1>3. /\ Base(started) /\ started.stack = s.stack /\ s.stack # <<>> /\ l.k = "resume" /\ l \in ResumeFrame
      /\ started.ret = s.ret /\ started.ctx.handled = s.gen[l.gen].handled
      /\ l.op \in {"next", "send"} => started.ctx.raised = s.gen[l.gen].raised
      /\ l.op = "close" => started.ctx.raised # NoException
      /\ l.op = "throw" => l.input # NoException
      /\ s.gen[l.gen] \in Object
  BY <1>1, <1>2, ActivateBase
<1>4. PICK object \in Object : object = s.gen[l.gen]
  BY <1>3
<1>5. PICK x \in {None} \cup Awaited : x = object.delegate
  BY DEF Object
<1>6. PICK f : f = [k |-> "dispatch", on |-> x, gen |-> l.gen, op |-> l.op, raised |-> object.raised,
                    handled |-> object.handled, ambient |-> started.ctx.ambient]
  OBVIOUS
<1>7. \/ t = [started EXCEPT !.ret = Running]
      \/ x # None /\ t \in DelegateResume(Push(started, f), x, l.op, l.input)
  BY <1>1, <1>2, <1>4, <1>5, <1>6, Zenon DEF StartBody
<1>8. CASE t = [started EXCEPT !.ret = Running]
  BY <1>1, <1>3, <1>8, RunsOn
<1>9. CASE x # None /\ t \in DelegateResume(Push(started, f), x, l.op, l.input)
  <2>1. x \in Awaited /\ l.op \in Requests /\ l.input \in Nat /\ l.gen \in Generators
    BY <1>3, <1>9 DEF ResumeFrame
  <2>2. started.ctx.ambient \in Seq(Nat)
    BY <1>3 DEF Base, Typed
  <2>3. /\ f.k = "dispatch" /\ f.on = x /\ f.op = l.op /\ f.raised = object.raised
        /\ f.handled = object.handled /\ f.ambient = started.ctx.ambient
    BY <1>6
  <2>4. f \in DispatchFrame
    BY <1>6, <2>1, <2>2 DEF DispatchFrame, Object
  <2>5. f \in Frame /\ f.k \in Callers
    BY <2>3, <2>4 DEF Frame, Callers
  <2>6. Keeps(f) => f.raised = started.ctx.raised
    BY <1>3, <1>4, <2>3 DEF Keeps
  <2>7. /\ started.stack # <<>> /\ Last(started.stack).k = "resume"
        /\ f.handled = started.ctx.handled /\ started.ret.k \notin {"error", "propagate"}
    BY <1>1, <1>3, <1>4, <2>3
  <2>8. PICK u : u = Push(started, f)
    OBVIOUS
  <2>9. Open(u) /\ Last(u.stack) = f /\ u.ctx = started.ctx
    BY <1>3, <2>3, <2>5, <2>6, <2>7, <2>8, PushCaller
  <2>10. PICK o \in Requests : o = l.op
    BY <2>1
  <2>11. PICK input \in Nat : input = l.input
    BY <2>1
  <2>12. /\ Last(u.stack).k = "dispatch" /\ Last(u.stack).on = x /\ Last(u.stack).op = o
         /\ o = "throw" => input # NoException
         /\ o = "close" => u.ctx.raised # NoException
         /\ t \in DelegateResume(u, x, o, input)
    BY <1>3, <1>9, <2>3, <2>8, <2>9, <2>10, <2>11
  <2> QED
    BY <2>1, <2>9, <2>12, DelegateResumeGood
<1> QED
  BY <1>7, <1>8, <1>9

(* Code runs in the program, or in a body.                                   *)
LEMMA CodeOnTop ==
  ASSUME NEW s, Good(s), s.ret = Running
  PROVE  Base(s) /\ (s.stack # <<>> => Last(s.stack).k = "resume")
<1>1. Base(s) /\ s.ret.k = "none"
  BY DEF Good, Running, Gives
<1> SUFFICES ASSUME s.stack # <<>> PROVE Last(s.stack).k = "resume"
  BY <1>1
<1>2. Last(s.stack) \in Frame
  BY <1>1, FrontOne DEF Base, Typed
<1>3. Ends(Last(s.stack), "none")
  BY <1>1 DEF Good
<1> QED
  BY <1>2, <1>3, FrameType DEF Ends, Callers, Helpers

(* Code makes a call of its own.                                            *)
LEMMA CallingOpen ==
  ASSUME NEW s, Good(s), s.ret = Running, NEW k \in {"call", "await"}, NEW x \in Awaited,
         s.stack = <<>> => k = "call"
  PROVE  LET t == Calling(s, k, x) IN
         Open(t) /\ Last(t.stack).k = k /\ Last(t.stack).on = x /\ t.ctx = s.ctx
<1>1. /\ Base(s) /\ s.ret.k = "none" /\ s.ctx.raised \in Nat /\ s.ctx.handled \in Seq(Exceptions)
      /\ s.ctx.ambient \in Seq(Nat)
  BY DEF Good, Base, Typed, Running, Gives
<1>2. s.stack # <<>> => Last(s.stack).k = "resume"
  BY CodeOnTop
<1>3. PICK f : f = [k |-> k, on |-> x, raised |-> s.ctx.raised, handled |-> s.ctx.handled,
                    ambient |-> s.ctx.ambient]
  OBVIOUS
<1>4. /\ f.k = k /\ f.on = x /\ f.raised = s.ctx.raised /\ f.handled = s.ctx.handled
      /\ f.ambient = s.ctx.ambient /\ f \in CallFrame
  BY <1>1, <1>3 DEF CallFrame
<1>5. f \in Frame /\ f.k \in Callers
  BY <1>4 DEF Frame, Callers
<1>6. PICK u : u = Push(s, f)
  OBVIOUS
<1>7. Open(u) /\ Last(u.stack) = f /\ u.ctx = s.ctx
  BY <1>1, <1>2, <1>4, <1>5, <1>6, PushCaller
<1>8. PICK t : t = Calling(s, k, x)
  OBVIOUS
<1>9. t = [u EXCEPT !.calls = u.calls + 1]
  BY <1>3, <1>6, <1>8, Zenon DEF Calling
<1>10. /\ t.ctx = u.ctx /\ t.gen = u.gen /\ t.op = u.op /\ t.stack = u.stack /\ t.ret = u.ret
       /\ Typed(t)
  <2>1. Typed(u)
    BY <1>7 DEF Open, Base
  <2>2. PICK n \in Nat : n = u.calls + 1
    BY <2>1 DEF Typed
  <2>3. t = [u EXCEPT !.calls = n]
    BY <1>9, <2>2
  <2>4. t.ctx = u.ctx /\ t.gen = u.gen /\ t.op = u.op /\ t.stack = u.stack /\ t.ret = u.ret
    BY <2>1, <2>3 DEF Typed
  <2>5. Typed(t)
    BY <2>1, <2>3 DEF Typed
  <2> QED
    BY <2>4, <2>5
<1>11. Base(t)
  BY <1>7, <1>10, BaseSame DEF Open, SameRights
<1>12. Open(t)
  BY <1>7, <1>10, <1>11 DEF Open, Ready
<1> QED
  BY <1>4, <1>7, <1>8, <1>10, <1>12

(* A new exception that is not pending changes nothing.                      *)
LEMMA NewOpen ==
  ASSUME NEW s, Open(s), NEW kind \in Kinds, NEW token \in BOOLEAN
  PROVE  LET t == New(s, kind, token) IN Open(t) /\ t.stack = s.stack
<1>1. PICK t : t = New(s, kind, token)
  OBVIOUS
<1>2. Base(s) /\ Typed(s) /\ Ready(s) /\ s.ret.k \notin {"error", "propagate"} /\ s.stack # <<>>
  BY DEF Open, Base
<1>3. Typed(t) /\ Same(s, t) /\ t.ret = s.ret /\ t.ctx.raised = s.ctx.raised
  BY <1>1, <1>2, NewType
<1>4. /\ SameRights(s, t) /\ t.stack = s.stack /\ t.ctx.ambient = s.ctx.ambient
      /\ t.ctx.handled = s.ctx.handled
  BY <1>3, SameIsSame DEF Same
<1>5. Base(t)
  BY <1>2, <1>3, <1>4, BaseSame
<1>6. Ready(t)
  BY <1>2, <1>3, <1>4, ReadySame
<1> QED
  BY <1>1, <1>2, <1>3, <1>4, <1>5, <1>6 DEF Open

(* A method is called from code.                                            *)
LEMMA CalledGood ==
  ASSUME NEW s, Good(s), s.ret = Running, NEW x \in Plain \cup Operations, NEW o \in Requests,
         NEW again \in BOOLEAN, again => o = "throw" /\ s.ctx.handled # <<>>
  PROVE  Good(Called(s, x, o, again))
<1>1. PICK calling : calling = Calling(s, "call", x)
  OBVIOUS
<1>2. Open(calling) /\ Last(calling.stack).k = "call"
  <2>1. x \in Awaited /\ "call" \in {"call", "await"}
    BY DEF Awaited
  <2> QED
    BY <1>1, <2>1, CallingOpen
<1>3. PICK made : made = IF o = "throw" /\ ~again THEN New(calling, "error", FALSE) ELSE calling
  OBVIOUS
<1>4. Open(made) /\ Last(made.stack).k = "call"
  <2>1. "error" \in Kinds /\ FALSE \in BOOLEAN
    BY DEF Kinds
  <2> QED
    BY <1>2, <1>3, <2>1, NewOpen
<1>5. PICK e : e = IF o # "throw" THEN NoException
                   ELSE IF again THEN Last(s.ctx.handled) ELSE Fresh(calling)
  OBVIOUS
<1>6. e \in Nat /\ (o = "throw" => e # NoException)
  <2>1. s.ctx.handled # <<>> => Last(s.ctx.handled) \in Exceptions
    BY DEF Good, Base, Typed, Last, Running, Gives
  <2>2. Fresh(calling) \in Exceptions
    BY FreshType
  <2> QED
    BY <1>5, <2>1, <2>2 DEF Exceptions, NoException
<1>7. PICK t : t = Called(s, x, o, again)
  OBVIOUS
<1>8. t = IF x \in Generators THEN Method(made, x, o, e) ELSE OperationMethod(made, x, o, e)
  BY <1>1, <1>3, <1>5, <1>7, Zenon DEF Called
<1>9. CASE x \in Generators
  <2>1. x \in Plain
    BY <1>9, SuspendedAssumption DEF Plain
  <2> QED
    BY <1>4, <1>6, <1>7, <1>8, <1>9, <2>1, MethodGood
<1>10. CASE x \notin Generators
  <2>1. x \in Operations
    BY <1>10 DEF Plain
  <2> QED
    BY <1>4, <1>6, <1>7, <1>8, <1>10, <2>1, OperationMethodGood
<1> QED
  BY <1>9, <1>10

(* Code raises, handles, and leaves a handler.                               *)
LEMMA RaiseGood ==
  ASSUME NEW s, Good(s), s.ret = Running
  PROVE  Good(RaiseNew(s, "error", FALSE))
<1>1. PICK t : t = RaiseNew(s, "error", FALSE)
  OBVIOUS
<1>2. /\ Base(s) /\ Typed(s) /\ (s.stack # <<>> => Last(s.stack).k = "resume")
      /\ "error" \in Kinds /\ FALSE \in BOOLEAN
  BY CodeOnTop DEF Base, Kinds
<1>3. Typed(t) /\ Same(s, t) /\ t.ret = s.ret
  BY <1>1, <1>2, RaiseNewType
<1>4. Base(t) /\ t.stack = s.stack
  BY <1>2, <1>3, SameIsSame, BaseSame DEF Same
<1> QED
  BY <1>1, <1>2, <1>3, <1>4, InCode

(* Code changes what is pending and what is handled.                        *)
LEMMA RegistersGood ==
  ASSUME NEW s, Good(s), s.ret = Running, NEW e \in Nat, NEW h \in Seq(Exceptions)
  PROVE  Good([s EXCEPT !.ctx.raised = e, !.ctx.handled = h])
<1>1. PICK t : t = [s EXCEPT !.ctx.raised = e, !.ctx.handled = h]
  OBVIOUS
<1>2. Base(s) /\ Typed(s) /\ (s.stack # <<>> => Last(s.stack).k = "resume")
  BY CodeOnTop DEF Base
<1>3. PICK c : c = [s.ctx EXCEPT !.raised = e, !.handled = h]
  OBVIOUS
<1>4. /\ c \in [raised : Nat, handled : Seq(Exceptions), ambient : Seq(Nat), exceptions : {c.exceptions}]
      /\ c.ambient = s.ctx.ambient /\ c.exceptions = s.ctx.exceptions
  BY <1>2, <1>3 DEF Typed
<1>5. t = [s EXCEPT !.ctx = c]
  BY <1>1, <1>2, <1>3 DEF Typed
<1>6. /\ t.ctx = c /\ t.gen = s.gen /\ t.op = s.op /\ t.ret = s.ret /\ t.stack = s.stack
      /\ Typed(t)
  BY <1>2, <1>4, <1>5 DEF Typed
<1>7. Base(t)
  BY <1>2, <1>4, <1>6, BaseSame DEF SameRights
<1> QED
  BY <1>1, <1>2, <1>6, <1>7, InCode

(* An exception leaves a body.                                              *)
LEMMA FailGood ==
  ASSUME NEW s, Good(s), s.ret = Running, s.stack # <<>>, s.ctx.raised # NoException
  PROVE  Good([s EXCEPT !.ret = Error])
<1>1. PICK t : t = [s EXCEPT !.ret = Error]
  OBVIOUS
<1>2. Base(s) /\ Last(s.stack).k = "resume" /\ "error" \in Outcomes /\ FALSE \in BOOLEAN
  BY CodeOnTop DEF Outcomes
<1>3. Base(t) /\ t.stack = s.stack /\ t.ret.k = "error" /\ t.ctx = s.ctx
  BY <1>1, <1>2, RetBase DEF Error
<1> QED
  BY <1>1, <1>2, <1>3, InCode

-----------------------------------------------------------------------------
(* Steps *)

(* A collection leaves what is held.                                         *)
LEMMA SweptGood ==
  ASSUME NEW s, Good(s), NEW D, D \subseteq DOMAIN s.ctx.exceptions
  PROVE  Good([s EXCEPT !.ctx.exceptions = [e \in D |-> s.ctx.exceptions[e]]])
<1>0. PICK h : h = [e \in D |-> s.ctx.exceptions[e]]
  OBVIOUS
<1>1. PICK t : t = [s EXCEPT !.ctx.exceptions = h]
  OBVIOUS
<1>2. Typed(s)
  BY DEF Good, Base
<1>3. h \in [DOMAIN h -> Exception]
  BY <1>0, <1>2 DEF Typed
<1>4. PICK c : c = [s.ctx EXCEPT !.exceptions = h]
  OBVIOUS
<1>5. /\ c \in [raised : Nat, handled : Seq(Exceptions), ambient : Seq(Nat), exceptions : {c.exceptions}]
      /\ c.exceptions = h /\ c.ambient = s.ctx.ambient /\ c.handled = s.ctx.handled
      /\ c.raised = s.ctx.raised
  BY <1>2, <1>4 DEF Typed
<1>6. t = [s EXCEPT !.ctx = c]
  BY <1>1, <1>2, <1>4 DEF Typed
<1>7. /\ t.ctx = c /\ t.gen = s.gen /\ t.op = s.op /\ t.ret = s.ret /\ t.stack = s.stack
      /\ Typed(t)
  BY <1>2, <1>3, <1>5, <1>6 DEF Typed
<1>8. CASE s.ret.k # "resumed"
  <2>1. Base(s) /\ Ready(s)
    BY <1>8 DEF Good
  <2>2. Base(t)
    BY <1>5, <1>7, <2>1, BaseSame DEF SameRights
  <2>3. Ready(t)
    BY <1>5, <1>7, <2>1 DEF Ready
  <2> QED
    BY <1>0, <1>1, <1>5, <1>7, <1>8, <2>2, <2>3 DEF Good
<1>9. CASE s.ret.k = "resumed"
  <2>1. PICK d : d = Entering(s)
    OBVIOUS
  <2>2. PICK e : e = Entering(t)
    OBVIOUS
  <2>3. Base(d) /\ Last(s.stack).gen \in Generators
    <3>1. Last(s.stack) \in ResumeFrame
      BY <1>9, ActivateBase
    <3> QED
      BY <1>9, <2>1, <3>1 DEF Good, ResumeFrame
  <2>4. Entered(s, d, Last(s.stack).gen) /\ Entered(t, e, Last(s.stack).gen) /\ Typed(e) /\ Typed(d)
    BY <1>2, <1>7, <2>1, <2>2, <2>3, EnteringType
  <2>5. e.ctx.ambient = d.ctx.ambient /\ e.stack = d.stack /\ e.op = d.op
    BY <1>5, <1>7, <2>4 DEF Entered
  <2>6. ASSUME NEW g \in Generators
        PROVE  /\ e.gen[g].owned = d.gen[g].owned /\ e.gen[g].completed = d.gen[g].completed
               /\ e.gen[g].running = d.gen[g].running
    <3>1. e.gen = d.gen
      BY <1>7, <2>1, <2>2 DEF Entering, Typed
    <3> QED
      BY <3>1
  <2>7. Base(e)
    BY <2>3, <2>4, <2>5, <2>6, BaseSame DEF SameRights
  <2> QED
    BY <1>0, <1>1, <1>5, <1>7, <1>9, <2>2, <2>7 DEF Good
<1> QED
  BY <1>8, <1>9

(* A step, with the collection at its end.                                  *)
LEMMA BecomesGood ==
  ASSUME NEW t, Good(t), Becomes(t)
  PROVE  IInv'
<1>1. PICK D : D = IF Collects(t) THEN Marked(t) ELSE DOMAIN t.ctx.exceptions
  OBVIOUS
<1>2. PICK u : u = [t EXCEPT !.ctx.exceptions = [e \in D |-> t.ctx.exceptions[e]]]
  OBVIOUS
<1>3. Typed(t) /\ D \subseteq DOMAIN t.ctx.exceptions
  <2>1. Marked(t) \subseteq DOMAIN t.ctx.exceptions
    BY DEF Marked
  <2> QED
    BY <1>1, <2>1 DEF Good, Base
<1>4. Good(u)
  BY <1>2, <1>3, SweptGood
<1>5. PICK c : c = u.ctx
  OBVIOUS
<1>6. /\ c = [t.ctx EXCEPT !.exceptions = [e \in D |-> t.ctx.exceptions[e]]]
      /\ u = [ctx |-> c, gen |-> t.gen, op |-> t.op, next |-> t.next, stack |-> t.stack,
              ret |-> t.ret, calls |-> t.calls]
  BY <1>2, <1>3, <1>5 DEF Typed
<1>7. ctx' = c
  <2>1. CASE Collects(t)
    BY <1>1, <1>6, <2>1 DEF Becomes
  <2>2. CASE ~Collects(t)
    <3>1. [e \in D |-> t.ctx.exceptions[e]] = t.ctx.exceptions
      BY <1>1, <1>3, <2>2 DEF Typed
    <3>2. c = t.ctx
      BY <1>3, <1>6, <3>1 DEF Typed
    <3> QED
      BY <2>2, <3>2 DEF Becomes
  <2> QED
    BY <2>1, <2>2
<1>8. /\ gen' = t.gen /\ op' = t.op /\ next' = t.next /\ stack' = t.stack /\ ret' = t.ret
      /\ calls' = t.calls
  BY DEF Becomes
<1>9. State' = u
  BY <1>6, <1>7, <1>8 DEF State
<1> QED
  BY <1>4, <1>9 DEF IInv

(* The program starts.                                                      *)
LEMMA InitGood ==
  Init => IInv
<1> SUFFICES ASSUME Init PROVE IInv
  OBVIOUS
<1>1. PICK s : s = State
  OBVIOUS
<1>2. /\ s.ctx = [raised |-> NoException, handled |-> <<>>, ambient |-> <<>>, exceptions |-> [e \in {} |-> None]]
      /\ s.gen = [g \in Generators |-> [started |-> FALSE, running |-> FALSE, completed |-> FALSE, owned |-> FALSE,
                                     delegate |-> None, handled |-> <<>>, raised |-> NoException]]
      /\ s.op = [a \in Operations |-> [started |-> FALSE, running |-> FALSE, completed |-> FALSE]]
      /\ s.next = [d \in Defaults |-> [started |-> FALSE, running |-> FALSE, completed |-> FALSE]]
      /\ s.stack = <<>> /\ s.ret = Running /\ s.calls = 0
      /\ s = [ctx |-> s.ctx, gen |-> s.gen, op |-> s.op, next |-> s.next, stack |-> s.stack,
              ret |-> s.ret, calls |-> s.calls]
  BY <1>1 DEF State, Init
<1>3. Typed(s)
  <2>1. s.gen \in [Generators -> Object] /\ s.op \in [Operations -> Flags] /\ s.next \in [Defaults -> Flags]
    BY <1>2 DEF Object, Flags, NoException
  <2>2. s.stack \in Seq(Frame) /\ s.calls \in Nat /\ s.ret \in [k : Outcomes, token : BOOLEAN]
    BY <1>2 DEF Running, Gives, Outcomes
  <2>3. /\ s.ctx \in [raised : Nat, handled : Seq(Exceptions), ambient : Seq(Nat),
                      exceptions : {s.ctx.exceptions}]
        /\ s.ctx.exceptions \in [DOMAIN s.ctx.exceptions -> Exception]
    BY <1>2 DEF NoException
  <2> QED
    BY <1>2, <2>1, <2>2, <2>3 DEF Typed
<1>4. Owners(s)
  <2>1. \A g \in Generators : ~s.gen[g].owned /\ ~s.gen[g].completed
    BY <1>2
  <2>2. \A a \in Operations : ~Active(s, a)
    BY <1>2 DEF Active
  <2>3. DOMAIN s.stack = {}
    BY <1>2
  <2> QED
    BY <2>1, <2>2, <2>3 DEF Owners, Rights, Advancing, Bodies, Plain
<1>5. Placed(s.stack) /\ Marks(s.stack, s.ctx.ambient)
  <2>1. s.stack = <<>> /\ DOMAIN s.stack = {} /\ Len(s.stack) = 0
    BY <1>2
  <2> QED
    BY <2>1 DEF Placed, Marks
<1>6. Good(s)
  BY <1>2, <1>3, <1>4, <1>5, InCode DEF Base
<1> QED
  BY <1>1, <1>6 DEF IInv

(* A result is there for a call of this kind.                               *)
LEMMA ReturnsStep ==
  ASSUME NEW s, s = State, Good(s), NEW k, Returning(k)
  PROVE  Back(s) /\ Last(s.stack).k = k
<1>1. s.stack = stack /\ s.ret = ret
  BY DEF State
<1>2. ret.k # "none"
  <2>1. Good(s) => (ret.k = "none" => ret = Running)
    BY <1>1 DEF Good
  <2> QED
    BY <2>1 DEF Returning, Code
<1> QED
  BY <1>1, <1>2 DEF Back, Returning

(* What is below the result of code.                                         *)
LEMMA CodeStep ==
  ASSUME NEW s, s = State, Good(s), Code
  PROVE  /\ s.ret = Running /\ s.ctx = ctx /\ s.stack = stack
         /\ s.ctx.raised \in Nat /\ s.ctx.handled \in Seq(Exceptions)
         /\ Body # None => s.stack # <<>> /\ Last(s.stack).k = "resume"
<1>1. s.ret = Running /\ s.ctx = ctx /\ s.stack = stack
  BY DEF State, Code
<1>2. Base(s) /\ (s.stack # <<>> => Last(s.stack).k = "resume")
  BY <1>1, CodeOnTop
<1>3. s.ctx.raised \in Nat /\ s.ctx.handled \in Seq(Exceptions)
  BY <1>2 DEF Base, Typed
<1> QED
  BY <1>1, <1>2, <1>3 DEF Body

(* The steps of code between calls.                                         *)
LEMMA CodeSteps ==
  ASSUME NEW s, s = State, Good(s),
         Raise \/ Handle \/ Leave \/ Yield \/ Return \/ Fail
  PROVE  IInv'
<1>1. /\ Code /\ s.ret = Running /\ s.ctx = ctx /\ s.stack = stack
      /\ s.ctx.raised \in Nat /\ s.ctx.handled \in Seq(Exceptions)
      /\ Body # None => s.stack # <<>> /\ Last(s.stack).k = "resume"
  BY CodeStep DEF Raise, Handle, Leave, Yield, Return, Fail
<1>2. CASE Raise
  <2>1. PICK t : t = RaiseNew(s, "error", FALSE)
    OBVIOUS
  <2>2. Becomes(t)
    BY <1>2, <2>1 DEF Raise
  <2>3. Good(t)
    BY <1>1, <2>1, RaiseGood
  <2> QED
    BY <2>2, <2>3, BecomesGood
<1>3. CASE Handle
  <2>1. PICK h \in Seq(Exceptions) : h = Append(s.ctx.handled, s.ctx.raised)
    <3>1. s.ctx.raised \in Exceptions
      BY <1>1, <1>3 DEF Handle, Exceptions
    <3>2. Append(s.ctx.handled, s.ctx.raised) \in Seq(Exceptions)
      BY <1>1, <3>1
    <3> QED
      BY <3>2
  <2>2. PICK t : t = [s EXCEPT !.ctx.raised = NoException, !.ctx.handled = h]
    OBVIOUS
  <2>3. Becomes(t)
    <3>1. [State EXCEPT !.ctx.raised = NoException, !.ctx.handled = Append(@, ctx.raised)] = t
      BY <1>1, <2>1, <2>2 DEF State
    <3> QED
      BY <1>3, <3>1 DEF Handle
  <2>4. NoException \in Nat
    BY DEF NoException
  <2>5. Good(t)
    BY <1>1, <2>2, <2>4, RegistersGood
  <2> QED
    BY <2>3, <2>5, BecomesGood
<1>4. CASE Leave
  <2>1. PICK raised \in {ctx.raised, Last(ctx.handled)} :
           Becomes([State EXCEPT !.ctx.raised = raised, !.ctx.handled = Front(@)])
    BY <1>4 DEF Leave
  <2>2. s.ctx.handled # <<>>
    BY <1>1, <1>4 DEF Leave
  <2>3. PICK h \in Seq(Exceptions) : h = Front(s.ctx.handled)
    <3>1. /\ Len(s.ctx.handled) \in Nat \ {0}
          /\ \A i \in 1 .. Len(s.ctx.handled) - 1 : s.ctx.handled[i] \in Exceptions
      BY <1>1, <2>2
    <3>2. Front(s.ctx.handled) \in Seq(Exceptions)
      BY <3>1, SubSeqProperties DEF Front
    <3> QED
      BY <3>2
  <2>4. PICK e \in Nat : e = raised
    <3>1. Last(s.ctx.handled) \in Nat
      BY <1>1, <2>2 DEF Last, Exceptions
    <3> QED
      BY <1>1, <2>1, <3>1
  <2>5. PICK t : t = [s EXCEPT !.ctx.raised = e, !.ctx.handled = h]
    OBVIOUS
  <2>6. Becomes(t)
    <3>1. [State EXCEPT !.ctx.raised = raised, !.ctx.handled = Front(@)] = t
      BY <1>1, <2>3, <2>4, <2>5 DEF State
    <3> QED
      BY <2>1, <3>1
  <2>7. Good(t)
    BY <1>1, <2>5, RegistersGood
  <2> QED
    BY <2>6, <2>7, BecomesGood
<1>5. ASSUME NEW k \in {"yielded", "returned"}, Body # None,
             Becomes([State EXCEPT !.ret = Gives(k, FALSE)])
      PROVE  IInv'
  <2>1. PICK t : t = [s EXCEPT !.ret = Gives(k, FALSE)]
    OBVIOUS
  <2>2. Becomes(t)
    BY <1>5, <2>1
  <2>3. Base(s) /\ s.stack # <<>> /\ Last(s.stack).k = "resume" /\ FALSE \in BOOLEAN
        /\ k \in {"yielded", "suspended", "returned"}
    BY <1>1, <1>5, CodeOnTop
  <2>4. Good(t)
    BY <2>1, <2>3, Suspends
  <2> QED
    BY <2>2, <2>4, BecomesGood
<1>6. CASE Yield
  BY <1>5, <1>6 DEF Yield
<1>7. CASE Return
  BY <1>5, <1>7 DEF Return
<1>8. CASE Fail
  <2>1. PICK t : t = [s EXCEPT !.ret = Error]
    OBVIOUS
  <2>2. Becomes(t)
    BY <1>8, <2>1 DEF Fail
  <2>3. s.stack # <<>> /\ s.ctx.raised # NoException
    BY <1>1, <1>8 DEF Fail
  <2>4. Good(t)
    BY <1>1, <2>1, <2>3, FailGood
  <2> QED
    BY <2>2, <2>4, BecomesGood
<1> QED
  BY <1>2, <1>3, <1>4, <1>6, <1>7, <1>8

(* The calls and awaits of code.                                            *)
LEMMA CallSteps ==
  ASSUME NEW s, s = State, Good(s), CallGenerator \/ CallOperation \/ Await
  PROVE  IInv'
<1>1. /\ Code /\ s.ret = Running /\ s.ctx = ctx /\ s.stack = stack
      /\ Body # None => s.stack # <<>> /\ Last(s.stack).k = "resume"
  BY CodeStep DEF CallGenerator, CallOperation, Await, Call, MayCall
<1>2. ASSUME NEW x \in Plain \cup Operations, NEW o \in Requests, Call(x, o)
      PROVE  IInv'
  <2>1. PICK again \in {FALSE} \cup (IF o = "throw" /\ ctx.handled # <<>> THEN {TRUE} ELSE {}) :
           Becomes(Called(State, x, o, again))
    BY <1>2 DEF Call
  <2>2. again \in BOOLEAN /\ (again => o = "throw" /\ s.ctx.handled # <<>>)
    BY <1>1, <2>1
  <2>3. PICK t : t = Called(s, x, o, again)
    OBVIOUS
  <2>4. Becomes(t)
    BY <2>1, <2>3
  <2>5. Good(t)
    BY <1>1, <2>2, <2>3, CalledGood
  <2> QED
    BY <2>4, <2>5, BecomesGood
<1>3. CASE CallGenerator
  BY <1>2, <1>3 DEF CallGenerator, Plain, Requests
<1>4. CASE CallOperation
  BY <1>2, <1>4 DEF CallOperation, Requests
<1>5. CASE Await
  <2>1. PICK x \in Awaitables : \E u \in DelegateStart(Calling(State, "await", x), x) : Becomes(u)
    BY <1>5 DEF Await
  <2>2. PICK calling : calling = Calling(s, "await", x)
    OBVIOUS
  <2>3. PICK t \in DelegateStart(calling, x) : Becomes(t)
    BY <2>1, <2>2
  <2>4. x \in Awaited
    BY <2>1 DEF Awaitables, Awaited, Plain
  <2>5. s.stack # <<>>
    BY <1>1, <1>5 DEF Await
  <2>6. Open(calling) /\ Last(calling.stack).k = "await" /\ Last(calling.stack).on = x
    BY <1>1, <2>2, <2>4, <2>5, CallingOpen
  <2>7. Good(t)
    BY <2>3, <2>4, <2>6, DelegateStartGood
  <2> QED
    BY <2>3, <2>7, BecomesGood
<1> QED
  BY <1>3, <1>4, <1>5

(* Every step keeps the inductive invariant.                                *)
LEMMA NextGood ==
  IInv /\ [Next]_vars => IInv'
<1> SUFFICES ASSUME IInv, [Next]_vars PROVE IInv'
  OBVIOUS
<1>1. PICK s : s = State /\ Good(s)
  BY DEF IInv
<1>2. CASE UNCHANGED vars
  <2>1. State' = s
    BY <1>1, <1>2 DEF vars, State
  <2> QED
    BY <1>1, <2>1 DEF IInv
<1>3. CASE Raise \/ Handle \/ Leave \/ Yield \/ Return \/ Fail
  BY <1>1, <1>3, CodeSteps
<1>4. CASE CallGenerator \/ CallOperation \/ Await
  BY <1>1, <1>4, CallSteps
<1>5. CASE Resume
  <2>1. PICK t \in StartBody(s) : Becomes(t)
    BY <1>1, <1>5 DEF Resume
  <2>2. s.ret.k = "resumed"
    BY <1>1, <1>5 DEF Resume, State
  <2>3. Good(t)
    BY <1>1, <2>1, <2>2, StartBodyGood
  <2> QED
    BY <2>1, <2>3, BecomesGood
<1>6. ASSUME NEW k, Returning(k) PROVE Back(s) /\ Last(s.stack).k = k
  BY <1>1, <1>6, ReturnsStep
<1>7. CASE ResumeReturns
  <2>1. PICK t : t = FinishResume(s)
    OBVIOUS
  <2> QED
    BY <1>1, <1>6, <1>7, <2>1, FinishResumeGood, BecomesGood DEF ResumeReturns
<1>8. CASE MethodEnds
  <2>1. PICK t : t = MethodReturns(s)
    OBVIOUS
  <2> QED
    BY <1>1, <1>6, <1>8, <2>1, MethodReturnsGood, BecomesGood DEF MethodEnds
<1>9. CASE OperationEnds
  <2>1. PICK t : t = OperationReturns(s)
    OBVIOUS
  <2> QED
    BY <1>1, <1>6, <1>9, <2>1, OperationReturnsGood, BecomesGood DEF OperationEnds
<1>10. CASE StartEnds
  <2>1. PICK t : t = StartReturns(s)
    OBVIOUS
  <2> QED
    BY <1>1, <1>6, <1>10, <2>1, StartReturnsGood, BecomesGood DEF StartEnds
<1>11. CASE ForwardEnds
  <2>1. PICK t : t = ForwardReturns(s)
    OBVIOUS
  <2> QED
    BY <1>1, <1>6, <1>11, <2>1, ForwardReturnsGood, BecomesGood DEF ForwardEnds
<1>12. CASE DelegateEnds
  <2>1. PICK t : t = DelegateReturns(s)
    OBVIOUS
  <2> QED
    BY <1>1, <1>6, <1>12, <2>1, DelegateReturnsGood, BecomesGood DEF DelegateEnds
<1>13. CASE DefaultEnds
  <2>1. PICK t : t = DefaultReturns(s)
    OBVIOUS
  <2> QED
    BY <1>1, <1>6, <1>13, <2>1, DefaultReturnsGood, BecomesGood DEF DefaultEnds
<1>14. CASE DispatchEnds
  <2>1. PICK t : t = DispatchReturns(s)
    OBVIOUS
  <2> QED
    BY <1>1, <1>6, <1>14, <2>1, DispatchReturnsGood, BecomesGood DEF DispatchEnds
<1>15. CASE CallEnds
  <2>1. PICK t : t = [Pop(s) EXCEPT !.ret = Running]
    OBVIOUS
  <2> QED
    BY <1>1, <1>6, <1>15, <2>1, CallReturnsGood, BecomesGood DEF CallEnds
<1>16. CASE AwaitEnds
  <2>1. PICK t : t = AwaitReturns(s)
    OBVIOUS
  <2> QED
    BY <1>1, <1>6, <1>16, <2>1, AwaitReturnsGood, BecomesGood DEF AwaitEnds
<1>17. CASE Full
  BY <1>2, <1>17 DEF Full
<1> QED
  BY <1>2, <1>3, <1>4, <1>5, <1>7, <1>8, <1>9, <1>10, <1>11, <1>12, <1>13, <1>14, <1>15, <1>16, <1>17
     DEF Next

-----------------------------------------------------------------------------
(* What is held: the invariant *)

(* What exists, and none.                                                    *)
Exist(s) == DOMAIN s.ctx.exceptions \cup {NoException}

(* The context and the cause of what exists exist.                           *)
Linked(s) ==
  \A e \in DOMAIN s.ctx.exceptions :
     s.ctx.exceptions[e].context \in Exist(s) /\ s.ctx.exceptions[e].cause \in Exist(s)

(* Whatever a collection starts from exists.                                 *)
Alive(s) ==
  /\ Linked(s)
  /\ Registers(s.ctx) \subseteq Exist(s)
  /\ \A g \in Generators : ToSet(s.gen[g].handled) \cup {s.gen[g].raised} \subseteq Exist(s)
  /\ \A i \in DOMAIN s.stack : Held(s.stack[i]) \subseteq Exist(s)

(* Code deals with one exception at most.                                    *)
Single(h, r) == h = <<>> \/ (Len(h) = 1 /\ r = NoException)

(* What resume_generator keeps in Rust locals is ambient in the code above.  *)
Saved(f) == {f.previousRaised} \cup ToSet(f.previousHandled)
Sheltered(stk) ==
  \A i \in 1 .. Len(stk) - 1 : stk[i].k = "resume" =>
     Saved(stk[i]) \subseteq ToSet(stk[i + 1].ambient) \cup {NoException}

(* r is what caller c had pending or, if a body forwards, nothing.           *)
Clean(c, r) == r \in {NoException, c.raised} /\ (c.k = "await" => r = c.raised)

(* What call f keeps in its locals to serve c.                               *)
Bears(c, f) ==
  /\ f.k \in {"start", "forward", "anext"} => c.k # "call"
  /\ f.k = "start" => Clean(c, f.ambient)
  /\ f.k = "resume" => Clean(c, f.previousRaised)
  /\ f.k = "delegate" => c.k = "dispatch" /\ (f.op = "send" => Clean(c, f.ambient))
  /\ f.k = "operation" /\ c.k = "await" /\ Protocol[f.op] = "close" => c.raised = NoException

(* Code resumes others when it deals with one exception at most, and only    *)
(* one that forwards has a delegate.                                         *)
Caller(s, j) ==
  LET c == s.stack[j] IN
  /\ Single(c.handled, c.raised)
  /\ c.k = "dispatch" => j > 1 /\ s.stack[j - 1].gen = c.gen /\ s.gen[c.gen].raised = c.raised
  /\ c.k # "dispatch" /\ j > 1 => s.gen[s.stack[j - 1].gen].delegate = None
Callings(s) == \A j \in DOMAIN s.stack : s.stack[j].k \in Callers => Caller(s, j)
Bearing(stk) == \A j, k \in DOMAIN stk : Under(stk, j, k) => Bears(stk[j], stk[k])
Waiting(s) ==
  \A g \in Generators : s.gen[g].delegate # None /\ ~s.gen[g].running =>
     Single(s.gen[g].handled, s.gen[g].raised)

(* What holds between any two functions of the runtime.                      *)
Live(s) == Alive(s) /\ Sheltered(s.stack) /\ Callings(s) /\ Bearing(s.stack) /\ Waiting(s)

(* What is pending is the caller's.                                          *)
Clear(s) ==
  s.ret.k \notin {"error", "propagate"} =>
    \A j \in DOMAIN s.stack : Under(s.stack, j, Len(s.stack) + 1) =>
      IF s.ret.k = "completed" THEN s.ctx.raised \in {NoException, s.stack[j].raised}
      ELSE Clean(s.stack[j], s.ctx.raised)

(* A StopIteration holds what was pending before it.                         *)
Chain(s) ==
  s.stack # <<>> /\ Last(s.stack).k = "start" /\ s.ret.k = "error" /\ KindOf(s, s.ctx.raised) = "stop" =>
    \A j \in DOMAIN s.stack : Under(s.stack, j, Len(s.stack)) /\ s.stack[j].k = "await" =>
      Last(s.stack).ambient \in {NoException, s.ctx.raised, s.ctx.exceptions[s.ctx.raised].context}

(* The code on top has in its ambient exceptions what its resumption keeps.  *)
Kept(s) ==
  s.stack # <<>> /\ Last(s.stack).k = "resume" =>
    /\ Saved(Last(s.stack)) \subseteq ToSet(s.ctx.ambient) \cup {NoException}
    /\ s.gen[Last(s.stack).gen].delegate # None =>
         Single(s.ctx.handled, s.ctx.raised) /\ s.ret.k \in {"yielded", "suspended"}

(* Nor is anything lost before the body runs.                                *)
Window(s) ==
  LET l == Last(s.stack) IN
  /\ Single(l.previousHandled, l.previousRaised) /\ s.ctx.handled = l.previousHandled
  /\ l.previousRaised \in Exist(s) /\ ~s.gen[l.gen].running

(* The invariant of what is held.                                            *)
Lively(s) == Live(s) /\ IF s.ret.k = "resumed" THEN Window(s) ELSE Clear(s) /\ Chain(s) /\ Kept(s)

(* The members of sequences.                                                 *)
LEMMA Members ==
  ASSUME NEW q \in Seq(Nat)
  PROVE  /\ q # <<>> => Last(q) \in ToSet(q) /\ Front(q) \in Seq(Nat) /\ ToSet(Front(q)) \subseteq ToSet(q)
         /\ \A e \in Nat : ToSet(Append(q, e)) = ToSet(q) \cup {e}
         /\ \A n \in Nat : n <= Len(q) => ToSet(SubSeq(q, 1, n)) \subseteq ToSet(q)
         /\ ToSet(q) \subseteq Nat
<1>1. ASSUME q # <<>>
      PROVE  Last(q) \in ToSet(q) /\ Front(q) \in Seq(Nat) /\ ToSet(Front(q)) \subseteq ToSet(q)
  <2>1. Len(q) \in DOMAIN q /\ Last(q) = q[Len(q)]
    BY <1>1 DEF Last
  <2>2. Front(q) = [i \in 1 .. Len(q) - 1 |-> q[i]]
    BY <1>1 DEF Front
  <2> QED
    BY <1>1, <2>1, <2>2 DEF ToSet
<1>2. ASSUME NEW e \in Nat
      PROVE  ToSet(Append(q, e)) = ToSet(q) \cup {e}
  <2>1. PICK r : r = Append(q, e)
    OBVIOUS
  <2>2. DOMAIN r = DOMAIN q \cup {Len(q) + 1} /\ r[Len(q) + 1] = e /\ \A i \in DOMAIN q : r[i] = q[i]
    BY <2>1
  <2> QED
    BY <2>1, <2>2 DEF ToSet
<1>3. ASSUME NEW n \in Nat, n <= Len(q)
      PROVE  ToSet(SubSeq(q, 1, n)) \subseteq ToSet(q)
  BY <1>3 DEF ToSet
<1>4. ToSet(q) \subseteq Nat
  BY DEF ToSet
<1> QED
  BY <1>1, <1>2, <1>3, <1>4

(* The same of the registers.                                                *)
LEMMA TypedRegisters ==
  ASSUME NEW s, Typed(s)
  PROVE  /\ s.ctx.raised \in Nat /\ s.ctx.handled \in Seq(Nat) /\ s.ctx.ambient \in Seq(Nat)
         /\ s.ctx.handled \in Seq(Exceptions) /\ s.stack \in Seq(Frame) /\ s.gen \in [Generators -> Object]
         /\ \A g \in Generators : s.gen[g] \in Object /\ s.gen[g].handled \in Seq(Nat)
BY DEF Typed, Exceptions, Object

(* Live is about the registers, the heap, what the objects hold, and the     *)
(* calls.                                                                    *)
LEMMA LiveSame ==
  ASSUME NEW s, NEW t, Live(s), t.gen = s.gen, t.stack = s.stack, Linked(t),
         Exist(s) \subseteq Exist(t), Registers(t.ctx) \subseteq Exist(t)
  PROVE  Live(t)
<1>1. Alive(t)
  BY DEF Live, Alive
<1>2. Sheltered(t.stack) /\ Bearing(t.stack)
  BY DEF Live
<1>3. Callings(t)
  BY DEF Live, Callings, Caller
<1>4. Waiting(t)
  BY DEF Live, Waiting
<1> QED
  BY <1>1, <1>2, <1>3, <1>4 DEF Live

(* What becomes the context of an exception exists.                          *)
LEMMA ImplicitExists ==
  ASSUME NEW s, Typed(s), Live(s), NEW e
  PROVE  ImplicitContext(s.ctx, e) \in Exist(s)
<1>1. Registers(s.ctx) \subseteq Exist(s)
  BY DEF Live, Alive
<1>2. s.ctx.handled # <<>> => Last(s.ctx.handled) \in Exist(s)
  BY <1>1, TypedRegisters, Members DEF Registers
<1>3. s.ctx.ambient # <<>> => Last(s.ctx.ambient) \in Exist(s)
  BY <1>1, TypedRegisters, Members DEF Registers
<1>4. s.ctx.raised \in Exist(s) /\ NoException \in Exist(s)
  BY <1>1 DEF Registers, Exist
<1> QED
  BY <1>2, <1>3, <1>4 DEF ImplicitContext

(* Raising what exists: everything held goes on existing.                    *)
LEMMA RaiseValueLive ==
  ASSUME NEW s, Typed(s), Live(s), NEW e \in Exist(s), NEW cause \in Exist(s), e \in Nat, cause \in Nat
  PROVE  LET t == RaiseValue(s, e, cause) IN
         /\ Live(t) /\ Exist(t) = Exist(s) /\ t.ctx.raised = e
         /\ KindOf(t, e) = KindOf(s, e)
         /\ e \in DOMAIN s.ctx.exceptions => t.ctx.exceptions[e].context \in
              {s.ctx.exceptions[e].context, ImplicitContext(s.ctx, e)}
         /\ e \in DOMAIN s.ctx.exceptions /\ s.ctx.exceptions[e].context = NoException =>
              t.ctx.exceptions[e].context = ImplicitContext(s.ctx, e)
<1>1. PICK i : i = ImplicitContext(s.ctx, e)
  OBVIOUS
<1>2. PICK x : x = IF s.ctx.exceptions[e].context = NoException THEN i ELSE s.ctx.exceptions[e].context
  OBVIOUS
<1>3. PICK t : t = RaiseValue(s, e, cause)
  OBVIOUS
<1>4. t = [s EXCEPT !.ctx.exceptions[e].context = x, !.ctx.exceptions[e].cause = cause,
                    !.ctx.raised = e]
  BY <1>1, <1>2, <1>3 DEF RaiseValue
<1>5. /\ Typed(t) /\ Same(s, t) /\ t.ret = s.ret /\ t.ctx.raised = e
      /\ DOMAIN t.ctx.exceptions = DOMAIN s.ctx.exceptions
  BY <1>3, RaiseValueType
<1>6. t.ctx.exceptions = [f \in DOMAIN s.ctx.exceptions |->
           IF f = e THEN [s.ctx.exceptions[e] EXCEPT !.context = x, !.cause = cause]
           ELSE s.ctx.exceptions[f]]
  BY <1>4 DEF Typed
<1>7. Exist(t) = Exist(s)
  BY <1>5 DEF Exist
<1>8. \A f \in DOMAIN s.ctx.exceptions : s.ctx.exceptions[f] \in Exception
  BY DEF Typed
<1>9. e \in DOMAIN s.ctx.exceptions =>
        /\ t.ctx.exceptions[e].context = x /\ t.ctx.exceptions[e].cause = cause
        /\ t.ctx.exceptions[e].kind = s.ctx.exceptions[e].kind
  BY <1>6, <1>8 DEF Exception
<1>10. Linked(s) /\ i \in Exist(s)
  BY <1>1, ImplicitExists DEF Live, Alive
<1>11. Linked(t)
  <2> SUFFICES ASSUME NEW f \in DOMAIN t.ctx.exceptions
               PROVE  t.ctx.exceptions[f].context \in Exist(s) /\ t.ctx.exceptions[f].cause \in Exist(s)
    BY <1>7 DEF Linked
  <2>1. f \in DOMAIN s.ctx.exceptions
    BY <1>5
  <2>2. CASE f = e
    BY <1>2, <1>9, <1>10, <2>1, <2>2 DEF Linked
  <2>3. CASE f # e
    BY <1>6, <1>10, <2>1, <2>3 DEF Linked
  <2> QED
    BY <2>2, <2>3
<1>12. Registers(t.ctx) \subseteq Exist(t)
  BY <1>5, <1>7 DEF Live, Alive, Registers, Same
<1>13. Live(t)
  BY <1>5, <1>7, <1>11, <1>12, LiveSame DEF Same
<1>14. KindOf(t, e) = KindOf(s, e)
  BY <1>5, <1>9 DEF KindOf
<1> QED
  BY <1>1, <1>2, <1>3, <1>5, <1>7, <1>9, <1>13, <1>14

(* So does everything when an exception is made.                             *)
LEMMA NewLive ==
  ASSUME NEW s, Typed(s), Live(s), NEW kind \in Kinds, NEW token \in BOOLEAN
  PROVE  LET t == New(s, kind, token) IN
         /\ Live(t) /\ Exist(s) \subseteq Exist(t) /\ Fresh(s) \in DOMAIN t.ctx.exceptions
         /\ KindOf(t, Fresh(s)) = kind /\ t.ctx.exceptions[Fresh(s)].context = NoException
<1>1. PICK e : e = Fresh(s)
  OBVIOUS
<1>2. PICK h : h = [x \in DOMAIN s.ctx.exceptions \cup {e} |->
            IF x = e THEN [kind |-> kind, context |-> NoException, cause |-> NoException, token |-> token]
            ELSE s.ctx.exceptions[x]]
  OBVIOUS
<1>3. PICK t : t = New(s, kind, token)
  OBVIOUS
<1>4. t = [s EXCEPT !.ctx.exceptions = h]
  BY <1>1, <1>2, <1>3 DEF New, Typed
<1>5. t.ctx.exceptions = h
  BY <1>4 DEF Typed
<1>6. /\ Typed(t) /\ Same(s, t) /\ t.ctx.raised = s.ctx.raised
      /\ DOMAIN t.ctx.exceptions = DOMAIN s.ctx.exceptions \cup {e}
  BY <1>1, <1>3, NewType
<1>7. Exist(s) \subseteq Exist(t) /\ NoException \in Exist(t) /\ e \in DOMAIN t.ctx.exceptions
  BY <1>6 DEF Exist
<1>8. h[e] = [kind |-> kind, context |-> NoException, cause |-> NoException, token |-> token]
  BY <1>2
<1>9. h[e].kind = kind /\ h[e].context = NoException /\ h[e].cause = NoException
  BY <1>8
<1>10. Linked(t)
  <2> SUFFICES ASSUME NEW f \in DOMAIN t.ctx.exceptions
               PROVE  h[f].context \in Exist(t) /\ h[f].cause \in Exist(t)
    BY <1>5 DEF Linked
  <2>1. CASE f = e
    BY <1>7, <1>9, <2>1
  <2>2. CASE f # e
    <3>1. f \in DOMAIN s.ctx.exceptions /\ h[f] = s.ctx.exceptions[f]
      BY <1>2, <1>6, <2>2
    <3> QED
      BY <1>7, <3>1 DEF Live, Alive, Linked
  <2> QED
    BY <2>1, <2>2
<1>11. Registers(t.ctx) \subseteq Exist(t)
  BY <1>6, <1>7 DEF Live, Alive, Registers, Same
<1>12. Live(t)
  BY <1>6, <1>7, <1>10, <1>11, LiveSame DEF Same
<1> QED
  BY <1>1, <1>3, <1>5, <1>7, <1>9, <1>12 DEF KindOf

(* A new exception that is raised is of its kind, and holds what was pending *)
(* when nothing was handled.                                                 *)
LEMMA RaiseNewLive ==
  ASSUME NEW s, Typed(s), Live(s), NEW kind \in Kinds, NEW token \in BOOLEAN
  PROVE  LET t == RaiseNew(s, kind, token) IN
         /\ Live(t) /\ KindOf(t, t.ctx.raised) = kind /\ Exist(s) \subseteq Exist(t)
         /\ t.ctx.raised \in DOMAIN t.ctx.exceptions
         /\ s.ctx.handled = <<>> =>
              s.ctx.raised \in {NoException, t.ctx.raised, t.ctx.exceptions[t.ctx.raised].context}
<1>1. PICK u : u = New(s, kind, token)
  OBVIOUS
<1>2. PICK e : e = Fresh(s)
  OBVIOUS
<1>3. PICK t : t = RaiseValue(u, e, NoException)
  OBVIOUS
<1>4. /\ Typed(u) /\ Same(s, u) /\ u.ctx.raised = s.ctx.raised
  BY <1>1, NewType
<1>5. /\ Live(u) /\ Exist(s) \subseteq Exist(u) /\ e \in DOMAIN u.ctx.exceptions
      /\ KindOf(u, e) = kind /\ u.ctx.exceptions[e].context = NoException
  BY <1>1, <1>2, NewLive
<1>6. e \in Exist(u) /\ NoException \in Exist(u) /\ e \in Nat /\ NoException \in Nat
  BY <1>2, <1>5, FreshType DEF Exist, Exceptions, NoException
<1>7. /\ Live(t) /\ Exist(t) = Exist(u) /\ t.ctx.raised = e /\ KindOf(t, e) = KindOf(u, e)
      /\ t.ctx.exceptions[e].context = ImplicitContext(u.ctx, e)
  BY <1>3, <1>4, <1>5, <1>6, RaiseValueLive
<1>8. DOMAIN t.ctx.exceptions = DOMAIN u.ctx.exceptions
  BY <1>3, <1>4, <1>6, RaiseValueType
<1>9. u.ctx.handled = <<>> => u.ctx.raised \in {NoException, e, ImplicitContext(u.ctx, e)}
  BY DEF ImplicitContext
<1>10. t = RaiseNew(s, kind, token)
  BY <1>1, <1>2, <1>3 DEF RaiseNew
<1> QED
  BY <1>4, <1>5, <1>7, <1>8, <1>9, <1>10 DEF Same

-----------------------------------------------------------------------------
(* What is held: calls *)

(* A call is made: it bears what the code below needs, ...                   *)
LEMMA PushLive ==
  ASSUME NEW s, Typed(s), Live(s), NEW f \in Frame, Held(f) \subseteq Exist(s),
         s.stack # <<>> /\ Last(s.stack).k = "resume" =>
            Saved(Last(s.stack)) \subseteq ToSet(f.ambient) \cup {NoException},
         f.k \in Callers =>
            /\ Single(f.handled, f.raised)
            /\ f.k = "dispatch" => /\ s.stack # <<>> /\ Last(s.stack).gen = f.gen
                                   /\ s.gen[f.gen].raised = f.raised
            /\ f.k # "dispatch" /\ s.stack # <<>> => s.gen[Last(s.stack).gen].delegate = None,
         \A j \in DOMAIN s.stack : Under(s.stack, j, Len(s.stack) + 1) => Bears(s.stack[j], f)
  PROVE  Live(Push(s, f))
<1>1. PICK t : t = Push(s, f)
  OBVIOUS
<1>2. /\ Typed(t) /\ t.stack = Append(s.stack, f) /\ s.stack \in Seq(Frame)
      /\ t.ctx = s.ctx /\ t.gen = s.gen
  BY <1>1, PushType
<1>3. PICK n \in Nat : n = Len(s.stack)
  BY <1>2
<1>4. /\ DOMAIN s.stack = 1 .. n /\ DOMAIN t.stack = 1 .. n + 1 /\ Len(t.stack) = n + 1
      /\ t.stack[n + 1] = f /\ \A i \in 1 .. n : t.stack[i] = s.stack[i]
  BY <1>2, <1>3, AppendOne
<1>5. s.stack # <<>> => n \in 1 .. n /\ Last(s.stack) = s.stack[n]
  BY <1>2, <1>3 DEF Last
<1>6. Exist(t) = Exist(s)
  BY <1>2 DEF Exist
<1>7. Alive(t)
  <2>1. Linked(t) /\ Registers(t.ctx) \subseteq Exist(t)
    BY <1>2, <1>6 DEF Live, Alive, Linked
  <2>2. ASSUME NEW g \in Generators
        PROVE  ToSet(t.gen[g].handled) \cup {t.gen[g].raised} \subseteq Exist(t)
    BY <1>2, <1>6 DEF Live, Alive
  <2>3. ASSUME NEW i \in DOMAIN t.stack
        PROVE  Held(t.stack[i]) \subseteq Exist(t)
    <3>1. CASE i = n + 1
      BY <1>4, <1>6, <3>1
    <3>2. CASE i # n + 1
      BY <1>4, <1>6, <3>2 DEF Live, Alive
    <3> QED
      BY <3>1, <3>2
  <2> QED
    BY <2>1, <2>2, <2>3 DEF Alive
<1>8. Sheltered(t.stack)
  <2>0. 1 .. Len(t.stack) - 1 = 1 .. n
    BY <1>4
  <2> SUFFICES ASSUME NEW i \in 1 .. n, t.stack[i].k = "resume"
               PROVE  Saved(t.stack[i]) \subseteq ToSet(t.stack[i + 1].ambient) \cup {NoException}
    BY <2>0 DEF Sheltered
  <2>1. CASE i = n
    <3>1. s.stack # <<>> /\ Last(s.stack) = t.stack[i] /\ t.stack[i + 1] = f
      BY <1>2, <1>3, <1>4, <1>5, <2>1
    <3> QED
      BY <3>1
  <2>2. CASE i # n
    <3>1. i \in 1 .. n - 1 /\ i + 1 \in 1 .. n
      BY <2>2
    <3> QED
      BY <1>3, <1>4, <3>1 DEF Live, Sheltered
  <2> QED
    BY <2>1, <2>2
<1>9. Callings(t)
  <2> SUFFICES ASSUME NEW j \in DOMAIN t.stack, t.stack[j].k \in Callers
               PROVE  Caller(t, j)
    BY DEF Callings
  <2>1. CASE j = n + 1
    <3>1. t.stack[j] = f
      BY <1>4, <2>1
    <3>2. s.stack # <<>> => j > 1 /\ t.stack[j - 1] = Last(s.stack)
      BY <1>4, <1>5, <2>1
    <3>3. j > 1 => s.stack # <<>>
      BY <1>2, <1>3, <2>1
    <3> QED
      BY <1>2, <3>1, <3>2, <3>3 DEF Caller
  <2>2. CASE j # n + 1
    <3>1. j \in 1 .. n /\ t.stack[j] = s.stack[j]
      BY <1>4, <2>2
    <3>2. j > 1 => t.stack[j - 1] = s.stack[j - 1]
      BY <1>4, <3>1
    <3>3. Caller(s, j)
      BY <1>4, <3>1 DEF Live, Callings
    <3> QED
      BY <1>2, <3>1, <3>2, <3>3 DEF Caller
  <2> QED
    BY <2>1, <2>2
<1>10. Bearing(t.stack)
  <2> SUFFICES ASSUME NEW j \in DOMAIN t.stack, NEW k \in DOMAIN t.stack, Under(t.stack, j, k)
               PROVE  Bears(t.stack[j], t.stack[k])
    BY DEF Bearing
  <2>1. Under(s.stack, j, k)
    BY <1>2, <1>3, <1>4, UnderAppend
  <2>2. j \in DOMAIN s.stack /\ t.stack[j] = s.stack[j]
    BY <1>4, <2>1 DEF Under
  <2>3. CASE k = n + 1
    BY <1>3, <1>4, <2>1, <2>2, <2>3
  <2>4. CASE k # n + 1
    <3>1. k \in DOMAIN s.stack /\ t.stack[k] = s.stack[k]
      BY <1>4, <2>4
    <3> QED
      BY <2>1, <2>2, <3>1 DEF Live, Bearing
  <2> QED
    BY <2>3, <2>4
<1>11. Waiting(t)
  BY <1>2 DEF Live, Waiting
<1> QED
  BY <1>1, <1>7, <1>8, <1>9, <1>10, <1>11 DEF Live

(* ... and what was pending goes on being the caller's.                      *)
LEMMA PushClear ==
  ASSUME NEW s, Typed(s), NEW f \in Frame,
         IF f.k \in Callers THEN Clean(f, s.ctx.raised) ELSE Clear(s)
  PROVE  Clear(Push(s, f))
<1>1. PICK t : t = Push(s, f)
  OBVIOUS
<1>2. /\ t.stack = Append(s.stack, f) /\ s.stack \in Seq(Frame) /\ t.ctx = s.ctx /\ t.ret = s.ret
  BY <1>1, PushType
<1>3. PICK n \in Nat : n = Len(s.stack)
  BY <1>2
<1>4. /\ DOMAIN s.stack = 1 .. n /\ DOMAIN t.stack = 1 .. n + 1 /\ Len(t.stack) = n + 1
      /\ t.stack[n + 1] = f /\ \A i \in 1 .. n : t.stack[i] = s.stack[i]
  BY <1>2, <1>3, AppendOne
<1> SUFFICES ASSUME t.ret.k \notin {"error", "propagate"},
                    NEW j \in DOMAIN t.stack, Under(t.stack, j, Len(t.stack) + 1)
             PROVE  IF t.ret.k = "completed" THEN t.ctx.raised \in {NoException, t.stack[j].raised}
                    ELSE Clean(t.stack[j], t.ctx.raised)
  BY <1>1 DEF Clear
<1>5. \/ f.k \in Callers /\ j = n + 1
      \/ f.k \in Helpers /\ Under(s.stack, j, n + 1)
  BY <1>2, <1>3, UnderAppend
<1>6. CASE f.k \in Callers /\ j = n + 1
  BY <1>2, <1>4, <1>6 DEF Clean
<1>7. CASE f.k \in Helpers /\ Under(s.stack, j, n + 1)
  <2>1. f.k \notin Callers
    BY <1>7 DEF Callers, Helpers
  <2>2. j \in DOMAIN s.stack /\ t.stack[j] = s.stack[j]
    BY <1>4, <1>7 DEF Under
  <2> QED
    BY <1>2, <1>3, <1>7, <2>1, <2>2 DEF Clear
<1> QED
  BY <1>5, <1>6, <1>7

(* A call ends.                                                              *)
LEMMA FrontLive ==
  ASSUME NEW s, Typed(s), Live(s), s.stack # <<>>, NEW t, t.stack = Front(s.stack), t.gen = s.gen, t.ctx = s.ctx
  PROVE  Live(t)
<1>1. s.stack \in Seq(Frame)
  BY DEF Typed
<1>2. PICK n \in Nat \ {0} : n = Len(s.stack)
  BY <1>1
<1>3. /\ DOMAIN s.stack = 1 .. n /\ DOMAIN t.stack = 1 .. n - 1 /\ Len(t.stack) = n - 1
      /\ \A i \in 1 .. n - 1 : t.stack[i] = s.stack[i]
  BY <1>1, <1>2, FrontOne
<1>4. Exist(t) = Exist(s)
  BY DEF Exist
<1>5. Alive(t)
  <2>1. Linked(t) /\ Registers(t.ctx) \subseteq Exist(t)
    BY <1>4 DEF Live, Alive, Linked
  <2>2. ASSUME NEW g \in Generators
        PROVE  ToSet(t.gen[g].handled) \cup {t.gen[g].raised} \subseteq Exist(t)
    BY <1>4 DEF Live, Alive
  <2>3. ASSUME NEW i \in DOMAIN t.stack
        PROVE  Held(t.stack[i]) \subseteq Exist(t)
    BY <1>3, <1>4 DEF Live, Alive
  <2> QED
    BY <2>1, <2>2, <2>3 DEF Alive
<1>6. Sheltered(t.stack)
  <2> SUFFICES ASSUME NEW i \in 1 .. n - 1 - 1, t.stack[i].k = "resume"
               PROVE  Saved(t.stack[i]) \subseteq ToSet(t.stack[i + 1].ambient) \cup {NoException}
    BY <1>3 DEF Sheltered
  <2>1. t.stack[i] = s.stack[i] /\ t.stack[i + 1] = s.stack[i + 1] /\ i \in 1 .. n - 1
    BY <1>3
  <2> QED
    BY <1>2, <2>1 DEF Live, Sheltered
<1>7. Callings(t)
  <2> SUFFICES ASSUME NEW j \in DOMAIN t.stack, t.stack[j].k \in Callers
               PROVE  Caller(t, j)
    BY DEF Callings
  <2>1. j \in DOMAIN s.stack /\ t.stack[j] = s.stack[j]
    BY <1>3
  <2>2. j > 1 => t.stack[j - 1] = s.stack[j - 1]
    BY <1>3
  <2>3. Caller(s, j)
    BY <2>1 DEF Live, Callings
  <2> QED
    BY <2>1, <2>2, <2>3 DEF Caller
<1>8. Bearing(t.stack)
  <2> SUFFICES ASSUME NEW j \in DOMAIN t.stack, NEW k \in DOMAIN t.stack, Under(t.stack, j, k)
               PROVE  Bears(t.stack[j], t.stack[k])
    BY DEF Bearing
  <2>0. k \in 1 .. Len(s.stack)
    BY <1>2, <1>3
  <2>1. Under(s.stack, j, k)
    BY <1>1, <2>0, UnderFront
  <2>2. /\ j \in DOMAIN s.stack /\ t.stack[j] = s.stack[j] /\ k \in DOMAIN s.stack
        /\ t.stack[k] = s.stack[k]
    BY <1>3
  <2> QED
    BY <2>1, <2>2 DEF Live, Bearing
<1>9. Waiting(t)
  BY DEF Live, Waiting
<1> QED
  BY <1>5, <1>6, <1>7, <1>8, <1>9 DEF Live

(* A call that serves another ends.                                          *)
LEMMA FrontClear ==
  ASSUME NEW s, Typed(s), Clear(s), s.stack # <<>>, Last(s.stack).k \in Helpers,
         NEW t, t.stack = Front(s.stack), t.ctx.raised = s.ctx.raised, t.ret = s.ret
  PROVE  Clear(t)
<1>1. s.stack \in Seq(Frame)
  BY DEF Typed
<1>2. PICK n \in Nat \ {0} : n = Len(s.stack)
  BY <1>1
<1>3. /\ DOMAIN s.stack = 1 .. n /\ DOMAIN t.stack = 1 .. n - 1
      /\ \A i \in 1 .. n - 1 : t.stack[i] = s.stack[i]
  BY <1>1, <1>2, FrontOne
<1> SUFFICES ASSUME t.ret.k \notin {"error", "propagate"},
                    NEW j \in DOMAIN t.stack, Under(t.stack, j, Len(t.stack) + 1)
             PROVE  IF t.ret.k = "completed" THEN t.ctx.raised \in {NoException, t.stack[j].raised}
                    ELSE Clean(t.stack[j], t.ctx.raised)
  BY DEF Clear
<1>4. Under(s.stack, j, Len(s.stack) + 1)
  BY <1>1, UnderFront
<1>5. j \in DOMAIN s.stack /\ t.stack[j] = s.stack[j]
  BY <1>3
<1> QED
  BY <1>4, <1>5 DEF Clear

(* Every call that serves another serves code.                               *)
LEMMA Served ==
  ASSUME NEW stk \in Seq(Frame), stk # <<>>, Placed(stk), Last(stk).k # "resume"
  PROVE  \E j \in DOMAIN stk : Under(stk, j, Len(stk) + 1)
<1>1. PICK n \in Nat \ {0} : n = Len(stk)
  OBVIOUS
<1> DEFINE R == {ss \in Nat \X Nat : ss[1] < ss[2]}
           H == {i \in Nat : n - i \in 1 .. n /\ stk[n - i].k \notin Helpers}
<1>2. IsWellFoundedOn(R, Nat)
  BY NatLessThanWellFounded DEF OpToRel
<1>3. H \in SUBSET Nat /\ n - 1 \in H
  <2>1. stk[1].k = "call"
    BY DEF Placed
  <2>2. n - 1 \in Nat /\ n - (n - 1) = 1
    OBVIOUS
  <2> QED
    BY <2>1, <2>2 DEF Helpers
<1>4. PICK i \in H : \A l \in H : ~(<<l, i>> \in R)
  <2> HIDE DEF R, H
  <2> QED
    BY <1>2, <1>3, WFMin
<1>5. PICK j \in 1 .. n : j = n - i /\ stk[j].k \notin Helpers
  BY <1>4
<1>6. \A m \in j + 1 .. n : stk[m].k \in Helpers
  <2> SUFFICES ASSUME NEW m \in j + 1 .. n, stk[m].k \notin Helpers
               PROVE  FALSE
    OBVIOUS
  <2>1. n - m \in H /\ n - m < i /\ n - m \in Nat /\ i \in Nat
    BY <1>4, <1>5
  <2>2. <<n - m, i>> \in R
    BY <2>1
  <2> QED
    BY <1>4, <2>1, <2>2
<1>7. stk[j] \in Frame /\ j \in DOMAIN stk
  BY <1>1
<1>8. stk[j].k \in Callers \cup Helpers \cup {"resume"}
  BY <1>7, FrameType
<1>9. stk[j].k # "resume"
  <2> SUFFICES ASSUME stk[j].k = "resume"
               PROVE  FALSE
    OBVIOUS
  <2>1. j # n
    BY <1>1 DEF Last
  <2>2. j \in 1 .. Len(stk) - 1 /\ stk[j + 1].k \in Helpers
    BY <1>1, <1>6, <2>1
  <2>3. Above(stk[j], stk[j + 1])
    BY <2>2 DEF Placed
  <2> QED
    BY <2>2, <2>3 DEF Above, Helpers
<1> QED
  BY <1>1, <1>5, <1>6, <1>7, <1>8, <1>9 DEF Under

(* What is pending, if anything, is all the code that called deals with.     *)
LEMMA OneException ==
  ASSUME NEW s, Base(s), Ready(s), Live(s), Clear(s), s.stack # <<>>, Last(s.stack).k # "resume",
         s.ret.k \notin {"error", "propagate"}
  PROVE  Single(s.ctx.handled, s.ctx.raised)
<1>1. PICK j \in DOMAIN s.stack : Under(s.stack, j, Len(s.stack) + 1)
  <2>1. s.stack \in Seq(Frame) /\ Placed(s.stack)
    BY DEF Base, Typed
  <2> QED
    BY <2>1, Served
<1>2. s.ctx.handled = s.stack[j].handled
  BY <1>1 DEF Ready
<1>3. s.ctx.raised \in {NoException, s.stack[j].raised}
  BY <1>1 DEF Clear, Clean
<1>4. Single(s.stack[j].handled, s.stack[j].raised)
  BY <1>1 DEF Live, Callings, Caller, Under
<1> QED
  BY <1>2, <1>3, <1>4 DEF Single

-----------------------------------------------------------------------------
(* What is held: refusing and raising *)

(* Code that calls is the program, or a body.                                *)
LEMMA CallerGen ==
  ASSUME NEW stk \in Seq(Frame), Placed(stk), NEW j \in DOMAIN stk, stk[j].k \in Callers
  PROVE  /\ stk[j].k = "dispatch" => stk[j].gen \in Generators
         /\ j > 1 => j - 1 \in DOMAIN stk /\ stk[j - 1].k = "resume" /\ stk[j - 1].gen \in Generators
<1>1. stk[j].k = "dispatch" => stk[j].gen \in Generators
  BY FrameType DEF DispatchFrame
<1>2. ASSUME j > 1
      PROVE  j - 1 \in DOMAIN stk /\ stk[j - 1].k = "resume" /\ stk[j - 1].gen \in Generators
  <2>1. PICK i \in 1 .. Len(stk) - 1 : i = j - 1
    BY <1>2
  <2>2. Above(stk[i], stk[i + 1]) /\ i + 1 = j
    BY <2>1 DEF Placed
  <2>3. stk[i].k = "resume" /\ i \in DOMAIN stk
    BY <2>1, <2>2 DEF Above
  <2>4. stk[i] \in Frame
    BY <2>3
  <2>5. stk[i].gen \in Generators
    BY <2>3, <2>4, FrameType DEF ResumeFrame
  <2> QED
    BY <2>1, <2>3, <2>5
<1> QED
  BY <1>1, <1>2

(* Nor do the flags of the objects matter, but that one which runs again     *)
(* awaits nothing.                                                           *)
LEMMA LiveFlags ==
  ASSUME NEW s, NEW t, Typed(s), Placed(s.stack), Live(s), t.stack = s.stack, t.ctx = s.ctx,
         \A g \in Generators : /\ t.gen[g].handled = s.gen[g].handled /\ t.gen[g].raised = s.gen[g].raised
                               /\ t.gen[g].delegate = s.gen[g].delegate
                               /\ s.gen[g].running => t.gen[g].running
  PROVE  Live(t)
<1>1. Exist(t) = Exist(s)
  BY DEF Exist
<1>2. Alive(t)
  <2>1. Linked(t) /\ Registers(t.ctx) \subseteq Exist(t)
    BY <1>1 DEF Live, Alive, Linked
  <2>2. ASSUME NEW g \in Generators
        PROVE  ToSet(t.gen[g].handled) \cup {t.gen[g].raised} \subseteq Exist(t)
    BY <1>1 DEF Live, Alive
  <2>3. ASSUME NEW i \in DOMAIN t.stack
        PROVE  Held(t.stack[i]) \subseteq Exist(t)
    BY <1>1 DEF Live, Alive
  <2> QED
    BY <2>1, <2>2, <2>3 DEF Alive
<1>3. Sheltered(t.stack) /\ Bearing(t.stack)
  BY DEF Live
<1>4. Waiting(t)
  BY DEF Live, Waiting
<1>5. Callings(t)
  <2> SUFFICES ASSUME NEW j \in DOMAIN t.stack, t.stack[j].k \in Callers
               PROVE  Caller(t, j)
    BY DEF Callings
  <2>1. s.stack \in Seq(Frame) /\ Placed(s.stack)
    BY DEF Typed
  <2>2. /\ s.stack[j].k = "dispatch" => s.stack[j].gen \in Generators
        /\ j > 1 => s.stack[j - 1].gen \in Generators
    BY <2>1, CallerGen
  <2>3. Caller(s, j)
    BY DEF Live, Callings
  <2> QED
    BY <2>2, <2>3 DEF Caller
<1> QED
  BY <1>2, <1>3, <1>4, <1>5 DEF Live

(* The call in progress goes well, and nothing of what it needs is lost.     *)
Calm(s) == Open(s) /\ s.ret.k # "completed" /\ Live(s) /\ Clear(s)

(* ... so what is pending is what the caller had.                            *)
LEMMA CalmIs ==
  ASSUME NEW s, Calm(s)
  PROVE  /\ Base(s) /\ Ready(s) /\ Typed(s) /\ s.stack # <<>> /\ s.stack \in Seq(Frame)
         /\ Live(s) /\ Clear(s) /\ Alive(s) /\ s.ret.k \notin {"error", "propagate", "completed"}
         /\ \A j \in DOMAIN s.stack : Under(s.stack, j, Len(s.stack) + 1) => Clean(s.stack[j], s.ctx.raised)
         /\ s.ctx.raised \in Exist(s) /\ s.ctx.raised \in Nat /\ ToSet(s.ctx.handled) \subseteq Exist(s)
         /\ NoException \in Exist(s) /\ NoException \in Nat
<1>1. /\ Base(s) /\ Ready(s) /\ Typed(s) /\ s.stack # <<>> /\ s.stack \in Seq(Frame)
      /\ s.ctx.raised \in Nat
  BY DEF Calm, Open, Base, Typed
<1>2. Live(s) /\ Clear(s) /\ Alive(s) /\ s.ret.k \notin {"error", "propagate", "completed"}
  BY DEF Calm, Open, Live
<1>3. s.ctx.raised \in Exist(s) /\ ToSet(s.ctx.handled) \subseteq Exist(s)
  BY <1>2 DEF Alive, Registers
<1>4. NoException \in Exist(s) /\ NoException \in Nat
  BY DEF Exist, NoException
<1>5. \A j \in DOMAIN s.stack : Under(s.stack, j, Len(s.stack) + 1) => Clean(s.stack[j], s.ctx.raised)
  BY <1>2 DEF Clear
<1> QED
  BY <1>1, <1>2, <1>3, <1>4, <1>5

(* A call ends while the one that made it waits, and not with StopIteration. *)
LEMMA Ending ==
  ASSUME NEW t, Live(t), Clear(t), t.stack # <<>>, Last(t.stack).k # "resume", t.ret.k # "resumed",
         Last(t.stack).k = "start" /\ t.ret.k = "error" => KindOf(t, t.ctx.raised) # "stop"
  PROVE  Lively(t)
<1>1. Kept(t) /\ Chain(t)
  BY DEF Kept, Chain
<1> QED
  BY <1>1 DEF Lively

(* It fails with a new exception.                                            *)
LEMMA RefusedLively ==
  ASSUME NEW s, Typed(s), Live(s), s.stack # <<>>, Last(s.stack).k # "resume",
         NEW kind \in Kinds, NEW token \in BOOLEAN,
         Last(s.stack).k = "start" /\ kind = "stop" =>
            \A j \in DOMAIN s.stack : Under(s.stack, j, Len(s.stack)) /\ s.stack[j].k = "await" =>
               \/ Last(s.stack).ambient = NoException
               \/ s.ctx.handled = <<>> /\ Last(s.stack).ambient = s.ctx.raised
  PROVE  Lively([RaiseNew(s, kind, token) EXCEPT !.ret = Error])
<1>1. PICK u : u = RaiseNew(s, kind, token)
  OBVIOUS
<1>2. PICK t : t = [u EXCEPT !.ret = Gives("error", FALSE)]
  OBVIOUS
<1>3. Typed(u) /\ Same(s, u)
  BY <1>1, RaiseNewType
<1>4. /\ Live(u) /\ KindOf(u, u.ctx.raised) = kind
      /\ s.ctx.handled = <<>> =>
           s.ctx.raised \in {NoException, u.ctx.raised, u.ctx.exceptions[u.ctx.raised].context}
  BY <1>1, RaiseNewLive
<1>5. "error" \in Outcomes /\ FALSE \in BOOLEAN
  BY DEF Outcomes
<1>6. Same(u, t) /\ t.ctx = u.ctx /\ t.ret.k = "error"
  BY <1>2, <1>3, <1>5, SetRet
<1>7. t.stack = s.stack /\ t.stack = u.stack /\ t.gen = u.gen
  BY <1>3, <1>6 DEF Same
<1>8. Exist(t) = Exist(u)
  BY <1>6 DEF Exist
<1>9. Live(t)
  <2>1. Linked(t) /\ Registers(t.ctx) \subseteq Exist(t)
    BY <1>4, <1>6, <1>8 DEF Live, Alive, Linked
  <2> QED
    BY <1>4, <1>7, <1>8, <2>1, LiveSame
<1>10. Clear(t) /\ Kept(t)
  BY <1>6, <1>7 DEF Clear, Kept
<1>11. Chain(t)
  <2> SUFFICES ASSUME Last(t.stack).k = "start", KindOf(t, t.ctx.raised) = "stop",
                      NEW j \in DOMAIN t.stack, Under(t.stack, j, Len(t.stack)), t.stack[j].k = "await"
               PROVE  Last(t.stack).ambient \in
                         {NoException, t.ctx.raised, t.ctx.exceptions[t.ctx.raised].context}
    BY DEF Chain
  <2>1. KindOf(t, t.ctx.raised) = kind
    BY <1>4, <1>6 DEF KindOf
  <2>2. \/ Last(s.stack).ambient = NoException
        \/ s.ctx.handled = <<>> /\ Last(s.stack).ambient = s.ctx.raised
    BY <1>7, <2>1
  <2> QED
    BY <1>4, <1>6, <1>7, <2>2
<1>12. t = [RaiseNew(s, kind, token) EXCEPT !.ret = Error]
  BY <1>1, <1>2 DEF Error
<1> QED
  BY <1>6, <1>9, <1>10, <1>11, <1>12 DEF Lively

(* The same of raise_error.                                                  *)
LEMMA ErrorLively ==
  ASSUME NEW s, Typed(s), Live(s), s.stack # <<>>, Last(s.stack).k # "resume",
         NEW kind \in Kinds, Last(s.stack).k = "start" => kind # "stop"
  PROVE  Lively(RaiseError(s, kind))
<1>1. FALSE \in BOOLEAN
  OBVIOUS
<1>2. Lively([RaiseNew(s, kind, FALSE) EXCEPT !.ret = Error])
  BY <1>1, RefusedLively
<1> QED
  BY <1>2 DEF RaiseError

(* It answers.                                                               *)
LEMMA AnsweredLively ==
  ASSUME NEW s, Typed(s), Live(s), Clear(s), s.stack # <<>>, Last(s.stack).k # "resume",
         NEW k \in Outcomes \ {"resumed", "error"}, NEW token \in BOOLEAN,
         k # "propagate" => s.ret.k \notin {"error", "propagate"} /\ (k # "completed" => s.ret.k # "completed")
  PROVE  Lively([s EXCEPT !.ret = Gives(k, token)])
<1>1. PICK t : t = [s EXCEPT !.ret = Gives(k, token)]
  OBVIOUS
<1>2. Same(s, t) /\ t.ctx = s.ctx /\ t.ret.k = k
  BY <1>1, SetRet
<1>3. t.stack = s.stack /\ t.gen = s.gen
  BY <1>2 DEF Same
<1>4. Live(t)
  <2>1. Exist(t) = Exist(s)
    BY <1>2 DEF Exist
  <2>2. Linked(t) /\ Registers(t.ctx) \subseteq Exist(t)
    BY <1>2, <2>1 DEF Live, Alive, Linked
  <2> QED
    BY <1>3, <2>1, <2>2, LiveSame
<1>5. Clear(t)
  BY <1>2, <1>3 DEF Clear, Clean
<1> QED
  BY <1>1, <1>2, <1>3, <1>4, <1>5, Ending

(* It fails with an exception it was given.                                  *)
LEMMA ThrownLively ==
  ASSUME NEW s, Typed(s), Live(s), s.stack # <<>>, Last(s.stack).k # "resume",
         NEW e \in Nat, e \in Exist(s), NEW k \in {"error", "propagate"},
         Last(s.stack).k = "start" => KindOf(s, e) # "stop"
  PROVE  Lively([RaiseValue(s, e, NoException) EXCEPT !.ret = Gives(k, FALSE)])
<1>1. PICK u : u = RaiseValue(s, e, NoException)
  OBVIOUS
<1>2. PICK t : t = [u EXCEPT !.ret = Gives(k, FALSE)]
  OBVIOUS
<1>3. NoException \in Nat /\ NoException \in Exist(s) /\ k \in Outcomes
  BY DEF NoException, Exist, Outcomes
<1>4. Typed(u) /\ Same(s, u)
  BY <1>1, <1>3, RaiseValueType
<1>5. Live(u) /\ u.ctx.raised = e /\ KindOf(u, e) = KindOf(s, e)
  BY <1>1, <1>3, RaiseValueLive
<1>6. Same(u, t) /\ t.ctx = u.ctx /\ t.ret.k = k
  BY <1>2, <1>3, <1>4, SetRet
<1>7. t.stack = s.stack /\ t.stack = u.stack /\ t.gen = u.gen
  BY <1>4, <1>6 DEF Same
<1>8. Live(t)
  <2>1. Exist(t) = Exist(u)
    BY <1>6 DEF Exist
  <2>2. Linked(t) /\ Registers(t.ctx) \subseteq Exist(t)
    BY <1>5, <1>6, <2>1 DEF Live, Alive, Linked
  <2> QED
    BY <1>5, <1>7, <2>1, <2>2, LiveSame
<1>9. Clear(t) /\ t.ret.k # "resumed"
  BY <1>6 DEF Clear
<1>10. KindOf(t, t.ctx.raised) = KindOf(s, e)
  BY <1>5, <1>6 DEF KindOf
<1> QED
  BY <1>1, <1>2, <1>7, <1>8, <1>9, <1>10, Ending

-----------------------------------------------------------------------------
(* What is held: methods and operations *)

(* What native code has published.                                           *)
LEMMA HeldIs ==
  ASSUME NEW f
  PROVE  /\ f.k = "delegate" => Held(f) = {f.injected}
         /\ f.k = "resume" => Held(f) = {f.input}
         /\ f.k \notin {"delegate", "resume"} => Held(f) = {}
BY Zenon DEF Held

(* The body is entered: the caller's registers are kept.                     *)
LEMMA EnterLively ==
  ASSUME NEW s, Calm(s), NEW g \in Generators, ~s.gen[g].running,
         NEW o \in Requests, NEW input \in Nat, input \in Exist(s), Resumes(Last(s.stack), g)
  PROVE  Lively(EnterBody(s, g, o, input))
<1>0. /\ Typed(s) /\ Base(s) /\ Live(s) /\ s.stack # <<>> /\ s.stack \in Seq(Frame) /\ s.gen[g] \in Object
      /\ s.gen[g].raised \in Nat /\ s.gen[g].raised \in Exist(s) /\ NoException \in Nat /\ NoException \in Exist(s)
      /\ s.ctx.raised \in Nat /\ s.ctx.handled \in Seq(Exceptions) /\ s.ctx.ambient \in Seq(Nat)
      /\ Last(s.stack).k # "resume"
  BY CalmIs, TypedRegisters DEF Alive, Object, Resumes
<1>1. PICK own : own = [s EXCEPT !.ctx.raised = s.gen[g].raised]
  OBVIOUS
<1>2. Typed(own) /\ Same(s, own) /\ own.ctx.raised = s.gen[g].raised
  BY <1>0, <1>1, SetRaised
<1>3. own.ctx.exceptions = s.ctx.exceptions
  BY <1>0, <1>1 DEF Typed
<1>4. Exist(own) = Exist(s)
  BY <1>3 DEF Exist
<1>5. Live(own)
  <2>1. Linked(own)
    BY <1>0, <1>3, <1>4 DEF Live, Alive, Linked
  <2>2. Registers(own.ctx) \subseteq Exist(own)
    BY <1>0, <1>2, <1>4 DEF Live, Alive, Registers, Same
  <2> QED
    BY <1>0, <1>2, <1>4, <2>1, <2>2, LiveSame DEF Same
<1>6. PICK in : in = IF o = "throw" THEN RaiseValue(own, input, NoException) ELSE own
  OBVIOUS
<1>7. Typed(in) /\ Same(own, in) /\ Live(in) /\ Exist(in) = Exist(s)
  <2>1. CASE o = "throw"
    BY <1>0, <1>2, <1>4, <1>5, <1>6, <2>1, RaiseValueType, RaiseValueLive
  <2>2. CASE o # "throw"
    BY <1>2, <1>4, <1>5, <1>6, <2>2 DEF Same
  <2> QED
    BY <2>1, <2>2
<1>8. PICK u : u = [in EXCEPT !.ret = Gives("resumed", FALSE)]
  OBVIOUS
<1>9. Typed(u) /\ Same(in, u) /\ u.ctx = in.ctx /\ u.ret.k = "resumed"
  <2>1. "resumed" \in Outcomes /\ FALSE \in BOOLEAN
    BY DEF Outcomes
  <2> QED
    BY <1>7, <1>8, <2>1, SetRet
<1>10. u.stack = s.stack /\ u.gen = s.gen /\ u.ctx.handled = s.ctx.handled /\ u.stack = in.stack /\ u.gen = in.gen
  BY <1>2, <1>7, <1>9 DEF Same
<1>11. Exist(u) = Exist(s)
  BY <1>7, <1>9 DEF Exist
<1>12. Live(u)
  <2>1. Linked(u) /\ Registers(u.ctx) \subseteq Exist(u)
    BY <1>7, <1>9, <1>11 DEF Live, Alive, Linked
  <2> QED
    BY <1>7, <1>10, <1>11, <2>1, LiveSame
<1>13. PICK f : f = [k |-> "resume", gen |-> g, op |-> o, input |-> input,
                     previousRaised |-> s.ctx.raised, previousHandled |-> s.ctx.handled,
                     mark |-> Len(s.ctx.ambient)]
  OBVIOUS
<1>14. /\ f \in Frame /\ f.k = "resume" /\ f.gen = g /\ f.input = input
       /\ f.previousRaised = s.ctx.raised /\ f.previousHandled = s.ctx.handled
  BY <1>0, <1>13 DEF Frame, ResumeFrame
<1>15. PICK t : t = EnterBody(s, g, o, input)
  OBVIOUS
<1>16. t = Push(u, f)
  BY <1>1, <1>6, <1>8, <1>13, <1>15, Zenon DEF EnterBody
<1>17. Live(t)
  <2>1. Held(f) \subseteq Exist(u) /\ f.k \notin Callers
    BY <1>11, <1>14, HeldIs DEF Callers
  <2>2. ASSUME NEW j \in DOMAIN u.stack, Under(u.stack, j, Len(u.stack) + 1)
        PROVE  Bears(u.stack[j], f)
    <3>1. Clean(s.stack[j], s.ctx.raised)
      BY <1>10, <2>2, CalmIs
    <3> QED
      BY <1>10, <1>14, <3>1 DEF Bears
  <2>3. Last(u.stack).k # "resume"
    BY <1>0, <1>10
  <2> QED
    BY <1>9, <1>12, <1>14, <1>16, <2>1, <2>2, <2>3, PushLive
<1>18. t.stack = Append(s.stack, f) /\ t.gen = s.gen /\ t.ret.k = "resumed" /\ t.ctx = u.ctx
  BY <1>9, <1>10, <1>14, <1>16, PushType
<1>19. Last(t.stack) = f
  BY <1>0, <1>14, <1>18, AppendOne
<1>20. Single(s.ctx.handled, s.ctx.raised)
  BY <1>0, OneException, CalmIs
<1>21. Window(t)
  <2>1. s.ctx.raised \in Exist(t)
    BY <1>11, <1>18, CalmIs DEF Exist
  <2> QED
    BY <1>10, <1>14, <1>18, <1>19, <1>20, <2>1 DEF Window
<1> QED
  BY <1>15, <1>17, <1>18, <1>21 DEF Lively

(* resume_generator.                                                         *)
LEMMA ResumeGeneratorLively ==
  ASSUME NEW s, Calm(s), NEW g \in Generators, NEW o \in Requests, NEW input \in Nat,
         input \in Exist(s), Resumes(Last(s.stack), g), o = "throw" => Last(s.stack).k # "start"
  PROVE  Lively(ResumeGenerator(s, g, o, input))
<1>1. PICK t : t = ResumeGenerator(s, g, o, input)
  OBVIOUS
<1>2. /\ Base(s) /\ Live(s) /\ Clear(s) /\ s.stack # <<>> /\ Typed(s) /\ Last(s.stack).k # "resume"
      /\ "error" \in Kinds /\ "error" # "stop" /\ "error" \in {"error", "propagate"} /\ FALSE \in BOOLEAN
      /\ "returned" \in Outcomes \ {"resumed", "error"}
      /\ s.ret.k \notin {"error", "propagate"} /\ s.ret.k # "completed"
  BY CalmIs DEF Resumes, Kinds, Outcomes
<1>3. s.gen[g] \in Object
  BY <1>2 DEF Base, Typed
<1>4. \/ t = RaiseError(s, "error")
      \/ o = "throw" /\ t = [RaiseValue(s, input, NoException) EXCEPT !.ret = Error]
      \/ t = [s EXCEPT !.ret = Gives("returned", FALSE)]
      \/ ~s.gen[g].running /\ t = [Close(s, g) EXCEPT !.ret = Gives("returned", FALSE)]
      \/ /\ ~s.gen[g].running /\ o = "throw"
         /\ t = [RaiseValue(Close(s, g), input, NoException) EXCEPT !.ret = Error]
      \/ /\ ~s.gen[g].running /\ ~s.gen[g].completed
         /\ t = EnterBody(s, g, o, input)
  BY <1>1, <1>3 DEF ResumeGenerator, Requests, Object
<1>5. CASE t = RaiseError(s, "error")
  BY <1>1, <1>2, <1>5, ErrorLively
<1>6. CASE o = "throw" /\ t = [RaiseValue(s, input, NoException) EXCEPT !.ret = Error]
  <2>1. Lively([RaiseValue(s, input, NoException) EXCEPT !.ret = Gives("error", FALSE)])
    BY <1>2, <1>6, ThrownLively
  <2> QED
    BY <1>1, <1>6, <2>1 DEF Error
<1>7. CASE t = [s EXCEPT !.ret = Gives("returned", FALSE)]
  <2>1. Lively([s EXCEPT !.ret = Gives("returned", FALSE)])
    BY <1>2, AnsweredLively
  <2> QED
    BY <1>1, <1>7, <2>1
<1>8. PICK c : c = Close(s, g)
  OBVIOUS
<1>9. ASSUME ~s.gen[g].running
      PROVE  Typed(c) /\ Live(c) /\ Clear(c) /\ c.stack = s.stack /\ c.ret = s.ret /\ Exist(c) = Exist(s)
  <2>1. Base(c) /\ c.stack = s.stack /\ c.ctx = s.ctx /\ c.ret = s.ret
    BY <1>2, <1>8, <1>9, CloseBase, CalmIs
  <2>2. c = [s EXCEPT !.gen[g].completed = TRUE]
    BY <1>8 DEF Close
  <2>3. \A h \in Generators : /\ c.gen[h].handled = s.gen[h].handled /\ c.gen[h].raised = s.gen[h].raised
                              /\ c.gen[h].delegate = s.gen[h].delegate
                              /\ c.gen[h].running = s.gen[h].running
    BY <1>2, <2>2 DEF Typed, Object
  <2>4. Live(c)
    BY <1>2, <2>1, <2>3, LiveFlags DEF Base
  <2>5. Clear(c) /\ Exist(c) = Exist(s)
    BY <1>2, <2>1 DEF Clear, Exist
  <2> QED
    BY <2>1, <2>4, <2>5 DEF Base
<1>10. CASE ~s.gen[g].running /\ t = [Close(s, g) EXCEPT !.ret = Gives("returned", FALSE)]
  <2>1. Lively([c EXCEPT !.ret = Gives("returned", FALSE)])
    BY <1>2, <1>9, <1>10, AnsweredLively
  <2> QED
    BY <1>1, <1>8, <1>10, <2>1
<1>11. CASE /\ ~s.gen[g].running /\ o = "throw"
            /\ t = [RaiseValue(Close(s, g), input, NoException) EXCEPT !.ret = Error]
  <2>1. input \in Exist(c) /\ c.stack # <<>> /\ Last(c.stack).k # "resume" /\ Last(c.stack).k # "start"
    BY <1>2, <1>9, <1>11
  <2>2. Lively([RaiseValue(c, input, NoException) EXCEPT !.ret = Gives("error", FALSE)])
    BY <1>2, <1>9, <1>11, <2>1, ThrownLively
  <2> QED
    BY <1>1, <1>8, <1>11, <2>2 DEF Error
<1>12. CASE ~s.gen[g].running /\ ~s.gen[g].completed /\ t = EnterBody(s, g, o, input)
  BY <1>1, <1>12, EnterLively
<1> QED
  BY <1>4, <1>5, <1>6, <1>7, <1>10, <1>11, <1>12

(* A call that serves another and goes on.                                   *)
LEMMA PushCalm ==
  ASSUME NEW s, Calm(s), NEW f \in Frame, f.k \in Helpers \ {"operation"}, Above(Last(s.stack), f),
         f.k = "delegate" /\ f.op = "close" => f.injected # NoException,
         f.k = "delegate" => f.injected \in Exist(s),
         \A j \in DOMAIN s.stack : Under(s.stack, j, Len(s.stack) + 1) =>
             Serves(s.stack[j], f, s.ctx.ambient) /\ Bears(s.stack[j], f)
  PROVE  LET t == Push(s, f) IN
         /\ Calm(t) /\ Last(t.stack) = f /\ t.stack = Append(s.stack, f)
         /\ t.ctx = s.ctx /\ t.gen = s.gen /\ t.op = s.op /\ t.next = s.next
<1>1. PICK t : t = Push(s, f)
  OBVIOUS
<1>2. /\ Open(t) /\ Last(t.stack) = f /\ t.stack = Append(s.stack, f)
      /\ t.ctx = s.ctx /\ t.gen = s.gen /\ t.op = s.op /\ t.next = s.next
  BY <1>1, PushOpen DEF Calm
<1>3. /\ f.k \notin Callers /\ f.k # "resume" /\ Last(s.stack).k # "resume"
  BY DEF Callers, Helpers, Above
<1>4. Held(f) \subseteq Exist(s)
  BY <1>3, HeldIs
<1>5. Typed(s) /\ Live(s) /\ Clear(s) /\ s.ret.k # "completed"
  BY CalmIs
<1>6. Live(t)
  BY <1>1, <1>3, <1>4, <1>5, PushLive
<1>7. Clear(t)
  BY <1>1, <1>3, <1>5, PushClear
<1>8. t.ret = s.ret
  BY <1>1, <1>5, PushType
<1> QED
  BY <1>1, <1>2, <1>5, <1>6, <1>7, <1>8 DEF Calm

(* send, throw and close of a generator or a coroutine.                      *)
LEMMA MethodLively ==
  ASSUME NEW s, Calm(s), Last(s.stack).k \in {"call", "delegate"}, NEW g \in Plain,
         NEW o \in Requests, NEW input \in Nat, input \in Exist(s)
  PROVE  Lively(Method(s, g, o, input))
<1>1. PICK f : f = [k |-> "method", op |-> o]
  OBVIOUS
<1>2. f \in Frame /\ f.k = "method" /\ f.k \in Helpers \ {"operation"}
  BY <1>1 DEF Frame, Helpers
<1>3. /\ Above(Last(s.stack), f)
      /\ \A j \in DOMAIN s.stack : Serves(s.stack[j], f, s.ctx.ambient) /\ Bears(s.stack[j], f)
  BY <1>2 DEF Above, Serves, Bears, Callers
<1>4. PICK t : t = Push(s, f)
  OBVIOUS
<1>5. Calm(t) /\ Last(t.stack) = f /\ t.ctx = s.ctx
  BY <1>2, <1>3, <1>4, PushCalm
<1>6. g \in Generators /\ Resumes(Last(t.stack), g) /\ Last(t.stack).k # "start"
  BY <1>2, <1>5 DEF Resumes, Plain
<1>7. input \in Exist(t)
  BY <1>5 DEF Exist
<1>8. Lively(ResumeGenerator(t, g, o, input))
  BY <1>5, <1>6, <1>7, ResumeGeneratorLively
<1> QED
  BY <1>1, <1>4, <1>8 DEF Method

(* The code that a further call serves is the code that was served before.   *)
LEMMA ServedStill ==
  ASSUME NEW s, NEW t, s.stack \in Seq(Frame), NEW f \in Frame, f.k \in Helpers, t.stack = Append(s.stack, f),
         NEW j \in DOMAIN t.stack, Under(t.stack, j, Len(t.stack) + 1)
  PROVE  j \in DOMAIN s.stack /\ Under(s.stack, j, Len(s.stack) + 1) /\ t.stack[j] = s.stack[j]
<1>1. f.k \notin Callers
  BY DEF Callers, Helpers
<1>2. Under(s.stack, j, Len(s.stack) + 1)
  BY <1>1, UnderAppend
<1>3. j \in DOMAIN s.stack /\ j \in 1 .. Len(s.stack)
  BY <1>2, AppendOne DEF Under
<1> QED
  BY <1>2, <1>3, AppendOne

(* aclose() is awaited by code that has nothing pending: while it makes its  *)
(* exception only the registers of the generator are roots.                  *)
Spares(s, a) ==
  Protocol[a] = "close" =>
    \A j \in DOMAIN s.stack : Under(s.stack, j, Len(s.stack) + 1) /\ s.stack[j].k = "await" =>
      s.stack[j].raised = NoException

(* It is code that awaits, or a body that forwards.                          *)
Awaits(s) ==
  \A j \in DOMAIN s.stack : Under(s.stack, j, Len(s.stack) + 1) => s.stack[j].k # "call"

(* An operation resumes its generator.                                       *)
LEMMA AcquireLively ==
  ASSUME NEW s, Calm(s), Last(s.stack).k \in {"call", "delegate", "start"},
         NEW a \in Operations, MayBegin(s, a), Spares(s, a), NEW o \in Requests \cup {"default"},
         NEW input \in Nat, input \in Exist(s)
  PROVE  Lively(Acquire(s, a, o, input))
<1>0. /\ Base(s) /\ Ready(s) /\ Typed(s) /\ s.stack # <<>> /\ Live(s) /\ Clear(s) /\ s.ret.k # "completed"
      /\ s.ret.k \notin {"error", "propagate"} /\ s.stack \in Seq(Frame) /\ Last(s.stack).k # "resume"
  BY CalmIs
<1>1. PICK g \in Generators : g = Receiver[a]
  BY SuspendedAssumption
<1>2. PICK taken : taken = Take(s, a)
  OBVIOUS
<1>3. Typed(taken) /\ Began(s, taken, a) /\ taken.ctx = s.ctx
  BY <1>0, <1>2, TakeType DEF MayBegin
<1>4. Live(taken) /\ Exist(taken) = Exist(s)
  <2>1. taken = [s EXCEPT !.gen[g].owned = TRUE, !.op[a].started = TRUE, !.op[a].running = TRUE]
    BY <1>1, <1>2 DEF Take
  <2>2. \A h \in Generators : /\ taken.gen[h].handled = s.gen[h].handled /\ taken.gen[h].raised = s.gen[h].raised
                              /\ taken.gen[h].delegate = s.gen[h].delegate
                              /\ taken.gen[h].running = s.gen[h].running
    BY <1>0, <2>1 DEF Typed, Object
  <2> QED
    BY <1>0, <1>3, <2>2, LiveFlags DEF Began, Exist, Base
<1>5. PICK resume : resume = IF o # "default" THEN o ELSE IF s.op[a].started THEN "next" ELSE Protocol[a]
  OBVIOUS
<1>6. resume \in Requests
  BY <1>5, SuspendedAssumption DEF Requests
<1>7. PICK given : given = (o = "default" /\ resume = "throw")
  OBVIOUS
<1>8. PICK u : u = IF given THEN New(taken, "error", FALSE) ELSE taken
  OBVIOUS
<1>9. PICK thrown : thrown = IF given THEN Fresh(taken) ELSE input
  OBVIOUS
<1>10. Typed(u) /\ Began(s, u, a) /\ Live(u) /\ thrown \in Nat /\ thrown \in Exist(u)
  <2>1. CASE given
    <3>1. "error" \in Kinds /\ FALSE \in BOOLEAN
      BY DEF Kinds
    <3>2. Typed(u) /\ Same(taken, u) /\ u.ret = taken.ret /\ u.ctx.raised = taken.ctx.raised
      BY <1>3, <1>8, <2>1, <3>1, NewType
    <3>3. Live(u) /\ Fresh(taken) \in Exist(u)
      BY <1>3, <1>4, <1>8, <2>1, <3>1, NewLive DEF Exist
    <3>4. Began(s, u, a)
      BY <1>3, <3>2 DEF Same, Began
    <3> QED
      BY <1>9, <2>1, <3>2, <3>3, <3>4, FreshType DEF Exceptions
  <2>2. CASE ~given
    BY <1>3, <1>4, <1>8, <1>9, <2>2
  <2> QED
    BY <2>1, <2>2
<1>11. PICK f : f = [k |-> "operation", op |-> a]
  OBVIOUS
<1>12. PICK t : t = Push(u, f)
  OBVIOUS
<1>13. Base(t) /\ Ready(t) /\ t.stack # <<>> /\ t.ret = s.ret /\ Last(t.stack) = f
  BY <1>0, <1>10, <1>11, <1>12, BeginBase
<1>14. f \in Frame /\ f.k = "operation" /\ f.op = a /\ f.k \notin Callers /\ Held(f) = {}
  <2>1. f \in Frame /\ f.k = "operation" /\ f.op = a
    BY <1>11 DEF Frame
  <2> QED
    BY <2>1, HeldIs DEF Callers
<1>15. /\ u.stack = s.stack /\ u.ctx.raised = s.ctx.raised /\ u.ctx.handled = s.ctx.handled /\ u.ret = s.ret
  BY <1>10 DEF Began
<1>16. Live(t)
  <2>1. \A j \in DOMAIN u.stack : Under(u.stack, j, Len(u.stack) + 1) => Bears(u.stack[j], f)
    BY <1>14, <1>15 DEF Spares, Bears
  <2> QED
    BY <1>0, <1>10, <1>12, <1>14, <1>15, <2>1, PushLive
<1>17. Clear(t)
  <2>1. Clear(u)
    BY <1>0, <1>15 DEF Clear
  <2> QED
    BY <1>10, <1>12, <1>14, <2>1, PushClear
<1>18. Calm(t)
  BY <1>0, <1>13, <1>16, <1>17 DEF Calm, Open
<1>19. Resumes(Last(t.stack), g) /\ Last(t.stack).k # "start"
  BY <1>1, <1>13, <1>14 DEF Resumes
<1>20. thrown \in Exist(t)
  BY <1>10, <1>12, <1>14, PushType DEF Exist
<1>21. Lively(ResumeGenerator(t, g, resume, thrown))
  BY <1>6, <1>10, <1>18, <1>19, <1>20, ResumeGeneratorLively
<1>22. Acquire(s, a, o, input) = ResumeGenerator(t, g, resume, thrown)
  BY <1>1, <1>2, <1>5, <1>7, <1>8, <1>9, <1>11, <1>12 DEF Acquire
<1> QED
  BY <1>21, <1>22

(* An operation is used up.                                                  *)
LEMMA ConsumeLive ==
  ASSUME NEW s, Calm(s), NEW a \in Operations
  PROVE  LET c == Consume(s, a) IN Calm(c) /\ c.stack = s.stack /\ c.ctx = s.ctx
<1>1. PICK c : c = Consume(s, a)
  OBVIOUS
<1>2. Base(s) /\ Ready(s) /\ Typed(s) /\ Live(s) /\ Clear(s)
  BY CalmIs
<1>3. Base(c) /\ Ready(c) /\ c.stack = s.stack /\ c.ret = s.ret /\ c.ctx = s.ctx /\ c.gen = s.gen
  BY <1>1, <1>2, ConsumeBase, ConsumeType
<1>4. Live(c)
  BY <1>2, <1>3, LiveFlags DEF Base
<1>5. Clear(c)
  BY <1>2, <1>3 DEF Clear
<1> QED
  BY <1>1, <1>3, <1>4, <1>5 DEF Calm, Open

(* resume_async_generator_operation.                                         *)
LEMMA ResumeOperationLively ==
  ASSUME NEW s, Calm(s), Last(s.stack).k \in {"call", "delegate", "start"},
         NEW a \in Operations, Spares(s, a), NEW o \in Requests \cup {"default"},
         NEW input \in Nat, input \in Exist(s)
  PROVE  Lively(ResumeOperation(s, a, o, input))
<1>1. PICK t : t = ResumeOperation(s, a, o, input)
  OBVIOUS
<1>2. /\ s.stack # <<>> /\ Typed(s) /\ Live(s) /\ Last(s.stack).k # "resume"
      /\ "error" \in Kinds /\ "error" # "stop"
  BY CalmIs DEF Kinds
<1>3. \/ t = RaiseError(s, "error")
      \/ t = RaiseError(Consume(s, a), "error")
      \/ MayBegin(s, a) /\ t = Acquire(s, a, o, input)
  BY <1>1 DEF ResumeOperation, MayBegin
<1>4. CASE t = RaiseError(s, "error")
  BY <1>1, <1>2, <1>4, ErrorLively
<1>5. CASE t = RaiseError(Consume(s, a), "error")
  <2>1. PICK c : c = Consume(s, a)
    OBVIOUS
  <2>2. Calm(c) /\ c.stack = s.stack
    BY <2>1, ConsumeLive
  <2>3. c.stack # <<>> /\ Last(c.stack).k # "resume" /\ Typed(c) /\ Live(c)
    BY <1>2, <2>2, CalmIs
  <2>4. Lively(RaiseError(c, "error"))
    BY <1>2, <2>3, ErrorLively
  <2> QED
    BY <1>1, <1>5, <2>1, <2>4
<1>6. CASE MayBegin(s, a) /\ t = Acquire(s, a, o, input)
  BY <1>1, <1>6, AcquireLively
<1> QED
  BY <1>3, <1>4, <1>5, <1>6

(* The methods of an operation.                                              *)
LEMMA OperationMethodLively ==
  ASSUME NEW s, Calm(s), Last(s.stack).k \in {"call", "delegate"},
         NEW a \in Operations, Spares(s, a), NEW o \in Requests,
         NEW input \in Nat, input \in Exist(s)
  PROVE  Lively(OperationMethod(s, a, o, input))
<1>1. PICK t : t = OperationMethod(s, a, o, input)
  OBVIOUS
<1>2. /\ s.stack # <<>> /\ Typed(s) /\ Live(s) /\ Clear(s) /\ Last(s.stack).k # "resume"
      /\ "error" \in Kinds /\ "error" # "stop" /\ "value" \in Outcomes \ {"resumed", "error"} /\ FALSE \in BOOLEAN
      /\ s.ret.k \notin {"error", "propagate"} /\ s.ret.k # "completed"
  BY CalmIs DEF Kinds, Outcomes
<1>3. PICK c : c = Consume(s, a)
  OBVIOUS
<1>4. Calm(c) /\ c.stack = s.stack
  BY <1>3, ConsumeLive
<1>5. /\ c.stack # <<>> /\ Typed(c) /\ Live(c) /\ Clear(c) /\ Last(c.stack).k # "resume"
      /\ c.ret.k \notin {"error", "propagate"} /\ c.ret.k # "completed"
  BY <1>2, <1>4, CalmIs
<1>6. \/ \E r \in {"default", "send", "throw"} : t = ResumeOperation(s, a, r, input)
      \/ t = RaiseError(c, "error")
      \/ t = [s EXCEPT !.ret = Gives("value", FALSE)]
      \/ t = [c EXCEPT !.ret = Gives("value", FALSE)]
  BY <1>1, <1>3 DEF OperationMethod, Requests
<1>7. ASSUME NEW r \in {"default", "send", "throw"}, t = ResumeOperation(s, a, r, input)
      PROVE  Lively(t)
  <2>1. r \in Requests \cup {"default"}
    BY <1>7 DEF Requests
  <2> QED
    BY <1>7, <2>1, ResumeOperationLively
<1>8. CASE t = RaiseError(c, "error")
  <2>1. Lively(RaiseError(c, "error"))
    BY <1>2, <1>5, ErrorLively
  <2> QED
    BY <1>1, <1>8, <2>1
<1>9. CASE t = [s EXCEPT !.ret = Gives("value", FALSE)]
  <2>1. Lively([s EXCEPT !.ret = Gives("value", FALSE)])
    BY <1>2, AnsweredLively
  <2> QED
    BY <1>1, <1>9, <2>1
<1>10. CASE t = [c EXCEPT !.ret = Gives("value", FALSE)]
  <2>1. Lively([c EXCEPT !.ret = Gives("value", FALSE)])
    BY <1>2, <1>5, AnsweredLively
  <2> QED
    BY <1>1, <1>10, <2>1
<1> QED
  BY <1>1, <1>6, <1>7, <1>8, <1>9, <1>10

(* An awaitable of the program answers.                                      *)
LEMMA AnswersLively ==
  ASSUME NEW s, Calm(s), Last(s.stack).k # "resume", NEW t \in Answers(s)
  PROVE  Lively(t)
<1>1. /\ s.stack # <<>> /\ Typed(s) /\ Live(s) /\ Clear(s) /\ TRUE \in BOOLEAN
      /\ \A k \in {"pending", "completed"} : k \in Outcomes \ {"resumed", "error"}
      /\ \A kind \in {"error", "stopasync"} : kind \in Kinds /\ kind # "stop"
      /\ s.ret.k \notin {"error", "propagate"} /\ s.ret.k # "completed"
  BY CalmIs DEF Kinds, Outcomes
<1>2. CASE \E k \in {"pending", "completed"} : t = [s EXCEPT !.ret = Gives(k, TRUE)]
  <2>1. PICK k \in {"pending", "completed"} : t = [s EXCEPT !.ret = Gives(k, TRUE)]
    BY <1>2
  <2>2. Lively([s EXCEPT !.ret = Gives(k, TRUE)])
    BY <1>1, AnsweredLively
  <2> QED
    BY <2>1, <2>2
<1>3. CASE \E kind \in {"error", "stopasync"} : t = RaiseError(s, kind)
  <2>1. PICK kind \in {"error", "stopasync"} : t = RaiseError(s, kind)
    BY <1>3
  <2>2. kind \in Kinds /\ kind # "stop"
    BY <1>1
  <2>3. Lively(RaiseError(s, kind))
    BY <1>1, <2>2, ErrorLively
  <2> QED
    BY <2>1, <2>3
<1> QED
  BY <1>2, <1>3 DEF Answers

(* The __next__ of an awaitable.                                             *)
LEMMA StartLively ==
  ASSUME NEW s, Calm(s), Last(s.stack).k \in {"await", "forward", "anext"}, Awaits(s), NEW x \in Awaited,
         x \in Operations => Spares(s, x), NEW t \in Start(s, x)
  PROVE  Lively(t)
<1>0. s.ctx.raised \in Nat /\ NoException \in Nat /\ NoException \in Exist(s) /\ s.stack \in Seq(Frame)
  BY CalmIs
<1>1. PICK f : f = [k |-> "start", ambient |-> s.ctx.raised]
  OBVIOUS
<1>2. f \in Frame /\ f.k = "start" /\ f.ambient = s.ctx.raised /\ f.k \in Helpers \ {"operation"}
  BY <1>0, <1>1 DEF Frame, Helpers
<1>3. Above(Last(s.stack), f)
  BY <1>2 DEF Above, Callers
<1>4. \A j \in DOMAIN s.stack : Under(s.stack, j, Len(s.stack) + 1) =>
          Serves(s.stack[j], f, s.ctx.ambient) /\ Bears(s.stack[j], f)
  <2> SUFFICES ASSUME NEW j \in DOMAIN s.stack, Under(s.stack, j, Len(s.stack) + 1)
               PROVE  Serves(s.stack[j], f, s.ctx.ambient) /\ Bears(s.stack[j], f)
    OBVIOUS
  <2>1. Serves(s.stack[j], f, s.ctx.ambient)
    BY <1>2 DEF Calm, Open, Ready, Serves
  <2>2. Clean(s.stack[j], s.ctx.raised) /\ s.stack[j].k # "call"
    BY CalmIs DEF Awaits
  <2> QED
    BY <1>2, <2>1, <2>2 DEF Bears
<1>5. PICK u : u = Push(s, f)
  OBVIOUS
<1>6. Calm(u) /\ Last(u.stack) = f /\ u.stack = Append(s.stack, f) /\ u.ctx = s.ctx
  BY <1>2, <1>3, <1>4, <1>5, PushCalm
<1>7. \/ x \in Operations /\ t = ResumeOperation(u, x, "default", NoException)
      \/ x \in Generators /\ t = ResumeGenerator(u, x, "next", NoException)
      \/ t \in Answers(s)
  BY <1>1, <1>5 DEF Start
<1>8. /\ "next" \in Requests /\ "next" # "throw" /\ "default" \in Requests \cup {"default"}
      /\ NoException \in Exist(u)
  BY DEF Requests, Exist
<1>9. CASE x \in Operations /\ t = ResumeOperation(u, x, "default", NoException)
  <2>1. Spares(u, x)
    <3> SUFFICES ASSUME Protocol[x] = "close", NEW j \in DOMAIN u.stack,
                        Under(u.stack, j, Len(u.stack) + 1), u.stack[j].k = "await"
                 PROVE  u.stack[j].raised = NoException
      BY DEF Spares
    <3>1. j \in DOMAIN s.stack /\ Under(s.stack, j, Len(s.stack) + 1) /\ u.stack[j] = s.stack[j]
      BY <1>0, <1>2, <1>6, ServedStill
    <3> QED
      BY <1>9, <3>1 DEF Spares
  <2> QED
    BY <1>0, <1>2, <1>6, <1>8, <1>9, <2>1, ResumeOperationLively
<1>10. CASE x \in Generators /\ t = ResumeGenerator(u, x, "next", NoException)
  <2>1. x \in Plain
    BY <1>10, SuspendedAssumption DEF Awaited
  <2>2. Resumes(Last(u.stack), x)
    BY <1>2, <1>6, <2>1 DEF Resumes
  <2> QED
    BY <1>0, <1>6, <1>8, <1>10, <2>2, ResumeGeneratorLively
<1>11. CASE t \in Answers(s)
  BY <1>11, AnswersLively
<1> QED
  BY <1>7, <1>9, <1>10, <1>11

-----------------------------------------------------------------------------
(* What is held: delegation *)

(* A body forwards to its delegate.                                          *)
Forwards(s) ==
  \A j \in DOMAIN s.stack : Under(s.stack, j, Len(s.stack) + 1) => s.stack[j].k = "dispatch"

(* Calm, but the exception that is injected may be pending.                  *)
Still(s) == Open(s) /\ s.ret.k # "completed" /\ Live(s)

LEMMA StillIs ==
  ASSUME NEW s, Still(s)
  PROVE  /\ Base(s) /\ Ready(s) /\ Typed(s) /\ s.stack # <<>> /\ s.stack \in Seq(Frame) /\ Live(s)
         /\ s.ret.k \notin {"error", "propagate", "completed"} /\ s.ctx.raised \in Exist(s) /\ s.ctx.raised \in Nat
         /\ NoException \in Exist(s) /\ NoException \in Nat
<1>1. /\ Base(s) /\ Ready(s) /\ Typed(s) /\ s.stack # <<>> /\ s.stack \in Seq(Frame) /\ Live(s)
      /\ s.ctx.raised \in Nat /\ s.ret.k \notin {"error", "propagate", "completed"}
  BY DEF Still, Open, Base, Typed
<1>2. s.ctx.raised \in Exist(s)
  BY <1>1 DEF Live, Alive, Registers
<1>3. NoException \in Exist(s) /\ NoException \in Nat
  BY DEF Exist, NoException
<1> QED
  BY <1>1, <1>2, <1>3

(* anext() with a default takes part in the call.                            *)
LEMMA AnextCalm ==
  ASSUME NEW s, Still(s), Lost(s), Awaits(s), Last(s.stack).k \in {"await", "dispatch"}, NEW d \in Defaults,
         NEW o \in Requests, NEW n \in Flags
  PROVE  LET u == Push([s EXCEPT !.next[d] = n], [k |-> "anext", next |-> d, op |-> o]) IN
         /\ Still(u) /\ Lost(u) /\ Awaits(u) /\ Last(u.stack).k = "anext" /\ u.ctx = s.ctx
         /\ Clear(s) => Clear(u)
         /\ Forwards(s) => Forwards(u)
         /\ \A a : Spares(s, a) => Spares(u, a)
<1>1. PICK v : v = [s EXCEPT !.next[d] = n]
  OBVIOUS
<1>2. /\ Typed(s) /\ Base(s) /\ Placed(s.stack) /\ Live(s) /\ s.stack \in Seq(Frame) /\ s.ret.k # "completed"
  BY StillIs DEF Base
<1>3. /\ Typed(v) /\ v.ctx = s.ctx /\ v.stack = s.stack /\ v.ret = s.ret /\ v.gen = s.gen
  BY <1>1, <1>2 DEF Typed
<1>4. Live(v) /\ (Clear(s) => Clear(v))
  BY <1>2, <1>3, LiveFlags DEF Clear
<1>5. PICK f : f = [k |-> "anext", next |-> d, op |-> o]
  OBVIOUS
<1>6. f \in Frame /\ f.k = "anext" /\ f.k \in Helpers /\ f.k \notin Callers /\ Held(f) = {}
  <2>1. f \in Frame /\ f.k = "anext"
    BY <1>5 DEF Frame
  <2> QED
    BY <2>1, HeldIs DEF Helpers, Callers
<1>7. PICK u : u = Push(v, f)
  OBVIOUS
<1>8. Open(u) /\ Lost(u) /\ Last(u.stack).k = "anext" /\ u.ctx = s.ctx
  BY <1>1, <1>5, <1>7, AnextOpen DEF Still
<1>9. u.stack = Append(s.stack, f) /\ u.ret = s.ret
  BY <1>3, <1>6, <1>7, PushType
<1>10. Live(u)
  <2>1. \A j \in DOMAIN v.stack : Under(v.stack, j, Len(v.stack) + 1) => Bears(v.stack[j], f)
    BY <1>3, <1>6 DEF Awaits, Bears
  <2> QED
    BY <1>3, <1>4, <1>6, <1>7, <2>1, PushLive
<1>11. Clear(s) => Clear(u)
  BY <1>3, <1>4, <1>6, <1>7, PushClear
<1>12. Awaits(u) /\ (Forwards(s) => Forwards(u)) /\ \A a : Spares(s, a) => Spares(u, a)
  <2>1. ASSUME NEW j \in DOMAIN u.stack, Under(u.stack, j, Len(u.stack) + 1)
        PROVE  j \in DOMAIN s.stack /\ Under(s.stack, j, Len(s.stack) + 1) /\ u.stack[j] = s.stack[j]
    BY <1>2, <1>6, <1>9, <2>1, ServedStill
  <2> QED
    BY <2>1 DEF Awaits, Forwards, Spares
<1> QED
  BY <1>1, <1>2, <1>5, <1>7, <1>8, <1>9, <1>10, <1>11, <1>12 DEF Still

(* anext() with a default is advanced.                                       *)
LEMMA StartDefaultLively ==
  ASSUME NEW s, Calm(s), Lost(s), Awaits(s), Last(s.stack).k \in {"await", "dispatch"}, NEW d \in Defaults,
         Spares(s, Wrapped[d]), NEW t \in StartDefault(s, d)
  PROVE  Lively(t)
<1>1. /\ Typed(s) /\ Live(s) /\ s.stack # <<>> /\ s.next[d] \in Flags /\ s.next \in [Defaults -> Flags]
      /\ "error" \in Kinds /\ "error" # "stop" /\ "next" \in Requests /\ Last(s.stack).k # "resume"
  BY CalmIs DEF Typed, Kinds, Requests
<1>2. PICK n : n = [s.next[d] EXCEPT !.running = TRUE, !.started = TRUE]
  OBVIOUS
<1>3. n \in Flags
  BY <1>1, <1>2 DEF Flags
<1>4. PICK v : v = [s EXCEPT !.next[d] = n]
  OBVIOUS
<1>5. PICK u : u = Push(v, [k |-> "anext", next |-> d, op |-> "next"])
  OBVIOUS
<1>6. Calm(u) /\ Awaits(u) /\ Last(u.stack).k = "anext" /\ Spares(u, Wrapped[d])
  <2>1. Still(s) /\ Clear(s)
    BY DEF Calm, Still
  <2> QED
    BY <1>1, <1>3, <1>4, <1>5, <2>1, AnextCalm DEF Calm, Still
<1>7. t = RaiseError(s, "error") \/ t \in Start(u, Wrapped[d])
  <2>1. v = [s EXCEPT !.next[d].running = TRUE, !.next[d].started = TRUE]
    BY <1>1, <1>2, <1>4 DEF Typed
  <2> QED
    BY <1>5, <2>1, Zenon DEF StartDefault
<1>8. CASE t = RaiseError(s, "error")
  BY <1>1, <1>8, ErrorLively
<1>9. CASE t \in Start(u, Wrapped[d])
  <2>1. Wrapped[d] \in Awaited
    BY SuspendedAssumption DEF Awaited
  <2> QED
    BY <1>6, <1>9, <2>1, StartLively
<1> QED
  BY <1>7, <1>8, <1>9

(* generator_delegate_start.                                                 *)
LEMMA DelegateStartLively ==
  ASSUME NEW s, Calm(s), Last(s.stack).k = "await", NEW x \in Awaited, Last(s.stack).on = x,
         Closes(x) => Last(s.stack).raised = NoException, NEW t \in DelegateStart(s, x)
  PROVE  Lively(t)
<1>0. \A j \in DOMAIN s.stack : Under(s.stack, j, Len(s.stack) + 1) => s.stack[j] = Last(s.stack)
  <2>1. s.stack \in Seq(Frame) /\ s.stack # <<>> /\ Last(s.stack).k \in Callers \cup {"resume"}
    BY CalmIs DEF Callers
  <2> QED
    BY <2>1, CallerOnTop
<1>1. Awaits(s)
  BY <1>0 DEF Awaits
<1>2. x \in Operations => Spares(s, x)
  BY <1>0 DEF Spares, Closes
<1>3. CASE x \in Defaults
  <2>1. Lost(s)
    BY <1>0, <1>3 DEF Lost, Keeps
  <2>2. Spares(s, Wrapped[x])
    <3>1. Wrapped[x] \in Operations
      BY <1>3, SuspendedAssumption
    <3> QED
      BY <1>0, <1>3, <3>1 DEF Spares, Closes
  <2> QED
    BY <1>1, <1>3, <2>1, <2>2, StartDefaultLively DEF DelegateStart
<1>4. CASE x \notin Defaults
  BY <1>1, <1>2, <1>4, StartLively DEF DelegateStart
<1> QED
  BY <1>3, <1>4

(* A value or an exception goes on to the delegate's method.                 *)
LEMMA DelegateMethodLively ==
  ASSUME NEW s, Still(s), Last(s.stack).k \in {"dispatch", "anext"}, Forwards(s), NEW x \in Awaited,
         NEW o \in Requests \ {"next"}, NEW input \in Nat, input \in Exist(s),
         o = "close" => s.ctx.raised # NoException, IF o = "send" THEN Clear(s) ELSE Lost(s),
         NEW t \in DelegateMethod(s, x, o, input)
  PROVE  Lively(t)
<1>0. /\ Typed(s) /\ Base(s) /\ Ready(s) /\ s.stack # <<>> /\ s.stack \in Seq(Frame) /\ Live(s)
      /\ s.ctx.raised \in Nat /\ s.ctx.raised \in Exist(s)
      /\ NoException \in Nat /\ NoException \in Exist(s) /\ s.ret.k # "completed"
      /\ s.ret.k \notin {"error", "propagate"}
  BY StillIs
<1>1. PICK injected : injected = IF o \in {"throw", "close"} THEN s.ctx.raised ELSE NoException
  OBVIOUS
<1>2. injected \in Nat /\ injected \in Exist(s)
  BY <1>0, <1>1
<1>3. PICK taken : taken = IF injected = NoException THEN s ELSE [s EXCEPT !.ctx.raised = NoException]
  OBVIOUS
<1>4. /\ Typed(taken) /\ Same(s, taken) /\ taken.ret = s.ret /\ taken.ctx.raised \in {NoException, s.ctx.raised}
      /\ taken.ctx.exceptions = s.ctx.exceptions
      /\ injected = NoException => taken.ctx.raised = s.ctx.raised
  <2>1. CASE injected = NoException
    BY <1>0, <1>3, <2>1 DEF Same
  <2>2. CASE injected # NoException
    <3>1. taken.ctx.exceptions = s.ctx.exceptions
      BY <1>0, <1>3, <2>2 DEF Typed
    <3> QED
      BY <1>0, <1>3, <2>2, <3>1, SetRaised
  <2> QED
    BY <2>1, <2>2
<1>5. /\ taken.stack = s.stack /\ taken.gen = s.gen /\ taken.ctx.ambient = s.ctx.ambient
      /\ taken.ctx.handled = s.ctx.handled /\ taken.ctx.raised \in Nat
  BY <1>4 DEF Same, Typed
<1>6. Calm(taken)
  <2>1. Base(taken)
    BY <1>0, <1>4, <1>5, SameIsSame, BaseSame
  <2>2. injected # NoException => Lost(s)
    BY <1>1 DEF Requests
  <2>3. Ready(taken)
    BY <1>0, <1>4, <1>5, <2>2 DEF Ready, Lost
  <2>4. Exist(taken) = Exist(s)
    BY <1>4 DEF Exist
  <2>5. Linked(taken) /\ Registers(taken.ctx) \subseteq Exist(taken)
    <3>1. Linked(taken)
      BY <1>0, <1>4, <2>4 DEF Live, Alive, Linked
    <3>2. Registers(s.ctx) \subseteq Exist(s)
      BY <1>0 DEF Live, Alive
    <3> QED
      BY <1>0, <1>4, <1>5, <2>4, <3>1, <3>2 DEF Registers
  <2>6. Live(taken)
    BY <1>0, <1>5, <2>4, <2>5, LiveSame
  <2>7. Clear(taken)
    <3>1. CASE o = "send"
      <4>1. taken.ctx.raised = s.ctx.raised
        BY <1>1, <1>4, <3>1
      <4> QED
        BY <1>4, <1>5, <3>1, <4>1 DEF Clear
    <3>2. CASE o # "send"
      <4>1. taken.ctx.raised = NoException
        <5>1. o \in {"throw", "close"}
          BY <3>2 DEF Requests
        <5>2. injected # NoException => taken.ctx.raised = NoException
          BY <1>0, <1>3 DEF Typed
        <5> QED
          BY <1>1, <1>4, <5>1, <5>2
      <4> QED
        BY <1>0, <1>4, <1>5, <4>1 DEF Clear, Clean, Forwards
    <3> QED
      BY <3>1, <3>2
  <2> QED
    BY <1>0, <1>4, <1>5, <2>1, <2>3, <2>6, <2>7 DEF Calm, Open
<1>7. PICK f : f = [k |-> "delegate", op |-> o, injected |-> injected, ambient |-> taken.ctx.raised]
  OBVIOUS
<1>8. /\ f \in Frame /\ f.k = "delegate" /\ f.op = o /\ f.injected = injected
      /\ f.ambient = taken.ctx.raised /\ f.k \in Helpers \ {"operation"}
  <2>1. o \in {"send", "throw", "close"}
    BY DEF Requests
  <2> QED
    BY <1>2, <1>5, <1>7, <2>1 DEF Frame, DelegateFrame, Helpers
<1>9. Above(Last(taken.stack), f)
  BY <1>5, <1>8 DEF Above, Callers
<1>10. f.k = "delegate" /\ f.op = "close" => f.injected # NoException
  BY <1>1, <1>8
<1>11. f.injected \in Exist(taken)
  BY <1>2, <1>4, <1>8 DEF Exist
<1>12. \A j \in DOMAIN taken.stack : Under(taken.stack, j, Len(taken.stack) + 1) =>
          Serves(taken.stack[j], f, taken.ctx.ambient) /\ Bears(taken.stack[j], f)
  <2> SUFFICES ASSUME NEW j \in DOMAIN taken.stack, Under(taken.stack, j, Len(taken.stack) + 1)
               PROVE  /\ Keeps(taken.stack[j]) => f.op = "send" /\ f.ambient = taken.stack[j].raised
                      /\ taken.stack[j].k = "dispatch" /\ (f.op = "send" => Clean(taken.stack[j], f.ambient))
    BY <1>8 DEF Serves, Bears
  <2>1. Keeps(taken.stack[j]) => o = "send"
    BY <1>5 DEF Lost
  <2>2. taken.stack[j].k = "dispatch" /\ Clean(taken.stack[j], taken.ctx.raised)
    BY <1>5, <1>6, CalmIs DEF Forwards
  <2> QED
    BY <1>6, <1>8, <2>1, <2>2 DEF Calm, Open, Ready
<1>13. PICK u : u = Push(taken, f)
  OBVIOUS
<1>14. Calm(u) /\ Last(u.stack) = f /\ u.stack = Append(s.stack, f) /\ u.ctx = taken.ctx
  BY <1>5, <1>6, <1>8, <1>9, <1>10, <1>11, <1>12, <1>13, PushCalm
<1>15. /\ u.stack # <<>> /\ Typed(u) /\ Live(u) /\ Clear(u) /\ Last(u.stack).k # "resume"
       /\ Last(u.stack).k # "start" /\ input \in Exist(u) /\ u.ret.k \notin {"error", "propagate"}
       /\ u.ret.k # "completed"
  <2>1. input \in Exist(u)
    BY <1>4, <1>14 DEF Exist
  <2> QED
    BY <1>8, <1>14, <2>1, CalmIs
<1>16. \/ x \in Operations /\ t = OperationMethod(u, x, o, input)
       \/ x \in Generators /\ t = Method(u, x, o, input)
       \/ \E a \in Answers(u) :
             t = [a EXCEPT !.ret = IF a.ret = Error THEN @ ELSE Gives("value", TRUE)]
       \/ /\ injected # NoException
          /\ t = [RaiseValue(s, injected, NoException) EXCEPT !.ret = Gives("propagate", FALSE)]
  BY <1>1, <1>3, <1>7, <1>13, Zenon DEF DelegateMethod
<1>17. CASE x \in Operations /\ t = OperationMethod(u, x, o, input)
  <2>1. Spares(u, x)
    <3> SUFFICES ASSUME NEW j \in DOMAIN u.stack, Under(u.stack, j, Len(u.stack) + 1), u.stack[j].k = "await"
                 PROVE  FALSE
      BY DEF Spares
    <3>1. j \in DOMAIN s.stack /\ Under(s.stack, j, Len(s.stack) + 1) /\ u.stack[j] = s.stack[j]
      BY <1>0, <1>8, <1>14, ServedStill
    <3> QED
      BY <3>1 DEF Forwards
  <2> QED
    BY <1>8, <1>14, <1>15, <1>17, <2>1, OperationMethodLively
<1>18. CASE x \in Generators /\ t = Method(u, x, o, input)
  <2>1. x \in Plain
    BY <1>18, SuspendedAssumption DEF Awaited
  <2> QED
    BY <1>8, <1>14, <1>15, <1>18, <2>1, MethodLively
<1>19. ASSUME NEW a \in Answers(u),
              t = [a EXCEPT !.ret = IF a.ret = Error THEN @ ELSE Gives("value", TRUE)]
       PROVE  Lively(t)
  <2>0. /\ TRUE \in BOOLEAN /\ "value" \in Outcomes \ {"resumed", "error"}
        /\ \A kind \in {"error", "stopasync"} : kind \in Kinds /\ kind # "stop"
    BY DEF Outcomes, Kinds
  <2>1. CASE \E k \in {"pending", "completed"} : a = [u EXCEPT !.ret = Gives(k, TRUE)]
    <3>1. t = [u EXCEPT !.ret = Gives("value", TRUE)]
      <4>1. a.ret # Error
        BY <1>15, <2>1 DEF Typed, Gives, Error
      <4> QED
        BY <1>15, <1>19, <2>1, <4>1 DEF Typed
    <3>2. Lively([u EXCEPT !.ret = Gives("value", TRUE)])
      BY <1>15, <2>0, AnsweredLively
    <3> QED
      BY <3>1, <3>2
  <2>2. CASE \E kind \in {"error", "stopasync"} : a = RaiseError(u, kind)
    <3>1. PICK kind \in {"error", "stopasync"} : a = RaiseError(u, kind)
      BY <2>2
    <3>2. kind \in Kinds
      BY <2>0
    <3>3. Typed(a) /\ a.ret = Error
      BY <1>15, <3>1, <3>2, RaiseErrorType
    <3>4. t = a
      BY <1>19, <3>3 DEF Typed
    <3>5. Lively(RaiseError(u, kind))
      BY <1>15, <2>0, ErrorLively
    <3> QED
      BY <3>1, <3>4, <3>5
  <2> QED
    BY <1>19, <2>1, <2>2 DEF Answers
<1>20. CASE /\ injected # NoException
            /\ t = [RaiseValue(s, injected, NoException) EXCEPT !.ret = Gives("propagate", FALSE)]
  <2>1. Lively([RaiseValue(s, injected, NoException) EXCEPT !.ret = Gives("propagate", FALSE)])
    BY <1>0, <1>2, ThrownLively
  <2> QED
    BY <1>20, <2>1
<1> QED
  BY <1>16, <1>17, <1>18, <1>19, <1>20

(* The same for anext() with a default.                                      *)
LEMMA ResumeDefaultLively ==
  ASSUME NEW s, Still(s), Lost(s), Last(s.stack).k = "dispatch", Forwards(s), NEW d \in Defaults,
         NEW o \in Requests \ {"next"}, NEW input \in Nat, input \in Exist(s),
         o = "close" => s.ctx.raised # NoException, o = "send" => Clear(s), NEW t \in ResumeDefault(s, d, o, input)
  PROVE  Lively(t)
<1>1. /\ Typed(s) /\ Live(s) /\ s.stack # <<>> /\ s.next[d] \in Flags /\ s.next \in [Defaults -> Flags]
      /\ "error" \in Kinds /\ "error" # "stop" /\ o \in Requests /\ Last(s.stack).k # "resume"
  BY StillIs DEF Typed, Kinds
<1>2. PICK n : n = [s.next[d] EXCEPT !.running = TRUE]
  OBVIOUS
<1>3. n \in Flags
  BY <1>1, <1>2 DEF Flags
<1>4. PICK v : v = [s EXCEPT !.next[d] = n]
  OBVIOUS
<1>5. PICK u : u = Push(v, [k |-> "anext", next |-> d, op |-> o])
  OBVIOUS
<1>6. Still(u) /\ Lost(u) /\ Forwards(u) /\ Last(u.stack).k = "anext" /\ u.ctx = s.ctx /\ (Clear(s) => Clear(u))
  <2>1. Awaits(s)
    BY DEF Awaits, Forwards
  <2> QED
    BY <1>1, <1>3, <1>4, <1>5, <2>1, AnextCalm
<1>7. t = RaiseError(s, "error") \/ t \in DelegateMethod(u, Wrapped[d], o, input)
  <2>1. v = [s EXCEPT !.next[d].running = TRUE]
    BY <1>1, <1>2, <1>4 DEF Typed
  <2> QED
    BY <1>5, <2>1, Zenon DEF ResumeDefault
<1>8. CASE t = RaiseError(s, "error")
  BY <1>1, <1>8, ErrorLively
<1>9. CASE t \in DelegateMethod(u, Wrapped[d], o, input)
  <2>1. Wrapped[d] \in Awaited
    BY SuspendedAssumption DEF Awaited
  <2>2. (o = "close" => u.ctx.raised # NoException) /\ input \in Exist(u)
    BY <1>6 DEF Exist
  <2> QED
    BY <1>6, <1>9, <2>1, <2>2, DelegateMethodLively
<1> QED
  BY <1>7, <1>8, <1>9

(* generator_delegate_resume.                                                *)
LEMMA DelegateResumeLively ==
  ASSUME NEW s, Still(s), Last(s.stack).k = "dispatch", NEW x \in Awaited, Last(s.stack).on = x,
         NEW o \in Requests, Last(s.stack).op = o, o \in {"next", "send"} => Clear(s),
         NEW input \in Nat, input \in Exist(s),
         o = "close" => s.ctx.raised # NoException, NEW t \in DelegateResume(s, x, o, input)
  PROVE  Lively(t)
<1>0. \A j \in DOMAIN s.stack : Under(s.stack, j, Len(s.stack) + 1) => s.stack[j] = Last(s.stack)
  <2>1. s.stack \in Seq(Frame) /\ s.stack # <<>> /\ Last(s.stack).k \in Callers \cup {"resume"}
    BY StillIs DEF Callers
  <2> QED
    BY <2>1, CallerOnTop
<1>1. x \in Defaults \/ o \notin {"next", "send"} => Lost(s)
  BY <1>0 DEF Lost, Keeps
<1>2. Forwards(s) /\ Awaits(s) /\ \A a : Spares(s, a)
  BY <1>0 DEF Forwards, Awaits, Spares
<1>7. o = "next" => Calm(s)
  BY DEF Calm, Still
<1>3. CASE x \in Defaults /\ o = "next"
  BY <1>1, <1>2, <1>3, <1>7, StartDefaultLively DEF DelegateResume
<1>4. CASE x \in Defaults /\ o # "next"
  BY <1>1, <1>2, <1>4, ResumeDefaultLively DEF DelegateResume
<1>5. CASE x \notin Defaults /\ o = "next"
  <2>1. PICK f : f = [k |-> "forward"]
    OBVIOUS
  <2>2. f \in Frame /\ f.k = "forward" /\ f.k \in Helpers \ {"operation"}
    BY <2>1 DEF Frame, Helpers
  <2>3. /\ Above(Last(s.stack), f)
        /\ \A j \in DOMAIN s.stack : Under(s.stack, j, Len(s.stack) + 1) =>
             Serves(s.stack[j], f, s.ctx.ambient) /\ Bears(s.stack[j], f)
    BY <1>2, <2>2 DEF Above, Callers, Serves, Bears, Awaits
  <2>4. PICK u : u = Push(s, f)
    OBVIOUS
  <2>5. Calm(u) /\ Last(u.stack) = f /\ u.stack = Append(s.stack, f)
    BY <1>5, <1>7, <2>2, <2>3, <2>4, PushCalm
  <2>6. Awaits(u) /\ \A a : Spares(u, a)
    <3>1. ASSUME NEW j \in DOMAIN u.stack, Under(u.stack, j, Len(u.stack) + 1)
          PROVE  u.stack[j].k = "dispatch"
      <4>1. s.stack \in Seq(Frame)
        BY StillIs
      <4>2. j \in DOMAIN s.stack /\ Under(s.stack, j, Len(s.stack) + 1) /\ u.stack[j] = s.stack[j]
        BY <2>2, <2>5, <3>1, <4>1, ServedStill
      <4> QED
        BY <1>2, <4>2 DEF Forwards
    <3> QED
      BY <3>1 DEF Awaits, Spares
  <2>7. t \in Start(u, x)
    BY <1>5, <2>1, <2>4 DEF DelegateResume
  <2> QED
    BY <2>2, <2>5, <2>6, <2>7, StartLively
<1>6. CASE x \notin Defaults /\ o # "next"
  <2>1. t \in DelegateMethod(s, x, o, input) /\ o \in Requests \ {"next"}
    BY <1>6 DEF DelegateResume
  <2>2. o # "send" => Lost(s)
    BY <1>1, <1>6 DEF Requests
  <2> QED
    BY <1>2, <2>1, <2>2, DelegateMethodLively
<1> QED
  BY <1>3, <1>4, <1>5, <1>6

-----------------------------------------------------------------------------
(* What is held: returning *)

(* What the call that ends kept for the code that waits.                     *)
LEMMA Borne ==
  ASSUME NEW s, Typed(s), Live(s), s.stack # <<>>, Last(s.stack).k \in Helpers,
         NEW t, t.stack = Front(s.stack), NEW j \in DOMAIN t.stack, Under(t.stack, j, Len(t.stack) + 1)
  PROVE  /\ j \in DOMAIN s.stack /\ t.stack[j] = s.stack[j] /\ Under(s.stack, j, Len(s.stack) + 1)
         /\ Under(s.stack, j, Len(s.stack)) /\ Bears(t.stack[j], Last(s.stack))
<1>1. s.stack \in Seq(Frame)
  BY DEF Typed
<1>2. PICK n \in Nat \ {0} : n = Len(s.stack)
  BY <1>1
<1>3. /\ DOMAIN s.stack = 1 .. n /\ DOMAIN t.stack = 1 .. n - 1 /\ Len(t.stack) = n - 1
      /\ Last(s.stack) = s.stack[n] /\ \A i \in 1 .. n - 1 : t.stack[i] = s.stack[i]
  BY <1>1, <1>2, FrontOne
<1>4. Under(s.stack, j, n) /\ Under(s.stack, j, Len(s.stack) + 1)
  <2>1. Len(t.stack) + 1 = n /\ n \in 1 .. n
    BY <1>3
  <2> QED
    BY <1>1, <1>2, <2>1, UnderFront
<1>5. j \in DOMAIN s.stack /\ n \in DOMAIN s.stack /\ t.stack[j] = s.stack[j]
  BY <1>3
<1> QED
  BY <1>2, <1>3, <1>4, <1>5 DEF Live, Bearing

(* A call that serves another ends, ...                                      *)
LEMMA PopLively ==
  ASSUME NEW s, Back(s), Lively(s), Last(s.stack).k \in Helpers,
         NEW t, t.stack = Front(s.stack), t.gen = s.gen, t.ctx = s.ctx, t.ret = s.ret
  PROVE  /\ Live(t) /\ Clear(t) /\ t.stack # <<>> /\ Above(Last(t.stack), Last(s.stack))
         /\ Last(t.stack).k # "resume" /\ Ends(Last(s.stack), s.ret.k) /\ Last(s.stack) \in Frame
         /\ Typed(s) /\ Base(s) /\ Ready(s) /\ Live(s) /\ Clear(s) /\ Chain(s) /\ s.stack # <<>>
         /\ s.ret.token \in BOOLEAN /\ s.ctx.raised \in Nat /\ s.ctx.raised \in Exist(s)
         /\ s.ret.k \notin {"none", "resumed"} /\ Exist(t) = Exist(s)
<1>1. /\ Typed(s) /\ Base(s) /\ Ready(s) /\ s.stack # <<>> /\ s.ret.k \notin {"none", "resumed"}
      /\ Ends(Last(s.stack), s.ret.k) /\ s.ret.token \in BOOLEAN /\ s.ctx.raised \in Nat
      /\ s.stack \in Seq(Frame)
  BY DEF Back, Good, Base, Typed
<1>2. Live(s) /\ Clear(s) /\ Chain(s)
  BY <1>1 DEF Lively
<1>3. s.ctx.raised \in Exist(s)
  BY <1>2 DEF Live, Alive, Registers
<1>4. Live(t) /\ Clear(t)
  BY <1>1, <1>2, FrontLive, FrontClear
<1>5. t.stack # <<>> /\ Above(Last(t.stack), Last(s.stack)) /\ Last(s.stack) \in Frame
  BY <1>1, PopPlaced, FrontOne DEF Helpers
<1>6. Last(t.stack).k # "resume"
  BY <1>5 DEF Above, Helpers, Callers
<1>7. Exist(t) = Exist(s)
  BY DEF Exist
<1> QED
  BY <1>1, <1>2, <1>3, <1>4, <1>5, <1>6, <1>7

(* ... and its result is that of the one it served.                          *)
LEMMA MethodReturnsLively ==
  ASSUME NEW s, Back(s), Lively(s), Last(s.stack).k = "method"
  PROVE  Lively(MethodReturns(s))
<1>1. PICK up : up = Pop(s)
  OBVIOUS
<1>2. /\ Typed(up) /\ up.stack = Front(s.stack) /\ up.gen = s.gen /\ up.ctx = s.ctx /\ up.ret = s.ret
  BY <1>1, PopType DEF Back, Good, Base
<1>3. /\ Live(up) /\ Clear(up) /\ up.stack # <<>> /\ Above(Last(up.stack), Last(s.stack))
      /\ Last(up.stack).k # "resume" /\ Ends(Last(s.stack), s.ret.k)
      /\ s.ret.token \in BOOLEAN /\ s.ret.k \notin {"none", "resumed"}
  BY <1>2, PopLively DEF Helpers
<1>4. /\ Last(up.stack).k # "start" /\ {"runtime", "stop"} \subseteq Kinds /\ FALSE \in BOOLEAN
      /\ "value" \in Outcomes \ {"resumed", "error"}
  BY <1>3 DEF Above, Kinds, Outcomes
<1>5. PICK t : t = MethodReturns(s)
  OBVIOUS
<1>6. \/ t = RaiseError(up, "runtime")
      \/ /\ s.ret.k \in {"yielded", "suspended", "returned"}
         /\ \E token \in BOOLEAN : t = [up EXCEPT !.ret = Gives("value", token)]
      \/ t = [RaiseStopIteration(up, FALSE) EXCEPT !.ret = Error]
      \/ s.ret.k = "error" /\ t = up
  BY <1>1, <1>3, <1>4, <1>5 DEF MethodReturns, Ends
<1>7. CASE t = RaiseError(up, "runtime")
  BY <1>2, <1>3, <1>4, <1>5, <1>7, ErrorLively
<1>8. CASE /\ s.ret.k \in {"yielded", "suspended", "returned"}
           /\ \E token \in BOOLEAN : t = [up EXCEPT !.ret = Gives("value", token)]
  <2>1. PICK token \in BOOLEAN : t = [up EXCEPT !.ret = Gives("value", token)]
    BY <1>8
  <2>2. Lively([up EXCEPT !.ret = Gives("value", token)])
    BY <1>2, <1>3, <1>4, <1>8, AnsweredLively
  <2> QED
    BY <1>5, <2>1, <2>2
<1>9. CASE t = [RaiseStopIteration(up, FALSE) EXCEPT !.ret = Error]
  <2>1. Lively([RaiseNew(up, "stop", FALSE) EXCEPT !.ret = Error])
    BY <1>2, <1>3, <1>4, RefusedLively
  <2> QED
    BY <1>5, <1>9, <2>1 DEF RaiseStopIteration
<1>10. CASE s.ret.k = "error" /\ t = up
  BY <1>2, <1>3, <1>4, <1>5, <1>10, Ending
<1> QED
  BY <1>6, <1>7, <1>8, <1>9, <1>10

(* An operation that was begun by the runtime ends with a StopIteration: it  *)
(* holds what was pending in the code that awaits it.                        *)
LEMMA AtStart ==
  ASSUME NEW s, Back(s), Lively(s), Last(s.stack).k = "operation",
         NEW t, t.stack = Front(s.stack), Last(t.stack).k = "start",
         s.ret.k = "error" => Protocol[Last(s.stack).op] = "close",
         NEW j \in DOMAIN t.stack, Under(t.stack, j, Len(t.stack)), t.stack[j].k = "await"
  PROVE  \/ Last(t.stack).ambient = NoException
         \/ s.ret.k # "error" /\ s.ctx.handled = <<>> /\ Last(t.stack).ambient = s.ctx.raised
<1>1. /\ Typed(s) /\ Base(s) /\ Ready(s) /\ s.stack # <<>> /\ s.ret.k \notin {"none", "resumed"}
      /\ s.stack \in Seq(Frame) /\ Ends(Last(s.stack), s.ret.k) /\ Live(s) /\ Clear(s)
  BY DEF Back, Good, Base, Typed, Lively
<1>2. PICK n \in Nat \ {0} : n = Len(s.stack)
  BY <1>1
<1>3. /\ DOMAIN s.stack = 1 .. n /\ DOMAIN t.stack = 1 .. n - 1 /\ Len(t.stack) = n - 1
      /\ Last(s.stack) = s.stack[n] /\ \A i \in 1 .. n - 1 : t.stack[i] = s.stack[i]
      /\ t.stack \in Seq(Frame)
  BY <1>1, <1>2, FrontOne
<1>4. j \in 1 .. n - 1 /\ n - 1 \in 1 .. n - 1
  BY <1>3
<1>5. Last(t.stack) = t.stack[n - 1] /\ t.stack[n - 1] = s.stack[n - 1] /\ t.stack[j] = s.stack[j]
      /\ j \in DOMAIN s.stack /\ n - 1 \in DOMAIN s.stack
  BY <1>3, <1>4 DEF Last
<1>6. Under(s.stack, j, n - 1)
  <2>1. Len(t.stack) = n - 1 /\ n - 1 \in 1 .. n
    BY <1>3, <1>4
  <2> QED
    BY <1>1, <1>2, <2>1, UnderFront
<1>7. Bears(s.stack[j], s.stack[n - 1])
  BY <1>1, <1>5, <1>6 DEF Live, Bearing
<1>8. Last(t.stack).ambient = s.stack[j].raised
  BY <1>5, <1>7 DEF Bears, Clean
<1>9. Under(t.stack, j, Len(t.stack) + 1)
  <2>1. \A m \in j + 1 .. n - 1 : t.stack[m].k \in Helpers
    BY <1>3, <1>5 DEF Under, Helpers
  <2> QED
    BY <1>3, <1>4, <2>1 DEF Under, Callers
<1>10. /\ Under(s.stack, j, Len(s.stack) + 1) /\ Bears(s.stack[j], Last(s.stack))
  BY <1>1, <1>5, <1>9, Borne DEF Helpers
<1>11. CASE s.ret.k = "error"
  BY <1>5, <1>8, <1>10, <1>11 DEF Bears
<1>12. CASE s.ret.k # "error"
  <2>1. s.ret.k \notin {"error", "propagate", "completed"}
    BY <1>1, <1>12 DEF Ends
  <2>2. Clean(s.stack[j], s.ctx.raised) /\ s.ctx.handled = s.stack[j].handled
    BY <1>1, <1>5, <1>10, <2>1 DEF Clear, Ready
  <2>3. Single(s.stack[j].handled, s.stack[j].raised)
    BY <1>1, <1>5, <1>10 DEF Live, Callings, Caller, Under
  <2> QED
    BY <1>5, <1>8, <1>12, <2>2, <2>3 DEF Clean, Single
<1> QED
  BY <1>11, <1>12

(* It ends with an item, or rests after an await.                            *)
LEMMA OperationReturnsLively ==
  ASSUME NEW s, Back(s), Lively(s), Last(s.stack).k = "operation"
  PROVE  Lively(OperationReturns(s))
<1>1. /\ Base(s) /\ Ready(s) /\ s.stack # <<>> /\ Typed(s)
      /\ s.ret.k \in {"yielded", "suspended", "returned", "error"} /\ s.ret.token \in BOOLEAN
      /\ s.ctx.raised \in Nat
  BY DEF Back, Good, Base, Typed, Ends
<1>2. PICK up : up = Pop(s)
  OBVIOUS
<1>3. /\ Typed(up) /\ up.stack = Front(s.stack) /\ up.gen = s.gen /\ up.ctx = s.ctx /\ up.ret = s.ret
  BY <1>1, <1>2, PopType
<1>4. /\ Live(up) /\ Clear(up) /\ up.stack # <<>> /\ Above(Last(up.stack), Last(s.stack))
      /\ Last(up.stack).k # "resume" /\ Live(s) /\ s.ctx.raised \in Exist(s)
  BY <1>1, <1>3, PopLively DEF Helpers
<1>5. PICK a \in Operations : a = Last(s.stack).op
  BY <1>1, PopType, FrameType
<1>6. PICK done : done = FinishOperation(up, a)
  OBVIOUS
<1>7. /\ Typed(done) /\ done.stack = up.stack /\ done.ctx = s.ctx /\ done.ret = s.ret
  BY <1>1, <1>2, <1>3, <1>5, <1>6, FinishBase DEF Base
<1>8. Live(done) /\ Clear(done)
  <2>1. PICK v : v = [s EXCEPT !.gen = done.gen]
    OBVIOUS
  <2>2. /\ Typed(v) /\ v.stack = s.stack /\ v.ctx = s.ctx /\ v.gen = done.gen
    BY <1>1, <1>7, <2>1 DEF Typed
  <2>3. \A g \in Generators : /\ done.gen[g].handled = s.gen[g].handled /\ done.gen[g].raised = s.gen[g].raised
                              /\ done.gen[g].delegate = s.gen[g].delegate
                              /\ done.gen[g].running = s.gen[g].running
    <3>1. PICK c : c = Consume(up, a)
      OBVIOUS
    <3>2. c.gen = s.gen /\ Typed(c)
      BY <1>3, <3>1, ConsumeType
    <3>3. done = [c EXCEPT !.gen[Receiver[a]].owned = FALSE]
      BY <1>6, <3>1 DEF FinishOperation
    <3> QED
      BY <3>2, <3>3 DEF Typed, Object
  <2>4. Live(v)
    BY <1>1, <1>4, <2>2, <2>3, LiveFlags DEF Base
  <2>5. Live(done)
    BY <1>1, <1>3, <1>7, <2>2, <2>4, FrontLive
  <2>6. Clear(done)
    BY <1>3, <1>4, <1>7 DEF Clear
  <2> QED
    BY <2>5, <2>6
<1>9. /\ done.stack # <<>> /\ Last(done.stack).k # "resume" /\ done.stack = Front(s.stack)
      /\ {"runtime", "stop", "stopasync"} \subseteq Kinds /\ FALSE \in BOOLEAN
      /\ "value" \in Outcomes \ {"resumed", "error"}
  BY <1>3, <1>4, <1>7 DEF Kinds, Outcomes
<1>10. PICK rested : rested = [up EXCEPT !.op[a].running = FALSE]
  OBVIOUS
<1>11. PICK t : t = OperationReturns(s)
  OBVIOUS
<1>12. \/ s.ret.k = "suspended" /\ t = [rested EXCEPT !.ret = Gives("value", s.ret.token)]
       \/ \E kind \in {"runtime", "stopasync"} : t = RaiseError(done, kind)
       \/ s.ret.k # "error" /\ t = RaiseError(done, "stop")
       \/ s.ret.k # "error" /\ t = [RaiseStopIteration(done, s.ret.token) EXCEPT !.ret = Error]
       \/ /\ s.ret.k = "error" /\ Protocol[a] = "close"
          /\ t = RaiseError([done EXCEPT !.ctx.raised = NoException], "stop")
       \/ s.ret.k = "error" /\ t = RaiseValue(New(done, "runtime", FALSE), Fresh(done), s.ctx.raised)
       \/ s.ret.k = "error" /\ KindOf(s, s.ctx.raised) # "stop" /\ t = done
  BY <1>1, <1>2, <1>5, <1>6, <1>10, <1>11 DEF OperationReturns
<1>13. CASE s.ret.k = "suspended" /\ t = [rested EXCEPT !.ret = Gives("value", s.ret.token)]
  <2>1. /\ Typed(rested) /\ rested.stack = up.stack /\ rested.ctx = s.ctx /\ rested.gen = s.gen
        /\ rested.ret = s.ret
    <3>1. up.op[a] \in Flags
      BY <1>3 DEF Typed
    <3>2. [up.op[a] EXCEPT !.running = FALSE] \in Flags
      BY <3>1 DEF Flags
    <3> QED
      BY <1>3, <1>10, <3>2 DEF Typed
  <2>2. Live(rested) /\ Clear(rested)
    BY <1>1, <1>3, <1>4, <2>1, FrontLive DEF Clear
  <2>3. Lively([rested EXCEPT !.ret = Gives("value", s.ret.token)])
    BY <1>1, <1>4, <1>9, <1>13, <2>1, <2>2, AnsweredLively
  <2> QED
    BY <1>11, <1>13, <2>3
<1>14. CASE \E kind \in {"runtime", "stopasync"} : t = RaiseError(done, kind)
  <2>1. PICK kind \in {"runtime", "stopasync"} : t = RaiseError(done, kind)
    BY <1>14
  <2>2. kind \in Kinds /\ kind # "stop"
    BY <1>9
  <2>3. Lively(RaiseError(done, kind))
    BY <1>7, <1>8, <1>9, <2>2, ErrorLively
  <2> QED
    BY <1>11, <2>1, <2>3
<1>15. ASSUME NEW token \in BOOLEAN, s.ret.k # "error"
       PROVE  Lively([RaiseNew(done, "stop", token) EXCEPT !.ret = Error])
  <2>1. ASSUME Last(done.stack).k = "start", NEW j \in DOMAIN done.stack,
               Under(done.stack, j, Len(done.stack)), done.stack[j].k = "await"
        PROVE  \/ Last(done.stack).ambient = NoException
               \/ done.ctx.handled = <<>> /\ Last(done.stack).ambient = done.ctx.raised
    BY <1>7, <1>9, <1>15, <2>1, AtStart
  <2> QED
    BY <1>7, <1>8, <1>9, <2>1, RefusedLively
<1>16. CASE s.ret.k # "error" /\ t = RaiseError(done, "stop")
  <2>1. Lively([RaiseNew(done, "stop", FALSE) EXCEPT !.ret = Error])
    BY <1>15, <1>16
  <2> QED
    BY <1>11, <1>16, <2>1 DEF RaiseError
<1>17. CASE s.ret.k # "error" /\ t = [RaiseStopIteration(done, s.ret.token) EXCEPT !.ret = Error]
  <2>1. Lively([RaiseNew(done, "stop", s.ret.token) EXCEPT !.ret = Error])
    BY <1>1, <1>15, <1>17
  <2> QED
    BY <1>11, <1>17, <2>1 DEF RaiseStopIteration
<1>18. CASE /\ s.ret.k = "error" /\ Protocol[a] = "close"
            /\ t = RaiseError([done EXCEPT !.ctx.raised = NoException], "stop")
  <2>1. PICK u : u = [done EXCEPT !.ctx.raised = NoException]
    OBVIOUS
  <2>2. NoException \in Nat /\ NoException \in Exist(u)
    BY DEF NoException, Exist
  <2>3. Typed(u) /\ Same(done, u) /\ u.ret = done.ret /\ u.ctx.raised = NoException
    BY <1>7, <2>1, <2>2, SetRaised
  <2>4. u.ctx.exceptions = done.ctx.exceptions
    BY <1>7, <2>1 DEF Typed
  <2>5. Live(u)
    <3>1. Exist(u) = Exist(done)
      BY <2>4 DEF Exist
    <3>2. Linked(u)
      BY <1>8, <2>4, <3>1 DEF Live, Alive, Linked
    <3>3. Registers(u.ctx) \subseteq Exist(u)
      BY <1>8, <2>2, <2>3, <3>1 DEF Live, Alive, Registers, Same
    <3> QED
      BY <1>8, <2>3, <3>1, <3>2, <3>3, LiveSame DEF Same
  <2>6. u.stack = done.stack
    BY <2>3 DEF Same
  <2>7. ASSUME Last(u.stack).k = "start", NEW j \in DOMAIN u.stack,
               Under(u.stack, j, Len(u.stack)), u.stack[j].k = "await"
        PROVE  Last(u.stack).ambient = NoException
    BY <1>5, <1>9, <1>18, <2>6, <2>7, AtStart
  <2>8. Lively([RaiseNew(u, "stop", FALSE) EXCEPT !.ret = Error])
    BY <1>9, <2>3, <2>5, <2>6, <2>7, RefusedLively
  <2> QED
    BY <1>11, <1>18, <2>1, <2>8 DEF RaiseError
<1>19. CASE s.ret.k = "error" /\ t = RaiseValue(New(done, "runtime", FALSE), Fresh(done), s.ctx.raised)
  <2>1. PICK u : u = New(done, "runtime", FALSE)
    OBVIOUS
  <2>2. PICK e : e = Fresh(done)
    OBVIOUS
  <2>3. PICK c \in Nat : c = s.ctx.raised
    BY <1>1
  <2>4. Typed(u) /\ Same(done, u) /\ u.ret = done.ret
    BY <1>7, <1>9, <2>1, NewType
  <2>5. Live(u) /\ e \in Exist(u) /\ c \in Exist(u) /\ e \in Nat /\ KindOf(u, e) = "runtime"
    <3>1. /\ Live(u) /\ Exist(done) \subseteq Exist(u) /\ e \in DOMAIN u.ctx.exceptions
          /\ KindOf(u, e) = "runtime"
      BY <1>7, <1>8, <1>9, <2>1, <2>2, NewLive
    <3>2. Exist(done) = Exist(s)
      BY <1>7 DEF Exist
    <3> QED
      BY <1>4, <2>2, <2>3, <3>1, <3>2, FreshType DEF Exist, Exceptions
  <2>6. t = RaiseValue(u, e, c)
    BY <1>19, <2>1, <2>2, <2>3
  <2>7. Typed(t) /\ Same(u, t) /\ t.ret = u.ret
    BY <2>4, <2>5, <2>6, RaiseValueType
  <2>8. Live(t) /\ t.ctx.raised = e /\ KindOf(t, e) = "runtime"
    BY <2>4, <2>5, <2>6, RaiseValueLive
  <2>9. t.stack = done.stack /\ t.ret.k = "error"
    BY <1>7, <1>19, <2>4, <2>7 DEF Same
  <2>10. Clear(t)
    BY <2>9 DEF Clear
  <2> QED
    BY <1>9, <1>11, <2>8, <2>9, <2>10, Ending
<1>20. CASE s.ret.k = "error" /\ KindOf(s, s.ctx.raised) # "stop" /\ t = done
  <2>1. KindOf(done, done.ctx.raised) # "stop" /\ done.ret.k # "resumed"
    BY <1>7, <1>20 DEF KindOf
  <2>2. Lively(done)
    BY <1>8, <1>9, <2>1, Ending
  <2> QED
    BY <1>11, <1>20, <2>2
<1> QED
  BY <1>11, <1>12, <1>13, <1>14, <1>16, <1>17, <1>18, <1>19, <1>20

(* What a body that forwards had pending is kept by its object.              *)
LEMMA ForwardedExists ==
  ASSUME NEW s, Base(s), Live(s), NEW j \in DOMAIN s.stack, s.stack[j].k = "dispatch"
  PROVE  s.stack[j].raised \in Exist(s)
<1>1. s.stack \in Seq(Frame) /\ Placed(s.stack) /\ s.stack[j].k \in Callers
  BY DEF Base, Typed, Callers
<1>2. s.stack[j].gen \in Generators
  BY <1>1, CallerGen
<1>3. s.gen[s.stack[j].gen].raised = s.stack[j].raised
  BY <1>1 DEF Live, Callings, Caller
<1> QED
  BY <1>2, <1>3 DEF Live, Alive

(* A StopIteration is the value of a delegate: what was pending before is    *)
(* pending again.                                                            *)
LEMMA TakeStopLively ==
  ASSUME NEW s, Typed(s), Live(s), s.stack # <<>>, Last(s.stack).k # "resume",
         NEW e \in Nat, e \in Exist(s),
         \A j \in DOMAIN s.stack : Under(s.stack, j, Len(s.stack) + 1) => e \in {NoException, s.stack[j].raised}
  PROVE  Lively(TakeStopIteration(s, e))
<1>1. PICK u : u = [s EXCEPT !.ctx.raised = e]
  OBVIOUS
<1>2. Typed(u) /\ Same(s, u) /\ u.ret = s.ret /\ u.ctx.raised = e
  BY <1>1, SetRaised
<1>3. u.ctx.exceptions = s.ctx.exceptions
  BY <1>1 DEF Typed
<1>4. PICK t : t = [u EXCEPT !.ret = Gives("completed", FALSE)]
  OBVIOUS
<1>5. Same(u, t) /\ t.ctx = u.ctx /\ t.ret.k = "completed"
  <2>1. "completed" \in Outcomes /\ FALSE \in BOOLEAN
    BY DEF Outcomes
  <2> QED
    BY <1>2, <1>4, <2>1, SetRet
<1>6. t = TakeStopIteration(s, e)
  BY <1>1, <1>4, Zenon DEF TakeStopIteration
<1>7. Exist(t) = Exist(s)
  BY <1>3, <1>5 DEF Exist
<1>8. Same(s, t) /\ t.ctx.raised = e
  BY <1>2, <1>5 DEF Same
<1>9. Live(t)
  <2>1. Linked(t)
    BY <1>3, <1>5, <1>7 DEF Live, Alive, Linked
  <2>2. Registers(t.ctx) \subseteq Exist(t)
    BY <1>7, <1>8 DEF Live, Alive, Registers, Same
  <2> QED
    BY <1>7, <1>8, <2>1, <2>2, LiveSame DEF Same
<1>10. Clear(t)
  BY <1>5, <1>8 DEF Clear, Same
<1> QED
  BY <1>5, <1>6, <1>8, <1>9, <1>10, Ending DEF Same

(* The first answer of a delegate.                                           *)
LEMMA StartReturnsLively ==
  ASSUME NEW s, Back(s), Lively(s), Last(s.stack).k = "start"
  PROVE  Lively(StartReturns(s))
<1>1. PICK up : up = Pop(s)
  OBVIOUS
<1>2. /\ Base(up) /\ up.stack = Front(s.stack) /\ up.gen = s.gen /\ up.ctx = s.ctx /\ up.ret = s.ret
      /\ Typed(up) /\ up.stack \in Seq(Frame) /\ Placed(up.stack)
  BY <1>1, PopBack, PopType DEF Back, Good, Base, Typed, Helpers
<1>3. /\ Live(up) /\ Clear(up) /\ up.stack # <<>> /\ Above(Last(up.stack), Last(s.stack))
      /\ Last(up.stack).k # "resume" /\ Ends(Last(s.stack), s.ret.k) /\ Last(s.stack) \in Frame
      /\ Typed(s) /\ Base(s) /\ Live(s) /\ Chain(s) /\ s.stack # <<>>
      /\ s.ret.token \in BOOLEAN /\ s.ctx.raised \in Exist(s) /\ Exist(up) = Exist(s)
  BY <1>2, PopLively DEF Helpers
<1>4. /\ Last(up.stack).k # "start" /\ {"pending", "completed"} \subseteq Outcomes \ {"resumed", "error"}
      /\ FALSE \in BOOLEAN /\ Last(s.stack).ambient \in Nat
  BY <1>3, FrameType DEF Above, Outcomes
<1>5. PICK t : t = StartReturns(s)
  OBVIOUS
<1>6. \/ s.ret.k # "error" /\ \E k \in {"pending", "completed"}, token \in BOOLEAN :
             t = [up EXCEPT !.ret = Gives(k, token)]
      \/ /\ s.ret.k = "error" /\ KindOf(s, s.ctx.raised) = "stop"
         /\ t = TakeStopIteration(up, Last(s.stack).ambient)
      \/ s.ret.k = "error" /\ t = up
  BY <1>1, <1>3, <1>4, <1>5 DEF StartReturns, Ends
<1>7. CASE s.ret.k # "error" /\ \E k \in {"pending", "completed"}, token \in BOOLEAN :
             t = [up EXCEPT !.ret = Gives(k, token)]
  <2>1. PICK k \in {"pending", "completed"}, token \in BOOLEAN : t = [up EXCEPT !.ret = Gives(k, token)]
    BY <1>7
  <2>2. up.ret.k \notin {"error", "propagate", "completed"}
    BY <1>2, <1>3, <1>7 DEF Ends
  <2>3. k \in Outcomes \ {"resumed", "error"}
    BY <1>4
  <2>4. Lively([up EXCEPT !.ret = Gives(k, token)])
    BY <1>2, <1>3, <2>2, <2>3, AnsweredLively
  <2> QED
    BY <1>5, <2>1, <2>4
<1>8. CASE /\ s.ret.k = "error" /\ KindOf(s, s.ctx.raised) = "stop"
           /\ t = TakeStopIteration(up, Last(s.stack).ambient)
  <2>1. PICK e \in Nat : e = Last(s.stack).ambient
    BY <1>4
  <2>2. ASSUME NEW j \in DOMAIN up.stack, Under(up.stack, j, Len(up.stack) + 1)
        PROVE  /\ Clean(up.stack[j], e) /\ up.stack[j].k \in {"await", "dispatch"}
               /\ j \in DOMAIN s.stack /\ up.stack[j] = s.stack[j] /\ Under(s.stack, j, Len(s.stack))
    <3>1. /\ j \in DOMAIN s.stack /\ up.stack[j] = s.stack[j] /\ Under(s.stack, j, Len(s.stack))
          /\ Bears(up.stack[j], Last(s.stack))
      BY <1>2, <1>3, <2>2, Borne DEF Helpers
    <3>2. up.stack[j].k \in Callers
      BY <2>2 DEF Under
    <3> QED
      BY <2>1, <3>1, <3>2 DEF Bears, Callers
  <2>3. PICK j \in DOMAIN up.stack : Under(up.stack, j, Len(up.stack) + 1)
    BY <1>2, <1>3, Served
  <2>4. ASSUME up.stack[j].k = "dispatch"
        PROVE  e \in Exist(up)
    <3>1. up.stack[j].raised \in Exist(up)
      BY <1>2, <1>3, <2>4, ForwardedExists
    <3> QED
      BY <2>2, <2>3, <3>1 DEF Clean, Exist
  <2>5. ASSUME up.stack[j].k = "await"
        PROVE  e \in Exist(up)
    <3>1. e \in {NoException, s.ctx.raised, s.ctx.exceptions[s.ctx.raised].context}
      BY <1>3, <1>8, <2>1, <2>2, <2>3, <2>5 DEF Chain
    <3>2. s.ctx.raised \in DOMAIN s.ctx.exceptions
      BY <1>8 DEF KindOf
    <3> QED
      BY <1>3, <3>1, <3>2 DEF Live, Alive, Linked, Exist
  <2>6. e \in Exist(up)
    BY <1>3, <2>2, <2>3, <2>4, <2>5 DEF Exist
  <2>7. Lively(TakeStopIteration(up, e))
    BY <1>2, <1>3, <2>2, <2>6, TakeStopLively DEF Clean
  <2> QED
    BY <1>5, <1>8, <2>1, <2>7
<1>9. CASE s.ret.k = "error" /\ t = up
  BY <1>2, <1>3, <1>4, <1>5, <1>9, Ending
<1> QED
  BY <1>6, <1>7, <1>8, <1>9

(* The delegate's method has returned.                                       *)
LEMMA DelegateReturnsLively ==
  ASSUME NEW s, Back(s), Lively(s), Last(s.stack).k = "delegate"
  PROVE  Lively(DelegateReturns(s))
<1>1. PICK up : up = Pop(s)
  OBVIOUS
<1>2. /\ Base(up) /\ up.stack = Front(s.stack) /\ up.gen = s.gen /\ up.ctx = s.ctx /\ up.ret = s.ret
      /\ Typed(up) /\ up.stack \in Seq(Frame) /\ Placed(up.stack)
  BY <1>1, PopBack, PopType DEF Back, Good, Base, Typed, Helpers
<1>3. /\ Live(up) /\ Clear(up) /\ up.stack # <<>> /\ Above(Last(up.stack), Last(s.stack))
      /\ Last(up.stack).k # "resume" /\ Ends(Last(s.stack), s.ret.k) /\ Last(s.stack) \in Frame
      /\ Typed(s) /\ Base(s) /\ Live(s) /\ s.stack # <<>>
      /\ s.ret.token \in BOOLEAN /\ Exist(up) = Exist(s)
  BY <1>2, PopLively DEF Helpers
<1>4. /\ Last(up.stack).k # "start" /\ {"pending", "propagate"} \subseteq Outcomes \ {"resumed", "error"}
      /\ FALSE \in BOOLEAN /\ NoException \in Exist(up) /\ NoException \in Nat
  BY <1>3 DEF Above, Outcomes, Exist, NoException
<1>5. PICK l \in DelegateFrame : l = Last(s.stack)
  BY <1>3, FrameType
<1>6. l.injected \in Nat /\ l.ambient \in Nat /\ l.injected \in Exist(up)
  <2>1. Len(s.stack) \in DOMAIN s.stack /\ Last(s.stack) = s.stack[Len(s.stack)]
    BY <1>3, PopType
  <2>2. Held(l) = {l.injected}
    BY <1>5, HeldIs
  <2>3. Held(l) \subseteq Exist(up)
    BY <1>3, <1>5, <2>1 DEF Live, Alive
  <2> QED
    BY <1>5, <2>2, <2>3 DEF DelegateFrame
<1>7. s.ret.k = "error" => KindOf(s, s.ctx.raised) # "none"
  BY <1>3, KindOfKind
<1>8. PICK t : t = DelegateReturns(s)
  OBVIOUS
<1>9. \/ s.ret.k = "error" /\ t = up
      \/ /\ l.op = "close"
         /\ t = [RaiseValue(up, l.injected, NoException) EXCEPT !.ret = Gives("propagate", FALSE)]
      \/ s.ret.k = "value" /\ t = [up EXCEPT !.ret = Gives("pending", s.ret.token)]
      \/ /\ s.ret.k = "error"
         /\ t = TakeStopIteration(up, IF l.op = "send" THEN l.ambient ELSE NoException)
      \/ s.ret.k = "error" /\ t = [up EXCEPT !.ret = Gives("propagate", FALSE)]
  <2>1. s.ret.k \in {"value", "error"}
    BY <1>3 DEF Ends
  <2> QED
    BY <1>1, <1>5, <1>7, <1>8, <2>1 DEF DelegateReturns
<1>10. CASE s.ret.k = "error" /\ t = up
  BY <1>2, <1>3, <1>4, <1>8, <1>10, Ending
<1>11. CASE /\ l.op = "close"
            /\ t = [RaiseValue(up, l.injected, NoException) EXCEPT !.ret = Gives("propagate", FALSE)]
  <2>1. Lively([RaiseValue(up, l.injected, NoException) EXCEPT !.ret = Gives("propagate", FALSE)])
    BY <1>2, <1>3, <1>4, <1>6, ThrownLively
  <2> QED
    BY <1>8, <1>11, <2>1
<1>12. CASE s.ret.k = "value" /\ t = [up EXCEPT !.ret = Gives("pending", s.ret.token)]
  <2>1. Lively([up EXCEPT !.ret = Gives("pending", s.ret.token)])
    BY <1>2, <1>3, <1>4, <1>12, AnsweredLively
  <2> QED
    BY <1>8, <1>12, <2>1
<1>13. CASE /\ s.ret.k = "error"
            /\ t = TakeStopIteration(up, IF l.op = "send" THEN l.ambient ELSE NoException)
  <2>1. PICK e \in Nat : e = IF l.op = "send" THEN l.ambient ELSE NoException
    BY <1>4, <1>6
  <2>2. ASSUME NEW j \in DOMAIN up.stack, Under(up.stack, j, Len(up.stack) + 1)
        PROVE  up.stack[j].k = "dispatch" /\ e \in {NoException, up.stack[j].raised}
    <3>1. Bears(up.stack[j], Last(s.stack))
      BY <1>2, <1>3, <2>2, Borne DEF Helpers
    <3> QED
      BY <1>5, <2>1, <3>1 DEF Bears, Clean
  <2>3. PICK j \in DOMAIN up.stack : Under(up.stack, j, Len(up.stack) + 1)
    BY <1>2, <1>3, Served
  <2>4. e \in Exist(up)
    BY <1>2, <1>3, <1>4, <2>2, <2>3, ForwardedExists
  <2>5. Lively(TakeStopIteration(up, e))
    BY <1>2, <1>3, <2>2, <2>4, TakeStopLively
  <2> QED
    BY <1>8, <1>13, <2>1, <2>5
<1>14. CASE s.ret.k = "error" /\ t = [up EXCEPT !.ret = Gives("propagate", FALSE)]
  <2>1. Lively([up EXCEPT !.ret = Gives("propagate", FALSE)])
    BY <1>2, <1>3, <1>4, AnsweredLively
  <2> QED
    BY <1>8, <1>14, <2>1
<1> QED
  BY <1>9, <1>10, <1>11, <1>12, <1>13, <1>14

(* A failing Next is passed on to the body.                                  *)
LEMMA ForwardReturnsLively ==
  ASSUME NEW s, Back(s), Lively(s), Last(s.stack).k = "forward"
  PROVE  Lively(ForwardReturns(s))
<1>1. PICK up : up = Pop(s)
  OBVIOUS
<1>2. /\ up.stack = Front(s.stack) /\ up.gen = s.gen /\ up.ctx = s.ctx /\ up.ret = s.ret /\ Typed(up)
  BY <1>1, PopType DEF Back, Good, Base
<1>3. /\ Live(up) /\ Clear(up) /\ up.stack # <<>> /\ Above(Last(up.stack), Last(s.stack))
      /\ Last(up.stack).k # "resume" /\ Ends(Last(s.stack), s.ret.k) /\ s.ret.k # "resumed"
  BY <1>2, PopLively DEF Helpers
<1>4. /\ Last(up.stack).k # "start" /\ "propagate" \in Outcomes \ {"resumed", "error"} /\ FALSE \in BOOLEAN
  BY <1>3 DEF Above, Outcomes
<1>5. CASE s.ret = Error
  <2>1. Lively([up EXCEPT !.ret = Gives("propagate", FALSE)])
    BY <1>2, <1>3, <1>4, AnsweredLively
  <2> QED
    BY <1>1, <1>5, <2>1 DEF ForwardReturns
<1>6. CASE s.ret # Error
  <2>1. ForwardReturns(s) = up
    BY <1>1, <1>2, <1>6 DEF ForwardReturns, Typed
  <2>2. Lively(up)
    BY <1>2, <1>3, <1>4, Ending
  <2> QED
    BY <2>1, <2>2
<1> QED
  BY <1>5, <1>6

(* anext() with a default ends.                                              *)
LEMMA DefaultReturnsLively ==
  ASSUME NEW s, Back(s), Lively(s), Last(s.stack).k = "anext"
  PROVE  Lively(DefaultReturns(s))
<1>1. PICK up : up = Pop(s)
  OBVIOUS
<1>2. /\ up.stack = Front(s.stack) /\ up.gen = s.gen /\ up.ctx = s.ctx /\ up.ret = s.ret /\ Typed(up)
  BY <1>1, PopType DEF Back, Good, Base
<1>3. /\ Live(up) /\ Clear(up) /\ up.stack # <<>> /\ Above(Last(up.stack), Last(s.stack))
      /\ Last(up.stack).k # "resume" /\ s.ret.k # "resumed" /\ Last(s.stack) \in Frame
  BY <1>2, PopLively DEF Helpers
<1>4. PICK d \in Defaults : d = Last(s.stack).next
  BY <1>3, FrameType
<1>5. PICK n : n = [started |-> up.next[d].started, running |-> FALSE,
                    completed |-> s.ret.k # "pending" \/ up.next[d].completed]
  OBVIOUS
<1>6. n \in Flags
  <2>1. up.next[d] \in Flags
    BY <1>2, <1>4 DEF Typed
  <2> QED
    BY <1>5, <2>1 DEF Flags
<1>7. PICK done : done = FinishDefault(up, d, s.ret.k # "pending")
  OBVIOUS
<1>8. done = [up EXCEPT !.next[d] = n]
  BY <1>5, <1>7, Zenon DEF FinishDefault
<1>9. /\ Typed(done) /\ done.ctx = up.ctx /\ done.stack = up.stack /\ done.ret = up.ret
      /\ done.gen = up.gen
  BY <1>2, <1>6, <1>8 DEF Typed
<1>10. /\ Live(done) /\ Clear(done) /\ done.stack # <<>> /\ Last(done.stack).k \notin {"resume", "start"}
       /\ NoException \in Nat /\ NoException \in Exist(done)
  <2>1. Exist(done) = Exist(up)
    BY <1>9 DEF Exist
  <2>2. Linked(done) /\ Registers(done.ctx) \subseteq Exist(done)
    BY <1>3, <1>9, <2>1 DEF Live, Alive, Linked
  <2>3. Live(done)
    BY <1>3, <1>9, <2>1, <2>2, LiveSame
  <2>4. Clear(done)
    BY <1>3, <1>9 DEF Clear
  <2>5. Last(up.stack).k \notin {"resume", "start"}
    BY <1>3 DEF Above
  <2> QED
    BY <1>3, <1>9, <2>3, <2>4, <2>5 DEF NoException, Exist
<1>11. CASE DefaultReturns(s) = TakeStopIteration(done, NoException)
  <2>1. Lively(TakeStopIteration(done, NoException))
    BY <1>9, <1>10, TakeStopLively
  <2> QED
    BY <1>11, <2>1
<1>12. CASE DefaultReturns(s) = done
  <2>1. Lively(done)
    BY <1>2, <1>3, <1>9, <1>10, Ending
  <2> QED
    BY <1>12, <2>1
<1> QED
  BY <1>1, <1>4, <1>7, <1>11, <1>12, Zenon DEF DefaultReturns, TakeStopIteration

(* Code runs, or the body that runs has given a result.                      *)
LEMMA InCodeLively ==
  ASSUME NEW t, t.stack \in Seq(Frame), Live(t), Kept(t), t.stack # <<>> => Last(t.stack).k = "resume",
         t.ret.k # "resumed"
  PROVE  Lively(t)
<1>1. ASSUME NEW j \in DOMAIN t.stack, Under(t.stack, j, Len(t.stack) + 1)
      PROVE  FALSE
  <2>1. t.stack # <<>>
    OBVIOUS
  <2> QED
    BY <1>1, <2>1, CallerOnTop DEF Callers
<1>2. Clear(t)
  BY <1>1 DEF Clear
<1>3. Chain(t)
  BY DEF Chain
<1> QED
  BY <1>2, <1>3 DEF Lively

(* A call that code made ends: the code has its ambient exceptions again.    *)
LEMMA PopCallerLively ==
  ASSUME NEW s, Back(s), Lively(s), Last(s.stack).k \in Callers,
         NEW t, t.stack = Front(s.stack), t.gen = s.gen, t.ctx = s.ctx
  PROVE  /\ Live(t) /\ t.stack \in Seq(Frame)
         /\ t.stack # <<>> =>
              /\ Saved(Last(t.stack)) \subseteq ToSet(t.ctx.ambient) \cup {NoException}
              /\ Last(s.stack).k = "dispatch" => Last(t.stack).gen = Last(s.stack).gen
              /\ Last(s.stack).k # "dispatch" => t.gen[Last(t.stack).gen].delegate = None
         /\ s.ret.k \notin {"error", "propagate"} => Single(t.ctx.handled, t.ctx.raised)
<1>1. /\ Typed(s) /\ Base(s) /\ Ready(s) /\ s.stack # <<>> /\ s.ret.k \notin {"none", "resumed"}
      /\ s.stack \in Seq(Frame)
  BY DEF Back, Good, Base, Typed
<1>2. Live(s) /\ Clear(s)
  BY <1>1 DEF Lively
<1>3. PICK n \in Nat \ {0} : n = Len(s.stack)
  BY <1>1
<1>4. /\ DOMAIN s.stack = 1 .. n /\ DOMAIN t.stack = 1 .. n - 1 /\ Len(t.stack) = n - 1
      /\ Last(s.stack) = s.stack[n] /\ \A i \in 1 .. n - 1 : t.stack[i] = s.stack[i]
      /\ t.stack \in Seq(Frame)
  BY <1>1, <1>3, FrontOne
<1>5. Live(t)
  BY <1>1, <1>2, FrontLive
<1>6. Under(s.stack, n, Len(s.stack) + 1)
  BY <1>3, <1>4 DEF Under
<1>7. s.ctx.ambient = s.stack[n].ambient
  BY <1>1, <1>4, <1>6 DEF Ready
<1>8. Caller(s, n)
  BY <1>2, <1>4 DEF Live, Callings
<1>9. ASSUME t.stack # <<>>
      PROVE  /\ Saved(Last(t.stack)) \subseteq ToSet(t.ctx.ambient) \cup {NoException}
             /\ Last(s.stack).k = "dispatch" => Last(t.stack).gen = Last(s.stack).gen
             /\ Last(s.stack).k # "dispatch" => t.gen[Last(t.stack).gen].delegate = None
  <2>1. n > 1 /\ n - 1 \in 1 .. n - 1
    BY <1>4, <1>9
  <2>2. Last(t.stack) = s.stack[n - 1]
    BY <1>4, <2>1 DEF Last
  <2>3. s.stack[n - 1].k = "resume"
    BY <1>1, <1>9, <2>2, PlacedFront DEF Base, Above
  <2>4. n - 1 \in 1 .. Len(s.stack) - 1 /\ (n - 1) + 1 = n
    BY <1>3, <2>1
  <2>5. Saved(s.stack[n - 1]) \subseteq ToSet(s.stack[n].ambient) \cup {NoException}
    BY <1>2, <2>3, <2>4 DEF Live, Sheltered
  <2> QED
    BY <1>4, <1>7, <1>8, <2>1, <2>2, <2>5 DEF Caller
<1>10. s.ret.k \notin {"error", "propagate"} => Single(t.ctx.handled, t.ctx.raised)
  BY <1>1, <1>2, OneException DEF Callers
<1> QED
  BY <1>4, <1>5, <1>9, <1>10

(* What the body that runs is suspended on is not yet a matter.              *)
LEMMA DelegateLive ==
  ASSUME NEW s, Base(s), Live(s), s.stack # <<>>, Last(s.stack).k = "resume",
         NEW g, g = Last(s.stack).gen, NEW x
  PROVE  Live([s EXCEPT !.gen[g].delegate = x])
<1>1. /\ Typed(s) /\ s.stack \in Seq(Frame) /\ Placed(s.stack) /\ Bodies(s)
      /\ s.gen \in [Generators -> Object]
  BY DEF Base, Typed, Owners
<1>2. PICK n \in Nat \ {0} : n = Len(s.stack)
  BY <1>1
<1>3. DOMAIN s.stack = 1 .. n /\ Last(s.stack) = s.stack[n] /\ n \in 1 .. n /\ Last(s.stack) \in Frame
  BY <1>1, <1>2, FrontOne
<1>4. g \in Generators /\ Runs(s.stack, n, g)
  BY <1>3, FrameType DEF ResumeFrame, Runs
<1>5. s.gen[g].running /\ \A j \in DOMAIN s.stack : Runs(s.stack, j, g) => j = n
  BY <1>1, <1>3, <1>4 DEF Bodies
<1>6. PICK t : t = [s EXCEPT !.gen[g].delegate = x]
  OBVIOUS
<1>7. t.stack = s.stack /\ t.ctx = s.ctx
  BY <1>1, <1>6 DEF Typed
<1>8. \A h \in Generators :
        /\ t.gen[h].handled = s.gen[h].handled /\ t.gen[h].raised = s.gen[h].raised
        /\ t.gen[h].running = s.gen[h].running /\ (h # g => t.gen[h].delegate = s.gen[h].delegate)
  BY <1>1, <1>6 DEF Typed, Object
<1>9. Exist(t) = Exist(s)
  BY <1>7 DEF Exist
<1>10. Alive(t)
  <2>1. Linked(t) /\ Registers(t.ctx) \subseteq Exist(t)
    BY <1>7, <1>9 DEF Live, Alive, Linked
  <2>2. ASSUME NEW h \in Generators
        PROVE  ToSet(t.gen[h].handled) \cup {t.gen[h].raised} \subseteq Exist(t)
    BY <1>8, <1>9 DEF Live, Alive
  <2>3. ASSUME NEW i \in DOMAIN t.stack
        PROVE  Held(t.stack[i]) \subseteq Exist(t)
    BY <1>7, <1>9 DEF Live, Alive
  <2> QED
    BY <2>1, <2>2, <2>3 DEF Alive
<1>11. Sheltered(t.stack) /\ Bearing(t.stack)
  BY <1>7 DEF Live
<1>12. Callings(t)
  <2> SUFFICES ASSUME NEW j \in DOMAIN s.stack, s.stack[j].k \in Callers
               PROVE  Caller(t, j)
    BY <1>7 DEF Callings
  <2>1. Caller(s, j)
    BY DEF Live, Callings
  <2>2. /\ s.stack[j].k = "dispatch" => s.stack[j].gen \in Generators
        /\ j > 1 => j - 1 \in DOMAIN s.stack /\ s.stack[j - 1].k = "resume" /\ s.stack[j - 1].gen \in Generators
    BY <1>1, CallerGen
  <2>3. j > 1 => s.stack[j - 1].gen # g
    BY <1>3, <1>5, <2>2 DEF Runs
  <2> QED
    BY <1>7, <1>8, <2>1, <2>2, <2>3 DEF Caller
<1>13. Waiting(t)
  BY <1>5, <1>8 DEF Live, Waiting
<1> QED
  BY <1>6, <1>10, <1>11, <1>12, <1>13 DEF Live

(* A result is no exception.                                                 *)
LEMMA RetLive ==
  ASSUME NEW s, Typed(s), Live(s), NEW k \in Outcomes, NEW token \in BOOLEAN
  PROVE  LET t == [s EXCEPT !.ret = Gives(k, token)] IN
         /\ Live(t) /\ t.stack = s.stack /\ t.gen = s.gen /\ t.ctx = s.ctx /\ t.ret.k = k
<1>1. PICK t : t = [s EXCEPT !.ret = Gives(k, token)]
  OBVIOUS
<1>2. Same(s, t) /\ t.ctx = s.ctx /\ t.ret.k = k
  BY <1>1, SetRet
<1>3. t.stack = s.stack /\ t.gen = s.gen
  BY <1>2 DEF Same
<1>4. Exist(t) = Exist(s)
  BY <1>2 DEF Exist
<1>5. Linked(t) /\ Registers(t.ctx) \subseteq Exist(t)
  BY <1>2, <1>4 DEF Live, Alive, Linked
<1> QED
  BY <1>1, <1>2, <1>3, <1>4, <1>5, LiveSame

(* A call that code made has ended: code runs on.                            *)
LEMMA CallReturnsLively ==
  ASSUME NEW s, Back(s), Lively(s), Last(s.stack).k \in {"call", "await"}
  PROVE  Lively([Pop(s) EXCEPT !.ret = Running])
<1>1. PICK u : u = Pop(s)
  OBVIOUS
<1>2. /\ Base(u) /\ u.ctx = s.ctx /\ u.gen = s.gen /\ u.stack = Front(s.stack)
      /\ u.stack # <<>> => Last(u.stack).k = "resume"
  BY <1>1, PopCaller, PopType DEF Callers, Back, Good, Base
<1>3. /\ Live(u) /\ u.stack \in Seq(Frame)
      /\ u.stack # <<>> =>
           /\ Saved(Last(u.stack)) \subseteq ToSet(u.ctx.ambient) \cup {NoException}
           /\ u.gen[Last(u.stack).gen].delegate = None
  BY <1>2, PopCallerLively DEF Callers
<1>4. PICK t : t = [u EXCEPT !.ret = Gives("none", FALSE)]
  OBVIOUS
<1>5. Live(t) /\ t.stack = u.stack /\ t.gen = u.gen /\ t.ctx = u.ctx /\ t.ret.k = "none"
  <2>1. "none" \in Outcomes /\ FALSE \in BOOLEAN
    BY DEF Outcomes
  <2> QED
    BY <1>2, <1>3, <1>4, <2>1, RetLive DEF Base
<1>6. Kept(t)
  BY <1>3, <1>5 DEF Kept
<1>7. Lively(t)
  BY <1>2, <1>3, <1>5, <1>6, InCodeLively
<1> QED
  BY <1>1, <1>4, <1>7 DEF Running

(* What is awaited is pending, and the body suspends on it, or has ended.    *)
LEMMA AwaitReturnsLively ==
  ASSUME NEW s, Back(s), Lively(s), Last(s.stack).k = "await"
  PROVE  Lively(AwaitReturns(s))
<1>1. PICK u : u = Pop(s)
  OBVIOUS
<1>2. /\ Base(u) /\ Typed(u) /\ u.stack # <<>> /\ Last(u.stack).k = "resume" /\ Last(u.stack).gen \in Generators
      /\ Last(s.stack) \in Frame /\ u.ctx = s.ctx /\ u.gen = s.gen /\ u.stack = Front(s.stack)
  BY <1>1, PopCaller, PopType DEF Callers, Back, Good, Base
<1>3. PICK g \in Generators : g = Last(u.stack).gen
  BY <1>2
<1>4. PICK x \in {None} \cup Awaited : x = Last(s.stack).on
  BY <1>2, FrameType DEF CallFrame
<1>5. PICK k \in {"yielded", "suspended"} :
         k = IF Kind[g] = "generator" THEN "yielded" ELSE "suspended"
  OBVIOUS
<1>6. s.ret.token \in BOOLEAN /\ k \in Outcomes
  BY DEF Back, Good, Base, Typed, Outcomes
<1>7. /\ Live(u) /\ u.stack \in Seq(Frame)
      /\ Saved(Last(u.stack)) \subseteq ToSet(u.ctx.ambient) \cup {NoException}
      /\ s.ret.k \notin {"error", "propagate"} => Single(u.ctx.handled, u.ctx.raised)
  BY <1>2, PopCallerLively DEF Callers
<1>8. CASE s.ret.k = "pending"
  <2>1. PICK v : v = [u EXCEPT !.gen[g].delegate = x]
    OBVIOUS
  <2>2. Base(v) /\ Typed(v) /\ v.stack = u.stack /\ v.ctx = u.ctx
    BY <1>2, <2>1, DelegateBase DEF Base
  <2>3. Live(v)
    BY <1>2, <1>3, <1>7, <2>1, DelegateLive
  <2>4. PICK t : t = [v EXCEPT !.ret = Gives(k, s.ret.token)]
    OBVIOUS
  <2>5. Live(t) /\ t.stack = v.stack /\ t.ctx = v.ctx /\ t.ret.k = k
    BY <1>6, <2>2, <2>3, <2>4, RetLive
  <2>6. Kept(t)
    BY <1>7, <1>8, <2>2, <2>5 DEF Kept
  <2>7. Lively(t)
    BY <1>2, <1>7, <2>2, <2>5, <2>6, InCodeLively
  <2>8. AwaitReturns(s) = t
    BY <1>1, <1>3, <1>4, <1>5, <1>8, <2>1, <2>4, Zenon DEF AwaitReturns
  <2> QED
    BY <2>7, <2>8
<1>9. CASE s.ret.k # "pending"
  <2>1. AwaitReturns(s) = [u EXCEPT !.ret = Running]
    BY <1>1, <1>9, Zenon DEF AwaitReturns
  <2>2. Lively([u EXCEPT !.ret = Running])
    BY <1>1, CallReturnsLively
  <2> QED
    BY <2>1, <2>2
<1> QED
  BY <1>8, <1>9

(* The delegate is pending, has ended, or leaves an exception to the body.   *)
LEMMA DispatchReturnsLively ==
  ASSUME NEW s, Back(s), Lively(s), Last(s.stack).k = "dispatch"
  PROVE  Lively(DispatchReturns(s))
<1>1. PICK u : u = Pop(s)
  OBVIOUS
<1>2. /\ Base(u) /\ Typed(u) /\ u.stack # <<>> /\ Last(u.stack).k = "resume" /\ Last(u.stack).gen \in Generators
      /\ u.ctx = s.ctx /\ u.gen = s.gen /\ u.stack = Front(s.stack) /\ u.ret = s.ret
  BY <1>1, PopCaller, PopType DEF Callers, Back, Good, Base
<1>3. s.ret.token \in BOOLEAN /\ s.ret.k \in {"pending", "completed", "propagate", "error"}
  BY DEF Back, Good, Base, Typed, Ends
<1>4. /\ Live(u) /\ u.stack \in Seq(Frame) /\ Last(u.stack).gen = Last(s.stack).gen
      /\ Saved(Last(u.stack)) \subseteq ToSet(u.ctx.ambient) \cup {NoException}
      /\ s.ret.k \notin {"error", "propagate"} => Single(u.ctx.handled, u.ctx.raised)
  BY <1>2, PopCallerLively DEF Callers
<1>5. PICK g \in Generators : g = Last(s.stack).gen
  BY <1>2, <1>4
<1>6. PICK free : free = [u EXCEPT !.gen[g].delegate = None]
  OBVIOUS
<1>7. /\ Base(free) /\ Typed(free) /\ free.stack = u.stack /\ free.ctx = s.ctx /\ free.ret = s.ret
      /\ Live(free) /\ free.gen[g].delegate = None
  <2>1. None \in {None} \cup Awaited
    OBVIOUS
  <2>2. Base(free) /\ Typed(free) /\ free.stack = u.stack /\ free.ctx = s.ctx /\ free.ret = s.ret
    BY <1>2, <1>6, <2>1, DelegateBase DEF Base
  <2>3. Live(free)
    BY <1>2, <1>4, <1>5, <1>6, DelegateLive
  <2>4. free.gen[g].delegate = None
    BY <1>2, <1>6 DEF Typed, Object
  <2> QED
    BY <2>2, <2>3, <2>4
<1>8. CASE s.ret.k = "pending"
  <2>1. PICK t : t = [u EXCEPT !.ret = Gives("yielded", s.ret.token)]
    OBVIOUS
  <2>2. Live(t) /\ t.stack = u.stack /\ t.ctx = u.ctx /\ t.ret.k = "yielded"
    <3>1. "yielded" \in Outcomes
      BY DEF Outcomes
    <3> QED
      BY <1>2, <1>3, <1>4, <2>1, <3>1, RetLive
  <2>3. Kept(t)
    BY <1>4, <1>8, <2>2 DEF Kept
  <2>4. Lively(t)
    BY <1>2, <1>4, <2>2, <2>3, InCodeLively
  <2>5. DispatchReturns(s) = t
    BY <1>1, <1>8, <2>1, Zenon DEF DispatchReturns
  <2> QED
    BY <2>4, <2>5
<1>9. CASE s.ret.k \in {"completed", "propagate"}
  <2>1. PICK t : t = [free EXCEPT !.ret = Gives("none", FALSE)]
    OBVIOUS
  <2>2. Live(t) /\ t.stack = u.stack /\ t.gen = free.gen /\ t.ctx = u.ctx /\ t.ret.k = "none"
    <3>1. "none" \in Outcomes /\ FALSE \in BOOLEAN
      BY DEF Outcomes
    <3> QED
      BY <1>2, <1>7, <2>1, <3>1, RetLive
  <2>3. Kept(t)
    BY <1>4, <1>5, <1>7, <2>2 DEF Kept
  <2>4. Lively(t)
    BY <1>2, <1>4, <2>2, <2>3, InCodeLively
  <2>5. DispatchReturns(s) = t
    BY <1>1, <1>5, <1>6, <1>9, <2>1 DEF DispatchReturns, Running
  <2> QED
    BY <2>4, <2>5
<1>10. CASE s.ret.k = "error"
  <2>1. Kept(free)
    BY <1>2, <1>4, <1>5, <1>7 DEF Kept
  <2>2. Lively(free)
    BY <1>2, <1>4, <1>7, <1>10, <2>1, InCodeLively
  <2>3. DispatchReturns(s) = free
    BY <1>1, <1>5, <1>6, <1>10 DEF DispatchReturns
  <2> QED
    BY <2>2, <2>3
<1> QED
  BY <1>3, <1>8, <1>9, <1>10

-----------------------------------------------------------------------------
(* What is held: the registers are exchanged *)

(* An exception that exists gets another as its context and cause.           *)
LEMMA ChainLive ==
  ASSUME NEW s, Typed(s), Live(s), NEW e \in Exist(s), NEW c \in Exist(s), e \in Nat, c \in Nat
  PROVE  LET t == RaiseFrom(s, e, c) IN
         /\ Live(t) /\ Exist(t) = Exist(s) /\ KindOf(t, e) = KindOf(s, e)
<1>1. PICK t : t = RaiseFrom(s, e, c)
  OBVIOUS
<1>2. t = [s EXCEPT !.ctx.exceptions[e].context = c, !.ctx.exceptions[e].cause = c, !.ctx.raised = e]
  BY <1>1 DEF RaiseFrom
<1>3. Typed(t) /\ Same(s, t) /\ t.ctx.raised = e
  BY <1>1, ChainType
<1>4. t.ctx.exceptions = [f \in DOMAIN s.ctx.exceptions |->
           IF f = e THEN [s.ctx.exceptions[e] EXCEPT !.context = c, !.cause = c]
           ELSE s.ctx.exceptions[f]]
  BY <1>2 DEF Typed
<1>5. \A f \in DOMAIN s.ctx.exceptions : s.ctx.exceptions[f] \in Exception
  BY DEF Typed
<1>6. Exist(t) = Exist(s) /\ DOMAIN t.ctx.exceptions = DOMAIN s.ctx.exceptions
  BY <1>4 DEF Exist
<1>7. e \in DOMAIN s.ctx.exceptions =>
        /\ t.ctx.exceptions[e].context = c /\ t.ctx.exceptions[e].cause = c
        /\ t.ctx.exceptions[e].kind = s.ctx.exceptions[e].kind
  BY <1>4, <1>5 DEF Exception
<1>8. Linked(t)
  <2> SUFFICES ASSUME NEW f \in DOMAIN t.ctx.exceptions
               PROVE  t.ctx.exceptions[f].context \in Exist(s) /\ t.ctx.exceptions[f].cause \in Exist(s)
    BY <1>6 DEF Linked
  <2>1. CASE f = e
    BY <1>6, <1>7, <2>1
  <2>2. CASE f # e
    BY <1>4, <1>6, <2>2 DEF Live, Alive, Linked
  <2> QED
    BY <2>1, <2>2
<1>9. Registers(t.ctx) \subseteq Exist(t)
  BY <1>3, <1>6 DEF Live, Alive, Registers, Same
<1>10. Live(t)
  BY <1>3, <1>6, <1>8, <1>9, LiveSame DEF Same
<1>11. KindOf(t, e) = KindOf(s, e)
  BY <1>6, <1>7 DEF KindOf
<1> QED
  BY <1>1, <1>6, <1>10, <1>11

(* What the caller's registers held was ambient.                             *)
LEMMA RestoreLive ==
  ASSUME NEW s, Base(s), Live(s), Kept(s), s.stack # <<>>, Last(s.stack).k = "resume", NEW l, l = Last(s.stack)
  PROVE  LET t == Restore(s) IN
         /\ Live(t) /\ t.ctx.exceptions = s.ctx.exceptions /\ Exist(t) = Exist(s)
         /\ Saved(l) \subseteq Exist(s)
<1>1. PICK u : u = Pop(s)
  OBVIOUS
<1>2. Typed(s) /\ Typed(u) /\ u.stack = Front(s.stack) /\ u.gen = s.gen /\ u.ctx = s.ctx
  BY <1>1, PopType DEF Base
<1>3. Live(u)
  BY <1>2, FrontLive
<1>4. PICK t : t = Restore(s)
  OBVIOUS
<1>5. /\ Typed(t) /\ t.stack = Front(s.stack) /\ t.gen = s.gen
      /\ t.ctx.raised = s.ctx.raised /\ t.ctx.handled = l.previousHandled
      /\ t.ctx.ambient = SubSeq(s.ctx.ambient, 1, l.mark) /\ l \in ResumeFrame /\ l.mark <= Len(s.ctx.ambient)
  BY <1>4, RestoreType
<1>6. t.ctx.exceptions = s.ctx.exceptions
  <2>1. t = [u EXCEPT !.ctx.handled = l.previousHandled, !.ctx.ambient = SubSeq(u.ctx.ambient, 1, l.mark)]
    BY <1>1, <1>4 DEF Restore
  <2> QED
    BY <1>2, <2>1 DEF Typed
<1>7. Exist(t) = Exist(s) /\ Exist(u) = Exist(s) /\ NoException \in Exist(s)
  BY <1>2, <1>6 DEF Exist
<1>8. ToSet(s.ctx.ambient) \subseteq Exist(s) /\ s.ctx.raised \in Exist(s)
  BY DEF Live, Alive, Registers
<1>9. Saved(l) \subseteq Exist(s)
  BY <1>7, <1>8 DEF Kept
<1>10. ToSet(t.ctx.ambient) \subseteq ToSet(s.ctx.ambient)
  BY <1>2, <1>5, TypedRegisters, Members DEF ResumeFrame
<1>11. Registers(t.ctx) \subseteq Exist(t)
  BY <1>5, <1>7, <1>8, <1>9, <1>10 DEF Registers, Saved
<1>12. Linked(t)
  BY <1>6, <1>7 DEF Live, Alive, Linked
<1>13. Live(t)
  BY <1>2, <1>3, <1>5, <1>7, <1>11, <1>12, LiveSame
<1> QED
  BY <1>4, <1>6, <1>7, <1>9, <1>13

(* What the body leaves exists, and is no StopIteration.                     *)
LEMMA LeaveLive ==
  ASSUME NEW s, Back(s), Lively(s), Last(s.stack).k = "resume", NEW l, l = Last(s.stack)
  PROVE  LET t == LeaveBody(s) IN
         /\ Live(t) /\ Exist(s) \subseteq Exist(t) /\ Saved(l) \subseteq Exist(t)
         /\ t.ret.k = "error" => KindOf(t, t.ctx.raised) # "stop"
         /\ t.ret.k \in {"yielded", "suspended"} => t.ctx.raised = s.ctx.raised /\ t.ret = s.ret
<1>1. /\ Base(s) /\ s.stack # <<>> /\ s.ctx.raised \in Nat /\ Live(s) /\ Kept(s)
      /\ s.ctx.raised \in Exist(s)
  BY DEF Back, Good, Base, Typed, Lively, Live, Alive, Registers
<1>2. PICK back : back = Restore(s)
  OBVIOUS
<1>3. Typed(back) /\ back.ret = s.ret /\ back.ctx.raised = s.ctx.raised
  BY <1>1, <1>2, RestoreType
<1>4. /\ Live(back) /\ back.ctx.exceptions = s.ctx.exceptions /\ Exist(back) = Exist(s)
      /\ Saved(l) \subseteq Exist(s)
  BY <1>1, <1>2, RestoreLive
<1>5. PICK t : t = LeaveBody(s)
  OBVIOUS
<1>6. PICK e \in Exceptions : e = Fresh(back)
  BY FreshType
<1>7. PICK c \in Nat : c = s.ctx.raised
  BY <1>1
<1>8. PICK n : n = New(back, "runtime", FALSE)
  OBVIOUS
<1>9. PICK kind : kind = IF s.ret.k = "error" THEN KindOf(s, s.ctx.raised) ELSE "none"
  OBVIOUS
<1>10. \/ t = [back EXCEPT !.ctx.raised = NoException, !.ret = Gives("returned", FALSE)]
       \/ kind = "stop" /\ t = RaiseFrom(n, e, c)
       \/ kind # "stop" /\ t = back
  BY <1>2, <1>5, <1>6, <1>7, <1>8, <1>9, Zenon DEF LeaveBody
<1>11. CASE t = [back EXCEPT !.ctx.raised = NoException, !.ret = Gives("returned", FALSE)]
  <2>1. /\ t.gen = back.gen /\ t.stack = back.stack /\ t.ctx.exceptions = back.ctx.exceptions
        /\ t.ctx.raised = NoException /\ t.ctx.handled = back.ctx.handled
        /\ t.ctx.ambient = back.ctx.ambient /\ t.ret.k = "returned"
    BY <1>3, <1>11 DEF Typed, Gives
  <2>2. Exist(t) = Exist(back) /\ NoException \in Exist(t)
    BY <2>1 DEF Exist
  <2>3. Linked(t)
    BY <1>4, <2>1, <2>2 DEF Live, Alive, Linked
  <2>4. Registers(t.ctx) \subseteq Exist(t)
    BY <1>4, <2>1, <2>2 DEF Live, Alive, Registers
  <2>5. Live(t)
    BY <1>4, <2>1, <2>2, <2>3, <2>4, LiveSame
  <2> QED
    BY <1>4, <1>5, <2>1, <2>2, <2>5
<1>12. CASE kind = "stop" /\ t = RaiseFrom(n, e, c)
  <2>1. "runtime" \in Kinds /\ FALSE \in BOOLEAN /\ e \in Nat
    BY DEF Kinds, Exceptions
  <2>2. Typed(n) /\ n.ret = back.ret
    BY <1>3, <1>8, <2>1, NewType
  <2>3. /\ Live(n) /\ Exist(back) \subseteq Exist(n) /\ e \in DOMAIN n.ctx.exceptions
        /\ KindOf(n, e) = "runtime"
    BY <1>3, <1>4, <1>6, <1>8, <2>1, NewLive
  <2>4. e \in Exist(n) /\ c \in Exist(n)
    BY <1>1, <1>4, <1>7, <2>3 DEF Exist
  <2>5. Live(t) /\ Exist(t) = Exist(n) /\ KindOf(t, e) = KindOf(n, e)
    BY <1>12, <2>1, <2>2, <2>3, <2>4, ChainLive
  <2>6. t.ret = n.ret /\ t.ctx.raised = e
    BY <1>12, <2>1, <2>2, ChainType
  <2>7. t.ret.k = "error"
    BY <1>3, <1>9, <1>12, <2>2, <2>6
  <2> QED
    BY <1>4, <1>5, <2>3, <2>5, <2>6, <2>7
<1>13. CASE kind # "stop" /\ t = back
  <2>1. t.ret.k = "error" => KindOf(t, t.ctx.raised) # "stop"
    BY <1>3, <1>4, <1>9, <1>13 DEF KindOf
  <2> QED
    BY <1>3, <1>4, <1>5, <1>13, <2>1
<1> QED
  BY <1>10, <1>11, <1>12, <1>13

(* The body's own exceptions are kept in its object, and those of the caller *)
(* are back.                                                                 *)
LEMMA FinishResumeLively ==
  ASSUME NEW s, Back(s), Lively(s), Last(s.stack).k = "resume"
  PROVE  Lively(FinishResume(s))
<1>1. PICK l : l = Last(s.stack)
  OBVIOUS
<1>2. PICK back : back = Restore(s)
  OBVIOUS
<1>3. PICK u : u = LeaveBody(s)
  OBVIOUS
<1>4. /\ Base(s) /\ s.stack # <<>> /\ Typed(s) /\ s.stack \in Seq(Frame) /\ Placed(s.stack) /\ Bodies(s)
      /\ s.gen \in [Generators -> Object] /\ Live(s) /\ Kept(s)
      /\ s.ret.k # "resumed"
  BY DEF Back, Good, Base, Typed, Owners, Lively
<1>5. /\ Typed(back) /\ back.stack = Front(s.stack) /\ back.gen = s.gen /\ l \in ResumeFrame
  BY <1>1, <1>2, <1>4, RestoreType
<1>6. /\ Typed(u) /\ Same(back, u) /\ u.ret.k \in {"yielded", "suspended", "returned", "error"}
  BY <1>2, <1>3, LeaveType
<1>7. u.stack = Front(s.stack) /\ u.gen = s.gen
  BY <1>5, <1>6 DEF Same
<1>8. /\ Live(u) /\ Exist(s) \subseteq Exist(u) /\ Saved(l) \subseteq Exist(u)
      /\ u.ret.k = "error" => KindOf(u, u.ctx.raised) # "stop"
      /\ u.ret.k \in {"yielded", "suspended"} => u.ctx.raised = s.ctx.raised /\ u.ret = s.ret
  BY <1>1, <1>3, LeaveLive
<1>9. PICK g \in Generators : g = l.gen
  BY <1>5 DEF ResumeFrame
<1>10. PICK object : object =
         [started |-> u.gen[g].started, owned |-> u.gen[g].owned, running |-> FALSE,
          handled |-> s.ctx.handled,
          raised |-> IF u.ret.k \in {"error", "returned"} THEN NoException ELSE u.ctx.raised,
          completed |-> u.ret.k \in {"error", "returned"} \/ u.gen[g].completed,
          delegate |-> IF u.ret.k \in {"error", "returned"} THEN None ELSE u.gen[g].delegate]
  OBVIOUS
<1>12. PICK e \in Nat : e = IF u.ret.k = "error" THEN u.ctx.raised ELSE l.previousRaised
  BY <1>5, <1>6 DEF Typed, ResumeFrame
<1>13. PICK t : t = FinishResume(s)
  OBVIOUS
<1>14. t = [u EXCEPT !.gen = [u.gen EXCEPT ![g] = object], !.ctx.raised = e]
  BY <1>1, <1>3, <1>9, <1>10, <1>12, <1>13, Zenon DEF FinishResume
<1>15. /\ t.stack = u.stack /\ t.ret = u.ret /\ t.ctx.raised = e
       /\ t.ctx.handled = u.ctx.handled /\ t.ctx.ambient = u.ctx.ambient
       /\ t.ctx.exceptions = u.ctx.exceptions /\ t.gen = [u.gen EXCEPT ![g] = object]
  BY <1>6, <1>14 DEF Typed
<1>16. t.gen[g] = object /\ \A h \in Generators \ {g} : t.gen[h] = u.gen[h]
  BY <1>4, <1>7, <1>15
<1>17. Exist(t) = Exist(u) /\ NoException \in Exist(u)
  BY <1>15 DEF Exist
<1>18. PICK n \in Nat \ {0} : n = Len(s.stack)
  BY <1>4
<1>19. /\ DOMAIN s.stack = 1 .. n /\ DOMAIN t.stack = 1 .. n - 1 /\ l = s.stack[n]
       /\ t.stack \in Seq(Frame) /\ Len(t.stack) = n - 1
       /\ \A i \in 1 .. n - 1 : t.stack[i] = s.stack[i]
  BY <1>1, <1>4, <1>7, <1>15, <1>18, FrontOne
<1>20. t.stack # <<>> /\ Placed(t.stack) /\ Above(Last(t.stack), l)
  BY <1>1, <1>4, <1>7, <1>15, PopPlaced
<1>21. \A i \in 1 .. n - 1 : ~Runs(s.stack, i, g)
  <2>1. Runs(s.stack, n, g)
    BY <1>1, <1>9, <1>18, <1>19 DEF Runs
  <2> QED
    BY <1>4, <1>18, <1>19, <2>1 DEF Bodies
<1>22. Alive(t)
  <2>1. e \in Exist(u) /\ u.ctx.raised \in Exist(u)
    BY <1>8, <1>12 DEF Live, Alive, Registers, Saved
  <2>2. Linked(t) /\ Registers(t.ctx) \subseteq Exist(t)
    BY <1>8, <1>15, <1>17, <2>1 DEF Live, Alive, Linked, Registers
  <2>3. ASSUME NEW h \in Generators
        PROVE  ToSet(t.gen[h].handled) \cup {t.gen[h].raised} \subseteq Exist(t)
    <3>1. CASE h = g
      <4>1. ToSet(s.ctx.handled) \subseteq Exist(s)
        BY <1>4 DEF Live, Alive, Registers
      <4>2. object.handled = s.ctx.handled /\ object.raised \in {NoException, u.ctx.raised}
        BY <1>10
      <4> QED
        BY <1>8, <1>16, <1>17, <2>1, <3>1, <4>1, <4>2
    <3>2. CASE h # g
      BY <1>8, <1>16, <1>17, <3>2 DEF Live, Alive
    <3> QED
      BY <3>1, <3>2
  <2>4. ASSUME NEW i \in DOMAIN t.stack
        PROVE  Held(t.stack[i]) \subseteq Exist(t)
    BY <1>8, <1>15, <1>17 DEF Live, Alive
  <2> QED
    BY <2>2, <2>3, <2>4 DEF Alive
<1>23. Sheltered(t.stack) /\ Bearing(t.stack)
  BY <1>8, <1>15 DEF Live
<1>24. Callings(t)
  <2> SUFFICES ASSUME NEW j \in DOMAIN t.stack, t.stack[j].k \in Callers
               PROVE  Caller(t, j)
    BY DEF Callings
  <2>1. Caller(u, j)
    BY <1>8, <1>15 DEF Live, Callings
  <2>2. /\ t.stack[j].k = "dispatch" => t.stack[j].gen \in Generators
        /\ j > 1 => j - 1 \in DOMAIN t.stack /\ t.stack[j - 1].k = "resume" /\ t.stack[j - 1].gen \in Generators
    BY <1>19, <1>20, CallerGen
  <2>3. j > 1 => t.stack[j - 1].gen # g
    BY <1>19, <1>21, <2>2 DEF Runs
  <2>4. j > 1 => t.gen[t.stack[j - 1].gen] = u.gen[t.stack[j - 1].gen]
    BY <1>16, <2>2, <2>3
  <2>5. u.stack = t.stack
    BY <1>15
  <2>6. t.stack[j].k = "dispatch" => t.gen[t.stack[j].gen] = u.gen[t.stack[j].gen]
    BY <2>1, <2>4, <2>5 DEF Caller
  <2> QED
    BY <2>1, <2>4, <2>5, <2>6 DEF Caller
<1>25. Waiting(t)
  <2> SUFFICES ASSUME NEW h \in Generators, t.gen[h].delegate # None, ~t.gen[h].running
               PROVE  Single(t.gen[h].handled, t.gen[h].raised)
    BY DEF Waiting
  <2>1. CASE h = g
    <3>1. u.ret.k \notin {"error", "returned"} /\ u.gen[g].delegate # None
      BY <1>10, <1>16, <2>1
    <3>2. u.ctx.raised = s.ctx.raised /\ object.handled = s.ctx.handled /\ object.raised = s.ctx.raised
      BY <1>6, <1>8, <1>10, <3>1
    <3>3. s.gen[Last(s.stack).gen].delegate # None
      BY <1>1, <1>7, <1>9, <3>1
    <3> QED
      BY <1>4, <1>16, <2>1, <3>2, <3>3 DEF Kept
  <2>2. CASE h # g
    BY <1>8, <1>16, <2>2 DEF Live, Waiting
  <2> QED
    BY <2>1, <2>2
<1>26. Live(t)
  BY <1>22, <1>23, <1>24, <1>25 DEF Live
<1>27. Clear(t)
  <2> SUFFICES ASSUME t.ret.k \notin {"error", "propagate"},
                      NEW j \in DOMAIN t.stack, Under(t.stack, j, Len(t.stack) + 1)
               PROVE  Clean(t.stack[j], t.ctx.raised)
    BY <1>6, <1>15 DEF Clear
  <2>1. Under(s.stack, j, n)
    <3>1. Len(t.stack) + 1 = n /\ n \in 1 .. n /\ t.stack = Front(s.stack)
      BY <1>7, <1>15, <1>19
    <3> QED
      BY <1>4, <1>18, <3>1, UnderFront
  <2>2. j \in DOMAIN s.stack /\ n \in DOMAIN s.stack /\ t.stack[j] = s.stack[j]
    BY <1>18, <1>19
  <2>3. Bears(s.stack[j], s.stack[n])
    BY <1>4, <2>1, <2>2 DEF Live, Bearing
  <2>4. t.ctx.raised = l.previousRaised
    BY <1>12, <1>15
  <2> QED
    BY <1>1, <1>19, <2>2, <2>3, <2>4 DEF Bears
<1>28. Last(t.stack).k # "resume" /\ t.ret.k # "resumed"
  BY <1>1, <1>6, <1>15, <1>20 DEF Above
<1>29. t.ret.k = "error" => KindOf(t, t.ctx.raised) # "stop"
  BY <1>8, <1>12, <1>15 DEF KindOf
<1>30. Lively(t)
  BY <1>20, <1>26, <1>27, <1>28, <1>29, Ending
<1> QED
  BY <1>13, <1>30

(* The body gets its own exceptions, and what the caller had becomes ambient.*)
LEMMA ActivateLive ==
  ASSUME NEW s, Good(s), Lively(s), s.ret.k = "resumed", NEW l, l = Last(s.stack)
  PROVE  LET t == Activate(s) IN
         /\ Live(t) /\ Saved(l) \subseteq ToSet(t.ctx.ambient) \cup {NoException} /\ l.input \in Exist(t)
         /\ \A h \in Generators : t.gen[h].raised = s.gen[h].raised /\ t.gen[h].delegate = s.gen[h].delegate
         /\ l.gen \in Generators
         /\ s.gen[l.gen].delegate # None => Single(s.gen[l.gen].handled, s.gen[l.gen].raised)
<1>1. PICK e : e = Entering(s)
  OBVIOUS
<1>2. PICK t : t = Activate(s)
  OBVIOUS
<1>3. /\ Base(t) /\ t.stack = s.stack /\ s.stack # <<>> /\ l.k = "resume" /\ l \in ResumeFrame
  BY <1>2, ActivateBase
<1>4. Typed(s) /\ Base(e) /\ Live(s) /\ Window(s) /\ s.stack \in Seq(Frame)
  BY <1>1 DEF Good, Lively, Typed
<1>5. PICK g \in Generators : g = l.gen
  BY <1>3 DEF ResumeFrame
<1>6. Placed(s.stack)
  <2>1. Entered(s, e, g)
    BY <1>1, <1>4, <1>5, EnteringType
  <2> QED
    BY <1>4, <2>1 DEF Base, Entered
<1>7. /\ s.gen \in [Generators -> Object] /\ s.gen[g] \in Object /\ s.ctx.handled \in Seq(Nat)
      /\ s.ctx.ambient \in Seq(Nat) /\ s.ctx.handled \in Seq(Exceptions)
  BY <1>4, TypedRegisters
<1>8. PICK around : around = IF s.ctx.handled # <<>> THEN Last(s.ctx.handled) ELSE l.previousRaised
  OBVIOUS
<1>9. /\ Single(l.previousHandled, l.previousRaised) /\ s.ctx.handled = l.previousHandled
      /\ l.previousRaised \in Exist(s) /\ ~s.gen[g].running
  BY <1>4, <1>5 DEF Window
<1>10. around \in Exist(s) /\ around \in Nat
  <2>1. s.ctx.handled # <<>> => Last(s.ctx.handled) \in ToSet(s.ctx.handled) /\ Last(s.ctx.handled) \in Nat
    BY <1>7, Members
  <2>2. ToSet(s.ctx.handled) \subseteq Exist(s)
    BY <1>4 DEF Live, Alive, Registers
  <2>3. l.previousRaised \in Nat
    BY <1>3 DEF ResumeFrame
  <2> QED
    BY <1>8, <1>9, <2>1, <2>2, <2>3
<1>11. PICK in : in = IF l.op = "close" THEN RaiseNew(s, "exit", FALSE) ELSE s
  OBVIOUS
<1>12. Typed(in) /\ Same(s, in) /\ Live(in) /\ Exist(s) \subseteq Exist(in)
  <2>1. "exit" \in Kinds /\ FALSE \in BOOLEAN
    BY DEF Kinds
  <2>2. CASE l.op = "close"
    BY <1>4, <1>11, <2>1, <2>2, RaiseNewType, RaiseNewLive
  <2>3. CASE l.op # "close"
    BY <1>4, <1>11, <2>3 DEF Same
  <2> QED
    BY <2>2, <2>3
<1>13. in.stack = s.stack /\ in.gen = s.gen /\ in.ctx.ambient = s.ctx.ambient /\ in.ctx.handled = s.ctx.handled
  BY <1>12 DEF Same
<1>14. PICK u : u = Run(in, g)
  OBVIOUS
<1>15. Typed(u) /\ u.ctx = in.ctx /\ u.stack = in.stack
  BY <1>12, <1>14, RunType DEF Entered
<1>16. \A h \in Generators : /\ u.gen[h].handled = s.gen[h].handled /\ u.gen[h].raised = s.gen[h].raised
                             /\ u.gen[h].delegate = s.gen[h].delegate
                             /\ s.gen[h].running => u.gen[h].running
  <2>1. u = [in EXCEPT !.gen[g].running = TRUE, !.gen[g].started = TRUE]
    BY <1>14 DEF Run
  <2> QED
    BY <1>7, <1>12, <1>13, <2>1 DEF Typed, Object
<1>17. Live(u)
  BY <1>6, <1>12, <1>13, <1>15, <1>16, LiveFlags
<1>18. PICK h : h = s.gen[g].handled
  OBVIOUS
<1>19. PICK a : a = IF around = NoException THEN s.ctx.ambient ELSE Append(s.ctx.ambient, around)
  OBVIOUS
<1>20. /\ ToSet(a) \subseteq ToSet(s.ctx.ambient) \cup {around}
       /\ around # NoException => around \in ToSet(a)
  BY <1>7, <1>10, <1>19, Members
<1>21. t = [u EXCEPT !.ctx.handled = h, !.ctx.ambient = a]
  <2>1. t = [u EXCEPT !.ctx.handled = h,
                      !.ctx.ambient = IF around = NoException THEN u.ctx.ambient
                                      ELSE Append(u.ctx.ambient, around)]
    BY <1>2, <1>5, <1>8, <1>11, <1>14, <1>18 DEF Activate
  <2> QED
    BY <1>13, <1>15, <1>19, <2>1
<1>22. /\ t.gen = u.gen /\ t.ctx.raised = in.ctx.raised /\ t.ctx.handled = h /\ t.ctx.ambient = a
       /\ t.ctx.exceptions = in.ctx.exceptions /\ t.stack = u.stack
  BY <1>15, <1>21 DEF Typed
<1>23. Exist(t) = Exist(in) /\ Exist(u) = Exist(in)
  BY <1>15, <1>22 DEF Exist
<1>24. Linked(t)
  BY <1>12, <1>22, <1>23 DEF Live, Alive, Linked
<1>25. Registers(t.ctx) \subseteq Exist(t)
  <2>1. in.ctx.raised \in Exist(in) /\ ToSet(s.ctx.ambient) \subseteq Exist(s)
    BY <1>4, <1>12 DEF Live, Alive, Registers
  <2>2. ToSet(h) \subseteq Exist(s)
    BY <1>4, <1>18 DEF Live, Alive
  <2> QED
    BY <1>10, <1>12, <1>20, <1>22, <1>23, <2>1, <2>2 DEF Registers
<1>26. Live(t)
  BY <1>17, <1>22, <1>23, <1>24, <1>25, LiveSame
<1>27. Saved(l) \subseteq ToSet(t.ctx.ambient) \cup {NoException}
  <2>1. CASE l.previousHandled = <<>>
    <3>1. ToSet(l.previousHandled) = {}
      BY <2>1 DEF ToSet
    <3> QED
      BY <1>8, <1>9, <1>20, <1>22, <2>1, <3>1 DEF Saved
  <2>2. CASE l.previousHandled # <<>>
    <3>1. Len(l.previousHandled) = 1 /\ l.previousRaised = NoException
      BY <1>9, <2>2 DEF Single
    <3>2. DOMAIN l.previousHandled = {1} /\ Last(l.previousHandled) = l.previousHandled[1]
      BY <1>7, <1>9, <3>1 DEF Last
    <3>3. ToSet(l.previousHandled) = {around}
      BY <1>8, <1>9, <2>2, <3>2 DEF ToSet
    <3> QED
      BY <1>20, <1>22, <3>1, <3>3 DEF Saved
  <2> QED
    BY <2>1, <2>2
<1>28. l.input \in Exist(t)
  <2>1. Len(s.stack) \in DOMAIN s.stack /\ l = s.stack[Len(s.stack)]
    BY <1>3, <1>4, FrontOne
  <2>2. Held(l) \subseteq Exist(s)
    BY <1>4, <2>1 DEF Live, Alive
  <2>3. l.input \in Held(l)
    BY <1>3 DEF Held
  <2> QED
    BY <1>12, <1>23, <2>2, <2>3
<1>29. s.gen[g].delegate # None => Single(s.gen[g].handled, s.gen[g].raised)
  BY <1>4, <1>9 DEF Live, Waiting
<1> QED
  BY <1>2, <1>5, <1>16, <1>22, <1>26, <1>27, <1>28, <1>29

(* The body runs, or the delegate that it awaits is resumed.                 *)
LEMMA StartBodyLively ==
  ASSUME NEW s, Good(s), Lively(s), s.ret.k = "resumed", NEW t \in StartBody(s)
  PROVE  Lively(t)
<1>1. PICK l : l = Last(s.stack)
  OBVIOUS
<1>2. PICK started : started = Activate(s)
  OBVIOUS
<1>3. /\ Base(started) /\ started.stack = s.stack /\ s.stack # <<>> /\ l.k = "resume" /\ l \in ResumeFrame
      /\ started.ret = s.ret /\ started.ctx.handled = s.gen[l.gen].handled
      /\ l.op \in {"next", "send"} => started.ctx.raised = s.gen[l.gen].raised
      /\ l.op = "close" => started.ctx.raised # NoException
      /\ s.gen[l.gen] \in Object
  BY <1>1, <1>2, ActivateBase
<1>4. /\ Live(started) /\ Saved(l) \subseteq ToSet(started.ctx.ambient) \cup {NoException}
      /\ l.input \in Exist(started)
      /\ \A h \in Generators : started.gen[h].raised = s.gen[h].raised /\ started.gen[h].delegate = s.gen[h].delegate
      /\ l.gen \in Generators
      /\ s.gen[l.gen].delegate # None => Single(s.gen[l.gen].handled, s.gen[l.gen].raised)
  BY <1>1, <1>2, ActivateLive
<1>5. PICK object \in Object : object = s.gen[l.gen]
  BY <1>3
<1>6. PICK x \in {None} \cup Awaited : x = object.delegate
  BY DEF Object
<1>7. PICK f : f = [k |-> "dispatch", on |-> x, gen |-> l.gen, op |-> l.op, raised |-> object.raised,
                    handled |-> object.handled, ambient |-> started.ctx.ambient]
  OBVIOUS
<1>8. \/ x = None /\ t = [started EXCEPT !.ret = Running]
      \/ x # None /\ t \in DelegateResume(Push(started, f), x, l.op, l.input)
  BY <1>1, <1>2, <1>5, <1>6, <1>7, Zenon DEF StartBody
<1>9. Typed(started) /\ started.stack \in Seq(Frame)
  BY <1>3 DEF Base, Typed
<1>10. CASE x = None /\ t = [started EXCEPT !.ret = Running]
  <2>1. PICK v : v = [started EXCEPT !.ret = Gives("none", FALSE)]
    OBVIOUS
  <2>2. /\ Live(v) /\ v.stack = started.stack /\ v.gen = started.gen /\ v.ctx = started.ctx
        /\ v.ret.k = "none"
    <3>1. "none" \in Outcomes /\ FALSE \in BOOLEAN
      BY DEF Outcomes
    <3> QED
      BY <1>4, <1>9, <2>1, <3>1, RetLive
  <2>3. Kept(v)
    BY <1>1, <1>3, <1>4, <1>5, <1>6, <1>10, <2>2 DEF Kept
  <2>4. Lively(v)
    BY <1>1, <1>3, <1>9, <2>2, <2>3, InCodeLively
  <2> QED
    BY <1>10, <2>1, <2>4 DEF Running
<1>11. CASE x # None /\ t \in DelegateResume(Push(started, f), x, l.op, l.input)
  <2>1. x \in Awaited /\ l.op \in Requests /\ l.input \in Nat /\ l.gen \in Generators
    BY <1>3, <1>11 DEF ResumeFrame
  <2>2. started.ctx.ambient \in Seq(Nat)
    BY <1>9 DEF Typed
  <2>3. /\ f.k = "dispatch" /\ f.on = x /\ f.op = l.op /\ f.raised = object.raised /\ f.gen = l.gen
        /\ f.handled = object.handled /\ f.ambient = started.ctx.ambient
    BY <1>7
  <2>4. f \in DispatchFrame
    BY <1>7, <2>1, <2>2 DEF DispatchFrame, Object
  <2>5. f \in Frame /\ f.k \in Callers /\ Held(f) = {}
    <3>1. f \in Frame /\ f.k \in Callers
      BY <2>3, <2>4 DEF Frame, Callers
    <3> QED
      BY <2>3, <3>1, HeldIs
  <2>6. Keeps(f) => f.raised = started.ctx.raised
    BY <1>3, <1>5, <2>3 DEF Keeps
  <2>7. /\ started.stack # <<>> /\ Last(started.stack).k = "resume"
        /\ f.handled = started.ctx.handled /\ started.ret.k \notin {"error", "propagate", "completed"}
    BY <1>1, <1>3, <1>5, <2>3
  <2>8. PICK u : u = Push(started, f)
    OBVIOUS
  <2>9. Open(u) /\ Last(u.stack) = f /\ u.ctx = started.ctx /\ u.ret = started.ret
    BY <1>3, <2>3, <2>5, <2>6, <2>7, <2>8, PushCaller
  <2>10. PICK o \in Requests : o = l.op
    BY <2>1
  <2>11. PICK input \in Nat : input = l.input
    BY <2>1
  <2>12. Live(u)
    <3>1. /\ Saved(Last(started.stack)) \subseteq ToSet(f.ambient) \cup {NoException}
          /\ Single(f.handled, f.raised) /\ Last(started.stack).gen = f.gen
          /\ started.gen[f.gen].raised = f.raised
      BY <1>1, <1>3, <1>4, <1>5, <1>6, <1>11, <2>1, <2>3
    <3>2. \A j \in DOMAIN started.stack :
             Under(started.stack, j, Len(started.stack) + 1) => Bears(started.stack[j], f)
      BY <2>3 DEF Bears
    <3> QED
      BY <1>4, <1>9, <2>3, <2>5, <2>7, <2>8, <3>1, <3>2, PushLive
  <2>13. Still(u)
    BY <2>7, <2>9, <2>12 DEF Still
  <2>14. o \in {"next", "send"} => Clear(u)
    <3> SUFFICES ASSUME o \in {"next", "send"}
                 PROVE  Clear(u)
      OBVIOUS
    <3>1. Clean(f, started.ctx.raised)
      BY <1>3, <1>5, <2>3, <2>10 DEF Clean
    <3> QED
      BY <1>9, <2>5, <2>8, <3>1, PushClear
  <2>15. /\ Last(u.stack).k = "dispatch" /\ Last(u.stack).on = x /\ Last(u.stack).op = o
         /\ o = "close" => u.ctx.raised # NoException
         /\ input \in Exist(u)
         /\ t \in DelegateResume(u, x, o, input)
    BY <1>3, <1>4, <1>11, <2>3, <2>8, <2>9, <2>10, <2>11 DEF Exist
  <2> QED
    BY <2>1, <2>13, <2>14, <2>15, DelegateResumeLively
<1> QED
  BY <1>8, <1>10, <1>11

-----------------------------------------------------------------------------
(* What is held: code *)

(* Code runs: what it keeps is ambient, and it awaits nothing.               *)
LEMMA CodeLive ==
  ASSUME NEW s, Good(s), Lively(s), s.ret = Running
  PROVE  /\ Typed(s) /\ Base(s) /\ Live(s) /\ Kept(s) /\ s.ret.k = "none" /\ s.stack \in Seq(Frame)
         /\ s.stack # <<>> =>
              /\ Last(s.stack).k = "resume"
              /\ Saved(Last(s.stack)) \subseteq ToSet(s.ctx.ambient) \cup {NoException}
              /\ s.gen[Last(s.stack).gen].delegate = None
         /\ s.ctx.raised \in Exist(s) /\ ToSet(s.ctx.handled) \subseteq Exist(s)
<1>1. Base(s) /\ (s.stack # <<>> => Last(s.stack).k = "resume") /\ s.ret.k = "none"
  BY CodeOnTop DEF Running, Gives
<1>2. Live(s) /\ Kept(s) /\ Typed(s) /\ s.stack \in Seq(Frame)
  BY <1>1 DEF Lively, Base, Typed
<1>3. s.ctx.raised \in Exist(s) /\ ToSet(s.ctx.handled) \subseteq Exist(s)
  BY <1>2 DEF Live, Alive, Registers
<1> QED
  BY <1>1, <1>2, <1>3 DEF Kept

(* It goes on with other registers, ...                                      *)
LEMMA CodeLively ==
  ASSUME NEW s, Good(s), Lively(s), s.ret = Running, NEW t, Live(t), t.stack = s.stack, t.gen = s.gen,
         t.ctx.ambient = s.ctx.ambient, t.ret.k # "resumed"
  PROVE  Lively(t)
<1>1. /\ t.stack \in Seq(Frame)
      /\ t.stack # <<>> => Last(t.stack).k = "resume"
      /\ Kept(t)
  BY CodeLive DEF Kept
<1> QED
  BY <1>1, InCodeLively

(* ... raises, ...                                                           *)
LEMMA RaiseLively ==
  ASSUME NEW s, Good(s), Lively(s), s.ret = Running
  PROVE  Lively(RaiseNew(s, "error", FALSE))
<1>1. PICK t : t = RaiseNew(s, "error", FALSE)
  OBVIOUS
<1>2. Typed(s) /\ Live(s) /\ "error" \in Kinds /\ FALSE \in BOOLEAN /\ s.ret.k = "none"
  BY CodeLive DEF Kinds
<1>3. Typed(t) /\ Same(s, t) /\ t.ret = s.ret
  BY <1>1, <1>2, RaiseNewType
<1>4. Live(t)
  BY <1>1, <1>2, RaiseNewLive
<1>5. Lively(t)
  BY <1>2, <1>3, <1>4, CodeLively DEF Same
<1> QED
  BY <1>1, <1>5

(* ... handles and leaves a handler, ...                                     *)
LEMMA RegistersLively ==
  ASSUME NEW s, Good(s), Lively(s), s.ret = Running, NEW e \in Exist(s), NEW h, ToSet(h) \subseteq Exist(s)
  PROVE  Lively([s EXCEPT !.ctx.raised = e, !.ctx.handled = h])
<1>1. PICK t : t = [s EXCEPT !.ctx.raised = e, !.ctx.handled = h]
  OBVIOUS
<1>2. Typed(s) /\ Live(s) /\ s.ret.k = "none"
  BY CodeLive
<1>3. /\ t.gen = s.gen /\ t.stack = s.stack /\ t.ret = s.ret /\ t.ctx.raised = e /\ t.ctx.handled = h
      /\ t.ctx.ambient = s.ctx.ambient /\ t.ctx.exceptions = s.ctx.exceptions
  BY <1>1, <1>2 DEF Typed
<1>4. Exist(t) = Exist(s)
  BY <1>3 DEF Exist
<1>5. Linked(t) /\ Registers(t.ctx) \subseteq Exist(t)
  BY <1>2, <1>3, <1>4 DEF Live, Alive, Linked, Registers
<1>6. Live(t)
  BY <1>2, <1>3, <1>4, <1>5, LiveSame
<1>7. Lively(t)
  BY <1>2, <1>3, <1>6, CodeLively
<1> QED
  BY <1>1, <1>7

(* ... and ends.                                                             *)
LEMMA LeavesLively ==
  ASSUME NEW s, Good(s), Lively(s), s.ret = Running, NEW k \in Outcomes \ {"resumed"}
  PROVE  Lively([s EXCEPT !.ret = Gives(k, FALSE)])
<1>1. PICK t : t = [s EXCEPT !.ret = Gives(k, FALSE)]
  OBVIOUS
<1>2. Typed(s) /\ Live(s) /\ FALSE \in BOOLEAN
  BY CodeLive
<1>3. Live(t) /\ t.stack = s.stack /\ t.gen = s.gen /\ t.ctx = s.ctx /\ t.ret.k = k
  BY <1>1, <1>2, RetLive
<1>4. Lively(t)
  BY <1>3, CodeLively
<1> QED
  BY <1>1, <1>4

(* Code that deals with one exception at most makes a call.                  *)
LEMMA CallingCalm ==
  ASSUME NEW s, Good(s), Lively(s), s.ret = Running, NEW k \in {"call", "await"}, NEW x \in Awaited,
         s.stack = <<>> => k = "call", Single(s.ctx.handled, s.ctx.raised)
  PROVE  LET t == Calling(s, k, x) IN
         /\ Calm(t) /\ Last(t.stack).k = k /\ Last(t.stack).on = x /\ t.ctx = s.ctx
         /\ Last(t.stack).raised = s.ctx.raised
<1>1. /\ Typed(s) /\ Base(s) /\ Live(s) /\ s.ret.k = "none" /\ s.stack \in Seq(Frame)
      /\ s.stack # <<>> =>
           /\ Last(s.stack).k = "resume"
           /\ Saved(Last(s.stack)) \subseteq ToSet(s.ctx.ambient) \cup {NoException}
           /\ s.gen[Last(s.stack).gen].delegate = None
  BY CodeLive
<1>2. s.ctx.raised \in Nat /\ s.ctx.handled \in Seq(Exceptions) /\ s.ctx.ambient \in Seq(Nat)
  BY <1>1 DEF Typed
<1>3. PICK f : f = [k |-> k, on |-> x, raised |-> s.ctx.raised, handled |-> s.ctx.handled,
                    ambient |-> s.ctx.ambient]
  OBVIOUS
<1>4. /\ f.k = k /\ f.on = x /\ f.raised = s.ctx.raised /\ f.handled = s.ctx.handled
      /\ f.ambient = s.ctx.ambient /\ f \in CallFrame
  BY <1>2, <1>3 DEF CallFrame
<1>5. f \in Frame /\ f.k \in Callers /\ f.k \notin {"dispatch", "delegate", "resume"}
  BY <1>4 DEF Frame, Callers
<1>6. Held(f) = {}
  BY <1>5, HeldIs
<1>7. PICK u : u = Push(s, f)
  OBVIOUS
<1>8. /\ Typed(u) /\ u.stack = Append(s.stack, f) /\ u.ctx = s.ctx /\ u.gen = s.gen /\ u.ret = s.ret
      /\ Last(u.stack) = f
  <2>1. Typed(u) /\ u.stack = Append(s.stack, f) /\ u.ctx = s.ctx /\ u.gen = s.gen /\ u.ret = s.ret
    BY <1>1, <1>5, <1>7, PushType
  <2>2. Last(u.stack) = f
    BY <1>1, <1>5, <2>1, AppendOne
  <2> QED
    BY <2>1, <2>2
<1>9. Live(u)
  <2>1. \A j \in DOMAIN s.stack : Under(s.stack, j, Len(s.stack) + 1) => Bears(s.stack[j], f)
    BY <1>5 DEF Bears, Callers
  <2> QED
    BY <1>1, <1>4, <1>5, <1>6, <1>7, <2>1, PushLive
<1>10. Clear(u)
  <2>1. Clean(f, s.ctx.raised)
    BY <1>4 DEF Clean
  <2> QED
    BY <1>1, <1>5, <1>7, <2>1, PushClear
<1>11. PICK t : t = Calling(s, k, x)
  OBVIOUS
<1>12. t = [u EXCEPT !.calls = u.calls + 1]
  BY <1>3, <1>7, <1>11, Zenon DEF Calling
<1>13. t.stack = u.stack /\ t.ctx = u.ctx /\ t.gen = u.gen /\ t.ret = u.ret
  BY <1>8, <1>12 DEF Typed
<1>14. Exist(t) = Exist(u)
  BY <1>13 DEF Exist
<1>15. Live(t)
  <2>1. Linked(t) /\ Registers(t.ctx) \subseteq Exist(t)
    BY <1>9, <1>13, <1>14 DEF Live, Alive, Linked
  <2> QED
    BY <1>9, <1>13, <1>14, <2>1, LiveSame
<1>16. Clear(t)
  BY <1>10, <1>13 DEF Clear
<1>17. Open(t)
  BY <1>11, CallingOpen
<1> QED
  BY <1>1, <1>4, <1>8, <1>11, <1>13, <1>15, <1>16, <1>17 DEF Calm

(* A new exception that is not pending is not in the way.                    *)
LEMMA NewCalm ==
  ASSUME NEW s, Calm(s), NEW kind \in Kinds, NEW token \in BOOLEAN
  PROVE  LET t == New(s, kind, token) IN
         Calm(t) /\ t.stack = s.stack /\ Exist(s) \subseteq Exist(t) /\ Fresh(s) \in Exist(t)
<1>1. PICK t : t = New(s, kind, token)
  OBVIOUS
<1>2. Typed(s) /\ Live(s) /\ Clear(s) /\ Open(s) /\ s.ret.k # "completed"
  BY CalmIs DEF Calm
<1>3. Open(t) /\ t.stack = s.stack
  BY <1>1, <1>2, NewOpen
<1>4. Typed(t) /\ t.ret = s.ret /\ t.ctx.raised = s.ctx.raised
  BY <1>1, <1>2, NewType
<1>5. Live(t) /\ Exist(s) \subseteq Exist(t) /\ Fresh(s) \in DOMAIN t.ctx.exceptions
  BY <1>1, <1>2, NewLive
<1>6. Clear(t)
  BY <1>2, <1>3, <1>4 DEF Clear
<1> QED
  BY <1>1, <1>2, <1>3, <1>4, <1>5, <1>6 DEF Calm, Exist

(* Code calls a method.                                                      *)
LEMMA CalledLively ==
  ASSUME NEW s, Good(s), Lively(s), s.ret = Running, Single(s.ctx.handled, s.ctx.raised),
         NEW x \in Plain \cup Operations, NEW o \in Requests,
         NEW again \in BOOLEAN, again => o = "throw" /\ s.ctx.handled # <<>>
  PROVE  Lively(Called(s, x, o, again))
<1>1. PICK calling : calling = Calling(s, "call", x)
  OBVIOUS
<1>2. Calm(calling) /\ Last(calling.stack).k = "call" /\ calling.ctx = s.ctx
  <2>1. x \in Awaited /\ "call" \in {"call", "await"}
    BY DEF Awaited
  <2> QED
    BY <1>1, <2>1, CallingCalm
<1>3. PICK made : made = IF o = "throw" /\ ~again THEN New(calling, "error", FALSE) ELSE calling
  OBVIOUS
<1>4. /\ Calm(made) /\ Last(made.stack).k = "call" /\ Exist(calling) \subseteq Exist(made)
      /\ o = "throw" /\ ~again => Fresh(calling) \in Exist(made)
  <2>1. "error" \in Kinds /\ FALSE \in BOOLEAN
    BY DEF Kinds
  <2> QED
    BY <1>2, <1>3, <2>1, NewCalm
<1>5. PICK e : e = IF o # "throw" THEN NoException
                   ELSE IF again THEN Last(s.ctx.handled) ELSE Fresh(calling)
  OBVIOUS
<1>6. e \in Nat /\ e \in Exist(made)
  <2>1. s.ctx.handled # <<>> => Last(s.ctx.handled) \in Nat /\ Last(s.ctx.handled) \in ToSet(s.ctx.handled)
    BY CodeLive, TypedRegisters, Members
  <2>2. Fresh(calling) \in Nat
    BY FreshType DEF Exceptions
  <2>3. ToSet(s.ctx.handled) \subseteq Exist(s) /\ Exist(s) = Exist(calling)
    BY <1>2, CodeLive DEF Exist
  <2>4. NoException \in Nat /\ NoException \in Exist(made)
    BY DEF NoException, Exist
  <2> QED
    BY <1>4, <1>5, <2>1, <2>2, <2>3, <2>4
<1>7. PICK t : t = Called(s, x, o, again)
  OBVIOUS
<1>8. t = IF x \in Generators THEN Method(made, x, o, e) ELSE OperationMethod(made, x, o, e)
  BY <1>1, <1>3, <1>5, <1>7, Zenon DEF Called
<1>9. CASE x \in Generators
  <2>1. x \in Plain
    BY <1>9, SuspendedAssumption DEF Plain
  <2> QED
    BY <1>4, <1>6, <1>7, <1>8, <1>9, <2>1, MethodLively
<1>10. CASE x \notin Generators
  <2>1. x \in Operations
    BY <1>10 DEF Plain
  <2>2. Spares(made, x)
    <3>1. made.stack \in Seq(Frame) /\ made.stack # <<>> /\ Last(made.stack).k \in Callers \cup {"resume"}
      BY <1>4, CalmIs DEF Callers
    <3> QED
      BY <1>4, <3>1, CallerOnTop DEF Spares
  <2> QED
    BY <1>4, <1>6, <1>7, <1>8, <1>10, <2>1, <2>2, OperationMethodLively
<1> QED
  BY <1>9, <1>10

-----------------------------------------------------------------------------
(* What is held: collections *)

(* What is marked exists, holds the roots, and holds what it links to.       *)
LEMMA MarkedIs ==
  ASSUME NEW s, NEW heap, heap = DOMAIN s.ctx.exceptions
  PROVE  /\ Marked(s) \subseteq heap /\ Roots(s) \cap heap \subseteq Marked(s)
         /\ \A e \in Marked(s) :
              {s.ctx.exceptions[e].context, s.ctx.exceptions[e].cause} \cap heap \subseteq Marked(s)
<1>1. Marked(s) \subseteq heap
  BY DEF Marked
<1>2. ASSUME NEW e \in Roots(s) \cap heap
      PROVE  e \in Marked(s)
  BY DEF Marked
<1>3. ASSUME NEW e \in Marked(s), NEW f \in heap,
             f \in {s.ctx.exceptions[e].context, s.ctx.exceptions[e].cause}
      PROVE  f \in Marked(s)
  BY <1>1, <1>3 DEF Marked
<1> QED
  BY <1>1, <1>2, <1>3

(* A collection spares what is named.                                        *)
LEMMA SweptLively ==
  ASSUME NEW s, Typed(s), Lively(s), Collects(s), "close_in_finally" \notin Exposed
  PROVE  Lively([s EXCEPT !.ctx.exceptions = [e \in Marked(s) |-> s.ctx.exceptions[e]]])
<1>1. PICK h : h = [e \in Marked(s) |-> s.ctx.exceptions[e]]
  OBVIOUS
<1>2. PICK t : t = [s EXCEPT !.ctx.exceptions = h]
  OBVIOUS
<1>3. /\ t.gen = s.gen /\ t.stack = s.stack /\ t.ret = s.ret /\ t.ctx.raised = s.ctx.raised
      /\ t.ctx.handled = s.ctx.handled /\ t.ctx.ambient = s.ctx.ambient /\ t.ctx.exceptions = h
  BY <1>2 DEF Typed
<1>4. PICK heap : heap = DOMAIN s.ctx.exceptions
  OBVIOUS
<1>5. /\ Marked(s) \subseteq heap /\ Roots(s) \cap heap \subseteq Marked(s)
      /\ \A e \in Marked(s) :
           {s.ctx.exceptions[e].context, s.ctx.exceptions[e].cause} \cap heap \subseteq Marked(s)
  BY <1>4, MarkedIs
<1>6. Exist(s) = heap \cup {NoException} /\ Exist(t) = Marked(s) \cup {NoException}
  BY <1>1, <1>3, <1>4 DEF Exist
<1>7. \A e \in Exist(s) : e \in Roots(s) \cup {NoException} => e \in Exist(t)
  BY <1>5, <1>6
<1>8. Live(s)
  BY DEF Lively
<1>9. Alive(t)
  <2>1. Linked(t)
    <3> SUFFICES ASSUME NEW e \in Marked(s)
                 PROVE  h[e].context \in Exist(t) /\ h[e].cause \in Exist(t)
      BY <1>1, <1>3 DEF Linked
    <3>1. h[e] = s.ctx.exceptions[e] /\ e \in heap
      BY <1>1, <1>5
    <3>2. s.ctx.exceptions[e].context \in Exist(s) /\ s.ctx.exceptions[e].cause \in Exist(s)
      BY <1>4, <1>8, <3>1 DEF Live, Alive, Linked
    <3> QED
      BY <1>5, <1>6, <3>1, <3>2
  <2>2. Registers(t.ctx) \subseteq Exist(t)
    <3>1. Registers(t.ctx) = Registers(s.ctx)
      BY <1>3 DEF Registers
    <3>2. Registers(s.ctx) \subseteq Exist(s) /\ Registers(s.ctx) \subseteq Roots(s) \cup {NoException}
      BY <1>8 DEF Live, Alive, Roots
    <3> QED
      BY <1>7, <3>1, <3>2
  <2>3. ASSUME NEW g \in Generators
        PROVE  ToSet(t.gen[g].handled) \cup {t.gen[g].raised} \subseteq Exist(t)
    <3>1. PICK S : S = ToSet(s.gen[g].handled) \cup {s.gen[g].raised}
      OBVIOUS
    <3>2. S \subseteq Exist(s)
      BY <1>8, <3>1 DEF Live, Alive
    <3>3. S \subseteq Roots(s) \cup {NoException}
      BY <3>1 DEF Roots
    <3> QED
      BY <1>3, <1>7, <3>1, <3>2, <3>3
  <2>4. ASSUME NEW i \in DOMAIN t.stack
        PROVE  Held(t.stack[i]) \subseteq Exist(t)
    <3>1. PICK S : S = Held(s.stack[i])
      OBVIOUS
    <3>2. S \subseteq Exist(s)
      BY <1>3, <1>8, <3>1 DEF Live, Alive
    <3>3. S \subseteq Roots(s) \cup {NoException}
      BY <1>3, <3>1 DEF Roots
    <3> QED
      BY <1>3, <1>7, <3>1, <3>2, <3>3
  <2> QED
    BY <2>1, <2>2, <2>3, <2>4 DEF Alive
<1>10. Live(t)
  <2>1. Sheltered(t.stack) /\ Bearing(t.stack)
    BY <1>3, <1>8 DEF Live
  <2>2. Callings(t)
    BY <1>3, <1>8 DEF Live, Callings, Caller
  <2>3. Waiting(t)
    BY <1>3, <1>8 DEF Live, Waiting
  <2> QED
    BY <1>9, <2>1, <2>2, <2>3 DEF Live
<1>11. CASE s.ret.k = "resumed"
  <2>1. Last(s.stack).previousRaised = NoException
    BY <1>11 DEF Collects
  <2>2. NoException \in Exist(t)
    BY <1>6
  <2>3. Window(t)
    BY <1>3, <1>11, <2>1, <2>2 DEF Lively, Window
  <2> QED
    BY <1>1, <1>2, <1>3, <1>10, <1>11, <2>3 DEF Lively
<1>12. CASE s.ret.k # "resumed"
  <2>1. Clear(s) /\ Chain(s) /\ Kept(s)
    BY <1>12 DEF Lively
  <2>2. Clear(t) /\ Kept(t)
    BY <1>3, <2>1 DEF Clear, Kept
  <2>3. Chain(t)
    <3> SUFFICES ASSUME s.stack # <<>>, Last(s.stack).k = "start", s.ret.k = "error",
                        KindOf(t, t.ctx.raised) = "stop",
                        NEW j \in DOMAIN s.stack, Under(s.stack, j, Len(s.stack)), s.stack[j].k = "await"
                 PROVE  Last(s.stack).ambient \in
                          {NoException, s.ctx.raised, h[s.ctx.raised].context}
      BY <1>3 DEF Chain
    <3>1. s.ctx.raised \in Marked(s)
      BY <1>1, <1>3 DEF KindOf
    <3>2. h[s.ctx.raised] = s.ctx.exceptions[s.ctx.raised] /\ s.ctx.raised \in heap
      BY <1>1, <1>5, <3>1
    <3>3. KindOf(s, s.ctx.raised) = "stop"
      BY <1>1, <1>3, <1>4, <3>1, <3>2 DEF KindOf
    <3> QED
      BY <2>1, <3>2, <3>3 DEF Chain
  <2> QED
    BY <1>1, <1>2, <1>3, <1>10, <1>12, <2>2, <2>3 DEF Lively
<1> QED
  BY <1>11, <1>12

-----------------------------------------------------------------------------
(* What is held: steps *)

(* Code that deals with two exceptions does not resume others, and there is  *)
(* no collection when close allocates what it injects.                       *)
Sparing == Exposed \cap {"nested", "close_in_finally"} = {}

(* The inductive invariant of what is held.                                  *)
LInv == \E s \in {State} : Good(s) /\ Lively(s)

(* A step, with the collection at its end.                                   *)
LEMMA BecomesLively ==
  ASSUME Sparing, NEW t, Good(t), Lively(t), Becomes(t)
  PROVE  LInv'
<1>1. Typed(t)
  BY DEF Good, Base
<1>2. /\ gen' = t.gen /\ op' = t.op /\ next' = t.next /\ stack' = t.stack /\ ret' = t.ret
      /\ calls' = t.calls
  BY DEF Becomes
<1>3. CASE ~Collects(t)
  <2>1. ctx' = t.ctx
    BY <1>3 DEF Becomes
  <2>2. State' = t
    BY <1>1, <1>2, <2>1 DEF State, Typed
  <2> QED
    BY <2>2 DEF LInv
<1>4. CASE Collects(t)
  <2>1. PICK h : h = [e \in Marked(t) |-> t.ctx.exceptions[e]]
    OBVIOUS
  <2>2. PICK u : u = [t EXCEPT !.ctx.exceptions = h]
    OBVIOUS
  <2>3. PICK c : c = [t.ctx EXCEPT !.exceptions = h]
    OBVIOUS
  <2>4. u = [ctx |-> c, gen |-> t.gen, op |-> t.op, next |-> t.next, stack |-> t.stack,
             ret |-> t.ret, calls |-> t.calls]
    BY <1>1, <2>2, <2>3 DEF Typed
  <2>5. ctx' = c
    BY <1>1, <1>4, <2>1, <2>3 DEF Becomes, Typed
  <2>6. State' = u
    BY <1>2, <2>4, <2>5 DEF State
  <2>7. Marked(t) \subseteq DOMAIN t.ctx.exceptions
    BY MarkedIs
  <2>8. Good(u)
    BY <2>1, <2>2, <2>7, SweptGood
  <2>9. Lively(u)
    BY <1>1, <1>4, <2>1, <2>2, SweptLively DEF Sparing
  <2> QED
    BY <2>6, <2>8, <2>9 DEF LInv
<1> QED
  BY <1>3, <1>4

(* Nothing is held when the program starts.                                  *)
LEMMA InitLively ==
  Init => LInv
<1> SUFFICES ASSUME Init PROVE LInv
  OBVIOUS
<1>1. PICK s : s = State
  OBVIOUS
<1>2. Good(s)
  BY <1>1, InitGood DEF IInv
<1>3. /\ s.ctx.raised = NoException /\ s.ctx.handled = <<>> /\ s.ctx.ambient = <<>>
      /\ DOMAIN s.ctx.exceptions = {} /\ s.stack = <<>> /\ s.ret = Running /\ s.ret.k = "none"
      /\ \A g \in Generators : /\ s.gen[g].delegate = None /\ s.gen[g].handled = <<>>
                               /\ s.gen[g].raised = NoException
  BY <1>1 DEF State, Init, Running, Gives
<1>4. Exist(s) = {NoException} /\ ToSet(<<>>) = {} /\ DOMAIN s.stack = {} /\ Len(s.stack) = 0
  BY <1>3 DEF Exist, ToSet
<1>5. Alive(s)
  BY <1>3, <1>4 DEF Alive, Linked, Registers
<1>6. Sheltered(s.stack) /\ Callings(s) /\ Bearing(s.stack) /\ Waiting(s)
  BY <1>3, <1>4 DEF Sheltered, Callings, Bearing, Waiting
<1>7. Clear(s) /\ Chain(s) /\ Kept(s)
  BY <1>3, <1>4 DEF Clear, Chain, Kept
<1> QED
  BY <1>1, <1>2, <1>3, <1>5, <1>6, <1>7 DEF LInv, Lively, Live

(* The steps of code between calls.                                          *)
LEMMA CodeStepsLively ==
  ASSUME Sparing, NEW s, s = State, Good(s), Lively(s),
         Raise \/ Handle \/ Leave \/ Yield \/ Return \/ Fail
  PROVE  LInv'
<1>1. /\ Code /\ s.ret = Running /\ s.ctx = ctx /\ s.stack = stack
      /\ s.ctx.raised \in Nat /\ s.ctx.handled \in Seq(Exceptions)
      /\ Body # None => s.stack # <<>> /\ Last(s.stack).k = "resume"
  BY CodeStep DEF Raise, Handle, Leave, Yield, Return, Fail
<1>2. /\ Typed(s) /\ s.ctx.handled \in Seq(Nat)
      /\ s.ctx.raised \in Exist(s) /\ ToSet(s.ctx.handled) \subseteq Exist(s) /\ NoException \in Exist(s)
  BY <1>1, CodeLive, TypedRegisters DEF Exist
<1>3. CASE Raise
  <2>1. PICK t : t = RaiseNew(s, "error", FALSE)
    OBVIOUS
  <2>2. Becomes(t)
    BY <1>3, <2>1 DEF Raise
  <2>3. Good(t) /\ Lively(t)
    BY <1>1, <2>1, RaiseGood, RaiseLively
  <2> QED
    BY <2>2, <2>3, BecomesLively
<1>4. CASE Handle
  <2>1. s.ctx.raised \in Exceptions
    BY <1>1, <1>4 DEF Handle, Exceptions
  <2>2. PICK h : h = Append(s.ctx.handled, s.ctx.raised)
    OBVIOUS
  <2>3. h \in Seq(Exceptions)
    BY <1>1, <2>1, <2>2
  <2>4. ToSet(h) = ToSet(s.ctx.handled) \cup {s.ctx.raised}
    BY <1>1, <1>2, <2>2, Members
  <2>5. ToSet(h) \subseteq Exist(s)
    BY <1>2, <2>4
  <2>6. PICK t : t = [s EXCEPT !.ctx.raised = NoException, !.ctx.handled = h]
    OBVIOUS
  <2>7. Becomes(t)
    <3>1. [State EXCEPT !.ctx.raised = NoException, !.ctx.handled = Append(@, ctx.raised)] = t
      BY <1>1, <2>2, <2>6 DEF State
    <3> QED
      BY <1>4, <3>1 DEF Handle
  <2>8. NoException \in Nat
    BY DEF NoException
  <2>9. Good(t)
    BY <1>1, <2>3, <2>6, <2>8, RegistersGood
  <2>10. Lively(t)
    BY <1>1, <1>2, <2>5, <2>6, RegistersLively
  <2> QED
    BY <2>7, <2>9, <2>10, BecomesLively
<1>5. CASE Leave
  <2>1. PICK raised \in {ctx.raised, Last(ctx.handled)} :
           Becomes([State EXCEPT !.ctx.raised = raised, !.ctx.handled = Front(@)])
    BY <1>5 DEF Leave
  <2>2. s.ctx.handled # <<>>
    BY <1>1, <1>5 DEF Leave
  <2>3. PICK h : h = Front(s.ctx.handled)
    OBVIOUS
  <2>4. h \in Seq(Exceptions)
    <3>1. /\ Len(s.ctx.handled) \in Nat \ {0}
          /\ \A i \in 1 .. Len(s.ctx.handled) - 1 : s.ctx.handled[i] \in Exceptions
      BY <1>1, <2>2
    <3>2. Front(s.ctx.handled) \in Seq(Exceptions)
      BY <3>1, SubSeqProperties DEF Front
    <3> QED
      BY <2>3, <3>2
  <2>5. Last(s.ctx.handled) \in ToSet(s.ctx.handled) /\ ToSet(h) \subseteq ToSet(s.ctx.handled)
    BY <1>2, <2>2, <2>3, Members
  <2>6. ToSet(s.ctx.handled) \subseteq Nat
    BY <1>2, Members
  <2>7. raised \in Exist(s) /\ raised \in Nat /\ ToSet(h) \subseteq Exist(s)
    BY <1>1, <1>2, <2>1, <2>5, <2>6
  <2>8. PICK t : t = [s EXCEPT !.ctx.raised = raised, !.ctx.handled = h]
    OBVIOUS
  <2>9. Becomes(t)
    <3>1. [State EXCEPT !.ctx.raised = raised, !.ctx.handled = Front(@)] = t
      BY <1>1, <2>3, <2>8 DEF State
    <3> QED
      BY <2>1, <3>1
  <2>10. Good(t)
    BY <1>1, <2>4, <2>7, <2>8, RegistersGood
  <2>11. Lively(t)
    BY <1>1, <2>7, <2>8, RegistersLively
  <2> QED
    BY <2>9, <2>10, <2>11, BecomesLively
<1>6. ASSUME NEW k \in {"yielded", "returned"}, Body # None,
             Becomes([State EXCEPT !.ret = Gives(k, FALSE)])
      PROVE  LInv'
  <2>1. PICK t : t = [s EXCEPT !.ret = Gives(k, FALSE)]
    OBVIOUS
  <2>2. Becomes(t)
    BY <1>6, <2>1
  <2>3. Base(s) /\ s.stack # <<>> /\ Last(s.stack).k = "resume" /\ FALSE \in BOOLEAN
        /\ k \in {"yielded", "suspended", "returned"}
    BY <1>1, <1>6, CodeOnTop
  <2>4. Good(t)
    BY <2>1, <2>3, Suspends
  <2>5. k \in Outcomes \ {"resumed"}
    BY <1>6 DEF Outcomes
  <2>6. Lively(t)
    BY <1>1, <2>1, <2>5, LeavesLively
  <2> QED
    BY <2>2, <2>4, <2>6, BecomesLively
<1>7. CASE Yield
  BY <1>6, <1>7 DEF Yield
<1>8. CASE Return
  BY <1>6, <1>8 DEF Return
<1>9. CASE Fail
  <2>1. PICK t : t = [s EXCEPT !.ret = Error]
    OBVIOUS
  <2>2. Becomes(t)
    BY <1>9, <2>1 DEF Fail
  <2>3. s.stack # <<>> /\ s.ctx.raised # NoException
    BY <1>1, <1>9 DEF Fail
  <2>4. Good(t)
    BY <1>1, <2>1, <2>3, FailGood
  <2>5. "error" \in Outcomes \ {"resumed"} /\ t = [s EXCEPT !.ret = Gives("error", FALSE)]
    BY <2>1 DEF Outcomes, Error
  <2>6. Lively(t)
    BY <1>1, <2>5, LeavesLively
  <2> QED
    BY <2>2, <2>4, <2>6, BecomesLively
<1> QED
  BY <1>3, <1>4, <1>5, <1>7, <1>8, <1>9

(* The calls and awaits of code.                                             *)
LEMMA CallStepsLively ==
  ASSUME Sparing, NEW s, s = State, Good(s), Lively(s), CallGenerator \/ CallOperation \/ Await
  PROVE  LInv'
<1>1. /\ Code /\ s.ret = Running /\ s.ctx = ctx /\ s.stack = stack
      /\ s.ctx.raised \in Nat /\ s.ctx.handled \in Seq(Exceptions)
      /\ Body # None => s.stack # <<>> /\ Last(s.stack).k = "resume"
  BY CodeStep DEF CallGenerator, CallOperation, Await, Call, MayCall
<1>2. Single(s.ctx.handled, s.ctx.raised)
  <2>1. MayCall
    BY DEF CallGenerator, CallOperation, Await, Call
  <2>2. PICK n \in Nat : n = Len(s.ctx.handled) /\ (n = 0 => s.ctx.handled = <<>>)
    BY <1>1
  <2>3. PICK m \in 0 .. 1 : m = IF s.ctx.raised = NoException THEN 0 ELSE 1
    OBVIOUS
  <2>4. n + m <= 1
    BY <1>1, <2>1, <2>2, <2>3 DEF MayCall, Sparing, Dealing
  <2>5. n = 0 \/ (n = 1 /\ m = 0)
    BY <2>4
  <2> QED
    BY <2>2, <2>3, <2>5 DEF Single
<1>3. ASSUME NEW x \in Plain \cup Operations, NEW o \in Requests, Call(x, o)
      PROVE  LInv'
  <2>1. PICK again \in {FALSE} \cup (IF o = "throw" /\ ctx.handled # <<>> THEN {TRUE} ELSE {}) :
           Becomes(Called(State, x, o, again))
    BY <1>3 DEF Call
  <2>2. again \in BOOLEAN /\ (again => o = "throw" /\ s.ctx.handled # <<>>)
    BY <1>1, <2>1
  <2>3. PICK t : t = Called(s, x, o, again)
    OBVIOUS
  <2>4. Becomes(t)
    BY <2>1, <2>3
  <2>5. Good(t)
    BY <1>1, <2>2, <2>3, CalledGood
  <2>6. Lively(t)
    BY <1>1, <1>2, <2>2, <2>3, CalledLively
  <2> QED
    BY <2>4, <2>5, <2>6, BecomesLively
<1>4. CASE CallGenerator
  BY <1>3, <1>4 DEF CallGenerator, Plain, Requests
<1>5. CASE CallOperation
  BY <1>3, <1>5 DEF CallOperation, Requests
<1>6. CASE Await
  <2>1. PICK x \in Awaitables :
           /\ Closes(x) /\ "close_in_finally" \notin Exposed => ctx.raised = NoException
           /\ \E u \in DelegateStart(Calling(State, "await", x), x) : Becomes(u)
    BY <1>6 DEF Await
  <2>2. PICK calling : calling = Calling(s, "await", x)
    OBVIOUS
  <2>3. PICK t \in DelegateStart(calling, x) : Becomes(t)
    BY <2>1, <2>2
  <2>4. x \in Awaited /\ "await" \in {"call", "await"}
    BY <2>1 DEF Awaitables, Awaited, Plain
  <2>5. s.stack # <<>>
    BY <1>1, <1>6 DEF Await
  <2>6. Open(calling) /\ Last(calling.stack).k = "await" /\ Last(calling.stack).on = x
    BY <1>1, <2>2, <2>4, <2>5, CallingOpen
  <2>7. Calm(calling) /\ Last(calling.stack).raised = s.ctx.raised
    BY <1>1, <1>2, <2>2, <2>4, <2>5, CallingCalm
  <2>8. Closes(x) => Last(calling.stack).raised = NoException
    BY <1>1, <2>1, <2>7 DEF Sparing
  <2>9. Good(t)
    BY <2>3, <2>4, <2>6, DelegateStartGood
  <2>10. Lively(t)
    BY <2>3, <2>4, <2>6, <2>7, <2>8, DelegateStartLively
  <2> QED
    BY <2>3, <2>9, <2>10, BecomesLively
<1> QED
  BY <1>4, <1>5, <1>6

(* Every step keeps the invariant of what is held.                           *)
LEMMA NextLively ==
  Sparing /\ LInv /\ [Next]_vars => LInv'
<1> SUFFICES ASSUME Sparing, LInv, [Next]_vars PROVE LInv'
  OBVIOUS
<1>1. PICK s : s = State /\ Good(s) /\ Lively(s)
  BY DEF LInv
<1>2. CASE UNCHANGED vars
  <2>1. State' = s
    BY <1>1, <1>2 DEF vars, State
  <2> QED
    BY <1>1, <2>1 DEF LInv
<1>3. CASE Raise \/ Handle \/ Leave \/ Yield \/ Return \/ Fail
  BY <1>1, <1>3, CodeStepsLively
<1>4. CASE CallGenerator \/ CallOperation \/ Await
  BY <1>1, <1>4, CallStepsLively
<1>5. CASE Resume
  <2>1. PICK t \in StartBody(s) : Becomes(t)
    BY <1>1, <1>5 DEF Resume
  <2>2. s.ret.k = "resumed"
    BY <1>1, <1>5 DEF Resume, State
  <2>3. Good(t) /\ Lively(t)
    BY <1>1, <2>1, <2>2, StartBodyGood, StartBodyLively
  <2> QED
    BY <2>1, <2>3, BecomesLively
<1>6. ASSUME NEW k, Returning(k) PROVE Back(s) /\ Last(s.stack).k = k
  BY <1>1, <1>6, ReturnsStep
<1>7. CASE ResumeReturns
  <2>1. PICK t : t = FinishResume(s)
    OBVIOUS
  <2>2. Good(t) /\ Lively(t)
    BY <1>1, <1>6, <1>7, <2>1, FinishResumeGood, FinishResumeLively DEF ResumeReturns
  <2> QED
    BY <1>1, <1>7, <2>1, <2>2, BecomesLively DEF ResumeReturns
<1>8. CASE MethodEnds
  <2>1. PICK t : t = MethodReturns(s)
    OBVIOUS
  <2>2. Good(t) /\ Lively(t)
    BY <1>1, <1>6, <1>8, <2>1, MethodReturnsGood, MethodReturnsLively DEF MethodEnds
  <2> QED
    BY <1>1, <1>8, <2>1, <2>2, BecomesLively DEF MethodEnds
<1>9. CASE OperationEnds
  <2>1. PICK t : t = OperationReturns(s)
    OBVIOUS
  <2>2. Good(t) /\ Lively(t)
    BY <1>1, <1>6, <1>9, <2>1, OperationReturnsGood, OperationReturnsLively DEF OperationEnds
  <2> QED
    BY <1>1, <1>9, <2>1, <2>2, BecomesLively DEF OperationEnds
<1>10. CASE StartEnds
  <2>1. PICK t : t = StartReturns(s)
    OBVIOUS
  <2>2. Good(t) /\ Lively(t)
    BY <1>1, <1>6, <1>10, <2>1, StartReturnsGood, StartReturnsLively DEF StartEnds
  <2> QED
    BY <1>1, <1>10, <2>1, <2>2, BecomesLively DEF StartEnds
<1>11. CASE ForwardEnds
  <2>1. PICK t : t = ForwardReturns(s)
    OBVIOUS
  <2>2. Good(t) /\ Lively(t)
    BY <1>1, <1>6, <1>11, <2>1, ForwardReturnsGood, ForwardReturnsLively DEF ForwardEnds
  <2> QED
    BY <1>1, <1>11, <2>1, <2>2, BecomesLively DEF ForwardEnds
<1>12. CASE DelegateEnds
  <2>1. PICK t : t = DelegateReturns(s)
    OBVIOUS
  <2>2. Good(t) /\ Lively(t)
    BY <1>1, <1>6, <1>12, <2>1, DelegateReturnsGood, DelegateReturnsLively DEF DelegateEnds
  <2> QED
    BY <1>1, <1>12, <2>1, <2>2, BecomesLively DEF DelegateEnds
<1>13. CASE DefaultEnds
  <2>1. PICK t : t = DefaultReturns(s)
    OBVIOUS
  <2>2. Good(t) /\ Lively(t)
    BY <1>1, <1>6, <1>13, <2>1, DefaultReturnsGood, DefaultReturnsLively DEF DefaultEnds
  <2> QED
    BY <1>1, <1>13, <2>1, <2>2, BecomesLively DEF DefaultEnds
<1>14. CASE DispatchEnds
  <2>1. PICK t : t = DispatchReturns(s)
    OBVIOUS
  <2>2. Good(t) /\ Lively(t)
    BY <1>1, <1>6, <1>14, <2>1, DispatchReturnsGood, DispatchReturnsLively DEF DispatchEnds
  <2> QED
    BY <1>1, <1>14, <2>1, <2>2, BecomesLively DEF DispatchEnds
<1>15. CASE CallEnds
  <2>1. PICK t : t = [Pop(s) EXCEPT !.ret = Running]
    OBVIOUS
  <2>2. Good(t) /\ Lively(t)
    BY <1>1, <1>6, <1>15, <2>1, CallReturnsGood, CallReturnsLively DEF CallEnds
  <2> QED
    BY <1>1, <1>15, <2>1, <2>2, BecomesLively DEF CallEnds
<1>16. CASE AwaitEnds
  <2>1. PICK t : t = AwaitReturns(s)
    OBVIOUS
  <2>2. Good(t) /\ Lively(t)
    BY <1>1, <1>6, <1>16, <2>1, AwaitReturnsGood, AwaitReturnsLively DEF AwaitEnds
  <2> QED
    BY <1>1, <1>16, <2>1, <2>2, BecomesLively DEF AwaitEnds
<1>17. CASE Full
  BY <1>2, <1>17 DEF Full
<1> QED
  BY <1>2, <1>3, <1>4, <1>5, <1>7, <1>8, <1>9, <1>10, <1>11, <1>12, <1>13, <1>14, <1>15, <1>16, <1>17
     DEF Next

-----------------------------------------------------------------------------
(* Theorems *)

(* Every reachable state is good: the calls in progress, what each of them   *)
(* keeps of the registers, who owns and who runs what, and how the innermost *)
(* call may end fit each other (resume_generator in context.rs, the          *)
(* operations and the delegation in call.rs).                                *)
THEOREM SuspendedInvariant ==
  Spec => []IInv
<1>1. Init => IInv
  BY InitGood
<1>2. IInv /\ [Next]_vars => IInv'
  BY NextGood
<1> QED
  BY <1>1, <1>2, PTL DEF Spec

(* One operation at a time advances an async generator, and it owns it; a     *)
(* generator that has ended is owned at most while its last operation is     *)
(* still on its way out (async_generator_owned in call.rs).                  *)
THEOREM OneOwnerAtATime ==
  Spec => []OneOwner
<1>1. IInv => OneOwner
  <2> SUFFICES ASSUME IInv PROVE OneOwner
    OBVIOUS
  <2>1. PICK s : s = State /\ Good(s)
    BY DEF IInv
  <2>2. PICK u : /\ Owners(u) /\ u.op = s.op /\ u.stack = s.stack
                 /\ \A g \in Generators : /\ u.gen[g].owned = s.gen[g].owned
                                          /\ u.gen[g].completed = s.gen[g].completed
    <3>1. CASE s.ret.k # "resumed"
      BY <2>1, <3>1 DEF Good, Base
    <3>2. CASE s.ret.k = "resumed"
      <4>1. Typed(s) /\ Base(Entering(s)) /\ Last(s.stack).gen \in Generators
        <5>1. Last(s.stack) \in ResumeFrame
          BY <2>1, <3>2, ActivateBase
        <5> QED
          BY <2>1, <3>2, <5>1 DEF Good, ResumeFrame
      <4>2. Entered(s, Entering(s), Last(s.stack).gen)
        BY <4>1, EnteringType
      <4> QED
        BY <4>1, <4>2 DEF Base, Entered
    <3> QED
      BY <3>1, <3>2
  <2>3. /\ s.gen = gen /\ s.op = op /\ s.stack = stack
    BY <2>1 DEF State
  <2> SUFFICES ASSUME NEW g \in Generators
               PROVE  LET active == {a \in Operations : Receiver[a] = g /\ op[a].started /\ ~op[a].completed}
                      IN  /\ Cardinality(active) <= 1
                          /\ active # {} => gen[g].owned
                          /\ gen[g].completed /\ gen[g].owned =>
                                \E i \in DOMAIN stack : stack[i].k = "operation" /\ Receiver[stack[i].op] = g
    BY DEF OneOwner
  <2> DEFINE active == {a \in Operations : Receiver[a] = g /\ op[a].started /\ ~op[a].completed}
  <2>4. \A a, b \in active : a = b
    BY <2>2, <2>3 DEF Owners, Rights, Active
  <2>5. Cardinality(active) <= 1
    <3>1. CASE active = {}
      BY <3>1, FS_EmptySet
    <3>2. CASE active # {}
      <4>1. PICK a : a \in active
        BY <3>2
      <4>2. active = {a}
        BY <2>4, <4>1
      <4>3. Cardinality({a}) = 1
        BY FS_Singleton
      <4> HIDE DEF active
      <4> QED
        BY <4>2, <4>3
    <3> QED
      BY <3>1, <3>2
  <2>6. active # {} => gen[g].owned
    BY <2>2, <2>3 DEF Owners, Rights, Active
  <2>7. gen[g].completed /\ gen[g].owned =>
           \E i \in DOMAIN stack : stack[i].k = "operation" /\ Receiver[stack[i].op] = g
    BY <2>2, <2>3 DEF Owners, Advancing, Advances
  <2> QED
    BY <2>5, <2>6, <2>7
<1> QED
  BY <1>1, SuspendedInvariant, PTL

(* Code that resumed others, directly or through any nesting of bodies,       *)
(* operations and delegates, finds its handlers, the ambient exceptions and, *)
(* when the call went well, its pending exception as it left them.           *)
THEOREM CallerFindsItsState ==
  Spec => []CallerStateKept
<1>1. IInv => CallerStateKept
  <2> SUFFICES ASSUME IInv, ~Code, ret.k # "resumed", stack # <<>>,
                      Last(stack).k \in {"call", "await", "dispatch"}
               PROVE  LET l == Last(stack) IN
                      /\ ctx.handled = l.handled /\ ctx.ambient = l.ambient
                      /\ ret.k \in {"error", "propagate"} => ctx.raised # NoException
                      /\ (/\ ret.k \in {"value", "pending", "completed"}
                          /\ l.k = "dispatch" => l.op \in {"next", "send"}
                          /\ l.on \notin Defaults) => ctx.raised = l.raised
    BY DEF CallerStateKept
  <2>1. PICK s : s = State /\ Good(s)
    BY DEF IInv
  <2>2. s.ctx = ctx /\ s.stack = stack /\ s.ret = ret
    BY <2>1 DEF State
  <2>3. /\ Base(s) /\ Ready(s) /\ s.stack \in Seq(Frame)
        /\ s.ret.k \in {"error", "propagate"} => s.ctx.raised # NoException
    BY <2>1, <2>2 DEF Good, Base, Typed
  <2>4. PICK n \in Nat \ {0} : n = Len(s.stack)
    BY <2>2, <2>3
  <2>5. n \in DOMAIN s.stack /\ Last(s.stack) = s.stack[n]
    BY <2>2, <2>3, <2>4, FrontOne
  <2>6. Under(s.stack, n, Len(s.stack) + 1)
    BY <2>2, <2>4, <2>5 DEF Under, Callers
  <2> QED
    BY <2>2, <2>3, <2>5, <2>6 DEF Ready, Keeps
<1> QED
  BY <1>1, SuspendedInvariant, PTL

(* resume_generator keeps the registers of the code that called in Rust      *)
(* locals, out of the collector's sight.  No exception that the context or a *)
(* suspended object names is swept nevertheless: what is in the locals is    *)
(* also an ambient exception of the body, or the context of one that is      *)
(* raised, as long as no code resumes another while it deals with two        *)
(* exceptions (context.rs, resume_generator and discover_roots).             *)
THEOREM NothingHeldIsSwept ==
  ASSUME Sparing
  PROVE  Spec => []HeldAlive
<1>1. Init => LInv
  BY InitLively
<1>2. LInv /\ [Next]_vars => LInv'
  BY NextLively
<1>3. LInv => HeldAlive
  <2> SUFFICES ASSUME LInv PROVE HeldAlive
    OBVIOUS
  <2>1. PICK s : s = State /\ Live(s)
    BY DEF LInv, Lively
  <2>2. s.ctx = ctx /\ s.gen = gen
    BY <2>1 DEF State
  <2> QED
    BY <2>1, <2>2 DEF Live, Alive, Exist, HeldAlive
<1> QED
  BY <1>1, <1>2, <1>3, PTL DEF Spec
=============================================================================
