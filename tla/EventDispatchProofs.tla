------------------------- MODULE EventDispatchProofs -------------------------
(***************************************************************************)
(* What EventDispatch promises whoever emits, for any number of contexts,  *)
(* observers and events, any policies and any number of interferences.     *)
(***************************************************************************)
EXTENDS EventDispatch, SequenceTheorems, FiniteSetTheorems, TLAPS

audience == dispatcher.told

\* What the promises are about; the count of interferences is nobody's state.
progress == <<dispatcher, number, lock, calls, heard, nested, missed>>

Distinct(s) == \A i, j \in 1..Len(s) : s[i] = s[j] => i = j

\* A dispatcher is made; every subscription is an observer of its own.
Made ==
  /\ dispatcher = None /\ dispatcher' # None
  /\ dispatcher'.told \in Seq(Observers) /\ Distinct(dispatcher'.told)
  /\ UNCHANGED <<number, lock, calls, heard, nested, missed>>

\* What a context does with the dispatcher, and its observers when told.
Delivers(c) ==
  \/ Idle(c) /\ \E e : Emit(c, e, None)
  \/ Returns(c) \/ Raises(c) \/ Interrupts(c) \/ ClosesItself(c)
  \/ \E e : EmitsItself(c, e)
  \/ NestedReturns(c) \/ Leave(c)

\* Subscriptions and scopes may change in any way between.
DispatchNext ==
  \/ UNCHANGED progress
  \/ Made
  \/ /\ dispatcher # None /\ UNCHANGED dispatcher
     /\ \E c \in Contexts : Delivers(c)

DispatchSpec == DispatchInit /\ [][DispatchNext]_progress

----------------------------------------------------------------------------
(* Sequences of anything *)

IsSequence(s) == \E S : s \in Seq(S)

LEMMA EmptyAny == IsSequence(<<>>) /\ Len(<<>>) = 0
BY EmptySeq DEF IsSequence

LEMMA LengthAny ==
  ASSUME NEW s, IsSequence(s)
  PROVE  Len(s) \in Nat /\ (s = <<>> <=> Len(s) = 0) /\ DOMAIN s = 1..Len(s)
<1>1. PICK S : s \in Seq(S)
  BY DEF IsSequence
<1>2. Len(s) \in Nat /\ DOMAIN s = 1..Len(s)
  BY <1>1, LenProperties
<1>3. s # <<>> => Len(s) \in Nat \ {0}
  BY <1>1, EmptySeq
<1>4. Len(<<>>) = 0
  BY EmptySeq
<1> QED
  BY <1>2, <1>3, <1>4

LEMMA AppendAny ==
  ASSUME NEW s, IsSequence(s), NEW x
  PROVE  /\ IsSequence(Append(s, x)) /\ Len(Append(s, x)) = Len(s) + 1
         /\ \A i \in 1..Len(s) : Append(s, x)[i] = s[i]
         /\ Append(s, x)[Len(s) + 1] = x
<1>1. PICK S : s \in Seq(S)
  BY DEF IsSequence
<1> DEFINE U == S \cup {x}
<1>2. s \in Seq(U) /\ x \in U
  BY <1>1, SeqMonotonic
<1> HIDE DEF U
<1> QED
  BY <1>2, AppendProperties DEF IsSequence

LEMMA BelowAny ==
  ASSUME NEW s, IsSequence(s), s # <<>>
  PROVE  /\ IsSequence(Below(s)) /\ Len(Below(s)) = Len(s) - 1
         /\ \A i \in 1..Len(s) - 1 : Below(s)[i] = s[i]
         /\ Len(s) \in Nat \ {0}
<1>1. PICK S : s \in Seq(S)
  BY DEF IsSequence
<1>2. Len(s) \in Nat \ {0}
  BY LengthAny
<1>3. \A i \in 1..Len(s) - 1 : s[i] \in S
  BY <1>1, <1>2, ElementOfSeq
<1>4. /\ SubSeq(s, 1, Len(s) - 1) \in Seq(S)
      /\ Len(SubSeq(s, 1, Len(s) - 1)) = IF 1 <= Len(s) - 1 THEN Len(s) - 1 - 1 + 1 ELSE 0
      /\ \A i \in 1 .. Len(s) - 1 - 1 + 1 : SubSeq(s, 1, Len(s) - 1)[i] = s[1 + i - 1]
  BY <1>2, <1>3, SubSeqProperties
<1>5. Below(s) = SubSeq(s, 1, Len(s) - 1)
  BY DEF Below
<1>6. \A n \in Nat \ {0} : n - 1 - 1 + 1 = n - 1 /\ (~(1 <= n - 1) => n - 1 = 0)
  OBVIOUS
<1>7. Len(Below(s)) = Len(s) - 1
  BY <1>2, <1>4, <1>5, <1>6
<1>8. ASSUME NEW i \in 1..Len(s) - 1 PROVE Below(s)[i] = s[i]
  <2>1. 1 + i - 1 = i
    OBVIOUS
  <2> QED
    BY <1>2, <1>4, <1>5, <1>6, <2>1
<1>9. IsSequence(Below(s))
  BY <1>4, <1>5 DEF IsSequence
<1> QED
  BY <1>2, <1>7, <1>8, <1>9

\* The top of a sequence is replaced, keeping what is below it.
LEMMA TopReplaced ==
  ASSUME NEW s, IsSequence(s), s # <<>>, NEW x
  PROVE  /\ IsSequence(Append(Below(s), x)) /\ Len(Append(Below(s), x)) = Len(s)
         /\ \A i \in 1..Len(s) - 1 : Append(Below(s), x)[i] = s[i]
         /\ Append(Below(s), x)[Len(s)] = x
         /\ Len(s) \in Nat \ {0}
<1>1. /\ IsSequence(Below(s)) /\ Len(Below(s)) = Len(s) - 1
      /\ \A i \in 1..Len(s) - 1 : Below(s)[i] = s[i]
      /\ Len(s) \in Nat \ {0}
  BY BelowAny
<1>2. /\ IsSequence(Append(Below(s), x)) /\ Len(Append(Below(s), x)) = Len(s) - 1 + 1
      /\ \A i \in 1..Len(s) - 1 : Append(Below(s), x)[i] = Below(s)[i]
      /\ Append(Below(s), x)[Len(s) - 1 + 1] = x
  BY <1>1, AppendAny
<1>3. Len(s) - 1 + 1 = Len(s)
  BY <1>1
<1> QED
  BY <1>1, <1>2, <1>3

----------------------------------------------------------------------------
(* The inductive invariant *)

\* The position of the observer a frame told last.
Reached(f) == Len(audience) - Len(f.todo)

\* An emission in progress; what its event holds does not matter.
IsFrame(f) ==
  \E E, B : f \in [event : E, number : Nat, todo : Seq(Observers), failed : BOOLEAN, by : B]

\* One of those before position p emitted.
NestedBefore(p, ns) == \E q \in 1..Len(audience) : q < p /\ audience[q] \in ns

\* The observers a frame has still to tell are the end of the list, and one
\* that was told a later event already has an emitter before it.
GoodFrame(f, h, ns, m) ==
  /\ IsFrame(f) /\ f.number < m
  /\ Len(f.todo) <= Len(audience)
  /\ \A k \in 1..Len(f.todo) : f.todo[k] = audience[Reached(f) + k]
  /\ \A p \in 1..Len(audience) :
       p > Reached(f) /\ h[audience[p]].count > 0 /\ h[audience[p]].last > f.number
         => NestedBefore(p, ns)

\* Every frame but the innermost waits for an observer that emits.
GoodStack(s, h, ns, m) ==
  /\ IsSequence(s)
  /\ \A i \in 1..Len(s) : GoodFrame(s[i], h, ns, m)
  /\ \A i \in 1..Len(s) - 1 : Reached(s[i]) >= 1 /\ audience[Reached(s[i])] \in ns

Hearings == [Observers -> [count : Nat, last : Nat, late : BOOLEAN]]

GoodHearing(h, ns, m) ==
  /\ h \in Hearings
  /\ \A o \in Observers : h[o].count > 0 => h[o].last < m
  /\ \A p \in 1..Len(audience) : h[audience[p]].late => NestedBefore(p, ns)

Listed == audience \in Seq(Observers) /\ Distinct(audience)

Exclusive == \A c \in Contexts : calls[c] # <<>> => lock = c

Untouched ==
  /\ \A c \in Contexts : calls[c] = <<>>
  /\ heard \in Hearings
  /\ \A o \in Observers : heard[o].count = 0 /\ ~heard[o].late

DispatchInv ==
  /\ number \in Nat /\ calls = [c \in Contexts |-> calls[c]]
  /\ Exclusive
  /\ dispatcher = None => Untouched
  /\ dispatcher # None =>
       /\ Listed /\ GoodHearing(heard, nested, number)
       /\ \A c \in Contexts : GoodStack(calls[c], heard, nested, number)

----------------------------------------------------------------------------
(* Frames *)

\* A frame that differs in nothing the invariant is about is as good.
LEMMA AlikeFrame ==
  ASSUME NEW f, NEW g, NEW h, NEW ns, NEW m, GoodFrame(f, h, ns, m),
         IsFrame(g), g.number = f.number, g.todo = f.todo
  PROVE  GoodFrame(g, h, ns, m) /\ Reached(g) = Reached(f)
BY DEF GoodFrame, Reached

\* Events are numbered up and emitters only become more.
LEMMA FrameLasts ==
  ASSUME NEW f, NEW h, NEW ns, NEW m \in Nat, NEW nt, NEW n \in Nat,
         GoodFrame(f, h, ns, m), ns \subseteq nt, m <= n
  PROVE  GoodFrame(f, h, nt, n)
<1>1. f.number \in Nat
  BY DEF GoodFrame, IsFrame
<1>2. f.number < n
  BY <1>1 DEF GoodFrame
<1>3. \A p : NestedBefore(p, ns) => NestedBefore(p, nt)
  BY DEF NestedBefore
<1> QED
  BY <1>2, <1>3 DEF GoodFrame

LEMMA FailureFrame ==
  ASSUME NEW f, IsFrame(f), NEW o
  PROVE  /\ IsFrame(Failure(f, o))
         /\ Failure(f, o).number = f.number /\ Failure(f, o).todo = f.todo
BY DEF Failure, IsFrame

LEMMA TailFrame ==
  ASSUME NEW f, IsFrame(f), f.todo # <<>>
  PROVE  /\ IsFrame([f EXCEPT !.todo = Tail(@)])
         /\ [f EXCEPT !.todo = Tail(@)].number = f.number
         /\ [f EXCEPT !.todo = Tail(@)].todo = Tail(f.todo)
<1>1. PICK E, B :
        f \in [event : E, number : Nat, todo : Seq(Observers), failed : BOOLEAN, by : B]
  BY DEF IsFrame
<1>2. f.todo \in Seq(Observers)
  BY <1>1
<1>3. Tail(f.todo) \in Seq(Observers)
  BY <1>2, HeadTailProperties
<1>4. [f EXCEPT !.todo = Tail(@)] \in
        [event : E, number : Nat, todo : Seq(Observers), failed : BOOLEAN, by : B]
  BY <1>1, <1>3
<1> QED
  BY <1>1, <1>4 DEF IsFrame

\* The frame of a new emission: nobody was told an event with its number.
LEMMA NewFrame ==
  ASSUME NEW c, NEW e, NEW by, number \in Nat, Listed,
         NEW h, NEW ns, GoodHearing(h, ns, number), NEW nt
  PROVE  GoodFrame(Frame(c, e, by), h, nt, number + 1)
<1> DEFINE f == Frame(c, e, by)
<1>1. /\ f.number = number /\ f.todo = audience
      /\ f \in [event : {f.event}, number : Nat, todo : Seq(Observers),
                failed : BOOLEAN, by : {by}]
  BY DEF Frame, Listed, audience
<1>2. Len(audience) \in Nat
  BY LenProperties DEF Listed
<1>3. Reached(f) = 0
  BY <1>1, <1>2 DEF Reached
<1>4. \A k \in 1..Len(audience) : audience[k] \in Observers
  BY ElementOfSeq DEF Listed
<1>5. \A o \in Observers : h[o].count > 0 => ~(h[o].last > number)
  BY DEF GoodHearing, Hearings
<1>6. IsFrame(f)
  BY <1>1 DEF IsFrame
<1> HIDE DEF f
<1>7. f.number < number + 1 /\ Len(f.todo) <= Len(audience)
  BY <1>1, <1>2
<1>8. \A k \in 1..Len(f.todo) : f.todo[k] = audience[Reached(f) + k]
  BY <1>1, <1>2, <1>3
<1>9. \A p \in 1..Len(audience) : ~(h[audience[p]].count > 0 /\ h[audience[p]].last > f.number)
  BY <1>1, <1>4, <1>5
<1>10. GoodFrame(f, h, nt, number + 1)
  BY <1>6, <1>7, <1>8, <1>9 DEF GoodFrame
<1> QED
  BY <1>10 DEF f

----------------------------------------------------------------------------
(* Stacks *)

LEMMA EmptyStack ==
  ASSUME NEW h, NEW ns, NEW m
  PROVE  GoodStack(<<>>, h, ns, m)
<1>1. IsSequence(<<>>) /\ Len(<<>>) = 0
  BY EmptyAny
<1>2. 1..0 = {} /\ 1..(0 - 1) = {}
  OBVIOUS
<1> QED
  BY <1>1, <1>2 DEF GoodStack

\* A new emission, made by the observer the innermost one told last.
LEMMA Pushed ==
  ASSUME NEW s, NEW h, NEW ns, NEW m \in Nat, GoodStack(s, h, ns, m),
         NEW nt, ns \subseteq nt,
         s # <<>> => Reached(Top(s)) >= 1 /\ audience[Reached(Top(s))] \in nt,
         NEW f, GoodFrame(f, h, nt, m + 1)
  PROVE  GoodStack(Append(s, f), h, nt, m + 1)
<1> DEFINE t == Append(s, f)
<1>1. IsSequence(s)
  BY DEF GoodStack
<1>2. Len(s) \in Nat /\ (s = <<>> <=> Len(s) = 0)
  BY <1>1, LengthAny
<1>3. /\ IsSequence(t) /\ Len(t) = Len(s) + 1
      /\ \A i \in 1..Len(s) : t[i] = s[i]
      /\ t[Len(s) + 1] = f
  BY <1>1, AppendAny
<1> HIDE DEF t
<1>4. \A i \in 1..Len(s) : GoodFrame(s[i], h, nt, m + 1)
  <2>1. m + 1 \in Nat /\ m <= m + 1
    OBVIOUS
  <2> QED
    BY <2>1, FrameLasts DEF GoodStack
<1>5. ASSUME NEW i \in 1..Len(t) PROVE GoodFrame(t[i], h, nt, m + 1)
  <2>1. i \in 1..Len(s) \/ i = Len(s) + 1
    BY <1>2, <1>3
  <2> QED
    BY <2>1, <1>3, <1>4
<1>6. ASSUME NEW i \in 1..Len(t) - 1
      PROVE  Reached(t[i]) >= 1 /\ audience[Reached(t[i])] \in nt
  <2>1. i \in 1..Len(s)
    BY <1>2, <1>3
  <2>2. t[i] = s[i]
    BY <2>1, <1>3
  <2>3. CASE i = Len(s)
    <3>1. s # <<>>
      BY <1>2, <2>1
    <3> QED
      BY <2>2, <2>3, <3>1 DEF Top
  <2>4. CASE i # Len(s)
    <3>1. i \in 1..Len(s) - 1
      BY <1>2, <2>1, <2>4
    <3> QED
      BY <2>2, <3>1 DEF GoodStack
  <2> QED
    BY <2>3, <2>4
<1>7. GoodStack(t, h, nt, m + 1)
  BY <1>3, <1>5, <1>6 DEF GoodStack
<1> QED
  BY <1>7 DEF t

\* The innermost emission returns; what the one around it keeps of a failure
\* does not matter.
LEMMA Popped ==
  ASSUME NEW s, NEW h, NEW ns, NEW m, GoodStack(s, h, ns, m), Len(s) > 1,
         NEW g, IsFrame(g), g.number = Top(Below(s)).number, g.todo = Top(Below(s)).todo
  PROVE  GoodStack(Append(Below(Below(s)), g), h, ns, m)
<1> DEFINE b == Below(s)
           t == Append(Below(b), g)
<1>1. IsSequence(s)
  BY DEF GoodStack
<1>2. Len(s) \in Nat /\ (s = <<>> <=> Len(s) = 0)
  BY <1>1, LengthAny
<1>3. s # <<>>
  BY <1>2
<1>4. IsSequence(b) /\ Len(b) = Len(s) - 1 /\ \A i \in 1..Len(s) - 1 : b[i] = s[i]
  BY <1>1, <1>3, BelowAny
<1>5. Top(b) = b[Len(b)] /\ g.number = Top(b).number /\ g.todo = Top(b).todo
  BY DEF Top
<1> HIDE DEF b
<1>6. Len(b) \in Nat \ {0} /\ b # <<>>
  BY <1>2, <1>4, LengthAny
<1>7. /\ IsSequence(t) /\ Len(t) = Len(b)
      /\ \A i \in 1..Len(b) - 1 : t[i] = b[i]
      /\ t[Len(b)] = g
  BY <1>4, <1>6, TopReplaced
<1> HIDE DEF t
<1>8. \A i \in 1..Len(b) : b[i] = s[i] /\ GoodFrame(b[i], h, ns, m)
  BY <1>2, <1>4 DEF GoodStack
<1>9. GoodFrame(g, h, ns, m)
  <2>1. GoodFrame(b[Len(b)], h, ns, m)
    BY <1>6, <1>8
  <2> QED
    BY <1>5, <2>1, AlikeFrame
<1>10. ASSUME NEW i \in 1..Len(t) PROVE GoodFrame(t[i], h, ns, m)
  <2>1. i \in 1..Len(b) - 1 \/ i = Len(b)
    BY <1>6, <1>7
  <2>2. i \in 1..Len(b)
    BY <1>7
  <2> QED
    BY <2>1, <2>2, <1>7, <1>8, <1>9
<1>11. ASSUME NEW i \in 1..Len(t) - 1
       PROVE  Reached(t[i]) >= 1 /\ audience[Reached(t[i])] \in ns
  <2>1. i \in 1..Len(b) - 1 /\ i \in 1..Len(b) /\ i \in 1..Len(s) - 1
    BY <1>2, <1>4, <1>6, <1>7
  <2>2. t[i] = s[i]
    BY <2>1, <1>7, <1>8
  <2> QED
    BY <2>1, <2>2 DEF GoodStack
<1>12. GoodStack(t, h, ns, m)
  BY <1>7, <1>10, <1>11 DEF GoodStack
<1> QED
  BY <1>12 DEF t, b

----------------------------------------------------------------------------
(* An observer is told *)

\* It is the one behind those its frame has reached.
LEMMA TheOneTold ==
  ASSUME NEW f, NEW h, NEW ns, NEW m, GoodFrame(f, h, ns, m), f.todo # <<>>, Listed,
         NEW g, g.todo = Tail(f.todo)
  PROVE  /\ Reached(f) + 1 \in 1..Len(audience)
         /\ Head(f.todo) = audience[Reached(f) + 1]
         /\ Head(f.todo) \in Observers
         /\ Reached(g) = Reached(f) + 1
         /\ Len(g.todo) <= Len(audience)
         /\ \A k \in 1..Len(g.todo) : g.todo[k] = audience[Reached(g) + k]
<1>1. f.todo \in Seq(Observers)
  BY DEF GoodFrame, IsFrame
<1>2. Len(audience) \in Nat
  BY LenProperties DEF Listed
<1>3. Len(f.todo) \in Nat \ {0} /\ Len(f.todo) <= Len(audience)
  BY <1>1, EmptySeq DEF GoodFrame
<1>4. /\ Head(f.todo) = f.todo[1] /\ Head(f.todo) \in Observers
      /\ Len(Tail(f.todo)) = Len(f.todo) - 1
      /\ \A k \in 1..Len(f.todo) - 1 : Tail(f.todo)[k] = f.todo[k + 1]
  BY <1>1, <1>3, HeadTailProperties
<1>5. /\ Reached(f) = Len(audience) - Len(f.todo) /\ Reached(g) = Reached(f) + 1
      /\ Reached(f) + 1 \in 1..Len(audience) /\ Len(g.todo) <= Len(audience)
  <2>1. \A n, t \in Nat : t # 0 /\ t <= n =>
          /\ n - (t - 1) = n - t + 1 /\ n - t + 1 \in 1..n /\ t - 1 <= n
    OBVIOUS
  <2>2. Reached(f) = Len(audience) - Len(f.todo) /\ Reached(g) = Len(audience) - Len(g.todo)
    BY DEF Reached
  <2>3. Len(g.todo) = Len(f.todo) - 1
    BY <1>4
  <2> QED
    BY <1>2, <1>3, <2>1, <2>2, <2>3
<1>6. \A k \in 1..Len(f.todo) : f.todo[k] = audience[Reached(f) + k]
  BY DEF GoodFrame
<1>7. Head(f.todo) = audience[Reached(f) + 1]
  BY <1>3, <1>4, <1>6
<1>8. ASSUME NEW k \in 1..Len(g.todo) PROVE g.todo[k] = audience[Reached(g) + k]
  <2>1. k \in 1..Len(f.todo) - 1 /\ k + 1 \in 1..Len(f.todo)
    BY <1>3, <1>4
  <2>2. Reached(f) + (k + 1) = Reached(g) + k
    BY <1>2, <1>3, <1>5
  <2> QED
    BY <1>4, <1>6, <2>1, <2>2
<1> QED
  BY <1>4, <1>5, <1>7, <1>8

LEMMA ReachedInteger ==
  ASSUME NEW f, NEW h, NEW ns, NEW m, GoodFrame(f, h, ns, m), Listed
  PROVE  Reached(f) \in Int /\ Reached(f) <= Len(audience)
<1>1. Len(audience) \in Nat
  BY LenProperties DEF Listed
<1>2. f.todo \in Seq(Observers)
  BY DEF GoodFrame, IsFrame
<1>3. Len(f.todo) \in Nat
  BY <1>2, LenProperties
<1> QED
  BY <1>1, <1>3 DEF Reached

LEMMA Heard ==
  ASSUME NEW s, NEW h, NEW ns, NEW m \in Nat, GoodStack(s, h, ns, m), s # <<>>,
         Top(s).todo # <<>>, Listed, GoodHearing(h, ns, m),
         NEW g, IsFrame(g), g.number = Top(s).number, g.todo = Tail(Top(s).todo),
         NEW k, k = [h EXCEPT ![Head(Top(s).todo)] =
           [count |-> @.count + 1, last |-> Top(s).number,
            late |-> @.late \/ (@.count > 0 /\ @.last > Top(s).number)]]
  PROVE  /\ GoodHearing(k, ns, m)
         /\ GoodStack(Append(Below(s), g), k, ns, m)
         /\ Reached(g) >= 1 /\ audience[Reached(g)] = Head(Top(s).todo)
<1> DEFINE f == Top(s)
           o == Head(f.todo)
           p == Reached(f) + 1
           t == Append(Below(s), g)
<1>1. IsSequence(s)
  BY DEF GoodStack
<1>2. /\ IsSequence(t) /\ Len(t) = Len(s)
      /\ \A i \in 1..Len(s) - 1 : t[i] = s[i]
      /\ t[Len(s)] = g /\ Len(s) \in Nat \ {0}
  BY <1>1, TopReplaced
<1>3. f = s[Len(s)] /\ GoodFrame(f, h, ns, m)
  <2>1. f = s[Len(s)] /\ Len(s) \in 1..Len(s)
    BY <1>2 DEF Top
  <2> QED
    BY <2>1 DEF GoodStack
<1>4. g.number = f.number /\ g.todo = Tail(f.todo) /\ f.todo # <<>>
  OBVIOUS
<1>5. k = [h EXCEPT ![o] = [count |-> @.count + 1, last |-> f.number,
            late |-> @.late \/ (@.count > 0 /\ @.last > f.number)]]
  OBVIOUS
<1> HIDE DEF t, f
<1>6. /\ p \in 1..Len(audience) /\ o = audience[p] /\ o \in Observers
      /\ Reached(g) = p /\ Len(g.todo) <= Len(audience)
      /\ \A i \in 1..Len(g.todo) : g.todo[i] = audience[Reached(g) + i]
  <2>1. /\ Reached(f) + 1 \in 1..Len(audience)
        /\ Head(f.todo) = audience[Reached(f) + 1]
        /\ Head(f.todo) \in Observers
        /\ Reached(g) = Reached(f) + 1
        /\ Len(g.todo) <= Len(audience)
        /\ \A i \in 1..Len(g.todo) : g.todo[i] = audience[Reached(g) + i]
    <3>1. GoodFrame(f, h, ns, m) /\ f.todo # <<>> /\ Listed /\ g.todo = Tail(f.todo)
      BY <1>3, <1>4
    <3> QED
      BY ONLY <3>1, TheOneTold, Zenon
  <2> QED
    BY ONLY <2>1 DEF o, p
<1>7. f.number \in Nat /\ f.number < m
  BY <1>3 DEF GoodFrame, IsFrame
<1>8. p > Reached(f)
  <2>1. Reached(f) \in Int
    BY <1>3, ReachedInteger
  <2> QED
    BY <2>1
<1>9. \A q \in 1..Len(audience) : audience[q] \in Observers
  BY ElementOfSeq DEF Listed
<1> HIDE DEF o, p
<1>10. h \in Hearings
  BY DEF GoodHearing
<1>11. /\ k \in Hearings
       /\ k[o].last = f.number
       /\ k[o].late <=> h[o].late \/ (h[o].count > 0 /\ h[o].last > f.number)
       /\ \A x \in Observers : x # o => k[x] = h[x]
  <2> DEFINE r == [count |-> h[o].count + 1, last |-> f.number,
                   late |-> h[o].late \/ (h[o].count > 0 /\ h[o].last > f.number)]
  <2>1. k = [h EXCEPT ![o] = r]
    BY <1>5
  <2>2. h[o].count \in Nat /\ h[o].late \in BOOLEAN
    BY <1>6, <1>10 DEF Hearings
  <2>3. r \in [count : Nat, last : Nat, late : BOOLEAN]
    BY <2>2, <1>7
  <2>4. /\ r.last = f.number
        /\ r.late <=> h[o].late \/ (h[o].count > 0 /\ h[o].last > f.number)
    OBVIOUS
  <2> HIDE DEF r
  <2>5. k \in Hearings /\ k[o] = r /\ \A x \in Observers : x # o => k[x] = h[x]
    BY <2>1, <2>3, <1>6, <1>10 DEF Hearings
  <2> QED
    BY <2>4, <2>5
<1>12. \A q \in 1..Len(audience) : q # p => audience[q] # o /\ k[audience[q]] = h[audience[q]]
  BY <1>6, <1>9, <1>11 DEF Listed, Distinct
<1>13. GoodHearing(k, ns, m)
  <2>1. ASSUME NEW x \in Observers, k[x].count > 0 PROVE k[x].last < m
    BY <2>1, <1>7, <1>11 DEF GoodHearing
  <2>2. ASSUME NEW q \in 1..Len(audience), k[audience[q]].late PROVE NestedBefore(q, ns)
    <3>1. CASE q # p
      BY <2>2, <3>1, <1>12 DEF GoodHearing
    <3>2. CASE q = p
      <4>1. h[o].late \/ (h[o].count > 0 /\ h[o].last > f.number)
        BY <2>2, <3>2, <1>6, <1>11
      <4>2. CASE h[o].late
        BY <4>2, <3>2, <1>6 DEF GoodHearing
      <4>3. CASE h[o].count > 0 /\ h[o].last > f.number
        BY <4>3, <3>2, <1>3, <1>6, <1>8 DEF GoodFrame
      <4> QED
        BY <4>1, <4>2, <4>3
    <3> QED
      BY <3>1, <3>2
  <2> QED
    BY <2>1, <2>2, <1>11 DEF GoodHearing
<1>14. GoodFrame(g, k, ns, m)
  <2>1. ASSUME NEW q \in 1..Len(audience), q > Reached(g),
               k[audience[q]].count > 0, k[audience[q]].last > g.number
        PROVE  NestedBefore(q, ns)
    <3>1. q # p /\ q > Reached(f)
      <4>1. Reached(f) \in Int
        BY <1>3, ReachedInteger
      <4>2. p \in Nat /\ q \in Nat
        BY <1>6
      <4> QED
        BY <2>1, <4>1, <4>2, <1>6, <1>8
    <3> QED
      BY <2>1, <3>1, <1>3, <1>4, <1>12 DEF GoodFrame
  <2> QED
    BY <2>1, <1>4, <1>6, <1>7 DEF GoodFrame
<1>15. ASSUME NEW i \in 1..Len(s) - 1 PROVE GoodFrame(s[i], k, ns, m)
  <2>1. GoodFrame(s[i], h, ns, m) /\ Reached(s[i]) >= 1 /\ audience[Reached(s[i])] \in ns
    <3>1. i \in 1..Len(s)
      BY <1>2
    <3> QED
      BY <3>1 DEF GoodStack
  <2>2. Reached(s[i]) \in 1..Len(audience)
    <3>1. Reached(s[i]) \in Int /\ Reached(s[i]) <= Len(audience)
      BY <2>1, ReachedInteger
    <3> QED
      BY <2>1, <3>1
  <2>3. ASSUME NEW q \in 1..Len(audience), q > Reached(s[i]),
               k[audience[q]].count > 0, k[audience[q]].last > s[i].number
        PROVE  NestedBefore(q, ns)
    <3>1. CASE q = p
      BY <2>1, <2>2, <2>3 DEF NestedBefore
    <3>2. CASE q # p
      BY <3>2, <2>1, <2>3, <1>12 DEF GoodFrame
    <3> QED
      BY <3>1, <3>2
  <2> QED
    BY <2>1, <2>3 DEF GoodFrame
<1>16. GoodStack(t, k, ns, m)
  <2>1. ASSUME NEW i \in 1..Len(t) PROVE GoodFrame(t[i], k, ns, m)
    <3>1. i \in 1..Len(s) - 1 \/ i = Len(s)
      BY <1>2
    <3> QED
      BY <3>1, <1>2, <1>14, <1>15
  <2>2. \A i \in 1..Len(t) - 1 : Reached(t[i]) >= 1 /\ audience[Reached(t[i])] \in ns
    BY <1>2 DEF GoodStack
  <2> QED
    BY <2>1, <2>2, <1>2 DEF GoodStack
<1>17. Reached(g) >= 1 /\ audience[Reached(g)] = o
  BY <1>6
<1> QED
  BY <1>13, <1>16, <1>17 DEF t, o, f

----------------------------------------------------------------------------
(* Steps *)

LEMMA OneAtATime ==
  ASSUME DispatchInv, NEW c \in Contexts, lock \in {None, c}
  PROVE  \A d \in Contexts : d # c => calls[d] = <<>>
BY DispatchAssumption DEF DispatchInv, Exclusive

\* One context's stack changes and with it what was heard.
LEMMA StackStep ==
  ASSUME DispatchInv, dispatcher # None, dispatcher' = dispatcher,
         NEW c \in Contexts, lock \in {None, c},
         NEW s, calls' = [calls EXCEPT ![c] = s], number' \in Nat,
         s # <<>> => lock' = c,
         GoodHearing(heard', nested', number'),
         GoodStack(s, heard', nested', number')
  PROVE  DispatchInv'
<1>1. \A d \in Contexts : calls'[d] = IF d = c THEN s ELSE <<>>
  BY OneAtATime DEF DispatchInv
<1>2. calls' = [d \in Contexts |-> calls'[d]]
  BY DEF DispatchInv
<1>3. Exclusive'
  BY <1>1 DEF Exclusive
<1>4. \A d \in Contexts : GoodStack(calls'[d], heard', nested', number')
  BY <1>1, EmptyStack
<1>5. Listed'
  BY DEF DispatchInv, Listed, audience
<1>6. GoodHearing(heard, nested, number)'
  BY DEF GoodHearing, NestedBefore, audience
<1>7. \A d \in Contexts : GoodStack(calls[d], heard, nested, number)'
  <2> TAKE d \in Contexts
  <2>1. ASSUME NEW i \in 1..Len(calls'[d])
        PROVE  GoodFrame(calls[d][i], heard, nested, number)'
    <3>1. GoodFrame(calls'[d][i], heard', nested', number')
      BY <1>4 DEF GoodStack
    <3> QED
      BY <3>1 DEF GoodFrame, Reached, NestedBefore, audience
  <2>2. ASSUME NEW i \in 1..Len(calls'[d]) - 1
        PROVE  (Reached(calls[d][i]) >= 1 /\ audience[Reached(calls[d][i])] \in nested)'
    <3>1. Reached(calls'[d][i]) >= 1 /\ audience[Reached(calls'[d][i])] \in nested'
      BY <1>4 DEF GoodStack
    <3> QED
      BY <3>1 DEF Reached, audience
  <2>3. IsSequence(calls'[d])
    BY <1>4 DEF GoodStack
  <2> QED
    BY <2>1, <2>2, <2>3 DEF GoodStack
<1> QED
  BY <1>2, <1>3, <1>5, <1>6, <1>7 DEF DispatchInv

LEMMA InitHolds == DispatchInit => DispatchInv
BY DEF DispatchInit, DispatchInv, Exclusive, Untouched, Hearings

LEMMA MadeStep ==
  ASSUME DispatchInv, Made
  PROVE  DispatchInv'
<1>1. Untouched /\ UNCHANGED <<number, lock, calls, heard, nested>> /\ dispatcher' # None
  BY DEF DispatchInv, Made
<1>2. number' \in Nat /\ (calls = [c \in Contexts |-> calls[c]])' /\ Exclusive'
  BY <1>1 DEF DispatchInv, Exclusive
<1>3. Listed'
  BY DEF Made, Listed, audience
<1>4. GoodHearing(heard, nested, number)'
  <2>1. \A q \in 1..Len(audience') : audience'[q] \in Observers
    BY <1>3, ElementOfSeq DEF Listed
  <2>2. heard' \in Hearings /\ \A o \in Observers : heard'[o].count = 0 /\ ~heard'[o].late
    BY <1>1 DEF Untouched
  <2>3. \A o \in Observers : heard'[o].count > 0 => heard'[o].last < number'
    BY <2>2
  <2> QED
    BY <2>1, <2>2, <2>3 DEF GoodHearing
<1>5. \A c \in Contexts : GoodStack(calls[c], heard, nested, number)'
  <2>1. \A c \in Contexts : calls'[c] = <<>>
    BY <1>1 DEF Untouched
  <2>2. IsSequence(<<>>) /\ Len(<<>>) = 0 /\ 1..0 = {} /\ 1..(0 - 1) = {}
    BY EmptyAny
  <2> QED
    BY <2>1, <2>2 DEF GoodStack
<1> QED
  BY <1>1, <1>2, <1>3, <1>4, <1>5 DEF DispatchInv

LEMMA EmitStep ==
  ASSUME DispatchInv, dispatcher # None, dispatcher' = dispatcher,
         NEW c \in Contexts, Idle(c), NEW e, Emit(c, e, None)
  PROVE  DispatchInv'
<1> DEFINE f == Frame(c, e, None)
<1>1. /\ number \in Nat /\ Listed /\ GoodHearing(heard, nested, number)
      /\ GoodStack(calls[c], heard, nested, number)
  BY DEF DispatchInv
<1>2. /\ calls' = [calls EXCEPT ![c] = Append(calls[c], f)]
      /\ lock \in {None, c} /\ lock' = c /\ number' = number + 1
      /\ heard' = heard /\ nested' = nested
  BY DEF Emit
<1>3. GoodFrame(f, heard, nested, number + 1)
  BY <1>1, NewFrame
<1> HIDE DEF f
<1>4. GoodStack(Append(calls[c], f), heard, nested, number + 1)
  BY <1>1, <1>3, Pushed DEF Idle
<1>5. GoodHearing(heard, nested, number + 1)
  BY <1>1 DEF GoodHearing, Hearings
<1>6. GoodStack(Append(calls[c], f), heard', nested', number') /\ GoodHearing(heard', nested', number')
  BY <1>2, <1>4, <1>5
<1>7. number' \in Nat
  BY <1>1, <1>2
<1> QED
  BY <1>2, <1>6, <1>7, StackStep

\* The innermost emission tells its next observer; g is what it becomes.
LEMMA TellStep ==
  ASSUME DispatchInv, dispatcher # None,
         NEW c \in Contexts, Telling(c), Hear(c),
         NEW g, IsFrame(g), g.number = Top(calls[c]).number, g.todo = Tail(Top(calls[c]).todo)
  PROVE  /\ lock = c
         /\ GoodHearing(heard', nested, number)
         /\ GoodStack(Append(Below(calls[c]), g), heard', nested, number)
         /\ Reached(g) >= 1 /\ audience[Reached(g)] = Head(Top(calls[c]).todo)
<1>1. /\ number \in Nat /\ Listed /\ GoodHearing(heard, nested, number)
      /\ GoodStack(calls[c], heard, nested, number)
  BY DEF DispatchInv
<1>2. calls[c] # <<>> /\ Top(calls[c]).todo # <<>>
  BY DEF Telling, Idle
<1>3. lock = c
  BY <1>2 DEF DispatchInv, Exclusive
<1>4. heard' = [heard EXCEPT ![Head(Top(calls[c]).todo)] =
        [count |-> @.count + 1, last |-> Top(calls[c]).number,
         late |-> @.late \/ (@.count > 0 /\ @.last > Top(calls[c]).number)]]
  BY DEF Hear
<1>5. /\ GoodHearing(heard', nested, number)
      /\ GoodStack(Append(Below(calls[c]), g), heard', nested, number)
      /\ Reached(g) >= 1 /\ audience[Reached(g)] = Head(Top(calls[c]).todo)
  BY <1>1, <1>2, <1>4, Heard
<1> QED
  BY <1>3, <1>5

\* The frame of the innermost emission, once it has told one more.
LEMMA AfterFrame ==
  ASSUME DispatchInv, dispatcher # None, NEW c \in Contexts, Telling(c)
  PROVE  /\ IsFrame(After(c))
         /\ After(c).number = Top(calls[c]).number
         /\ After(c).todo = Tail(Top(calls[c]).todo)
<1>1. GoodStack(calls[c], heard, nested, number)
  BY DEF DispatchInv
<1>2. Len(calls[c]) \in Nat \ {0}
  BY <1>1, LengthAny DEF Telling, Idle, GoodStack
<1>3. Len(calls[c]) \in 1..Len(calls[c])
  BY <1>2
<1>4. IsFrame(Top(calls[c]))
  BY <1>1, <1>3 DEF GoodStack, GoodFrame, Top
<1> QED
  BY <1>4, TailFrame DEF Telling, After

LEMMA ReplacedStep ==
  ASSUME DispatchInv, dispatcher # None, dispatcher' = dispatcher,
         NEW c \in Contexts, Telling(c), Hear(c),
         NEW g, IsFrame(g), g.number = Top(calls[c]).number,
         g.todo = Tail(Top(calls[c]).todo),
         calls' = WithTop(c, g), UNCHANGED <<number, lock, nested>>
  PROVE  DispatchInv'
<1>1. /\ lock = c /\ GoodHearing(heard', nested, number)
      /\ GoodStack(Append(Below(calls[c]), g), heard', nested, number)
  BY TellStep
<1>2. calls' = [calls EXCEPT ![c] = Append(Below(calls[c]), g)]
  BY DEF WithTop
<1>3. number' \in Nat /\ number' = number /\ nested' = nested /\ lock' = c /\ lock \in {None, c}
  BY <1>1 DEF DispatchInv
<1>4. /\ GoodHearing(heard', nested', number')
      /\ GoodStack(Append(Below(calls[c]), g), heard', nested', number')
  BY <1>1, <1>3
<1> QED
  BY <1>2, <1>3, <1>4, StackStep

LEMMA EmitsItselfStep ==
  ASSUME DispatchInv, dispatcher # None, dispatcher' = dispatcher,
         NEW c \in Contexts, NEW e, EmitsItself(c, e)
  PROVE  DispatchInv'
<1> DEFINE o == Head(Top(calls[c]).todo)
           g == After(c)
           s == Append(Below(calls[c]), g)
           f == Frame(c, e, o)
           nt == nested \cup {o}
<1>1. /\ Telling(c) /\ Hear(c) /\ lock' = c /\ number' = number + 1
      /\ calls' = [calls EXCEPT ![c] = Append(s, f)] /\ nested' = nt
  BY DEF EmitsItself, Trick
<1>2. number \in Nat /\ Listed
  BY DEF DispatchInv
<1>3. /\ IsFrame(g) /\ g.number = Top(calls[c]).number
      /\ g.todo = Tail(Top(calls[c]).todo)
  BY <1>1, AfterFrame
<1>4. /\ lock = c /\ GoodHearing(heard', nested, number)
      /\ GoodStack(s, heard', nested, number)
      /\ Reached(g) >= 1 /\ audience[Reached(g)] = o
  BY <1>1, <1>3, TellStep
<1>5. Top(s) = g
  <2>1. calls[c] # <<>> /\ IsSequence(calls[c])
    BY <1>1 DEF Telling, Idle, DispatchInv, GoodStack
  <2>2. Len(s) = Len(calls[c]) /\ s[Len(calls[c])] = g
    BY <2>1, TopReplaced
  <2> QED
    BY <2>2 DEF Top
<1>6. GoodFrame(f, heard', nt, number + 1)
  BY <1>2, <1>4, NewFrame
<1> HIDE DEF f, s, g, o
<1>7. GoodStack(Append(s, f), heard', nt, number + 1)
  <2>1. nested \subseteq nt /\ audience[Reached(Top(s))] \in nt /\ Reached(Top(s)) >= 1
    BY <1>4, <1>5
  <2> HIDE DEF nt
  <2> QED
    BY <2>1, <1>2, <1>4, <1>6, Pushed
<1>8. GoodHearing(heard', nt, number + 1)
  BY <1>2, <1>4 DEF GoodHearing, Hearings, NestedBefore
<1>9. number' \in Nat
  BY <1>1, <1>2
<1> HIDE DEF nt
<1>10. GoodHearing(heard', nested', number') /\ GoodStack(Append(s, f), heard', nested', number')
  BY <1>1, <1>7, <1>8
<1>11. lock \in {None, c}
  BY <1>4
<1> QED
  BY <1>1, <1>9, <1>10, <1>11, StackStep

LEMMA NestedReturnsStep ==
  ASSUME DispatchInv, dispatcher # None, dispatcher' = dispatcher,
         NEW c \in Contexts, NestedReturns(c)
  PROVE  DispatchInv'
<1> DEFINE outer == Top(Below(calls[c]))
           g == IF Top(calls[c]).failed THEN Failure(outer, Top(calls[c]).by) ELSE outer
           s == Append(Below(Below(calls[c])), g)
<1>1. /\ Told(c) /\ Len(calls[c]) > 1 /\ calls' = [calls EXCEPT ![c] = s]
      /\ UNCHANGED <<number, lock, heard, nested>>
  BY DEF NestedReturns
<1>2. /\ number \in Nat /\ GoodStack(calls[c], heard, nested, number)
      /\ GoodHearing(heard, nested, number) /\ lock = c
  BY <1>1 DEF DispatchInv, Told, Idle, Exclusive
<1>3. IsFrame(outer)
  <2>1. calls[c] # <<>> /\ IsSequence(calls[c])
    BY <1>1, <1>2 DEF Told, Idle, GoodStack
  <2>2. /\ Len(Below(calls[c])) = Len(calls[c]) - 1 /\ Len(calls[c]) \in Nat
        /\ \A i \in 1..Len(calls[c]) - 1 : Below(calls[c])[i] = calls[c][i]
    BY <2>1, BelowAny
  <2>3. outer = calls[c][Len(calls[c]) - 1] /\ Len(calls[c]) - 1 \in 1..Len(calls[c])
    BY <1>1, <2>2 DEF Top
  <2> QED
    BY <1>2, <2>3 DEF GoodStack, GoodFrame
<1>4. IsFrame(g) /\ g.number = outer.number /\ g.todo = outer.todo
  BY <1>3, FailureFrame
<1> HIDE DEF g
<1>5. GoodStack(s, heard, nested, number)
  BY <1>1, <1>2, <1>4, Popped
<1> HIDE DEF s, outer
<1>6. /\ GoodHearing(heard', nested', number') /\ GoodStack(s, heard', nested', number')
      /\ number' \in Nat /\ lock' = c /\ lock \in {None, c}
  BY <1>1, <1>2, <1>5
<1> QED
  BY <1>1, <1>6, StackStep

\* The outermost emission ends, one way or the other.
LEMMA EndedStep ==
  ASSUME DispatchInv, dispatcher # None, dispatcher' = dispatcher,
         NEW c \in Contexts, Leave(c) \/ Interrupts(c)
  PROVE  DispatchInv'
<1>1. /\ calls' = [calls EXCEPT ![c] = <<>>]
      /\ number' = number /\ nested' = nested /\ ~Idle(c)
  BY DEF Leave, Told, Interrupts, Trick, Telling
<1>2. number \in Nat /\ lock \in {None, c}
  BY <1>1 DEF DispatchInv, Exclusive, Idle
<1>3. GoodHearing(heard', nested, number)
  <2>1. CASE Leave(c)
    BY <2>1 DEF Leave, DispatchInv
  <2>2. CASE Interrupts(c)
    <3>1. Telling(c) /\ Hear(c)
      BY <2>2 DEF Interrupts, Trick
    <3>2. /\ IsFrame(After(c)) /\ After(c).number = Top(calls[c]).number
          /\ After(c).todo = Tail(Top(calls[c]).todo)
      BY <3>1, AfterFrame
    <3> QED
      BY <3>1, <3>2, TellStep
  <2> QED
    BY <2>1, <2>2
<1>4. /\ GoodHearing(heard', nested', number') /\ number' \in Nat
      /\ GoodStack(<<>>, heard', nested', number')
  BY <1>1, <1>2, <1>3, EmptyStack
<1> QED
  BY <1>1, <1>2, <1>4, StackStep

LEMMA DeliversStep ==
  ASSUME DispatchInv, dispatcher # None, dispatcher' = dispatcher,
         NEW c \in Contexts, Delivers(c)
  PROVE  DispatchInv'
<1>1. CASE Idle(c) /\ \E e : Emit(c, e, None)
  BY <1>1, EmitStep
<1>2. CASE Returns(c)
  <2>1. /\ Telling(c) /\ Hear(c) /\ calls' = WithTop(c, After(c))
        /\ UNCHANGED <<number, lock, nested>>
    BY <1>2 DEF Returns
  <2> QED
    BY <2>1, AfterFrame, ReplacedStep
<1>3. CASE Raises(c)
  <2> DEFINE g == Failure(After(c), Head(Top(calls[c]).todo))
  <2>1. /\ Telling(c) /\ Hear(c) /\ calls' = WithTop(c, g)
        /\ UNCHANGED <<number, lock, nested>>
    BY <1>3 DEF Raises, Trick
  <2>2. /\ IsFrame(g) /\ g.number = Top(calls[c]).number
        /\ g.todo = Tail(Top(calls[c]).todo)
    BY <2>1, AfterFrame, FailureFrame
  <2> HIDE DEF g
  <2> QED
    BY <2>1, <2>2, ReplacedStep
<1>4. CASE ClosesItself(c)
  <2>1. /\ Telling(c) /\ Hear(c) /\ calls' = WithTop(c, After(c))
        /\ UNCHANGED <<number, lock, nested>>
    BY <1>4 DEF ClosesItself, Trick
  <2> QED
    BY <2>1, AfterFrame, ReplacedStep
<1>5. CASE \E e : EmitsItself(c, e)
  BY <1>5, EmitsItselfStep
<1>6. CASE NestedReturns(c)
  BY <1>6, NestedReturnsStep
<1>7. CASE Leave(c) \/ Interrupts(c)
  BY <1>7, EndedStep
<1> QED
  BY <1>1, <1>2, <1>3, <1>4, <1>5, <1>6, <1>7 DEF Delivers

LEMMA NextKeeps == DispatchInv /\ [DispatchNext]_progress => DispatchInv'
<1> SUFFICES ASSUME DispatchInv, [DispatchNext]_progress
             PROVE  DispatchInv'
  OBVIOUS
<1>1. CASE UNCHANGED progress
  <2>1. /\ dispatcher' = dispatcher /\ number' = number /\ lock' = lock /\ calls' = calls
        /\ heard' = heard /\ nested' = nested
    BY <1>1 DEF progress
  <2> QED
    BY <2>1 DEF DispatchInv, Exclusive, Untouched, Listed, GoodHearing, GoodStack,
                GoodFrame, NestedBefore, Reached, audience
<1>2. CASE Made
  BY <1>2, MadeStep
<1>3. CASE dispatcher # None /\ UNCHANGED dispatcher /\ \E c \in Contexts : Delivers(c)
  BY <1>3, DeliversStep
<1> QED
  BY <1>1, <1>2, <1>3 DEF DispatchNext

----------------------------------------------------------------------------
(* What is promised *)

\* The numbers and lists of the emissions in progress stay in step with what
\* the observers were told (RunEventDispatcher.emit, _deliver).
THEOREM DispatchInvCorrect == DispatchSpec => []DispatchInv
<1>1. DispatchInit => DispatchInv
  BY InitHolds
<1>2. DispatchInv /\ [DispatchNext]_progress => DispatchInv'
  BY NextKeeps
<1> QED
  BY <1>1, <1>2, PTL DEF DispatchSpec

\* The lock is held by whoever has an emission in progress, so no two contexts
\* deliver at once (emit, under _lock).
OneDelivers == \A c, d \in Contexts : calls[c] # <<>> /\ calls[d] # <<>> => c = d

THEOREM OneDeliversCorrect == DispatchSpec => []OneDelivers
<1>1. DispatchInv => OneDelivers
  BY DEF DispatchInv, Exclusive, OneDelivers
<1> QED
  BY <1>1, DispatchInvCorrect, PTL

\* An observer is told an event behind a later one only if an observer before
\* it in the list emitted while it was being told (emit under an RLock).
THEOREM LateCorrect == DispatchSpec => []LateNeedsNesting
<1>1. DispatchInv => LateNeedsNesting
  <2> SUFFICES ASSUME DispatchInv, dispatcher # None,
                      NEW i \in DOMAIN audience, heard[audience[i]].late
               PROVE  \E o \in nested : Position(o) < i
    BY DEF LateNeedsNesting, audience
  <2>1. DOMAIN audience = 1..Len(audience)
    BY LenProperties DEF DispatchInv, Listed
  <2>2. NestedBefore(i, nested)
    BY <2>1 DEF DispatchInv, GoodHearing
  <2>3. PICK q \in 1..Len(audience) : q < i /\ audience[q] \in nested
    BY <2>2 DEF NestedBefore
  <2>4. Position(audience[q]) = q
    <3>1. \A j \in DOMAIN audience : audience[j] = audience[q] => j = q
      BY <2>1 DEF DispatchInv, Listed, Distinct
    <3>2. q \in DOMAIN audience
      BY <2>1
    <3> QED
      BY <3>1, <3>2 DEF Position, audience
  <2> QED
    BY <2>3, <2>4
<1> QED
  BY <1>1, DispatchInvCorrect, PTL

----------------------------------------------------------------------------
(* Nobody is passed over *)

\* The emissions that have still to tell the observer at position p.
Waiting(s, p) == {i \in 1..Len(s) : p > Reached(s[i])}

Current == IF lock = None THEN <<>> ELSE calls[lock]

\* Every event was told, or missed, or is still to be told.
CountInv ==
  /\ missed \in [Observers -> Nat]
  /\ dispatcher = None =>
       number = 0 /\ lock = None /\ \A o \in Observers : heard[o].count = 0 /\ missed[o] = 0
  /\ dispatcher # None => \A p \in 1..Len(audience) :
       heard[audience[p]].count + missed[audience[p]] + Cardinality(Waiting(Current, p)) = number

\* The observers from p on are those a frame has still to tell.
LEMMA HoldsBehind ==
  ASSUME NEW f, NEW h, NEW ns, NEW m, GoodFrame(f, h, ns, m), Listed,
         NEW p \in 1..Len(audience)
  PROVE  Holds(f.todo, audience[p]) <=> p > Reached(f)
<1>1. f.todo \in Seq(Observers)
  BY DEF GoodFrame, IsFrame
<1>2. Len(f.todo) \in Nat /\ DOMAIN f.todo = 1..Len(f.todo)
  BY <1>1, LenProperties
<1>3. Len(audience) \in Nat
  BY LenProperties DEF Listed
<1>4. /\ Reached(f) = Len(audience) - Len(f.todo) /\ Len(f.todo) <= Len(audience)
      /\ \A k \in 1..Len(f.todo) : f.todo[k] = audience[Reached(f) + k]
  BY DEF GoodFrame, Reached
<1> DEFINE n == Len(audience)
           t == Len(f.todo)
           r == Reached(f)
<1>5. /\ n \in Nat /\ t \in Nat /\ t <= n /\ r = n - t /\ p \in 1..n
      /\ DOMAIN f.todo = 1..t /\ \A k \in 1..t : f.todo[k] = audience[r + k]
  BY <1>2, <1>3, <1>4
<1>6. \A x, y \in 1..n : audience[x] = audience[y] => x = y
  BY DEF Listed, Distinct
<1> HIDE DEF n, t, r
<1>7. ASSUME p > r PROVE Holds(f.todo, audience[p])
  <2> DEFINE k == p - r
  <2>1. k \in 1..t /\ r + k = p
    BY <1>5, <1>7
  <2> HIDE DEF k
  <2> QED
    BY <2>1, <1>5 DEF Holds
<1>8. ASSUME Holds(f.todo, audience[p]) PROVE p > r
  <2>1. PICK k \in 1..t : f.todo[k] = audience[p]
    BY <1>5, <1>8 DEF Holds
  <2>2. audience[r + k] = audience[p]
    BY <2>1, <1>5
  <2>3. r + k \in 1..n /\ r + k > r
    BY <2>1, <1>5
  <2>4. r + k = p
    BY <2>2, <2>3, <1>5, <1>6
  <2> QED
    BY <2>3, <2>4
<1> QED
  BY <1>7, <1>8 DEF r

LEMMA WaitingFinite ==
  ASSUME NEW s, IsSequence(s), NEW p
  PROVE  /\ IsFiniteSet(Waiting(s, p)) /\ Cardinality(Waiting(s, p)) \in Nat
         /\ s = <<>> => Cardinality(Waiting(s, p)) = 0
<1>1. Len(s) \in Nat /\ (s = <<>> <=> Len(s) = 0)
  BY LengthAny
<1>2. IsFiniteSet(1..Len(s))
  BY <1>1, FS_Interval
<1>3. IsFiniteSet(Waiting(s, p))
  BY <1>2, FS_Subset DEF Waiting
<1>4. s = <<>> => Waiting(s, p) = {}
  BY <1>1 DEF Waiting
<1> QED
  BY <1>3, <1>4, FS_CardinalityType, FS_EmptySet

LEMMA CountNow ==
  ASSUME DispatchInv, CountInv, dispatcher # None, NEW c \in Contexts, lock \in {None, c},
         NEW p \in 1..Len(audience)
  PROVE  heard[audience[p]].count + missed[audience[p]] + Cardinality(Waiting(calls[c], p)) = number
<1>1. Current = calls[c]
  BY DispatchAssumption DEF Current, DispatchInv, Exclusive
<1> QED
  BY <1>1 DEF CountInv

LEMMA CountStep ==
  ASSUME dispatcher # None, dispatcher' = dispatcher, DispatchInv,
         NEW c \in Contexts, NEW s, calls' = [calls EXCEPT ![c] = s],
         lock' \in {None, c}, s # <<>> => lock' = c,
         missed' \in [Observers -> Nat],
         \A p \in 1..Len(audience) :
           heard'[audience[p]].count + missed'[audience[p]] + Cardinality(Waiting(s, p)) = number'
  PROVE  CountInv'
<1>1. Current' = s
  BY DispatchAssumption DEF Current, DispatchInv
<1>2. \A p : Waiting(Current, p)' = Waiting(s, p)
  BY <1>1 DEF Waiting, Reached, audience
<1>3. audience' = audience
  BY DEF audience
<1>4. \A p \in 1..Len(audience') :
        (heard[audience[p]].count + missed[audience[p]] + Cardinality(Waiting(Current, p)) = number)'
  BY <1>2, <1>3
<1> QED
  BY <1>4 DEF CountInv

\* The innermost emission tells one: only that one waits for one less.
LEMMA TellCounts ==
  ASSUME DispatchInv, dispatcher # None, NEW c \in Contexts, Telling(c), Hear(c),
         NEW g, g.todo = Tail(Top(calls[c]).todo), NEW p \in 1..Len(audience)
  PROVE  heard'[audience[p]].count + Cardinality(Waiting(Append(Below(calls[c]), g), p))
           = heard[audience[p]].count + Cardinality(Waiting(calls[c], p))
<1> DEFINE s == calls[c]
           f == Top(s)
           o == Head(f.todo)
           t == Append(Below(s), g)
<1>1. /\ Listed /\ heard \in Hearings /\ GoodStack(s, heard, nested, number)
      /\ s # <<>> /\ f.todo # <<>> /\ g.todo = Tail(f.todo)
  BY DEF DispatchInv, GoodHearing, Telling, Idle
<1>2. heard' = [heard EXCEPT ![o] = [count |-> @.count + 1, last |-> f.number,
         late |-> @.late \/ (@.count > 0 /\ @.last > f.number)]]
  BY DEF Hear
<1> HIDE DEF s
<1>3. IsSequence(s)
  BY <1>1 DEF GoodStack
<1>4. /\ IsSequence(t) /\ Len(t) = Len(s)
      /\ \A i \in 1..Len(s) - 1 : t[i] = s[i]
      /\ t[Len(s)] = g /\ Len(s) \in Nat \ {0}
  BY <1>1, <1>3, TopReplaced
<1>5. f = s[Len(s)] /\ GoodFrame(f, heard, nested, number)
  <2>1. f = s[Len(s)] /\ Len(s) \in 1..Len(s)
    BY <1>4 DEF Top
  <2> QED
    BY <1>1, <2>1 DEF GoodStack
<1> HIDE DEF t, f
<1>6. /\ Reached(f) + 1 \in 1..Len(audience) /\ o = audience[Reached(f) + 1]
      /\ o \in Observers /\ Reached(g) = Reached(f) + 1
  <2>1. GoodFrame(f, heard, nested, number) /\ f.todo # <<>> /\ Listed /\ g.todo = Tail(f.todo)
    BY <1>1, <1>5
  <2> QED
    BY ONLY <2>1, TheOneTold, Zenon DEF o
<1> HIDE DEF o
<1>7. Reached(f) \in Int
  BY <1>1, <1>5, ReachedInteger
<1>8. audience[p] \in Observers /\ heard[audience[p]].count \in Nat
  <2>1. audience[p] \in Observers
    BY <1>1, ElementOfSeq DEF Listed
  <2> QED
    BY <2>1, <1>1 DEF Hearings
<1>9. IsFiniteSet(Waiting(s, p)) /\ Cardinality(Waiting(s, p)) \in Nat
  BY <1>3, WaitingFinite
<1>10. \A i \in 1..Len(s) - 1 : i \in Waiting(t, p) <=> i \in Waiting(s, p)
  BY <1>4 DEF Waiting
<1>11. CASE p = Reached(f) + 1
  <2>1. audience[p] = o /\ heard'[audience[p]].count = heard[audience[p]].count + 1
    BY <1>1, <1>2, <1>6, <1>11 DEF Hearings
  <2>2. Len(s) \in Waiting(s, p) /\ Len(s) \notin Waiting(t, p)
    BY <1>4, <1>5, <1>6, <1>7, <1>11 DEF Waiting
  <2>3. Waiting(t, p) = Waiting(s, p) \ {Len(s)}
    <3>1. Waiting(t, p) \subseteq 1..Len(s) /\ Waiting(s, p) \subseteq 1..Len(s)
      BY <1>4 DEF Waiting
    <3>2. \A i \in 1..Len(s) : i \in 1..Len(s) - 1 \/ i = Len(s)
      BY <1>4
    <3>3. Len(s) \notin 1..Len(s) - 1
      BY <1>4
    <3> QED
      BY <2>2, <3>1, <3>2, <3>3, <1>10
  <2>4. Cardinality(Waiting(t, p)) = Cardinality(Waiting(s, p)) - 1
    BY <2>2, <2>3, <1>9, FS_RemoveElement
  <2>5. \A x, y \in Nat : (x + 1) + (y - 1) = x + y
    OBVIOUS
  <2>6. heard'[audience[p]].count + Cardinality(Waiting(t, p))
          = heard[audience[p]].count + Cardinality(Waiting(s, p))
    BY <2>1, <2>4, <2>5, <1>8, <1>9
  <2> QED
    BY <2>6 DEF s, t
<1>12. CASE p # Reached(f) + 1
  <2>1. audience[p] # o
    BY <1>1, <1>6, <1>12 DEF Listed, Distinct
  <2>2. heard'[audience[p]].count = heard[audience[p]].count
    BY <2>1, <1>1, <1>2, <1>8 DEF Hearings
  <2>3. p > Reached(g) <=> p > Reached(f)
    BY <1>6, <1>7, <1>12
  <2>4. Len(s) \in Waiting(t, p) <=> Len(s) \in Waiting(s, p)
    BY <2>3, <1>4, <1>5 DEF Waiting
  <2>5. Waiting(t, p) = Waiting(s, p)
    <3>1. Waiting(t, p) \subseteq 1..Len(s) /\ Waiting(s, p) \subseteq 1..Len(s)
      BY <1>4 DEF Waiting
    <3>2. \A i \in 1..Len(s) : i \in 1..Len(s) - 1 \/ i = Len(s)
      BY <1>4
    <3>3. \A i \in 1..Len(s) : i \in Waiting(t, p) <=> i \in Waiting(s, p)
      BY <2>4, <3>2, <1>10
    <3> QED
      BY <3>1, <3>3
  <2> QED
    BY <2>2, <2>5 DEF s, t
<1> QED
  BY <1>11, <1>12

\* A new emission: everybody waits for one more.
LEMMA PushCounts ==
  ASSUME NEW s, IsSequence(s), NEW f, f.todo = audience, Listed, NEW p \in 1..Len(audience)
  PROVE  Cardinality(Waiting(Append(s, f), p)) = Cardinality(Waiting(s, p)) + 1
<1> DEFINE t == Append(s, f)
<1>1. Len(s) \in Nat
  BY LengthAny
<1>2. /\ Len(t) = Len(s) + 1 /\ t[Len(s) + 1] = f
      /\ \A i \in 1..Len(s) : t[i] = s[i]
  BY AppendAny
<1>3. Reached(f) = 0
  <2>1. Len(audience) \in Nat
    BY LenProperties DEF Listed
  <2> QED
    BY <2>1 DEF Reached
<1> HIDE DEF t
<1>4. IsFiniteSet(Waiting(s, p))
  BY WaitingFinite
<1>5. Len(s) + 1 \notin Waiting(s, p) /\ Len(s) + 1 \in Waiting(t, p)
  BY <1>1, <1>2, <1>3 DEF Waiting
<1>6. \A i \in 1..Len(s) : i \in Waiting(t, p) <=> i \in Waiting(s, p)
  BY <1>1, <1>2 DEF Waiting
<1>7. Waiting(t, p) = Waiting(s, p) \cup {Len(s) + 1}
  <2>1. /\ Waiting(t, p) \subseteq 1..Len(s) + 1
        /\ Waiting(s, p) \subseteq 1..Len(s)
    BY <1>2 DEF Waiting
  <2>2. \A i \in 1..Len(s) + 1 : i \in 1..Len(s) \/ i = Len(s) + 1
    BY <1>1
  <2> QED
    BY <2>1, <2>2, <1>5, <1>6
<1>8. Cardinality(Waiting(t, p)) = Cardinality(Waiting(s, p)) + 1
  BY <1>4, <1>5, <1>7, FS_AddElement
<1> QED
  BY <1>8 DEF t

LEMMA InitCounts == DispatchInit => CountInv
BY DEF DispatchInit, CountInv

LEMMA MadeCounts ==
  ASSUME DispatchInv, CountInv, Made
  PROVE  CountInv'
<1>1. /\ number' = 0 /\ lock' = None /\ dispatcher' # None
      /\ \A o \in Observers : heard'[o].count = 0 /\ missed'[o] = 0
      /\ missed' \in [Observers -> Nat]
  BY DEF Made, CountInv
<1>2. \A p \in 1..Len(audience') : audience'[p] \in Observers
  BY ElementOfSeq DEF Made, audience
<1>3. Current' = <<>>
  BY <1>1 DEF Current
<1>4. \A p : Cardinality(Waiting(Current, p))' = 0
  <2>1. IsSequence(<<>>) /\ Len(<<>>) = 0 /\ 1..0 = {}
    BY EmptyAny
  <2>2. \A p : Waiting(Current, p)' = {}
    BY <2>1, <1>3 DEF Waiting
  <2> QED
    BY <2>2, FS_EmptySet
<1> QED
  BY <1>1, <1>2, <1>4 DEF CountInv

LEMMA EmitCounts ==
  ASSUME DispatchInv, CountInv, dispatcher # None, dispatcher' = dispatcher,
         NEW c \in Contexts, NEW e, Emit(c, e, None)
  PROVE  CountInv'
<1> DEFINE f == Frame(c, e, None)
           s == Append(calls[c], f)
<1>1. /\ number \in Nat /\ Listed /\ GoodStack(calls[c], heard, nested, number)
      /\ GoodHearing(heard, nested, number)
  BY DEF DispatchInv
<1>2. /\ calls' = [calls EXCEPT ![c] = s]
      /\ lock \in {None, c} /\ lock' = c /\ number' = number + 1
      /\ heard' = heard /\ missed' = missed
  BY DEF Emit
<1>3. f.todo = audience
  BY DEF Frame, audience
<1>4. ASSUME NEW p \in 1..Len(audience)
      PROVE  heard'[audience[p]].count + missed'[audience[p]] + Cardinality(Waiting(s, p)) = number'
  <2>1. audience[p] \in Observers
    BY <1>1, ElementOfSeq DEF Listed
  <2>2. heard[audience[p]].count \in Nat /\ missed[audience[p]] \in Nat
    BY <2>1, <1>1 DEF GoodHearing, Hearings, CountInv
  <2>3. IsSequence(calls[c])
    BY <1>1 DEF GoodStack
  <2> HIDE DEF f
  <2>4. Cardinality(Waiting(s, p)) = Cardinality(Waiting(calls[c], p)) + 1
    BY <2>3, <1>1, <1>3, PushCounts
  <2>5. heard[audience[p]].count + missed[audience[p]] + Cardinality(Waiting(calls[c], p)) = number
    BY <1>2, CountNow
  <2>6. Cardinality(Waiting(calls[c], p)) \in Nat
    BY <2>3, WaitingFinite
  <2> HIDE DEF s
  <2> QED
    BY <2>2, <2>4, <2>5, <2>6, <1>2
<1>5. missed' \in [Observers -> Nat] /\ lock' \in {None, c}
  BY <1>2 DEF CountInv
<1> HIDE DEF s
<1> QED
  BY <1>2, <1>4, <1>5, CountStep

LEMMA ReplacedCounts ==
  ASSUME DispatchInv, CountInv, dispatcher # None, dispatcher' = dispatcher,
         NEW c \in Contexts, Telling(c), Hear(c),
         NEW g, g.todo = Tail(Top(calls[c]).todo),
         calls' = WithTop(c, g), UNCHANGED <<number, lock, missed>>
  PROVE  CountInv'
<1> DEFINE s == Append(Below(calls[c]), g)
<1>1. /\ calls' = [calls EXCEPT ![c] = s] /\ number' = number /\ lock' = lock
      /\ missed' = missed
  BY DEF WithTop
<1>2. lock = c
  BY DEF DispatchInv, Exclusive, Telling, Idle
<1>3. ASSUME NEW p \in 1..Len(audience)
      PROVE  heard'[audience[p]].count + missed'[audience[p]] + Cardinality(Waiting(s, p)) = number'
  <2>1. heard'[audience[p]].count + Cardinality(Waiting(s, p))
          = heard[audience[p]].count + Cardinality(Waiting(calls[c], p))
    BY TellCounts
  <2>2. heard[audience[p]].count + missed[audience[p]] + Cardinality(Waiting(calls[c], p)) = number
    BY <1>2, CountNow
  <2>3. /\ heard[audience[p]].count \in Nat /\ heard'[audience[p]].count \in Nat
        /\ missed[audience[p]] \in Nat
        /\ Cardinality(Waiting(s, p)) \in Nat /\ Cardinality(Waiting(calls[c], p)) \in Nat
    <3>1. Listed /\ heard \in Hearings /\ GoodStack(calls[c], heard, nested, number)
      BY DEF DispatchInv, GoodHearing
    <3>2. audience[p] \in Observers
      BY <3>1, ElementOfSeq DEF Listed
    <3>3. IsSequence(calls[c]) /\ calls[c] # <<>>
      BY <3>1 DEF GoodStack, Telling, Idle
    <3>4. IsSequence(s)
      BY <3>3, TopReplaced
    <3>5. heard'[audience[p]].count \in Nat
      BY <3>1, <3>2 DEF Hear, Hearings
    <3> QED
      BY <3>1, <3>2, <3>3, <3>4, <3>5, WaitingFinite DEF Hearings, CountInv
  <2> HIDE DEF s
  <2> DEFINE x == heard[audience[p]].count
             y == heard'[audience[p]].count
             m == missed[audience[p]]
             v == Cardinality(Waiting(calls[c], p))
             w == Cardinality(Waiting(s, p))
  <2>4. y + w = x + v /\ x \in Nat /\ y \in Nat /\ m \in Nat /\ v \in Nat /\ w \in Nat
    BY ONLY <2>1, <2>3
  <2> HIDE DEF x, y, m, v, w
  <2>5. y + m + w = x + m + v
    BY ONLY <2>4
  <2>6. y + m + w = number
    BY ONLY <2>2, <2>5 DEF x, m, v
  <2> QED
    BY ONLY <2>6, <1>1 DEF y, m, w
<1>4. missed' \in [Observers -> Nat] /\ lock' \in {None, c} /\ (s # <<>> => lock' = c)
  BY <1>1, <1>2 DEF CountInv
<1> HIDE DEF s
<1> QED
  BY <1>1, <1>3, <1>4, CountStep

LEMMA EmitsItselfCounts ==
  ASSUME DispatchInv, CountInv, dispatcher # None, dispatcher' = dispatcher,
         NEW c \in Contexts, NEW e, EmitsItself(c, e)
  PROVE  CountInv'
<1> DEFINE f == Frame(c, e, Head(Top(calls[c]).todo))
           g == After(c)
           s == Append(Below(calls[c]), g)
           t == Append(s, f)
<1>1. /\ Telling(c) /\ Hear(c) /\ lock' = c /\ number' = number + 1
      /\ calls' = [calls EXCEPT ![c] = t] /\ missed' = missed
  BY DEF EmitsItself, Trick
<1>2. /\ number \in Nat /\ Listed /\ heard \in Hearings
      /\ GoodStack(calls[c], heard, nested, number)
  BY DEF DispatchInv, GoodHearing
<1>3. lock = c
  BY <1>1 DEF DispatchInv, Exclusive, Telling, Idle
<1>4. /\ IsFrame(g) /\ g.number = Top(calls[c]).number
      /\ g.todo = Tail(Top(calls[c]).todo)
  BY <1>1, AfterFrame
<1>5. f.todo = audience
  BY DEF Frame, audience
<1>6. ASSUME NEW p \in 1..Len(audience)
      PROVE  heard'[audience[p]].count + missed'[audience[p]] + Cardinality(Waiting(t, p)) = number'
  <2> HIDE DEF f, g
  <2>1. heard'[audience[p]].count + Cardinality(Waiting(s, p))
          = heard[audience[p]].count + Cardinality(Waiting(calls[c], p))
    BY <1>1, <1>4, TellCounts
  <2>2. heard[audience[p]].count + missed[audience[p]] + Cardinality(Waiting(calls[c], p)) = number
    BY <1>3, CountNow
  <2>3. IsSequence(calls[c]) /\ IsSequence(s)
    <3>1. IsSequence(calls[c]) /\ calls[c] # <<>>
      BY <1>1, <1>2 DEF GoodStack, Telling, Idle
    <3> QED
      BY <3>1, TopReplaced
  <2>4. Cardinality(Waiting(t, p)) = Cardinality(Waiting(s, p)) + 1
    BY <2>3, <1>2, <1>5, PushCounts
  <2>5. audience[p] \in Observers
    BY <1>2, ElementOfSeq DEF Listed
  <2>6. /\ heard[audience[p]].count \in Nat /\ heard'[audience[p]].count \in Nat
        /\ missed[audience[p]] \in Nat
    BY <1>1, <1>2, <2>5 DEF Hear, Hearings, CountInv
  <2>7. Cardinality(Waiting(s, p)) \in Nat /\ Cardinality(Waiting(calls[c], p)) \in Nat
    BY <2>3, WaitingFinite
  <2> HIDE DEF s, t
  <2> DEFINE x == heard[audience[p]].count
             y == heard'[audience[p]].count
             m == missed[audience[p]]
             v == Cardinality(Waiting(calls[c], p))
             w == Cardinality(Waiting(s, p))
  <2>8. y + w = x + v /\ x \in Nat /\ y \in Nat /\ m \in Nat /\ v \in Nat /\ w \in Nat
    BY ONLY <2>1, <2>6, <2>7
  <2> HIDE DEF x, y, m, v, w
  <2>9. y + m + (w + 1) = (x + m + v) + 1
    BY ONLY <2>8
  <2>10. x + m + v = number
    BY ONLY <2>2 DEF x, m, v
  <2>11. Cardinality(Waiting(t, p)) = w + 1
    BY ONLY <2>4 DEF w
  <2>12. y + m + Cardinality(Waiting(t, p)) = number'
    BY ONLY <2>9, <2>10, <2>11, <1>1
  <2> QED
    BY ONLY <2>12, <1>1 DEF y, m
<1>7. missed' \in [Observers -> Nat] /\ lock' \in {None, c}
  BY <1>1 DEF CountInv
<1> HIDE DEF t
<1> QED
  BY <1>1, <1>6, <1>7, CountStep

LEMMA NestedReturnsCounts ==
  ASSUME DispatchInv, CountInv, dispatcher # None, dispatcher' = dispatcher,
         NEW c \in Contexts, NestedReturns(c)
  PROVE  CountInv'
<1> DEFINE s == calls[c]
           b == Below(s)
           outer == Top(b)
           g == IF Top(s).failed THEN Failure(outer, Top(s).by) ELSE outer
           t == Append(Below(b), g)
<1>1. /\ Top(s).todo = <<>> /\ Len(s) > 1 /\ s # <<>>
      /\ calls' = [calls EXCEPT ![c] = t]
      /\ number' = number /\ lock' = lock /\ heard' = heard /\ missed' = missed
  BY DEF NestedReturns, Told, Idle
<1>2. /\ Listed /\ GoodStack(s, heard, nested, number) /\ lock = c
  BY <1>1 DEF DispatchInv, Exclusive
<1>3. IsSequence(s)
  BY <1>2 DEF GoodStack
<1> HIDE DEF s
<1>4. /\ IsSequence(b) /\ Len(b) = Len(s) - 1 /\ Len(s) \in Nat
      /\ \A i \in 1..Len(s) - 1 : b[i] = s[i]
  BY <1>1, <1>3, BelowAny
<1> HIDE DEF b
<1>5. b # <<>>
  BY <1>1, <1>4, LengthAny
<1>6. outer = s[Len(s) - 1] /\ IsFrame(outer)
  <2>1. outer = b[Len(b)] /\ Len(b) = Len(s) - 1 /\ Len(s) - 1 \in 1..Len(s) - 1
        /\ Len(s) - 1 \in 1..Len(s)
    BY <1>1, <1>4 DEF Top
  <2>2. outer = s[Len(s) - 1]
    BY <2>1, <1>4
  <2>3. GoodFrame(s[Len(s) - 1], heard, nested, number)
    BY <2>1, <1>2 DEF GoodStack
  <2> QED
    BY <2>2, <2>3 DEF GoodFrame
<1>7. g.todo = outer.todo
  BY <1>6, FailureFrame
<1> HIDE DEF g
<1>8. /\ Len(t) = Len(s) - 1 /\ \A i \in 1..Len(b) - 1 : t[i] = b[i]
      /\ t[Len(b)] = g
  BY <1>4, <1>5, TopReplaced
<1> HIDE DEF t, outer
<1>9. \A i \in 1..Len(s) - 1 : Reached(t[i]) = Reached(s[i])
  <2> TAKE i \in 1..Len(s) - 1
  <2>1. CASE i \in 1..Len(b) - 1
    BY <2>1, <1>4, <1>8
  <2>2. CASE i = Len(b)
    BY <2>2, <1>4, <1>6, <1>7, <1>8 DEF Reached
  <2> QED
    BY <2>1, <2>2, <1>4
<1>10. ASSUME NEW p \in 1..Len(audience) PROVE Waiting(t, p) = Waiting(s, p)
  <2>1. Reached(s[Len(s)]) = Len(audience)
    <3>1. Len(audience) \in Nat
      BY <1>2, LenProperties DEF Listed
    <3>2. s[Len(s)].todo = <<>> /\ Len(<<>>) = 0
      BY <1>1, EmptyAny DEF Top
    <3> QED
      BY <3>1, <3>2 DEF Reached
  <2>2. Len(s) \notin Waiting(s, p)
    <3>1. Len(audience) \in Nat
      BY <1>2, LenProperties DEF Listed
    <3> QED
      BY <2>1, <3>1 DEF Waiting
  <2>3. Waiting(t, p) \subseteq 1..Len(s) - 1 /\ Waiting(s, p) \subseteq 1..Len(s)
    BY <1>8 DEF Waiting
  <2>4. \A i \in 1..Len(s) : i \in 1..Len(s) - 1 \/ i = Len(s)
    BY <1>4
  <2>5. \A i \in 1..Len(s) - 1 : i \in Waiting(t, p) <=> i \in Waiting(s, p)
    BY <1>4, <1>8, <1>9 DEF Waiting
  <2> QED
    BY <2>2, <2>3, <2>4, <2>5
<1>11. ASSUME NEW p \in 1..Len(audience)
       PROVE  heard'[audience[p]].count + missed'[audience[p]] + Cardinality(Waiting(t, p)) = number'
  <2>1. heard[audience[p]].count + missed[audience[p]] + Cardinality(Waiting(calls[c], p)) = number
    BY <1>2, CountNow
  <2> QED
    BY <2>1, <1>1, <1>10 DEF s
<1>12. missed' \in [Observers -> Nat] /\ lock' \in {None, c} /\ (t # <<>> => lock' = c)
  BY <1>1, <1>2 DEF CountInv
<1> QED
  BY <1>1, <1>11, <1>12, CountStep

LEMMA LeaveCounts ==
  ASSUME DispatchInv, CountInv, dispatcher # None, dispatcher' = dispatcher,
         NEW c \in Contexts, Leave(c)
  PROVE  CountInv'
<1> DEFINE s == calls[c]
<1>1. /\ Top(s).todo = <<>> /\ Len(s) = 1 /\ s # <<>>
      /\ calls' = [calls EXCEPT ![c] = <<>>] /\ lock' = None
      /\ number' = number /\ heard' = heard /\ missed' = missed
  BY DEF Leave, Told, Idle
<1>2. Listed /\ lock = c
  BY <1>1 DEF DispatchInv, Exclusive
<1>3. ASSUME NEW p \in 1..Len(audience)
      PROVE  Cardinality(Waiting(s, p)) = 0 /\ Cardinality(Waiting(<<>>, p)) = 0
  <2>1. Len(audience) \in Nat
    BY <1>2, LenProperties DEF Listed
  <2>2. s[1].todo = <<>> /\ Len(<<>>) = 0
    BY <1>1, EmptyAny DEF Top
  <2>3. Reached(s[1]) = Len(audience)
    BY <2>1, <2>2 DEF Reached
  <2>4. Waiting(s, p) = {}
    BY <1>1, <2>1, <2>3 DEF Waiting
  <2>5. Waiting(<<>>, p) = {}
    BY EmptyAny DEF Waiting
  <2> QED
    BY <2>4, <2>5, FS_EmptySet
<1>4. ASSUME NEW p \in 1..Len(audience)
      PROVE  heard'[audience[p]].count + missed'[audience[p]] + Cardinality(Waiting(<<>>, p)) = number'
  <2>1. heard[audience[p]].count + missed[audience[p]] + Cardinality(Waiting(s, p)) = number
    BY <1>2, CountNow
  <2> HIDE DEF s
  <2>2. Cardinality(Waiting(<<>>, p)) = Cardinality(Waiting(s, p))
    BY <1>3
  <2> QED
    BY <2>1, <2>2, <1>1
<1>5. missed' \in [Observers -> Nat] /\ lock' \in {None, c}
  BY <1>1 DEF CountInv
<1> QED
  BY <1>1, <1>4, <1>5, CountStep

\* Who is interrupted misses what was still to be told, of every emission.
LEMMA InterruptsCounts ==
  ASSUME DispatchInv, CountInv, dispatcher # None, dispatcher' = dispatcher,
         NEW c \in Contexts, Interrupts(c)
  PROVE  CountInv'
<1> DEFINE s == calls[c]
           g == After(c)
           t == Append(Below(s), g)
           Lost(o) == {i \in DOMAIN s : Holds(IF i = Len(s) THEN g.todo ELSE s[i].todo, o)}
<1>1. /\ Telling(c) /\ Hear(c) /\ lock' = None /\ number' = number
      /\ calls' = [calls EXCEPT ![c] = <<>>]
      /\ missed' = [o \in Observers |-> missed[o] + Cardinality(Lost(o))]
  BY DEF Interrupts, Trick
<1>2. /\ Listed /\ heard \in Hearings /\ GoodStack(s, heard, nested, number)
      /\ s # <<>> /\ lock = c
  BY <1>1 DEF DispatchInv, GoodHearing, Exclusive, Telling, Idle
<1>3. /\ IsFrame(g) /\ g.number = Top(s).number /\ g.todo = Tail(Top(s).todo)
  BY <1>1, AfterFrame
<1>4. GoodStack(t, heard', nested, number)
  <2> HIDE DEF g
  <2> QED
    BY <1>1, <1>3, TellStep
<1>5. \A p \in 1..Len(audience) :
        heard'[audience[p]].count + Cardinality(Waiting(t, p))
          = heard[audience[p]].count + Cardinality(Waiting(s, p))
  <2> HIDE DEF g
  <2> QED
    BY <1>1, <1>3, TellCounts
<1>6. \A p \in 1..Len(audience) :
        heard[audience[p]].count + missed[audience[p]] + Cardinality(Waiting(s, p)) = number
  BY <1>2, CountNow
<1> HIDE DEF s, g
<1>7. IsSequence(s)
  BY <1>2 DEF GoodStack
<1>8. /\ IsSequence(t) /\ Len(t) = Len(s)
      /\ \A i \in 1..Len(s) - 1 : t[i] = s[i]
      /\ t[Len(s)] = g /\ Len(s) \in Nat \ {0} /\ DOMAIN s = 1..Len(s)
  BY <1>2, <1>7, TopReplaced, LengthAny
<1> HIDE DEF t
<1>9. \A o : IsFiniteSet(Lost(o)) /\ Cardinality(Lost(o)) \in Nat
  <2>1. IsFiniteSet(1..Len(s))
    BY <1>8, FS_Interval
  <2>2. \A o : Lost(o) \subseteq 1..Len(s)
    BY <1>8
  <2>3. \A o : IsFiniteSet(Lost(o))
    BY <2>1, <2>2, FS_Subset
  <2> QED
    BY <2>3, FS_CardinalityType
<1>10. ASSUME NEW p \in 1..Len(audience) PROVE Lost(audience[p]) = Waiting(t, p)
  <2>1. \A i \in 1..Len(s) : (IF i = Len(s) THEN g.todo ELSE s[i].todo) = t[i].todo
    <3>1. \A i \in 1..Len(s) : i \in 1..Len(s) - 1 \/ i = Len(s)
      BY <1>8
    <3> QED
      BY <3>1, <1>8
  <2>2. \A i \in 1..Len(s) : GoodFrame(t[i], heard', nested, number)
    BY <1>4, <1>8 DEF GoodStack
  <2>3. \A i \in 1..Len(s) : Holds(t[i].todo, audience[p]) <=> p > Reached(t[i])
    BY <2>2, <1>2, HoldsBehind
  <2>4. Lost(audience[p]) = {i \in 1..Len(s) : Holds(t[i].todo, audience[p])}
    BY <2>1, <1>8
  <2> QED
    BY <2>3, <2>4, <1>8 DEF Waiting
<1> HIDE DEF Lost
<1>11. missed' \in [Observers -> Nat]
  <2>1. \A o \in Observers : missed[o] \in Nat
    BY DEF CountInv
  <2> QED
    BY <2>1, <1>1, <1>9
<1>12. ASSUME NEW p \in 1..Len(audience)
       PROVE  heard'[audience[p]].count + missed'[audience[p]] + Cardinality(Waiting(<<>>, p)) = number'
  <2>1. audience[p] \in Observers
    BY <1>2, ElementOfSeq DEF Listed
  <2>2. missed'[audience[p]] = missed[audience[p]] + Cardinality(Waiting(t, p))
    BY <2>1, <1>1, <1>10
  <2>3. Cardinality(Waiting(<<>>, p)) = 0
    BY EmptyAny, WaitingFinite
  <2> DEFINE x == heard[audience[p]].count
             y == heard'[audience[p]].count
             m == missed[audience[p]]
             v == Cardinality(Waiting(s, p))
             w == Cardinality(Waiting(t, p))
  <2>4. x \in Nat /\ m \in Nat /\ y \in Nat
    BY <1>1, <1>2, <2>1 DEF Hear, Hearings, CountInv
  <2>5. v \in Nat /\ w \in Nat
    BY <1>7, <1>8, WaitingFinite
  <2>6. y + w = x + v /\ x + m + v = number
    BY <1>5, <1>6
  <2> HIDE DEF x, y, m, v, w
  <2>7. y + (m + w) + 0 = number
    BY ONLY <2>4, <2>5, <2>6
  <2>8. missed'[audience[p]] = m + w
    BY ONLY <2>2 DEF m, w
  <2>9. y + missed'[audience[p]] + Cardinality(Waiting(<<>>, p)) = number'
    BY ONLY <2>3, <2>7, <2>8, <1>1
  <2> QED
    BY ONLY <2>9 DEF y
<1>13. lock' \in {None, c}
  BY <1>1
<1> QED
  BY <1>1, <1>11, <1>12, <1>13, CountStep

LEMMA DeliversCounts ==
  ASSUME DispatchInv, CountInv, dispatcher # None, dispatcher' = dispatcher,
         NEW c \in Contexts, Delivers(c)
  PROVE  CountInv'
<1>1. CASE Idle(c) /\ \E e : Emit(c, e, None)
  BY <1>1, EmitCounts
<1>2. CASE Returns(c)
  <2>1. /\ Telling(c) /\ Hear(c) /\ calls' = WithTop(c, After(c))
        /\ UNCHANGED <<number, lock, missed>>
    BY <1>2 DEF Returns
  <2> QED
    BY <2>1, AfterFrame, ReplacedCounts
<1>3. CASE Raises(c)
  <2> DEFINE g == Failure(After(c), Head(Top(calls[c]).todo))
  <2>1. /\ Telling(c) /\ Hear(c) /\ calls' = WithTop(c, g)
        /\ UNCHANGED <<number, lock, missed>>
    BY <1>3 DEF Raises, Trick
  <2>2. g.todo = Tail(Top(calls[c]).todo)
    BY <2>1, AfterFrame, FailureFrame
  <2> HIDE DEF g
  <2> QED
    BY <2>1, <2>2, ReplacedCounts
<1>4. CASE ClosesItself(c)
  <2>1. /\ Telling(c) /\ Hear(c) /\ calls' = WithTop(c, After(c))
        /\ UNCHANGED <<number, lock, missed>>
    BY <1>4 DEF ClosesItself, Trick
  <2> QED
    BY <2>1, AfterFrame, ReplacedCounts
<1>5. CASE \E e : EmitsItself(c, e)
  BY <1>5, EmitsItselfCounts
<1>6. CASE NestedReturns(c)
  BY <1>6, NestedReturnsCounts
<1>7. CASE Leave(c)
  BY <1>7, LeaveCounts
<1>8. CASE Interrupts(c)
  BY <1>8, InterruptsCounts
<1> QED
  BY <1>1, <1>2, <1>3, <1>4, <1>5, <1>6, <1>7, <1>8 DEF Delivers

LEMMA NextCounts == DispatchInv /\ CountInv /\ [DispatchNext]_progress => CountInv'
<1> SUFFICES ASSUME DispatchInv, CountInv, [DispatchNext]_progress
             PROVE  CountInv'
  OBVIOUS
<1>1. CASE UNCHANGED progress
  <2>1. /\ dispatcher' = dispatcher /\ number' = number /\ lock' = lock /\ calls' = calls
        /\ heard' = heard /\ missed' = missed
    BY <1>1 DEF progress
  <2> QED
    BY <2>1 DEF CountInv, Waiting, Current, Reached, audience
<1>2. CASE Made
  BY <1>2, MadeCounts
<1>3. CASE dispatcher # None /\ UNCHANGED dispatcher /\ \E c \in Contexts : Delivers(c)
  BY <1>3, DeliversCounts
<1> QED
  BY <1>1, <1>2, <1>3 DEF DispatchNext

\* While nobody emits, every observer was told every event or was cut off from
\* it by an interrupt; no failure, nested emission or closed handle takes an
\* event from another observer (emit, _deliver).
THEOREM ToldCorrect == DispatchSpec => []EachIsTold
<1>1. DispatchInit => DispatchInv /\ CountInv
  BY InitHolds, InitCounts
<1>2. DispatchInv /\ CountInv /\ [DispatchNext]_progress => DispatchInv' /\ CountInv'
  BY NextKeeps, NextCounts
<1>3. DispatchInv /\ CountInv => EachIsTold
  <2> SUFFICES ASSUME DispatchInv, CountInv, dispatcher # None, lock = None,
                      NEW i \in DOMAIN audience
               PROVE  heard[audience[i]].count + missed[audience[i]] = number
    BY DEF EachIsTold, audience
  <2>1. Listed /\ DOMAIN audience = 1..Len(audience) /\ heard \in Hearings
    BY LenProperties DEF DispatchInv, Listed, GoodHearing
  <2>2. Cardinality(Waiting(Current, i)) = 0
    BY EmptyAny, WaitingFinite DEF Current
  <2>3. heard[audience[i]].count + missed[audience[i]] + 0 = number
    BY <2>1, <2>2 DEF CountInv
  <2>4. audience[i] \in Observers
    BY <2>1, ElementOfSeq DEF Listed
  <2>5. heard[audience[i]].count \in Nat /\ missed[audience[i]] \in Nat
    BY <2>1, <2>4 DEF Hearings, CountInv
  <2> QED
    BY <2>3, <2>5
<1> QED
  BY <1>1, <1>2, <1>3, PTL DEF DispatchSpec
=============================================================================
