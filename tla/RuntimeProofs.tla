----------------------------- MODULE RuntimeProofs -----------------------------
(***************************************************************************)
(* What holds of a Runtime for any number of calls, loops and scopes.      *)
(***************************************************************************)
EXTENDS Runtime, FiniteSetTheorems, TLAPS

LEMMA TypeInit == Init => TypeOK
<1> SUFFICES ASSUME Init PROVE TypeOK
  OBVIOUS
<1> USE RuntimeAssumption DEF Init, TypeOK
<1>1. capacity \in (Nat \ {0}) \cup {Unlimited}
  BY DEF Places
<1>2. free \in Nat
  BY <1>1
<1>3. depth \in [Tasks -> 0..NumScopes]
  OBVIOUS
<1> QED
  BY <1>1, <1>2, <1>3

\* Proceeding changes nothing that a runtime was defined with.
LEMMA TypeStep == TypeOK /\ [Next]_vars => TypeOK'
<1> SUFFICES ASSUME TypeOK, [Next]_vars PROVE TypeOK'
  OBVIOUS
<1> USE RuntimeAssumption DEF TypeOK, definition, Goto, Ends
<1>1. ASSUME NEW t \in Tasks, Call(t) PROVE TypeOK'
  BY <1>1 DEF Call
<1>2. ASSUME NEW t \in Tasks, Acquire(t) PROVE TypeOK'
  BY <1>2 DEF Acquire
<1>3. ASSUME NEW t \in Tasks, EnterScope(t) PROVE TypeOK'
  <2> DEFINE k == depth[t] + 1
             here == ContextOf(t)
  <2>1. k \in Scopes /\ k \in 0..NumScopes
    BY <1>3 DEF EnterScope, Scopes
  <2>2. here \in Contexts
    BY DEF ContextOf, Contexts
  <2>3. SlotOf[k] \in Slots
    BY <2>1
  <2>4. inForce[here][SlotOf[k]] \in (Tasks \X Scopes) \cup {None}
    BY <2>2, <2>3
  <2>5. saved' = [saved EXCEPT ![t][k] = inForce[here][SlotOf[k]]]
    BY <1>3 DEF EnterScope
  <2>6. saved' \in [Tasks -> [Scopes -> (Tasks \X Scopes) \cup {None}]]
    BY <2>1, <2>4, <2>5
  <2>7. inForce' = [inForce EXCEPT ![here][SlotOf[k]] = <<t, k>>]
    BY <1>3 DEF EnterScope
  <2>8. inForce' \in [Contexts -> [Slots -> (Tasks \X Scopes) \cup {None}]]
    BY <2>1, <2>2, <2>3, <2>7
  <2>9. depth' \in [Tasks -> 0..NumScopes]
    BY <1>3, <2>1 DEF EnterScope
  <2> QED
    BY <1>3, <2>6, <2>8, <2>9 DEF EnterScope
<1>4. ASSUME NEW t \in Tasks, EnterRaises(t) PROVE TypeOK'
  BY <1>4 DEF EnterRaises
<1>5. ASSUME NEW t \in Tasks, StartSubject(t) PROVE TypeOK'
  BY <1>5 DEF StartSubject
<1>6. ASSUME NEW t \in Tasks, SubjectEnds(t) PROVE TypeOK'
  BY <1>6 DEF SubjectEnds
<1>7. ASSUME NEW t \in Tasks, LeaveScope(t) PROVE TypeOK'
  <2>1. depth[t] \in Scopes /\ depth[t] - 1 \in 0..NumScopes
    BY <1>7 DEF LeaveScope, Scopes
  <2>2. ContextOf(t) \in Contexts
    BY DEF ContextOf, Contexts
  <2>3. SlotOf[depth[t]] \in Slots
        /\ saved[t][depth[t]] \in (Tasks \X Scopes) \cup {None}
    BY <2>1
  <2>4. inForce' \in [Contexts -> [Slots -> (Tasks \X Scopes) \cup {None}]]
    BY <1>7, <2>2, <2>3 DEF LeaveScope
  <2>5. depth' \in [Tasks -> 0..NumScopes]
    BY <1>7, <2>1 DEF LeaveScope
  <2> QED
    BY <1>7, <2>4, <2>5 DEF LeaveScope
<1>8. ASSUME NEW t \in Tasks, Release(t) PROVE TypeOK'
  BY <1>8 DEF Release
<1>9. ASSUME NEW t \in Tasks, Cancel(t) PROVE TypeOK'
  BY <1>9 DEF Cancel
<1>10. CASE UNCHANGED vars
  BY <1>10 DEF vars
<1> QED
  BY <1>1, <1>2, <1>3, <1>4, <1>5, <1>6, <1>7, <1>8, <1>9, <1>10
  DEF Next, Proceed

\* Every variable of the runtime and of its calls keeps its type.
THEOREM TypeCorrect == Spec => []TypeOK
BY TypeInit, TypeStep, PTL DEF Spec

----------------------------------------------------------------------------
(* The semaphore.                                                          *)

LEMMA HoldersFinite == IsFiniteSet(Holders) /\ Cardinality(Holders) \in Nat
<1>1. Holders \subseteq Tasks BY DEF Holders
<1>2. IsFiniteSet(Holders) BY <1>1, FS_Subset, RuntimeAssumption
<1> QED BY <1>2, FS_CardinalityType

\* Who holds a place changes where a call gets one and where it gives it back.
LEMMA HoldersStep ==
  ASSUME TypeOK, [Next]_vars
  PROVE  \/ Holders' = Holders /\ free' = free
         \/ \E t \in Tasks : /\ t \notin Holders
                             /\ Holders' = Holders \cup {t}
                             /\ capacity # Unlimited => free' = free - 1
         \/ \E t \in Holders : /\ Holders' = Holders \ {t}
                               /\ capacity # Unlimited => free' = free + 1
<1> USE DEF TypeOK, Goto, Holders
<1>1. ASSUME NEW t \in Tasks, Call(t) \/ EnterScope(t) \/ EnterRaises(t)
               \/ StartSubject(t) \/ SubjectEnds(t) \/ LeaveScope(t) \/ Cancel(t)
      PROVE  Holders' = Holders /\ free' = free
  BY <1>1 DEF Call, EnterScope, EnterRaises, StartSubject, SubjectEnds,
              LeaveScope, Cancel
<1>2. ASSUME NEW t \in Tasks, Acquire(t)
      PROVE  /\ t \notin Holders
             /\ Holders' = Holders \cup {t}
             /\ capacity # Unlimited => free' = free - 1
  BY <1>2 DEF Acquire
<1>3. ASSUME NEW t \in Tasks, Release(t)
      PROVE  /\ t \in Holders
             /\ Holders' = Holders \ {t}
             /\ capacity # Unlimited => free' = free + 1
  BY <1>3 DEF Release
<1>4. CASE UNCHANGED vars
  BY <1>4 DEF vars
<1> QED
  BY <1>1, <1>2, <1>3, <1>4 DEF Next, Proceed

LEMMA CapacityInit == Init => CapacityAccounted
<1> SUFFICES ASSUME Init, capacity # Unlimited
             PROVE  free + Cardinality(Holders) = capacity
  BY DEF CapacityAccounted
<1>1. Holders = {} BY DEF Init, Holders
<1>2. free = capacity /\ capacity \in Nat
  BY RuntimeAssumption DEF Init, Places
<1> QED BY <1>1, <1>2, FS_EmptySet

LEMMA CapacityStep ==
  TypeOK /\ CapacityAccounted /\ [Next]_vars => CapacityAccounted'
<1> SUFFICES ASSUME TypeOK, CapacityAccounted, [Next]_vars, capacity' # Unlimited
             PROVE  free' + Cardinality(Holders') = capacity'
  BY DEF CapacityAccounted
<1>1. capacity' = capacity
  BY DEF Next, Proceed, Call, Acquire, EnterScope, EnterRaises, StartSubject,
         SubjectEnds, LeaveScope, Release, Cancel, definition, vars
<1>2. free + Cardinality(Holders) = capacity
  BY <1>1 DEF CapacityAccounted
<1>3. Cardinality(Holders) \in Nat /\ free \in Nat /\ IsFiniteSet(Holders)
  BY HoldersFinite DEF TypeOK
<1>4. CASE Holders' = Holders /\ free' = free
  BY <1>1, <1>2, <1>4
<1>5. ASSUME NEW t \in Tasks, t \notin Holders, Holders' = Holders \cup {t},
             free' = free - 1
      PROVE  free' + Cardinality(Holders') = capacity'
  <2>1. Cardinality(Holders') = Cardinality(Holders) + 1
    BY <1>3, <1>5, FS_AddElement
  <2> QED BY <1>1, <1>2, <1>3, <1>5, <2>1
<1>6. ASSUME NEW t \in Holders, Holders' = Holders \ {t}, free' = free + 1
      PROVE  free' + Cardinality(Holders') = capacity'
  <2>1. Cardinality(Holders') = Cardinality(Holders) - 1
    BY <1>3, <1>6, FS_RemoveElement
  <2> QED BY <1>1, <1>2, <1>3, <1>6, <2>1
<1> QED
  BY <1>1, <1>4, <1>5, <1>6, HoldersStep

\* No place of the semaphore is lost or given back twice, whichever calls
\* raise or are cancelled where.
THEOREM CapacityCorrect == Spec => []CapacityAccounted
<1>1. Init => TypeOK /\ CapacityAccounted BY TypeInit, CapacityInit
<1>2. TypeOK /\ CapacityAccounted /\ [Next]_vars
        => (TypeOK /\ CapacityAccounted)'
  BY TypeStep, CapacityStep
<1> QED BY <1>1, <1>2, PTL DEF Spec

----------------------------------------------------------------------------
(* The scopes.                                                             *)

\* Two calls that hold places of one runtime work in different contexts: if
\* they share one the runtime is serialized and has a single place.
LEMMA OneHolderPerContext ==
  ASSUME TypeOK, CapacityAccounted, RuntimeInvariant,
         NEW t \in Holders, NEW u \in Holders, ContextOf(t) = ContextOf(u)
  PROVE  t = u
<1>1. t \in Tasks /\ u \in Tasks BY DEF Holders
<1>2. CASE isolation # "serialized"
  BY <1>2 DEF ContextOf
<1>3. CASE isolation = "serialized"
  <2>1. capacity = 1 /\ capacity # Unlimited
    BY <1>3, RuntimeAssumption DEF RuntimeInvariant
  <2>2. free + Cardinality(Holders) = 1 /\ free \in Nat
    BY <2>1 DEF CapacityAccounted, TypeOK
  <2>3. Cardinality(Holders) <= 1
    BY <2>2, HoldersFinite
  <2>4. IsFiniteSet({t, u}) /\ Cardinality({t, u}) = IF t = u THEN 1 ELSE 2
    <3>1. IsFiniteSet({t}) /\ Cardinality({t}) = 1
      BY FS_Singleton
    <3>2. {t, u} = {t} \cup {u}
      OBVIOUS
    <3> QED
      BY <3>1, <3>2, FS_AddElement
  <2>5. Cardinality({t, u}) <= Cardinality(Holders)
    BY HoldersFinite, FS_Subset
  <2> QED
    BY <2>3, <2>4, <2>5, HoldersFinite
<1> QED
  BY <1>2, <1>3

\* A scope that is entered becomes the last to set its slot, and what it found
\* there is the last before it.
LEMMA LastEntered ==
  ASSUME NEW t \in Tasks, NEW d \in Nat, d + 1 \in Scopes, NEW s, NEW v,
         Last(t, d, s, v)
  PROVE  /\ s = SlotOf[d + 1] => Last(t, d + 1, s, <<t, d + 1>>)
         /\ s # SlotOf[d + 1] => Last(t, d + 1, s, v)
BY DEF Last, Scopes

\* A scope that is left leaves the last before it in the slots it did not set.
LEMMA LastLeft ==
  ASSUME NEW t \in Tasks, NEW d \in Nat \ {0}, NEW s, NEW v,
         Last(t, d, s, v), s # SlotOf[d]
  PROVE  Last(t, d - 1, s, v)
BY DEF Last

\* What holds of the scopes of a call that has a place.
Scoped(t) ==
  /\ \A s \in Slots : Last(t, depth[t], s, inForce[ContextOf(t)][s])
  /\ \A k \in 1..depth[t] : Last(t, k - 1, SlotOf[k], saved[t][k])

Inv == CapacityAccounted /\ RuntimeInvariant /\ ScopeRestored

LEMMA InvInit == Init => Inv
<1> SUFFICES ASSUME Init PROVE RuntimeInvariant /\ ScopeRestored
  BY CapacityInit DEF Inv
<1>1. isolation = "serialized" => capacity = 1
  BY DEF Init, Places
<1>2. Holders = {}
  BY DEF Init, Holders
<1> QED
  BY <1>1, <1>2 DEF Init, RuntimeInvariant, ScopeRestored

\* What has to hold of the next state for the invariant to hold there.
LEMMA ScopedNext ==
  ASSUME NEW t \in Tasks, UNCHANGED definition,
         \A s \in Slots : Last(t, depth'[t], s, inForce'[ContextOf(t)][s]),
         \A k \in 1..depth'[t] : Last(t, k - 1, SlotOf[k], saved'[t][k])
  PROVE  Scoped(t)'
<1>1. ContextOf(t)' = ContextOf(t)
  BY DEF ContextOf, definition
<1> QED
  BY <1>1 DEF Scoped, Last

LEMMA RestoredNext ==
  ASSUME UNCHANGED definition,
         \A c \in Contexts : (\A t \in Holders' : ContextOf(t) # c)
                             => \A s \in Slots : inForce'[c][s] = None
  PROVE  ScopeRestored'
BY DEF ScopeRestored, ContextOf, Contexts, definition

\* A step of one call leaves the scopes of the others alone.
LEMMA OthersUnmoved ==
  ASSUME TypeOK, Inv, NEW t \in Holders, NEW u \in Holders, u # t,
         UNCHANGED definition, depth'[u] = depth[u], saved'[u] = saved[u],
         \A c \in Contexts \ {ContextOf(t)} : inForce'[c] = inForce[c]
  PROVE  Scoped(u)'
<1>1. u \in Tasks /\ t \in Tasks
  BY DEF Holders
<1>2. ContextOf(u) # ContextOf(t) /\ ContextOf(u) \in Contexts
  BY <1>1, OneHolderPerContext DEF Inv, ContextOf, Contexts
<1>3. ContextOf(u)' = ContextOf(u)
  BY DEF ContextOf, definition
<1>4. Scoped(u)
  BY <1>1 DEF Inv, RuntimeInvariant, Scoped
<1> QED
  BY <1>2, <1>3, <1>4 DEF Scoped, Last

LEMMA InvStep == TypeOK /\ Inv /\ [Next]_vars => Inv'
<1> SUFFICES ASSUME TypeOK, Inv, [Next]_vars PROVE Inv'
  OBVIOUS
<1>t. TypeOK' /\ CapacityAccounted'
  BY TypeStep, CapacityStep DEF Inv
<1>d. UNCHANGED definition
  BY DEF Next, Proceed, Call, Acquire, EnterScope, EnterRaises, StartSubject,
         SubjectEnds, LeaveScope, Release, Cancel, definition, vars
<1>c. (isolation = "serialized" => capacity = 1)'
  BY <1>d DEF definition, Inv, RuntimeInvariant
<1>x. \A t \in Tasks : ContextOf(t)' = ContextOf(t) /\ ContextOf(t) \in Contexts
  BY <1>d DEF ContextOf, Contexts, definition
<1>h. \A t \in Tasks : /\ t \in Holders => Scoped(t)
                       /\ t \notin Holders => depth[t] = 0
                       /\ pc[t] = "inside" => depth[t] = NumScopes
  BY DEF Inv, RuntimeInvariant, Scoped
\* Calls that move without touching a scope.
<1>1. ASSUME NEW t \in Tasks, Holders' = Holders,
             UNCHANGED <<depth, saved, inForce>>,
             \A u \in Tasks : pc'[u] = "inside" => depth[u] = NumScopes
      PROVE  Inv'
  <2>1. RuntimeInvariant'
    BY <1>1, <1>c, <1>h, <1>x DEF RuntimeInvariant, Scoped, Last
  <2>2. ScopeRestored'
    BY <1>1, <1>d, RestoredNext DEF Inv, ScopeRestored
  <2> QED BY <1>t, <2>1, <2>2 DEF Inv
<1>2. ASSUME NEW t \in Tasks, Acquire(t) PROVE Inv'
  <2>1. /\ t \notin Holders /\ Holders' = Holders \cup {t}
        /\ UNCHANGED <<depth, saved, inForce>>
        /\ pc' = [pc EXCEPT ![t] = "entering"]
    BY <1>2 DEF Acquire, Holders, Goto, TypeOK
  <2>2. depth[t] = 0 /\ ContextOf(t) \in Contexts
    BY <1>h, <1>x, <2>1
  <2>3. ASSUME NEW u \in Holders PROVE ContextOf(u) # ContextOf(t)
    <3>1. t \in Holders' /\ u \in Holders' /\ u # t /\ u \in Tasks
      BY <2>1 DEF Holders
    <3>2. isolation # "serialized"
      <4> SUFFICES ASSUME isolation = "serialized" PROVE FALSE
        OBVIOUS
      <4>1. free > 0 /\ free + Cardinality(Holders) = 1
        BY <1>2, RuntimeAssumption
        DEF Acquire, Inv, RuntimeInvariant, CapacityAccounted
      <4>2. free \in Nat /\ Cardinality(Holders) \in Nat
        BY HoldersFinite DEF TypeOK
      <4>3. Cardinality(Holders) = 0
        BY <4>1, <4>2
      <4> QED BY <4>3, HoldersFinite, FS_EmptySet
    <3> QED BY <3>1, <3>2 DEF ContextOf
  <2>4. \A s \in Slots : inForce[ContextOf(t)][s] = None
    BY <2>2, <2>3 DEF Inv, ScopeRestored
  <2>5. Scoped(t)'
    BY <1>x, <2>1, <2>2, <2>4 DEF Scoped, Last
  <2>6. \A u \in Holders : Scoped(u)'
    BY <1>x, <1>h, <2>1 DEF Scoped, Last, Holders
  <2>7. RuntimeInvariant'
    BY <1>c, <1>h, <2>1, <2>5, <2>6 DEF RuntimeInvariant, Scoped, TypeOK
  <2>8. ScopeRestored'
    BY <1>d, <2>1, RestoredNext DEF Inv, ScopeRestored
  <2> QED BY <1>t, <2>7, <2>8 DEF Inv
<1>3. ASSUME NEW t \in Tasks, EnterScope(t) PROVE Inv'
  <2> DEFINE k == depth[t] + 1
             here == ContextOf(t)
  <2>1. /\ t \in Holders /\ Holders' = Holders /\ UNCHANGED pc
        /\ pc[t] = "entering"
    BY <1>3 DEF EnterScope, Holders
  <2>2. depth[t] \in Nat /\ k \in Scopes /\ here \in Contexts
    <3>1. depth[t] \in 0..NumScopes /\ depth[t] < NumScopes
      BY <1>3 DEF EnterScope, TypeOK
    <3> QED BY <1>x, <3>1, RuntimeAssumption DEF Scopes
  <2>3. /\ depth' = [depth EXCEPT ![t] = k]
        /\ saved' = [saved EXCEPT ![t][k] = inForce[here][SlotOf[k]]]
        /\ inForce' = [inForce EXCEPT ![here][SlotOf[k]] = <<t, k>>]
    BY <1>3 DEF EnterScope
  <2>4. SlotOf[k] \in Slots
    BY <2>2, RuntimeAssumption
  <2>5. \A s \in Slots : Last(t, k, s, inForce'[here][s])
    <3> SUFFICES ASSUME NEW s \in Slots PROVE Last(t, k, s, inForce'[here][s])
      OBVIOUS
    <3>1. Last(t, depth[t], s, inForce[here][s])
      BY <1>h, <2>1 DEF Scoped
    <3>2. inForce'[here][s] = IF s = SlotOf[k] THEN <<t, k>> ELSE inForce[here][s]
      BY <2>2, <2>3, <2>4 DEF TypeOK
    <3> QED BY <2>2, <3>1, <3>2, LastEntered
  <2>6. \A j \in 1..k : Last(t, j - 1, SlotOf[j], saved'[t][j])
    <3>1. \A j \in 1..depth[t] :
            Last(t, j - 1, SlotOf[j], saved[t][j]) /\ saved'[t][j] = saved[t][j]
      BY <1>h, <2>1, <2>2, <2>3 DEF Scoped, TypeOK, Scopes
    <3>2. saved'[t][k] = inForce[here][SlotOf[k]]
      BY <2>2, <2>3 DEF TypeOK
    <3>3. Last(t, k - 1, SlotOf[k], saved'[t][k])
      BY <1>h, <2>1, <2>2, <2>4, <3>2 DEF Scoped
    <3> QED BY <2>2, <3>1, <3>3
  <2>7. Scoped(t)'
    <3>1. depth'[t] = k
      BY <2>3 DEF TypeOK
    <3> QED BY <1>d, <2>5, <2>6, <3>1, ScopedNext
  <2>8. \A u \in Holders \ {t} : Scoped(u)'
    <3> SUFFICES ASSUME NEW u \in Holders, u # t PROVE Scoped(u)'
      OBVIOUS
    <3>1. u \in Tasks BY DEF Holders
    <3>2. depth'[u] = depth[u] /\ saved'[u] = saved[u]
      BY <2>3, <3>1 DEF TypeOK
    <3>3. \A c \in Contexts \ {here} : inForce'[c] = inForce[c]
      BY <2>3 DEF TypeOK
    <3> QED BY <1>d, <2>1, <3>2, <3>3, OthersUnmoved
  <2>9. RuntimeInvariant'
    <3> SUFFICES ASSUME NEW u \in Tasks
                 PROVE  /\ u \notin Holders' => depth'[u] = 0
                        /\ pc'[u] = "inside" => depth'[u] = NumScopes
                        /\ u \in Holders' => Scoped(u)'
      BY <1>c DEF RuntimeInvariant, Scoped
    <3>1. CASE u = t
      BY <2>1, <2>7, <3>1
    <3>2. CASE u # t
      BY <1>h, <2>1, <2>3, <2>8, <3>2 DEF TypeOK
    <3> QED BY <3>1, <3>2
  <2>10. ScopeRestored'
    <3> SUFFICES ASSUME NEW c \in Contexts, \A u \in Holders : ContextOf(u) # c
                 PROVE  \A s \in Slots : inForce'[c][s] = None
      BY <1>d, <2>1, RestoredNext
    <3>1. inForce'[c] = inForce[c]
      BY <2>1, <2>3 DEF TypeOK
    <3> QED BY <3>1 DEF Inv, ScopeRestored
  <2> QED BY <1>t, <2>9, <2>10 DEF Inv
<1>4. ASSUME NEW t \in Tasks, LeaveScope(t) PROVE Inv'
  <2> DEFINE d == depth[t]
             here == ContextOf(t)
  <2>1. t \in Holders /\ Holders' = Holders /\ UNCHANGED <<pc, saved>>
        /\ pc[t] = "unwinding"
    BY <1>4 DEF LeaveScope, Holders
  <2>2. d \in Nat \ {0} /\ d \in Scopes /\ here \in Contexts
    BY <1>4, <1>x DEF LeaveScope, Scopes, TypeOK
  <2>3. /\ depth' = [depth EXCEPT ![t] = d - 1]
        /\ inForce' = [inForce EXCEPT ![here][SlotOf[d]] = saved[t][d]]
    BY <1>4 DEF LeaveScope
  <2>4. SlotOf[d] \in Slots
    BY <2>2, RuntimeAssumption
  <2>5. \A s \in Slots : Last(t, d - 1, s, inForce'[here][s])
    <3> SUFFICES ASSUME NEW s \in Slots PROVE Last(t, d - 1, s, inForce'[here][s])
      OBVIOUS
    <3>1. Last(t, d, s, inForce[here][s])
      BY <1>h, <2>1 DEF Scoped
    <3>2. Last(t, d - 1, SlotOf[d], saved[t][d])
      BY <1>h, <2>1, <2>2 DEF Scoped
    <3>3. inForce'[here][s] = IF s = SlotOf[d] THEN saved[t][d] ELSE inForce[here][s]
      BY <2>2, <2>3, <2>4 DEF TypeOK
    <3> QED BY <2>2, <3>1, <3>2, <3>3, LastLeft
  <2>6. \A j \in 1..d - 1 : Last(t, j - 1, SlotOf[j], saved[t][j])
    BY <1>h, <2>1, <2>2 DEF Scoped
  <2>7. Scoped(t)'
    <3>1. depth'[t] = d - 1 /\ saved' = saved
      BY <2>1, <2>3 DEF TypeOK
    <3> QED BY <1>d, <2>5, <2>6, <3>1, ScopedNext
  <2>8. \A u \in Holders \ {t} : Scoped(u)'
    <3> SUFFICES ASSUME NEW u \in Holders, u # t PROVE Scoped(u)'
      OBVIOUS
    <3>1. u \in Tasks BY DEF Holders
    <3>2. depth'[u] = depth[u] /\ saved'[u] = saved[u]
      BY <2>1, <2>3, <3>1 DEF TypeOK
    <3>3. \A c \in Contexts \ {here} : inForce'[c] = inForce[c]
      BY <2>3 DEF TypeOK
    <3> QED BY <1>d, <2>1, <3>2, <3>3, OthersUnmoved
  <2>9. RuntimeInvariant'
    <3> SUFFICES ASSUME NEW u \in Tasks
                 PROVE  /\ u \notin Holders' => depth'[u] = 0
                        /\ pc'[u] = "inside" => depth'[u] = NumScopes
                        /\ u \in Holders' => Scoped(u)'
      BY <1>c DEF RuntimeInvariant, Scoped
    <3>1. CASE u = t
      BY <2>1, <2>7, <3>1
    <3>2. CASE u # t
      BY <1>h, <2>1, <2>3, <2>8, <3>2 DEF TypeOK
    <3> QED BY <3>1, <3>2
  <2>10. ScopeRestored'
    <3> SUFFICES ASSUME NEW c \in Contexts, \A u \in Holders : ContextOf(u) # c
                 PROVE  \A s \in Slots : inForce'[c][s] = None
      BY <1>d, <2>1, RestoredNext
    <3>1. inForce'[c] = inForce[c]
      BY <2>1, <2>3 DEF TypeOK
    <3> QED BY <3>1 DEF Inv, ScopeRestored
  <2> QED BY <1>t, <2>9, <2>10 DEF Inv
<1>5. ASSUME NEW t \in Tasks, Release(t) PROVE Inv'
  <2>1. /\ t \in Holders /\ Holders' = Holders \ {t} /\ depth[t] = 0
        /\ UNCHANGED <<depth, saved, inForce>>
        /\ \A u \in Tasks : pc'[u] = "inside" => pc[u] = "inside"
    BY <1>5 DEF Release, Holders, Goto, TypeOK
  <2>2. \A s \in Slots : inForce[ContextOf(t)][s] = None
    BY <1>h, <2>1 DEF Scoped, Last
  <2>3. RuntimeInvariant'
    BY <1>c, <1>h, <1>x, <2>1 DEF RuntimeInvariant, Scoped, Last
  <2>4. ScopeRestored'
    BY <1>x, <2>1, <2>2 DEF Inv, ScopeRestored, Holders
  <2> QED BY <1>t, <2>3, <2>4 DEF Inv
<1>6. ASSUME NEW t \in Tasks,
             Call(t) \/ EnterRaises(t) \/ StartSubject(t) \/ SubjectEnds(t)
               \/ Cancel(t)
      PROVE  Inv'
  <2>1. Holders' = Holders /\ UNCHANGED <<depth, saved, inForce>>
    BY <1>6 DEF Call, EnterRaises, StartSubject, SubjectEnds, Cancel, Holders,
                Goto, TypeOK
  <2>2. \A u \in Tasks : pc'[u] = "inside" => depth[u] = NumScopes
    BY <1>6, <1>h DEF Call, EnterRaises, StartSubject, SubjectEnds, Cancel,
                      Goto, TypeOK
  <2> QED BY <1>1, <2>1, <2>2
<1>7. CASE UNCHANGED vars
  <2>1. /\ Holders' = Holders /\ UNCHANGED <<depth, saved, inForce, pc>>
    BY <1>7 DEF vars, Holders
  <2>2. RuntimeInvariant'
    BY <1>c, <1>h, <1>x, <2>1 DEF RuntimeInvariant, Scoped, Last
  <2>3. ScopeRestored'
    BY <1>d, <2>1, RestoredNext DEF Inv, ScopeRestored
  <2> QED BY <1>t, <2>2, <2>3 DEF Inv
<1> QED
  BY <1>2, <1>3, <1>4, <1>5, <1>6, <1>7 DEF Next, Proceed

LEMMA InvCorrect == Spec => [](TypeOK /\ Inv)
<1>1. Init => TypeOK /\ Inv BY TypeInit, InvInit
<1>2. TypeOK /\ Inv /\ [Next]_vars => (TypeOK /\ Inv)' BY TypeStep, InvStep
<1> QED BY <1>1, <1>2, PTL DEF Spec

\* The subject of every rollout sees its own candidate, for any number of
\* concurrent calls and of scopes, several of which may set the same slot.
THEOREM IsolationCorrect == Spec => []ScopeIsolated
<1>1. TypeOK /\ Inv => ScopeIsolated
  <2> SUFFICES ASSUME TypeOK, Inv, NEW t \in Tasks, pc[t] = "inside",
                      NEW k \in Scopes
               PROVE  /\ inForce[ContextOf(t)][SlotOf[k]][1] = t
                      /\ inForce[ContextOf(t)][SlotOf[k]][2] >= k
    BY DEF ScopeIsolated
  <2>1. SlotOf[k] \in Slots /\ k \in 1..NumScopes
    BY RuntimeAssumption DEF Scopes
  <2>2. depth[t] = NumScopes /\ t \in Holders
    BY DEF Inv, RuntimeInvariant, Holders
  <2>3. Last(t, NumScopes, SlotOf[k], inForce[ContextOf(t)][SlotOf[k]])
    BY <2>1, <2>2 DEF Inv, RuntimeInvariant
  <2> QED BY <2>1, <2>3, RuntimeAssumption DEF Last
<1> QED BY <1>1, InvCorrect, PTL

\* However a call ends, what it set is put back before its place is given to
\* another.
THEOREM RestorationCorrect == Spec => []ScopeRestored
<1>1. Inv => ScopeRestored BY DEF Inv
<1> QED BY <1>1, InvCorrect, PTL

\* What the two rest on.
THEOREM InvariantCorrect == Spec => []RuntimeInvariant
<1>1. Inv => RuntimeInvariant BY DEF Inv
<1> QED BY <1>1, InvCorrect, PTL
================================================================================
