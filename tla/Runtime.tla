------------------------------- MODULE Runtime -------------------------------
(***************************************************************************)
(* Runtime (runtime/execution.py): concurrent rollouts of candidates on    *)
(* one runtime.  A call waits for a place in the runtime's semaphore,      *)
(* enters the candidate scopes, runs the subject and unwinds.              *)
(*                                                                         *)
(* A task is one call, made with arun() on an event loop or with run()     *)
(* from code that runs on it: the second steps on a thread of its own and  *)
(* blocks its loop until it ends (harness.py).  Any callable may raise, an *)
(* awaiting task may be cancelled.                                         *)
(***************************************************************************)
EXTENDS Integers, FiniteSets

CONSTANTS
  Tasks,        \* the calls
  Loops,        \* event loops
  Makings,      \* how the calls may be made: [Tasks -> Making]
  MaxConcurrency, \* the values of max_concurrency to consider
  Unlimited,    \* max_concurrency = None
  NumScopes,    \* scopes (injections) a call enters, one after the other
  Slots,        \* context variables or attributes the scopes set
  SlotOf,       \* the one each scope sets
  None          \* what a slot holds outside of every scope

Scopes == 1..NumScopes
Making == [mode: {"arun", "run"}, loop: Loops]
Isolations == {"serialized", "context_local", "factory"}

ASSUME RuntimeAssumption ==
  /\ IsFiniteSet(Tasks)
  /\ Makings \subseteq [Tasks -> Making]
  /\ MaxConcurrency \subseteq (Nat \ {0}) \cup {Unlimited}
  /\ Unlimited \notin Nat
  /\ NumScopes \in Nat
  /\ SlotOf \in [Scopes -> Slots]
  /\ None \notin Tasks \X Scopes
  /\ "shared" \notin Tasks

VARIABLES
  isolation,    \* the definition of the runtime
  capacity,     \* the size of its semaphore, or Unlimited
  made,         \* how each call is made
  free,         \* places left in the semaphore
  pc,           \* where each call is
  depth,        \* scopes each call is in
  saved,        \* what each scope found, to be put back
  inForce,      \* what each slot holds, in each context
  outcome       \* what has become of each call

definition == <<isolation, capacity, made>>
vars == <<definition, free, pc, depth, saved, inForce, outcome>>

----------------------------------------------------------------------------
(* Contexts and loops.                                                     *)

\* Scopes of a serialized runtime may set what all calls share; those of the
\* others set what belongs to the call: a context variable, its own subject.
Contexts == Tasks \cup {"shared"}
ContextOf(t) == IF isolation = "serialized" THEN "shared" ELSE t

\* run() joins its thread: nothing else steps on the loop it was called from.
Blocked(l) ==
  \E t \in Tasks : /\ made[t] = [mode |-> "run", loop |-> l]
                   /\ pc[t] \notin {"idle", "done"}

\* Where a call may be suspended: asleep between two polls, in the subject, in
\* the awaits of a scope that is entered or left.
Suspended(t) ==
  \/ pc[t] \in {"idle", "waiting", "inside", "done"}
  \/ pc[t] = "entering" /\ depth[t] < NumScopes
  \/ pc[t] = "unwinding" /\ depth[t] > 0

\* A loop runs one of its tasks at a time, from one await to the next.
LoopRuns(t) ==
  /\ ~Blocked(made[t].loop)
  /\ \A u \in Tasks \ {t} : made[u] = [mode |-> "arun", loop |-> made[t].loop]
                            => Suspended(u)

Steps(t) == made[t].mode = "run" \/ LoopRuns(t)

----------------------------------------------------------------------------
(* arun.                                                                   *)

Goto(t, next) == pc' = [pc EXCEPT ![t] = next]
Ends(t, how) == outcome' = [outcome EXCEPT ![t] = how]

\* normalize_candidate raises, or finds a required component missing, before
\* the call takes part in anything.
Call(t) ==
  /\ pc[t] = "idle" /\ LoopRuns(t)
  /\ \/ Goto(t, "waiting") /\ UNCHANGED outcome
     \/ Goto(t, "done") /\ Ends(t, "raised")
  /\ UNCHANGED <<definition, free, depth, saved, inForce>>

\* Mutant: a poll does not look whether there is a place left.
AcquireAlways(t) ==
  /\ pc[t] = "waiting" /\ Steps(t)
  /\ free' = IF capacity = Unlimited THEN free ELSE free - 1
  /\ Goto(t, "entering")
  /\ UNCHANGED <<definition, depth, saved, inForce, outcome>>

\* One poll of _acquire that succeeds; the others only sleep.
Acquire(t) ==
  /\ pc[t] = "waiting" /\ Steps(t)
  /\ \/ capacity = Unlimited /\ UNCHANGED free
     \/ capacity # Unlimited /\ free > 0 /\ free' = free - 1
  /\ Goto(t, "entering")
  /\ UNCHANGED <<definition, depth, saved, inForce, outcome>>

EnterScope(t) ==
  /\ pc[t] = "entering" /\ Steps(t)
  /\ depth[t] < NumScopes
  /\ LET k == depth[t] + 1
         here == ContextOf(t)
     IN /\ saved' = [saved EXCEPT ![t][k] = inForce[here][SlotOf[k]]]
        /\ inForce' = [inForce EXCEPT ![here][SlotOf[k]] = <<t, k>>]
        /\ depth' = [depth EXCEPT ![t] = k]
  /\ UNCHANGED <<definition, free, pc, outcome>>

\* A scope, an injection or the factory raises: what was entered is unwound.
EnterRaises(t) ==
  /\ pc[t] = "entering" /\ Steps(t)
  /\ Goto(t, "unwinding") /\ Ends(t, "raised")
  /\ UNCHANGED <<definition, free, depth, saved, inForce>>

StartSubject(t) ==
  /\ pc[t] = "entering" /\ Steps(t)
  /\ depth[t] = NumScopes
  /\ Goto(t, "inside")
  /\ UNCHANGED <<definition, free, depth, saved, inForce, outcome>>

SubjectEnds(t) ==
  /\ pc[t] = "inside" /\ Steps(t)
  /\ Goto(t, "unwinding")
  /\ \E how \in {"returned", "raised"} : Ends(t, how)
  /\ UNCHANGED <<definition, free, depth, saved, inForce>>

\* Mutant: the scopes are left in the order they were entered in.
LeaveFirst(t) ==
  /\ pc[t] = "unwinding" /\ Steps(t)
  /\ depth[t] > 0
  /\ inForce' = [inForce EXCEPT ![ContextOf(t)][SlotOf[NumScopes + 1 - depth[t]]] =
                   saved[t][NumScopes + 1 - depth[t]]]
  /\ depth' = [depth EXCEPT ![t] = @ - 1]
  /\ UNCHANGED outcome
  /\ UNCHANGED <<definition, free, pc, saved>>

\* The last scope that was entered is left, and may raise once it has put its
\* slot back.
LeaveScope(t) ==
  /\ pc[t] = "unwinding" /\ Steps(t)
  /\ depth[t] > 0
  /\ inForce' = [inForce EXCEPT ![ContextOf(t)][SlotOf[depth[t]]] =
                   saved[t][depth[t]]]
  /\ depth' = [depth EXCEPT ![t] = @ - 1]
  /\ UNCHANGED outcome \/ Ends(t, "raised")
  /\ UNCHANGED <<definition, free, pc, saved>>

\* Mutant: a call that raised does not give its place back.
ReleaseReturned(t) ==
  /\ pc[t] = "unwinding" /\ Steps(t)
  /\ depth[t] = 0
  /\ free' = IF capacity = Unlimited \/ outcome[t] = "raised"
             THEN free ELSE free + 1
  /\ Goto(t, "done")
  /\ UNCHANGED <<definition, depth, saved, inForce, outcome>>

Release(t) ==
  /\ pc[t] = "unwinding" /\ Steps(t)
  /\ depth[t] = 0
  /\ free' = IF capacity = Unlimited THEN free ELSE free + 1
  /\ Goto(t, "done")
  /\ UNCHANGED <<definition, depth, saved, inForce, outcome>>

\* A task is cancelled where it awaits: asleep between two polls, in a scope's
\* or the factory's own awaits, in the subject.
Cancel(t) ==
  /\ made[t].mode = "arun" /\ Steps(t)
  /\ \/ pc[t] = "waiting" /\ Goto(t, "done")
     \/ pc[t] \in {"entering", "inside"} /\ Suspended(t)
        /\ Goto(t, "unwinding")
  /\ Ends(t, "raised")
  /\ UNCHANGED <<definition, free, depth, saved, inForce>>

----------------------------------------------------------------------------
\* Mutant: a serialized runtime without a limit of its own is unlimited.
AskedPlaces(iso, max) == max

\* _configure: a serialized runtime has one place, whatever it was given.
Places(iso, max) == IF iso = "serialized" THEN 1 ELSE max

Init ==
  /\ isolation \in Isolations
  /\ \E max \in MaxConcurrency :
       /\ isolation = "serialized" => max \in {1, Unlimited}
       /\ capacity = Places(isolation, max)
  /\ made \in Makings
  /\ free = IF capacity = Unlimited THEN 0 ELSE capacity
  /\ pc = [t \in Tasks |-> "idle"]
  /\ depth = [t \in Tasks |-> 0]
  /\ saved = [t \in Tasks |-> [k \in Scopes |-> None]]
  /\ inForce = [c \in Contexts |-> [s \in Slots |-> None]]
  /\ outcome = [t \in Tasks |-> None]

Proceed(t) ==
  \/ Acquire(t) \/ EnterScope(t) \/ EnterRaises(t) \/ StartSubject(t)
  \/ SubjectEnds(t) \/ LeaveScope(t) \/ Release(t)

Next == \E t \in Tasks : Call(t) \/ Proceed(t) \/ Cancel(t)

Spec == Init /\ [][Next]_vars

\* A loop that is not blocked runs its tasks and a thread runs; scopes and
\* subjects return or raise.  Nobody has to make a call or to cancel one.
FairSpec == Spec /\ \A t \in Tasks : WF_vars(Proceed(t))

----------------------------------------------------------------------------
(* Properties.                                                             *)

TypeOK ==
  /\ isolation \in Isolations
  /\ capacity \in (Nat \ {0}) \cup {Unlimited}
  /\ made \in Makings
  /\ free \in Nat
  /\ pc \in [Tasks -> {"idle", "waiting", "entering", "inside", "unwinding",
                       "done"}]
  /\ depth \in [Tasks -> 0..NumScopes]
  /\ saved \in [Tasks -> [Scopes -> (Tasks \X Scopes) \cup {None}]]
  /\ inForce \in [Contexts -> [Slots -> (Tasks \X Scopes) \cup {None}]]
  /\ outcome \in [Tasks -> {"returned", "raised", None}]

Holders == {t \in Tasks : pc[t] \in {"entering", "inside", "unwinding"}}

\* Every call that got a place gives back exactly one, whatever raised or was
\* cancelled on its way: the runtime never runs more calls than it has places
\* for and never loses one.
CapacityAccounted ==
  capacity # Unlimited => free + Cardinality(Holders) = capacity

\* While a subject runs, every slot of its context holds what this call's own
\* scopes put there, the last of them where several set one slot: no
\* other candidate's value shows through, and none is overwritten.
ScopeIsolated ==
  \A t \in Tasks : pc[t] = "inside" =>
    \A k \in Scopes :
      /\ inForce[ContextOf(t)][SlotOf[k]][1] = t
      /\ inForce[ContextOf(t)][SlotOf[k]][2] >= k

\* Outside of all scopes the slots are as they were before the first call.
ScopeRestored ==
  \A c \in Contexts :
    (\A t \in Holders : ContextOf(t) # c)
      => \A s \in Slots : inForce[c][s] = None

\* The inductive invariant behind the two above: what a slot holds, and what
\* every scope found in it, is the last of the call's scopes before that set it.
Last(t, d, s, value) ==
  \/ /\ value = None
     /\ \A k \in 1..d : SlotOf[k] # s
  \/ \E k \in 1..d : /\ value = <<t, k>>
                     /\ SlotOf[k] = s
                     /\ \A j \in 1..d : SlotOf[j] = s => j <= k

RuntimeInvariant ==
  /\ isolation = "serialized" => capacity = 1
  /\ \A t \in Tasks :
       /\ t \notin Holders => depth[t] = 0
       /\ pc[t] = "inside" => depth[t] = NumScopes
       /\ t \in Holders =>
            /\ \A s \in Slots : Last(t, depth[t], s, inForce[ContextOf(t)][s])
            /\ \A k \in 1..depth[t] :
                 Last(t, k - 1, SlotOf[k], saved[t][k])

\* Every call that is made comes to its end.
EveryCallEnds == \A t \in Tasks : pc[t] # "idle" ~> pc[t] = "done"
=============================================================================
