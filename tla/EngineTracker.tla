--------------------------- MODULE EngineTracker ---------------------------
(***************************************************************************)
(* ExecutionTracker and ObservedEngine (experimental/optimize_anything/    *)
(* backend.py): who ran, on what, and whose result is whose, while the     *)
(* engines of one composition step run, one after the other or at once.    *)
(*                                                                         *)
(* An engine returns a result, raises, or is cut off by its evaluation     *)
(* budget; then its ensemble makes up a result for it, and resolve has to  *)
(* find the invocation that result belongs to.                             *)
(***************************************************************************)
EXTENDS Naturals, Sequences, FiniteSets

CONSTANTS
  Engines,      \* engine_index: positions in the composition
  Values,       \* what a candidate holds; its fingerprint
  RawResults,   \* what an engine may return: value, score, calls, cost
  None

VARIABLES
  step,         \* step_id
  seed,         \* codec.seed
  parent,       \* parent_execution_id
  invocations,  \* the started invocations, in the order of their start
  active,       \* _active: the invocation each engine is in, or 0
  pending,      \* _pending: the invocations of each engine without a result
  completed,    \* _completed: pairs of a result and the invocation it is of
  known,        \* _candidates: the candidate each value is, or None
  producers     \* _producers: the execution that made each value, or None

books == <<active, pending, completed, known, producers>>
trackerVars == <<step, seed, parent, invocations, books>>

\* "deferred": cut off by the budget; "broken": an observer raised from the
\* StageStarted or the end of the invocation.
States == {"running", "completed", "deferred", "failed", "broken"}

Numbers == 1..Len(invocations)
RunsOf(e) == {i \in Numbers : invocations[i].engine = e}
ExecutionId(i) == <<step, invocations[i].engine, invocations[i].run>>
InState(s) == {i \in Numbers : invocations[i].state = s}
Running == InState("running")
Halted == InState("failed") \cup InState("broken") # {}

\* A result is an object: it is named by the invocation that made it, or that
\* it was made up for.
Raw(i) == invocations[i].raw

----------------------------------------------------------------------------
\* A tracker is made for the step.
NewTracker(s, candidate, execution) ==
  /\ step' = s /\ seed' = candidate /\ parent' = execution
  /\ invocations' = <<>>
  /\ active' = [e \in Engines |-> 0]
  /\ pending' = [e \in Engines |-> <<>>]
  /\ completed' = {}
  /\ known' = [v \in Values |-> IF v = candidate.value THEN candidate ELSE None]
  /\ producers' = [v \in Values |-> None]

\* It is gone with the frame of the step.
NoTracker ==
  /\ step' = 0 /\ seed' = None /\ parent' = None /\ invocations' = <<>>
  /\ active' = None /\ pending' = None /\ completed' = {}
  /\ known' = None /\ producers' = None

InputCandidate(v) ==
  IF known[v] = None THEN [value |-> v, id |-> None] ELSE known[v]

ParentOf(v) == IF producers[v] = None THEN parent ELSE producers[v]

Invocation(e, v) ==
  [engine |-> e, run |-> Cardinality(RunsOf(e)), input |-> InputCandidate(v),
   parent |-> ParentOf(v), state |-> "running", raw |-> None]

\* Mutant: the engine's invocation is not the active one.
StartUnmarked(e, v) ==
  /\ invocations' = Append(invocations, Invocation(e, v))
  /\ UNCHANGED <<step, seed, parent, active, pending, completed, known, producers>>

\* StageStarted is told outside the try of ObservedEngine.run: an observer's
\* exception leaves the invocation active for good.
StartEngine(e, v) ==
  /\ \E state \in {"running", "broken"} :
       invocations' = Append(invocations, [Invocation(e, v) EXCEPT !.state = state])
  /\ active' = [active EXCEPT ![e] = Len(invocations) + 1]
  /\ UNCHANGED <<step, seed, parent, pending, completed, known, producers>>

\* complete: result `object` is registered as that of invocation i.  An
\* observer may raise from CandidateNormalized or from StageCompleted.
Complete(started, i, object, raw) ==
  LET entry == started[i]
      id == <<step, entry.engine, entry.run>> IN
  /\ completed' = completed \cup {<<object, i>>}
  /\ known' = [known EXCEPT ![raw.value] = [value |-> raw.value, id |-> id]]
  /\ producers' = [producers EXCEPT ![raw.value] = id]
  /\ active' = [active EXCEPT ![entry.engine] = 0]
  /\ \E state \in {"completed", "broken"} :
       invocations' = [started EXCEPT ![i].state = state]

EngineReturns(i, raw) ==
  /\ invocations[i].state = "running"
  /\ Complete([invocations EXCEPT ![i].raw = raw], i, i, raw)
  /\ UNCHANGED <<step, seed, parent, pending>>

\* fail: StageFailed
EngineRaises(i) ==
  /\ invocations[i].state = "running"
  /\ invocations' = [invocations EXCEPT ![i].state = "failed"]
  /\ active' = [active EXCEPT ![invocations[i].engine] = 0]
  /\ UNCHANGED <<step, seed, parent, pending, completed, known, producers>>

\* defer_budget_completion: BudgetExhausted leaves the engine; the ensemble
\* makes a result up of what the evaluations have found.
EngineExhausted(i, raw) ==
  LET e == invocations[i].engine IN
  /\ invocations[i].state = "running"
  /\ invocations' = [invocations EXCEPT ![i].state = "deferred", ![i].raw = raw]
  /\ active' = [active EXCEPT ![e] = 0]
  /\ pending' = [pending EXCEPT ![e] = Append(@, i)]
  /\ UNCHANGED <<step, seed, parent, completed, known, producers>>

----------------------------------------------------------------------------
(* resolve: a result is looked up by its identity.  One that is not there  *)
(* belongs to the oldest pending invocation of its engine or, when there   *)
(* is none, to one that is started for it.  The pending invocation is      *)
(* taken off its list whatever the lookup has found.                       *)

Found(object) == {i \in Numbers : <<object, i>> \in completed}

\* Mutant: the pending invocations are not looked at.
ResolvedAnew(object) ==
  IF Found(object) # {} THEN CHOOSE i \in Found(object) : TRUE
  ELSE Len(invocations) + 1

ResolvedTo(object) ==
  LET queue == pending[invocations[object].engine] IN
  IF Found(object) # {} THEN CHOOSE i \in Found(object) : TRUE
  ELSE IF queue = <<>> THEN Len(invocations) + 1 ELSE Head(queue)

Resolve(object) ==
  LET e == invocations[object].engine
      i == ResolvedTo(object)
      started == IF i \in Numbers THEN invocations
                 ELSE Append(invocations, Invocation(e, seed.value)) IN
  /\ pending' = [pending EXCEPT ![e] = IF @ = <<>> THEN @ ELSE Tail(@)]
  /\ IF Found(object) # {}
     THEN UNCHANGED <<invocations, active, completed, known, producers>>
     ELSE Complete(started, i, object, Raw(object))
  /\ UNCHANGED <<step, seed, parent>>
=============================================================================
