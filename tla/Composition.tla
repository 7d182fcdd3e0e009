---------------------------- MODULE Composition ----------------------------
(***************************************************************************)
(* PydanticOptimizeAnythingOptimizer.optimize (experimental/               *)
(* optimize_anything/execution.py) over execute (backend.py): one step, or *)
(* a pipeline of steps, of engines, each step checkpointed before the      *)
(* next begins.                                                            *)
(*                                                                         *)
(* Engines return, raise or run out of budget, one after the other or at   *)
(* once (EngineTracker); an observer may raise from any event, the store   *)
(* and the evaluator too; the call may be interrupted; the process may     *)
(* crash between any two steps and optimize be called again on the         *)
(* directory (AtomicStore).  The ensembles that schedule the engines are   *)
(* not in the repository: they list a result for every engine they ran.    *)
(***************************************************************************)
EXTENDS Naturals, Sequences, FiniteSets, Functions

CONSTANTS
  Compositions, \* pipeline, durable, its steps, and the number of test cases
  Engines,      \* 1..n: positions of engines in a step
  Values,       \* the values of a candidate
  SeedValue,
  RawResults,   \* what an engine may return: value, score, calls, cost
  VoteScores,
  Digests,      \* compatibility fingerprints
  None,
  MaxSteps,     \* bound: steps of a pipeline
  MaxSlices     \* bound: slices of an adaptive step

Steps == 1..MaxSteps
Kinds == {"single", "sequential", "parallel", "best_of", "vote", "adaptive"}

ASSUME CompositionAssumption ==
  /\ SeedValue \in Values
  /\ Engines \subseteq Nat \ {0} /\ VoteScores \subseteq Nat
  /\ MaxSteps \in Nat
  /\ RawResults \subseteq [value: Values, score: Nat, calls: Nat,
                           cost: Nat \cup {None}]
  /\ \A c \in Compositions :
       /\ c \in [pipeline: BOOLEAN, durable: BOOLEAN, tests: Nat,
                 steps: Seq([kind: Kinds, engines: Engines])]
       /\ Len(c.steps) \in Steps
       \* validated in models.py
       /\ c.pipeline => \A k \in DOMAIN c.steps : c.steps[k].kind # "parallel"
       /\ ~c.pipeline => Len(c.steps) = 1

VARIABLES
  composition,  \* "durable": config.run.directory is set
  pc,           \* where the call is; "down" when there is none
  config,       \* how the directory is prepared, and the run's fingerprint
  held,         \* durable.state: what prepare returned
  steps,        \* step_results
  candidate,    \* active_candidate, the seed of the step
  results,      \* execution.results: the invocations they were made by
  runs,         \* the runs resolved of them
  selected,     \* selected_index, or 0
  rescored,     \* execution.selection_evaluation_calls
  result,
  failure,      \* the exception on its way out
  terminals,    \* the terminal run events this call has told
  outcome,      \* the call has "returned" its result, or "raised"
  step, seed, parent, invocations, active, pending, completed, known,
  producers,                            \* see EngineTracker
  owned, savedState, savedResult,       \* see AtomicStore
  answer,       \* history: the result the directory's run last gave a caller
  spoiled       \* history: a completed run was recorded as failed

tracker == <<step, seed, parent, invocations, active, pending, completed,
             known, producers>>
resolution == <<results, runs, selected, rescored>>
progress == <<steps, candidate, result>>
frame == <<progress, resolution, tracker>>
ending == <<failure, terminals, outcome>>
storeVars == <<owned, savedState, savedResult>>
history == <<answer, spoiled>>
vars == <<composition, pc, config, held, frame, ending, storeVars, history>>

Durable == composition.durable

----------------------------------------------------------------------------
(* Data.  A candidate is its value and the id of the execution that made   *)
(* it; an id is the step, the engine and the number of the engine's run.   *)

Kind == composition.steps[step].kind
Seed == [value |-> SeedValue, id |-> None]

Ids == Steps \X Engines \X Nat
Candidates == [value: Values, id: Ids \cup {None}]

\* EngineRunSummary
Runs == [id: Ids, parent: Ids \cup {None}, input: Candidates,
         output: Candidates, score: Nat, calls: Nat, cost: Nat \cup {None}]

\* BudgetSummary
Budgets == [calls: Nat, cost: Nat \cup {None}, rescored: Nat, heldout: Nat]

StepResults == [step: Steps, input: Candidates, runs: Seq(Runs),
                selected: Ids, output: Candidates, budget: Budgets]

RunState == [digest: Digests, status: {"running", "completed", "failed"},
             accepted: Candidates, stages: Seq(StepResults), calls: Nat]

Results == [best: Candidates, final: Candidates, steps: Seq(StepResults),
            budget: Budgets]

Failures == {"error", "interrupt"}
Modes == {"never", "if_exists", "required", "fresh"}
Configs == [mode: Modes, digest: Digests]

\* None is no value of anything it stands for the absence of.
ASSUME NoneAssumption ==
  /\ None \notin Nat /\ None \notin RawResults /\ None \notin Ids
  /\ None \notin Candidates /\ None \notin RunState /\ None \notin Results

Store == INSTANCE AtomicStore WITH RunStates <- RunState
Tracker == INSTANCE EngineTracker

----------------------------------------------------------------------------
(* Budgets: calls add up; a cost nobody reported stays None.               *)

Total(f) == FoldFunction(LAMBDA a, b : a + b, 0, f)

TotalKnown(f) ==
  LET reported == {i \in DOMAIN f : f[i] # None} IN
  IF reported = {} THEN None ELSE Total(Restrict(f, reported))

CompositionBudget(rs, calls) ==
  [calls |-> Total([i \in DOMAIN rs |-> rs[i].calls]),
   cost |-> TotalKnown([i \in DOMAIN rs |-> rs[i].cost]),
   rescored |-> calls, heldout |-> 0]

\* Mutant: the calls of a vote are added to those of the engines.
PipelineBudgetOfAll(ss) ==
  [calls |-> Total([k \in DOMAIN ss |-> ss[k].budget.calls + ss[k].budget.rescored]),
   cost |-> TotalKnown([k \in DOMAIN ss |-> ss[k].budget.cost]),
   rescored |-> Total([k \in DOMAIN ss |-> ss[k].budget.rescored]),
   heldout |-> Total([k \in DOMAIN ss |-> ss[k].budget.heldout])]

PipelineBudget(ss) ==
  [calls |-> Total([k \in DOMAIN ss |-> ss[k].budget.calls]),
   cost |-> TotalKnown([k \in DOMAIN ss |-> ss[k].budget.cost]),
   rescored |-> Total([k \in DOMAIN ss |-> ss[k].budget.rescored]),
   heldout |-> Total([k \in DOMAIN ss |-> ss[k].budget.heldout])]

----------------------------------------------------------------------------
(* optimize, up to the prepared directory.                                 *)

AtHome == UNCHANGED <<composition, config, held, ending, storeVars, history>>

\* RunStarted is told before the try: an observer's exception ends the call.
StartCall(c) ==
  /\ pc = "down"
  /\ ~Durable => c.mode = "never"
  /\ config' = c
  /\ \/ pc' = "preparing" /\ UNCHANGED outcome
     \/ pc' = "ended" /\ outcome' = "raised"
  /\ UNCHANGED <<composition, held, frame, failure, terminals, storeVars,
                 history>>

\* ComponentsRegistered, prepare, CheckpointRejected: as long as there is no
\* durable state, what is raised is told and not recorded.
RejectCall ==
  /\ pc \in {"preparing", "claiming", "beginning"}
  /\ pc' = "raising" /\ failure' \in Failures
  /\ UNCHANGED <<composition, config, held, frame, terminals, outcome,
                 storeVars, history>>

ClaimDirectory ==
  /\ Durable
  /\ \/ pc = "preparing" /\ pc' = "preparing"
     \/ pc = "claiming" /\ pc' = "beginning"
  /\ Store!Claim
  /\ UNCHANGED <<composition, config, held, frame, ending, history>>

ResetDirectory ==
  /\ pc = "preparing" /\ config.mode = "fresh"
  /\ Store!Release
  /\ pc' = "claiming"
  /\ answer' = None /\ spoiled' = FALSE
  /\ UNCHANGED <<composition, config, held, frame, ending>>

NewState == [digest |-> config.digest, status |-> "running",
             accepted |-> Seed, stages |-> <<>>, calls |-> 0]

\* The first checkpoint.
BeginRun ==
  /\ \/ pc = "beginning"
     \/ pc = "preparing" /\ Durable /\ config.mode \in {"never", "if_exists"}
  /\ Store!Begin(NewState)
  /\ \/ held' = NewState /\ pc' = "prepared" /\ UNCHANGED failure
     \* the state is in place and writing the manifest fails
     \/ UNCHANGED held /\ pc' = "raising" /\ failure' = "error"
  /\ UNCHANGED <<composition, config, frame, terminals, outcome, history>>

\* prepare returns the state it finds, unless it is that of another run.
ResumeRun ==
  /\ pc = "preparing" /\ config.mode \in {"if_exists", "required"}
  /\ owned /\ savedState # None
  /\ savedState.digest = config.digest
  /\ held' = savedState
  /\ pc' = "prepared"
  /\ UNCHANGED <<composition, config, frame, ending, storeVars, history>>

\* A completed run is not executed again.  RunCompleted is told inside the
\* try: an observer's exception makes the run a failed one.
ReturnSaved ==
  /\ pc = "prepared" /\ held.status = "completed"
  /\ savedResult # None
  /\ terminals' = {"run.completed"}
  /\ \/ pc' = "ended" /\ outcome' = "returned" /\ answer' = savedResult
        /\ UNCHANGED failure
     \/ pc' = "handling" /\ failure' \in Failures
        /\ UNCHANGED <<outcome, answer>>
  /\ UNCHANGED <<composition, config, held, frame, storeVars, spoiled>>

----------------------------------------------------------------------------
(* The steps.                                                              *)

\* Mutant: the checkpoint is opened and its steps are not read.
BeginAgain ==
  /\ \/ pc = "preparing" /\ ~Durable
     \/ pc = "prepared" /\ held.status # "completed"
  /\ steps' = <<>> /\ candidate' = Seed
  /\ pc' = "stepping"
  /\ UNCHANGED <<result, resolution, tracker>> /\ AtHome

\* Mutant: a completed run is executed like any other.
BeginCompleted ==
  /\ pc \in {"preparing", "prepared"} /\ (Durable <=> pc = "prepared")
  /\ IF Durable /\ composition.pipeline
     THEN steps' = held.stages /\ candidate' = held.accepted
     ELSE steps' = <<>> /\ candidate' = Seed
  /\ pc' = "stepping"
  /\ UNCHANGED <<result, resolution, tracker>> /\ AtHome

\* A pipeline goes on from its checkpoint.  Another composition begins from
\* the seed of the call, whatever candidate the checkpoint accepted.
BeginSteps ==
  /\ \/ pc = "preparing" /\ ~Durable
     \/ pc = "prepared" /\ held.status # "completed"
  /\ IF Durable /\ composition.pipeline
     THEN steps' = held.stages /\ candidate' = held.accepted
     ELSE steps' = <<>> /\ candidate' = Seed
  /\ pc' = "stepping"
  /\ UNCHANGED <<result, resolution, tracker>> /\ AtHome

\* StageStarted is told before the try of _step.
StartStep ==
  /\ pc = "stepping" /\ Len(steps) < Len(composition.steps)
  /\ Tracker!NewTracker(Len(steps) + 1, candidate, candidate.id)
  /\ pc' = "executing"
  /\ UNCHANGED <<progress, resolution>> /\ AtHome

\* External: the value an ensemble seeds its next engine with, the best of
\* the results so far where the engines run one after the other.
Ended == {i \in Tracker!Numbers : invocations[i].raw # None}
FirstBest(S, score) ==
  CHOOSE i \in S : \A j \in S : score[j] < score[i] \/ (score[j] = score[i] /\ i <= j)
NextSeed ==
  IF Kind \in {"sequential", "adaptive"} /\ Ended # {}
  THEN invocations[FirstBest(Ended, [i \in Ended |-> invocations[i].raw.score])].raw.value
  ELSE seed.value

\* External: which engine an ensemble runs next.  Siblings run at once; the
\* slices of an adaptive step change engines as its schedule says.
MayRun(e) ==
  /\ e <= composition.steps[step].engines
  /\ ~Tracker!Halted
  /\ CASE Kind = "adaptive" ->
            Tracker!Running = {} /\ Len(invocations) < MaxSlices
       [] Kind = "sequential" ->
            Tracker!Running = {} /\ e = Len(invocations) + 1
       [] OTHER -> Tracker!RunsOf(e) = {}

\* The invocation an evaluation asked for in invocation i is told under: that
\* its engine is in or, as slices share one server, the first that any is in.
ScopeOf(i) ==
  IF Kind = "adaptive"
  THEN LET busy == {e \in Engines : active[e] # 0} IN
       IF busy = {} THEN 0 ELSE active[CHOOSE e \in busy : \A d \in busy : e <= d]
  ELSE active[invocations[i].engine]

InExecute == UNCHANGED <<pc, progress, resolution>> /\ AtHome

RunEngine(e) ==
  /\ pc = "executing" /\ MayRun(e)
  /\ Tracker!StartEngine(e, NextSeed)
  /\ InExecute

EngineReturns(i, raw) ==
  pc = "executing" /\ Tracker!EngineReturns(i, raw) /\ InExecute

EngineRaises(i) == pc = "executing" /\ Tracker!EngineRaises(i) /\ InExecute

\* The runner of a single engine is not observed: there the budget's
\* exception is a failure like any other.
EngineExhausted(i, raw) ==
  /\ pc = "executing" /\ Kind # "single"
  /\ Tracker!EngineExhausted(i, raw)
  /\ InExecute

\* External: the results an ensemble lists, those of siblings in the order of
\* their engines.
Listed ==
  IF Kind = "adaptive" THEN [n \in Tracker!Numbers |-> n]
  ELSE [e \in 1..composition.steps[step].engines |->
          CHOOSE i \in Tracker!Numbers : invocations[i].engine = e]

\* execute returns; a vote has evaluated every contender on the validation set.
ExecuteReturns ==
  /\ pc = "executing"
  /\ Tracker!Running = {} /\ ~Tracker!Halted
  /\ IF Kind = "adaptive" THEN invocations # <<>>
     ELSE \A e \in 1..composition.steps[step].engines : Tracker!RunsOf(e) # {}
  /\ results' = Listed
  /\ rescored' = IF Kind = "vote" THEN Len(Listed) ELSE 0
  /\ pc' = "resolving"
  /\ UNCHANGED <<progress, runs, selected, tracker>> /\ AtHome

\* engine_result, of the result made by invocation `object` and resolved to
\* invocation i
RunOf(object, i) ==
  LET raw == invocations[object].raw
      id == <<step, invocations'[i].engine, invocations'[i].run>> IN
  [id |-> id, parent |-> invocations'[i].parent, input |-> invocations'[i].input,
   output |-> [value |-> raw.value, id |-> id],
   score |-> raw.score, calls |-> raw.calls, cost |-> raw.cost]

ResolveResult ==
  /\ pc = "resolving" /\ Len(runs) < Len(results) /\ ~Tracker!Halted
  /\ LET object == results[Len(runs) + 1] IN
       /\ Tracker!Resolve(object)
       /\ runs' = Append(runs, RunOf(object, Tracker!ResolvedTo(object)))
  /\ UNCHANGED <<pc, progress, results, selected, rescored>> /\ AtHome

Select(scores) == FirstBest(DOMAIN scores, scores)

\* SelectionCompleted and StageCompleted; siblings without a vote are not
\* selected from.
SelectRun(votes) ==
  /\ pc = "resolving" /\ Len(runs) = Len(results) /\ ~Tracker!Halted
  /\ selected' = CASE Kind = "parallel" -> 0
                    [] Kind = "vote" -> Select(votes)
                    [] OTHER -> Select([i \in DOMAIN runs |-> runs[i].score])
  /\ pc' = "recording"
  /\ UNCHANGED <<progress, results, runs, rescored, tracker>> /\ AtHome

----------------------------------------------------------------------------
(* composition_result of a step, and its checkpoint.                       *)

\* _step has returned: its locals are gone.
StepIsOver ==
  /\ Tracker!NoTracker
  /\ results' = <<>> /\ runs' = <<>> /\ selected' = 0 /\ rescored' = 0

Best == IF selected = 0 THEN Select([i \in DOMAIN runs |-> runs[i].score])
        ELSE selected

\* The input it reports is that of its first run.
StepResult ==
  [step |-> step, input |-> runs[1].input, runs |-> runs, selected |-> runs[Best].id,
   output |-> runs[Best].output, budget |-> CompositionBudget(runs, rescored)]

CallsOf(ss) == Total([k \in DOMAIN ss |-> ss[k].budget.calls])

Checkpoint(ss, accepted) ==
  [digest |-> held.digest, status |-> "running", accepted |-> accepted,
   stages |-> ss, calls |-> CallsOf(ss)]

\* Mutant: the checkpoint holds the seed of the step, not what it selected.
RecordSeed ==
  /\ pc = "recording" /\ composition.pipeline
  /\ steps' = Append(steps, StepResult)
  /\ candidate' = StepResult.output
  /\ IF Durable THEN Store!SaveState(Checkpoint(steps', seed))
     ELSE UNCHANGED storeVars
  /\ pc' = "stepping" /\ StepIsOver
  /\ UNCHANGED <<composition, config, held, result, ending, history>>

\* write_candidate, write_stage and checkpoint, after the SelectionCompleted
\* and before the CheckpointWritten of the pipeline.
RecordStep ==
  /\ pc = "recording" /\ composition.pipeline
  /\ steps' = Append(steps, StepResult)
  /\ candidate' = StepResult.output
  /\ IF Durable THEN Store!SaveState(Checkpoint(steps', candidate'))
     ELSE UNCHANGED storeVars
  /\ pc' = "stepping" /\ StepIsOver
  /\ UNCHANGED <<composition, config, held, result, ending, history>>

\* The evaluations of _with_heldout_scores: of the seed and of the final
\* candidate, or of the one they are.
Heldout(final) ==
  IF final.value = SeedValue THEN composition.tests ELSE 2 * composition.tests

Finished(best, final, ss, budget) ==
  [best |-> best, final |-> final, steps |-> ss,
   budget |-> [budget EXCEPT !.heldout = Heldout(final)]]

Finish == pc' = IF Durable THEN "saving" ELSE "announcing"

\* Siblings leave the seed as the final candidate.
FinishComposition ==
  /\ pc = "recording" /\ ~composition.pipeline
  /\ result' = Finished(StepResult.output,
                        IF Kind = "parallel" THEN Seed ELSE StepResult.output,
                        <<StepResult>>, StepResult.budget)
  /\ Finish /\ StepIsOver
  /\ UNCHANGED <<steps, candidate>> /\ AtHome

FinishPipeline ==
  /\ pc = "stepping" /\ Len(steps) = Len(composition.steps)
  /\ LET last == steps[Len(steps)].output IN
       result' = Finished(last, last, steps, PipelineBudget(steps))
  /\ Finish
  /\ UNCHANGED <<steps, candidate, resolution, tracker>> /\ AtHome

\* write_candidate and write_result
SaveResult ==
  /\ pc = "saving" /\ pc' = "closing"
  /\ Store!SaveResult(result)
  /\ UNCHANGED <<composition, config, held, frame, ending, history>>

Closed(state) == [state EXCEPT !.status = "completed", !.accepted = result.best,
                                !.calls = result.budget.calls]

\* The state that was saved last is closed.
CloseRun ==
  /\ pc = "closing" /\ pc' = "announcing"
  /\ Store!SaveState(Closed(savedState))
  /\ UNCHANGED <<composition, config, held, frame, ending, history>>

----------------------------------------------------------------------------
(* The except clauses of optimize.                                         *)

Unwound ==
  /\ StepIsOver
  /\ steps' = <<>> /\ candidate' = None /\ result' = None

\* An engine, the evaluator, the store or an observer raises, or the call is
\* interrupted, before or after what the action of this place does.  _step
\* leaves execute when every engine has stopped.  From "announcing" on only
\* the CheckpointWritten of a closed run is still in the try.
Raise ==
  /\ \/ pc \in {"prepared", "stepping", "resolving", "recording", "saving",
                "closing"}
     \/ pc = "executing" /\ Tracker!Running = {}
     \/ pc = "announcing" /\ Durable
  /\ pc' = "handling" /\ failure' \in Failures
  /\ Unwound
  /\ UNCHANGED <<composition, config, held, terminals, outcome, storeVars,
                 history>>

\* The state that was saved last is recorded as failed.  The store or an
\* observer of CheckpointWritten may raise in turn: then nobody is told.
RecordFailure ==
  /\ pc = "handling"
  /\ \/ /\ Durable
        /\ Store!SaveState([savedState EXCEPT !.status = "failed"])
        /\ spoiled' = (spoiled \/ savedState.status = "completed")
        /\ \/ pc' = "raising" /\ UNCHANGED outcome
           \/ pc' = "ended" /\ outcome' = "raised"
     \/ /\ Durable /\ pc' = "ended" /\ outcome' = "raised"
        /\ UNCHANGED <<storeVars, spoiled>>
     \/ /\ ~Durable /\ pc' = "raising"
        /\ UNCHANGED <<outcome, storeVars, spoiled>>
  /\ UNCHANGED <<composition, config, held, frame, failure, terminals, answer>>

EndRaising ==
  /\ pc = "raising"
  /\ terminals' = terminals \cup
       {IF failure = "error" THEN "run.failed" ELSE "run.cancelled"}
  /\ pc' = "ended" /\ outcome' = "raised"
  /\ UNCHANGED <<composition, config, held, frame, failure, storeVars, history>>

----------------------------------------------------------------------------
(* After the try: what is raised here reaches the caller unrecorded.       *)

\* CandidateAccepted, BudgetUpdated, BudgetExhausted
Announce ==
  /\ pc = "announcing"
  /\ \/ pc' = "reporting" /\ UNCHANGED outcome
     \/ pc' = "ended" /\ outcome' = "raised"
  /\ UNCHANGED <<composition, config, held, frame, failure, terminals,
                 storeVars, history>>

Report ==
  /\ pc = "reporting" /\ pc' = "ended"
  /\ terminals' = {"run.completed"}
  /\ \/ outcome' = "returned" /\ answer' = IF Durable THEN result ELSE None
     \/ outcome' = "raised" /\ UNCHANGED answer
  /\ UNCHANGED <<composition, config, held, frame, failure, storeVars, spoiled>>

\* The process stops, in a crash or because the call has ended.
Crash ==
  /\ pc # "down" /\ pc' = "down"
  /\ config' = None /\ held' = None
  /\ failure' = None /\ terminals' = {} /\ outcome' = None
  /\ Unwound
  /\ UNCHANGED <<composition, storeVars, history>>

----------------------------------------------------------------------------
Init ==
  /\ composition \in Compositions
  /\ pc = "down" /\ config = None /\ held = None
  /\ steps = <<>> /\ candidate = None /\ result = None
  /\ results = <<>> /\ runs = <<>> /\ selected = 0 /\ rescored = 0
  /\ failure = None /\ terminals = {} /\ outcome = None
  /\ step = 0 /\ seed = None /\ parent = None /\ invocations = <<>>
  /\ active = None /\ pending = None /\ completed = {} /\ known = None
  /\ producers = None
  /\ Store!StoreInit
  /\ answer = None /\ spoiled = FALSE

Next ==
  \/ \E c \in Configs : StartCall(c)
  \/ RejectCall \/ ClaimDirectory \/ ResetDirectory \/ BeginRun \/ ResumeRun
  \/ ReturnSaved \/ BeginSteps \/ StartStep
  \/ \E e \in Engines : RunEngine(e)
  \/ \E i \in Tracker!Numbers :
       \/ EngineRaises(i)
       \/ \E raw \in RawResults : EngineReturns(i, raw) \/ EngineExhausted(i, raw)
  \/ ExecuteReturns \/ ResolveResult
  \/ \E votes \in [DOMAIN runs -> VoteScores] : SelectRun(votes)
  \/ RecordStep \/ FinishComposition \/ FinishPipeline
  \/ SaveResult \/ CloseRun \/ Raise \/ RecordFailure \/ EndRaising
  \/ Announce \/ Report \/ Crash

Spec == Init /\ [][Next]_vars

----------------------------------------------------------------------------
(* Properties.                                                             *)

\* Every variable of the call, of the step in it and of the directory keeps
\* its type, and an engine is in at most one invocation: the one the
\* evaluations it asks for are told under (evaluation_scope).
TypeOK ==
  /\ composition \in Compositions
  /\ pc \in {"down", "preparing", "claiming", "beginning", "prepared",
             "stepping", "executing", "resolving", "recording", "saving",
             "closing", "announcing", "reporting", "handling", "raising", "ended"}
  /\ config \in Configs \cup {None}
  /\ held \in RunState \cup {None}
  /\ steps \in Seq(StepResults) /\ candidate \in Candidates \cup {None}
  /\ results \in Seq(Tracker!Numbers) /\ runs \in Seq(Runs)
  /\ selected \in 0..Len(runs) /\ rescored \in Nat
  /\ result \in Results \cup {None} /\ answer \in Results \cup {None}
  /\ failure \in Failures \cup {None} /\ outcome \in {None, "returned", "raised"}
  /\ terminals \subseteq {"run.completed", "run.failed", "run.cancelled"}
  /\ spoiled \in BOOLEAN
  /\ \A i \in Tracker!Numbers :
       /\ invocations[i].engine \in Engines /\ invocations[i].state \in Tracker!States
       /\ invocations[i].input \in Candidates
       /\ invocations[i].state = "running" => ScopeOf(i) = i
  /\ Store!StoreType

\* Saved steps follow one another: each began from the value the one before it
\* selected, and what it selected is the output of one of its runs.  The
\* candidate it reports to have begun from is the one it was given or, where a
\* sibling had left the value as it was, that sibling's output.
Chained(ss) ==
  \A k \in DOMAIN ss :
    LET given == IF k = 1 THEN Seed ELSE ss[k - 1].output IN
    /\ ss[k].step = k
    /\ ss[k].input.value = given.value
    /\ \/ ss[k].input = given
       \/ \E i \in DOMAIN ss[k].runs : ss[k].runs[i].output = ss[k].input
    /\ \E i \in DOMAIN ss[k].runs :
         /\ ss[k].selected = ss[k].runs[i].id
         /\ ss[k].output = ss[k].runs[i].output
         /\ composition.steps[k].kind # "vote" =>
              \A j \in DOMAIN ss[k].runs : ss[k].runs[j].score <= ss[k].runs[i].score

\* A crash at any point leaves a checkpoint a pipeline can go on from: its
\* steps are chained, its candidate is what the last of them selected, its
\* calls are theirs, and a run marked completed has the result of exactly
\* these steps.  (_pipeline and the end of optimize; _pipeline refuses a
\* checkpoint whose steps do not fit.)
CheckpointIsChain ==
  savedState # None =>
    LET ss == savedState.stages
        closed == savedState.status = "completed" IN
    /\ composition.pipeline =>
         /\ Chained(ss)
         /\ savedState.accepted = IF ss = <<>> THEN Seed ELSE ss[Len(ss)].output
         /\ savedState.calls = CallsOf(ss)
         /\ closed => Len(ss) = Len(composition.steps) /\ savedResult.steps = ss
    /\ closed => /\ savedResult # None
                 /\ savedState.accepted = savedResult.best
                 /\ savedState.calls = savedResult.budget.calls

\* What a directory has recorded is never executed again: every step that is
\* started, in this call or in a later one, is the one after the last saved
\* step, from the candidate that step selected.
NoStepRepeated ==
  [][composition.pipeline /\ savedState # None /\ step = 0 /\ step' # 0
       => /\ step' = Len(savedState.stages) + 1
          /\ seed' = savedState.accepted]_vars

\* All callers of a directory's run are given one result, until the directory
\* is made fresh.  A composition that is no pipeline keeps nothing but its
\* result: there a failure recorded over the completed run undoes that.
AnswerIsKept ==
  [][Durable /\ answer # None /\ answer' # answer
       => answer' = None \/ (spoiled /\ ~composition.pipeline)]_vars

\* The run listed for the result of invocation n is that invocation's.
Attributed(i, n) ==
  /\ results[i] = n
  /\ runs[i].id = Tracker!ExecutionId(n)
  /\ runs[i].output = [value |-> invocations[n].raw.value, id |-> runs[i].id]
  /\ runs[i].input = invocations[n].input /\ runs[i].parent = invocations[n].parent

\* It is not: a slice was cut off after its engine had returned from another.
\* resolve has taken it off the pending list when it resolved the whole slice,
\* and gives its result to a later slice of the engine or to one that never ran.
Misattributed(i, n) ==
  /\ Kind = "adaptive" /\ results[i] = n
  /\ \E m \in Tracker!Numbers :
       /\ m > n /\ invocations[m].engine = invocations[n].engine
       /\ runs[i].id = Tracker!ExecutionId(m)
  /\ \E j \in DOMAIN runs, m \in 1..(n - 1) :
       Attributed(j, m) /\ invocations[m].engine = invocations[n].engine

\* The lineage a step reports is what happened, with siblings at once, budgets
\* that run out and results found by resolve: every result is listed under the
\* invocation that made it, no two under one id, save for slices that were cut
\* off after a whole one of their engine; siblings were all given the value of
\* the step's candidate; and the parent of a run is what the step itself was
\* given or, when the value of its input has been made in this step, the run
\* that made it.  (ExecutionTracker; SiblingsShareParent is about the latter)
LineageSound ==
  pc = "recording" =>
    /\ \A i, j \in DOMAIN runs : i # j => runs[i].id # runs[j].id
    /\ \A i \in DOMAIN runs :
         Attributed(i, results[i]) \/ Misattributed(i, results[i])
    /\ Kind \notin {"sequential", "adaptive"} =>
         \A i \in DOMAIN runs : runs[i].input.value = candidate.value
    /\ \A i \in DOMAIN runs :
         LET input == runs[i].input IN
         \/ input.id \in {None, candidate.id} /\ runs[i].parent = candidate.id
         \/ /\ input.id = runs[i].parent
            /\ \E j \in DOMAIN runs :
                 j # i /\ runs[j].id = runs[i].parent /\ runs[j].output = input

\* "Every engine receives the same parent": the runs of a parallel step report
\* one input and one parent.  (docs/optimize-anything.md, Parallel; start looks
\* its input up among the candidates its siblings have made)
SiblingsShareParent ==
  pc = "recording" /\ Kind = "parallel" =>
    \A i, j \in DOMAIN runs :
      runs[i].parent = runs[j].parent /\ runs[i].input = runs[j].input

AllRuns(ss) ==
  [at \in UNION {{<<k, i>> : i \in DOMAIN ss[k].runs} : k \in DOMAIN ss} |->
     ss[at[1]].runs[at[2]]]

\* The budget of a composition counts every run of every step once, those a
\* former call made too, and nothing else: a vote and the held-out cases have
\* counts of their own, and a cost is unknown only when no run has reported
\* one.  (results.py, composition_result)
BudgetIsSumOfRuns ==
  result # None =>
    LET all == AllRuns(result.steps)
        costs == {at \in DOMAIN all : all[at].cost # None}
        votes == {at \in DOMAIN all : composition.steps[at[1]].kind = "vote"} IN
    /\ result.budget.calls = Total([at \in DOMAIN all |-> all[at].calls])
    /\ result.budget.cost =
         IF costs = {} THEN None ELSE Total([at \in costs |-> all[at].cost])
    /\ result.budget.rescored = Cardinality(votes)

=============================================================================
