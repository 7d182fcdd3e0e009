---------------------------- MODULE PlanExecution ----------------------------
(***************************************************************************)
(* Plan.arun and Plan._execute (orchestration/execution.py): the stages of *)
(* a plan run one after the other on a shared budget of metric calls, each *)
(* recorded in a checkpoint before the next begins.                        *)
(*                                                                         *)
(* A stage may fail, be cancelled, return what it may not or report more   *)
(* calls than it was given; an observer may raise from any event; the      *)
(* store may fail; the process may crash between any two steps and be      *)
(* started again on the same directory, or on a fresh one.                 *)
(***************************************************************************)
EXTENDS Naturals, Sequences

CONSTANTS
  NumStages,    \* stages of the plan
  StageBudget,  \* Stage.budget.max_metric_calls of each
  Budgets,      \* the values of Plan.budget to consider
  Unlimited,    \* Plan.budget = None
  Components,   \* component names
  Values,       \* component values
  Missing,      \* a component a candidate has no value for
  Targets,      \* Stage.components of each stage
  StageSeed,    \* Stage.seed of each stage, or None
  Seeds,        \* the candidates a run may start from
  Digests,      \* compatibility fingerprints
  None,
  MaxLives      \* bound: processes started

Stages == 1..NumStages
Candidates == [Components -> Values \cup {Missing}]

ASSUME PlanAssumption ==
  /\ NumStages \in Nat \ {0}
  /\ StageBudget \in [Stages -> Nat \ {0}]
  /\ Budgets \subseteq (Nat \ {0}) \cup {Unlimited}
  /\ Unlimited \notin Nat
  /\ Targets \in [Stages -> (SUBSET Components) \ {{}}]
  /\ StageSeed \in [Stages -> Candidates \cup {None}]
  /\ Seeds \subseteq Candidates
  /\ MaxLives \in Nat

VARIABLES
  plan,         \* the definition: budget, carry_forward, stop, durable
  pc,           \* where the process is; "down" when there is none
  config,       \* RunConfig: resume, fresh, and the run's fingerprint, or None
  initial,      \* the seed this process was given
  stage,        \* the stage to run next
  current,      \* the candidate carried forward
  results,      \* stage_results
  calls,        \* total_calls
  stopReason,   \* None, "budget" or "failure"
  trial,        \* the stage under way: its input, limit and output
  events,       \* what this process has told its observers
  owned,        \* the store: see AtomicStore
  savedState,
  savedResult,
  lives,        \* processes started
  resumedAt,    \* history: next_stage of the resumed checkpoints of a run
  origin        \* history: the candidate the run in the directory began with

memory == <<config, initial, stage, current, results, calls, stopReason,
            trial, events>>
storeVars == <<owned, savedState, savedResult>>
history == <<resumedAt, origin>>
vars == <<plan, pc, memory, storeVars, lives, history>>

----------------------------------------------------------------------------
(* Data.                                                                   *)

Plans == [budget: Budgets,
          carry: {"accepted", "initial"},
          stop: {"on_failure", "continue"},
          durable: BOOLEAN]

Configs == [resume: {"never", "if_exists", "required"},
            fresh: BOOLEAN,
            digest: Digests]

\* StageResult, and two things it does not say: whether the stage's candidate
\* was accepted before the stage completed or failed (carried), and what a
\* stage had been charged when it failed, before it was charged its limit as
\* well (late).
StageResult == [stage: Stages, status: {"completed", "failed"},
                output: Candidates, limit: Nat, used: Nat,
                carried: BOOLEAN, late: Nat]

RunState == [digest: Digests, status: {"running", "completed"},
             candidate: Candidates, stages: Seq(StageResult),
             next: 0..NumStages, calls: Nat]

StopReasons == {None, "budget", "failure"}

PlanResult == [initial: Candidates, final: Candidates,
               stages: Seq(StageResult), calls: Nat, stop: StopReasons]

\* "no such file" is not the content of a file, nor "no reason" a reason
ASSUME NoneAssumption ==
  /\ None \notin RunState /\ None \notin PlanResult
  /\ None \notin {"budget", "failure"}

Trials == [input: Candidates, limit: Nat, output: Candidates,
           used: Nat, accepted: BOOLEAN, charged: BOOLEAN]

Store == INSTANCE AtomicStore WITH RunStates <- RunState, Results <- PlanResult

----------------------------------------------------------------------------
(* Candidates.                                                             *)

\* _seed_stage: the stage's own seed may only set what the stage targets
SeedConflict(i) ==
  /\ StageSeed[i] # None
  /\ \E c \in Components \ Targets[i] :
       StageSeed[i][c] # Missing /\ StageSeed[i][c] # current[c]

SeededInput(i) ==
  [c \in Components |->
     IF StageSeed[i] # None /\ c \in Targets[i] /\ StageSeed[i][c] # Missing
     THEN StageSeed[i][c] ELSE current[c]]

SeedError(i) ==
  SeedConflict(i) \/ \E c \in Targets[i] : SeededInput(i)[c] = Missing

\* _validate_stage_output
ValidOutput(i, input, output) ==
  /\ \A c \in Components \ Targets[i] : output[c] = input[c]
  /\ \A c \in Targets[i] : output[c] # Missing

\* _merge_candidate
Merged(i, input, output) ==
  [c \in Components |-> IF c \in Targets[i] THEN output[c] ELSE input[c]]

\* Mutant: the final candidate is carried, accepted or not.
CarriedAlways(output, accepted) ==
  IF plan.carry = "initial" THEN initial ELSE output

Carried(output, accepted) ==
  IF plan.carry = "initial" THEN initial
  ELSE IF accepted THEN output ELSE current

----------------------------------------------------------------------------
(* Budget.                                                                 *)

\* Mutant: `remaining == 0` where the code has `remaining <= 0`.
ExhaustedExactly == plan.budget # Unlimited /\ calls = plan.budget

Exhausted == plan.budget # Unlimited /\ calls >= plan.budget

\* Mutant: the remaining budget does not cap the stage's own.
StageLimitUncapped(i) == StageBudget[i]

StageLimit(i) ==
  IF plan.budget # Unlimited /\ plan.budget - calls < StageBudget[i]
  THEN plan.budget - calls ELSE StageBudget[i]

----------------------------------------------------------------------------
(* Events.  Observers get every event; then one with the policy "raise"    *)
(* may turn its delivery into an exception, which leaves _execute here or, *)
(* inside the try of a stage, makes the stage fail.                        *)

Tell(e) == events' = events \cup {e}
ThenGoTo(next) == pc' \in {next, "raising"}

NoCandidate == [c \in Components |-> Missing]

NoTrial == [input |-> NoCandidate, limit |-> 0, output |-> NoCandidate,
            used |-> 0, accepted |-> FALSE, charged |-> FALSE]

----------------------------------------------------------------------------
(* arun, and prepare through AtomicStore.                                  *)

StartRun(resume, fresh, digest, seed) ==
  /\ pc = "down"
  /\ lives < MaxLives
  /\ fresh => resume = "never"
  /\ (fresh \/ resume # "never") => plan.durable
  /\ lives' = lives + 1
  /\ config' = [resume |-> resume, fresh |-> fresh, digest |-> digest]
  /\ initial' = seed /\ current' = seed
  /\ stage' = 1 /\ results' = <<>> /\ calls' = 0 /\ stopReason' = None
  /\ trial' = NoTrial
  /\ events' = {<<"run.started", 0>>}
  /\ pc' \in {"preparing", "ended"}   \* emitted outside the try
  /\ UNCHANGED <<plan, storeVars, history>>

PrepareNothing ==
  /\ pc = "preparing" /\ ~plan.durable
  /\ pc' = "looping"
  /\ UNCHANGED <<plan, memory, storeVars, lives, history>>

ClaimDirectory ==
  /\ plan.durable
  /\ \/ pc = "preparing" /\ pc' = "preparing"
     \/ pc = "claiming" /\ pc' = "beginning"
  /\ Store!Claim
  /\ UNCHANGED <<plan, memory, lives, history>>

ResetDirectory ==
  /\ pc = "preparing" /\ plan.durable /\ config.fresh
  /\ Store!Release
  /\ pc' = "claiming"
  /\ UNCHANGED <<plan, memory, lives, history>>

NewState == [digest |-> config.digest, status |-> "running",
             candidate |-> initial, stages |-> <<>>, next |-> 0, calls |-> 0]

BeginRun ==
  /\ \/ pc = "beginning"
     \/ /\ pc = "preparing" /\ plan.durable
        /\ ~config.fresh /\ config.resume # "required"
  /\ Store!Begin(NewState)
  /\ origin' = initial
  /\ resumedAt' = {}
  /\ \/ config.fresh /\ Tell(<<"checkpoint.reset", 0>>) /\ ThenGoTo("looping")
     \/ ~config.fresh /\ pc' = "looping" /\ UNCHANGED events
     \* the state is in place and writing the manifest fails
     \/ Tell(<<"checkpoint.rejected", 0>>) /\ pc' = "raising"
  /\ UNCHANGED <<plan, config, initial, stage, current, results, calls,
                 stopReason, trial, lives>>

\* An incompatible, missing, existing or foreign directory, or an OSError.
RejectDirectory ==
  /\ pc \in {"preparing", "claiming", "beginning"} /\ plan.durable
  /\ Tell(<<"checkpoint.rejected", 0>>)
  /\ pc' = "raising"
  /\ UNCHANGED <<plan, config, initial, stage, current, results, calls,
                 stopReason, trial, storeVars, lives, history>>

\* Mutant: state.next_stage taken for the last stage that is recorded.
StageAfterNext == savedState.next + 2

ResumedStage == savedState.next + 1

ResumeRun ==
  /\ pc = "preparing" /\ plan.durable
  /\ ~config.fresh /\ config.resume # "never"
  /\ owned /\ savedState # None
  /\ savedState.digest = config.digest
  /\ current' = savedState.candidate
  /\ results' = savedState.stages
  /\ calls' = savedState.calls
  /\ stage' = ResumedStage
  /\ resumedAt' = resumedAt \cup {savedState.next}
  /\ Tell(<<"checkpoint.resumed", 0>>)
  /\ ThenGoTo("resumed")
  /\ UNCHANGED <<plan, config, initial, stopReason, trial, storeVars, lives,
                 origin>>

\* A completed run is not executed again: its result is returned.
ReturnSaved ==
  /\ pc = "resumed"
  /\ savedState.status = "completed" /\ savedResult # None
  /\ Tell(<<"run.completed", 0>>)
  /\ ThenGoTo("ended")
  /\ UNCHANGED <<plan, config, initial, stage, current, results, calls,
                 stopReason, trial, storeVars, lives, history>>

ContinueSaved ==
  /\ pc = "resumed"
  /\ ~(savedState.status = "completed" /\ savedResult # None)
  /\ pc' = "looping"
  /\ UNCHANGED <<plan, memory, storeVars, lives, history>>

----------------------------------------------------------------------------
(* The stage loop.                                                         *)

\* Mutant: the loop goes on although a stop reason is set.
NextStageRegardless ==
  /\ pc = "looping"
  /\ stage <= NumStages /\ ~Exhausted

NextStage ==
  /\ pc = "looping"
  /\ stage <= NumStages /\ stopReason = None /\ ~Exhausted

StopOnBudget ==
  /\ pc = "looping"
  /\ stage <= NumStages /\ stopReason = None /\ Exhausted
  /\ stopReason' = "budget"
  /\ Tell(<<"budget.exhausted", 0>>)
  /\ ThenGoTo("finishing")
  /\ UNCHANGED <<plan, config, initial, stage, current, results, calls, trial,
                 storeVars, lives, history>>

\* Mutant: only the last stage ends the loop.
LeaveLoopAtEnd ==
  /\ pc = "looping"
  /\ stage > NumStages
  /\ pc' = "finishing"
  /\ UNCHANGED <<plan, memory, storeVars, lives, history>>

LeaveLoop ==
  /\ pc = "looping"
  /\ stage > NumStages \/ stopReason # None
  /\ pc' = "finishing"
  /\ UNCHANGED <<plan, memory, storeVars, lives, history>>

\* _seed_stage raises outside the stage's try: the whole run fails.
RejectSeed ==
  /\ NextStage
  /\ SeedError(stage)
  /\ pc' = "raising"
  /\ UNCHANGED <<plan, memory, storeVars, lives, history>>

\* StageStarted is emitted outside the try as well.
StartStage ==
  /\ NextStage
  /\ ~SeedError(stage)
  /\ trial' = [NoTrial EXCEPT !.input = SeededInput(stage),
                              !.limit = StageLimit(stage)]
  /\ Tell(<<"stage.started", stage>>)
  /\ ThenGoTo("running")
  /\ UNCHANGED <<plan, config, initial, stage, current, results, calls,
                 stopReason, storeVars, lives, history>>

\* The stage returns an acceptable output within its limit, and is charged:
\* what it reported or, when it reported nothing, its whole limit.
StageReturns(output, used, accepted) ==
  /\ pc = "running"
  /\ ValidOutput(stage, trial.input, output)
  /\ used <= trial.limit
  /\ LET merged == Merged(stage, trial.input, output) IN
       /\ current' = Carried(merged, accepted)
       /\ trial' = [trial EXCEPT !.output = merged, !.used = used,
                                 !.accepted = accepted, !.charged = TRUE]
  /\ calls' = calls + used
  /\ pc' = "accounted"
  /\ UNCHANGED <<plan, config, initial, stage, results, stopReason, events,
                 storeVars, lives, history>>

\* The callable or its rescore raises, an observer of CandidateNormalized
\* does, or the output breaks the contract of the stage or its limit.
StageRaises ==
  /\ pc = "running"
  /\ pc' = "failing"
  /\ UNCHANGED <<plan, memory, storeVars, lives, history>>

\* CandidateEvaluated, CandidateAccepted or -Rejected, BudgetUpdated and
\* StageCompleted, still inside the try: if an observer raises from one of
\* them the stage fails although it is charged and carried forward.
AnnounceStage ==
  /\ pc = "accounted"
  /\ \/ Tell(<<"stage.completed", stage>>) /\ pc' \in {"recording", "failing"}
     \/ UNCHANGED events /\ pc' = "failing"
  /\ UNCHANGED <<plan, config, initial, stage, current, results, calls,
                 stopReason, trial, storeVars, lives, history>>

Completed ==
  [stage |-> stage, status |-> "completed", output |-> trial.output,
   limit |-> trial.limit, used |-> trial.used,
   carried |-> trial.accepted, late |-> 0]

Failed ==
  [stage |-> stage, status |-> "failed", output |-> trial.input,
   limit |-> trial.limit, used |-> trial.limit,
   carried |-> trial.charged /\ trial.accepted,
   late |-> IF trial.charged THEN trial.used ELSE 0]

\* The except clause: the whole limit is charged (again).  An observer that
\* raises from StageFailed ends the run.
FailStage ==
  /\ pc = "failing"
  /\ calls' = calls + trial.limit
  /\ stopReason' = IF plan.stop = "on_failure" THEN "failure" ELSE stopReason
  /\ Tell(<<"stage.failed", stage>>)
  /\ \/ results' = Append(results, Failed) /\ pc' = "recorded"
     \/ UNCHANGED results /\ pc' = "raising"
  /\ UNCHANGED <<plan, config, initial, stage, current, trial, storeVars,
                 lives, history>>

RecordStage ==
  /\ pc = "recording"
  /\ results' = Append(results, Completed)
  /\ pc' = "recorded"
  /\ UNCHANGED <<plan, config, initial, stage, current, calls, stopReason,
                 trial, events, storeVars, lives, history>>

\* Mutant: the checkpoint keeps the candidate the stage was given.
SnapshotOfInput(status, next) ==
  [digest |-> config.digest, status |-> status,
   candidate |-> IF trial = NoTrial THEN current ELSE trial.input,
   stages |-> results, next |-> next, calls |-> calls]

Snapshot(status, next) ==
  [digest |-> config.digest, status |-> status, candidate |-> current,
   stages |-> results, next |-> next, calls |-> calls]

NextTrial ==
  /\ stage' = stage + 1
  /\ trial' = NoTrial

PassUnrecorded ==
  /\ pc = "recorded" /\ ~plan.durable
  /\ NextTrial
  /\ pc' = "looping"
  /\ UNCHANGED <<plan, config, initial, current, results, calls, stopReason,
                 events, storeVars, lives, history>>

\* write_candidate, write_stage and checkpoint; then CheckpointWritten.
SaveStage ==
  /\ pc = "recorded" /\ plan.durable
  /\ Store!SaveState(Snapshot("running", stage))
  /\ \/ /\ Tell(<<"checkpoint.written", stage>>)
        /\ ThenGoTo("looping")
     \* the state is in place and writing the manifest fails
     \/ UNCHANGED events /\ pc' = "raising"
  /\ NextTrial
  /\ UNCHANGED <<plan, config, initial, current, results, calls, stopReason,
                 lives, history>>

\* A snapshot, checkpoint or result cannot be written.
StoreRaises ==
  /\ pc \in {"recorded", "committing", "closing"} /\ plan.durable
  /\ pc' = "raising"
  /\ UNCHANGED <<plan, memory, storeVars, lives, history>>

----------------------------------------------------------------------------
(* The end of _execute and of arun.                                        *)

\* _aggregate, the final rescore and its events may raise; so does the
\* BudgetUsage of a plan that was charged beyond its budget.
FinishRaises ==
  /\ pc = "finishing"
  /\ pc' = "raising"
  /\ UNCHANGED <<plan, memory, storeVars, lives, history>>

\* Mutant: the run is closed before its result is written.
FinishClosing ==
  /\ pc = "finishing"
  /\ plan.budget # Unlimited => calls <= plan.budget
  /\ pc' = IF plan.durable THEN "closing" ELSE "announcing"
  /\ UNCHANGED <<plan, memory, storeVars, lives, history>>

\* Mutant: the run is announced before it is committed.
FinishAnnouncing ==
  /\ pc = "finishing"
  /\ plan.budget # Unlimited => calls <= plan.budget
  /\ pc' = "announcing"
  /\ UNCHANGED <<plan, memory, storeVars, lives, history>>

Finish ==
  /\ pc = "finishing"
  /\ plan.budget # Unlimited => calls <= plan.budget
  /\ pc' = IF plan.durable THEN "committing" ELSE "announcing"
  /\ UNCHANGED <<plan, memory, storeVars, lives, history>>

Result == [initial |-> initial, final |-> current, stages |-> results,
           calls |-> calls, stop |-> stopReason]

CommitResult ==
  /\ pc = "committing"
  /\ Store!SaveResult(Result)
  /\ pc' = "closing"
  /\ UNCHANGED <<plan, memory, lives, history>>

CloseRun ==
  /\ pc = "closing"
  /\ Store!SaveState(Snapshot("completed", NumStages))
  /\ \/ Tell(<<"checkpoint.written", NumStages>>) /\ ThenGoTo("announcing")
     \/ UNCHANGED events /\ pc' = "raising"
  /\ UNCHANGED <<plan, config, initial, stage, current, results, calls,
                 stopReason, trial, lives, history>>

AnnounceRun ==
  /\ pc = "announcing"
  /\ Tell(<<"run.completed", 0>>)
  /\ ThenGoTo("ended")
  /\ UNCHANGED <<plan, config, initial, stage, current, results, calls,
                 stopReason, trial, storeVars, lives, history>>

EndRaising ==
  /\ pc = "raising"
  /\ Tell(<<"run.failed", 0>>)
  /\ pc' = "ended"
  /\ UNCHANGED <<plan, config, initial, stage, current, results, calls,
                 stopReason, trial, storeVars, lives, history>>

\* A task is cancelled where it awaits: in a stage or in a rescore.
Cancel ==
  /\ pc \in {"running", "finishing"}
  /\ Tell(<<"run.cancelled", 0>>)
  /\ pc' = "ended"
  /\ UNCHANGED <<plan, config, initial, stage, current, results, calls,
                 stopReason, trial, storeVars, lives, history>>

\* The process stops, in a crash or because its run has ended.
Crash ==
  /\ pc # "down"
  /\ pc' = "down"
  /\ config' = None /\ initial' = NoCandidate /\ current' = NoCandidate
  /\ stage' = 1 /\ results' = <<>> /\ calls' = 0 /\ stopReason' = None
  /\ trial' = NoTrial /\ events' = {}
  /\ UNCHANGED <<plan, storeVars, lives, history>>

----------------------------------------------------------------------------
Init ==
  /\ plan \in Plans
  /\ pc = "down"
  /\ config = None /\ initial = NoCandidate /\ current = NoCandidate
  /\ stage = 1 /\ results = <<>> /\ calls = 0 /\ stopReason = None
  /\ trial = NoTrial /\ events = {}
  /\ Store!StoreInit
  /\ lives = 0 /\ resumedAt = {} /\ origin = NoCandidate

\* What the event loop runs to its end once a run has started.
Prepare ==
  \/ PrepareNothing \/ ClaimDirectory \/ ResetDirectory \/ BeginRun
  \/ RejectDirectory \/ ResumeRun \/ ReturnSaved \/ ContinueSaved

StageSteps ==
  \/ StopOnBudget \/ LeaveLoop \/ RejectSeed \/ StartStage
  \/ \E output \in Candidates, used \in 0..trial.limit, accepted \in BOOLEAN :
       StageReturns(output, used, accepted)
  \/ StageRaises \/ AnnounceStage \/ FailStage \/ RecordStage
  \/ PassUnrecorded \/ SaveStage

Ending ==
  \/ StoreRaises \/ FinishRaises \/ Finish \/ CommitResult \/ CloseRun
  \/ AnnounceRun \/ EndRaising

Next ==
  \/ \E resume \in {"never", "if_exists", "required"}, fresh \in BOOLEAN,
        digest \in Digests, seed \in Seeds :
       StartRun(resume, fresh, digest, seed)
  \/ Prepare \/ StageSteps \/ Ending
  \/ Cancel \/ Crash

Spec == Init /\ [][Next]_vars

\* A process that is not stopped goes on, and the callables of a plan (stages,
\* rescores, aggregate) return or raise; nobody has to start another run.
FairSpec == Spec /\ WF_vars(Prepare \/ StageSteps \/ Ending)

----------------------------------------------------------------------------
(* Properties.                                                             *)

Kinds == {"run.started", "run.completed", "run.failed", "run.cancelled",
          "checkpoint.reset", "checkpoint.rejected", "checkpoint.resumed",
          "checkpoint.written", "budget.exhausted",
          "stage.started", "stage.completed", "stage.failed"}

Preparing == {"preparing", "claiming", "beginning"}
InLoop == {"looping", "running", "accounted", "failing", "recording",
           "recorded"}
Finishing == {"finishing", "committing", "closing", "announcing"}

TypeOK ==
  /\ plan \in Plans
  /\ pc \in {"down", "resumed", "raising", "ended"}
          \cup Preparing \cup InLoop \cup Finishing
  /\ config \in Configs \cup {None} /\ (pc # "down" => config \in Configs)
  /\ initial \in Candidates /\ current \in Candidates
  /\ stage \in 1..NumStages + 1
  /\ (pc \in InLoop \ {"looping"} => stage \in Stages)
  /\ results \in Seq(StageResult) /\ calls \in Nat
  /\ stopReason \in StopReasons
  /\ trial \in Trials
  /\ events \subseteq Kinds \X (0..NumStages)
  /\ owned \in BOOLEAN
  /\ savedState \in RunState \cup {None}
  /\ savedResult \in PlanResult \cup {None}
  /\ lives \in 0..MaxLives
  /\ resumedAt \subseteq 0..NumStages
  /\ origin \in Candidates

\* A stage in these results was charged twice (see FailStage).
Overcharged(stages) == \E k \in 1..Len(stages) : stages[k].late > 0

\* The stages share one budget: as long as no stage that was already charged
\* has been made to fail by an observer, neither the process nor what it saves
\* ever counts more calls than the plan allows, over any number of stages,
\* failures, crashes and resumptions; a published result never does.
BudgetRespected ==
  plan.budget # Unlimited =>
    /\ (pc \in InLoop \cup Finishing \cup {"resumed"} /\ ~Overcharged(results))
         => calls <= plan.budget
    /\ (savedState # None /\ ~Overcharged(savedState.stages))
         => savedState.calls <= plan.budget
    /\ savedResult # None => savedResult.calls <= plan.budget

\* The checkpoint says what the process knows.
Synced ==
  /\ savedState # None
  /\ savedState.stages = results
  /\ savedState.calls = calls
  /\ savedState.candidate = current
  /\ savedState.next = stage - 1
  /\ savedState.digest = config.digest

\* While a stage of a durable plan runs, and again once the stages are over,
\* the checkpoint holds everything the process knows: a crash loses the stage
\* under way and nothing else, and a resumed run is charged for what it kept.
MemoryMatchesCheckpoint ==
  (plan.durable /\ pc \in {"looping", "running", "finishing", "committing",
                            "closing"})
    => Synced

\* A run that is marked completed has its result, of these very stages:
\* resuming it can always return the answer instead of working again.
CompletedHasResult ==
  (savedState # None /\ savedState.status = "completed")
    => /\ savedResult # None
       /\ savedResult.stages = savedState.stages
       /\ savedResult.calls = savedState.calls
       /\ savedResult.final = savedState.candidate

\* The inductive invariant behind the three properties above.  A stage under
\* way fits in what is left of the budget, not counting what it was already
\* charged; a durable run that has begun is marked running until it is closed;
\* a run is closed only with its own result in place.
Spent == IF trial.charged THEN trial.used ELSE 0

PlanInvariant ==
  /\ pc \in Preparing
       => results = <<>> /\ calls = 0 /\ stage = 1 /\ current = initial
  /\ pc = "running" => ~trial.charged
  /\ pc \in {"running", "accounted", "failing", "recording"}
       => trial.used <= trial.limit
  /\ (plan.budget # Unlimited /\ ~Overcharged(results)
      /\ pc \in {"running", "accounted", "failing", "recording"})
       => calls + trial.limit <= plan.budget + Spent
  /\ (plan.budget # Unlimited /\ pc \in {"committing", "closing"})
       => calls <= plan.budget
  /\ pc = "resumed" => plan.durable /\ Synced
  /\ (plan.durable /\ pc \in InLoop \cup (Finishing \ {"announcing"}))
       => savedState # None /\ savedState.status = "running"
  /\ pc = "closing"
       => /\ savedResult # None
          /\ savedResult.stages = results
          /\ savedResult.calls = calls
          /\ savedResult.final = current
  /\ pc \in {"committing", "closing"} => plan.durable

\* The stages that may have changed a component: those that target it and
\* whose candidate was accepted.
ChangedBy(stages, c) ==
  \E k \in 1..Len(stages) : stages[k].carried /\ c \in Targets[stages[k].stage]

\* With carry_forward="accepted" a component only ever differs from the seed
\* of the run by the accepted work of a recorded stage that targets it.
FrozenRespected ==
  plan.carry = "accepted" =>
    /\ savedState # None =>
         \A c \in Components : savedState.candidate[c] # origin[c]
                               => ChangedBy(savedState.stages, c)
    /\ (~plan.durable /\ pc = "looping") =>
         \A c \in Components : current[c] # initial[c] => ChangedBy(results, c)

\* What observers are told of the checkpoint and of the run's end is already
\* on disk: no crash after the event can take it back.
AnnouncedIsDurable ==
  /\ \A k \in 1..NumStages :
       <<"checkpoint.written", k>> \in events
         => savedState # None /\ savedState.next >= k
  /\ (plan.durable /\ <<"run.completed", 0>> \in events)
       => savedState # None /\ savedState.status = "completed"

\* stop="on_failure": a process starts no stage after one it saw fail.  Only
\* a failure that was the last thing in a resumed checkpoint may be followed by
\* another stage, because the checkpoint does not hold the stop reason.
StopsAfterFailure ==
  [][(plan.stop = "on_failure" /\ pc = "looping" /\ pc' = "running") =>
       \A k \in 1..Len(results) :
         results[k].status = "failed" => plan.durable /\ k \in resumedAt]_vars

\* PlanLedger: what the directory may show, whatever happens to processes.
Ledger == INSTANCE PlanLedger WITH
  budget <- plan.budget, ledger <- savedState, answer <- savedResult
ImplementsLedger == Ledger!LedgerSpec

\* Every run ends: with a result, with an exception, or with its process.
RunTerminates == pc \notin {"down", "ended"} ~> pc \in {"down", "ended"}

\* "Per-stage budgets are capped by the plan's remaining global budget"
\* (docs/plans.md:60): what a run has spent stays within the global budget.
WithinBudget ==
  (plan.budget # Unlimited /\ savedState # None)
    => savedState.calls <= plan.budget

\* "The plan records stop reasons when budget or failure policy prevents
\* later stages" (docs/plans.md:61): with stop="on_failure" a published result
\* has no stage after a failed one.
FailureIsLast ==
  (plan.stop = "on_failure" /\ savedResult # None) =>
    \A k \in 1..Len(savedResult.stages) :
      savedResult.stages[k].status = "failed" => k = Len(savedResult.stages)
=============================================================================
