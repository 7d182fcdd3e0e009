-------------------------- MODULE PlanExecutionProofs --------------------------
(***************************************************************************)
(* What holds of a Plan for every number of stages, every budget, every    *)
(* set of components and any number of processes.                          *)
(***************************************************************************)
EXTENDS PlanExecution, SequenceTheorems, TLAPS

----------------------------------------------------------------------------
(* The operators the actions are built from.                               *)

LEMMA NoTrialType == NoCandidate \in Candidates /\ NoTrial \in Trials
BY DEF NoCandidate, NoTrial, Candidates, Trials

\* _seed_stage gives a stage a candidate.
LEMMA SeededInputType ==
  ASSUME TypeOK, NEW i \in Stages PROVE SeededInput(i) \in Candidates
<1>1. current \in Candidates BY DEF TypeOK
<1>2. StageSeed[i] # None => StageSeed[i] \in Candidates
  BY PlanAssumption
<1> QED BY <1>1, <1>2 DEF SeededInput, Candidates

\* _merge_candidate and the carry-forward policy give a candidate.
LEMMA MergedType ==
  ASSUME NEW i \in Stages, NEW input \in Candidates, NEW output \in Candidates
  PROVE  Merged(i, input, output) \in Candidates
BY DEF Merged, Candidates

LEMMA CarriedType ==
  ASSUME TypeOK, NEW output \in Candidates, NEW accepted \in BOOLEAN
  PROVE  Carried(output, accepted) \in Candidates
BY DEF Carried, TypeOK

\* The limit a stage is given fits in what is left of the shared budget.
LEMMA StageLimitFits ==
  ASSUME TypeOK, ~Exhausted, NEW i \in Stages
  PROVE  /\ StageLimit(i) \in Nat
         /\ plan.budget # Unlimited => calls + StageLimit(i) <= plan.budget
<1>1. StageBudget[i] \in Nat BY PlanAssumption
<1>2. calls \in Nat /\ plan.budget \in Budgets BY DEF TypeOK, Plans
<1>3. plan.budget # Unlimited => plan.budget \in Nat BY <1>2, PlanAssumption
<1> QED BY <1>1, <1>2, <1>3 DEF StageLimit, Exhausted

LEMMA RecordsType ==
  ASSUME TypeOK, stage \in Stages
  PROVE  Completed \in StageResult /\ Failed \in StageResult
<1>1. trial \in Trials BY DEF TypeOK
<1> QED BY <1>1 DEF Completed, Failed, StageResult, Trials

LEMMA SnapshotType ==
  ASSUME TypeOK, pc # "down", NEW next \in 0..NumStages,
         NEW status \in {"running", "completed"}
  PROVE  Snapshot(status, next) \in RunState
<1>1. config \in Configs BY DEF TypeOK
<1> QED BY <1>1 DEF TypeOK, Snapshot, RunState, Configs

LEMMA NewStateType ==
  ASSUME TypeOK, pc # "down" PROVE NewState \in RunState
<1>1. config \in Configs BY DEF TypeOK
<1>2. NumStages \in Nat BY PlanAssumption
<1>3. <<>> \in Seq(StageResult) BY EmptySeq
<1> QED BY <1>1, <1>2, <1>3 DEF TypeOK, NewState, RunState, Configs

LEMMA ResultType == ASSUME TypeOK PROVE Result \in PlanResult
BY DEF TypeOK, Result, PlanResult

\* Recording a stage adds its overcharge to that of the stages before it.
LEMMA OverchargedAppend ==
  ASSUME NEW stages \in Seq(StageResult), NEW r \in StageResult
  PROVE  Overcharged(Append(stages, r)) <=> Overcharged(stages) \/ r.late > 0
<1> DEFINE longer == Append(stages, r)
<1>1. Len(longer) = Len(stages) + 1 /\ Len(stages) \in Nat
  BY AppendProperties, LenProperties
<1>2. longer[Len(stages) + 1] = r BY AppendProperties
<1>3. \A k \in 1..Len(stages) : longer[k] = stages[k] BY AppendProperties
<1>4. \A k \in 1..Len(longer) : k \in 1..Len(stages) \/ k = Len(stages) + 1
  BY <1>1
<1>5. ASSUME NEW k \in 1..Len(stages) PROVE k \in 1..Len(longer) BY <1>1
<1>6. Len(stages) + 1 \in 1..Len(longer) BY <1>1
<1> HIDE DEF longer
<1>7. Overcharged(longer) <=> Overcharged(stages) \/ r.late > 0
  BY <1>2, <1>3, <1>4, <1>5, <1>6 DEF Overcharged
<1> QED BY <1>7 DEF longer

----------------------------------------------------------------------------
(* Types.                                                                  *)

LEMMA TypeInit == Init => TypeOK
<1> SUFFICES ASSUME Init PROVE TypeOK
  OBVIOUS
<1>1. NumStages \in Nat \ {0} BY PlanAssumption
<1>2. MaxLives \in Nat BY PlanAssumption
<1>3. <<>> \in Seq(StageResult) BY EmptySeq
<1>4. stage \in 1..NumStages + 1 /\ lives \in 0..MaxLives /\ calls \in Nat
  BY <1>1, <1>2 DEF Init
<1>5. results \in Seq(StageResult) /\ trial \in Trials
  BY <1>3, NoTrialType DEF Init
<1> QED
  BY <1>4, <1>5, NoTrialType
  DEF Init, TypeOK, Store!StoreInit, StopReasons, InLoop, Preparing, Finishing

LEMMA TypeStep == TypeOK /\ [Next]_vars => TypeOK'
<1> SUFFICES ASSUME TypeOK, [Next]_vars PROVE TypeOK'
  OBVIOUS
<1> USE DEF memory, storeVars, history, Tell, ThenGoTo
<1>a. NumStages \in Nat \ {0} /\ MaxLives \in Nat /\ Seeds \subseteq Candidates
  BY PlanAssumption
<1>b. <<>> \in Seq(StageResult) BY EmptySeq
<1>1. ASSUME NEW resume \in {"never", "if_exists", "required"},
            NEW fresh \in BOOLEAN, NEW digest \in Digests, NEW seed \in Seeds,
            StartRun(resume, fresh, digest, seed)
     PROVE  TypeOK'
  <2>1. config' \in Configs BY <1>1, <1>a DEF StartRun, Configs
  <2> QED
    BY <1>1, <1>a, <1>b, <2>1, NoTrialType
    DEF StartRun, TypeOK, Kinds, InLoop, Preparing, Finishing, StopReasons
<1>2. CASE PrepareNothing
  BY <1>2 DEF PrepareNothing, TypeOK, Kinds, InLoop, Preparing, Finishing
<1>3. CASE ClaimDirectory
  BY <1>3
  DEF ClaimDirectory, TypeOK, Kinds, InLoop, Preparing, Finishing, Store!Claim
<1>4. CASE ResetDirectory
  BY <1>4
  DEF ResetDirectory, TypeOK, Kinds, InLoop, Preparing, Finishing, Store!Release
<1>5. CASE BeginRun
  BY <1>5, NewStateType, <1>a
  DEF BeginRun, TypeOK, Kinds, InLoop, Preparing, Finishing, Store!Begin
<1>6. CASE RejectDirectory
  BY <1>6, <1>a
  DEF RejectDirectory, TypeOK, Kinds, InLoop, Preparing, Finishing
<1>7. CASE ResumeRun
  <2>1. savedState \in RunState BY <1>7 DEF ResumeRun, TypeOK
  <2>2. /\ savedState.candidate \in Candidates
        /\ savedState.stages \in Seq(StageResult)
        /\ savedState.next \in 0..NumStages /\ savedState.calls \in Nat
    BY <2>1 DEF RunState
  <2>3. stage' \in 1..NumStages + 1
    BY <1>7, <1>a, <2>2 DEF ResumeRun, ResumedStage
  <2>4. resumedAt' \subseteq 0..NumStages
    BY <1>7, <2>2 DEF ResumeRun, TypeOK
  <2>5. events' \subseteq Kinds \X (0..NumStages)
    BY <1>7, <1>a DEF ResumeRun, Tell, TypeOK, Kinds
  <2>6. pc' \in {"resumed", "raising"} /\ config \in Configs
    BY <1>7 DEF ResumeRun, TypeOK
  <2> QED
    BY <1>7, <2>2, <2>3, <2>4, <2>5, <2>6
    DEF ResumeRun, TypeOK, Kinds, InLoop, Preparing, Finishing
<1>8. CASE ReturnSaved
  BY <1>8, <1>a DEF ReturnSaved, TypeOK, Kinds, InLoop, Preparing, Finishing
<1>9. CASE ContinueSaved
  BY <1>9 DEF ContinueSaved, TypeOK, Kinds, InLoop, Preparing, Finishing
<1>10. CASE StopOnBudget
  BY <1>10, <1>a
  DEF StopOnBudget, TypeOK, Kinds, InLoop, Preparing, Finishing, StopReasons
<1>11. CASE LeaveLoop
  BY <1>11 DEF LeaveLoop, TypeOK, Kinds, InLoop, Preparing, Finishing
<1>12. CASE RejectSeed
  BY <1>12
  DEF RejectSeed, TypeOK, Kinds, InLoop, Preparing, Finishing, NextStage
<1>13. CASE StartStage
  <2>1. stage \in Stages /\ stage \in 0..NumStages
    BY <1>13, <1>a DEF StartStage, NextStage, TypeOK, Stages
  <2>2. SeededInput(stage) \in Candidates BY <2>1, SeededInputType
  <2>3. StageLimit(stage) \in Nat
    BY <1>13, <2>1, StageLimitFits DEF StartStage, NextStage
  <2>4. trial' \in Trials
    BY <1>13, <2>2, <2>3, NoTrialType DEF StartStage, Trials
  <2>5. events' \subseteq Kinds \X (0..NumStages)
    BY <1>13, <2>1 DEF StartStage, TypeOK, Kinds
  <2> QED
    BY <1>13, <2>1, <2>4, <2>5
    DEF StartStage, NextStage, TypeOK, InLoop, Preparing, Finishing
<1>14. ASSUME NEW output \in Candidates, NEW used \in 0..trial.limit,
            NEW accepted \in BOOLEAN, StageReturns(output, used, accepted)
     PROVE  TypeOK'
  <2>1. trial \in Trials /\ stage \in Stages
    BY <1>14 DEF StageReturns, TypeOK, InLoop
  <2>2. used \in Nat BY <2>1 DEF Trials
  <2>3. Merged(stage, trial.input, output) \in Candidates
    BY <2>1, MergedType DEF Trials
  <2>4. current' \in Candidates
    BY <1>14, <2>3, CarriedType DEF StageReturns
  <2>5. trial' \in Trials
    BY <1>14, <2>1, <2>2, <2>3 DEF StageReturns, Trials
  <2> QED
    BY <1>14, <2>2, <2>4, <2>5
    DEF StageReturns, TypeOK, Kinds, InLoop, Preparing, Finishing
<1>15. CASE StageRaises
  BY <1>15 DEF StageRaises, TypeOK, Kinds, InLoop, Preparing, Finishing
<1>16. CASE AnnounceStage
  BY <1>16, <1>a
  DEF AnnounceStage, TypeOK, Kinds, InLoop, Preparing, Finishing, Stages
<1>17. CASE FailStage
  <2>1. stage \in Stages /\ stage \in 0..NumStages
    BY <1>17, <1>a DEF FailStage, TypeOK, InLoop, Stages
  <2>2. Failed \in StageResult BY <2>1, RecordsType
  <2>3. results' \in Seq(StageResult)
    BY <1>17, <2>2, AppendProperties DEF FailStage, TypeOK
  <2>4. calls' \in Nat BY <1>17 DEF FailStage, TypeOK, Trials
  <2>5. events' \subseteq Kinds \X (0..NumStages)
    BY <1>17, <2>1 DEF FailStage, TypeOK, Kinds
  <2> QED
    BY <1>17, <2>1, <2>3, <2>4, <2>5
    DEF FailStage, TypeOK, StopReasons, InLoop, Preparing, Finishing
<1>18. CASE RecordStage
  BY <1>18, RecordsType, AppendProperties
  DEF RecordStage, TypeOK, Kinds, InLoop, Preparing, Finishing
<1>19. CASE PassUnrecorded
  BY <1>19, <1>a, NoTrialType
  DEF PassUnrecorded, TypeOK, Kinds, InLoop, Preparing, Finishing, NextTrial,
      Stages
<1>20. CASE SaveStage
  BY <1>20, <1>a, NoTrialType, SnapshotType
  DEF SaveStage, TypeOK, Kinds, InLoop, Preparing, Finishing, NextTrial,
      Stages, Store!SaveState
<1>21. CASE StoreRaises
  BY <1>21 DEF StoreRaises, TypeOK, Kinds, InLoop, Preparing, Finishing
<1>22. CASE FinishRaises
  BY <1>22 DEF FinishRaises, TypeOK, Kinds, InLoop, Preparing, Finishing
<1>23. CASE Finish
  BY <1>23 DEF Finish, TypeOK, Kinds, InLoop, Preparing, Finishing
<1>24. CASE CommitResult
  BY <1>24, ResultType
  DEF CommitResult, TypeOK, Kinds, InLoop, Preparing, Finishing,
      Store!SaveResult
<1>25. CASE CloseRun
  BY <1>25, <1>a, SnapshotType
  DEF CloseRun, TypeOK, Kinds, InLoop, Preparing, Finishing, Store!SaveState
<1>26. CASE AnnounceRun
  BY <1>26, <1>a DEF AnnounceRun, TypeOK, Kinds, InLoop, Preparing, Finishing
<1>27. CASE EndRaising
  BY <1>27, <1>a DEF EndRaising, TypeOK, Kinds, InLoop, Preparing, Finishing
<1>28. CASE Cancel
  BY <1>28, <1>a DEF Cancel, TypeOK, Kinds, InLoop, Preparing, Finishing
<1>29. CASE Crash
  BY <1>29, <1>a, <1>b, NoTrialType
  DEF Crash, TypeOK, Kinds, InLoop, Preparing, Finishing, StopReasons
<1>30. CASE UNCHANGED vars
  BY <1>30 DEF vars, TypeOK, Kinds, InLoop, Preparing, Finishing
<1> QED
  BY <1>1, <1>2, <1>3, <1>4, <1>5, <1>6, <1>7, <1>8, <1>9, <1>10, <1>11, <1>12,
     <1>13, <1>14, <1>15, <1>16, <1>17, <1>18, <1>19, <1>20, <1>21, <1>22,
     <1>23, <1>24, <1>25, <1>26, <1>27, <1>28, <1>29, <1>30
  DEF Next, Prepare, StageSteps, Ending

\* TypeOK holds in every reachable state: in particular a stage under way is
\* one of the plan's, and the remaining budget a stage is limited to is never
\* negative, even in a run that was charged beyond its budget.
THEOREM TypeCorrect == Spec => []TypeOK
<1>1. Init => TypeOK BY TypeInit
<1>2. TypeOK /\ [Next]_vars => TypeOK' BY TypeStep
<1> QED BY <1>1, <1>2, PTL DEF Spec

----------------------------------------------------------------------------
(* The budget, the checkpoint and the result.                              *)

Inv == /\ BudgetRespected
       /\ MemoryMatchesCheckpoint
       /\ CompletedHasResult
       /\ PlanInvariant

LEMMA InvInit == Init => Inv
BY NoTrialType
DEF Init, Inv, BudgetRespected, MemoryMatchesCheckpoint, CompletedHasResult,
    PlanInvariant, Store!StoreInit, InLoop, Preparing, Finishing

LEMMA InvStep == TypeOK /\ Inv /\ [Next]_vars => Inv'
<1> SUFFICES ASSUME TypeOK, Inv, [Next]_vars PROVE Inv'
  OBVIOUS
<1> USE DEF memory, storeVars, history, Tell, ThenGoTo, Inv, BudgetRespected,
            MemoryMatchesCheckpoint, CompletedHasResult, PlanInvariant, Synced,
            Spent, InLoop, Preparing, Finishing
<1>b. plan.budget \in Nat \/ plan.budget = Unlimited
  BY PlanAssumption DEF TypeOK, Plans
<1>c. /\ calls \in Nat /\ stage \in Nat /\ results \in Seq(StageResult)
      /\ trial.limit \in Nat /\ trial.used \in Nat /\ trial.charged \in BOOLEAN
  BY DEF TypeOK, Trials
<1>e. savedState # None =>
        /\ savedState.calls \in Nat /\ savedState.next \in Nat
        /\ savedState.status \in {"running", "completed"}
  BY DEF TypeOK, RunState
<1>1. ASSUME NEW resume \in {"never", "if_exists", "required"},
            NEW fresh \in BOOLEAN, NEW digest \in Digests, NEW seed \in Seeds,
            StartRun(resume, fresh, digest, seed)
     PROVE  Inv'
  BY <1>1, <1>b, <1>c, <1>e DEF StartRun, NoTrial
<1>2. CASE PrepareNothing
  BY <1>2, <1>b, <1>c, <1>e DEF PrepareNothing
<1>3. CASE ClaimDirectory
  BY <1>3, <1>b, <1>c, <1>e DEF ClaimDirectory, Store!Claim
<1>4. CASE ResetDirectory
  BY <1>4, <1>b, <1>c, <1>e DEF ResetDirectory, Store!Release
<1>5. CASE BeginRun
  <2>1. NewState # None
    BY <1>5, NewStateType, NoneAssumption DEF BeginRun
  <2>2. /\ NewState.stages = <<>> /\ NewState.calls = 0 /\ NewState.next = 0
        /\ NewState.candidate = initial /\ NewState.digest = config.digest
        /\ NewState.status = "running"
    BY DEF NewState
  <2> QED
    BY <1>5, <1>b, <1>c, <2>1, <2>2 DEF BeginRun, Store!Begin
<1>6. CASE RejectDirectory
  BY <1>6, <1>b, <1>c, <1>e DEF RejectDirectory
<1>7. CASE ResumeRun
  BY <1>7, <1>b, <1>c, <1>e DEF ResumeRun, ResumedStage
<1>8. CASE ReturnSaved
  BY <1>8, <1>b, <1>c, <1>e DEF ReturnSaved
<1>9. CASE ContinueSaved
  BY <1>9, <1>b, <1>c, <1>e DEF ContinueSaved
<1>10. CASE StopOnBudget
  BY <1>10, <1>b, <1>c, <1>e DEF StopOnBudget
<1>11. CASE LeaveLoop
  BY <1>11, <1>b, <1>c, <1>e DEF LeaveLoop
<1>12. CASE RejectSeed
  BY <1>12, <1>b, <1>c, <1>e DEF RejectSeed, NextStage
<1>13. CASE StartStage
  <2>1. stage \in Stages
    BY <1>13 DEF StartStage, NextStage, TypeOK, Stages
  <2>2. /\ trial'.limit = StageLimit(stage)
        /\ trial'.used = 0 /\ trial'.charged = FALSE
    BY <1>13 DEF StartStage, NoTrial
  <2>3. /\ StageLimit(stage) \in Nat
        /\ plan.budget # Unlimited => calls + StageLimit(stage) <= plan.budget
    BY <1>13, <2>1, StageLimitFits DEF StartStage, NextStage
  <2> HIDE DEF Synced
  <2>4. Synced' <=> Synced BY <1>13 DEF StartStage, Synced
  <2> QED
    BY <1>13, <1>b, <1>c, <1>e, <2>2, <2>3, <2>4 DEF StartStage, NextStage
<1>14. ASSUME NEW output \in Candidates, NEW used \in 0..trial.limit,
            NEW accepted \in BOOLEAN, StageReturns(output, used, accepted)
     PROVE  Inv'
  BY <1>14, <1>b, <1>c, <1>e DEF StageReturns
<1>15. CASE StageRaises
  BY <1>15, <1>b, <1>c, <1>e DEF StageRaises
<1>16. CASE AnnounceStage
  BY <1>16, <1>b, <1>c, <1>e DEF AnnounceStage
<1>17. CASE FailStage
  <2>1. stage \in Stages BY <1>17 DEF FailStage, TypeOK
  <2>2. /\ Failed \in StageResult
        /\ Failed.late = IF trial.charged THEN trial.used ELSE 0
    BY <2>1, RecordsType DEF Failed
  <2>3. Overcharged(Append(results, Failed))
          <=> Overcharged(results) \/ Failed.late > 0
    BY <1>c, <2>2, OverchargedAppend
  <2>4. Failed.late > 0 \/ Failed.late = Spent
    BY <1>c, <2>2
  <2>5. ASSUME results' = Append(results, Failed), plan.budget # Unlimited,
               ~Overcharged(results')
        PROVE  calls' <= plan.budget
    BY <1>17, <1>b, <1>c, <2>2, <2>3, <2>4, <2>5 DEF FailStage
  <2>6. pc' = "recorded" => results' = Append(results, Failed)
    BY <1>17 DEF FailStage
  <2> HIDE DEF Spent
  <2> QED
    BY <1>17, <1>b, <1>c, <1>e, <2>5, <2>6 DEF FailStage
<1>18. CASE RecordStage
  <2>1. stage \in Stages BY <1>18 DEF RecordStage, TypeOK
  <2>2. Completed \in StageResult /\ Completed.late = 0
    BY <2>1, RecordsType DEF Completed
  <2>3. Overcharged(Append(results, Completed)) <=> Overcharged(results)
    BY <1>c, <2>2, OverchargedAppend
  <2> QED
    BY <1>18, <1>b, <1>c, <1>e, <2>3 DEF RecordStage
<1>19. CASE PassUnrecorded
  BY <1>19, <1>b, <1>c, <1>e DEF PassUnrecorded, NextTrial
<1>20. CASE SaveStage
  <2>1. stage \in 0..NumStages BY <1>20 DEF SaveStage, TypeOK, Stages
  <2>2. savedState' # None
    BY <1>20, <2>1, SnapshotType, NoneAssumption DEF SaveStage, Store!SaveState
  <2>3. /\ savedState'.stages = results /\ savedState'.calls = calls
        /\ savedState'.candidate = current /\ savedState'.next = stage
        /\ savedState'.digest = config.digest /\ savedState'.status = "running"
    BY <1>20 DEF SaveStage, Store!SaveState, Snapshot
  <2>4. stage' = stage + 1 /\ pc' \in {"looping", "raising"}
    BY <1>20 DEF SaveStage, NextTrial
  <2> QED
    BY <1>20, <1>b, <1>c, <2>2, <2>3, <2>4 DEF SaveStage, Store!SaveState
<1>21. CASE StoreRaises
  BY <1>21, <1>b, <1>c, <1>e DEF StoreRaises
<1>22. CASE FinishRaises
  BY <1>22, <1>b, <1>c, <1>e DEF FinishRaises
<1>23. CASE Finish
  BY <1>23, <1>b, <1>c, <1>e DEF Finish
<1>24. CASE CommitResult
  <2>1. savedResult' # None
    BY <1>24, ResultType, NoneAssumption DEF CommitResult, Store!SaveResult
  <2>2. /\ savedResult'.stages = results /\ savedResult'.calls = calls
        /\ savedResult'.final = current
    BY <1>24 DEF CommitResult, Store!SaveResult, Result
  <2> QED
    BY <1>24, <1>b, <1>c, <2>1, <2>2 DEF CommitResult, Store!SaveResult
<1>25. CASE CloseRun
  BY <1>25, <1>b, <1>c, <1>e DEF CloseRun, Store!SaveState, Snapshot
<1>26. CASE AnnounceRun
  BY <1>26, <1>b, <1>c, <1>e DEF AnnounceRun
<1>27. CASE EndRaising
  BY <1>27, <1>b, <1>c, <1>e DEF EndRaising
<1>28. CASE Cancel
  BY <1>28, <1>b, <1>c, <1>e DEF Cancel
<1>29. CASE Crash
  BY <1>29, <1>b, <1>c, <1>e DEF Crash
<1>30. CASE UNCHANGED vars
  BY <1>30 DEF vars
<1> QED
  BY <1>1, <1>2, <1>3, <1>4, <1>5, <1>6, <1>7, <1>8, <1>9, <1>10, <1>11, <1>12,
     <1>13, <1>14, <1>15, <1>16, <1>17, <1>18, <1>19, <1>20, <1>21, <1>22,
     <1>23, <1>24, <1>25, <1>26, <1>27, <1>28, <1>29, <1>30
  DEF Next, Prepare, StageSteps, Ending

LEMMA InvCorrect == Spec => [](TypeOK /\ Inv)
<1>1. Init => TypeOK /\ Inv BY TypeInit, InvInit
<1>2. TypeOK /\ Inv /\ [Next]_vars => (TypeOK /\ Inv)' BY TypeStep, InvStep
<1> QED BY <1>1, <1>2, PTL DEF Spec

\* The shared budget: min(stage budget, remaining) keeps the calls a plan
\* counts, saves and publishes within it, unless an observer made a stage fail
\* that was already charged.
THEOREM BudgetCorrect == Spec => []BudgetRespected
<1>1. Inv => BudgetRespected BY DEF Inv
<1> QED BY <1>1, InvCorrect, PTL

\* A crash loses the stage under way and nothing else: the checkpoint written
\* after each stage, and the one a resume reads, equal the memory of _execute.
THEOREM CheckpointCorrect == Spec => []MemoryMatchesCheckpoint
<1>1. Inv => MemoryMatchesCheckpoint BY DEF Inv
<1> QED BY <1>1, InvCorrect, PTL

\* write_result before the "completed" checkpoint: a run that is marked
\* completed has the result of exactly the stages it recorded.
THEOREM CompletedCorrect == Spec => []CompletedHasResult
<1>1. Inv => CompletedHasResult BY DEF Inv
<1> QED BY <1>1, InvCorrect, PTL

\* What the three rest on.
THEOREM InvariantCorrect == Spec => []PlanInvariant
<1>1. Inv => PlanInvariant BY DEF Inv
<1> QED BY <1>1, InvCorrect, PTL

----------------------------------------------------------------------------
(* Where the process stands in its ledger.                                 *)

InStage == {"running", "accounted", "failing", "recording"}

\* The stage under way is the next of the plan, has the rest of the budget
\* at most, and ends the loop for good once it is recorded as failed.
TrialInvariant ==
  /\ pc \in Preparing \cup {"resumed", "looping"} => ~trial.charged
  /\ pc \in {"accounted", "recording"} => trial.charged
  /\ pc \in InStage \cup {"recorded"} => trial.limit <= StageBudget[stage]
  /\ pc \in InStage => stopReason = None

\* What is recorded is one stage for each step of the plan, and while a stage
\* of a durable plan is under way the process is exactly that stage ahead of
\* its checkpoint: in the calls it counts and, once the stage has ended, in
\* the results it holds.
LedgerInvariant ==
  /\ (savedState # None /\ savedState.status = "running")
       => Len(savedState.stages) = savedState.next
  /\ pc \in InLoop \ {"recorded"} => Len(results) = stage - 1
  /\ pc = "recorded" => Len(results) = stage
  /\ (plan.durable /\ pc \in InLoop) =>
       /\ savedState # None /\ savedState.next = stage - 1
       /\ pc # "recorded" => /\ results = savedState.stages
                             /\ calls = savedState.calls + Spent
       /\ pc = "recorded" =>
            \E r \in {Completed, Failed} :
              /\ r.used <= r.limit
              /\ results = Append(savedState.stages, r)
              /\ calls = savedState.calls + r.late + r.used
  /\ (plan.durable /\ plan.budget # Unlimited
      /\ pc \in InStage \cup {"recorded"} /\ ~Overcharged(savedState.stages))
       => savedState.calls + trial.limit <= plan.budget

\* The candidate carried forward differs from the one the run began with by
\* the accepted work of recorded stages and of the stage under way.
Base == IF plan.durable THEN origin ELSE initial

Pending(c) ==
  /\ pc \in {"accounted", "failing", "recording"}
  /\ trial.charged /\ trial.accepted
  /\ c \in Targets[stage]

CarryInvariant ==
  plan.carry = "accepted" =>
    /\ pc \in InLoop \cup (Finishing \ {"announcing"}) \cup {"resumed"} =>
         \A c \in Components :
           current[c] # Base[c] => ChangedBy(results, c) \/ Pending(c)
    /\ pc = "running" =>
         \A c \in Components \ Targets[stage] : trial.input[c] = current[c]

\* Nothing was announced before the run began, and the end of the run is
\* announced last.
EventInvariant ==
  /\ pc \in Preparing => events \subseteq {<<"run.started", 0>>}
  /\ pc = "down" => events = {}
  /\ <<"run.completed", 0>> \in events => pc \in {"raising", "ended"}
  /\ (plan.durable /\ pc = "announcing")
       => savedState # None /\ savedState.status = "completed"

\* With stop="on_failure", a failure that is not the last thing recorded was
\* the last thing in a checkpoint that was resumed.
FailureAt(stages, k) == k \in 1..Len(stages) /\ stages[k].status = "failed"

StopInvariant ==
  plan.stop = "on_failure" =>
    /\ pc \in InLoop =>
         \A k \in Nat : FailureAt(results, k) =>
           \/ plan.durable /\ k \in resumedAt
           \/ k = Len(results) /\ stopReason # None
    /\ pc = "resumed" => savedState.next \in resumedAt
    /\ (savedState # None /\ savedState.status = "running") =>
         \A k \in Nat : FailureAt(savedState.stages, k) =>
           k \in resumedAt \/ k = savedState.next

\* min(stage budget, remaining) is at most the stage's own.
LEMMA StageLimitCapped ==
  ASSUME TypeOK, NEW i \in Stages
  PROVE  StageLimit(i) <= StageBudget[i]
<1>1. StageBudget[i] \in Nat BY PlanAssumption
<1>2. calls \in Nat /\ plan.budget \in Budgets BY DEF TypeOK, Plans
<1>3. plan.budget # Unlimited => plan.budget \in Nat BY <1>2, PlanAssumption
<1> QED BY <1>1, <1>2, <1>3 DEF StageLimit

\* Recording a stage adds what it targets, if its candidate was accepted.
LEMMA ChangedByAppend ==
  ASSUME NEW stages \in Seq(StageResult), NEW r \in StageResult, NEW c
  PROVE  ChangedBy(Append(stages, r), c)
         <=> ChangedBy(stages, c) \/ (r.carried /\ c \in Targets[r.stage])
<1> DEFINE longer == Append(stages, r)
           n == Len(stages)
<1>1. Len(longer) = n + 1 /\ n \in Nat
  BY AppendProperties, LenProperties
<1>2. longer[n + 1] = r /\ \A k \in 1..n : longer[k] = stages[k]
  BY AppendProperties
<1>3. /\ \A k \in 1..Len(longer) : k \in 1..n \/ k = n + 1
      /\ \A k \in 1..n : k \in 1..Len(longer)
      /\ n + 1 \in 1..Len(longer)
  BY <1>1
<1> HIDE DEF longer, n
<1>4. ChangedBy(longer, c)
      <=> (\E k \in 1..n : stages[k].carried /\ c \in Targets[stages[k].stage])
          \/ (r.carried /\ c \in Targets[r.stage])
  BY <1>2, <1>3 DEF ChangedBy
<1> QED BY <1>4 DEF longer, n, ChangedBy

\* What the safety properties below need besides Inv.
Standing == /\ TrialInvariant /\ LedgerInvariant /\ CarryInvariant
            /\ EventInvariant /\ StopInvariant
            /\ FrozenRespected /\ AnnouncedIsDurable

\* The stage under way: only a new limit or the charge changes what is said
\* of it.
LEMMA TrialStep ==
  ASSUME TypeOK, Inv, Standing, [Next]_vars
  PROVE  TrialInvariant'
<1> USE DEF memory, storeVars, history, Tell, ThenGoTo, InLoop, InStage,
            Preparing, Finishing, TrialInvariant
<1>t. TrialInvariant BY DEF Standing
<1>1. CASE StartStage
  <2>1. stage \in Stages
    BY <1>1 DEF StartStage, NextStage, TypeOK, Stages
  <2>2. StageLimit(stage) <= StageBudget[stage]
    BY <2>1, StageLimitCapped
  <2>3. /\ trial'.limit = StageLimit(stage) /\ trial'.charged = FALSE
        /\ stopReason = None
    BY <1>1 DEF StartStage, NextStage, NoTrial
  <2> QED
    BY <1>1, <2>2, <2>3 DEF StartStage
<1>2. ASSUME NEW output \in Candidates, NEW used \in 0..trial.limit,
            NEW accepted \in BOOLEAN, StageReturns(output, used, accepted)
     PROVE  TrialInvariant'
  <2>1. trial \in Trials
    BY DEF TypeOK
  <2>2. trial'.limit = trial.limit /\ trial'.charged = TRUE
    BY <1>2, <2>1 DEF StageReturns, Trials
  <2> QED
    BY <1>2, <1>t, <2>2 DEF StageReturns
<1>3. CASE \/ (\E r, f, d, s : StartRun(r, f, d, s)) \/ PrepareNothing
           \/ ClaimDirectory \/ ResetDirectory \/ BeginRun \/ RejectDirectory
           \/ ResumeRun \/ ReturnSaved \/ ContinueSaved
  BY <1>3, <1>t
  DEF StartRun, NoTrial, PrepareNothing, ClaimDirectory, Store!Claim,
      ResetDirectory, Store!Release, BeginRun, NewState, Store!Begin,
      RejectDirectory, ResumeRun, ResumedStage, ReturnSaved, ContinueSaved
<1>4. CASE \/ StopOnBudget \/ LeaveLoop \/ RejectSeed \/ StageRaises
           \/ AnnounceStage \/ FailStage \/ RecordStage
  BY <1>4, <1>t
  DEF StopOnBudget, LeaveLoop, RejectSeed, NextStage, StageRaises,
      AnnounceStage, FailStage, RecordStage
<1>5. CASE \/ PassUnrecorded \/ SaveStage
  BY <1>5, <1>t
  DEF PassUnrecorded, NextTrial, NoTrial, SaveStage, Snapshot,
      Store!SaveState
<1>6. CASE \/ StoreRaises \/ FinishRaises \/ Finish \/ CommitResult
           \/ CloseRun \/ AnnounceRun \/ EndRaising \/ Cancel \/ Crash
           \/ UNCHANGED vars
  BY <1>6, <1>t
  DEF StoreRaises, FinishRaises, Finish, CommitResult, Result,
      Store!SaveResult, CloseRun, Snapshot, Store!SaveState, AnnounceRun,
      EndRaising, Cancel, Crash, NoTrial, vars
<1> QED
  BY <1>1, <1>2, <1>3, <1>4, <1>5, <1>6
  DEF Next, Prepare, StageSteps, Ending

\* The process runs exactly one stage ahead of its checkpoint.
LEMMA LedgerStep ==
  ASSUME TypeOK, Inv, Standing, [Next]_vars
  PROVE  LedgerInvariant'
<1> USE DEF memory, storeVars, history, Tell, ThenGoTo, InLoop, InStage,
            Preparing, Finishing, LedgerInvariant, Spent
<1>t. TrialInvariant /\ LedgerInvariant BY DEF Standing
<1>c. /\ calls \in Nat /\ stage \in Nat /\ results \in Seq(StageResult)
      /\ trial.limit \in Nat /\ trial.used \in Nat /\ trial.charged \in BOOLEAN
  BY DEF TypeOK, Trials
<1>b. plan.budget \in Nat \/ plan.budget = Unlimited
  BY PlanAssumption DEF TypeOK, Plans
<1>e. savedState # None => savedState.calls \in Nat
  BY DEF TypeOK, RunState
<1>1. CASE PrepareNothing
  <2>1. results = <<>> /\ stage = 1 /\ Len(<<>>) = 0
    BY <1>1 DEF PrepareNothing, Inv, PlanInvariant
  <2> QED
    BY <1>1, <1>t, <2>1 DEF PrepareNothing, TrialInvariant
<1>2. CASE BeginRun
  <2>1. /\ results = <<>> /\ stage = 1 /\ calls = 0 /\ Len(<<>>) = 0
        /\ ~trial.charged
    BY <1>2, <1>t DEF BeginRun, Inv, PlanInvariant, TrialInvariant
  <2>2. /\ savedState' # None
        /\ savedState'.stages = <<>> /\ savedState'.calls = 0
        /\ savedState'.next = 0
    BY <1>2, NewStateType, NoneAssumption DEF BeginRun, Store!Begin, NewState
  <2>3. /\ pc' \in {"looping", "raising"}
        /\ UNCHANGED <<plan, results, calls, stage, trial>>
    BY <1>2 DEF BeginRun
  <2> QED
    BY <2>1, <2>2, <2>3
<1>3. CASE ContinueSaved
  <2>1. plan.durable /\ Synced /\ savedState.status = "running"
    BY <1>3 DEF ContinueSaved, Inv, PlanInvariant, CompletedHasResult,
                 Synced, TypeOK, RunState
  <2>2. savedState.next \in Nat /\ ~trial.charged
    BY <1>3, <1>t, <2>1 DEF ContinueSaved, TypeOK, RunState, Synced,
                             TrialInvariant
  <2> QED
    BY <1>3, <1>t, <1>c, <2>1, <2>2 DEF ContinueSaved, Synced
<1>4. CASE StartStage
  <2>1. stage \in Stages
    BY <1>4 DEF StartStage, NextStage, TypeOK, Stages
  <2>2. trial'.limit = StageLimit(stage) /\ trial'.charged = FALSE
    BY <1>4 DEF StartStage, NoTrial
  <2>3. plan.budget # Unlimited => calls + StageLimit(stage) <= plan.budget
    BY <1>4, <2>1, StageLimitFits DEF StartStage, NextStage
  <2>4. ~trial.charged
    BY <1>4, <1>t DEF StartStage, NextStage, TrialInvariant
  <2>5. plan.durable => calls = savedState.calls
    BY <1>4, <1>t, <1>c, <1>e, <2>4 DEF StartStage, NextStage
  <2> QED
    BY <1>4, <1>t, <1>c, <2>2, <2>3, <2>4, <2>5 DEF StartStage, NextStage
<1>5. ASSUME NEW output \in Candidates, NEW used \in 0..trial.limit,
            NEW accepted \in BOOLEAN, StageReturns(output, used, accepted)
     PROVE  LedgerInvariant'
  <2>1. ~trial.charged
    BY <1>5 DEF StageReturns, Inv, PlanInvariant
  <2>2. /\ calls' = calls + used /\ trial'.used = used
        /\ trial'.charged = TRUE /\ trial'.limit = trial.limit
        /\ pc = "running" /\ pc' = "accounted"
        /\ UNCHANGED <<plan, stage, results, savedState>>
    BY <1>5, <1>c DEF StageReturns, TypeOK, Trials
  <2> QED
    BY <1>t, <1>c, <1>e, <2>1, <2>2
<1>6. CASE FailStage
  <2>1. /\ Failed.used = trial.limit /\ Failed.limit = trial.limit
        /\ Failed.late = Spent
    BY DEF Failed
  <2>2. /\ UNCHANGED <<plan, stage, trial, savedState>>
        /\ calls' = calls + trial.limit
        /\ \/ results' = Append(results, Failed) /\ pc' = "recorded"
           \/ UNCHANGED results /\ pc' = "raising"
    BY <1>6 DEF FailStage
  <2>3. Failed' = Failed
    BY <2>2 DEF Failed
  <2>4. pc' = "recorded" => Len(results') = Len(results) + 1
    BY <1>c, <2>2, AppendProperties
  <2>5. pc = "failing" /\ Len(results) = stage - 1
    BY <1>6, <1>t DEF FailStage
  <2>6. plan.durable => savedState.calls \in Nat
    BY <1>t, <1>e, <2>5
  <2>7. plan.durable => calls' = savedState.calls + Failed.late + Failed.used
    BY <1>t, <1>c, <2>1, <2>2, <2>5, <2>6
  <2> HIDE DEF Spent
  <2> QED
    BY <1>t, <1>c, <2>1, <2>2, <2>3, <2>4, <2>5, <2>7
<1>7. CASE RecordStage
  <2>1. /\ Completed.used = trial.used /\ Completed.limit = trial.limit
        /\ Completed.late = 0
    BY DEF Completed
  <2>2. /\ UNCHANGED <<plan, stage, trial, savedState, calls>>
        /\ results' = Append(results, Completed)
        /\ pc = "recording" /\ pc' = "recorded"
    BY <1>7 DEF RecordStage
  <2>3. Completed' = Completed
    BY <2>2 DEF Completed
  <2>4. Len(results') = Len(results) + 1
    BY <1>c, <2>2, AppendProperties
  <2>5. trial.charged /\ trial.used <= trial.limit
    BY <1>t, <2>2 DEF TrialInvariant, Inv, PlanInvariant
  <2>6. plan.durable => savedState.calls \in Nat
    BY <1>t, <1>e, <2>2
  <2>7. plan.durable =>
          calls' = savedState.calls + Completed.late + Completed.used
    BY <1>t, <1>c, <2>1, <2>2, <2>5, <2>6
  <2> QED
    BY <1>t, <1>c, <2>1, <2>2, <2>3, <2>4, <2>5, <2>7
<1>8. CASE PassUnrecorded
  BY <1>8, <1>t, <1>c DEF PassUnrecorded, NextTrial
<1>9. CASE SaveStage
  <2>1. /\ savedState'.stages = results /\ savedState'.calls = calls
        /\ savedState'.next = stage /\ savedState'.status = "running"
        /\ stage' = stage + 1 /\ trial'.charged = FALSE
        /\ pc = "recorded" /\ pc' \in {"looping", "raising"}
        /\ UNCHANGED <<plan, results, calls>>
    BY <1>9 DEF SaveStage, NextTrial, NoTrial, Snapshot, Store!SaveState
  <2>2. stage \in 0..NumStages
    BY <1>9 DEF SaveStage, TypeOK, Stages
  <2>3. savedState' # None
    BY <1>9, <2>2, SnapshotType, NoneAssumption DEF SaveStage, Store!SaveState
  <2> QED
    BY <1>t, <1>c, <2>1, <2>3
<1>10. CASE UNCHANGED vars
  <2>1. Completed' = Completed /\ Failed' = Failed
    BY <1>10 DEF vars, Completed, Failed
  <2> QED
    BY <1>10, <1>t, <2>1 DEF vars
<1>11. CASE \/ (\E r, f, d, s : StartRun(r, f, d, s)) \/ ClaimDirectory
            \/ ResetDirectory \/ RejectDirectory \/ ResumeRun \/ ReturnSaved
  BY <1>11, <1>t
  DEF StartRun, NoTrial, ClaimDirectory, Store!Claim, ResetDirectory,
      Store!Release, RejectDirectory, ResumeRun, ResumedStage, ReturnSaved
<1>12. CASE \/ StopOnBudget \/ LeaveLoop \/ RejectSeed \/ StageRaises
            \/ AnnounceStage
  BY <1>12, <1>t
  DEF StopOnBudget, LeaveLoop, RejectSeed, NextStage, StageRaises,
      AnnounceStage
<1>13. CASE \/ StoreRaises \/ FinishRaises \/ Finish \/ CommitResult
            \/ CloseRun \/ AnnounceRun \/ EndRaising \/ Cancel \/ Crash
  BY <1>13, <1>t
  DEF StoreRaises, FinishRaises, Finish, CommitResult, Result,
      Store!SaveResult, CloseRun, Snapshot, Store!SaveState, AnnounceRun,
      EndRaising, Cancel, Crash, NoTrial
<1> QED
  BY <1>1, <1>2, <1>3, <1>4, <1>5, <1>6, <1>7, <1>8, <1>9, <1>10, <1>11,
     <1>12, <1>13
  DEF Next, Prepare, StageSteps, Ending

\* _merge_candidate keeps what a stage does not target, and a rejected
\* candidate is not carried.
LEMMA CarryStep ==
  ASSUME TypeOK, Inv, Standing, [Next]_vars
  PROVE  CarryInvariant'
<1> USE DEF memory, storeVars, history, Tell, ThenGoTo, InLoop, InStage,
            Preparing, Finishing, CarryInvariant,
            Base, Pending
<1>t. TrialInvariant /\ CarryInvariant /\ FrozenRespected BY DEF Standing
<1>r. results \in Seq(StageResult)
  BY DEF TypeOK
<1>1. CASE PrepareNothing
  BY <1>1 DEF PrepareNothing, Inv, PlanInvariant
<1>2. CASE BeginRun
  <2>1. /\ pc \in Preparing /\ origin' = initial
        /\ UNCHANGED <<plan, initial, current>>
        /\ pc' \in {"looping", "raising"}
    BY <1>2 DEF BeginRun
  <2>2. current = initial
    BY <2>1 DEF Inv, PlanInvariant
  <2> QED
    BY <2>1, <2>2
<1>3. CASE ResumeRun
  <2>1. savedState # None /\ plan.durable
        /\ current' = savedState.candidate /\ results' = savedState.stages
        /\ pc' \in {"resumed", "raising"} /\ UNCHANGED <<plan, origin>>
    BY <1>3 DEF ResumeRun
  <2> QED
    BY <1>t, <2>1 DEF FrozenRespected
<1>4. CASE StartStage
  <2>1. stage \in Stages /\ trial'.input = SeededInput(stage)
    BY <1>4 DEF StartStage, NextStage, TypeOK, Stages, NoTrial
  <2>2. \A c \in Components \ Targets[stage] :
          SeededInput(stage)[c] = current[c]
    BY DEF SeededInput
  <2>3. /\ pc = "looping" /\ pc' \in {"running", "raising"}
        /\ UNCHANGED <<plan, origin, initial, current, results, stage>>
    BY <1>4 DEF StartStage, NextStage
  <2> QED
    BY <1>t, <2>1, <2>2, <2>3
<1>5. ASSUME NEW output \in Candidates, NEW used \in 0..trial.limit,
            NEW accepted \in BOOLEAN, StageReturns(output, used, accepted)
     PROVE  CarryInvariant'
  <2> DEFINE m == Merged(stage, trial.input, output)
  <2>1. trial \in Trials
    BY DEF TypeOK
  <2>2. /\ pc = "running" /\ pc' = "accounted"
        /\ current' = Carried(m, accepted)
        /\ trial'.accepted = accepted /\ trial'.charged = TRUE
        /\ UNCHANGED <<plan, origin, initial, results, stage>>
    BY <1>5, <2>1 DEF StageReturns, Trials
  <2>3. \A c \in Components \ Targets[stage] : m[c] = trial.input[c]
    BY DEF Merged
  <2> HIDE DEF m
  <2>4. plan.carry = "accepted" =>
          current' = IF accepted THEN m ELSE current
    BY <2>2 DEF Carried
  <2> QED
    BY <1>t, <2>2, <2>3, <2>4
<1>6. CASE FailStage
  <2>1. stage \in Stages
    BY <1>6 DEF FailStage, TypeOK
  <2>2. /\ Failed \in StageResult /\ Failed.stage = stage
        /\ Failed.carried = (trial.charged /\ trial.accepted)
    BY <2>1, RecordsType DEF Failed
  <2>3. \A c : ChangedBy(Append(results, Failed), c)
               <=> \/ ChangedBy(results, c)
                   \/ Failed.carried /\ c \in Targets[stage]
    BY <1>r, <2>2, ChangedByAppend
  <2>4. /\ pc = "failing" /\ pc' \in {"recorded", "raising"}
        /\ pc' = "recorded" => results' = Append(results, Failed)
        /\ UNCHANGED <<plan, origin, initial, current>>
    BY <1>6 DEF FailStage
  <2> QED
    BY <1>t, <2>2, <2>3, <2>4
<1>7. CASE RecordStage
  <2>1. stage \in Stages
    BY <1>7 DEF RecordStage, TypeOK
  <2>2. /\ Completed \in StageResult /\ Completed.stage = stage
        /\ Completed.carried = trial.accepted
    BY <2>1, RecordsType DEF Completed
  <2>3. \A c : ChangedBy(Append(results, Completed), c)
               <=> \/ ChangedBy(results, c)
                   \/ Completed.carried /\ c \in Targets[stage]
    BY <1>r, <2>2, ChangedByAppend
  <2>4. /\ pc = "recording" /\ pc' = "recorded"
        /\ results' = Append(results, Completed)
        /\ UNCHANGED <<plan, origin, initial, current>>
    BY <1>7 DEF RecordStage
  <2> QED
    BY <1>t, <2>2, <2>3, <2>4
<1>8. CASE StageRaises
  BY <1>8, <1>t DEF StageRaises, TrialInvariant
<1>9. CASE AnnounceStage
  BY <1>9, <1>t DEF AnnounceStage
<1>10. CASE \/ (\E r, f, d, s : StartRun(r, f, d, s)) \/ ClaimDirectory
            \/ ResetDirectory \/ RejectDirectory \/ ReturnSaved
            \/ ContinueSaved
  BY <1>10, <1>t
  DEF StartRun, NoTrial, ClaimDirectory, Store!Claim, ResetDirectory,
      Store!Release, RejectDirectory, ReturnSaved, ContinueSaved
<1>11. CASE \/ StopOnBudget \/ LeaveLoop \/ RejectSeed
  BY <1>11, <1>t
  DEF StopOnBudget, LeaveLoop, RejectSeed, NextStage
<1>12. CASE \/ PassUnrecorded \/ SaveStage
  BY <1>12, <1>t
  DEF PassUnrecorded, NextTrial, NoTrial, SaveStage, Snapshot,
      Store!SaveState
<1>13. CASE \/ StoreRaises \/ FinishRaises \/ Finish \/ CommitResult
            \/ CloseRun \/ AnnounceRun \/ EndRaising \/ Cancel \/ Crash
            \/ UNCHANGED vars
  BY <1>13, <1>t
  DEF StoreRaises, FinishRaises, Finish, CommitResult, Result,
      Store!SaveResult, CloseRun, Snapshot, Store!SaveState, AnnounceRun,
      EndRaising, Cancel, Crash, NoTrial, vars
<1> QED
  BY <1>1, <1>2, <1>3, <1>4, <1>5, <1>6, <1>7, <1>8, <1>9, <1>10, <1>11,
     <1>12, <1>13
  DEF Next, Prepare, StageSteps, Ending

\* The candidate of a checkpoint is the one carried forward.
LEMMA FrozenStep ==
  ASSUME TypeOK, Inv, Standing, CarryInvariant', [Next]_vars
  PROVE  FrozenRespected'
<1> USE DEF memory, storeVars, history, Tell, ThenGoTo, InLoop, InStage,
            Preparing, Finishing, FrozenRespected
<1>t. CarryInvariant /\ FrozenRespected BY DEF Standing
<1>l. ~plan'.durable /\ pc' = "looping" /\ plan'.carry = "accepted" =>
        \A c \in Components :
          current'[c] # initial'[c] => ChangedBy(results, c)'
  BY DEF CarryInvariant, Base, Pending
<1>1. CASE BeginRun
  <2>1. /\ savedState'.candidate = initial /\ origin' = initial
    BY <1>1 DEF BeginRun, NewState, Store!Begin
  <2> QED
    BY <1>l, <2>1
<1>2. CASE SaveStage
  <2>1. /\ savedState'.candidate = current /\ savedState'.stages = results
        /\ pc = "recorded" /\ plan.durable /\ UNCHANGED <<plan, origin>>
    BY <1>2 DEF SaveStage, Snapshot, Store!SaveState
  <2> QED
    BY <1>t, <1>l, <2>1 DEF CarryInvariant, Base, Pending
<1>3. CASE CloseRun
  <2>1. /\ savedState'.candidate = current /\ savedState'.stages = results
        /\ pc = "closing" /\ UNCHANGED <<plan, origin>>
    BY <1>3 DEF CloseRun, Snapshot, Store!SaveState
  <2>2. plan.durable
    BY <2>1 DEF Inv, PlanInvariant
  <2> QED
    BY <1>t, <1>l, <2>1, <2>2 DEF CarryInvariant, Base, Pending
<1>4. CASE \/ (\E r, f, d, s : StartRun(r, f, d, s)) \/ PrepareNothing
           \/ ClaimDirectory \/ ResetDirectory \/ RejectDirectory
           \/ ResumeRun \/ ReturnSaved \/ ContinueSaved
  BY <1>4, <1>t, <1>l
  DEF StartRun, NoTrial, PrepareNothing, ClaimDirectory, Store!Claim,
      ResetDirectory, Store!Release, RejectDirectory, ResumeRun,
      ResumedStage, ReturnSaved, ContinueSaved
<1>5. CASE \/ StopOnBudget \/ LeaveLoop \/ RejectSeed \/ StartStage
           \/ (\E o, u, a : StageReturns(o, u, a)) \/ StageRaises
           \/ AnnounceStage \/ FailStage \/ RecordStage
  BY <1>5, <1>t, <1>l
  DEF StopOnBudget, LeaveLoop, RejectSeed, NextStage, StartStage,
      StageReturns, StageRaises, AnnounceStage, FailStage, RecordStage
<1>6. CASE PassUnrecorded
  BY <1>6, <1>t, <1>l
  DEF PassUnrecorded, NextTrial, NoTrial
<1>7. CASE \/ StoreRaises \/ FinishRaises \/ Finish \/ CommitResult
           \/ AnnounceRun \/ EndRaising \/ Cancel \/ Crash \/ UNCHANGED vars
  BY <1>7, <1>t, <1>l
  DEF StoreRaises, FinishRaises, Finish, CommitResult, Result,
      Store!SaveResult, AnnounceRun, EndRaising, Cancel, Crash, NoTrial, vars
<1> QED
  BY <1>1, <1>2, <1>3, <1>4, <1>5, <1>6, <1>7
  DEF Next, Prepare, StageSteps, Ending

\* The end of the run is announced last, and once the run is closed.
LEMMA EventStep ==
  ASSUME TypeOK, Inv, Standing, [Next]_vars
  PROVE  EventInvariant'
<1> USE DEF memory, storeVars, history, Tell, ThenGoTo, InLoop, InStage,
            Preparing, Finishing, EventInvariant
<1>t. EventInvariant BY DEF Standing
<1>1. CASE CloseRun
  <2>1. savedState' # None
    BY <1>1, SnapshotType, NoneAssumption, PlanAssumption
       DEF CloseRun, Store!SaveState
  <2>2. savedState'.status = "completed"
    BY <1>1 DEF CloseRun, Store!SaveState, Snapshot
  <2> QED
    BY <1>1, <1>t, <2>1, <2>2 DEF CloseRun
<1>2. CASE \/ (\E r, f, d, s : StartRun(r, f, d, s)) \/ PrepareNothing
           \/ ClaimDirectory \/ ResetDirectory \/ BeginRun \/ RejectDirectory
           \/ ResumeRun \/ ReturnSaved \/ ContinueSaved
  BY <1>2, <1>t
  DEF StartRun, NoTrial, PrepareNothing, ClaimDirectory, Store!Claim,
      ResetDirectory, Store!Release, BeginRun, NewState, Store!Begin,
      RejectDirectory, ResumeRun, ResumedStage, ReturnSaved, ContinueSaved
<1>3. CASE \/ StopOnBudget \/ LeaveLoop \/ RejectSeed \/ StartStage
           \/ (\E o, u, a : StageReturns(o, u, a)) \/ StageRaises
           \/ AnnounceStage \/ FailStage \/ RecordStage
  BY <1>3, <1>t
  DEF StopOnBudget, LeaveLoop, RejectSeed, NextStage, StartStage,
      StageReturns, StageRaises, AnnounceStage, FailStage, RecordStage
<1>4. CASE \/ PassUnrecorded \/ SaveStage
  BY <1>4, <1>t
  DEF PassUnrecorded, NextTrial, NoTrial, SaveStage, Snapshot,
      Store!SaveState
<1>5. CASE \/ StoreRaises \/ FinishRaises \/ Finish \/ CommitResult
           \/ AnnounceRun \/ EndRaising \/ Cancel \/ Crash \/ UNCHANGED vars
  BY <1>5, <1>t
  DEF StoreRaises, FinishRaises, Finish, CommitResult, Result,
      Store!SaveResult, AnnounceRun, EndRaising, Cancel, Crash, NoTrial, vars
<1> QED
  BY <1>1, <1>2, <1>3, <1>4, <1>5
  DEF Next, Prepare, StageSteps, Ending

\* A later checkpoint is never behind an earlier one.
LEMMA AnnouncedStep ==
  ASSUME TypeOK, Inv, Standing, [Next]_vars
  PROVE  AnnouncedIsDurable'
<1> USE DEF memory, storeVars, history, Tell, ThenGoTo, InLoop, InStage,
            Preparing, Finishing, AnnouncedIsDurable
<1>t. LedgerInvariant /\ EventInvariant /\ AnnouncedIsDurable BY DEF Standing
<1>1. CASE ResetDirectory
  BY <1>1, <1>t DEF ResetDirectory, EventInvariant
<1>2. CASE BeginRun
  <2>1. events \subseteq {<<"run.started", 0>>}
    BY <1>2, <1>t DEF BeginRun, EventInvariant
  <2> QED
    BY <1>2, <2>1 DEF BeginRun
<1>3. CASE ReturnSaved
  <2>1. savedState # None
    BY <1>3 DEF ReturnSaved, Inv, PlanInvariant, Synced
  <2> QED
    BY <1>3, <1>t, <2>1 DEF ReturnSaved
<1>4. CASE SaveStage
  <2>1. stage \in 1..NumStages /\ stage \in 0..NumStages
    BY <1>4 DEF SaveStage, TypeOK, Stages
  <2>2. /\ savedState' # None /\ savedState'.next = stage
    BY <1>4, <2>1, SnapshotType, NoneAssumption
       DEF SaveStage, Store!SaveState, Snapshot
  <2>3. savedState.next = stage - 1
    BY <1>4, <1>t DEF SaveStage, LedgerInvariant
  <2>4. events' \subseteq events \cup {<<"checkpoint.written", stage>>}
        /\ <<"run.completed", 0>> \notin events
    BY <1>4, <1>t DEF SaveStage, EventInvariant
  <2>5. <<"run.completed", 0>> \notin events'
    BY <2>4
  <2>6. ASSUME NEW k \in 1..NumStages, <<"checkpoint.written", k>> \in events'
        PROVE  savedState'.next >= k
    <3>1. CASE k = stage
      BY <2>1, <2>2, <3>1
    <3>2. CASE <<"checkpoint.written", k>> \in events
      BY <1>t, <2>1, <2>2, <2>3, <3>2
    <3> QED
      BY <2>4, <2>6, <3>1, <3>2
  <2> QED
    BY <2>2, <2>5, <2>6
<1>5. CASE CloseRun
  <2>1. NumStages \in 0..NumStages
    BY PlanAssumption
  <2>2. /\ savedState' # None /\ savedState'.next = NumStages
        /\ savedState'.status = "completed"
    BY <1>5, <2>1, SnapshotType, NoneAssumption
       DEF CloseRun, Store!SaveState, Snapshot
  <2> QED
    BY <2>2, PlanAssumption
<1>6. CASE AnnounceRun
  BY <1>6, <1>t DEF AnnounceRun, EventInvariant
<1>7. CASE \/ (\E r, f, d, s : StartRun(r, f, d, s)) \/ PrepareNothing
           \/ ClaimDirectory \/ RejectDirectory \/ ResumeRun \/ ContinueSaved
  BY <1>7, <1>t
  DEF StartRun, NoTrial, PrepareNothing, ClaimDirectory, Store!Claim,
      RejectDirectory, ResumeRun, ResumedStage, ContinueSaved
<1>8. CASE \/ StopOnBudget \/ LeaveLoop \/ RejectSeed \/ StartStage
           \/ (\E o, u, a : StageReturns(o, u, a)) \/ StageRaises
           \/ AnnounceStage \/ FailStage \/ RecordStage
  BY <1>8, <1>t
  DEF StopOnBudget, LeaveLoop, RejectSeed, NextStage, StartStage,
      StageReturns, StageRaises, AnnounceStage, FailStage, RecordStage
<1>9. CASE PassUnrecorded
  BY <1>9, <1>t
  DEF PassUnrecorded, NextTrial, NoTrial
<1>10. CASE \/ StoreRaises \/ FinishRaises \/ Finish \/ CommitResult
            \/ EndRaising \/ Cancel \/ Crash \/ UNCHANGED vars
  BY <1>10, <1>t
  DEF StoreRaises, FinishRaises, Finish, CommitResult, Result,
      Store!SaveResult, EndRaising, Cancel, Crash, NoTrial, vars
<1> QED
  BY <1>1, <1>2, <1>3, <1>4, <1>5, <1>6, <1>7, <1>8, <1>9, <1>10
  DEF Next, Prepare, StageSteps, Ending

\* A failure recorded in this process leaves a stop reason behind it.
LEMMA StopStep ==
  ASSUME TypeOK, Inv, Standing, [Next]_vars
  PROVE  StopInvariant'
<1> USE DEF memory, storeVars, history, Tell, ThenGoTo, InLoop, InStage,
            Preparing, Finishing, StopInvariant
<1>t. TrialInvariant /\ LedgerInvariant /\ StopInvariant BY DEF Standing
<1>c. stage \in Nat /\ results \in Seq(StageResult)
  BY DEF TypeOK
<1>1. CASE PrepareNothing
  <2>1. results = <<>> /\ 1..Len(<<>>) = {}
    BY <1>1 DEF PrepareNothing, Inv, PlanInvariant
  <2> QED
    BY <1>1, <1>t, <2>1 DEF PrepareNothing, FailureAt
<1>2. CASE BeginRun
  <2>1. results = <<>> /\ 1..Len(<<>>) = {}
    BY <1>2 DEF BeginRun, Inv, PlanInvariant
  <2>2. savedState'.stages = <<>> /\ UNCHANGED results
        /\ pc' \in {"looping", "raising"}
    BY <1>2 DEF BeginRun, NewState, Store!Begin
  <2> QED
    BY <2>1, <2>2 DEF FailureAt
<1>3. CASE ResumeRun
  BY <1>3, <1>t DEF ResumeRun
<1>4. CASE ContinueSaved
  <2>1. plan.durable /\ Synced /\ savedState.status = "running"
    BY <1>4 DEF ContinueSaved, Inv, PlanInvariant, CompletedHasResult,
                 Synced, TypeOK, RunState
  <2> QED
    BY <1>4, <1>t, <2>1 DEF ContinueSaved, Synced
<1>5. CASE FailStage
  <2>1. /\ Len(Append(results, Failed)) = Len(results) + 1
        /\ Len(results) \in Nat
    BY <1>c, AppendProperties, LenProperties
  <2>2. \A k \in 1..Len(results) : Append(results, Failed)[k] = results[k]
    BY <1>c, AppendProperties
  <2>3. ASSUME NEW k \in Nat, FailureAt(Append(results, Failed), k)
        PROVE  FailureAt(results, k) \/ k = Len(results) + 1
    BY <2>1, <2>2, <2>3 DEF FailureAt
  <2>4. \A k \in Nat : ~(FailureAt(results, k) /\ k = Len(results) + 1)
    BY <2>1 DEF FailureAt
  <2>5. plan.stop = "on_failure" => stopReason' # None
    BY <1>5, NoneAssumption DEF FailStage
  <2>6. /\ pc = "failing" /\ stopReason = None
        /\ pc' = "recorded" => results' = Append(results, Failed)
        /\ pc' \in {"recorded", "raising"}
        /\ UNCHANGED <<plan, savedState, resumedAt>>
    BY <1>5, <1>t DEF FailStage, TrialInvariant
  <2> QED
    BY <1>t, <2>1, <2>3, <2>5, <2>6
<1>6. CASE RecordStage
  <2>1. /\ Len(Append(results, Completed)) = Len(results) + 1
        /\ Len(results) \in Nat
    BY <1>c, AppendProperties, LenProperties
  <2>2. /\ \A k \in 1..Len(results) : Append(results, Completed)[k] = results[k]
        /\ Append(results, Completed)[Len(results) + 1].status = "completed"
    BY <1>c, AppendProperties DEF Completed
  <2>3. ASSUME NEW k \in Nat, FailureAt(Append(results, Completed), k)
        PROVE  FailureAt(results, k)
    BY <2>1, <2>2, <2>3 DEF FailureAt
  <2>4. /\ pc = "recording" /\ stopReason = None
        /\ results' = Append(results, Completed)
        /\ UNCHANGED <<plan, savedState, resumedAt, stopReason>>
        /\ pc' = "recorded"
    BY <1>6, <1>t DEF RecordStage, TrialInvariant
  <2> QED
    BY <1>t, <2>3, <2>4
<1>7. CASE SaveStage
  <2>1. savedState'.stages = results /\ savedState'.next = stage
        /\ pc = "recorded" /\ pc' \in {"looping", "raising"}
        /\ UNCHANGED <<plan, results, resumedAt, stopReason>>
    BY <1>7 DEF SaveStage, Snapshot, Store!SaveState
  <2>2. Len(results) = stage
    BY <1>t, <2>1 DEF LedgerInvariant
  <2> QED
    BY <1>t, <2>1, <2>2
<1>8. CASE \/ (\E r, f, d, s : StartRun(r, f, d, s)) \/ ClaimDirectory
           \/ ResetDirectory \/ RejectDirectory \/ ReturnSaved
  BY <1>8, <1>t
  DEF StartRun, NoTrial, ClaimDirectory, Store!Claim, ResetDirectory,
      Store!Release, RejectDirectory, ReturnSaved
<1>9. CASE \/ StopOnBudget \/ LeaveLoop \/ RejectSeed \/ StartStage
           \/ (\E o, u, a : StageReturns(o, u, a)) \/ StageRaises
           \/ AnnounceStage
  BY <1>9, <1>t
  DEF StopOnBudget, LeaveLoop, RejectSeed, NextStage, StartStage,
      StageReturns, StageRaises, AnnounceStage
<1>10. CASE PassUnrecorded
  BY <1>10, <1>t
  DEF PassUnrecorded, NextTrial, NoTrial
<1>11. CASE \/ StoreRaises \/ FinishRaises \/ Finish \/ CommitResult
            \/ CloseRun \/ AnnounceRun \/ EndRaising \/ Cancel \/ Crash
            \/ UNCHANGED vars
  BY <1>11, <1>t
  DEF StoreRaises, FinishRaises, Finish, CommitResult, Result,
      Store!SaveResult, CloseRun, Snapshot, Store!SaveState, AnnounceRun,
      EndRaising, Cancel, Crash, NoTrial, vars
<1> QED
  BY <1>1, <1>2, <1>3, <1>4, <1>5, <1>6, <1>7, <1>8, <1>9, <1>10, <1>11
  DEF Next, Prepare, StageSteps, Ending


LEMMA StandingInit == Init => Standing
<1> SUFFICES ASSUME Init PROVE Standing
  OBVIOUS
<1> USE DEF Init, Store!StoreInit, InLoop, InStage, Preparing, Finishing
<1>1. TrialInvariant
  BY DEF TrialInvariant, NoTrial
<1>2. LedgerInvariant
  BY DEF LedgerInvariant
<1>3. CarryInvariant /\ FrozenRespected
  BY DEF CarryInvariant, FrozenRespected
<1>4. EventInvariant /\ AnnouncedIsDurable
  BY DEF EventInvariant, AnnouncedIsDurable
<1>5. StopInvariant
  BY DEF StopInvariant
<1> QED
  BY <1>1, <1>2, <1>3, <1>4, <1>5 DEF Standing

LEMMA StandingStep == TypeOK /\ Inv /\ Standing /\ [Next]_vars => Standing'
<1> SUFFICES ASSUME TypeOK, Inv, Standing, [Next]_vars PROVE Standing'
  OBVIOUS
<1>1. CarryInvariant'
  BY CarryStep
<1> QED
  BY <1>1, TrialStep, LedgerStep, FrozenStep, EventStep, AnnouncedStep, StopStep
  DEF Standing

LEMMA StandingCorrect == Spec => [](TypeOK /\ Inv /\ Standing)
<1>1. Init => Standing BY StandingInit
<1>2. TypeOK /\ Inv /\ Standing /\ [Next]_vars => Standing' BY StandingStep
<1> QED BY <1>1, <1>2, InvCorrect, PTL DEF Spec

\* What holds of every stage under way, of the ledger, of the candidate
\* carried forward, of the events and of recorded failures.
THEOREM StandingHolds == Spec => []Standing
BY StandingCorrect, PTL

\* _merge_candidate and the carry-forward policy: no component of a saved
\* candidate, nor of the candidate the next stage starts from, was changed by
\* anything but the accepted work of a recorded stage that targets it.
THEOREM FrozenCorrect == Spec => []FrozenRespected
<1>1. Standing => FrozenRespected BY DEF Standing
<1> QED BY <1>1, StandingCorrect, PTL

\* CheckpointWritten and RunCompleted tell observers nothing a crash could
\* still take back.
THEOREM AnnouncedCorrect == Spec => []AnnouncedIsDurable
<1>1. Standing => AnnouncedIsDurable BY DEF Standing
<1> QED BY <1>1, StandingCorrect, PTL

\* on_failure: a stage is started behind a failed one only if that failure
\* was the last thing in a checkpoint the run was resumed from.
THEOREM StopCorrect == Spec => StopsAfterFailure
<1> DEFINE Stops == (plan.stop = "on_failure"
                     /\ pc = "looping" /\ pc' = "running") =>
                      \A k \in 1..Len(results) :
                        results[k].status = "failed"
                          => plan.durable /\ k \in resumedAt
<1>1. TypeOK /\ Standing /\ [Next]_vars => Stops
  <2> SUFFICES ASSUME TypeOK, Standing, [Next]_vars, plan.stop = "on_failure",
                      pc = "looping", pc' = "running",
                      NEW k \in 1..Len(results), results[k].status = "failed"
               PROVE  plan.durable /\ k \in resumedAt
    OBVIOUS
  <2>1. StartStage
    BY DEF Next, Prepare, StageSteps, Ending, StartRun, PrepareNothing,
           ClaimDirectory, ResetDirectory, BeginRun, RejectDirectory,
           ResumeRun, ReturnSaved, ContinueSaved, StopOnBudget, LeaveLoop,
           RejectSeed, StageReturns, StageRaises, AnnounceStage, FailStage,
           RecordStage, PassUnrecorded, SaveStage, StoreRaises, FinishRaises,
           Finish, CommitResult, CloseRun, AnnounceRun, EndRaising, Cancel,
           Crash, vars, ThenGoTo
  <2>2. stopReason = None
    BY <2>1 DEF StartStage, NextStage
  <2>3. k \in Nat /\ FailureAt(results, k)
    BY DEF FailureAt
  <2> QED
    BY <2>2, <2>3 DEF Standing, StopInvariant, InLoop
<1>2. Spec => [][Stops]_vars
  BY <1>1, StandingCorrect, PTL DEF Spec
<1> QED
  BY <1>2 DEF StopsAfterFailure

----------------------------------------------------------------------------
(* The plan implements its ledger.                                         *)

\* A checkpoint behind a stage enters that one stage in the ledger, charged
\* within what was left of the budget.
LEMMA SaveStageRecords ==
  ASSUME TypeOK, Inv, Standing, SaveStage
  PROVE  Ledger!RecordStage
<1>1. /\ LedgerInvariant /\ TrialInvariant
      /\ pc = "recorded" /\ plan.durable /\ stage \in Stages
      /\ stage \in 0..NumStages /\ NumStages \in Nat
  BY PlanAssumption DEF Standing, SaveStage, TypeOK, InLoop, Stages
<1>2. /\ savedState # None /\ savedState.next = stage - 1
      /\ trial.limit <= StageBudget[stage]
      /\ (plan.budget # Unlimited /\ ~Overcharged(savedState.stages))
           => savedState.calls + trial.limit <= plan.budget
  BY <1>1 DEF LedgerInvariant, TrialInvariant, InLoop, InStage
<1>3. PICK r \in {Completed, Failed} :
        /\ r.used <= r.limit
        /\ results = Append(savedState.stages, r)
        /\ calls = savedState.calls + r.late + r.used
  BY <1>1 DEF LedgerInvariant, InLoop
<1>4. r.stage = stage /\ r.limit = trial.limit
  BY DEF Completed, Failed
<1>5. savedState.status = "running"
  BY <1>1 DEF Inv, PlanInvariant, InLoop
<1>6. /\ savedState.stages \in Seq(StageResult) /\ savedState.next \in Nat
      /\ Len(savedState.stages) = stage - 1
  BY <1>1, <1>2, <1>5 DEF LedgerInvariant, TypeOK, RunState
<1>7. /\ savedState'.stages = results /\ savedState'.calls = calls
      /\ savedState'.status = "running"
      /\ UNCHANGED <<plan, savedResult>>
  BY DEF SaveStage, Store!SaveState, Snapshot
<1>8. savedState' # None
  BY <1>1, SnapshotType, NoneAssumption DEF SaveStage, Store!SaveState
<1>9. r \in StageResult
  BY <1>1, RecordsType
<1> DEFINE n == Len(savedState.stages)
<1>10. /\ Len(results) = n + 1 /\ results[n + 1] = r /\ n \in Nat
  BY <1>3, <1>6, <1>9, AppendProperties, LenProperties
<1>11. n < NumStages /\ stage = n + 1
  BY <1>1, <1>6 DEF Stages
<1>12. r \in {savedState'.stages[n + 1]}
  BY <1>7, <1>10
<1>13. /\ savedState'.stages = Append(savedState.stages, r)
       /\ r.stage = n + 1 /\ r.used <= r.limit
       /\ r.limit <= StageBudget[r.stage]
       /\ plan.budget # Unlimited /\ ~Ledger!Overcharged(savedState.stages)
            => savedState.calls + r.limit <= plan.budget
       /\ savedState'.calls = savedState.calls + r.late + r.used
  BY <1>2, <1>3, <1>4, <1>7, <1>11 DEF Overcharged, Ledger!Overcharged
<1> QED
  BY <1>2, <1>5, <1>7, <1>8, <1>10, <1>11, <1>12, <1>13
  DEF Ledger!RecordStage

\* Every other step opens, publishes, closes or wipes the ledger, or leaves
\* it alone.
LEMMA StepSimulates ==
  TypeOK /\ Inv /\ Standing /\ [Next]_vars
    => [Ledger!LedgerNext]_(Ledger!ledgerVars)
<1> SUFFICES ASSUME TypeOK, Inv, Standing, [Next]_vars
             PROVE  [Ledger!LedgerNext]_(Ledger!ledgerVars)
  OBVIOUS
<1>0. ASSUME UNCHANGED <<plan, savedState, savedResult>>
      PROVE  UNCHANGED Ledger!ledgerVars
  BY <1>0 DEF Ledger!ledgerVars
<1> USE DEF memory, storeVars, history
<1>1. CASE ResetDirectory
  BY <1>1 DEF ResetDirectory, Store!Release, Ledger!LedgerNext, Ledger!Wipe
<1>2. CASE BeginRun
  <2>1. pc # "down"
    BY <1>2 DEF BeginRun
  <2>2. NewState \in RunState /\ NewState # None
    BY <2>1, NewStateType, NoneAssumption
  <2>3. Ledger!Open
    BY <1>2, <2>2 DEF BeginRun, Store!Begin, NewState, Ledger!Open
  <2> QED
    BY <2>3 DEF Ledger!LedgerNext
<1>3. CASE SaveStage
  BY <1>3, SaveStageRecords DEF Ledger!LedgerNext
<1>4. CASE CommitResult
  <2>1. plan.durable /\ Synced /\ savedState.status = "running"
    BY <1>4 DEF CommitResult, Inv, PlanInvariant, MemoryMatchesCheckpoint,
                Finishing
  <2>2. Result # None
    BY ResultType, NoneAssumption
  <2>3. savedResult' = Result /\ UNCHANGED <<plan, savedState>>
    BY <1>4 DEF CommitResult, Store!SaveResult
  <2>4. Ledger!Publish
    BY <2>1, <2>2, <2>3 DEF Ledger!Publish, Result, Synced
  <2> QED
    BY <2>4 DEF Ledger!LedgerNext
<1>5. CASE CloseRun
  <2>1. pc = "closing"
    BY <1>5 DEF CloseRun
  <2>2. plan.durable
    BY <2>1 DEF Inv, PlanInvariant
  <2>3. Synced /\ savedState.status = "running"
    BY <2>1, <2>2 DEF Inv, PlanInvariant, MemoryMatchesCheckpoint, Finishing
  <2>4. /\ savedResult # None /\ savedResult.stages = results
        /\ savedResult.calls = calls /\ savedResult.final = current
    BY <2>1 DEF Inv, PlanInvariant
  <2>5. savedState' = Snapshot("completed", NumStages)
        /\ UNCHANGED <<plan, savedResult>>
    BY <1>5 DEF CloseRun, Store!SaveState
  <2>6. savedState' # None
    BY <2>1, <2>5, SnapshotType, NoneAssumption, PlanAssumption
  <2>7. Ledger!Close
    BY <2>3, <2>4, <2>5, <2>6 DEF Ledger!Close, Snapshot, Synced
  <2> QED
    BY <2>7 DEF Ledger!LedgerNext
<1>6. ASSUME NEW resume, NEW fresh, NEW digest, NEW seed,
             StartRun(resume, fresh, digest, seed)
      PROVE  UNCHANGED <<plan, savedState, savedResult>>
  BY <1>6 DEF StartRun
<1>7. CASE PrepareNothing \/ ClaimDirectory \/ RejectDirectory \/ ResumeRun
           \/ ReturnSaved \/ ContinueSaved
  BY <1>0, <1>7 DEF PrepareNothing, ClaimDirectory, Store!Claim,
                    RejectDirectory, ResumeRun, ReturnSaved, ContinueSaved
<1>8. ASSUME NEW output, NEW used, NEW accepted,
             StageReturns(output, used, accepted)
      PROVE  UNCHANGED <<plan, savedState, savedResult>>
  BY <1>8 DEF StageReturns
<1>9. CASE StopOnBudget \/ LeaveLoop \/ RejectSeed \/ StartStage \/ StageRaises
           \/ AnnounceStage \/ FailStage \/ RecordStage \/ PassUnrecorded
  BY <1>0, <1>9 DEF StopOnBudget, LeaveLoop, RejectSeed, StartStage,
                    StageRaises, AnnounceStage, FailStage, RecordStage,
                    PassUnrecorded
<1>10. CASE StoreRaises \/ FinishRaises \/ Finish \/ AnnounceRun \/ EndRaising
            \/ Cancel \/ Crash \/ UNCHANGED vars
  BY <1>0, <1>10 DEF StoreRaises, FinishRaises, Finish, AnnounceRun,
                     EndRaising, Cancel, Crash, vars
<1> QED
  BY <1>0, <1>1, <1>2, <1>3, <1>4, <1>5, <1>6, <1>7, <1>8, <1>9, <1>10
  DEF Next, Prepare, StageSteps, Ending

\* Whatever happens to the processes that execute a durable plan, the run
\* directory shows a ledger: stages recorded in order and one at a time, each
\* charged within the budget that was left, closed once and with the result
\* of exactly the recorded stages, replaced only as a whole.
THEOREM PlanImplementsLedger == Spec => ImplementsLedger
<1>1. Init => Ledger!LedgerInit
  BY DEF Init, Store!StoreInit, Ledger!LedgerInit
<1>2. Spec => [][Ledger!LedgerNext]_(Ledger!ledgerVars)
  BY StandingCorrect, StepSimulates, PTL DEF Spec
<1> QED
  BY <1>1, <1>2, PTL DEF Spec, ImplementsLedger, Ledger!LedgerSpec
=============================================================================
