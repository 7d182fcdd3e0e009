----------------------------- MODULE GEPABridge -----------------------------
(***************************************************************************)
(* recorder.py: GEPAEventBridge makes events of the callbacks of a GEPA    *)
(* engine.  "full": the bridge also tells the beginning and the end of the *)
(* run; "backend_only": whoever runs the engine tells them.                *)
(***************************************************************************)
EXTENDS Naturals, Sequences

RunKinds == {"RunStarted", "RunCompleted", "RunFailed"}

\* The beginning and the end of the run.
RunCallback(callback, lifecycle) ==
  CASE callback = "on_optimization_start" ->
         IF lifecycle = "full" THEN <<"RunStarted">> ELSE <<>>
    [] callback = "on_optimization_end" ->
         IF lifecycle = "full" THEN <<"RunCompleted">> ELSE <<>>

\* on_error is "on_fatal_error" when will_continue is FALSE.
ErrorCallback(callback, lifecycle) ==
  CASE callback = "on_error" -> <<"BackendError">>
    [] callback = "on_fatal_error" ->
         IF lifecycle = "full" THEN <<"RunFailed">> ELSE <<"BackendError">>

\* The callbacks of an evaluation, and those that only report progress.
EvaluationCallback ==
  [on_evaluation_start |-> <<"EvaluationStarted">>,
   on_evaluation_end |-> <<"EvaluationCompleted">>,
   on_evaluation_skipped |-> <<"EvaluationSkipped">>,
   on_valset_evaluated |-> <<"CandidateEvaluated">>]

ProgressCallback ==
  [on_iteration_start |-> <<"IterationStarted">>,
   on_iteration_end |-> <<"IterationCompleted">>,
   on_candidate_selected |-> <<"BackendProgress">>,
   on_minibatch_sampled |-> <<"BackendProgress">>]

ProposalCallback ==
  [on_reflective_dataset_built |-> <<"BackendProgress">>,
   on_proposal_start |-> <<"ReflectionStarted">>,
   on_proposal_end |-> <<"ReflectionCompleted", "CandidateProposed">>,
   on_candidate_accepted |-> <<"CandidateAccepted">>,
   on_candidate_rejected |-> <<"CandidateRejected">>]

SearchCallback ==
  [on_merge_attempted |-> <<"BackendProgress">>,
   on_merge_accepted |-> <<"CandidateAccepted">>,
   on_merge_rejected |-> <<"CandidateRejected">>,
   on_pareto_front_updated |-> <<"ParetoFrontUpdated">>,
   on_state_saved |-> <<"CheckpointWritten">>,
   on_budget_updated |-> <<"BudgetUpdated">>]

\* The kinds of event one callback is told as.
Translated(callback, lifecycle) ==
  IF callback \in DOMAIN EvaluationCallback THEN EvaluationCallback[callback]
  ELSE IF callback \in DOMAIN ProgressCallback THEN ProgressCallback[callback]
  ELSE IF callback \in DOMAIN ProposalCallback THEN ProposalCallback[callback]
  ELSE IF callback \in DOMAIN SearchCallback THEN SearchCallback[callback]
  ELSE IF callback \in {"on_error", "on_fatal_error"} THEN ErrorCallback(callback, lifecycle)
  ELSE RunCallback(callback, lifecycle)

=============================================================================
