---------------------------- MODULE OptimizerRun ----------------------------
(***************************************************************************)
(* PydanticGEPAOptimizer.optimize and _execute (optimizer.py): one search  *)
(* by the GEPA backend, and the run directory that makes its result        *)
(* durable.                                                                *)
(*                                                                         *)
(* The backend is a callable that returns a result or raises.  Whatever is *)
(* raised once the directory is prepared, an observer's exception and an   *)
(* interrupt included, is recorded there as a failed run; events told      *)
(* after _execute has returned are outside of that.  The process may crash *)
(* between any two steps and optimize be called again on the directory.    *)
(***************************************************************************)
EXTENDS Naturals

CONSTANTS
  Candidates,
  Seed,         \* the seed candidate
  Digests,      \* compatibility fingerprints
  None,
  MaxLives      \* bound: calls of optimize

ASSUME OptimizerAssumption ==
  /\ Seed \in Candidates
  /\ MaxLives \in Nat

VARIABLES
  durable,      \* config.run.directory is set
  pc,           \* where the call is; "down" when there is none
  config,       \* RunConfig: resume, fresh, and the run's fingerprint, or None
  held,         \* run_state: what prepare returned
  result,       \* what the search, or an earlier run, came to
  failure,      \* the exception on its way out
  terminals,    \* the terminal run events this call has told
  outcome,      \* the call has "returned" its result, or "raised"
  owned,        \* the store: see AtomicStore
  savedState,
  savedResult,
  lives,        \* calls so far
  answered,     \* history: the results of the directory's run callers were given
  spoiled       \* history: a completed run was recorded as failed

call == <<config, held, result, failure, terminals, outcome>>
storeVars == <<owned, savedState, savedResult>>
history == <<answered, spoiled>>
vars == <<durable, pc, call, storeVars, lives, history>>

----------------------------------------------------------------------------
(* Data.  A result is its best candidate and the call that found it.       *)

Configs == [resume: {"never", "if_exists", "required"},
            fresh: BOOLEAN,
            digest: Digests]

RunState == [digest: Digests, status: {"running", "completed", "failed"},
             accepted: Candidates]

Results == [best: Candidates, search: 1..MaxLives]

Failures == {"error", "interrupt"}
Terminals == {"run.completed", "run.failed", "run.cancelled"}

ASSUME NothingAssumption ==
  /\ None \notin RunState /\ None \notin Results /\ None \notin Configs
  /\ None \notin Failures \cup {"returned", "raised"}

Store == INSTANCE AtomicStore WITH RunStates <- RunState

----------------------------------------------------------------------------
(* Exceptions.  An observer with the policy "raise" turns the delivery of  *)
(* an event into an exception; an interrupt may come at any point.         *)

ThenGoTo(next) ==
  \/ pc' = next /\ UNCHANGED failure
  \/ pc' = "handling" /\ failure' \in Failures

----------------------------------------------------------------------------
(* optimize, up to the prepared directory.                                 *)

\* RunStarted is told before the try: an observer's exception ends the call.
StartCall(resume, fresh, digest) ==
  /\ pc = "down"
  /\ lives < MaxLives
  /\ fresh => resume = "never"
  /\ (fresh \/ resume # "never") => durable
  /\ lives' = lives + 1
  /\ config' = [resume |-> resume, fresh |-> fresh, digest |-> digest]
  /\ \/ pc' = "preparing" /\ outcome' = None
     \/ pc' = "ended" /\ outcome' = "raised"
  /\ UNCHANGED <<durable, held, result, failure, terminals, storeVars, history>>

\* ComponentsRegistered, the checks of the proposers, prepare: what is raised
\* before there is a run_state is not recorded.
RejectCall ==
  /\ pc \in {"preparing", "claiming", "beginning"}
  /\ failure' \in Failures
  /\ pc' = "raising"
  /\ UNCHANGED <<durable, config, held, result, terminals, outcome, storeVars,
                 lives, history>>

ClaimDirectory ==
  /\ durable
  /\ \/ pc = "preparing" /\ pc' = "preparing"
     \/ pc = "claiming" /\ pc' = "beginning"
  /\ Store!Claim
  /\ UNCHANGED <<durable, call, lives, history>>

ResetDirectory ==
  /\ pc = "preparing" /\ durable /\ config.fresh
  /\ Store!Release
  /\ pc' = "claiming"
  /\ answered' = {} /\ spoiled' = FALSE
  /\ UNCHANGED <<durable, call, lives>>

NewState == [digest |-> config.digest, status |-> "running", accepted |-> Seed]

\* The first checkpoint; CheckpointReset when the run is a fresh one.
BeginRun ==
  /\ \/ pc = "beginning"
     \/ /\ pc = "preparing" /\ durable
        /\ ~config.fresh /\ config.resume # "required"
  /\ Store!Begin(NewState)
  /\ \/ config.fresh /\ held' = NewState /\ ThenGoTo("prepared")
     \/ ~config.fresh /\ held' = NewState
        /\ pc' = "prepared" /\ UNCHANGED failure
     \* the state is in place and writing the manifest fails
     \/ held' = None /\ pc' = "raising" /\ failure' = "error"
  /\ UNCHANGED <<durable, config, result, terminals, outcome, lives, history>>

\* prepare returns the state it finds; CheckpointResumed is told.
ResumeRun ==
  /\ pc = "preparing" /\ durable
  /\ ~config.fresh /\ config.resume # "never"
  /\ owned /\ savedState # None
  /\ savedState.digest = config.digest
  /\ held' = savedState
  /\ ThenGoTo("prepared")
  /\ UNCHANGED <<durable, config, result, terminals, outcome, storeVars, lives,
                 history>>

----------------------------------------------------------------------------
(* The search.                                                             *)

\* A completed run is not searched again: its result is returned.
ReturnSaved ==
  /\ pc = "prepared"
  /\ held.status = "completed" /\ savedResult # None
  /\ result' = savedResult
  /\ pc' = "reporting"
  /\ UNCHANGED <<durable, config, held, failure, terminals, outcome, storeVars,
                 lives, history>>

StartSearch ==
  /\ \/ pc = "preparing" /\ ~durable
     \/ /\ pc = "prepared"
        /\ ~(held.status = "completed" /\ savedResult # None)
  /\ pc' = "searching"
  /\ UNCHANGED <<durable, call, storeVars, lives, history>>

\* Mutant: a backend result without a best candidate is taken as one.
SearchReturnsNothing(best) ==
  /\ pc = "searching"
  /\ result' = [best |-> None, search |-> lives]
  /\ pc' = IF durable THEN "saving" ELSE "announcing"
  /\ UNCHANGED <<durable, config, held, failure, terminals, outcome, storeVars,
                 lives, history>>

\* result_from_gepa and normalize_candidates have given a best candidate
SearchReturns(best) ==
  /\ pc = "searching"
  /\ result' = [best |-> best, search |-> lives]
  /\ pc' = IF durable THEN "saving" ELSE "announcing"
  /\ UNCHANGED <<durable, config, held, failure, terminals, outcome, storeVars,
                 lives, history>>

\* Mutant: the run is closed first and its result written last.
SaveResultLast ==
  /\ pc = "saving"
  /\ Store!SaveState([held EXCEPT !.status = "completed",
                                  !.accepted = result.best])
  /\ pc' = "closing"
  /\ UNCHANGED <<durable, call, lives, history>>

\* write_candidate and write_result
SaveResult ==
  /\ pc = "saving"
  /\ Store!SaveResult(result)
  /\ pc' = "closing"
  /\ UNCHANGED <<durable, call, lives, history>>

\* Mutant: the model_copy that marks the run as completed is not the one saved.
CloseUnmarked ==
  /\ pc = "closing"
  /\ Store!SaveState([held EXCEPT !.accepted = result.best])
  /\ ThenGoTo("announcing")
  /\ UNCHANGED <<durable, config, held, result, terminals, outcome, lives,
                 history>>

\* The last checkpoint and CheckpointWritten, still inside the try.
CloseRun ==
  /\ pc = "closing"
  /\ Store!SaveState([held EXCEPT !.status = "completed",
                                  !.accepted = result.best])
  /\ ThenGoTo("announcing")
  /\ UNCHANGED <<durable, config, held, result, terminals, outcome, lives,
                 history>>

\* The backend or the store raises, or the call is interrupted.
Raise ==
  /\ pc \in {"prepared", "searching", "saving", "closing"}
  /\ failure' \in Failures
  /\ pc' = "handling"
  /\ UNCHANGED <<durable, config, held, result, terminals, outcome, storeVars,
                 lives, history>>

----------------------------------------------------------------------------
(* The except clause of _execute, and those of optimize.                   *)

\* The state prepare returned is saved as failed, over whatever has been
\* saved since; the store or an observer of CheckpointWritten may raise again.
RecordFailure ==
  /\ pc = "handling"
  /\ \/ /\ durable
        /\ Store!SaveState([held EXCEPT !.status = "failed"])
        /\ spoiled' = (spoiled \/ savedState.status = "completed")
     \/ UNCHANGED <<storeVars, spoiled>>
  /\ \/ UNCHANGED failure
     \/ durable /\ failure' \in Failures
  /\ pc' = "raising"
  /\ UNCHANGED <<durable, config, held, result, terminals, outcome, lives,
                 answered>>

EndRaising ==
  /\ pc = "raising"
  /\ terminals' = terminals \cup
       {IF failure = "error" THEN "run.failed" ELSE "run.cancelled"}
  /\ outcome' = "raised"
  /\ pc' = "ended"
  /\ UNCHANGED <<durable, config, held, result, failure, storeVars, lives,
                 history>>

----------------------------------------------------------------------------
(* After the try: what is raised here reaches the caller unrecorded.       *)

\* CandidateAccepted and BudgetUpdated, of a search that was really made
AnnounceSearch ==
  /\ pc = "announcing"
  /\ \/ pc' = "reporting" /\ UNCHANGED outcome
     \/ pc' = "ended" /\ outcome' = "raised"
  /\ UNCHANGED <<durable, config, held, result, failure, terminals, storeVars,
                 lives, history>>

\* Mutant: RunCompleted is told inside the try, as Plan does.
ReportInside ==
  /\ pc = "reporting"
  /\ terminals' = terminals \cup {"run.completed"}
  /\ \/ /\ pc' = "ended" /\ UNCHANGED failure
        /\ outcome' = "returned" /\ answered' = answered \cup {result}
     \/ /\ pc' = "handling" /\ failure' = "error"
        /\ UNCHANGED <<outcome, answered>>
  /\ UNCHANGED <<durable, config, held, result, storeVars, lives, spoiled>>

Report ==
  /\ pc = "reporting"
  /\ terminals' = terminals \cup {"run.completed"}
  /\ \/ outcome' = "returned" /\ answered' = answered \cup {result}
     \/ outcome' = "raised" /\ UNCHANGED answered
  /\ pc' = "ended"
  /\ UNCHANGED <<durable, config, held, result, failure, storeVars, lives,
                 spoiled>>

\* The process stops, in a crash or because the call has ended.
Crash ==
  /\ pc # "down"
  /\ pc' = "down"
  /\ config' = None /\ held' = None /\ result' = None /\ failure' = None
  /\ terminals' = {} /\ outcome' = None
  /\ UNCHANGED <<durable, storeVars, lives, history>>

----------------------------------------------------------------------------
Init ==
  /\ durable \in BOOLEAN
  /\ pc = "down"
  /\ config = None /\ held = None /\ result = None /\ failure = None
  /\ terminals = {} /\ outcome = None
  /\ Store!StoreInit
  /\ lives = 0 /\ answered = {} /\ spoiled = FALSE

Next ==
  \/ \E resume \in {"never", "if_exists", "required"}, fresh \in BOOLEAN,
        digest \in Digests :
       StartCall(resume, fresh, digest)
  \/ RejectCall \/ ClaimDirectory \/ ResetDirectory \/ BeginRun \/ ResumeRun
  \/ ReturnSaved \/ StartSearch
  \/ \E best \in Candidates : SearchReturns(best)
  \/ SaveResult \/ CloseRun \/ Raise
  \/ RecordFailure \/ EndRaising
  \/ AnnounceSearch \/ Report
  \/ Crash

Spec == Init /\ [][Next]_vars

----------------------------------------------------------------------------
(* Properties.                                                             *)

\* Where an exception is recorded as the failure of the run.
Recorded == {"prepared", "searching", "saving", "closing", "handling"}

TypeOK ==
  /\ durable \in BOOLEAN
  /\ pc \in {"down", "preparing", "claiming", "beginning", "prepared",
             "searching", "saving", "closing", "handling", "raising",
             "announcing", "reporting", "ended"}
  /\ config \in Configs \cup {None} /\ (pc # "down" => config \in Configs)
  /\ held \in RunState \cup {None}
  /\ (durable /\ pc \in Recorded => held \in RunState)
  /\ result \in Results \cup {None}
  /\ (pc \in {"saving", "closing", "announcing", "reporting"}
        => result \in Results)
  /\ failure \in Failures \cup {None}
  /\ terminals \subseteq Terminals
  /\ outcome \in {"returned", "raised", None}
  /\ Store!StoreType
  /\ lives \in 0..MaxLives /\ (pc # "down" => lives > 0)
  /\ (pc \in {"claiming", "beginning", "prepared", "saving", "closing"}
        => durable)
  /\ answered \subseteq Results
  /\ spoiled \in BOOLEAN

\* A run that is marked completed has the result the mark is about, however
\* often the run was cut short, searched again or recorded as failed.
CompletedHasResult ==
  (savedState # None /\ savedState.status = "completed")
    => savedResult # None /\ savedResult.best = savedState.accepted

\* What the observers are told of the end of a call is what happened: at most
\* one terminal event, run.completed for every call that returns and then with
\* the run closed on disk, run.failed or run.cancelled only for a call that
\* raises.
EventsMatchOutcome ==
  /\ pc # "ended" => terminals = {}
  /\ outcome = "returned" => terminals = {"run.completed"}
  /\ "run.completed" \in terminals =>
       /\ terminals = {"run.completed"}
       /\ durable => savedState.status = "completed" /\ savedResult = result
  /\ \A e \in {"run.failed", "run.cancelled"} :
       e \in terminals => terminals = {e} /\ outcome = "raised"

\* An answer is for good: as long as no failure was recorded over a completed
\* run, every caller of a run is given the same result, and the directory
\* keeps it for the next.
AnswerIsKept ==
  (durable /\ answered # {} /\ ~spoiled)
    => /\ answered = {savedResult}
       /\ savedState # None /\ savedState.status = "completed"

\* The inductive invariant behind the three properties above.  From prepare to
\* the result the directory holds what the call was given, which is no
\* completed run once a search is under way; the run is closed with the result
\* of this call, and nothing terminal is told before the call ends.
OptimizerInvariant ==
  /\ pc # "ended" => outcome = None
  /\ (durable /\ pc \in Recorded)
       => owned /\ savedState # None
  /\ (durable /\ pc \in {"prepared", "searching", "saving", "closing"})
       => savedState = held
  /\ (durable /\ pc \in {"searching", "saving", "closing"})
       => held.status # "completed"
  /\ pc \in {"handling", "raising"} => failure # None
  /\ (durable /\ pc = "closing") => savedResult = result
  /\ (durable /\ pc \in {"announcing", "reporting"})
       => /\ savedState # None /\ savedState.status = "completed"
          /\ savedResult = result

\* tests/test_configuration_and_reflection.py:513 asserts that the resumed
\* call gives what the first gave (`cached.model_dump() == result.model_dump()`)
\* without a search: no two callers of one run are given different results.
AnswerIsFinal ==
  durable => \A r1, r2 \in answered : r1 = r2
=============================================================================
