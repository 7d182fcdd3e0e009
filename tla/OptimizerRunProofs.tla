-------------------------- MODULE OptimizerRunProofs --------------------------
(***************************************************************************)
(* What holds of PydanticGEPAOptimizer.optimize for any candidates, any    *)
(* fingerprints and any number of calls on one directory.                  *)
(***************************************************************************)
EXTENDS OptimizerRun, TLAPS

\* The records that are saved are run states and results.
LEMMA SavedTypes ==
  ASSUME TypeOK
  PROVE  /\ config \in Configs => NewState \in RunState
         /\ \A s \in RunState, st \in {"running", "completed", "failed"} :
              [s EXCEPT !.status = st] \in RunState
         /\ \A s \in RunState, c \in Candidates :
              [s EXCEPT !.status = "completed", !.accepted = c] \in RunState
BY OptimizerAssumption DEF NewState, RunState, Configs

Inv ==
  /\ CompletedHasResult
  /\ EventsMatchOutcome
  /\ AnswerIsKept
  /\ OptimizerInvariant

LEMMA TypeInit == Init => TypeOK
<1> SUFFICES ASSUME Init PROVE TypeOK
  OBVIOUS
<1>1. lives \in 0..MaxLives
  BY OptimizerAssumption DEF Init
<1>2. Store!StoreType
  BY Zenon DEF Init, Store!StoreInit, Store!StoreType
<1> QED
  BY <1>1, <1>2, Zenon DEF Init, TypeOK, Recorded

LEMMA TypeStep == TypeOK /\ [Next]_vars => TypeOK'
<1> SUFFICES ASSUME TypeOK, [Next]_vars PROVE TypeOK'
  OBVIOUS
<1> USE OptimizerAssumption
    DEF TypeOK, Recorded, Failures, Terminals, Store!StoreType, call,
        storeVars, history
<1>1. ASSUME NEW resume \in {"never", "if_exists", "required"},
             NEW fresh \in BOOLEAN, NEW digest \in Digests,
             StartCall(resume, fresh, digest)
      PROVE  TypeOK'
  BY <1>1 DEF StartCall, Configs
<1>2. CASE RejectCall
  BY <1>2 DEF RejectCall
<1>3. CASE ClaimDirectory
  BY <1>3 DEF ClaimDirectory, Store!Claim
<1>4. CASE ResetDirectory
  BY <1>4 DEF ResetDirectory, Store!Release
<1>5. CASE BeginRun
  <2>1. NewState \in RunState
    BY <1>5, SavedTypes DEF BeginRun
  <2>2. \/ held' = NewState /\ pc' \in {"prepared", "handling"}
        \/ held' = None /\ pc' = "raising"
    BY <1>5 DEF BeginRun, ThenGoTo
  <2>3. failure' \in Failures \cup {None}
    BY <1>5 DEF BeginRun, ThenGoTo
  <2>4. durable /\ lives > 0 /\ config \in Configs
    BY <1>5 DEF BeginRun
  <2> QED
    BY <1>5, <2>1, <2>2, <2>3, <2>4 DEF BeginRun, Store!Begin
<1>6. CASE ResumeRun
  BY <1>6 DEF ResumeRun, ThenGoTo
<1>7. CASE ReturnSaved
  BY <1>7 DEF ReturnSaved
<1>8. CASE StartSearch
  BY <1>8 DEF StartSearch
<1>9. ASSUME NEW best \in Candidates, SearchReturns(best)
      PROVE  TypeOK'
  BY <1>9 DEF SearchReturns, Results
<1>10. CASE SaveResult
  BY <1>10 DEF SaveResult, Store!SaveResult
<1>11. CASE CloseRun
  <2>1. held \in RunState /\ result.best \in Candidates
    BY <1>11 DEF CloseRun, Results
  <2>2. savedState' \in RunState
    BY <1>11, <2>1, SavedTypes DEF CloseRun, Store!SaveState
  <2> QED
    BY <1>11, <2>1, <2>2 DEF CloseRun, ThenGoTo, Store!SaveState
<1>12. CASE Raise
  BY <1>12 DEF Raise
<1>13. CASE RecordFailure
  <2>1. savedState' \in RunState \cup {None}
    BY <1>13, SavedTypes DEF RecordFailure, Store!SaveState
  <2>2. spoiled' \in BOOLEAN
    BY <1>13, Zenon DEF RecordFailure
  <2>3. UNCHANGED <<owned, savedResult>>
    BY <1>13 DEF RecordFailure, Store!SaveState
  <2> QED
    BY <1>13, <2>1, <2>2, <2>3 DEF RecordFailure
<1>14. CASE EndRaising
  BY <1>14 DEF EndRaising
<1>15. CASE AnnounceSearch
  BY <1>15 DEF AnnounceSearch
<1>16. CASE Report
  BY <1>16 DEF Report
<1>17. CASE Crash
  BY <1>17 DEF Crash
<1>18. CASE UNCHANGED vars
  BY <1>18 DEF vars
<1> QED
  BY <1>1, <1>2, <1>3, <1>4, <1>5, <1>6, <1>7, <1>8, <1>9, <1>10, <1>11, <1>12,
     <1>13, <1>14, <1>15, <1>16, <1>17, <1>18
  DEF Next

LEMMA InvInit == Init => Inv
BY OptimizerAssumption, NothingAssumption
DEF Init, Inv, CompletedHasResult, EventsMatchOutcome, AnswerIsKept,
    OptimizerInvariant, Recorded, Store!StoreInit

LEMMA InvStep == TypeOK /\ Inv /\ [Next]_vars => Inv'
<1> SUFFICES ASSUME TypeOK, Inv, [Next]_vars PROVE Inv'
  OBVIOUS
<1>t. TypeOK'
  BY TypeStep
<1> USE OptimizerAssumption, NothingAssumption, <1>t
    DEF TypeOK, Inv, CompletedHasResult, EventsMatchOutcome,
        AnswerIsKept, OptimizerInvariant, Recorded, Failures, call, storeVars,
        history
<1>1. ASSUME NEW resume \in {"never", "if_exists", "required"},
             NEW fresh \in BOOLEAN, NEW digest \in Digests,
             StartCall(resume, fresh, digest)
      PROVE  Inv'
  BY <1>1 DEF StartCall
<1>2. CASE RejectCall
  BY <1>2 DEF RejectCall
<1>3. CASE ClaimDirectory
  BY <1>3 DEF ClaimDirectory, Store!Claim
<1>4. CASE ResetDirectory
  BY <1>4 DEF ResetDirectory, Store!Release
<1>5. CASE BeginRun
  BY <1>5, SavedTypes DEF BeginRun, NewState, ThenGoTo, Store!Begin
<1>6. CASE ResumeRun
  BY <1>6 DEF ResumeRun, ThenGoTo
<1>7. CASE ReturnSaved
  BY <1>7 DEF ReturnSaved
<1>8. CASE StartSearch
  BY <1>8 DEF StartSearch
<1>9. ASSUME NEW best \in Candidates, SearchReturns(best)
      PROVE  Inv'
  BY <1>9 DEF SearchReturns, Results
<1>10. CASE SaveResult
  BY <1>10 DEF SaveResult, Store!SaveResult
<1>11. CASE CloseRun
  <2>1. held \in RunState
    BY <1>11 DEF CloseRun
  <2>2. /\ savedState'.status = "completed" /\ savedState'.accepted = result.best
    BY <1>11, <2>1 DEF CloseRun, Store!SaveState, RunState
  <2>3. savedState' \in RunState
    BY <1>11, <2>1, SavedTypes DEF CloseRun, Store!SaveState, Results
  <2> QED
    BY <1>11, <2>1, <2>2, <2>3 DEF CloseRun, ThenGoTo, Store!SaveState
<1>12. CASE Raise
  BY <1>12 DEF Raise
<1>13. CASE RecordFailure
  <2>1. CASE durable /\ Store!SaveState([held EXCEPT !.status = "failed"])
                     /\ spoiled' = (spoiled \/ savedState.status = "completed")
    <3>1. held \in RunState /\ owned /\ savedState # None
      BY <1>13, <2>1 DEF RecordFailure
    <3>2. savedState'.status = "failed"
      BY <2>1, <3>1 DEF Store!SaveState, RunState
    <3>3. ~spoiled' => ~spoiled /\ savedState.status # "completed"
      BY <2>1, Zenon
    <3>4. /\ pc = "handling" /\ pc' = "raising" /\ failure' # None
          /\ UNCHANGED <<durable, terminals, outcome, answered>>
      BY <1>13 DEF RecordFailure
    <3> QED
      BY <3>1, <3>2, <3>3, <3>4
  <2>2. CASE UNCHANGED <<owned, savedState, savedResult, spoiled>>
    BY <1>13, <2>2 DEF RecordFailure
  <2> QED
    BY <1>13, <2>1, <2>2 DEF RecordFailure
<1>14. CASE EndRaising
  BY <1>14 DEF EndRaising
<1>15. CASE AnnounceSearch
  BY <1>15 DEF AnnounceSearch
<1>16. CASE Report
  BY <1>16 DEF Report
<1>17. CASE Crash
  BY <1>17 DEF Crash
<1>18. CASE UNCHANGED vars
  BY <1>18 DEF vars
<1> QED
  BY <1>1, <1>2, <1>3, <1>4, <1>5, <1>6, <1>7, <1>8, <1>9, <1>10, <1>11, <1>12,
     <1>13, <1>14, <1>15, <1>16, <1>17, <1>18
  DEF Next

LEMMA InvCorrect == Spec => [](TypeOK /\ Inv)
BY TypeInit, TypeStep, InvInit, InvStep, PTL DEF Spec

\* Every variable keeps its type.
THEOREM TypeCorrect == Spec => []TypeOK
<1> QED BY InvCorrect, PTL

\* A directory marked completed holds the result the mark is about.
THEOREM CompletedCorrect == Spec => []CompletedHasResult
<1>1. Inv => CompletedHasResult BY DEF Inv
<1> QED BY <1>1, InvCorrect, PTL

\* Observers and the caller are told the same end of a call, and a completed
\* run is on disk before either hears of it.
THEOREM EventsCorrect == Spec => []EventsMatchOutcome
<1>1. Inv => EventsMatchOutcome BY DEF Inv
<1> QED BY <1>1, InvCorrect, PTL

\* All callers of a run are given one result, unless a failure was recorded
\* over the completed run.
THEOREM AnswerCorrect == Spec => []AnswerIsKept
<1>1. Inv => AnswerIsKept BY DEF Inv
<1> QED BY <1>1, InvCorrect, PTL
================================================================================
