------------------------------ MODULE Evaluation ------------------------------
(***************************************************************************)
(* Evaluation (evaluation/runner.py): calls of arun, on event loops or     *)
(* threads, over one store of results (evaluation/cache.py).               *)
(*                                                                         *)
(* The evaluations of the model have one runtime, one evaluator and one    *)
(* objective, and differ in their configurations, as those do that a       *)
(* caller builds over one CacheStore.  The evaluator is external: it       *)
(* invokes the subject through its Context as often as it likes, also      *)
(* concurrently, and returns scores or raises an exception: one of its own *)
(* or one that an invocation raised.  Each call looks at the store once    *)
(* and changes it once at most, and awaits nothing at either end.          *)
(***************************************************************************)
EXTENDS Integers, Sequences

CONSTANTS
  Calls,            \* the calls of arun
  Candidates,
  Normalized,       \* what normalize_candidate makes of each, None if it raises
  Characters,
  Cases,            \* the calls that may be made
  MaxLength,        \* Encoder.max_string_length
  MaxInvocations,   \* bound on the invocations that end in one call
  None

Categories == {"candidate", "task", "evaluator", "infrastructure"}
Config ==
  [strategy: {"output", "controlled"},
   cached: BOOLEAN,                 \* there is a store
   deterministic: BOOLEAN,
   cacheNondeterministic: BOOLEAN,
   cacheFailures: BOOLEAN,
   recorded: SUBSET Categories,     \* the others of the four are raised
   invalidScore: {"raise", "use_failure_score"}]
Case ==
  [config: Config, candidate: Candidates, inputs: Seq(Characters),
   stage: STRING]

ASSUME EvaluationAssumption ==
  /\ MaxLength \in Nat \ {0}
  /\ MaxInvocations \in Nat \ {0}
  /\ None \notin Candidates
  /\ Normalized \in [Candidates -> Candidates \cup {None}]
  /\ \A c \in Cases : c \in Case

VARIABLES
  cache,     \* the results that are kept, a set of entries
  pc,        \* where each call is
  asked,     \* what each call is about
  ended,     \* how the ended invocations of each call's Context ended
  answer     \* the CaseResult that each call returned

vars == <<cache, pc, asked, ended, answer>>

----------------------------------------------------------------------------
(* Exceptions and results.                                                 *)

Kinds == {"candidate", "infrastructure", "cancelled", "plain"}

\* An exception, and the invocation of the subject that raised it, 0 if none.
Exception(k, i) == [kind |-> k, invocation |-> i]

\* "of" stands for what a result holds of the case it was computed from;
\* "scored" says that the objective is the evaluator's, not failure_score.
Result(c, category, error, scored) ==
  [of |-> c, category |-> category, error |-> error, scored |-> scored,
   hit |-> FALSE]

Exceptions == {Exception(k, i) : k \in Kinds, i \in 0..MaxInvocations}
Results ==
  [of: Cases, category: Categories \cup {"none"},
   error: Exceptions \cup {None}, scored: BOOLEAN, hit: BOOLEAN]

ASSUME NoneAssumption == None \notin Exceptions /\ None \notin Results

\* Context.task_failed_with: any invocation of the call, not the last alone.
LastFailedWith(t, e) == e.invocation = Len(ended[t]) /\ ended[t] # <<>>
TaskFailedWith(t, e) ==
  \E k \in 1..Len(ended[t]) : ended[t][k] # "output" /\ e.invocation = k

Category(t, e) ==
  CASE e.kind = "candidate"      -> "candidate"
    [] e.kind = "infrastructure" -> "infrastructure"
    [] OTHER -> IF TaskFailedWith(t, e) THEN "task" ELSE "evaluator"

----------------------------------------------------------------------------
(* The store.                                                              *)

\* Encoder._string keeps the first characters of a string, and the number of
\* those that it leaves out.
Encoded(s) ==
  IF Len(s) <= MaxLength
  THEN [text |-> s, omitted |-> 0]
  ELSE [text |-> SubSeq(s, 1, MaxLength), omitted |-> Len(s) - MaxLength]

\* EvaluationConfig.model_dump: neither the store nor "deterministic" is there.
Settings(g) ==
  [cacheNondeterministic |-> g.cacheNondeterministic,
   cacheFailures |-> g.cacheFailures, recorded |-> g.recorded,
   invalidScore |-> g.invalidScore]

\* Mutant: without the stage.
StagelessKey(c) ==
  [candidate |-> Normalized[c.candidate], example |-> Encoded(c.inputs),
   strategy |-> c.config.strategy, stage |-> "",
   settings |-> Settings(c.config)]

\* Mutant: without the configuration.
BareKey(c) ==
  [candidate |-> Normalized[c.candidate], example |-> Encoded(c.inputs),
   strategy |-> c.config.strategy, stage |-> c.stage,
   settings |-> "any"]

\* _cache_key: what a case is identified with.
Key(c) ==
  [candidate |-> Normalized[c.candidate], example |-> Encoded(c.inputs),
   strategy |-> c.config.strategy, stage |-> c.stage,
   settings |-> Settings(c.config)]

\* _cache_key gives a key at all.
Cachable(c) ==
  /\ c.config.cached
  /\ c.config.deterministic \/ c.config.cacheNondeterministic

\* CacheStore.get.
Found(c) == {e \in cache : Cachable(c) /\ e.key = Key(c)}

\* Mutant: what was there stays.
KeepBoth(c, r) ==
  IF Cachable(c) THEN cache \cup {[key |-> Key(c), result |-> r]} ELSE cache

\* _cache: CacheStore.set, which replaces what is there.
Keep(c, r) ==
  IF Cachable(c)
  THEN {e \in cache : e.key # Key(c)} \cup {[key |-> Key(c), result |-> r]}
  ELSE cache

----------------------------------------------------------------------------
(* The calls.                                                              *)

Init ==
  /\ cache = {}
  /\ pc = [t \in Calls |-> "idle"]
  /\ asked \in [Calls -> Cases]
  /\ ended = [t \in Calls |-> <<>>]
  /\ answer = [t \in Calls |-> None]

\* The Context is dropped.  An invocation that is still under way may end
\* after that, and nothing looks at it any more.
Raise(t) ==
  /\ pc' = [pc EXCEPT ![t] = "raised"]
  /\ ended' = [ended EXCEPT ![t] = <<>>]
  /\ UNCHANGED answer

Return(t, r) ==
  /\ pc' = [pc EXCEPT ![t] = "returned"]
  /\ ended' = [ended EXCEPT ![t] = <<>>]
  /\ answer' = [answer EXCEPT ![t] = r]

\* Mutant: kept before validate_result has seen it.
KeepThenValidate(t, r) ==
  /\ UNCHANGED asked
  /\ cache' = Keep(asked[t], r)
  /\ Return(t, r) \/ Raise(t)

\* _validate_result may raise; a result that passes is kept and returned.
ValidateAndKeep(t, r) ==
  /\ UNCHANGED asked
  /\ \/ cache' = Keep(asked[t], r) /\ Return(t, r)
     \/ UNCHANGED cache /\ Raise(t)

\* The same, where nothing is to be kept.
Validate(t, r) ==
  /\ UNCHANGED <<asked, cache>>
  /\ Return(t, r) \/ Raise(t)

\* A validator of the input or of the candidate raises, or the key cannot be
\* encoded; or the candidate has no normal form, which is recorded outside of
\* the store or raised.
Reject(t) ==
  /\ pc[t] = "idle"
  /\ \/ Raise(t) /\ UNCHANGED <<asked, cache>>
     \/ /\ Normalized[asked[t].candidate] = None
        /\ "candidate" \in asked[t].config.recorded
        /\ Validate(t, Result(asked[t], "candidate",
                              Exception("candidate", 0), FALSE))

\* A result is found: the caller gets a copy that says so.
Hit(t) ==
  /\ pc[t] = "idle"
  /\ Normalized[asked[t].candidate] # None
  /\ \E e \in Found(asked[t]) : Return(t, [e.result EXCEPT !.hit = TRUE])
  /\ UNCHANGED <<asked, cache>>

\* None is: with "output" the subject is invoked before the evaluator.
Begin(t) ==
  /\ pc[t] = "idle"
  /\ Normalized[asked[t].candidate] # None
  /\ Found(asked[t]) = {}
  /\ pc' = [pc EXCEPT ![t] = IF asked[t].config.strategy = "output"
                             THEN "first" ELSE "evaluating"]
  /\ UNCHANGED <<cache, asked, ended, answer>>

\* The except clauses of arun.
Failed(t, e) ==
  LET g == asked[t].config
      r == Result(asked[t], Category(t, e), e, FALSE)
  IN \/ /\ e.kind = "cancelled" \/ Category(t, e) \notin g.recorded
        /\ Raise(t) /\ UNCHANGED <<asked, cache>>
     \/ /\ e.kind # "cancelled" /\ Category(t, e) \in g.recorded
        /\ IF g.cacheFailures THEN ValidateAndKeep(t, r) ELSE Validate(t, r)

\* An invocation of the subject ends.  The one that "output" starts with has
\* to end with an output for the evaluator to be called.
InvocationEnds(t, how) ==
  /\ pc[t] \in {"first", "evaluating"}
  /\ Len(ended[t]) < MaxInvocations
  /\ ended' = [ended EXCEPT ![t] = Append(@, how)]
  /\ pc' = [pc EXCEPT ![t] = IF @ = "first" /\ how # "output"
                             THEN "failed" ELSE "evaluating"]
  /\ UNCHANGED <<cache, asked, answer>>

\* That invocation, or the evaluator, raises: the evaluator an exception of its
\* own or that of any invocation it made.
CallFails(t, e) ==
  /\ \/ pc[t] = "evaluating"
     \/ pc[t] = "failed" /\ e.invocation = 1
  /\ e.invocation \in 0..Len(ended[t])
  /\ e.invocation # 0 => ended[t][e.invocation] = e.kind
  /\ Failed(t, e)

\* The evaluator returns scores.  validate_output may raise, and so may a
\* score that is missing, no number or out of bounds, unless it is replaced.
EvaluatorReturns(t, valid) ==
  /\ pc[t] = "evaluating"
  /\ \/ UNCHANGED <<asked, cache>> /\ Raise(t)
     \/ /\ valid \/ asked[t].config.invalidScore = "use_failure_score"
        /\ ValidateAndKeep(t, Result(asked[t], "none", None, valid))

Step(t) ==
  \/ Reject(t)
  \/ Hit(t)
  \/ Begin(t)
  \/ \E how \in Kinds \cup {"output"} : InvocationEnds(t, how)
  \/ \E e \in Exceptions : CallFails(t, e)
  \/ \E valid \in BOOLEAN : EvaluatorReturns(t, valid)

\* InMemoryCache.clear.
Clear ==
  /\ cache # {}
  /\ cache' = {}
  /\ UNCHANGED <<pc, asked, ended, answer>>

Next == (\E t \in Calls : Step(t)) \/ Clear

Spec == Init /\ [][Next]_vars

----------------------------------------------------------------------------
(* Properties.                                                             *)

\* The type invariant; the store holds one result for a key
\* (evaluation/cache.py:24), which is the key of the case it is about.
TypeOK ==
  /\ \A e \in cache :
       /\ e.result \in Results
       /\ e = [key |-> Key(e.result.of), result |-> e.result]
  /\ \A e, f \in cache : e.key = f.key => e = f
  /\ pc \in [Calls -> {"idle", "first", "evaluating", "failed", "raised",
                        "returned"}]
  /\ asked \in [Calls -> Cases]
  /\ ended \in [Calls -> Seq(Kinds \cup {"output"})]
  /\ \A t \in Calls : Len(ended[t]) <= MaxInvocations
  /\ answer \in [Calls -> Results \cup {None}]
  /\ \A t \in Calls : pc[t] = "returned" <=> answer[t] # None

Answered == {t \in Calls : pc[t] = "returned"}

\* Everything in the store is the result some call computed, had validated and
\* returned: a call that raised, in a validator too, leaves nothing there.
KeptWasReturned ==
  \A e \in cache : \E t \in Answered : answer[t] = e.result

Short(c) == Len(c.inputs) <= MaxLength

\* As long as inputs are within the encoder's limit, a call that is answered
\* from the store gets the result of a case with its own normalised candidate,
\* inputs, stage and strategy (_cache_key, evaluation/runner.py:350).
FoundIsOwn ==
  \A t \in Answered :
    LET own == asked[t]  of == answer[t].of
    IN Short(own) =>
         /\ Normalized[of.candidate] = Normalized[own.candidate]
         /\ of.inputs = own.inputs
         /\ of.stage = own.stage
         /\ of.config.strategy = own.config.strategy

\* No caller gets, computed or found, what its own configuration excludes: a
\* failure it wants raised, a replaced score it wants refused, a stored failure
\* unless it wants those kept, anything stored or found without a right to.
PolicyRespected ==
  \A t \in Answered :
    LET g == asked[t].config  r == answer[t]
    IN /\ r.category # "none" => r.category \in g.recorded
       /\ r.category = "none" /\ ~ r.scored
            => g.invalidScore = "use_failure_score"
       /\ r.hit => /\ r.category # "none" => g.cacheFailures
                   /\ Cachable(asked[t]) /\ Cachable(r.of)
       /\ ~ r.hit => r.of = asked[t]

\* A recorded failure is the task's exactly if an invocation of the subject
\* raised it, in whatever order invocations ended, and is not one of
\* injection or infrastructure; no cancellation is ever recorded.
BlamedRightly ==
  \A t \in Answered :
    LET e == answer[t].error
    IN /\ answer[t].category = "none" <=> e = None
       /\ e # None =>
            /\ e.kind # "cancelled"
            /\ answer[t].category = "task"
                 <=> e.kind = "plain" /\ e.invocation # 0

=============================================================================
