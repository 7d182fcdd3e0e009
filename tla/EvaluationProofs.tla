--------------------------- MODULE EvaluationProofs ---------------------------
(***************************************************************************)
(* What every caller of an Evaluation is given, for any number of calls,   *)
(* cases and invocations and for every limit of the encoder.               *)
(***************************************************************************)
EXTENDS Evaluation, TLAPS

\* A result is what its own case's configuration allows, and blames rightly.
Sound(r) ==
  /\ r.category # "none" => r.category \in r.of.config.recorded
  /\ r.category = "none" /\ ~ r.scored
       => r.of.config.invalidScore = "use_failure_score"
  /\ r.category = "none" <=> r.error = None
  /\ r.error # None =>
       /\ r.error.kind # "cancelled"
       /\ r.category = "task"
            <=> r.error.kind = "plain" /\ r.error.invocation # 0

\* What may be kept: the failures of those only that want them kept.
Keepable(r) ==
  /\ Sound(r)
  /\ ~ r.hit
  /\ r.category # "none" => r.of.config.cacheFailures

Store == \A e \in cache : Keepable(e.result) /\ Cachable(e.result.of)

\* What was found has the key of the case it was found for.
Answers ==
  \A t \in Answered :
    LET r == answer[t]
    IN /\ Sound(r)
       /\ ~ r.hit => r.of = asked[t]
       /\ r.hit => /\ Cachable(asked[t]) /\ Cachable(r.of)
                   /\ Key(r.of) = Key(asked[t])
                   /\ r.category # "none" => r.of.config.cacheFailures

IInv == TypeOK /\ Store /\ Answers

----------------------------------------------------------------------------
(* Steps.                                                                  *)

\* A call goes on, or raises: nobody is given anything and nothing is kept.
Silent(t) ==
  /\ UNCHANGED <<cache, asked, answer>>
  /\ pc[t] # "returned"
  /\ \E p \in {"first", "evaluating", "failed", "raised"} :
       pc' = [pc EXCEPT ![t] = p]
  /\ ended' \in [Calls -> Seq(Kinds \cup {"output"})]
  /\ \A u \in Calls : Len(ended'[u]) <= MaxInvocations

\* A call returns what it has computed, and keeps it if it may be kept.
Computes(t, r) ==
  /\ UNCHANGED asked
  /\ pc[t] # "returned"
  /\ Return(t, r)
  /\ r \in Results /\ Sound(r) /\ ~ r.hit /\ r.of = asked[t]
  /\ \/ UNCHANGED cache
     \/ Keepable(r) /\ cache' = Keep(asked[t], r)

LEMMA CaseTyped == \A c \in Cases : c \in Case
BY EvaluationAssumption

\* Cutting a string keeps track of its length, so that what encodes like a
\* short string is that string.
LEMMA EncodedShort ==
  ASSUME NEW s \in Seq(Characters), NEW u \in Seq(Characters),
         Len(s) <= MaxLength, Encoded(u) = Encoded(s)
  PROVE  u = s
<1>1. Len(u) \in Nat /\ MaxLength \in Nat BY EvaluationAssumption
<1>2. Encoded(s) = [text |-> s, omitted |-> 0] BY DEF Encoded
<1>3. CASE Len(u) <= MaxLength
  <2>1. Encoded(u) = [text |-> u, omitted |-> 0] BY <1>3 DEF Encoded
  <2> QED BY <1>2, <2>1
<1>4. CASE ~ (Len(u) <= MaxLength)
  <2>1. Encoded(u).omitted = Len(u) - MaxLength BY <1>4 DEF Encoded
  <2>2. Encoded(u).omitted # 0 BY <1>1, <1>4, <2>1
  <2> QED BY <1>2, <2>2
<1> QED BY <1>3, <1>4

LEMMA RaiseIsSilent ==
  ASSUME TypeOK, NEW t \in Calls, pc[t] # "returned",
         Raise(t), UNCHANGED <<asked, cache>>
  PROVE  Silent(t)
<1>1. /\ <<>> \in Seq(Kinds \cup {"output"})
      /\ Len(<<>>) <= MaxInvocations
  BY EvaluationAssumption
<1>2. /\ ended' \in [Calls -> Seq(Kinds \cup {"output"})]
      /\ \A u \in Calls : Len(ended'[u]) <= MaxInvocations
  BY <1>1 DEF TypeOK, Raise
<1> QED BY <1>2 DEF Silent, Raise

\* What a call may return with a result that may not be kept, or may be.
LEMMA ValidatedComputes ==
  ASSUME TypeOK, NEW t \in Calls, pc[t] # "returned", NEW r \in Results,
         Sound(r), ~ r.hit, r.of = asked[t],
         Validate(t, r) \/ (Keepable(r) /\ ValidateAndKeep(t, r))
  PROVE  Silent(t) \/ Computes(t, r)
BY RaiseIsSilent DEF Validate, ValidateAndKeep, Computes

\* The category of an exception of a call is the one BlamedRightly wants.
LEMMA CategoryRight ==
  ASSUME TypeOK, NEW t \in Calls, NEW e \in Exceptions,
         e.invocation \in 0..Len(ended[t]),
         e.invocation # 0 => ended[t][e.invocation] = e.kind,
         e.kind # "cancelled"
  PROVE  /\ Category(t, e) \in Categories
         /\ Category(t, e) = "task" <=> e.kind = "plain" /\ e.invocation # 0
<1>1. /\ e.kind \in Kinds /\ e.invocation \in Nat /\ Len(ended[t]) \in Nat
  BY EvaluationAssumption DEF Exceptions, Exception, TypeOK
<1>2. TaskFailedWith(t, e) <=> e.invocation # 0
  <2>1. ASSUME e.invocation # 0 PROVE TaskFailedWith(t, e)
    <3>1. e.invocation \in 1..Len(ended[t]) BY <1>1, <2>1
    <3>2. ended[t][e.invocation] # "output" BY <1>1, <2>1 DEF Kinds
    <3> QED BY <3>1, <3>2 DEF TaskFailedWith
  <2>2. ASSUME TaskFailedWith(t, e) PROVE e.invocation # 0
    BY <2>2 DEF TaskFailedWith
  <2> QED BY <2>1, <2>2
<1> QED BY <1>1, <1>2 DEF Category, Categories, Kinds

LEMMA FailedComputes ==
  ASSUME TypeOK, NEW t \in Calls, pc[t] # "returned", NEW e \in Exceptions,
         e.invocation \in 0..Len(ended[t]),
         e.invocation # 0 => ended[t][e.invocation] = e.kind,
         Failed(t, e)
  PROVE  Silent(t) \/ \E r \in Results : Computes(t, r)
<1> DEFINE g == asked[t].config
           r == Result(asked[t], Category(t, e), e, FALSE)
<1>1. CASE Raise(t) /\ UNCHANGED <<asked, cache>>
  BY <1>1, RaiseIsSilent
<1>2. CASE /\ e.kind # "cancelled" /\ Category(t, e) \in g.recorded
           /\ IF g.cacheFailures THEN ValidateAndKeep(t, r) ELSE Validate(t, r)
  <2>1. /\ Category(t, e) \in Categories
        /\ Category(t, e) = "task" <=> e.kind = "plain" /\ e.invocation # 0
    BY <1>2, CategoryRight
  <2>2. asked[t] \in Cases BY DEF TypeOK
  <2>3. r \in Results BY <2>1, <2>2 DEF Result, Results
  <2>4. /\ r.of = asked[t] /\ r.category = Category(t, e) /\ r.error = e
        /\ r.scored = FALSE /\ r.hit = FALSE
    BY DEF Result
  <2>5. Category(t, e) # "none" /\ e # None
    BY <2>1, NoneAssumption DEF Categories
  <2>6. Sound(r) BY <1>2, <2>1, <2>4, <2>5 DEF Sound
  <2>7. g.cacheFailures => Keepable(r) BY <2>4, <2>6 DEF Keepable
  <2>8. Validate(t, r) \/ (Keepable(r) /\ ValidateAndKeep(t, r))
    BY <1>2, <2>7
  <2>9. Silent(t) \/ Computes(t, r)
    BY <2>3, <2>4, <2>6, <2>8, ValidatedComputes
  <2> QED BY <2>3, <2>9
<1> QED BY <1>1, <1>2 DEF Failed

\* A step goes on, returns what it computed, or returns what it found.
LEMMA StepCases ==
  ASSUME TypeOK, NEW t \in Calls, Step(t)
  PROVE  \/ Silent(t)
         \/ \E r \in Results : Computes(t, r)
         \/ Hit(t)
<1>0. asked[t] \in Cases BY DEF TypeOK
<1>1. CASE Reject(t)
  <2>1. pc[t] # "returned" BY <1>1 DEF Reject
  <2>2. CASE Raise(t) /\ UNCHANGED <<asked, cache>>
    BY <2>1, <2>2, RaiseIsSilent
  <2>3. CASE /\ "candidate" \in asked[t].config.recorded
             /\ Validate(t, Result(asked[t], "candidate",
                                   Exception("candidate", 0), FALSE))
    <3> DEFINE e == Exception("candidate", 0)
               r == Result(asked[t], "candidate", e, FALSE)
    <3>1. e \in Exceptions
      BY EvaluationAssumption DEF Exceptions, Exception, Kinds
    <3>2. e.kind = "candidate" /\ e # None
      BY <3>1, NoneAssumption DEF Exception
    <3>3. r \in Results BY <1>0, <3>1 DEF Result, Results, Categories
    <3>4. /\ r.of = asked[t] /\ r.category = "candidate" /\ r.error = e
          /\ r.scored = FALSE /\ r.hit = FALSE
      BY DEF Result
    <3>5. Sound(r) BY <2>3, <3>2, <3>4 DEF Sound
    <3>6. Silent(t) \/ Computes(t, r)
      BY <2>1, <2>3, <3>3, <3>4, <3>5, ValidatedComputes
    <3> QED BY <3>3, <3>6
  <2> QED BY <1>1, <2>2, <2>3 DEF Reject
<1>2. CASE Begin(t)
  BY <1>2 DEF Begin, Silent, TypeOK
<1>3. ASSUME NEW how \in Kinds \cup {"output"}, InvocationEnds(t, how)
      PROVE  Silent(t)
  <2>1. /\ Append(ended[t], how) \in Seq(Kinds \cup {"output"})
        /\ Len(Append(ended[t], how)) <= MaxInvocations
    BY <1>3, EvaluationAssumption DEF TypeOK, InvocationEnds
  <2>2. /\ ended' \in [Calls -> Seq(Kinds \cup {"output"})]
        /\ \A u \in Calls : Len(ended'[u]) <= MaxInvocations
    BY <1>3, <2>1 DEF TypeOK, InvocationEnds
  <2> QED BY <1>3, <2>2 DEF InvocationEnds, Silent
<1>4. ASSUME NEW e \in Exceptions, CallFails(t, e)
      PROVE  Silent(t) \/ \E r \in Results : Computes(t, r)
  BY <1>4, FailedComputes DEF CallFails
<1>5. ASSUME NEW valid \in BOOLEAN, EvaluatorReturns(t, valid)
      PROVE  Silent(t) \/ \E r \in Results : Computes(t, r)
  <2> DEFINE r == Result(asked[t], "none", None, valid)
  <2>1. pc[t] # "returned" BY <1>5 DEF EvaluatorReturns
  <2>2. CASE UNCHANGED <<asked, cache>> /\ Raise(t)
    BY <2>1, <2>2, RaiseIsSilent
  <2>3. CASE /\ valid \/ asked[t].config.invalidScore = "use_failure_score"
             /\ ValidateAndKeep(t, r)
    <3>1. r \in Results BY <1>0 DEF Result, Results
    <3>2. /\ r.of = asked[t] /\ r.category = "none" /\ r.error = None
          /\ r.scored = valid /\ r.hit = FALSE
      BY DEF Result
    <3>3. Sound(r) BY <2>3, <3>2 DEF Sound
    <3>4. Keepable(r) BY <3>2, <3>3 DEF Keepable
    <3>5. Silent(t) \/ Computes(t, r)
      BY <2>1, <2>3, <3>1, <3>2, <3>3, <3>4, ValidatedComputes
    <3> QED BY <3>1, <3>5
  <2> QED BY <1>5, <2>2, <2>3 DEF EvaluatorReturns
<1> QED BY <1>1, <1>2, <1>3, <1>4, <1>5 DEF Step

\* A hit gives a call an entry of the store, marked as found.
LEMMA HitReturns ==
  ASSUME TypeOK, NEW t \in Calls, Hit(t)
  PROVE  \E e \in cache :
           LET r == [e.result EXCEPT !.hit = TRUE]
           IN /\ Cachable(asked[t]) /\ e.key = Key(asked[t])
              /\ e.key = Key(e.result.of) /\ e.result \in Results
              /\ r \in Results /\ r.hit /\ r.of = e.result.of
              /\ r.category = e.result.category /\ r.error = e.result.error
              /\ r.scored = e.result.scored
              /\ pc[t] # "returned" /\ Return(t, r)
              /\ UNCHANGED <<asked, cache>>
<1>1. PICK e \in cache :
        /\ Cachable(asked[t]) /\ e.key = Key(asked[t])
        /\ Return(t, [e.result EXCEPT !.hit = TRUE])
  BY DEF Hit, Found
<1>2. e.result \in Results /\ e.key = Key(e.result.of)
  BY DEF TypeOK
<1> QED BY <1>1, <1>2 DEF Hit, Results

----------------------------------------------------------------------------
(* Types.                                                                  *)

LEMMA TypeInit == Init => TypeOK
BY EvaluationAssumption DEF Init, TypeOK

\* Returning a result keeps the types of what a call is.
LEMMA ReturnTyped ==
  ASSUME TypeOK, NEW t \in Calls, NEW r \in Results, Return(t, r)
  PROVE  /\ pc' \in [Calls -> {"idle", "first", "evaluating", "failed",
                                "raised", "returned"}]
         /\ ended' \in [Calls -> Seq(Kinds \cup {"output"})]
         /\ \A u \in Calls : Len(ended'[u]) <= MaxInvocations
         /\ answer' \in [Calls -> Results \cup {None}]
         /\ \A u \in Calls : pc'[u] = "returned" <=> answer'[u] # None
<1>1. /\ <<>> \in Seq(Kinds \cup {"output"})
      /\ Len(<<>>) <= MaxInvocations
  BY EvaluationAssumption
<1>2. r # None BY NoneAssumption
<1> QED BY <1>1, <1>2 DEF Return, TypeOK

\* What the store is after a result was kept.
LEMMA KeepTyped ==
  ASSUME TypeOK, NEW c \in Cases, NEW r \in Results, r.of = c,
         cache' = Keep(c, r)
  PROVE  /\ \A e \in cache' :
              /\ e.result \in Results
              /\ e = [key |-> Key(e.result.of), result |-> e.result]
         /\ \A e, f \in cache' : e.key = f.key => e = f
<1> DEFINE new == [key |-> Key(c), result |-> r]
<1>1. new = [key |-> Key(new.result.of), result |-> new.result]
      /\ new.key = Key(c) /\ new.result \in Results
  OBVIOUS
<1>2. \A e \in cache' : e \in cache \/ e = new
  BY DEF Keep
<1>3. new \in cache' => \A e \in cache' : e = new \/ e.key # new.key
  <2>1. CASE Cachable(c) BY <1>1, <2>1 DEF Keep
  <2>2. CASE ~ Cachable(c) BY <2>2 DEF Keep, TypeOK
  <2> QED BY <2>1, <2>2
<1>4. ASSUME NEW e \in cache'
      PROVE  /\ e.result \in Results
             /\ e = [key |-> Key(e.result.of), result |-> e.result]
  BY <1>1, <1>2 DEF TypeOK
<1>5. ASSUME NEW e \in cache', NEW f \in cache', e.key = f.key PROVE e = f
  BY <1>2, <1>3, <1>5 DEF TypeOK
<1> QED BY <1>4, <1>5

LEMMA TypeStep == TypeOK /\ [Next]_vars => TypeOK'
<1> SUFFICES ASSUME TypeOK, [Next]_vars PROVE TypeOK'
  OBVIOUS
<1>1. CASE UNCHANGED vars
  BY <1>1 DEF vars, TypeOK
<1>2. ASSUME NEW t \in Calls, Step(t) PROVE TypeOK'
  <2>1. CASE Silent(t)
    BY <2>1 DEF Silent, TypeOK
  <2>2. ASSUME NEW r \in Results, Computes(t, r) PROVE TypeOK'
    <3>1. asked[t] \in Cases BY DEF TypeOK
    <3>2. /\ \A e \in cache' :
              /\ e.result \in Results
              /\ e = [key |-> Key(e.result.of), result |-> e.result]
          /\ \A e, f \in cache' : e.key = f.key => e = f
      <4>1. CASE UNCHANGED cache BY <4>1 DEF TypeOK
      <4>2. CASE cache' = Keep(asked[t], r)
        BY <2>2, <3>1, <4>2, KeepTyped DEF Computes
      <4> QED BY <2>2, <4>1, <4>2 DEF Computes
    <3> QED BY <2>2, <3>2, ReturnTyped DEF Computes, TypeOK
  <2>3. CASE Hit(t)
    <3>1. PICK r \in Results : Return(t, r) /\ UNCHANGED <<asked, cache>>
      BY <2>3, HitReturns
    <3> QED BY <3>1, ReturnTyped DEF TypeOK
  <2> QED BY <1>2, <2>1, <2>2, <2>3, StepCases
<1>3. CASE Clear BY <1>3 DEF Clear, TypeOK
<1> QED BY <1>1, <1>2, <1>3 DEF Next

\* Every variable keeps its type, and the store one result for a key.
THEOREM TypeCorrect == Spec => []TypeOK
BY TypeInit, TypeStep, PTL DEF Spec

----------------------------------------------------------------------------
(* What is kept and what is given.                                         *)

LEMMA InvariantInit == Init => IInv
<1> SUFFICES ASSUME Init PROVE IInv
  OBVIOUS
<1>1. TypeOK BY TypeInit
<1>2. Store BY DEF Init, Store
<1>3. Answered = {} BY DEF Init, Answered
<1> QED BY <1>1, <1>2, <1>3 DEF IInv, Answers

\* Calls that are not touched were answered as they are now.
LEMMA AnswersStep ==
  ASSUME TypeOK, Answers, NEW t \in Calls, NEW r, Return(t, r),
         UNCHANGED asked, Sound(r), ~ r.hit => r.of = asked[t],
         r.hit => /\ Cachable(asked[t]) /\ Cachable(r.of)
                  /\ Key(r.of) = Key(asked[t])
                  /\ r.category # "none" => r.of.config.cacheFailures
  PROVE  Answers'
<1>1. answer'[t] = r BY DEF Return, TypeOK
<1>2. \A u \in Calls \ {t} : /\ answer'[u] = answer[u]
                              /\ pc'[u] = pc[u]
  BY DEF Return, TypeOK
<1>3. ASSUME NEW u \in Answered'
      PROVE  /\ Sound(answer'[u])
             /\ ~ answer'[u].hit => answer'[u].of = asked'[u]
             /\ answer'[u].hit =>
                  /\ Cachable(asked'[u]) /\ Cachable(answer'[u].of)
                  /\ Key(answer'[u].of) = Key(asked'[u])
                  /\ answer'[u].category # "none"
                       => answer'[u].of.config.cacheFailures
  <2>1. CASE u = t BY <1>1, <2>1
  <2>2. CASE u # t
    <3>1. u \in Answered BY <1>2, <1>3, <2>2 DEF Answered
    <3>2. answer'[u] = answer[u] BY <1>2, <1>3, <2>2 DEF Answered
    <3> QED BY <3>1, <3>2 DEF Answers
  <2> QED BY <2>1, <2>2
<1> QED BY <1>3 DEF Answers, Sound, Cachable, Key, Encoded, Settings

LEMMA InvariantStep == IInv /\ [Next]_vars => IInv'
<1> SUFFICES ASSUME TypeOK, Store, Answers, [Next]_vars
             PROVE  Store' /\ Answers'
  BY TypeStep DEF IInv
<1>1. CASE UNCHANGED vars
  BY <1>1 DEF vars, Store, Answers, Answered
<1>2. ASSUME NEW t \in Calls, Step(t) PROVE Store' /\ Answers'
  <2>1. CASE Silent(t)
    <3>1. Answered' = Answered BY <2>1 DEF Silent, Answered, TypeOK
    <3> QED BY <2>1, <3>1 DEF Silent, Store, Answers
  <2>2. ASSUME NEW r \in Results, Computes(t, r) PROVE Store' /\ Answers'
    <3>1. Answers' BY <2>2, AnswersStep DEF Computes
    <3>2. CASE UNCHANGED cache BY <3>1, <3>2 DEF Store
    <3>3. CASE Keepable(r) /\ cache' = Keep(asked[t], r)
      BY <2>2, <3>1, <3>3 DEF Computes, Keep, Store
    <3> QED BY <2>2, <3>1, <3>2, <3>3 DEF Computes
  <2>3. CASE Hit(t)
    <3>1. PICK e \in cache :
            LET r == [e.result EXCEPT !.hit = TRUE]
            IN /\ Cachable(asked[t]) /\ e.key = Key(asked[t])
               /\ e.key = Key(e.result.of) /\ e.result \in Results
               /\ r \in Results /\ r.hit /\ r.of = e.result.of
               /\ r.category = e.result.category /\ r.error = e.result.error
               /\ r.scored = e.result.scored
               /\ pc[t] # "returned" /\ Return(t, r)
               /\ UNCHANGED <<asked, cache>>
      BY <2>3, HitReturns
    <3> DEFINE r == [e.result EXCEPT !.hit = TRUE]
    <3>2. Keepable(e.result) /\ Cachable(e.result.of) BY DEF Store
    <3>3. Sound(r) BY <3>1, <3>2 DEF Keepable, Sound
    <3>4. r.category # "none" => r.of.config.cacheFailures
      BY <3>1, <3>2 DEF Keepable
    <3>5. Answers' BY <3>1, <3>2, <3>3, <3>4, AnswersStep
    <3>6. Store' BY <3>1 DEF Store
    <3> QED BY <3>5, <3>6
  <2> QED BY <1>2, <2>1, <2>2, <2>3, StepCases
<1>3. CASE Clear BY <1>3 DEF Clear, Store, Answers, Answered
<1> QED BY <1>1, <1>2, <1>3 DEF Next

\* What is kept may be kept, and what was given was computed for the case or
\* found under its key.
THEOREM InvariantCorrect == Spec => []IInv
BY InvariantInit, InvariantStep, PTL DEF Spec

\* A result has the key of the case it was given for.
LEMMA KeyOfAnswer ==
  ASSUME IInv, NEW t \in Answered
  PROVE  Key(answer[t].of) = Key(asked[t])
BY DEF IInv, Answers

LEMMA AnswerTyped ==
  ASSUME TypeOK, NEW t \in Answered
  PROVE  answer[t] \in Results /\ asked[t] \in Case /\ answer[t].of \in Case
<1>1. t \in Calls /\ answer[t] # None BY DEF Answered, TypeOK
<1>2. answer[t] \in Results BY <1>1 DEF TypeOK
<1> QED BY <1>1, <1>2, CaseTyped DEF TypeOK, Results

LEMMA OwnFollows == IInv => FoundIsOwn
<1> SUFFICES ASSUME IInv, NEW t \in Answered, Short(asked[t])
             PROVE  LET own == asked[t]  of == answer[t].of
                    IN /\ Normalized[of.candidate] = Normalized[own.candidate]
                       /\ of.inputs = own.inputs
                       /\ of.stage = own.stage
                       /\ of.config.strategy = own.config.strategy
  BY DEF FoundIsOwn
<1>1. /\ asked[t].inputs \in Seq(Characters)
      /\ answer[t].of.inputs \in Seq(Characters)
  BY AnswerTyped DEF IInv, Case
<1>2. Key(answer[t].of) = Key(asked[t]) BY KeyOfAnswer
<1>3. Encoded(answer[t].of.inputs) = Encoded(asked[t].inputs)
  BY <1>2 DEF Key
<1>4. answer[t].of.inputs = asked[t].inputs
  BY <1>1, <1>3, EncodedShort DEF Short
<1> QED BY <1>2, <1>4 DEF Key

\* Within the encoder's limit a caller gets a result of its own candidate,
\* inputs, stage and strategy, whatever other calls keep in the store.
THEOREM FoundIsOwnCorrect == Spec => []FoundIsOwn
BY InvariantCorrect, OwnFollows, PTL

LEMMA PolicyFollows == IInv => PolicyRespected
<1> SUFFICES ASSUME IInv, NEW t \in Answered
             PROVE  LET g == asked[t].config  r == answer[t]
                    IN /\ r.category # "none" => r.category \in g.recorded
                       /\ r.category = "none" /\ ~ r.scored
                            => g.invalidScore = "use_failure_score"
                       /\ r.hit => /\ r.category # "none" => g.cacheFailures
                                   /\ Cachable(asked[t]) /\ Cachable(r.of)
                       /\ ~ r.hit => r.of = asked[t]
  BY DEF PolicyRespected
<1>1. Settings(answer[t].of.config) = Settings(asked[t].config)
  BY KeyOfAnswer DEF Key
<1>2. /\ answer[t].of.config.recorded = asked[t].config.recorded
      /\ answer[t].of.config.cacheFailures = asked[t].config.cacheFailures
      /\ answer[t].of.config.invalidScore = asked[t].config.invalidScore
  BY <1>1 DEF Settings
<1> QED BY <1>2 DEF IInv, Answers, Sound

\* No caller is given, computed or found, what its configuration excludes.
THEOREM PolicyCorrect == Spec => []PolicyRespected
BY InvariantCorrect, PolicyFollows, PTL

LEMMA BlameFollows == IInv => BlamedRightly
BY DEF IInv, Answers, Sound, BlamedRightly

\* A recorded failure is the task's exactly if the subject raised it.
THEOREM BlameCorrect == Spec => []BlamedRightly
BY InvariantCorrect, BlameFollows, PTL

----------------------------------------------------------------------------
(* What is kept was returned.                                              *)

LEMMA KeptInit == Init => KeptWasReturned
BY DEF Init, KeptWasReturned

\* A call that was answered stays so.
LEMMA AnsweredStays ==
  ASSUME TypeOK, NEW t \in Calls, pc[t] # "returned", NEW r, Return(t, r)
  PROVE  /\ t \in Answered' /\ answer'[t] = r
         /\ \A u \in Answered : u \in Answered' /\ answer'[u] = answer[u]
BY DEF TypeOK, Answered, Return

LEMMA KeptStep == TypeOK /\ KeptWasReturned /\ [Next]_vars => KeptWasReturned'
<1> SUFFICES ASSUME TypeOK, KeptWasReturned, [Next]_vars,
                    NEW e \in cache'
             PROVE  \E u \in Answered' : answer'[u] = e.result
  BY DEF KeptWasReturned
<1>1. CASE UNCHANGED vars
  BY <1>1 DEF vars, KeptWasReturned, Answered
<1>2. ASSUME NEW t \in Calls, Step(t)
      PROVE  \E u \in Answered' : answer'[u] = e.result
  <2>1. CASE Silent(t)
    BY <2>1 DEF Silent, TypeOK, Answered, KeptWasReturned
  <2>2. ASSUME NEW r \in Results, Computes(t, r)
        PROVE  \E u \in Answered' : answer'[u] = e.result
    <3>1. /\ t \in Answered' /\ answer'[t] = r
          /\ \A u \in Answered : u \in Answered' /\ answer'[u] = answer[u]
      BY <2>2, AnsweredStays DEF Computes
    <3>2. e \in cache \/ e.result = r BY <2>2 DEF Computes, Keep
    <3> QED BY <3>1, <3>2 DEF KeptWasReturned
  <2>3. CASE Hit(t)
    <3>1. PICK r \in Results : /\ pc[t] # "returned" /\ Return(t, r)
                              /\ UNCHANGED <<asked, cache>>
      BY <2>3, HitReturns
    <3>2. \A u \in Answered : u \in Answered' /\ answer'[u] = answer[u]
      BY <3>1, AnsweredStays
    <3> QED BY <3>1, <3>2 DEF KeptWasReturned
  <2> QED BY <1>2, <2>1, <2>2, <2>3, StepCases
<1>3. CASE Clear BY <1>3 DEF Clear
<1> QED BY <1>1, <1>2, <1>3 DEF Next

\* The store holds nothing but results that a call returned.
THEOREM KeptCorrect == Spec => []KeptWasReturned
BY TypeCorrect, KeptInit, KeptStep, PTL DEF Spec
=============================================================================
