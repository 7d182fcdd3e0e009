---------------------------- MODULE AdapterBatch ----------------------------
(***************************************************************************)
(* adapter.py, eventing.py, injections.py, harness.py: the evaluation of a *)
(* candidate on a batch, as a GEPA engine asks for it, from the text of the *)
(* candidate to what the engine, the observers and the reflection are told. *)
(*                                                                         *)
(* Some engines run at once, each in its own context, with a bridge and an *)
(* adapter of its own; they share the dispatcher of the run.               *)
(***************************************************************************)
EXTENDS SequencesExt, EventDispatch, ReflectiveEvidence, SchemaComponents, GEPABridge

CONSTANTS
  Main,           \* the context that starts the run
  Engines,        \* the contexts of the engines
  Serialization,  \* of every known component: "raw" or "json_string"
  Injections,     \* in order: kind, component, slot and serialization
  Model, Tool,    \* schema, root, fallback
  CandidatesOf,   \* of each engine: functions from components to [text, quotes]
  Updates,        \* the components a reflection is made for
  BatchOf,        \* the cases of each engine's batch
  OutcomesOf,     \* of each engine, what a rollout may give: failed, assertion, score
  CaseOf,         \* of each case: size, the selector's answer, hints
  Captures,       \* the engines that ask for trajectories
  Outers,         \* the scopes a run may be started in, or None
  RunFields,      \* what the scope of the run fills in
  BridgeFields,   \* what the bridges fill in
  Lifecycles,     \* of the bridges
  OtherCallbacks  \* what an engine may report beside the evaluation

ASSUME AdapterAssumption ==
  /\ Main \in Contexts /\ Engines \subseteq Contexts \ {Main}
  /\ MaxTricks \in Nat
  \* every observer of a dispatcher is one of its own
  /\ Locals \in Seq(Observers)
  /\ \A i, j \in DOMAIN Locals : Locals[i] = Locals[j] => i = j
  /\ \A i \in DOMAIN Locals : Locals[i] \notin Subscribers
  /\ \A w \in Engines : BatchOf[w] \in Seq(DOMAIN CaseOf)
  /\ Injections \in Seq(ToSet(Injections))
  \* the beginning and the end of the search are no other callbacks
  /\ OtherCallbacks \subseteq DOMAIN EvaluationCallback \cup DOMAIN ProgressCallback
                            \cup DOMAIN ProposalCallback \cup DOMAIN SearchCallback

\* None is no value of what it stands for the absence of.
ASSUME NoneAssumption ==
  /\ None # "outer" /\ None \notin Outers
  /\ None \notin [execution: {"run"}, parent: {None, "outer"},
                  stage: {None} \cup {s.stage : s \in Outers}, told: Seq(Observers)]

\* What cases and outcomes are made of.
ASSUME RecordAssumption ==
  /\ Updates \in Seq(ToSet(Updates))
  /\ \A w \in Engines : \A o \in OutcomesOf[w] : o.score \in {NoScore} \cup Int
  /\ \A c \in DOMAIN CaseOf :
       /\ CaseOf[c].size \in Nat /\ CaseOf[c].hints \in Seq(ToSet(CaseOf[c].hints))
       /\ CaseOf[c].selected = NoScore \/ CaseOf[c].selected \in Seq(ToSet(CaseOf[c].selected))

\* What candidates and injections are made of: a text is quoted once or not at
\* all, and the slot of the output type is its own.
ASSUME CandidateAssumption ==
  /\ \A n \in DOMAIN Serialization : Serialization[n] \in {"raw", "json_string"}
  /\ \A w \in Engines : \A c \in CandidatesOf[w] : \A n \in DOMAIN c :
       /\ c[n] = [text |-> c[n].text, quotes |-> c[n].quotes] /\ c[n].quotes \in {0, 1}
       /\ \A k \in {0, 1} : NoText # [text |-> c[n].text, quotes |-> k]
  /\ \A i \in DOMAIN Injections :
       /\ Injections[i].kind \in {"agent", "derived", "noop", "output"}
       /\ Injections[i].kind = "output" <=> Injections[i].slot = "output"

VARIABLES
  run,        \* "idle", "around", "running" or "over"
  outer,      \* the scope the run was started in
  lifecycle,
  phase,      \* where each engine is
  candidate,  \* what it evaluates
  queue,      \* the events it is about to emit
  entered,    \* the injections in force in its context: slot and value
  rolled,     \* the outcome of each case, or None
  result,     \* the EvaluationBatch, or None
  why,        \* what an evaluation that raised was in: "", "rollouts", "scoring", "told"
  evidence,   \* the reflective dataset and its builder, or None
  told        \* what was emitted

engineVars == <<phase, candidate, queue, entered, rolled, result, why, evidence>>
vars == <<dispatchVars, run, outer, lifecycle, engineVars, told>>

Phases == {"ready", "called", "starting", "injecting", "rolling", "failing", "scored",
           "completing", "returned", "raised", "reporting", "over"}

----------------------------------------------------------------------------
(* Candidates: a value is a text and how often it is quoted as JSON *)

Quoted(v) == [v EXCEPT !.quotes = @ + 1]

\* CandidateComponent.encode and decode; a text that is no JSON string is
\* refused.
Encode(mode, v) == IF mode = "raw" THEN v ELSE Quoted(v)
Decodes(mode, v) == mode = "raw" \/ v.quotes > 0
Decode(mode, v) == IF mode = "raw" THEN v ELSE [v EXCEPT !.quotes = @ - 1]

\* normalize_candidate: every known component in its own encoding.
Normalize(values) ==
  [n \in DOMAIN values |->
     IF n \notin DOMAIN Serialization THEN values[n]
     ELSE LET mode == Serialization[n] IN
          Encode(mode, IF Decodes(mode, values[n]) THEN Decode(mode, values[n]) ELSE values[n])]

\* The components of a schema are named by its target and their paths.
Entries == ModelEntries(Model.schema, Model.root, Model.fallback)
Paths == {Entries[i].path : i \in DOMAIN Entries}
Sharing == {p \in Paths : SharesNode(Model.schema, Model.root, Entries, p)}
Overlaying == {p \in Paths : Overlays(Model.schema, Model.root, Entries, p)}
Unreached == {p \in Paths : ~Reaches(Model.schema, Model.root, p)}

\* The output type has a schema whose walk ends: its texts are listed, are known
\* components, and lie, those of plain items apart, at a node of it.
ASSUME SchemaAssumption ==
  /\ IsSchema(Model.schema) /\ Model.root \in DOMAIN Model.schema
  /\ Entries \in Seq(ToSet(Entries))
  /\ \A p \in Paths :
       /\ p \in Seq(ToSet(p)) /\ <<"output">> \o p \in DOMAIN Serialization
       /\ p = Whole \/ p[Len(p)] = Item \/ NodeAt(Model.schema, Model.root, p) # NoText

ToolPaths == {ToolEntries(Tool.schema, Tool.root)[i].path :
                i \in DOMAIN ToolEntries(Tool.schema, Tool.root)}

Texts(target, paths, values) ==
  LET given == {p \in paths : <<target>> \o p \in DOMAIN values} IN
  [p \in given |-> Decode(Serialization[<<target>> \o p], values[<<target>> \o p])]

Output(values) ==
  OutputTexts(Model.schema, Model.root, Entries, Texts("output", Paths, values))

\* What a slot holds when no injection is in force: CandidateContext's default,
\* the agent's own instructions.
Baseline(slot) == IF slot = "output" THEN Output(<<>>) ELSE None

\* Injection.apply: when it does not raise, and what it puts in its slot.  The
\* derived value is that of a user who applies a tool's schema.
Applies(inj, values) ==
  CASE inj.kind = "agent" ->
         inj.component \in DOMAIN values /\ Decodes(inj.serialization, values[inj.component])
    [] inj.kind = "derived" -> inj.required \subseteq DOMAIN values
    [] inj.kind = "noop" -> inj.component \in DOMAIN values
    [] inj.kind = "output" -> TRUE

Injected(inj, values) ==
  CASE inj.kind = "agent" -> Decode(inj.serialization, values[inj.component])
    [] inj.kind = "derived" ->
         ToolTexts(Tool.schema, Tool.root, Texts("tool", ToolPaths, values))
    [] inj.kind = "noop" -> None
    [] inj.kind = "output" -> Output(values)

InForce(w, slot) ==
  LET set == {i \in DOMAIN entered[w] : entered[w][i].slot = slot} IN
  IF set = {} THEN Baseline(slot) ELSE entered[w][Max(set)].value

----------------------------------------------------------------------------
(* Events *)

Event(w, from, kind, at, fields) ==
  [of |-> w, from |-> from, kind |-> kind, at |-> at,
   stage |-> None, parent |-> None, fields |-> fields]

Open == [f \in Fields |-> None]
SinkEvent(w, kind, at) == Event(w, "sink", kind, at, Open)
ObserverEvent(w) == Event(w, "observer", "BackendProgress", 0, Open)

BridgeEvents(w, callback) ==
  LET kinds == Translated(callback, lifecycle) IN
  [i \in DOMAIN kinds |-> Event(w, "bridge", kinds[i], 0, BridgeFields)]

\* EvaluationEventSink.completed: a case and its metric for every record.
CompletedEvents(w) ==
  [j \in 1..2 * Len(result[w].records) |->
     SinkEvent(w, IF j % 2 = 1 THEN "CaseEvaluated" ELSE "MetricCompleted", (j + 1) \div 2)]
  \o <<SinkEvent(w, "EvaluationCompleted", 0), SinkEvent(w, "CandidateEvaluated", 0)>>

\* EvaluationEventSink.failed.
FailedEvents(w) ==
  <<SinkEvent(w, "EvaluationSkipped", 0), SinkEvent(w, "BackendError", 0)>>

----------------------------------------------------------------------------
(* The run *)

Setting ==
  /\ run \in {"idle", "around"}
  /\ \/ \E o \in Subscribers : Subscribe(Main, o)
     \/ \E o \in Subscribers : Holds(subscribers[Main], o) /\ Close(Main, o)
  /\ UNCHANGED <<scopes, dispatcher, delivery, run, outer, lifecycle, engineVars, told>>

Around == [execution |-> "outer", stage |-> None]

\* The run is started inside a scope of somebody else's.
EnterAround(s) ==
  /\ run = "idle" /\ run' = "around" /\ outer' = s
  /\ EnterScope(Main, Around, s.stage, s.parent, s.fields)
  /\ UNCHANGED <<subscription, dispatcher, delivery, lifecycle, engineVars, told>>

\* A dispatcher is made, its scope is entered, and the engines get copies of
\* the context.
StartRun(l) ==
  /\ run \in {"idle", "around"} /\ run' = "running" /\ lifecycle' = l
  /\ l = "full" => run = "idle"   \* a bridge of its own, outside a run of ours
  /\ LET d == Dispatcher(Main, "run")
         s == Append(scopes[Main], Entered(Main, d, None, None, RunFields)) IN
     /\ dispatcher' = d
     /\ scopes' = [k \in Contexts |-> s]
     /\ subscribers' = [k \in Contexts |-> subscribers[Main]]
  /\ UNCHANGED <<closed, delivery, outer, engineVars, told>>

EndRun ==
  /\ run = "running" /\ run' = "over"
  /\ \A w \in Engines : phase[w] = "over"
  /\ ExitScopes(Main)
  /\ UNCHANGED <<subscription, dispatcher, delivery, outer, lifecycle, engineVars, told>>

\* The engine calls: what was started before reaches the observers first.
Begin(w, c) ==
  /\ run = "running" /\ phase[w] = "ready"
  /\ phase' = [phase EXCEPT ![w] = "called"]
  /\ candidate' = [candidate EXCEPT ![w] = c]
  /\ queue' = [queue EXCEPT ![w] = BridgeEvents(w, "on_optimization_start")
                                   \o BridgeEvents(w, "on_evaluation_start")]
  /\ UNCHANGED <<dispatchVars, run, outer, lifecycle, entered, rolled, result, why,
                 evidence, told>>

----------------------------------------------------------------------------
(* Emission by an engine *)

Quiet(w) == Idle(w) /\ queue[w] = <<>>

Tell(w) ==
  /\ queue[w] # <<>> /\ Idle(w)
  /\ Emit(w, Head(queue[w]), None)
  /\ told' = told \cup {[of |-> w, from |-> Head(queue[w]).from,
                         kind |-> Head(queue[w]).kind, at |-> Head(queue[w]).at]}
  /\ queue' = [queue EXCEPT ![w] = Tail(@)]
  /\ UNCHANGED <<scopes, dispatcher, run, outer, lifecycle, phase, candidate, entered,
                 rolled, result, why, evidence>>

\* An emission that raises ends the evaluation; raised through a callback of
\* the bridge it ends the engine, or the engine passes over it.
Undone(w) ==
  /\ queue' = [queue EXCEPT ![w] = <<>>]
  /\ phase' = [phase EXCEPT ![w] =
       IF @ \in {"starting", "failing", "completing"} THEN "raised" ELSE "over"]
  /\ why' = [why EXCEPT ![w] = IF @ = "" THEN "told" ELSE @]
  /\ UNCHANGED <<candidate, entered, rolled, result, evidence>>

TellReturns(w) ==
  /\ Leave(w)
  /\ \/ LeavesWith(w) /\ Undone(w)
     \/ (LeavesWith(w) => phase[w] \in {"called", "reporting"}) /\ UNCHANGED engineVars
  /\ UNCHANGED <<scopes, dispatcher, run, outer, lifecycle, told>>

Observes(w) ==
  /\ \/ Returns(w) \/ Raises(w) \/ ClosesItself(w) \/ NestedReturns(w)
     \/ EmitsItself(w, ObserverEvent(w))
  /\ UNCHANGED <<scopes, dispatcher, run, outer, lifecycle, engineVars, told>>

Interrupted(w) ==
  /\ Interrupts(w) /\ Undone(w)
  /\ UNCHANGED <<scopes, dispatcher, run, outer, lifecycle, told>>

----------------------------------------------------------------------------
(* The evaluation *)

Go(w, from, to) ==
  /\ phase[w] = from /\ Quiet(w)
  /\ phase' = [phase EXCEPT ![w] = to]
  /\ UNCHANGED <<scopes, dispatcher, run, outer, lifecycle, told>>

Fault ==
  /\ tricks < MaxTricks /\ tricks' = tricks + 1
  /\ UNCHANGED <<subscription, number, lock, calls, heard, nested, missed>>

\* evaluate: the candidate is normalised and the evaluation announced.
Evaluate(w) ==
  /\ Go(w, "called", "starting")
  /\ candidate' = [candidate EXCEPT ![w] = Normalize(@)]
  /\ queue' = [queue EXCEPT ![w] = <<SinkEvent(w, "EvaluationStarted", 0)>>]
  /\ UNCHANGED <<subscription, delivery, entered, rolled, result, why, evidence>>

Announced(w) ==
  /\ Go(w, "starting", IF Injections = <<>> THEN "rolling" ELSE "injecting")
  /\ UNCHANGED <<subscription, delivery, candidate, queue, entered, rolled, result, why,
                 evidence>>

\* Mutant: what was entered stays when a later injection raises.
FailLeaving(w) ==
  /\ queue' = [queue EXCEPT ![w] = FailedEvents(w)]
  /\ why' = [why EXCEPT ![w] = "rollouts"]
  /\ UNCHANGED <<candidate, entered, rolled, result, evidence>>

\* Mutant: the observers are not told.
FailSilently(w) ==
  /\ queue' = [queue EXCEPT ![w] = <<>>]
  /\ entered' = [entered EXCEPT ![w] = <<>>]
  /\ why' = [why EXCEPT ![w] = "rollouts"]
  /\ UNCHANGED <<candidate, rolled, result, evidence>>

\* The scope is left, and the observers are told before the error goes on.
Fail(w) ==
  /\ queue' = [queue EXCEPT ![w] = FailedEvents(w)]
  /\ entered' = [entered EXCEPT ![w] = <<>>]
  /\ why' = [why EXCEPT ![w] = "rollouts"]
  /\ UNCHANGED <<candidate, rolled, result, evidence>>

\* injection_scope: one injection after the other.
Inject(w) ==
  /\ Len(entered[w]) < Len(Injections)
  /\ LET inj == Injections[Len(entered[w]) + 1] IN
     IF Applies(inj, candidate[w])
     THEN /\ Go(w, "injecting",
                IF Len(entered[w]) + 1 = Len(Injections) THEN "rolling" ELSE "injecting")
          /\ entered' = [entered EXCEPT ![w] =
                Append(@, [slot |-> inj.slot, value |-> Injected(inj, candidate[w])])]
          /\ UNCHANGED <<candidate, queue, rolled, result, why, evidence>>
     ELSE Go(w, "injecting", "failing") /\ Fail(w)
  /\ UNCHANGED <<subscription, delivery>>

\* The dataset runs the cases, in any order.
Roll(w, i, o) ==
  /\ Go(w, "rolling", "rolling")
  /\ rolled[w][i] = None
  /\ rolled' = [rolled EXCEPT ![w][i] = o]
  /\ UNCHANGED <<subscription, delivery, candidate, queue, entered, result, why, evidence>>

\* The dataset cannot be made, or evaluate() raises or is interrupted; or an
\* injection that has its components is: in derive_value, in override.
RolloutsRaise(w) ==
  /\ \E from \in {"injecting", "rolling"} : Go(w, from, "failing")
  /\ Fail(w) /\ Fault

Batch(w) == [i \in DOMAIN BatchOf[w] |-> i]

\* The report: the cases that ran, and then those that failed.
Records(w) ==
  LET failures == {i \in DOMAIN BatchOf[w] : rolled[w][i].failed} IN
  Ascending(DOMAIN BatchOf[w] \ failures) \o Ascending(failures)

ScoreOf(w, i) ==
  IF rolled[w][i].failed THEN Objective.failure_score ELSE Extract(rolled[w][i].score)

\* Mutant: the scores are put in the order of the batch, the records are not.
EvaluationBatchMixed(w) ==
  [records |-> Records(w),
   outputs |-> [k \in DOMAIN Records(w) |->
                  IF rolled[w][Records(w)[k]].failed THEN None ELSE Records(w)[k]],
   scores |-> [i \in DOMAIN BatchOf[w] |-> ScoreOf(w, i)]]

\* evaluate: outputs, scores and trajectories, record by record.
EvaluationBatch(w) ==
  [records |-> Records(w),
   outputs |-> [k \in DOMAIN Records(w) |->
                  IF rolled[w][Records(w)[k]].failed THEN None ELSE Records(w)[k]],
   scores |-> [k \in DOMAIN Records(w) |-> ScoreOf(w, Records(w)[k])]]

\* The scope is left and the report is scored.
Score(w) ==
  /\ Go(w, "rolling", "scored")
  /\ \A i \in DOMAIN BatchOf[w] : rolled[w][i] # None
  /\ entered' = [entered EXCEPT ![w] = <<>>]
  /\ result' = [result EXCEPT ![w] = EvaluationBatch(w)]
  /\ UNCHANGED <<subscription, delivery, candidate, queue, rolled, why, evidence>>

\* The recorder takes it; the observers are told.
Record(w) ==
  /\ Go(w, "scored", "completing")
  /\ queue' = [queue EXCEPT ![w] = CompletedEvents(w)]
  /\ UNCHANGED <<subscription, delivery, candidate, entered, rolled, result, why, evidence>>

\* The recorder, or the objective, raises: nobody is told.
ScoringRaises(w) ==
  /\ Go(w, "scored", "raised") /\ Fault
  /\ why' = [why EXCEPT ![w] = "scoring"]
  /\ result' = [result EXCEPT ![w] = None]
  /\ UNCHANGED <<candidate, queue, entered, rolled, evidence>>

Return(w) ==
  /\ Go(w, "completing", "returned")
  /\ UNCHANGED <<subscription, delivery, candidate, queue, entered, rolled, result, why,
                 evidence>>

Raise(w) ==
  /\ Go(w, "failing", "raised")
  /\ UNCHANGED <<subscription, delivery, candidate, queue, entered, rolled, result, why,
                 evidence>>

----------------------------------------------------------------------------
(* The engine goes on *)

\* A record as the builder reads it; the adapter's trajectories have no traces.
RecordOf(w, k) ==
  LET i == result[w].records[k]
      o == rolled[w][i]
      c == CaseOf[BatchOf[w][i]] IN
  [case |-> BatchOf[w][i], score |-> result[w].scores[k], error |-> o.failed,
   assertion |-> o.assertion, size |-> c.size, selected |-> c.selected,
   traces |-> <<>>, hints |-> c.hints]

RecordsOf(w) == [k \in DOMAIN result[w].records |-> RecordOf(w, k)]

\* make_reflective_dataset, for an evaluation with trajectories and with any of
\* the builders that the adapter can have.
Reflect(w) ==
  /\ Go(w, "returned", "reporting")
  /\ \E b \in Builders :
       evidence' = [evidence EXCEPT ![w] =
         IF w \in Captures
         THEN [builder |-> b, shown |-> Evidence(b, RecordsOf(w), Updates)] ELSE <<>>]
  /\ \E callback \in OtherCallbacks :
       queue' = [queue EXCEPT ![w] = BridgeEvents(w, "on_evaluation_end")
                    \o BridgeEvents(w, callback) \o BridgeEvents(w, "on_optimization_end")]
  /\ UNCHANGED <<subscription, delivery, candidate, entered, rolled, result, why>>

\* The engine reports the error; it ends, or goes on to its end.
Report(w) ==
  /\ Go(w, "raised", "reporting")
  /\ queue' \in {[queue EXCEPT ![w] = BridgeEvents(w, "on_fatal_error")],
                 [queue EXCEPT ![w] = BridgeEvents(w, "on_error")
                                      \o BridgeEvents(w, "on_optimization_end")]}
  /\ UNCHANGED <<subscription, delivery, candidate, entered, rolled, result, why, evidence>>

\* The frames of the evaluation are gone.
Done(w) ==
  /\ Go(w, "reporting", "over")
  /\ candidate' = [candidate EXCEPT ![w] = None]
  /\ rolled' = [rolled EXCEPT ![w] = [i \in DOMAIN BatchOf[w] |-> None]]
  /\ result' = [result EXCEPT ![w] = None] /\ evidence' = [evidence EXCEPT ![w] = None]
  /\ why' = [why EXCEPT ![w] = ""]
  /\ UNCHANGED <<subscription, delivery, queue, entered>>

Rest == run = "over" /\ UNCHANGED vars

Init ==
  /\ DispatchInit
  /\ run = "idle" /\ outer = None /\ lifecycle = None
  /\ phase = [w \in Engines |-> "ready"]
  /\ candidate = [w \in Engines |-> None]
  /\ queue = [w \in Engines |-> <<>>]
  /\ entered = [w \in Engines |-> <<>>]
  /\ rolled = [w \in Engines |-> [i \in DOMAIN BatchOf[w] |-> None]]
  /\ result = [w \in Engines |-> None]
  /\ why = [w \in Engines |-> ""]
  /\ evidence = [w \in Engines |-> None]
  /\ told = {}

EngineNext(w) ==
  \/ \E c \in CandidatesOf[w] : Begin(w, c)
  \/ Tell(w) \/ TellReturns(w) \/ Observes(w) \/ Interrupted(w)
  \/ Evaluate(w) \/ Announced(w) \/ Inject(w)
  \/ \E i \in DOMAIN BatchOf[w], o \in OutcomesOf[w] : Roll(w, i, o)
  \/ RolloutsRaise(w) \/ Score(w) \/ Record(w) \/ ScoringRaises(w)
  \/ Return(w) \/ Raise(w) \/ Reflect(w) \/ Report(w) \/ Done(w)

Next ==
  \/ Setting
  \/ \E s \in Outers : EnterAround(s)
  \/ \E l \in Lifecycles : StartRun(l)
  \/ \E w \in Engines : EngineNext(w)
  \/ EndRun
  \/ Rest

Spec == Init /\ [][Next]_vars

----------------------------------------------------------------------------
(* Properties *)

TypeOK ==
  /\ run \in {"idle", "around", "running", "over"}
  /\ outer \in Outers \cup {None} /\ lifecycle \in Lifecycles \cup {None}
  /\ phase \in [Engines -> Phases]
  /\ why \in [Engines -> {"", "rollouts", "scoring", "told"}]
  /\ lock \in Contexts \cup {None} /\ number \in Nat /\ tricks \in 0..MaxTricks
  /\ \A c \in Contexts :
       /\ ~Idle(c) <=> lock = c
       /\ \A i \in DOMAIN calls[c] : ToSet(calls[c][i].todo) \subseteq Observers
  /\ \A w \in Engines :
       /\ Len(entered[w]) <= Len(Injections)
       /\ rolled[w] \in [DOMAIN BatchOf[w] -> OutcomesOf[w] \cup {None}]

\* An event of a run started inside another's scope names the other execution as
\* its parent, unless that scope was given a parent (as an engine's is: who
\* produced its seed), which it then names instead; its stage, step and engine are
\* the innermost scope's, whichever context it comes from, and what its sender
\* filled in stays (emit, _event_scope, GEPAEventBridge._emit).
CorrelatedByScope ==
  \A c \in Contexts : \A i \in DOMAIN calls[c] :
    LET e == calls[c][i].event IN
    /\ e.parent = IF outer = None THEN None ELSE Given(outer.parent, "outer")
    /\ e.stage = IF outer = None THEN None ELSE outer.stage
    /\ \A f \in Fields :
         e.fields[f] = Given(IF e.from = "bridge" THEN BridgeFields[f] ELSE None,
                             Given(RunFields[f], IF outer = None THEN None ELSE outer.fields[f]))

Sunk(w, kind, at) == [of |-> w, from |-> "sink", kind |-> kind, at |-> at] \in told
Bridged(w, kind) == [of |-> w, from |-> "bridge", kind |-> kind, at |-> 0] \in told

\* An evaluation that is told as completed is told case by case first; one that
\* returns is told as completed, one whose rollouts raised as skipped, and none
\* as both (PydanticGEPAAdapter.evaluate, EvaluationEventSink).  The run's end
\* is told by a bridge only if the run is the bridge's own, and once.
StreamWellFormed ==
  \A w \in Engines :
    /\ Sunk(w, "EvaluationCompleted", 0) =>
         /\ Sunk(w, "EvaluationStarted", 0) /\ ~Sunk(w, "EvaluationSkipped", 0)
         /\ \A i \in DOMAIN BatchOf[w] : Sunk(w, "CaseEvaluated", i) /\ Sunk(w, "MetricCompleted", i)
    /\ phase[w] = "returned" => Sunk(w, "EvaluationCompleted", 0) /\ Sunk(w, "CandidateEvaluated", 0)
    /\ phase[w] = "raised" /\ why[w] = "rollouts" => Sunk(w, "EvaluationSkipped", 0)
    /\ lifecycle = "backend_only" => \A k \in RunKinds : ~Bridged(w, k)
    /\ Bridged(w, "RunCompleted") \/ Bridged(w, "RunFailed") => Bridged(w, "RunStarted")
    /\ ~(Bridged(w, "RunCompleted") /\ Bridged(w, "RunFailed"))

\* The outputs, scores and records of a batch are those of one case at every
\* position, and of the case at that position of the batch unless a case failed
\* before one that did not (evaluate).
RowsBelongTogether ==
  \A w \in Engines : result[w] # None =>
    LET r == result[w]
        failed(i) == rolled[w][i].failed IN
    /\ Len(r.scores) = Len(BatchOf[w]) /\ ToSet(r.records) = DOMAIN BatchOf[w]
    /\ \A k \in DOMAIN r.records :
         /\ r.scores[k] = ScoreOf(w, r.records[k])
         /\ r.outputs[k] = IF failed(r.records[k]) THEN None ELSE r.records[k]
    /\ (\A i, j \in DOMAIN BatchOf[w] : i < j /\ failed(i) => failed(j)) =>
         r.records = Batch(w)

\* Rollouts see the candidate's own texts: the agent's instructions without
\* quotes, and every description of the output type, those apart that share a
\* definition, stand beside a reference to one with another text, belong to a
\* field that the output type does not reach or to one called "description";
\* when the evaluation is left, however it is, nothing of it is in force.
InjectionsScoped ==
  \A w \in Engines :
    /\ phase[w] = "rolling" =>
         /\ \A i \in DOMAIN Injections :
              /\ Injections[i].kind = "agent" /\ Injections[i].serialization = "json_string"
              /\ \A j \in DOMAIN Injections : j > i => Injections[j].slot # Injections[i].slot
              => InForce(w, Injections[i].slot).quotes = 0
         /\ (\E i \in DOMAIN Injections : Injections[i].kind = "output") =>
              \A p \in Paths \ (Sharing \cup Overlaying \cup Unreached \cup {Masked}) :
                <<"output">> \o p \in DOMAIN candidate[w]
                => InForce(w, "output")[p] = Texts("output", Paths, candidate[w])[p]
    /\ phase[w] \notin {"injecting", "rolling"} => entered[w] = <<>>

\* What docs/injections.md says of the output type: it has the candidate's field
\* descriptions.
EveryTextInjected ==
  \A w \in Engines : phase[w] = "rolling" =>
    \A p \in Paths : <<"output">> \o p \in DOMAIN candidate[w] =>
      InForce(w, "output")[p] = Texts("output", Paths, candidate[w])[p]

\* The reflection on a component is shown the first of the records that are
\* routed to it, and of no others, as many as the builder admits and as fit, in
\* the order it asks for, with equals as they came (build).
EvidenceIsSelection ==
  \A w \in Engines : evidence[w] \notin {None, <<>>} =>
    LET b == evidence[w].builder IN
    \A n \in ToSet(Updates) :
      IsSelection(b, evidence[w].shown[n], Routed(b, RecordsOf(w), Updates, n))
=============================================================================
