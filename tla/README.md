# pydantic-gepa: formal models

TLA+ models of pydantic-gepa, a library that optimizes the text components of
typed applications with GEPA. TLC checks the models on small instances, and
TLAPS proves most of what TLC checks for every value of the constants. The code
is the reference: every definition of a model is translated from the lines that
`PROJECT.json` ("map") names. Paths below are relative to
`src/src/pydantic_gepa/`.

## 1. The system

| Component | Files | State it keeps | Operations | Modules |
| --- | --- | --- | --- | --- |
| Run store | `state/` | a run directory: marker, state, manifest, result, snapshots | prepare, checkpoint, write_*, load_*, reset | `AtomicStore`, `RunStore` |
| Plan and stages | `orchestration/` | the run's stages, candidate and budget, in memory and in the store | `Plan.arun` | `PlanLedger`, `PlanExecution` |
| GEPA optimizer | `optimizer.py` | one search, in memory and in the store | `optimize` | `OptimizerRun` |
| Runtime | `runtime/execution.py`, `harness.py` | a semaphore, the scopes in force | `arun`, `run` | `Runtime` |
| Evaluation | `evaluation/runner.py`, `context.py`, `cache.py`, `models.py` | the cache; per call invocations, traces, errors | `arun`, `run` | `Evaluation` |
| Data and rescoring | `evaluation/data.py` | none | partition, sample, rescore | not modelled |
| Evidence | `evaluation/evidence.py`, `traces.py`, `values.py` | none | encode with limits | strings in `Evaluation` |
| Event dispatch | `events.py` | sequence numbers, a lock, subscribers, scopes | emit, subscribe, close, scopes | `EventDispatch` |
| Sinks, bridge, observers | `eventing.py`, `recorder.py`, `observers.py` | counters | translate and forward | `GEPABridge`, `AdapterBatch` |
| Evals adapter and harness | `adapter.py`, `harness.py` | none across calls | evaluate, reflective dataset | `AdapterBatch`; thread hand-over in `Runtime` |
| Schema components | `schema_components.py` | none | collect, apply | `SchemaComponents` |
| Candidates, components | `candidates.py`, `components.py` | none | fingerprint, encode, select | values of `PlanExecution`; encoding in `AdapterBatch` |
| Injections | `injections.py` | context variables | apply, restore | `AdapterBatch`, `SchemaComponents`; scopes of `Runtime` |
| Objectives, ASI | `objectives.py`, `asi.py` | none | extract, route, select | `ReflectiveEvidence` |
| Reflection | `reflection.py`, `integrations/` | usage records | call with retries | not modelled |
| optimize_anything | `experimental/optimize_anything/` | tracker of engine invocations; a pipeline's state in the store | optimize | `EngineTracker`, `Composition` |
| Configuration, results | `configuration/`, `results.py` | none | validate, normalize | inputs and values of the run models |
| Examples API, CLI, contracts | `examples.py`, `cli.py`, `contracts.py`, `compat.py`, `errors.py` | none | forward, print | not modelled |

**How they interact.** `Plan.arun` and `PydanticGEPAOptimizer.optimize` (also
as a stage of a plan) claim a run directory with `prepare`, save their progress
with `checkpoint` and publish with `write_result` and a last checkpoint. They
tell observers through the dispatcher, synchronously; with
`observer_error_policy="raise"` (the default of a run) an observer that raises
interrupts the code that emitted, wherever that is. The GEPA backend calls the
adapter, the adapter the harness, and an evaluation the runtime, which runs the
subject inside the scopes of a candidate. `run()` entry points drive the same
coroutines from synchronous code, on a thread of their own where a loop runs.

**What is hard.** A process may die between any two file operations, and the
next one goes on from what it finds. A store call can raise after half of its
files were written. Observers raise in the middle of bookkeeping. Stages lie
about their budget and change components they do not own. Concurrent rollouts
share context and a semaphore, are cancelled at any await, and block a loop
when they are made synchronously on it. `PROJECT.json` ("hazards") lists these
at their lines, also those no property covers.

**What makes each part correct**

- Store: a resumed process finds one run's state and result, whole; what was
  acknowledged stays; a directory can be claimed again.
- Plan: stages share one budget; only accepted work of targeted components is
  carried; the checkpoint is what the process knows; a run that is marked
  completed has its result; every run ends.
- Optimizer: observers, caller and directory agree on how a call ended, and an
  answer once given stays.
- Runtime: a rollout sees its own candidate only; what it set is put back; no
  place is lost; every call ends.
- Evaluation: a cache hit is what an evaluation of this very case returned;
  failures are blamed on who caused them; cancellation is never a score.
- Dispatch: every observer is told the same events; in one order, unless one
  emits while it is told; events name the run they belong to.
- Adapter: outputs, scores and records correspond; rollouts see the candidate's
  own texts, those that the output type reaches, and nothing of it stays; what
  observers are told of an evaluation is how it ended; a reflection is shown the
  records its rules call for, each at its place.
- optimize_anything: results are attributed to the invocation that produced
  them, slices cut off after a whole one apart; a resumed pipeline repeats no
  completed step; budgets count every run once.

## 2. Modules

In the order they were written:

**`AtomicStore`** is what a run store promises: a directory that is claimed or
not, a state and a result, each changed in one step. **`RunStore`** is
`FileRunStore` one file operation at a time. A store call computes the list of
operations it will do (`Call`); `DiskStep` does the next, `DiskError` is an
OSError (a temporary may be left), `Crash` loses the process. `Prepare` has all
branches of `prepare`: marker, manifest and fingerprint checks, resume policies,
reset, the new run's three writes. `ImplementsAtomicStore` refines it to
`AtomicStore`, with both variables read as `None` while the marker is missing.
The modules above the store instantiate `AtomicStore`, so what they assume of
the store is what `RunStore` is shown to keep.

**`PlanExecution`** is `Plan._execute`. `pc` names where the coroutine is, and
`ThenGoTo` is an emitted event: the code goes on, or an observer raises. One
action stands for the code from one store call, stage call or event to the
next. A stage may return any candidate, any number of calls or none, or raise;
the run may be cancelled in a stage and crash anywhere. `trial` is the stage
under way; `late` in a stage's result counts what it was charged a second time
(`FailStage`). History variables (`origin`, `resumedAt`, `events`) occur in
properties only. **`PlanLedger`** is the plan as a reader of the directory sees
it: a ledger that grows by one stage at a time, within the budget, and is
published once. `ImplementsLedger` is the refinement.

**`OptimizerRun`** is `optimize` and `_execute` over `AtomicStore`, with or
without a directory. `Raise` is the exception, or the interrupt, of whatever
is under way: the backend, the store, an observer. The search is external: it
returns a result or raises. `answered` and `spoiled` are history.

**`Runtime`** is `Runtime.arun` for concurrent calls. `EnterScope` and
`LeaveScope` are one scope or injection each: they save and put back one slot
(a context variable, an attribute of a shared subject). In a serialized runtime
all calls share the slots, in the others each has its own (`ContextOf`).
`made` says how a call was made: `arun()` on a loop, which runs one task at a
time from await to await (`LoopRuns`), or `run()` from code on a loop, which
blocks that loop (`Blocked`) while its thread polls and works.

**`Evaluation`** is `Evaluation.arun` for calls over one `CacheStore`, by
evaluations that differ in configuration. What happens before the first await
and after the last is one action each, since the store is looked at once in the
one and changed once in the other. `ended` is the call's `Context`: how its
invocations ended, in that order, which is all an evaluation asks of it. An
exception is known by the invocation that raised it (`Exception`), so that the
evaluator can raise any of them again, or one of its own. `of` in a result
stands for what the result was computed from; `Key` and `Encoded` are what the
code makes of a case to look it up.

**`EngineTracker`** is `ExecutionTracker` with the engines it observes: what was
started, completed, failed or deferred, who produced which candidate, and how
`resolve` finds the invocation of a result. **`Composition`** is `optimize` of
optimize_anything over `AtomicStore`: any number of calls on one directory, each
for one engine, a vote, siblings at once, slices with a budget or a pipeline of
such steps. `pc` follows the call; `frame` is what it holds beside the tracker;
interrupts and crashes may come at every step. An ensemble is external: which
engine it runs next (`MayRun`, `NextSeed`) and which results it lists (`Listed`).

**`EventDispatch`** is `events.py`: the subscriptions and scopes of every context
(a thread or task with its own context variables) and emission as a call. `calls`
holds, for each context, the emissions in progress; an observer that is told may
return, raise, interrupt, emit on the same dispatcher (the lock is re-entrant) or
close its handle. `heard`, `nested` and `missed` are history.

**`SchemaComponents`** walks a JSON schema (a graph of nodes with references) for
its texts and writes a candidate's back, as `schema_components.py` does; `Shown`
is what the output type of `injections.py` makes of it. A property of a schema
carries what its field is to that output type (`model`, `aliased`, `value`), of
which `Reaches` says whether an override gets to it. **`ReflectiveEvidence`**
is the score of a case and the routing, ordering and bounding of the records a
reflection gets, by any of a set of builders; `IsSelection` is the definition it
is checked against: it maps what is shown to places among the routed records.
**`GEPABridge`** says which events a callback of an engine is told as.

**`AdapterBatch`** composes the four: engines that run at once in contexts of
their own ask `PydanticGEPAAdapter` for an evaluation. Each step of `evaluate`
that can raise is an action; what it tells is put into `queue` and told event by
event (`Tell`, `TellReturns`), so that engines interleave wherever the
dispatcher's lock lets them. Cases are rolled out in any order, with any outcome
of `OutcomesOf`. An injection raises when its component is missing or cannot be
decoded (`Applies`), or for reasons of its own (`RolloutsRaise`: `derive_value`,
an override, a component's decoder), as the rollouts may. What an engine does
after an error (`Report`) is external.

### What may come next

Partition and sampling of `evaluation/data.py`; retries and usage of
`reflection.py`.

## 3. Runs

| Run | What it asks | Bounds |
| --- | --- | --- |
| `store` | Is what processes find the store `AtomicStore` describes, after crashes and OSErrors between any two file operations? | 3 processes, 2 runs, checkpoints 0..2, 2 fingerprints |
| `plan` | Are budget, candidate, checkpoint, events and ledger right for every mix of stages, failures, crashes and resumptions, and does every run end, its budget spent or not? | 2 stages of 2 calls, budget 3, 2 components, 2 values, 2 seeds, 2 processes |
| `plan_stop_lost` | (violated) Is a failed stage the last of a plan that stops on failure? | as `plan`, with a budget or none, 1 seed, 3 processes |
| `plan_overrun` | (violated) Is what is spent within the budget? | as above |
| `optimizer` | Do directory, events and answers of a run agree? | 3 calls, 2 candidates, 2 fingerprints |
| `optimizer_rerun` | (violated) Are all callers given one answer? | as `optimizer` |
| `runtime` | Are places and slots right, does every call end? | 3 calls, 1 or 2 loops, 2 scopes on one slot, 1, 2 or unlimited places |
| `evaluation` | Is what is kept and found the caller's own, allowed by its configuration and blamed rightly? | 2 calls, 13 cases, 2 invocations a call, strings of up to 3 with a limit of 2 |
| `composition` | Do directory, lineage, budget and answers agree, however calls of optimize end and go on? | 7 compositions of up to 2 steps of all 6 kinds, 2 engines, 2 values, 3 slices, any number of calls |
| `composition_siblings` | (violated) Do the runs of a parallel step report one parent? | 1 step of 2 siblings |
| `adapter` | Who is told what, in which order and about which run; what do rollouts and reflections get to see? | 2 engines, a batch of 2 cases and a candidate that is refused, 2 observers of which one interferes once, runs of their own or inside a scope with or without a parent, 3 builders, a schema of 15 nodes with a shared definition, a description beside a reference to it and fields that are not reached |
| `adapter_texts_lost` | (violated) Does the output type have every text of the candidate? | 1 engine of `adapter` |

**Why the bounds are enough.** Three processes of the store: one that leaves
something, one that takes it over and leaves it, and one that sees what came of
both; of a plan two, for the invariant of `PlanExecutionProofs` speaks of the
checkpoint any process leaves. Two stages: one before and one after a
checkpoint, with a seed in the second that may conflict with the first. A
budget of 3 for stages of 2: one failure leaves something, a second charge
overruns. Two scopes on one slot show the order of restoring; a third call
competes for the place that the first gives to the second. Pipelines of two
steps have a step to keep and one to lose; a third slice is lost to one of two
before it. Two engines show every overlap of emissions and of evaluations; one
of them has the batch, the other is there to interfere and has a candidate that
an injection refuses when others are in force; a definition used twice is the
smallest shared one. Two cases, one of them routed twice to a component, give
up to three records, of which each builder leaves out another: all but the
first of its order, what does not fit, or the last. One call keeps what another
finds, or both miss together; each case differs in one respect from a first
one, so that every part of a key is what tells two of them apart; of two
invocations the first can be the one that the evaluator raises again. Calls are
symmetric. The proofs below lift the core properties to every size.

**Deadlock** is checked in the runs of `Composition` and `AdapterBatch`, where
something can always go on (`Rest` once a run is over). In the others plans, calls
and processes come to an end, after which nothing is left to do. That nobody stops early is checked as liveness.

**Fairness.** `plan`: weak fairness of the coroutine's own steps. They
follow each other as long as the process lives, and a stage returns or raises
(which the code leaves to its author). Cancellation, crashes and new processes
are not fair. `runtime`: weak fairness of each call's own steps (`Proceed`),
that is: a loop that is not blocked comes round to each of its tasks, a thread
runs, scopes and subjects return. Weak fairness is enough for the poll of
`_acquire` since every call is made once and places come back for good; nobody
has to make a call or to cancel one. Calls of `run()` from a loop that also has
calls of `arun()` are left out of the run: see section 4.

## 4. What the code does not keep

Each is a run that TLC finds violated (`PROJECT.json`, "findings").

- `plan_stop_lost`: the stop reason is not in the checkpoint. A plan with
  `stop="on_failure"`, resumed after a crash, runs the stages after the failed
  one. `StopsAfterFailure` says what does hold.
- `plan_overrun`: a stage is charged, and its candidate carried, before its
  events are emitted. An observer that raises makes it a failed stage, which is
  charged again (and whose candidate stays carried).
- `optimizer_rerun`: an exception after a run was completed, or while its
  result is returned, marks it failed. The next call searches again and its
  caller is given another answer.
- `composition_siblings`: the tracker looks the input and the parent of an
  invocation up among the candidates that the engines of the step have made. A
  sibling that starts after another has returned its seed unchanged is listed with
  that one's output as its input and with it as its parent, where
  `docs/optimize-anything.md:230` says "Every engine receives the same parent."
  `LineageSound` says what does hold: siblings are given the same value.
- `adapter_texts_lost`: descriptions of a candidate do not get to the output type,
  against `docs/injections.md:43`, for one of three reasons. Overrides are looked
  up by the names in `model_fields`, and the path of an aliased field has its
  alias (`injections.py:224`). Only models and lists of models are gone into
  (`injections.py:260`): the fields of dataclasses, of `TypedDict`s and of models
  in tuples or sets keep their descriptions, and the items of plain arrays
  (`tags[]`) have no field to carry one. And two fields that refer to one
  definition have one node in the schema: a text written there for the first is
  found there for the second, for which `apply_model_schema_candidate` then
  records no override (`schema_components.py:325`); a field with a description
  of its own beside its reference is compared with the definition's in the same
  way. `InjectionsScoped` says what does hold of all other fields; it also leaves
  out a field called `description`, whose path is that of the whole schema.

What follows from the models, though no run is kept for it:

- `reset()` removes the marker first, and `prepare` refuses a non-empty
  directory without one: a crash inside a fresh reset locks the directory, while
  `docs/state.md:26` says that `fresh=True` requests a fresh owned run. The order
  has a reason: with the marker removed last `ImplementsAtomicStore` fails (its
  mutant shows it).
- `run()` on a loop joins a thread which may wait for the place of an `arun()`
  suspended on that loop. The evaluator of a controlled evaluation may use both,
  according to `docs/evaluation.md:41`; with such calls `EveryCallEnds` fails.
- `resolve` takes a slice off the pending list also for the result of a whole one
  of its engine (`backend.py:293`). A slice of an adaptive step that was cut off
  behind it is lost: its result is listed under a later slice or under an
  invocation that never ran, while `docs/optimize-anything.md:280` speaks of each
  engine slice as recorded. `LineageSound` allows this for such slices
  (`Misattributed`) and demands of all others that they have their own result.
- A recorder that raises leaves an evaluation that was told as started and is told
  neither completed nor failed (`adapter.py:191`); `StreamWellFormed` leaves such
  evaluations out.
- With a failure before a success in a batch, scores and outputs are not in the
  order of the batch (`adapter.py:184`), of which `docs/advanced-adapters.md:38`
  says "ordered" and no more; `RowsBelongTogether` says when they are.
- An observer that raises from the `run.completed` of a saved result makes a failed
  run of a completed one in `optimize_anything`, too
  (`experimental/optimize_anything/execution.py:266`); `AnswerIsKept` leaves out
  the single compositions this has happened to.
- The fingerprint in the cache key is made of encoded evidence, whose strings are
  cut at 4000 characters: inputs of one length that differ past the cut have one
  key, while `docs/evaluation.md:108` speaks of the same inputs. `FoundIsOwn`
  holds for inputs within the limit only, and says so.
- A scope entered without a parent takes over the parent of the scope around it,
  and `emit` prefers it to the dispatcher's own (`events.py:473`). The scope of a
  run has none, so events of a plan in a stage name the plan, as
  `tests/test_events_and_state.py:346` has it; the scope of an engine is given
  who produced its seed (`backend.py:322`), and events of a run that its evaluator
  starts name that execution and not the engine's. `CorrelatedByScope` states
  both, and nothing in the repository says what the second should be.
- The trajectories of `PydanticGEPAAdapter` carry no traces, so the rule that
  routes a record by its traces is reached by other callers of the builder only.

## 5. Proofs

Each of these modules holds for every value of the constants:

| Module | Theorems | Argument |
| --- | --- | --- |
| `RunStoreProofs` | `TypeCorrect`, `ManifestCorrect`, `DurabilityCorrect`, `StoreImplementsAtomic` | `IInv`: the operations left of a call are safe, whatever part of them is done |
| `PlanExecutionProofs` | `TypeCorrect`, `BudgetCorrect`, `CheckpointCorrect`, `CompletedCorrect`, `InvariantCorrect`, `StandingHolds`, `FrozenCorrect`, `AnnouncedCorrect`, `StopCorrect`, `PlanImplementsLedger` | `PlanInvariant` with three properties is inductive under `TypeOK`; `Standing` under both |
| `OptimizerRunProofs` | `TypeCorrect`, `CompletedCorrect`, `EventsCorrect`, `AnswerCorrect` | `OptimizerInvariant` with the three properties |
| `RuntimeProofs` | `TypeCorrect`, `CapacityCorrect`, `IsolationCorrect`, `RestorationCorrect`, `InvariantCorrect` | counting for the semaphore; `RuntimeInvariant` for the scopes |
| `EvaluationProofs` | `TypeCorrect`, `FoundIsOwnCorrect`, `PolicyCorrect`, `BlameCorrect`, `KeptCorrect` | `IInv`: what is in the store and what was answered |
| `CompositionProofs` | `InvariantCorrect`, `TypeCorrect`, `ChainCorrect`, `LineageCorrect`, `NoStepRepeatedCorrect`, `AnswerCorrect`, `BudgetCorrect` | `Inv`: the call, the books of its tracker, memory and directory; sums over runs |
| `EventDispatchProofs` | `DispatchInvCorrect`, `OneDeliversCorrect`, `LateCorrect`, `ToldCorrect` | `DispatchInv` for the emissions in progress, `CountInv` for what they still owe |
| `AdapterProofs` | `InvariantCorrect`, `DispatchUsed`, `RunToldCorrect`, `RunLateCorrect`, `TypeCorrect`, `CorrelatedCorrect`, `StreamCorrect`, `RowsCorrect`, `EvidenceCorrect`, `ScopeLeft`, `InjectionsCorrect` | `IInv`: the dispatcher's invariants, the scopes, and for each engine what it has still to tell; `EvidenceInv`, `InForceInv` under it |

*Store.* A call is a program of file operations, and a crash or an error may fall
between any two of them. So the proof is about programs: `Safe(o, F, A, C)` says
when the operation `o` on the files `F` leaves a directory a process can be given,
and `Leads(p, F, G, A, C)` that every operation of the program `p` is safe where it
is done, and that `p` makes `G` of `F`. `IInv` says of the operations still to be
done that they lead somewhere safely, which is kept by doing the first of them and
is more than enough when the rest is lost. Each of `Prepare`'s branches and each
store call leads where it should (a lemma for each kind of program). With it the
step that a file operation is for `AtomicStore` depends on the one file it
replaces or removes: the marker claims and releases, the state and the result
save, all others are no step.

*Plan.* `BudgetRespected` is not inductive: that a charge fits follows from the
limit that the stage was started with. `PlanInvariant` adds
that the limit fits what was left, that `running` stages are not charged, that a
durable run is marked running until it is closed, and that a run being closed
has its own result in the store. A resumed process knows only the checkpoint,
so the budget of a checkpoint and of the process are proved together. The other
properties and the refinement need `Standing`: what is known of the stage under
way, that the recorded stages fit the plan one by one (`LedgerInvariant`), that a
component differs from the seed by the accepted work of recorded stages only
(`CarryInvariant`), and which events and stop reasons there can be where the
process stands. With it a checkpoint is one more line of `PlanLedger`, a result is
the ledger's, and everything else, crashes included, is no step of it.

*Optimizer.* From `prepare` until the result is written, the directory holds
what `prepare` returned, which is no completed run once a search is under way.
So a search never replaces a result somebody was given, unless a failure was
recorded over the completed run (`spoiled`).

*Runtime.* With one place at most one call holds it (`OneHolderPerContext`, by
counting), and calls without a shared slot cannot meet. `RuntimeInvariant` says
that a slot holds what the last of the call's scopes set, and that each scope
saved what the last before it set. Entering and leaving keep that
(`LastEntered`, `LastLeft`); at depth `NumScopes` it is `ScopeIsolated`, at
depth 0 `ScopeRestored`.

*Evaluation.* None of the properties is inductive: they speak of answers, and an
answer may come from the store. `IInv` says of every entry what its own case
allows (`Keepable`), and of every answer that it was computed for its case or has
its case's key. Every step goes on, computes or finds (`StepCases`). Equal keys
give equal settings, which carries the policies over, and equal inputs within the
encoder's limit (`EncodedShort`).

*Compositions.* `CallInv` says what a call holds where it is. The tracker's books
(`Books`) say that ids are distinct, that completed results and invocations belong
to one another one to one (`Matched`), that what is known of a value was made by a
completed invocation or is the seed (`Known`), and that an invocation was given
the seed or another's output, as its parent says (`Lineage`). They are kept by the
three things that happen to an invocation: it is started, it ends, it is
completed, by an engine or when a result is resolved (`BooksStarted`,
`BooksChanged`, `BooksCompleted`). That results are resolved in the order they are
listed in, and that siblings run once each, then gives `LineageSound`. Which result
goes to which slice is an invariant of resolving (`SliceInvariant`): a slice that
was cut off and is not resolved yet is in its engine's queue, in the order of the
slices, unless a whole one of the engine precedes it; what is resolved went to its
own slice or, so preceded, to a later one of the engine. What siblings were given
is `InputInvariant`.
Memory and directory agree (`MemoryInvariant`), and what callers were given is what is saved
(`AnswerInvariant`); from these follow `CheckpointIsChain` and both action
properties. For `BudgetIsSumOfRuns` the sum over all runs is split by steps: sums
are the folds of the community modules, so `SumsUnique` and `SumsExist` first show
that a fold over a finite set has the value its recursion says, and `SumOfRows`
that a sum over cells is the sum of the sums of its rows. No induction rule is
used for that: the smallest subset for which a statement fails
(`SmallestSubset`, from the well-foundedness of strict subsets) has a smaller one
for which it fails too.

*Event dispatch.* `DispatchSpec` has every operation of the dispatcher, by
contexts that emit whatever and whenever they like, and leaves subscriptions and
scopes free to change. `DispatchInv` says that an emission in progress
has still to tell the end of the list (`Reached`), that it waits for an observer
that emitted unless it is the innermost, and that an observer which already
heard a later event has such an emitter before it in the list. That is why only
a nested emission makes an event late (`LateCorrect`). `CountInv` adds, for every
observer, that events told, events missed and emissions that still wait for it
(`Waiting`) are all the events there were; when nobody emits the last is none
(`ToldCorrect`). It is assumed that the list of a dispatcher names no observer
twice: every subscription is one of its own, and local observers are not
subscribed as well.

*Adapter.* That the engines use the dispatcher as `DispatchSpec` has it is
`DispatchUsed`: each of their steps is one of `DispatchSpec` or leaves it alone,
and the list of a dispatcher names nobody twice because no subscription does
(`Subscribed`). So the two properties of the dispatcher hold in a run.
`ScopeInv` says what the scope of an engine adds up to, before the run starts and
since; an event that is stamped in it is `Correlated`, and stays so while it is
told (`FrameInv`). `StreamWellFormed` speaks of what was told, which is not
inductive: it depends on what is left in the queue. `QueueInv` says which events
can be in it at each `phase`, and `CompletingInv` that the queue is the end of
what is told of a completed evaluation and that the rest was told, whichever
order the observers were told in; `SinkInv` and `BridgeInv` draw from that what
was told when the phase changes, interrupts included. `Ends` counts an end of the
run as soon as it is queued, so that no second end can be. `RolloutInv` says that
a result is `EvaluationBatch` of the outcomes it was made of, from which
`RowsCorrect` follows for a batch of any length: `Ascending` puts the successes
and the failures in order, each case once (`AscendingProps`, by `RanksFill`), and
without a success behind a failure the order is the batch's own
(`InOrderIsIdentity`). Nothing of this depends on what the injections make of a
candidate.

*Evidence.* `EvidenceInv` says that what a reflection is shown was made of the
report of cases that all were run, and goes when the report goes; so its records
have a score that is a number and a size (`RecordsReadable`). The rest is about
the builder and any records. To sort is to put every record at the number of
those ahead of it. `Ahead` is an order of the positions, ties as they came
(`AheadOrders`); in an order everything has a number of its own and every number
below that of the elements is one (`PrecedingFills`), so the records of the order
are those that came, one by one (`Places`, `SortedPlaces`). The first of them are
those with fewer ahead than the number of examples admits (`LimitedProps`).
Routing, `Size` and the bound are recursive over positions: such a recursion has a
solution (`RecursionExists`) and only one (`RecursionUnique`), both by the smallest
number that is an exception. `TakenFrom` is what is kept from one record to the
next: what was taken is within the bound and comes from rising places of the order,
and each record so far that was not taken is `Crowded`, by records that are shown
and before it (`TakenNext`, `BoundedProps`). `SelectProps` puts the three
together: the places of what is shown in the order are places among the routed
records, which is the mapping `IsSelection` asks for.

*Injections.* `InForceInv` says that a rollout's candidate is a normalised one of
the engine's, and that what is entered is what the injections up to there make of
it, one by one; when the rollouts start these are all (`LastInForce`: in force in a
slot is what the last injection into it made). Normalising leaves a text and how
often it is quoted (`NormalizeKeeps`), so that decoding an instruction leaves no
quotes. The rest is about schemas. Walks are recursive over the path, so they are
taken step by step (`NodeAtSteps`): a path leads to the same node whatever the
descriptions are (`NodeAtSame`), for steps read references, fields and items only
(`StepStays`). `Rewrites` is what is kept from one text of the candidate to the
next: the text of a path with a node of its own (`OwnNode`) is an override, or the
node has the description it had, which then was that text already
(`AppliedRewrites`, `TextsApplied`). So a reader of the output type finds it among
the overrides or where it was before (`TextsShown`), unless the node's description
is not what the reader of the field is shown, which is the case left out as
`Overlaying`, or no override gets to the field, left out as `Unreached`.

Assumptions are those of the modules' constants (`PlanAssumption` and the like):
finite sets of tasks, positive budgets and limits, `None` outside of the sets it
is distinguished from (a `NoneAssumption` each). `CompositionAssumption` also says
what compositions and the results of engines are made of: engines are numbered
from 1, scores are natural numbers, a pipeline has no parallel step
(`models.py` rejects it). `AdapterAssumption` says that local observers are
distinct, that a batch has known cases, and that the other callbacks of a search
are not its beginning or end (the bridge has methods of their own for these).
`BuilderAssumption` and `RecordAssumption` say that scores are numbers, sizes
counts, and the limits of a builder numbers or none, of which that on characters is
not negative (`asi.py:183`); a negative `max_examples` is a slice from the end.
`CandidateAssumption` says that a text is quoted once (as `encode` leaves it)
or not at all (as a proposer writes it), that no text is the absence of one,
and that the output type has a slot to itself; the code does not check the
first, and of a text quoted twice one pair of quotes would be left.
`SchemaAssumption` says that the output type has a schema (references, fields
and items are nodes of it), that the walk over it ends with texts that are
known components, and that their paths lead to nodes, except for the items of
plain arrays.

*What the proofs changed.* The ids of `Composition` had run numbers up to
`MaxSlices`. `TypeCorrect` could not be proved so: an adaptive step starts
invocations for results it resolves beside those for slices, so that its run
numbers pass that bound with four slices or more, which the run never has. Ids
now have any run number, as in the code. `RunStore` lost a history variable that
no property needed.

`SchemaComponents` walked a schema with recursive operators, which no module with
a theorem can use; it walks with recursive functions now, node by node. In
`ReflectiveEvidence`, routing and the bound were folds and the order an insertion
of record by record: they are recursive functions and ranks now, which can be
reasoned about.

`InjectionsScoped` was false. The proof that a node with the candidate's text
already needs no override asked that the reader of the field be shown that node's
description, and a field with one of its own beside a reference is not. The
property leaves these fields out now, the schema of `adapter` has one, and without
the exception TLC finds the violation. `Announced` took an evaluation without
injections to a phase it did not leave; it goes on to the rollouts now.

**Only model-checked**

Liveness (`RunTerminates`, `EveryCallEnds`), which is out of the prover's reach.
Every safety invariant and every action property of the runs is proved.

## 6. Not modelled

- Two processes that use one directory at once: the store takes no lock and
  promises nothing.
- The content of candidates, results and events beyond what the properties tell
  apart. Fingerprints are values that differ when the definition does.
- The backend's search, the ensembles of GEPA and the provider calls: external,
  they return or raise; `configure_engine` and the settings it hands over.
- In `Composition`: more completed invocations than an ensemble has listed, for
  which `execute` pairs results by place (`backend.py:726`), and a completed run
  whose `result.json` is missing.
- Recursive definitions of a schema: the walk over them does not end
  (`schema_components.py:428`), and the model is of schemas for which it does.
- An observer that waits for another thread which emits: observers of the model
  do not wait. The formatting observers (Rich, Logfire, Autobench).
- What an evaluation's result holds beyond its score, its category and its error:
  traces, artifacts, the output of an invocation. Object identities in default
  identities of runtimes and evaluators.
- Data: `partition`, `sample` and rescoring (`evaluation/data.py`); the limits of
  the evidence encoder beyond strings; retries and usage of `reflection.py`.
- Durability below `os.replace` (no fsync): a replaced file is taken as durable.
- CLI, rendering, examples, contracts: no behaviour of their own.
