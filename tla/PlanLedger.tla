----------------------------- MODULE PlanLedger -----------------------------
(***************************************************************************)
(* What the run directory of a durable Plan may ever show, whatever        *)
(* happens to the processes that execute the plan: a ledger that records   *)
(* the stages in their order, one at a time, charges each within the       *)
(* budget that was left, is closed once, and is only ever replaced whole.  *)
(***************************************************************************)
EXTENDS Naturals, Sequences

CONSTANTS
  NumStages,    \* stages of the plan
  StageBudget,  \* max_metric_calls of each stage
  Unlimited,    \* the budget of a plan without one
  None          \* no ledger, no result

VARIABLES
  budget,       \* the plan's max_metric_calls
  ledger,       \* the recorded stages, calls and candidate, or None
  answer        \* the published result, or None

ledgerVars == <<budget, ledger, answer>>

LedgerInit == ledger = None /\ answer = None

Open ==
  /\ ledger = None /\ answer = None /\ ledger' # None
  /\ ledger'.status = "running"
  /\ ledger'.stages = <<>>
  /\ ledger'.calls = 0
  /\ UNCHANGED <<budget, answer>>

\* A stage failed after its calls were charged: it is charged twice.
Overcharged(stages) == \E k \in 1..Len(stages) : stages[k].late > 0

\* One more stage, the next in order, charged within what was left.
RecordStage ==
  /\ ledger # None /\ ledger' # None
  /\ ledger.status = "running"
  /\ Len(ledger.stages) < NumStages
  /\ Len(ledger'.stages) = Len(ledger.stages) + 1
  /\ \E r \in {ledger'.stages[Len(ledger.stages) + 1]} :
       /\ ledger'.stages = Append(ledger.stages, r)
       /\ r.stage = Len(ledger.stages) + 1
       /\ r.used <= r.limit
       /\ r.limit <= StageBudget[r.stage]
       /\ budget # Unlimited /\ ~Overcharged(ledger.stages)
            => ledger.calls + r.limit <= budget
       /\ ledger'.calls = ledger.calls + r.late + r.used
  /\ ledger'.status = "running"
  /\ UNCHANGED <<budget, answer>>

Publish ==
  /\ ledger # None
  /\ ledger.status = "running"
  /\ answer' # None
  /\ answer'.stages = ledger.stages
  /\ answer'.calls = ledger.calls
  /\ UNCHANGED <<budget, ledger>>

\* Closed only with the result of exactly these stages; final from then on.
Close ==
  /\ ledger # None /\ ledger' # None
  /\ ledger.status = "running"
  /\ answer # None
  /\ answer.stages = ledger.stages
  /\ answer.calls = ledger.calls
  /\ ledger'.status = "completed"
  /\ ledger'.stages = ledger.stages
  /\ ledger'.calls = ledger.calls
  /\ ledger'.candidate = answer.final
  /\ UNCHANGED <<budget, answer>>

Wipe ==
  /\ ledger' = None /\ answer' = None
  /\ UNCHANGED budget

LedgerNext == Open \/ RecordStage \/ Publish \/ Close \/ Wipe

LedgerSpec == LedgerInit /\ [][LedgerNext]_ledgerVars
=============================================================================
