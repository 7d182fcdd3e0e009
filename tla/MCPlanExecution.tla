-------------------------- MODULE MCPlanExecution --------------------------
(* Two stages, the second with a seed that conflicts with what the first may *)
(* have changed; two processes; a budget the two may overrun.               *)
EXTENDS PlanExecution, TLC
CONSTANTS p, t, v0, v1
MCComponents == {p, t}
MCValues == {v0, v1}
MCTargets == <<{p}, {t}>>
MCStageBudget == <<2, 2>>
MCBudgets == {3, Unlimited}
MCStageSeed == <<None, (p :> v0 @@ t :> v1)>>
MCSeeds == {p :> v0 @@ t :> v0, p :> v1 @@ t :> v0}
OneSeed == {p :> v0 @@ t :> v0}
OneBudget == {3}
MCDigests == {"d1"}
=============================================================================
