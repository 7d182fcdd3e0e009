SPECIFICATION Spec
CONSTANTS
  main = main
  e1 = e1
  e2 = e2
  l1 = l1
  s1 = s1
  c1 = c1
  c2 = c2
  c3 = c3
  None = None
  NoScore = NoScore
  NoText = NoText
  Unlimited = Unlimited
  Main = main
  Contexts <- MCTwoContexts
  Engines <- MCOneEngine
  Locals <- MCLocals
  Subscribers <- MCSubscribers
  Policy <- MCPolicy
  Fields <- MCFields
  MaxTricks = 1
  Objective <- MCObjective
  Builders <- MCBuilders
  Serialization <- MCSerialization
  Injections <- MCInjections
  Model <- MCModel
  Tool <- MCTool
  CandidatesOf <- MCCandidatesOf
  Updates <- MCUpdates
  BatchOf <- MCBatchOf
  OutcomesOf <- MCOutcomesOf
  CaseOf <- MCCaseOf
  Captures <- MCOneEngine
  Outers <- MCOuters
  RunFields <- MCRunFields
  BridgeFields <- MCBridgeFields
  Lifecycles = {"full", "backend_only"}
  OtherCallbacks = {"on_candidate_accepted"}
INVARIANT EveryTextInjected
