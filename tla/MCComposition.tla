--------------------------- MODULE MCComposition ---------------------------
(* Two durable pipelines, of siblings and a single engine and of a single   *)
(* engine and a vote, a pipeline without a directory, a durable single       *)
(* engine, and each other kind of step without a directory.  An engine keeps *)
(* the seed, or finds a better candidate at a cost that is known.            *)
EXTENDS Composition
CONSTANTS a, b
MCValues == {a, b}
MCEngines == 1..2
Plain(kind, n) == [kind |-> kind, engines |-> n]
Alone(kind, n, durable) ==
  [pipeline |-> FALSE, durable |-> durable, tests |-> 0,
   steps |-> <<Plain(kind, n)>>]
Piped(first, second, durable) ==
  [pipeline |-> TRUE, durable |-> durable, tests |-> 1,
   steps |-> <<first, second>>]
MCCompositions ==
  {Piped(Plain("best_of", 2), Plain("single", 1), TRUE),
   Piped(Plain("single", 1), Plain("vote", 2), TRUE),
   Piped(Plain("single", 1), Plain("single", 1), FALSE),
   Alone("single", 1, TRUE), Alone("sequential", 2, FALSE),
   Alone("parallel", 2, FALSE), Alone("adaptive", 2, FALSE)}
MCParallel == {Alone("parallel", 2, FALSE)}
MCRawResults ==
  {[value |-> a, score |-> 0, calls |-> 1, cost |-> None],
   [value |-> b, score |-> 1, calls |-> 2, cost |-> 1]}
MCVoteScores == {0, 1}
MCDigests == {"d1", "d2"}
=============================================================================
