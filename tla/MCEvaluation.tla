---------------------------- MODULE MCEvaluation ----------------------------
(* Calls that differ in one respect each from the first of MCCases.         *)
EXTENDS Evaluation, TLC
CONSTANTS t1, t2, c1, raw, bad, x, y
MCCalls == {t1, t2}
MCCandidates == {c1, raw, bad}
MCNormalized == [c \in MCCandidates |-> IF c = bad THEN None ELSE c1]
MCCharacters == {x, y}

Lenient ==
  [strategy |-> "controlled", cached |-> TRUE, deterministic |-> TRUE,
   cacheNondeterministic |-> FALSE, cacheFailures |-> TRUE,
   recorded |-> Categories, invalidScore |-> "use_failure_score"]
Strict == [Lenient EXCEPT !.recorded = {"infrastructure"},
                          !.invalidScore = "raise"]
Forgetful == [Lenient EXCEPT !.cacheFailures = FALSE]
Output == [Lenient EXCEPT !.strategy = "output"]
Varying == [Lenient EXCEPT !.deterministic = FALSE]
Uncached == [Lenient EXCEPT !.cached = FALSE]
Opted == [Varying EXCEPT !.cacheNondeterministic = TRUE]

First ==
  [config |-> Lenient, candidate |-> c1, inputs |-> <<x, y>>, stage |-> "a"]
MCShort ==
  {First,
   [First EXCEPT !.candidate = raw],
   [First EXCEPT !.candidate = bad],
   [First EXCEPT !.inputs = <<x>>],
   [First EXCEPT !.stage = "b"],
   [First EXCEPT !.config = Strict],
   [First EXCEPT !.config = Forgetful],
   [First EXCEPT !.config = Output],
   [First EXCEPT !.config = Uncached],
   [First EXCEPT !.config = Varying],
   [First EXCEPT !.config = Opted]}
\* Inputs past the limit, of one length and one beginning.
MCLong ==
  {[First EXCEPT !.inputs = <<x, y, x>>],
   [First EXCEPT !.inputs = <<x, y, y>>]}
MCCases == MCShort \cup MCLong

Symmetry == Permutations(Calls)
=============================================================================
