--------------------------- MODULE MCOptimizerRun ---------------------------
(* Three calls of optimize on one directory, two candidates and, for a     *)
(* directory that belongs to another definition, two fingerprints.         *)
EXTENDS OptimizerRun
CONSTANTS seed, better, d1, d2
MCCandidates == {seed, better}
MCDigests == {d1, d2}
=============================================================================
