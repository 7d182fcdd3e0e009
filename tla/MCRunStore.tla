----------------------------- MODULE MCRunStore -----------------------------
(* A directory used by three processes in turn, with two fingerprints.     *)
EXTENDS RunStore
CONSTANTS d1, d2
MCDigests == {d1, d2}
=============================================================================
