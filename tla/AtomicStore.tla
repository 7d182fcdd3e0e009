---------------------------- MODULE AtomicStore ----------------------------
(***************************************************************************)
(* What a run store promises to the code that owns a run directory         *)
(* (state/models.py, RunStore): the state and the result of a run each     *)
(* change in one step, only an owned directory is written, losing the      *)
(* ownership marker loses both at once, and a directory that is claimed,   *)
(* or claimed again, holds neither.                                        *)
(*                                                                         *)
(* RunStore implements this with files; Plan runs on top of it.            *)
(***************************************************************************)
CONSTANTS
  RunStates,    \* the values of a persisted RunState
  Results,      \* the values of a persisted run result
  None          \* "no such file"

VARIABLES
  owned,        \* the directory carries this run's ownership marker
  savedState,   \* what load_state() finds
  savedResult   \* what load_result() finds

storeVars == <<owned, savedState, savedResult>>

StoreType ==
  /\ owned \in BOOLEAN
  /\ savedState \in RunStates \cup {None}
  /\ savedResult \in Results \cup {None}

StoreInit ==
  /\ owned = FALSE
  /\ savedState = None
  /\ savedResult = None

\* The marker is put in place: the directory is this run's, and empty.
Claim ==
  /\ ~owned
  /\ owned' = TRUE
  /\ UNCHANGED <<savedState, savedResult>>

\* The marker is removed, the first step of a reset.
Release ==
  /\ owned
  /\ owned' = FALSE
  /\ savedState' = None
  /\ savedResult' = None

\* The first checkpoint of a new run: no result of an older run is left.
Begin(s) ==
  /\ owned
  /\ savedState = None
  /\ savedResult = None
  /\ savedState' = s
  /\ UNCHANGED <<owned, savedResult>>

SaveState(s) ==
  /\ owned
  /\ savedState # None
  /\ savedState' = s
  /\ UNCHANGED <<owned, savedResult>>

SaveResult(r) ==
  /\ owned
  /\ savedState # None
  /\ savedResult' = r
  /\ UNCHANGED <<owned, savedState>>

StoreNext ==
  \/ Claim
  \/ Release
  \/ \E s \in RunStates : Begin(s) \/ SaveState(s)
  \/ \E r \in Results : SaveResult(r)

StoreSpec == StoreInit /\ [][StoreNext]_storeVars
=============================================================================
