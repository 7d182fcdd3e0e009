------------------------------ MODULE RunStore ------------------------------
(***************************************************************************)
(* FileRunStore (state/files.py), one file operation at a time.            *)
(*                                                                         *)
(* A run directory holds an ownership marker, a manifest, the run state,   *)
(* the result and three directories of snapshots.  Every call of the store *)
(* is compiled, when it starts, into the file operations it will perform;  *)
(* DiskStep performs the next one, DiskError makes it fail with an OSError *)
(* and Crash stops the process between any two of them.  One process at a  *)
(* time uses the directory (the store takes no lock).                      *)
(***************************************************************************)
EXTENDS Naturals, Sequences

CONSTANTS
  Digests,      \* compatibility fingerprints
  None,         \* an absent file
  MaxStep,      \* bound: progress of a run (RunState.next_stage)
  MaxRuns,      \* bound: new runs started in the directory
  MaxLives      \* bound: processes started

ASSUME StoreAssumption ==
  /\ Digests # {}
  /\ None \notin [digest: Digests, run: Nat, step: Nat]
  /\ None \notin Nat \cup {"self", "other"}
  /\ MaxStep \in Nat /\ MaxRuns \in Nat /\ MaxLives \in Nat

VARIABLES
  files,        \* the owned files at the top of the directory
  temps,        \* files whose temporary (".name.tmp") exists
  tree,         \* the owned subdirectories that exist
  userFile,     \* the directory holds a file the store does not know
  proc,         \* "down", "busy" in a call, or "open" between calls
  todo,         \* the file operations the call has still to perform
  outcome,      \* what the call gives back: a RunState, None for an error
  current,      \* the RunState the process works from, None before prepare
  runs,         \* new runs so far; tags what each of them writes
  lives,        \* processes started so far
  acked         \* history: the last RunState a call returned after saving

directory == <<files, temps, tree, userFile>>
process == <<proc, todo, outcome, current>>
history == <<runs, lives, acked>>
vars == <<directory, process, history>>

----------------------------------------------------------------------------
(* Data.  A RunState is its fingerprint, its progress, and the run that    *)
(* wrote it; a manifest repeats a RunState's fields; a result is the run   *)
(* that wrote it.                                                          *)

RunState == [digest: Digests, run: 1..MaxRuns, step: 0..MaxStep]
FileNames == {"marker", "manifest", "state", "result"}
Directories == {"backend", "candidates", "stages"}

\* any(self.directory.iterdir()) of a directory without a marker
Populated ==
  \/ \E f \in FileNames : files[f] # None
  \/ temps \cap FileNames # {}
  \/ tree # {}
  \/ userFile

----------------------------------------------------------------------------
(* File operations and the calls made of them.                             *)

Op(op, name, content) == [op |-> op, name |-> name, content |-> content]

\* Mutant: a replace that first removes the old file, as a rename may need.
UnlinkThenWrite(f, content) ==
  <<Op("temp", f, None)>>
  \o (IF f \in FileNames THEN <<Op("unlink", f, None)>> ELSE <<>>)
  \o <<Op("replace", f, content)>>

\* _atomic_write: the temporary first, then os.replace
AtomicWrite(f, content) ==
  <<Op("temp", f, None), Op("replace", f, content)>>

Unlink(f) == IF files[f] = None THEN <<>> ELSE <<Op("unlink", f, None)>>
RemoveTree(d) == IF d \in tree THEN <<Op("rmtree", d, None)>> ELSE <<>>

WriteMarker == AtomicWrite("marker", "self")

\* Mutant: the manifest is written before the state it describes.
ManifestFirst(s) == AtomicWrite("manifest", s) \o AtomicWrite("state", s)

\* checkpoint: the state, then the manifest that repeats its fields
Checkpoint(s) == AtomicWrite("state", s) \o AtomicWrite("manifest", s)

\* Mutant: the marker is removed after the other files.
ResetMarkerLast ==
  Unlink("manifest") \o Unlink("state") \o Unlink("result") \o Unlink("marker")
  \o RemoveTree("backend") \o RemoveTree("candidates") \o RemoveTree("stages")

\* reset: _OWNED_FILES in their order, the marker first, then the trees
Reset ==
  Unlink("marker") \o Unlink("manifest") \o Unlink("state") \o Unlink("result")
  \o RemoveTree("backend") \o RemoveTree("candidates") \o RemoveTree("stages")

\* _cleanup_temporary_files only looks at the top of the directory
CleanUp == <<Op("cleanup", "marker", None)>>

NewRun(digest) == [digest |-> digest, run |-> runs + 1, step |-> 0]

NewRunWrites(s) == AtomicWrite("manifest", s) \o Checkpoint(s)

----------------------------------------------------------------------------
(* Calls.                                                                  *)

Call(ops, result) ==
  /\ proc' = "busy"
  /\ todo' = ops
  /\ outcome' = result
  /\ UNCHANGED directory

\* prepare, once the directory is claimed by writing `claim` to it
PrepareOwned(digest, resume, fresh, claim) ==
  LET s == NewRun(digest) IN
  \/ /\ fresh
     /\ runs < MaxRuns
     /\ Call(claim \o CleanUp \o Reset \o WriteMarker \o NewRunWrites(s), s)
     /\ runs' = runs + 1
     /\ acked' = None
  \/ /\ ~fresh
     /\ files["state"] # None
     /\ IF resume = "never" \/ files["state"].digest # digest
        THEN Call(claim \o CleanUp, None)
        ELSE Call(claim \o CleanUp, files["state"])
     /\ UNCHANGED <<runs, acked>>
  \/ /\ ~fresh
     /\ files["state"] = None
     /\ resume = "required"
     /\ Call(claim \o CleanUp, None)
     /\ UNCHANGED <<runs, acked>>
  \/ /\ ~fresh
     /\ files["state"] = None
     /\ resume # "required"
     /\ runs < MaxRuns
     /\ Call(claim \o CleanUp \o NewRunWrites(s), s)
     /\ runs' = runs + 1
     /\ UNCHANGED acked

\* prepare: _claim_or_validate decides on the marker before anything else.
\* RunConfig lets fresh go only with resume = "never".
Prepare(digest, resume, fresh) ==
  /\ proc = "down"
  /\ lives < MaxLives
  /\ lives' = lives + 1
  /\ fresh => resume = "never"
  /\ current' = None
  /\ \/ /\ files["marker"] = "self"
        /\ PrepareOwned(digest, resume, fresh, <<>>)
     \/ /\ files["marker"] = None /\ ~Populated
        \* fresh resets the marker it has just written
        /\ IF fresh
           THEN /\ runs < MaxRuns
                /\ LET s == NewRun(digest) IN
                     Call(WriteMarker \o CleanUp
                          \o <<Op("unlink", "marker", None)>> \o WriteMarker
                          \o NewRunWrites(s), s)
                /\ runs' = runs + 1
                /\ UNCHANGED acked
           ELSE PrepareOwned(digest, resume, FALSE, WriteMarker)
     \/ /\ files["marker"] = "other" \/ (files["marker"] = None /\ Populated)
        /\ Call(<<>>, None)
        /\ UNCHANGED <<runs, acked>>

\* Mutant: the checkpoint counts the step after the one it saves.
SaveProgressPast(step) ==
  /\ proc = "open"
  /\ files["marker"] = "self"
  /\ step \in current.step..MaxStep
  /\ LET s == [current EXCEPT !.step = step + 1] IN Call(Checkpoint(s), s)
  /\ UNCHANGED <<current, history>>

\* checkpoint, write_result, write_candidate and write_stage by a process
\* that prepare gave a RunState; its progress never goes back.
SaveProgress(step) ==
  /\ proc = "open"
  /\ files["marker"] = "self"
  /\ step \in current.step..MaxStep
  /\ LET s == [current EXCEPT !.step = step] IN Call(Checkpoint(s), s)
  /\ UNCHANGED <<current, history>>

SaveResult ==
  /\ proc = "open"
  /\ files["marker"] = "self"
  /\ Call(AtomicWrite("result", current.run), current)
  /\ UNCHANGED <<current, history>>

SaveSnapshot(d) ==
  /\ proc = "open"
  /\ files["marker"] = "self"
  /\ Call(AtomicWrite(d, current.run), current)
  /\ UNCHANGED <<current, history>>

----------------------------------------------------------------------------
(* The file system.                                                        *)

Perform(o) ==
  \/ /\ o.op = "temp"
     /\ temps' = temps \cup {o.name}
     /\ tree' = tree \cup ({o.name} \cap Directories)
     /\ UNCHANGED files
  \/ /\ o.op = "replace"
     /\ temps' = temps \ {o.name}
     /\ files' = [f \in FileNames |->
                   IF f = o.name THEN o.content ELSE files[f]]
     /\ UNCHANGED tree
  \/ /\ o.op = "unlink"
     /\ files' = [files EXCEPT ![o.name] = None]
     /\ UNCHANGED <<temps, tree>>
  \/ /\ o.op = "rmtree"
     /\ tree' = tree \ {o.name}
     /\ temps' = temps \ {o.name}
     /\ UNCHANGED files
  \/ /\ o.op = "cleanup"
     /\ temps' = temps \ FileNames
     /\ UNCHANGED <<files, tree>>

DiskStep ==
  /\ proc = "busy"
  /\ todo # <<>>
  /\ Perform(Head(todo))
  /\ todo' = Tail(todo)
  /\ UNCHANGED <<userFile, proc, outcome, current, runs, lives, acked>>

\* The call is over: a RunState, or RunStoreError when prepare refuses.
Return ==
  /\ proc = "busy"
  /\ todo = <<>>
  /\ proc' = IF outcome = None THEN "down" ELSE "open"
  /\ current' = outcome
  /\ acked' = IF outcome = None THEN acked ELSE outcome
  /\ UNCHANGED <<directory, todo, outcome, runs, lives>>

\* An OSError: _atomic_write removes its temporary and raises RunStoreError,
\* the other operations let it through.  A process that is open may go on.
DiskError ==
  /\ proc = "busy"
  /\ todo # <<>>
  /\ temps' = IF Head(todo).op \in {"temp", "replace"}
              THEN temps \ {Head(todo).name} ELSE temps
  /\ todo' = <<>>
  /\ proc' = IF current = None THEN "down" ELSE "open"
  /\ UNCHANGED <<files, tree, userFile, outcome, current, history>>

\* The process stops, by a crash in a call or at the end of its work.
Crash ==
  /\ proc # "down"
  /\ proc' = "down"
  /\ todo' = <<>>
  /\ current' = None
  /\ UNCHANGED <<directory, outcome, history>>

\* The user keeps a file of his own in the directory.
AddUserFile ==
  /\ ~userFile
  /\ userFile' = TRUE
  /\ UNCHANGED <<files, temps, tree, process, history>>

----------------------------------------------------------------------------
(* A new directory, or one that belongs to a run with another id.          *)
Init ==
  /\ files \in {[f \in FileNames |-> None],
                [f \in FileNames |-> IF f = "marker" THEN "other" ELSE None]}
  /\ temps = {} /\ tree = {} /\ userFile = FALSE
  /\ proc = "down" /\ todo = <<>> /\ outcome = None /\ current = None
  /\ runs = 0 /\ lives = 0 /\ acked = None

Next ==
  \/ \E d \in Digests, r \in {"never", "if_exists", "required"}, b \in BOOLEAN :
       Prepare(d, r, b)
  \/ \E n \in 0..MaxStep : SaveProgress(n)
  \/ SaveResult
  \/ \E d \in Directories \ {"backend"} : SaveSnapshot(d)
  \/ DiskStep
  \/ Return
  \/ DiskError
  \/ Crash
  \/ AddUserFile

Spec == Init /\ [][Next]_vars

----------------------------------------------------------------------------
(* Properties.                                                             *)

TypeOK ==
  /\ files["marker"] \in {None, "self", "other"}
  /\ files["manifest"] \in RunState \cup {None}
  /\ files["state"] \in RunState \cup {None}
  /\ files["result"] \in 1..MaxRuns \cup {None}
  /\ temps \subseteq FileNames \cup Directories
  /\ tree \subseteq Directories
  /\ userFile \in BOOLEAN
  /\ proc \in {"down", "busy", "open"}
  /\ outcome \in RunState \cup {None}
  /\ current \in RunState \cup {None} /\ acked \in RunState \cup {None}
  /\ runs \in 0..MaxRuns /\ lives \in 0..MaxLives

\* checkpoint writes the state first: the manifest of an owned directory
\* describes the run whose state is there and is never ahead of it, after
\* any number of checkpoints cut short and resumed.
ManifestNeverAhead ==
  files["marker"] = "self" /\ files["state"] # None
    => /\ files["manifest"] # None
       /\ files["manifest"].run = files["state"].run
       /\ files["manifest"].digest = files["state"].digest
       /\ files["manifest"].step <= files["state"].step

\* Progress that checkpoint has confirmed is still there after any crash,
\* error, rejected prepare or later checkpoint; only fresh gives it up.
AcknowledgedIsDurable ==
  acked # None
    => /\ files["marker"] = "self"
       /\ files["state"] # None
       /\ files["state"].run = acked.run
       /\ files["state"].step >= acked.step

\* What load_state and load_result can find is a store whose state and
\* result change in one step: every write is seen whole or not at all, and
\* a reset takes both away at once, because it removes the marker first.
owned == files["marker"] = "self"
Atomic == INSTANCE AtomicStore WITH
  RunStates <- RunState,
  Results <- 1..MaxRuns,
  savedState <- IF owned THEN files["state"] ELSE None,
  savedResult <- IF owned THEN files["result"] ELSE None
ImplementsAtomicStore == Atomic!StoreSpec

=============================================================================
