--------------------------- MODULE RunStoreProofs ---------------------------
(***************************************************************************)
(* What the store's runs check, for every number of steps, runs, processes *)
(* and fingerprints.                                                       *)
(*                                                                         *)
(* A call is a sequence of file operations, and a crash may fall between   *)
(* any two of them, so the proof is about what is on disk before each      *)
(* operation: Safe(o, F, A, C) says when performing o on the files F keeps *)
(* the directory sound, and Leads(p, F, G, A, C) that each operation of    *)
(* the program p is safe where it is performed and that p turns F into G.  *)
(* The invariant is that the operations a call has still to perform lead   *)
(* somewhere safely; whatever part of them is performed, the directory is  *)
(* sound.                                                                  *)
(***************************************************************************)
EXTENDS RunStore, SequenceTheorems, TLAPS

----------------------------------------------------------------------------
(* Operations and the files they act on.                                   *)

Contents == RunState \cup (1..MaxRuns) \cup {None, "self", "other"}
Ops == [op: {"temp", "replace", "unlink", "rmtree", "cleanup"},
        name: FileNames \cup Directories,
        content: Contents]
Disk == [FileNames -> Contents]

Put(F, f, c) == [g \in FileNames |-> IF g = f THEN c ELSE F[g]]
Apply(o, F) == IF o.op \in {"replace", "unlink"}
               THEN Put(F, o.name, o.content) ELSE F

\* The files F hold a run that has got at least as far as the RunState s.
Holds(F, s) ==
  /\ F["marker"] = "self"
  /\ F["state"] \in RunState
  /\ F["state"].run = s.run
  /\ F["state"].digest = s.digest
  /\ F["state"].step >= s.step
  /\ F["manifest"] \in RunState
  /\ F["manifest"].run = s.run
  /\ F["manifest"].digest = s.digest
  /\ F["manifest"].step <= s.step

\* Replacing each of the files, and removing one: A is the RunState last
\* confirmed to a caller.
SafeMarker(c, F) ==
  /\ c = "self"
  /\ F["marker"] # "self" => F["state"] = None /\ F["result"] = None

SafeManifest(s, F) ==
  /\ s \in RunState
  /\ F["marker"] = "self"
  /\ F["state"] # None
       => /\ F["state"].run = s.run
          /\ F["state"].digest = s.digest
          /\ F["state"].step >= s.step

SafeState(s, F, A) ==
  /\ s \in RunState
  /\ F["marker"] = "self"
  /\ F["manifest"] \in RunState
  /\ F["manifest"].run = s.run
  /\ F["manifest"].digest = s.digest
  /\ F["manifest"].step <= s.step
  /\ F["state"] = None => F["result"] = None
  /\ A # None => s.run = A.run /\ s.step >= A.step

SafeResult(r, F) ==
  /\ r \in 1..MaxRuns
  /\ F["marker"] = "self"
  /\ F["state"] # None

SafeUnlink(f, F, A) ==
  /\ f \in FileNames
  /\ A = None
  /\ f = "marker" <=> F["marker"] = "self"

\* The operation o may be performed on the files F by a process that works
\* from the RunState C.
Safe(o, F, A, C) ==
  /\ C # None => Holds(F, C)
  /\ \/ o.op = "temp"
     \/ o.op = "replace" /\ o.name = "marker" /\ SafeMarker(o.content, F)
     \/ o.op = "replace" /\ o.name = "manifest" /\ SafeManifest(o.content, F)
     \/ o.op = "replace" /\ o.name = "state" /\ SafeState(o.content, F, A)
     \/ o.op = "replace" /\ o.name = "result" /\ SafeResult(o.content, F)
     \/ o.op = "replace" /\ o.name \in Directories
     \/ o.op = "unlink" /\ o.content = None /\ SafeUnlink(o.name, F, A)
     \/ o.op = "rmtree" /\ o.name \in Directories
     \/ o.op = "cleanup"

\* T is what is on disk after each of the operations of p.
Leads(p, F, G, A, C) ==
  /\ p \in Seq(Ops)
  /\ \E T : /\ T[0] = F
            /\ T[Len(p)] = G
            /\ \A k \in 1..Len(p) : /\ Safe(p[k], T[k - 1], A, C)
                                    /\ T[k] = Apply(p[k], T[k - 1])

----------------------------------------------------------------------------
(* The inductive invariant.                                                *)

\* The files as a process finds them, whichever process stopped before.
Sound ==
  /\ files \in Disk
  /\ files["marker"] = "self" /\ files["state"] = None
       => files["result"] = None

\* A call that is on its way: every operation left is safe, and a call that
\* succeeds ends with the RunState it gives back on disk.
CallIsSafe ==
  proc = "busy" =>
    \E G : /\ Leads(todo, files, G, acked, current)
           /\ outcome # None => Holds(G, outcome)

\* A process between two calls works from a RunState that is on disk and
\* that its caller has been given.
ProcessHolds ==
  /\ proc = "open" => current # None /\ Holds(files, current)
  /\ proc = "down" => current = None
  /\ current # None => acked = current

IInv ==
  /\ TypeOK /\ Sound
  /\ ManifestNeverAhead /\ AcknowledgedIsDurable
  /\ CallIsSafe /\ ProcessHolds

----------------------------------------------------------------------------
(* Programs of file operations.                                            *)

\* None is neither a RunState nor a result nor a marker.
LEMMA Distinct ==
  /\ None \notin RunState
  /\ None \notin 1..MaxRuns
  /\ None # "self" /\ None # "other"
<1>1. RunState \subseteq [digest: Digests, run: Nat, step: Nat]
  BY StoreAssumption DEF RunState
<1> QED
  BY <1>1, StoreAssumption

\* A file operation keeps the files functions of the file names.
LEMMA DiskTyped ==
  ASSUME NEW o \in Ops, NEW F \in Disk
  PROVE  Apply(o, F) \in Disk
<1>1. o.content \in Contents
  BY DEF Ops
<1> QED
  BY <1>1 DEF Apply, Put, Disk

\* Nothing to do leaves the files alone.
LEMMA LeadsNowhere ==
  ASSUME NEW F, NEW A, NEW C
  PROVE  Leads(<<>>, F, F, A, C)
<1> DEFINE T == [k \in Nat |-> F]
<1>1. T[0] = F /\ T[Len(<<>>)] = F
  OBVIOUS
<1>2. \A k \in 1..Len(<<>>) : Safe(<<>>[k], T[k - 1], A, C)
                              /\ T[k] = Apply(<<>>[k], T[k - 1])
  OBVIOUS
<1>3. <<>> \in Seq(Ops)
  OBVIOUS
<1> HIDE DEF T
<1> QED
  BY <1>1, <1>2, <1>3 DEF Leads

\* The end of a program that has nothing left is what is on disk.
LEMMA LeadsEnd ==
  ASSUME NEW F, NEW G, NEW A, NEW C, Leads(<<>>, F, G, A, C)
  PROVE  G = F
BY DEF Leads

\* A program of one safe operation.
LEMMA LeadsOne ==
  ASSUME NEW o \in Ops, NEW F, NEW A, NEW C, Safe(o, F, A, C)
  PROVE  Leads(<<o>>, F, Apply(o, F), A, C)
<1> DEFINE T == [k \in Nat |-> IF k = 0 THEN F ELSE Apply(o, F)]
<1>1. T[0] = F /\ T[1] = Apply(o, F)
  OBVIOUS
<1>2. <<o>> \in Seq(Ops) /\ Len(<<o>>) = 1 /\ <<o>>[1] = o
  OBVIOUS
<1> HIDE DEF T
<1>3. \A k \in 1..Len(<<o>>) : Safe(<<o>>[k], T[k - 1], A, C)
                               /\ T[k] = Apply(<<o>>[k], T[k - 1])
  <2> SUFFICES ASSUME NEW k \in 1..1
               PROVE  Safe(<<o>>[k], T[k - 1], A, C)
                      /\ T[k] = Apply(<<o>>[k], T[k - 1])
    BY <1>2
  <2>1. k = 1 /\ k - 1 = 0
    OBVIOUS
  <2> QED
    BY <2>1, <1>1, <1>2
<1> QED
  BY <1>1, <1>2, <1>3 DEF Leads

\* One program after another.
LEMMA LeadsThen ==
  ASSUME NEW p, NEW q, NEW F, NEW G, NEW H, NEW A, NEW C,
         Leads(p, F, G, A, C), Leads(q, G, H, A, C)
  PROVE  Leads(p \o q, F, H, A, C)
<1>1. p \in Seq(Ops) /\ q \in Seq(Ops)
  BY DEF Leads
<1>2. PICK T : /\ T[0] = F /\ T[Len(p)] = G
               /\ \A k \in 1..Len(p) : /\ Safe(p[k], T[k - 1], A, C)
                                       /\ T[k] = Apply(p[k], T[k - 1])
  BY DEF Leads
<1>3. PICK U : /\ U[0] = G /\ U[Len(q)] = H
               /\ \A k \in 1..Len(q) : /\ Safe(q[k], U[k - 1], A, C)
                                       /\ U[k] = Apply(q[k], U[k - 1])
  BY DEF Leads
<1> DEFINE m == Len(p)
           n == Len(q)
           V == [k \in Nat |-> IF k <= m THEN T[k] ELSE U[k - m]]
<1>4. m \in Nat /\ n \in Nat
  BY <1>1, LenProperties
<1>5. p \o q \in Seq(Ops) /\ Len(p \o q) = m + n
  BY <1>1, ConcatProperties
<1>6. /\ \A k \in 1..m : (p \o q)[k] = p[k]
      /\ \A k \in (m + 1)..(m + n) : (p \o q)[k] = q[k - m]
  BY <1>1, <1>4
<1>7. V[0] = F /\ V[m + n] = H
  <2>1. V[0] = F
    BY <1>2, <1>4
  <2>2. CASE n = 0
    BY <2>2, <1>2, <1>3, <1>4
  <2>3. CASE n # 0
    <3>1. m + n \in Nat /\ ~(m + n <= m) /\ (m + n) - m = n
      BY <2>3, <1>4
    <3> QED
      BY <3>1, <2>1, <1>3
  <2> QED
    BY <2>1, <2>2, <2>3
<1>8. ASSUME NEW k \in 1..(m + n)
      PROVE  Safe((p \o q)[k], V[k - 1], A, C)
             /\ V[k] = Apply((p \o q)[k], V[k - 1])
  <2>1. CASE k <= m
    <3>1. k \in 1..m /\ k \in Nat /\ k - 1 \in Nat /\ k - 1 <= m
      BY <2>1, <1>4
    <3>2. V[k] = T[k] /\ V[k - 1] = T[k - 1]
      BY <3>1
    <3> QED
      BY <3>1, <3>2, <1>2, <1>6
  <2>2. CASE k > m
    <3>1. /\ k \in (m + 1)..(m + n) /\ k - m \in 1..n
          /\ k \in Nat /\ k - 1 \in Nat /\ ~(k <= m)
          /\ (k - 1) - m = (k - m) - 1
      BY <2>2, <1>4
    <3>2. V[k] = U[k - m]
      BY <3>1
    <3>3. V[k - 1] = U[(k - m) - 1]
      <4>1. CASE k - 1 <= m
        <5>1. k - 1 = m /\ (k - m) - 1 = 0
          BY <4>1, <3>1, <2>2, <1>4
        <5> QED
          BY <5>1, <3>1, <4>1, <1>2, <1>3
      <4>2. CASE ~(k - 1 <= m)
        BY <4>2, <3>1
      <4> QED
        BY <4>1, <4>2
    <3> QED
      BY <3>1, <3>2, <3>3, <1>3, <1>6
  <2> QED
    BY <2>1, <2>2, <1>4
<1> HIDE DEF V
<1> QED
  BY <1>5, <1>7, <1>8 DEF Leads

\* The first operation of a program is safe, and what is left of the
\* program leads on from what it makes of the files.
LEMMA LeadsStep ==
  ASSUME NEW p, NEW F, NEW G, NEW A, NEW C,
         Leads(p, F, G, A, C), p # <<>>
  PROVE  /\ Head(p) \in Ops
         /\ Safe(Head(p), F, A, C)
         /\ Leads(Tail(p), Apply(Head(p), F), G, A, C)
<1>1. p \in Seq(Ops)
  BY DEF Leads
<1>2. PICK T : /\ T[0] = F /\ T[Len(p)] = G
               /\ \A k \in 1..Len(p) : /\ Safe(p[k], T[k - 1], A, C)
                                       /\ T[k] = Apply(p[k], T[k - 1])
  BY DEF Leads
<1> DEFINE n == Len(p)
           V == [k \in Nat |-> T[k + 1]]
<1>3. /\ Head(p) \in Ops /\ Head(p) = p[1]
      /\ Tail(p) \in Seq(Ops) /\ Len(Tail(p)) = n - 1
      /\ \A k \in 1..(n - 1) : Tail(p)[k] = p[k + 1]
  BY <1>1, HeadTailProperties
<1>4. n \in Nat /\ n >= 1
  BY <1>1, LenProperties, EmptySeq
<1>5. Safe(p[1], F, A, C) /\ T[1] = Apply(p[1], F)
  <2>1. 1 \in 1..n /\ 1 - 1 = 0
    BY <1>4
  <2> QED
    BY <2>1, <1>2
<1>6. V[0] = T[1] /\ V[n - 1] = G
  <2>1. n - 1 \in Nat /\ (n - 1) + 1 = n /\ 0 + 1 = 1
    BY <1>4
  <2> QED
    BY <2>1, <1>2
<1>7. ASSUME NEW k \in 1..(n - 1)
      PROVE  Safe(Tail(p)[k], V[k - 1], A, C)
             /\ V[k] = Apply(Tail(p)[k], V[k - 1])
  <2>1. k + 1 \in 1..n /\ (k + 1) - 1 = k /\ (k - 1) + 1 = k
        /\ k \in Nat /\ k - 1 \in Nat
    BY <1>4
  <2>2. V[k] = T[k + 1] /\ V[k - 1] = T[k]
    BY <2>1
  <2> QED
    BY <2>1, <2>2, <1>2, <1>3
<1> HIDE DEF V
<1>8. Leads(Tail(p), T[1], G, A, C)
  BY <1>3, <1>6, <1>7 DEF Leads
<1> QED
  BY <1>3, <1>5, <1>8

\* _atomic_write: its temporary is always safe, so it is as safe as the
\* replacement.
LEMMA LeadsAtomicWrite ==
  ASSUME NEW f \in FileNames \cup Directories, NEW c \in Contents,
         NEW F, NEW A, NEW C,
         Safe(Op("replace", f, c), F, A, C)
  PROVE  Leads(AtomicWrite(f, c), F, Put(F, f, c), A, C)
<1> DEFINE t == Op("temp", f, None)
           r == Op("replace", f, c)
<1>1. t \in Ops /\ r \in Ops
  BY DEF Op, Ops, Contents
<1>2. Safe(t, F, A, C)
  BY DEF Safe, Op
<1>3. Apply(t, F) = F /\ Apply(r, F) = Put(F, f, c)
  BY DEF Apply, Op
<1>4. AtomicWrite(f, c) = <<t>> \o <<r>>
  BY <1>1 DEF AtomicWrite
<1> HIDE DEF t, r
<1>5. Leads(<<t>>, F, F, A, C)
  BY <1>1, <1>2, <1>3, LeadsOne
<1>6. Leads(<<r>>, F, Put(F, f, c), A, C)
  BY <1>1, <1>3, LeadsOne DEF r
<1> QED
  BY <1>4, <1>5, <1>6, LeadsThen

\* _cleanup_temporary_files touches no file a reader knows.
LEMMA LeadsCleanUp ==
  ASSUME NEW F, NEW A
  PROVE  Leads(CleanUp, F, F, A, None)
<1> DEFINE o == Op("cleanup", "marker", None)
<1>1. o \in Ops /\ Safe(o, F, A, None) /\ Apply(o, F) = F
  BY DEF Op, Ops, Contents, FileNames, Safe, Apply
<1> QED
  BY <1>1, LeadsOne DEF CleanUp

\* One file of a reset, as long as it is the one the program was made for.
LEMMA LeadsUnlink ==
  ASSUME NEW f \in FileNames, NEW F \in Disk, F[f] = files[f],
         f = "marker" <=> F["marker"] = "self"
  PROVE  Leads(Unlink(f), F, Put(F, f, None), None, None)
<1>1. CASE files[f] = None
  <2>1. Put(F, f, None) = F
    BY <1>1 DEF Put, Disk
  <2> QED
    BY <1>1, <2>1, LeadsNowhere DEF Unlink
<1>2. CASE files[f] # None
  <2> DEFINE o == Op("unlink", f, None)
  <2>1. o \in Ops /\ Safe(o, F, None, None) /\ Apply(o, F) = Put(F, f, None)
    BY DEF Op, Ops, Contents, Safe, SafeUnlink, Apply
  <2> QED
    BY <1>2, <2>1, LeadsOne DEF Unlink
<1> QED
  BY <1>1, <1>2

LEMMA LeadsRemoveTree ==
  ASSUME NEW d \in Directories, NEW F
  PROVE  Leads(RemoveTree(d), F, F, None, None)
<1> DEFINE o == Op("rmtree", d, None)
<1>1. o \in Ops /\ Safe(o, F, None, None) /\ Apply(o, F) = F
  BY DEF Op, Ops, Contents, Safe, Apply
<1> QED
  BY <1>1, LeadsOne, LeadsNowhere DEF RemoveTree

\* reset: the marker goes first, so what is left of the other files is out
\* of sight from the first operation on.
LEMMA LeadsReset ==
  ASSUME files \in Disk, files["marker"] = "self"
  PROVE  Leads(Reset, files, [f \in FileNames |-> None], None, None)
<1> DEFINE F1 == Put(files, "marker", None)
           F2 == Put(F1, "manifest", None)
           F3 == Put(F2, "state", None)
           F4 == Put(F3, "result", None)
<1>1. /\ F1 \in Disk /\ F1["marker"] = None
      /\ F1["manifest"] = files["manifest"]
      /\ F1["state"] = files["state"] /\ F1["result"] = files["result"]
  BY DEF Put, Disk, Contents, FileNames
<1>2. /\ F2 \in Disk /\ F2["marker"] = None
      /\ F2["state"] = files["state"] /\ F2["result"] = files["result"]
  BY <1>1 DEF Put, Disk, Contents, FileNames
<1>3. /\ F3 \in Disk /\ F3["marker"] = None
      /\ F3["result"] = files["result"]
  BY <1>2 DEF Put, Disk, Contents, FileNames
<1>4. F4 = [f \in FileNames |-> None]
  BY DEF Put, FileNames
<1> HIDE DEF F1, F2, F3, F4
<1>5. Leads(Unlink("marker"), files, F1, None, None)
  BY LeadsUnlink DEF F1, FileNames
<1>6. Leads(Unlink("manifest"), F1, F2, None, None)
  BY <1>1, Distinct, LeadsUnlink DEF F2, FileNames
<1>7. Leads(Unlink("state"), F2, F3, None, None)
  BY <1>2, Distinct, LeadsUnlink DEF F3, FileNames
<1>8. Leads(Unlink("result"), F3, F4, None, None)
  BY <1>3, Distinct, LeadsUnlink DEF F4, FileNames
<1>9. \A d \in {"backend", "candidates", "stages"} :
        Leads(RemoveTree(d), F4, F4, None, None)
  BY LeadsRemoveTree DEF Directories
<1>10. Leads(Unlink("marker") \o Unlink("manifest"), files, F2, None, None)
  BY <1>5, <1>6, LeadsThen
<1>11. Leads(Unlink("marker") \o Unlink("manifest") \o Unlink("state"),
             files, F3, None, None)
  BY <1>10, <1>7, LeadsThen
<1>12. Leads(Unlink("marker") \o Unlink("manifest") \o Unlink("state")
             \o Unlink("result"), files, F4, None, None)
  BY <1>11, <1>8, LeadsThen
<1>13. Leads(Unlink("marker") \o Unlink("manifest") \o Unlink("state")
             \o Unlink("result") \o RemoveTree("backend"),
             files, F4, None, None)
  BY <1>12, <1>9, LeadsThen
<1>14. Leads(Unlink("marker") \o Unlink("manifest") \o Unlink("state")
             \o Unlink("result") \o RemoveTree("backend")
             \o RemoveTree("candidates"), files, F4, None, None)
  BY <1>13, <1>9, LeadsThen
<1> QED
  BY <1>14, <1>9, <1>4, LeadsThen DEF Reset

\* The marker of a directory in which no state and no result is left.
LEMMA LeadsWriteMarker ==
  ASSUME NEW F, F["marker"] # "self" => F["state"] = None /\ F["result"] = None
  PROVE  Leads(WriteMarker, F, Put(F, "marker", "self"), None, None)
<1>1. Safe(Op("replace", "marker", "self"), F, None, None)
  BY DEF Safe, SafeMarker, Op
<1> QED
  BY <1>1, LeadsAtomicWrite DEF WriteMarker, FileNames, Contents

\* checkpoint: a run that goes on from C, or a new one that has written its
\* manifest, ends with the state and the manifest of s.
LEMMA LeadsCheckpoint ==
  ASSUME NEW s \in RunState, NEW F \in Disk, NEW A, NEW C,
         SafeState(s, F, A),
         C # None => /\ Holds(F, C)
                     /\ s.run = C.run /\ s.digest = C.digest
                     /\ s.step >= C.step
  PROVE  \E G : Leads(Checkpoint(s), F, G, A, C) /\ Holds(G, s)
<1> DEFINE F1 == Put(F, "state", s)
           F2 == Put(F1, "manifest", s)
<1>1. /\ F1["marker"] = F["marker"] /\ F1["state"] = s
      /\ F1["manifest"] = F["manifest"]
  BY DEF Put, FileNames
<1>2. /\ F2["marker"] = F["marker"] /\ F2["state"] = s
      /\ F2["manifest"] = s
  BY <1>1 DEF Put, FileNames
<1> HIDE DEF F1, F2
<1>3. Safe(Op("replace", "state", s), F, A, C)
  BY DEF Safe, Op
<1>4. s.step \in Nat
  BY StoreAssumption DEF RunState
<1>5. Safe(Op("replace", "manifest", s), F1, A, C)
  <2>1. C # None => Holds(F1, C)
    BY <1>1 DEF Holds, SafeState
  <2>2. SafeManifest(s, F1)
    BY <1>1, <1>4 DEF SafeManifest, SafeState
  <2> QED
    BY <2>1, <2>2 DEF Safe, Op
<1>6. s \in Contents
  BY DEF Contents
<1>7. Leads(AtomicWrite("state", s), F, F1, A, C)
  BY <1>3, <1>6, LeadsAtomicWrite DEF F1, FileNames
<1>8. Leads(AtomicWrite("manifest", s), F1, F2, A, C)
  BY <1>5, <1>6, LeadsAtomicWrite DEF F2, FileNames
<1>9. Leads(Checkpoint(s), F, F2, A, C)
  BY <1>7, <1>8, LeadsThen DEF Checkpoint
<1>10. Holds(F2, s)
  BY <1>2, <1>4 DEF Holds, SafeState
<1> QED
  BY <1>9, <1>10

\* A new run in a directory that is claimed and holds no state.
LEMMA LeadsNewRun ==
  ASSUME NEW s \in RunState, NEW F \in Disk, F["marker"] = "self",
         F["state"] = None, F["result"] = None
  PROVE  \E G : Leads(NewRunWrites(s), F, G, None, None) /\ Holds(G, s)
<1> DEFINE F1 == Put(F, "manifest", s)
<1>1. s \in Contents
  BY DEF Contents
<1>2. /\ F1 \in Disk /\ F1["marker"] = "self" /\ F1["manifest"] = s
      /\ F1["state"] = None /\ F1["result"] = None
  BY <1>1 DEF Put, Disk, FileNames
<1> HIDE DEF F1
<1>3. Safe(Op("replace", "manifest", s), F, None, None)
  BY DEF Safe, SafeManifest, Op
<1>4. Leads(AtomicWrite("manifest", s), F, F1, None, None)
  BY <1>1, <1>3, LeadsAtomicWrite DEF F1, FileNames
<1>5. SafeState(s, F1, None)
  <2>1. s.step \in Nat
    BY StoreAssumption DEF RunState
  <2> QED
    BY <1>2, <2>1 DEF SafeState
<1>6. PICK G : Leads(Checkpoint(s), F1, G, None, None) /\ Holds(G, s)
  BY <1>2, <1>5, LeadsCheckpoint
<1>7. Leads(NewRunWrites(s), F, G, None, None)
  BY <1>4, <1>6, LeadsThen DEF NewRunWrites
<1> QED
  BY <1>6, <1>7

----------------------------------------------------------------------------
(* The invariant holds at first and is kept by every step.                 *)

LEMMA InitIInv == Init => IInv
<1> SUFFICES ASSUME Init PROVE IInv
  OBVIOUS
<1>1. files \in Disk /\ files["state"] = None /\ files["manifest"] = None
      /\ files["result"] = None /\ files["marker"] \in {None, "other"}
  BY DEF Init, Disk, FileNames, Contents
<1>2. 0 \in 0..MaxRuns /\ 0 \in 0..MaxLives
  BY StoreAssumption
<1>3. TypeOK
  BY <1>1, <1>2, Zenon DEF Init, TypeOK
<1> QED
  BY <1>1, <1>3, Distinct
     DEF Init, IInv, Sound, ManifestNeverAhead, AcknowledgedIsDurable,
         CallIsSafe, ProcessHolds

\* What a new run starts from.
LEMMA NewRunTyped ==
  ASSUME TypeOK, runs < MaxRuns, NEW digest \in Digests
  PROVE  NewRun(digest) \in RunState /\ runs + 1 \in 0..MaxRuns
BY StoreAssumption DEF TypeOK, NewRun, RunState

\* The part of prepare that follows the claim of the directory: F is what
\* the claim leaves of the files.
LEMMA PrepareOwnedSafe ==
  ASSUME IInv, NEW digest \in Digests, NEW resume, NEW fresh, NEW claim,
         NEW F \in Disk,
         Leads(claim, files, F, acked, None),
         F["marker"] = "self", F["state"] = files["state"],
         F["manifest"] = files["manifest"], F["result"] = files["result"],
         files["state"] # None => files["marker"] = "self",
         files["state"] = None => files["result"] = None,
         fresh => claim = <<>> /\ files["marker"] = "self",
         PrepareOwned(digest, resume, fresh, claim), current' = None
  PROVE  /\ proc' = "busy" /\ UNCHANGED directory
         /\ outcome' \in RunState \cup {None}
         /\ runs' \in 0..MaxRuns
         /\ acked' \in {acked, None}
         /\ CallIsSafe'
<1> DEFINE s == NewRun(digest)
<1>1. TypeOK /\ Sound /\ ManifestNeverAhead /\ AcknowledgedIsDurable
  BY DEF IInv
<1>2. ASSUME NEW G, Leads(todo', files, G, acked', None),
             outcome' # None => Holds(G, outcome'), UNCHANGED directory
      PROVE  CallIsSafe'
  BY <1>2 DEF CallIsSafe, directory
<1>3. Leads(claim \o CleanUp, files, F, acked, None)
  BY LeadsCleanUp, LeadsThen
<1>4. CASE /\ fresh /\ runs < MaxRuns
           /\ Call(claim \o CleanUp \o Reset \o WriteMarker \o NewRunWrites(s), s)
           /\ runs' = runs + 1 /\ acked' = None
  <2> DEFINE E == [f \in FileNames |-> None]
             E1 == Put(E, "marker", "self")
  <2>1. s \in RunState /\ runs + 1 \in 0..MaxRuns
    BY <1>1, <1>4, NewRunTyped
  <2>2. E["marker"] = None /\ E["state"] = None /\ E["result"] = None
    BY DEF FileNames
  <2>3. E1 \in Disk /\ E1["marker"] = "self"
        /\ E1["state"] = None /\ E1["result"] = None
    BY <2>2 DEF Put, Disk, FileNames, Contents
  <2>4. Leads(Reset, files, E, None, None)
    BY <1>1, <1>4, LeadsReset DEF Sound
  <2> HIDE DEF E
  <2>5. Leads(WriteMarker, E, E1, None, None)
    BY <2>2, LeadsWriteMarker
  <2> HIDE DEF E1
  <2>6. Leads(claim, files, files, None, None)
    BY <1>4, LeadsNowhere
  <2>7. Leads(claim \o CleanUp, files, files, None, None)
    BY <2>6, LeadsCleanUp, LeadsThen
  <2>8. Leads(claim \o CleanUp \o Reset, files, E, None, None)
    BY <2>7, <2>4, LeadsThen
  <2>9. Leads(claim \o CleanUp \o Reset \o WriteMarker, files, E1, None, None)
    BY <2>8, <2>5, LeadsThen
  <2> HIDE DEF s
  <2>10. PICK G : Leads(NewRunWrites(s), E1, G, None, None) /\ Holds(G, s)
    BY <2>1, <2>3, LeadsNewRun
  <2>11. Leads(claim \o CleanUp \o Reset \o WriteMarker \o NewRunWrites(s),
               files, G, None, None)
    BY <2>9, <2>10, LeadsThen
  <2>12. CallIsSafe'
    BY <2>10, <2>11, <1>2, <1>4 DEF Call
  <2> QED
    BY <2>1, <2>12, <1>4 DEF Call
<1>5. CASE /\ files["state"] # None
           /\ \/ Call(claim \o CleanUp, None)
              \/ Call(claim \o CleanUp, files["state"])
           /\ UNCHANGED <<runs, acked>>
  <2>1. files["state"] \in RunState
    BY <1>1, <1>5 DEF TypeOK
  <2>2. Holds(F, files["state"])
    <3>1. files["state"].step \in Nat
      BY <2>1, StoreAssumption DEF RunState
    <3>2. files["manifest"] \in RunState
      BY <1>1, <1>5 DEF TypeOK, ManifestNeverAhead
    <3> QED
      BY <1>1, <1>5, <2>1, <3>1, <3>2 DEF Holds, ManifestNeverAhead
  <2>3. CallIsSafe'
    BY <1>2, <1>3, <1>5, <2>2 DEF Call
  <2> QED
    BY <2>1, <2>3, <1>1, <1>5 DEF Call, TypeOK
<1>6. CASE /\ Call(claim \o CleanUp, None)
           /\ UNCHANGED <<runs, acked>>
  <2>1. CallIsSafe'
    BY <1>2, <1>3, <1>6 DEF Call
  <2> QED
    BY <2>1, <1>1, <1>6 DEF Call, TypeOK
<1>7. CASE /\ files["state"] = None /\ runs < MaxRuns
           /\ Call(claim \o CleanUp \o NewRunWrites(s), s)
           /\ runs' = runs + 1 /\ UNCHANGED acked
  <2>1. s \in RunState /\ runs + 1 \in 0..MaxRuns
    BY <1>1, <1>7, NewRunTyped
  <2> HIDE DEF s
  <2>2. acked = None
    BY <1>1, <1>7 DEF AcknowledgedIsDurable
  <2>3. PICK G : Leads(NewRunWrites(s), F, G, None, None) /\ Holds(G, s)
    BY <2>1, <1>7, LeadsNewRun
  <2>4. Leads(claim \o CleanUp \o NewRunWrites(s), files, G, None, None)
    BY <1>3, <2>2, <2>3, LeadsThen
  <2>5. CallIsSafe'
    BY <2>2, <2>3, <2>4, <1>2, <1>7 DEF Call
  <2> QED
    BY <2>1, <2>5, <1>7 DEF Call
<1> QED
  BY <1>4, <1>5, <1>6, <1>7 DEF PrepareOwned

\* prepare: whatever it finds, it sets out on a safe program.
LEMMA PrepareSafe ==
  ASSUME IInv, NEW digest \in Digests, NEW resume, NEW fresh \in BOOLEAN,
         Prepare(digest, resume, fresh)
  PROVE  IInv'
<1>1. TypeOK /\ Sound /\ ManifestNeverAhead /\ AcknowledgedIsDurable
  BY DEF IInv
<1>2. /\ proc' = "busy" /\ UNCHANGED directory
      /\ outcome' \in RunState \cup {None}
      /\ runs' \in 0..MaxRuns
      /\ acked' \in {acked, None}
      /\ CallIsSafe'
  <2>1. CASE /\ files["marker"] = "self"
             /\ PrepareOwned(digest, resume, fresh, <<>>)
    <3>1. Leads(<<>>, files, files, acked, None)
      BY LeadsNowhere
    <3> QED
      BY <1>1, <2>1, <3>1, PrepareOwnedSafe DEF Prepare, Sound
  <2>2. CASE files["marker"] = None /\ ~Populated
    <3> DEFINE F == Put(files, "marker", "self")
    <3>1. files["state"] = None /\ files["result"] = None
          /\ files["manifest"] = None /\ acked = None
      BY <1>1, <2>2 DEF Populated, FileNames, AcknowledgedIsDurable
    <3>2. F \in Disk /\ F["marker"] = "self" /\ F["state"] = None
          /\ F["result"] = None /\ F["manifest"] = None
      BY <1>1, <3>1 DEF Sound, Disk, Put, FileNames, Contents
    <3>3. Leads(WriteMarker, files, F, None, None)
      BY <3>1, LeadsWriteMarker
    <3>4. CASE fresh
      <4> DEFINE s == NewRun(digest)
                 u == Op("unlink", "marker", None)
                 F1 == Put(F, "marker", None)
                 F2 == Put(F1, "marker", "self")
      <4>1. /\ runs < MaxRuns
            /\ Call(WriteMarker \o CleanUp \o <<u>> \o WriteMarker
                    \o NewRunWrites(s), s)
            /\ runs' = runs + 1 /\ UNCHANGED acked
        BY <2>2, <3>4, Distinct DEF Prepare
      <4>2. s \in RunState /\ runs + 1 \in 0..MaxRuns
        BY <1>1, <4>1, NewRunTyped
      <4> HIDE DEF s, F
      <4>3. F1 \in Disk /\ F1["state"] = None /\ F1["result"] = None
        BY <3>2 DEF Put, Disk, FileNames, Contents
      <4> HIDE DEF F1
      <4>4. F2 \in Disk /\ F2["marker"] = "self" /\ F2["state"] = None
            /\ F2["result"] = None
        BY <4>3 DEF Put, Disk, FileNames, Contents
      <4>5. Leads(WriteMarker \o CleanUp, files, F, None, None)
        BY <3>3, LeadsCleanUp, LeadsThen
      <4>6. u \in Ops /\ Safe(u, F, None, None) /\ Apply(u, F) = F1
        BY <3>2 DEF Op, Ops, Safe, SafeUnlink, Apply, F1, Contents, FileNames
      <4>7. Leads(<<u>>, F, F1, None, None)
        BY <4>6, LeadsOne
      <4> HIDE DEF u
      <4>8. Leads(WriteMarker, F1, F2, None, None)
        BY <4>3, LeadsWriteMarker
      <4> HIDE DEF F2
      <4>9. Leads(WriteMarker \o CleanUp \o <<u>>, files, F1, None, None)
        BY <4>5, <4>7, LeadsThen
      <4>10. Leads(WriteMarker \o CleanUp \o <<u>> \o WriteMarker,
                   files, F2, None, None)
        BY <4>8, <4>9, LeadsThen
      <4>11. PICK G : Leads(NewRunWrites(s), F2, G, None, None) /\ Holds(G, s)
        BY <4>2, <4>4, LeadsNewRun
      <4>12. Leads(WriteMarker \o CleanUp \o <<u>> \o WriteMarker
                   \o NewRunWrites(s), files, G, None, None)
        BY <4>10, <4>11, LeadsThen
      <4>13. CallIsSafe'
        BY <3>1, <4>1, <4>11, <4>12 DEF Call, CallIsSafe, Prepare, directory
      <4> QED
        BY <3>1, <4>1, <4>2, <4>13 DEF Call
    <3>5. CASE ~fresh
      <4>1. PrepareOwned(digest, resume, FALSE, WriteMarker) /\ current' = None
        BY <2>2, <3>5, Distinct DEF Prepare
      <4> HIDE DEF F
      <4>2. Leads(WriteMarker, files, F, acked, None)
        BY <3>1, <3>3
      <4> QED
        BY <3>1, <3>2, <4>1, <4>2, PrepareOwnedSafe
    <3> QED
      BY <3>4, <3>5
  <2>3. CASE Call(<<>>, None) /\ UNCHANGED <<runs, acked>>
    <3>1. Leads(<<>>, files, files, acked, None)
      BY LeadsNowhere
    <3> QED
      BY <1>1, <2>3, <3>1 DEF Call, CallIsSafe, Prepare, directory, TypeOK
  <2> QED
    BY <2>1, <2>2, <2>3 DEF Prepare
<1>3. current' = None /\ lives' \in 0..MaxLives
  BY <1>1, StoreAssumption DEF Prepare, TypeOK
<1>4. TypeOK'
  BY <1>1, <1>2, <1>3 DEF TypeOK, directory
<1>5. (Sound /\ ManifestNeverAhead /\ AcknowledgedIsDurable)'
  BY <1>1, <1>2
     DEF Sound, ManifestNeverAhead, AcknowledgedIsDurable, directory
<1>6. ProcessHolds'
  BY <1>2, <1>3 DEF ProcessHolds
<1> QED
  BY <1>2, <1>4, <1>5, <1>6 DEF IInv

\* checkpoint.
LEMMA SaveProgressSafe ==
  ASSUME IInv, NEW step \in 0..MaxStep, SaveProgress(step)
  PROVE  IInv'
<1> DEFINE s == [current EXCEPT !.step = step]
<1>1. TypeOK /\ Sound /\ ManifestNeverAhead /\ AcknowledgedIsDurable
      /\ current \in RunState /\ Holds(files, current) /\ acked = current
  BY DEF IInv, ProcessHolds, SaveProgress, TypeOK
<1>2. /\ s \in RunState /\ s.run = current.run /\ s.digest = current.digest
      /\ s.step = step /\ step \in Nat /\ current.step \in Nat
      /\ step >= current.step
  BY <1>1, StoreAssumption DEF SaveProgress, RunState
<1>3. /\ proc' = "busy" /\ todo' = Checkpoint(s) /\ outcome' = s
      /\ UNCHANGED <<directory, current, history>>
  BY DEF SaveProgress, Call
<1> HIDE DEF s
<1>4. SafeState(s, files, acked)
  <2>1. files["manifest"].step \in Nat
    BY <1>1, StoreAssumption DEF Holds, RunState
  <2>2. files["manifest"].step <= s.step
    BY <2>1, <1>1, <1>2 DEF Holds
  <2> QED
    BY <2>2, <1>1, <1>2, Distinct DEF SafeState, Holds
<1>5. \E G : Leads(Checkpoint(s), files, G, acked, current) /\ Holds(G, s)
  BY <1>1, <1>2, <1>4, LeadsCheckpoint DEF Sound
<1>6. CallIsSafe'
  BY <1>3, <1>5 DEF CallIsSafe, directory, history
<1>7. TypeOK'
  BY <1>1, <1>2, <1>3 DEF TypeOK, directory, history
<1>8. (Sound /\ ManifestNeverAhead /\ AcknowledgedIsDurable)'
  BY <1>1, <1>3
     DEF Sound, ManifestNeverAhead, AcknowledgedIsDurable, directory, history
<1>9. ProcessHolds'
  BY <1>1, <1>3 DEF ProcessHolds, history
<1> QED
  BY <1>6, <1>7, <1>8, <1>9 DEF IInv

\* write_result, write_candidate and write_stage: one file that no other
\* file depends on.
LEMMA SaveFileSafe ==
  ASSUME IInv, NEW f \in {"result"} \cup Directories, proc = "open",
         Call(AtomicWrite(f, current.run), current),
         UNCHANGED <<current, history>>
  PROVE  IInv'
<1>1. TypeOK /\ Sound /\ ManifestNeverAhead /\ AcknowledgedIsDurable
      /\ current \in RunState /\ Holds(files, current) /\ acked = current
  BY DEF IInv, ProcessHolds, TypeOK
<1>2. current.run \in 1..MaxRuns
  BY <1>1 DEF RunState
<1>3. /\ proc' = "busy" /\ todo' = AtomicWrite(f, current.run)
      /\ outcome' = current /\ UNCHANGED directory
  BY DEF Call
<1> DEFINE G == Put(files, f, current.run)
<1>4. Safe(Op("replace", f, current.run), files, acked, current)
  <2>1. CASE f = "result"
    <3>1. SafeResult(current.run, files)
      BY <1>1, <1>2, Distinct DEF SafeResult, Holds
    <3> QED
      BY <1>1, <2>1, <3>1 DEF Safe, Op
  <2>2. CASE f \in Directories
    BY <1>1, <2>2 DEF Safe, Op
  <2> QED
    BY <2>1, <2>2
<1>5. f \in FileNames \cup Directories /\ current.run \in Contents
  BY <1>2 DEF FileNames, Contents
<1>6. Leads(AtomicWrite(f, current.run), files, G, acked, current)
  BY <1>4, <1>5, LeadsAtomicWrite
<1>7. Holds(G, current)
  <2>1. G["marker"] = files["marker"] /\ G["state"] = files["state"]
        /\ G["manifest"] = files["manifest"]
    BY DEF Put, FileNames, Directories
  <2> HIDE DEF G
  <2> QED
    BY <1>1, <2>1 DEF Holds
<1> HIDE DEF G
<1>8. CallIsSafe'
  BY <1>3, <1>6, <1>7 DEF CallIsSafe, directory, history
<1>9. TypeOK'
  BY <1>1, <1>3 DEF TypeOK, directory, history
<1>10. (Sound /\ ManifestNeverAhead /\ AcknowledgedIsDurable)'
  BY <1>1, <1>3
     DEF Sound, ManifestNeverAhead, AcknowledgedIsDurable, directory, history
<1>11. ProcessHolds'
  BY <1>1, <1>3 DEF ProcessHolds, history
<1> QED
  BY <1>8, <1>9, <1>10, <1>11 DEF IInv

\* Performing an operation does to the files what Apply says, and leaves
\* the temporaries and the directories among those the store owns.
LEMMA PerformApplies ==
  ASSUME NEW o \in Ops, files \in Disk, Perform(o),
         o.op = "unlink" => o.content = None /\ o.name \in FileNames,
         o.op = "rmtree" => o.name \in Directories,
         temps \subseteq FileNames \cup Directories, tree \subseteq Directories
  PROVE  /\ files' = Apply(o, files) /\ files' \in Disk
         /\ temps' \subseteq FileNames \cup Directories
         /\ tree' \subseteq Directories
<1>1. o.name \in FileNames \cup Directories
  BY DEF Ops
<1>2. files' = Apply(o, files)
  <2>1. CASE o.op = "unlink"
    <3>1. files' = [files EXCEPT ![o.name] = None]
      BY <2>1 DEF Perform
    <3>2. files' = Put(files, o.name, None)
      BY <3>1 DEF Put, Disk
    <3> QED
      BY <2>1, <3>2 DEF Apply
  <2>2. CASE o.op = "replace"
    BY <2>2 DEF Perform, Apply, Put
  <2>3. CASE o.op \notin {"replace", "unlink"}
    BY <2>3 DEF Perform, Apply
  <2> QED
    BY <2>1, <2>2, <2>3
<1>3. temps' \subseteq FileNames \cup Directories
  BY <1>1 DEF Perform
<1>4. tree' \subseteq Directories
  BY DEF Perform
<1> QED
  BY <1>2, <1>3, <1>4, DiskTyped

\* What an operation may do to the four files, read off from Safe.
LEMMA SafeEffect ==
  ASSUME NEW o \in Ops, NEW F \in Disk, NEW A, NEW C, Safe(o, F, A, C)
  PROVE  \/ Apply(o, F) = F
         \/ /\ SafeMarker(o.content, F)
            /\ Apply(o, F) = Put(F, "marker", "self")
         \/ /\ SafeManifest(o.content, F)
            /\ Apply(o, F) = Put(F, "manifest", o.content)
         \/ /\ SafeState(o.content, F, A)
            /\ Apply(o, F) = Put(F, "state", o.content)
         \/ /\ SafeResult(o.content, F)
            /\ Apply(o, F) = Put(F, "result", o.content)
         \/ /\ SafeUnlink(o.name, F, A)
            /\ Apply(o, F) = Put(F, o.name, None)
<1>1. \A d \in Directories : \A c : Put(F, d, c) = F
  BY DEF Put, Disk, Directories, FileNames
<1>2. CASE o.op = "replace" /\ o.name = "marker" /\ SafeMarker(o.content, F)
  BY <1>2 DEF Apply, SafeMarker
<1>3. CASE o.op = "replace" /\ o.name = "manifest" /\ SafeManifest(o.content, F)
  BY <1>3 DEF Apply
<1>4. CASE o.op = "replace" /\ o.name = "state" /\ SafeState(o.content, F, A)
  BY <1>4 DEF Apply
<1>5. CASE o.op = "replace" /\ o.name = "result" /\ SafeResult(o.content, F)
  BY <1>5 DEF Apply
<1>6. CASE o.op = "unlink" /\ o.content = None /\ SafeUnlink(o.name, F, A)
  BY <1>6 DEF Apply, SafeUnlink
<1>7. CASE o.op = "replace" /\ o.name \in Directories
  BY <1>1, <1>7 DEF Apply
<1>8. CASE o.op \in {"temp", "rmtree", "cleanup"}
  BY <1>8 DEF Apply
<1> QED
  BY <1>2, <1>3, <1>4, <1>5, <1>6, <1>7, <1>8 DEF Safe

\* One file operation: the rest of the call leads on from it.
LEMMA DiskStepSafe ==
  ASSUME IInv, DiskStep
  PROVE  /\ IInv' /\ Head(todo) \in Ops
         /\ Safe(Head(todo), files, acked, current)
         /\ files' = Apply(Head(todo), files)
<1> DEFINE o == Head(todo)
           F == files
<1>1. TypeOK /\ Sound /\ ManifestNeverAhead /\ AcknowledgedIsDurable
      /\ ProcessHolds
  BY DEF IInv
<1>2. PICK G : /\ Leads(todo, files, G, acked, current)
               /\ outcome # None => Holds(G, outcome)
  BY DEF IInv, CallIsSafe, DiskStep
<1>3. /\ o \in Ops /\ Safe(o, files, acked, current)
      /\ Leads(Tail(todo), Apply(o, files), G, acked, current)
  BY <1>2, LeadsStep DEF DiskStep
<1>4. /\ files' = Apply(o, files) /\ files' \in Disk
      /\ temps' \subseteq FileNames \cup Directories
      /\ tree' \subseteq Directories
  <2>1. /\ o.op = "unlink" => o.content = None /\ o.name \in FileNames
        /\ o.op = "rmtree" => o.name \in Directories
    BY <1>3 DEF Safe, SafeUnlink
  <2> QED
    BY <1>1, <1>3, <2>1, PerformApplies DEF DiskStep, Sound, TypeOK
<1>5. /\ proc' = proc /\ proc = "busy" /\ todo' = Tail(todo)
      /\ UNCHANGED <<userFile, outcome, current, runs, lives, acked>>
  BY DEF DiskStep
<1> HIDE DEF o
<1>6. CallIsSafe'
  BY <1>2, <1>3, <1>4, <1>5 DEF CallIsSafe
<1>7. ProcessHolds'
  BY <1>1, <1>5 DEF ProcessHolds
<1> SUFFICES IInv'
  BY <1>3, <1>4 DEF o
<1>8. ASSUME /\ files'["marker"] \in {None, "self", "other"}
             /\ files'["manifest"] \in RunState \cup {None}
             /\ files'["state"] \in RunState \cup {None}
             /\ files'["result"] \in 1..MaxRuns \cup {None},
             files'["marker"] = "self" /\ files'["state"] = None
               => files'["result"] = None,
             ManifestNeverAhead', AcknowledgedIsDurable'
      PROVE  IInv'
  <2>1. TypeOK'
    BY <1>1, <1>4, <1>5, <1>8 DEF TypeOK
  <2>2. Sound'
    BY <1>4, <1>8 DEF Sound
  <2> QED
    BY <1>6, <1>7, <1>8, <2>1, <2>2 DEF IInv
<1>9. CASE files' = files
  BY <1>1, <1>5, <1>8, <1>9
     DEF TypeOK, Sound, ManifestNeverAhead, AcknowledgedIsDurable
<1>10. CASE SafeMarker(o.content, F) /\ files' = Put(F, "marker", "self")
  <2>1. /\ files'["marker"] = "self" /\ files'["state"] = F["state"]
        /\ files'["manifest"] = F["manifest"]
        /\ files'["result"] = F["result"]
    BY <1>10 DEF Put, FileNames
  <2> QED
    BY <1>1, <1>5, <1>8, <1>10, <2>1
       DEF TypeOK, Sound, ManifestNeverAhead, AcknowledgedIsDurable, SafeMarker
<1>11. CASE SafeManifest(o.content, F)
            /\ files' = Put(F, "manifest", o.content)
  <2>1. /\ files'["marker"] = F["marker"] /\ files'["state"] = F["state"]
        /\ files'["manifest"] = o.content
        /\ files'["result"] = F["result"]
    BY <1>11 DEF Put, FileNames
  <2>2. ManifestNeverAhead'
    <3>1. F["state"] # None => F["state"].step \in Nat
      BY <1>1, StoreAssumption DEF TypeOK, RunState
    <3>2. o.content.step \in Nat
      BY <1>11, StoreAssumption DEF SafeManifest, RunState
    <3> QED
      BY <1>11, <2>1, <3>1, <3>2, Distinct
         DEF ManifestNeverAhead, SafeManifest
  <2>3. AcknowledgedIsDurable'
    BY <1>1, <1>5, <2>1 DEF AcknowledgedIsDurable
  <2> QED
    BY <1>1, <1>8, <1>11, <2>1, <2>2, <2>3 DEF TypeOK, Sound, SafeManifest
<1>12. CASE SafeState(o.content, F, acked)
            /\ files' = Put(F, "state", o.content)
  <2>1. /\ files'["marker"] = F["marker"] /\ files'["state"] = o.content
        /\ files'["manifest"] = F["manifest"]
        /\ files'["result"] = F["result"]
    BY <1>12 DEF Put, FileNames
  <2>2. ManifestNeverAhead'
    BY <1>12, <2>1, Distinct DEF ManifestNeverAhead, SafeState
  <2>3. AcknowledgedIsDurable'
    BY <1>5, <1>12, <2>1, Distinct DEF AcknowledgedIsDurable, SafeState
  <2> QED
    BY <1>1, <1>8, <1>12, <2>1, <2>2, <2>3, Distinct
       DEF TypeOK, SafeState
<1>13. CASE SafeResult(o.content, F)
            /\ files' = Put(F, "result", o.content)
  <2>1. /\ files'["marker"] = F["marker"] /\ files'["state"] = F["state"]
        /\ files'["manifest"] = F["manifest"]
        /\ files'["result"] = o.content
    BY <1>13 DEF Put, FileNames
  <2>2. (ManifestNeverAhead /\ AcknowledgedIsDurable)'
    BY <1>1, <1>5, <2>1 DEF ManifestNeverAhead, AcknowledgedIsDurable
  <2> QED
    BY <1>1, <1>8, <1>13, <2>1, <2>2 DEF TypeOK, SafeResult
<1>14. CASE SafeUnlink(o.name, F, acked)
            /\ files' = Put(F, o.name, None)
  <2>1. \A f \in FileNames :
          files'[f] = IF f = o.name THEN None ELSE F[f]
    BY <1>14 DEF Put
  <2>2. acked' = None /\ files'["marker"] # "self"
    BY <1>5, <1>14, <2>1, Distinct DEF SafeUnlink, FileNames
  <2>3. (ManifestNeverAhead /\ AcknowledgedIsDurable)'
    BY <2>2 DEF ManifestNeverAhead, AcknowledgedIsDurable
  <2>4. /\ files'["marker"] \in {None, "self", "other"}
        /\ files'["manifest"] \in RunState \cup {None}
        /\ files'["state"] \in RunState \cup {None}
        /\ files'["result"] \in 1..MaxRuns \cup {None}
    BY <1>1, <2>1 DEF TypeOK, FileNames
  <2> QED
    BY <1>8, <2>2, <2>3, <2>4
<1> HIDE DEF F
<1>15. files = F
  BY DEF F
<1> QED
  BY <1>1, <1>3, <1>4, <1>9, <1>10, <1>11, <1>12, <1>13, <1>14, <1>15,
     SafeEffect DEF Sound

LEMMA ReturnSafe ==
  ASSUME IInv, Return
  PROVE  IInv'
<1>1. TypeOK /\ Sound /\ ManifestNeverAhead /\ AcknowledgedIsDurable
  BY DEF IInv
<1>2. PICK G : /\ Leads(todo, files, G, acked, current)
               /\ outcome # None => Holds(G, outcome)
  BY DEF IInv, CallIsSafe, Return
<1>3. outcome # None => Holds(files, outcome)
  BY <1>2, LeadsEnd DEF Return
<1>4. /\ proc' = IF outcome = None THEN "down" ELSE "open"
      /\ current' = outcome
      /\ acked' = IF outcome = None THEN acked ELSE outcome
      /\ UNCHANGED <<files, temps, tree, userFile, outcome, runs, lives>>
  BY DEF Return, directory
<1>5. TypeOK'
  BY <1>1, <1>4 DEF TypeOK
<1>6. (Sound /\ ManifestNeverAhead)'
  BY <1>1, <1>4 DEF Sound, ManifestNeverAhead
<1>7. AcknowledgedIsDurable'
  BY <1>1, <1>3, <1>4, Distinct DEF AcknowledgedIsDurable, Holds
<1>8. ProcessHolds' /\ CallIsSafe'
  BY <1>3, <1>4 DEF ProcessHolds, CallIsSafe
<1> QED
  BY <1>5, <1>6, <1>7, <1>8 DEF IInv

\* A call that fails leaves the process with what it worked from before.
LEMMA DiskErrorSafe ==
  ASSUME IInv, DiskError
  PROVE  IInv'
<1>1. TypeOK /\ Sound /\ ManifestNeverAhead /\ AcknowledgedIsDurable
      /\ ProcessHolds
  BY DEF IInv
<1>2. current # None => Holds(files, current)
  <2>1. PICK G : Leads(todo, files, G, acked, current)
    BY DEF IInv, CallIsSafe, DiskError
  <2> QED
    BY <2>1, LeadsStep DEF DiskError, Safe
<1>3. /\ proc' = IF current = None THEN "down" ELSE "open"
      /\ temps' \subseteq temps
      /\ UNCHANGED <<files, tree, userFile, outcome, current, runs, lives, acked>>
  BY DEF DiskError, history
<1>4. TypeOK'
  BY <1>1, <1>3 DEF TypeOK
<1>5. (Sound /\ ManifestNeverAhead /\ AcknowledgedIsDurable)'
  BY <1>1, <1>3 DEF Sound, ManifestNeverAhead, AcknowledgedIsDurable
<1>6. ProcessHolds' /\ CallIsSafe'
  BY <1>1, <1>2, <1>3 DEF ProcessHolds, CallIsSafe
<1> QED
  BY <1>4, <1>5, <1>6 DEF IInv

LEMMA CrashSafe ==
  ASSUME IInv, Crash
  PROVE  IInv'
<1>1. TypeOK /\ Sound /\ ManifestNeverAhead /\ AcknowledgedIsDurable
  BY DEF IInv
<1>2. /\ proc' = "down" /\ current' = None
      /\ UNCHANGED <<files, temps, tree, userFile, outcome, runs, lives, acked>>
  BY DEF Crash, directory, history
<1>3. TypeOK'
  BY <1>1, <1>2 DEF TypeOK
<1>4. (Sound /\ ManifestNeverAhead /\ AcknowledgedIsDurable)'
  BY <1>1, <1>2 DEF Sound, ManifestNeverAhead, AcknowledgedIsDurable
<1>5. ProcessHolds' /\ CallIsSafe'
  BY <1>2 DEF ProcessHolds, CallIsSafe
<1> QED
  BY <1>3, <1>4, <1>5 DEF IInv

\* A step that changes none of what the store reads.
LEMMA IdleSafe ==
  ASSUME IInv, userFile' \in BOOLEAN,
         UNCHANGED <<files, temps, tree, process, history>>
  PROVE  IInv'
<1>1. UNCHANGED <<files, temps, tree, proc, todo, outcome, current, runs,
                  lives, acked>>
  BY DEF process, history
<1>2. TypeOK'
  BY <1>1 DEF IInv, TypeOK
<1>3. (Sound /\ ManifestNeverAhead /\ AcknowledgedIsDurable)'
  BY <1>1 DEF IInv, Sound, ManifestNeverAhead, AcknowledgedIsDurable
<1>4. (ProcessHolds /\ CallIsSafe)'
  BY <1>1 DEF IInv, ProcessHolds, CallIsSafe
<1> QED
  BY <1>2, <1>3, <1>4 DEF IInv

LEMMA NextIInv == IInv /\ [Next]_vars => IInv'
<1> SUFFICES ASSUME IInv, [Next]_vars PROVE IInv'
  OBVIOUS
<1>1. ASSUME NEW d \in Digests, NEW r \in {"never", "if_exists", "required"},
             NEW b \in BOOLEAN, Prepare(d, r, b)
      PROVE  IInv'
  BY <1>1, PrepareSafe
<1>2. ASSUME NEW n \in 0..MaxStep, SaveProgress(n)
      PROVE  IInv'
  BY <1>2, SaveProgressSafe
<1>3. CASE SaveResult
  BY <1>3, SaveFileSafe DEF SaveResult
<1>4. ASSUME NEW d \in Directories \ {"backend"}, SaveSnapshot(d)
      PROVE  IInv'
  BY <1>4, SaveFileSafe DEF SaveSnapshot
<1>5. CASE DiskStep
  BY <1>5, DiskStepSafe
<1>6. CASE Return
  BY <1>6, ReturnSafe
<1>7. CASE DiskError
  BY <1>7, DiskErrorSafe
<1>8. CASE Crash
  BY <1>8, CrashSafe
<1>9. CASE AddUserFile
  BY <1>9, IdleSafe DEF AddUserFile
<1>10. CASE UNCHANGED vars
  <2>1. userFile' \in BOOLEAN
    BY <1>10 DEF IInv, TypeOK, vars, directory
  <2> QED
    BY <1>10, <2>1, IdleSafe DEF vars, directory
<1> QED
  BY <1>1, <1>2, <1>3, <1>4, <1>5, <1>6, <1>7, <1>8, <1>9, <1>10 DEF Next

LEMMA InvariantHolds == Spec => []IInv
BY InitIInv, NextIInv, PTL DEF Spec

----------------------------------------------------------------------------
(* The theorems.                                                           *)

\* The store's variables keep their types: the files hold RunStates and
\* results of runs that were started, and progress stays within its bound.
THEOREM TypeCorrect == Spec => []TypeOK
<1>1. IInv => TypeOK
  BY DEF IInv
<1> QED
  BY <1>1, InvariantHolds, PTL

\* However many checkpoints are cut short between the replacement of
\* state.json and that of manifest.json, the manifest of an owned directory
\* belongs to the run whose state is there and is never ahead of it.
THEOREM ManifestCorrect == Spec => []ManifestNeverAhead
<1>1. IInv => ManifestNeverAhead
  BY DEF IInv
<1> QED
  BY <1>1, InvariantHolds, PTL

\* Progress that checkpoint has confirmed to its caller is on disk after
\* every crash, OSError, refused prepare and later checkpoint.
THEOREM DurabilityCorrect == Spec => []AcknowledgedIsDurable
<1>1. IInv => AcknowledgedIsDurable
  BY DEF IInv
<1> QED
  BY <1>1, InvariantHolds, PTL

----------------------------------------------------------------------------
(* The file store implements the atomic one.                               *)

\* Of all the operations of a call, only the replacement of the marker, of
\* the state and of the result and the removal of the marker are steps of
\* the atomic store; the rest nobody who reads the store can see.
LEMMA DiskStepSimulates ==
  ASSUME IInv, DiskStep
  PROVE  [Atomic!StoreNext]_(Atomic!storeVars)
<1> DEFINE o == Head(todo)
           F == files
<1>1. /\ Safe(o, files, acked, current) /\ files' = Apply(o, files)
      /\ o \in Ops /\ files \in Disk
  BY DiskStepSafe DEF IInv, Sound
<1>2. TypeOK /\ Sound
  BY DEF IInv
<1> HIDE DEF o
<1>3. CASE files' = files
  BY <1>3 DEF Atomic!storeVars, owned
<1>4. CASE SafeMarker(o.content, F) /\ files' = Put(F, "marker", "self")
  <2>1. /\ files'["marker"] = "self" /\ files'["state"] = files["state"]
        /\ files'["result"] = files["result"]
    BY <1>4 DEF Put, FileNames
  <2>2. CASE files["marker"] = "self"
    BY <2>1, <2>2 DEF Atomic!storeVars, owned
  <2>3. CASE files["marker"] # "self"
    <3>1. Atomic!Claim
      BY <1>4, <2>1, <2>3 DEF Atomic!Claim, owned, SafeMarker
    <3> QED
      BY <3>1 DEF Atomic!StoreNext
  <2> QED
    BY <2>2, <2>3
<1>5. CASE files' = Put(F, "manifest", o.content)
  <2>1. /\ files'["marker"] = files["marker"]
        /\ files'["state"] = files["state"]
        /\ files'["result"] = files["result"]
    BY <1>5 DEF Put, FileNames
  <2> QED
    BY <2>1 DEF Atomic!storeVars, owned
<1>6. CASE SafeState(o.content, F, acked)
           /\ files' = Put(F, "state", o.content)
  <2>1. /\ files["marker"] = "self" /\ files'["marker"] = "self"
        /\ files'["state"] = o.content
        /\ files'["result"] = files["result"] /\ o.content \in RunState
        /\ files["state"] = None => files["result"] = None
    BY <1>6 DEF Put, FileNames, SafeState
  <2>2. Atomic!Begin(o.content) \/ Atomic!SaveState(o.content)
    BY <2>1 DEF Atomic!Begin, Atomic!SaveState, owned
  <2> QED
    BY <2>1, <2>2 DEF Atomic!StoreNext
<1>7. CASE SafeResult(o.content, F)
           /\ files' = Put(F, "result", o.content)
  <2>1. /\ files["marker"] = "self" /\ files'["marker"] = "self"
        /\ files["state"] # None /\ files'["state"] = files["state"]
        /\ files'["result"] = o.content /\ o.content \in 1..MaxRuns
    BY <1>7 DEF Put, FileNames, SafeResult
  <2>2. Atomic!SaveResult(o.content)
    BY <2>1 DEF Atomic!SaveResult, owned
  <2> QED
    BY <2>1, <2>2 DEF Atomic!StoreNext
<1>8. CASE SafeUnlink(o.name, F, acked) /\ files' = Put(F, o.name, None)
  <2>1. files'["marker"] = IF o.name = "marker" THEN None ELSE files["marker"]
    BY <1>8 DEF Put, FileNames
  <2>2. files'["marker"] # "self"
    BY <1>8, <2>1, Distinct DEF SafeUnlink
  <2>3. CASE o.name = "marker"
    <3>1. files["marker"] = "self"
      BY <1>8, <2>3 DEF SafeUnlink
    <3>2. Atomic!Release
      BY <2>2, <3>1 DEF Atomic!Release, owned
    <3> QED
      BY <3>2 DEF Atomic!StoreNext
  <2>4. CASE o.name # "marker"
    <3>1. files["marker"] # "self"
      BY <1>8, <2>4 DEF SafeUnlink
    <3> QED
      BY <2>2, <3>1 DEF Atomic!storeVars, owned
  <2> QED
    BY <2>3, <2>4
<1> HIDE DEF F
<1>9. files = F
  BY DEF F
<1> QED
  BY <1>1, <1>3, <1>4, <1>5, <1>6, <1>7, <1>8, <1>9, SafeEffect

\* A call of the store becomes visible one file operation at a time: a step
\* of any other action is a stutter of the atomic store.
LEMMA StepSimulates ==
  IInv /\ [Next]_vars => [Atomic!StoreNext]_(Atomic!storeVars)
<1> SUFFICES ASSUME IInv, [Next]_vars
             PROVE  [Atomic!StoreNext]_(Atomic!storeVars)
  OBVIOUS
<1>1. ASSUME UNCHANGED files
      PROVE  UNCHANGED Atomic!storeVars
  BY <1>1 DEF Atomic!storeVars, owned
<1>2. CASE DiskStep
  BY <1>2, DiskStepSimulates
<1>3. ASSUME NEW d, NEW r, NEW b, Prepare(d, r, b)
      PROVE  UNCHANGED files
  BY <1>3 DEF Prepare, PrepareOwned, Call, directory
<1>4. ASSUME NEW n, SaveProgress(n)
      PROVE  UNCHANGED files
  BY <1>4 DEF SaveProgress, Call, directory
<1>5. ASSUME SaveResult \/ (\E d \in Directories : SaveSnapshot(d))
      PROVE  UNCHANGED files
  BY <1>5 DEF SaveResult, SaveSnapshot, Call, directory
<1>6. ASSUME Return \/ DiskError \/ Crash \/ AddUserFile \/ UNCHANGED vars
      PROVE  UNCHANGED files
  BY <1>6 DEF Return, DiskError, Crash, AddUserFile, vars, directory
<1> QED
  BY <1>1, <1>2, <1>3, <1>4, <1>5, <1>6 DEF Next

LEMMA InitSimulates == Init => Atomic!StoreInit
BY Distinct DEF Init, Atomic!StoreInit, owned, FileNames

\* FileRunStore keeps the promise of RunStore: every write is seen whole or
\* not at all, a reset takes state and result away in one step, and a
\* directory that is claimed, or claimed again, holds neither.
THEOREM StoreImplementsAtomic == Spec => ImplementsAtomicStore
<1>1. Spec => [][Atomic!StoreNext]_(Atomic!storeVars)
  BY InvariantHolds, StepSimulates, PTL DEF Spec
<1>2. Spec => Atomic!StoreInit
  BY InitSimulates DEF Spec
<1> QED
  BY <1>1, <1>2, PTL DEF ImplementsAtomicStore, Atomic!StoreSpec
=============================================================================
