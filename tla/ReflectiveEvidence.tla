------------------------- MODULE ReflectiveEvidence -------------------------
(***************************************************************************)
(* objectives.py and asi.py: the score of a case, and which cases the      *)
(* reflection on each component gets to see.                               *)
(***************************************************************************)
EXTENDS Integers, SequencesExt

CONSTANTS
  NoScore,      \* a metric that is absent or not a number
  Objective,    \* direction, failure_score
  Builders,     \* PydanticEvalsASIBuilders: max_examples, max_encoded_chars,
                \* sample_selection, unroutable
  Unlimited     \* no limit

\* A score is a number, of which only the order matters.
ASSUME BuilderAssumption ==
  /\ Objective.failure_score \in Int
  /\ \A b \in Builders :
       /\ b.max_examples \in {Unlimited} \cup Int
       /\ b.max_encoded_chars \in {Unlimited} \cup Nat

\* ScoreObjective.extract: minimizing turns the scores, not the failure score.
Extract(score) ==
  IF score = NoScore THEN Objective.failure_score
  ELSE IF Objective.direction = "minimize" THEN -score ELSE score

----------------------------------------------------------------------------
(* A record: the case, its score, whether it has an error or a failed      *)
(* assertion, the length of its encoding and what may route it: selected   *)
(* (a selector's answer, or NoScore for none), traces and hints.           *)

\* _failure_category; _success_payload is that there is none.
Failing(r) == r.error \/ r.assertion \/ r.score <= 0

Count(names, c) == Cardinality({i \in DOMAIN names : names[i] = c})

\* _targets_for_record, how often it names a component c: the selector decides,
\* then the traces that name a component to update, then the hints, and then the
\* builder's rule.
Times(b, r, components, c) ==
  IF r.selected # NoScore THEN Count(r.selected, c)
  ELSE IF \E i \in DOMAIN r.traces : Contains(components, r.traces[i])
    THEN IF Contains(r.traces, c) THEN 1 ELSE 0
  ELSE IF r.hints # <<>> THEN Count(r.hints, c)
  ELSE IF b.unroutable = "shared" THEN Count(components, c) ELSE 0

\* A target named twice is given the record twice.
Routed(b, records, components, c) ==
  LET routed[k \in 0..Len(records)] ==
        IF k = 0 THEN <<>>
        ELSE routed[k - 1] \o [j \in 1..Times(b, records[k], components, c) |-> records[k]]
  IN routed[Len(records)]

\* The keys of the two orders
Before(b, r, q) ==
  CASE b.sample_selection = "lowest_score" -> r.score < q.score
    [] b.sample_selection = "failure_first" ->
         \/ Failing(r) /\ ~Failing(q)
         \/ Failing(r) = Failing(q) /\ r.score < q.score
    [] OTHER -> FALSE

\* sorted() keeps equals as they came.
Ahead(b, records, i, j) ==
  \/ Before(b, records[i], records[j])
  \/ ~Before(b, records[j], records[i]) /\ i < j
Place(b, records, j) == Cardinality({i \in DOMAIN records : Ahead(b, records, i, j)})
Sorted(b, records) ==
  [k \in DOMAIN records |->
     records[CHOOSE i \in DOMAIN records : Place(b, records, i) = k - 1]]

Size(records) ==
  LET upto[k \in 0..Len(records)] ==
        IF k = 0 THEN 0 ELSE upto[k - 1] + records[k].size
  IN upto[Len(records)]

\* The records that still fit are taken, one that does not is passed over.
Bounded(b, records) ==
  LET taken[k \in 0..Len(records)] ==
        IF k = 0 THEN <<>>
        ELSE IF Size(taken[k - 1]) + records[k].size > b.max_encoded_chars
          THEN taken[k - 1]
        ELSE Append(taken[k - 1], records[k])
  IN IF b.max_encoded_chars = Unlimited THEN records ELSE taken[Len(records)]

\* A slice: a negative number of examples leaves so many out at the end.
Limit(b, n) == IF b.max_examples < 0 THEN n + b.max_examples ELSE b.max_examples
Limited(b, records) ==
  IF b.max_examples = Unlimited \/ Len(records) <= Limit(b, Len(records))
  THEN records ELSE SubSeq(records, 1, Limit(b, Len(records)))

\* Mutant: the examples are counted off before they are ordered.
SelectUnsorted(b, records) == Bounded(b, Sorted(b, Limited(b, records)))

\* _select_records.
Select(b, records) == Bounded(b, Limited(b, Sorted(b, records)))

\* build: nothing without trajectories or components.
Evidence(b, records, components) ==
  [c \in ToSet(components) |-> Select(b, Routed(b, records, components, c))]

----------------------------------------------------------------------------
(* The reference: which records are shown, each at its place *)

\* Record i is one of those that the number of examples admits.
Admitted(b, records, i) ==
  b.max_examples # Unlimited =>
    Cardinality({j \in DOMAIN records : Ahead(b, records, j, i)}) < Limit(b, Len(records))

\* Those shown are admitted records, none more often than it came, in the order
\* asked for with equals as they came, and within the bound; an admitted record
\* is left out only if it did not fit behind the shown ones that are ahead of it.
IsSelection(b, shown, records) ==
  /\ b.max_encoded_chars # Unlimited => Size(shown) <= b.max_encoded_chars
  /\ \E at \in [DOMAIN shown -> DOMAIN records] :
       /\ \A k \in DOMAIN shown :
            shown[k] = records[at[k]] /\ Admitted(b, records, at[k])
       /\ \A k, l \in DOMAIN shown : k < l => Ahead(b, records, at[k], at[l])
       /\ \A i \in DOMAIN records : Admitted(b, records, i) =>
            \/ \E k \in DOMAIN shown : at[k] = i
            \/ /\ b.max_encoded_chars # Unlimited
               /\ \E m \in 0..Len(shown) :
                    /\ \A k \in DOMAIN shown : k <= m <=> Ahead(b, records, at[k], i)
                    /\ Size(SubSeq(shown, 1, m)) + records[i].size > b.max_encoded_chars
=============================================================================
