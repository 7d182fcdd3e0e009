-------------------------- MODULE SchemaComponents --------------------------
(***************************************************************************)
(* schema_components.py, and what injections.py makes of it: the texts of  *)
(* a JSON schema as components, and a candidate's texts written back.      *)
(*                                                                         *)
(* A schema is a function from its nodes (JSON objects) to records of type, *)
(* description, ref (a node under $defs), named (it has a properties object), *)
(* props and items.  A property is its name, its node and what the model's *)
(* field is to the output type: "model" (a model or a list of models),     *)
(* "aliased" (its schema name is not its own) or "value" (anything else: a *)
(* dataclass, a TypedDict, a tuple or set of models, a plain value).       *)
(* A path is a sequence of names and "[]"; <<>> stands for the component of *)
(* the whole schema's own description.  Texts are abstract.                *)
(***************************************************************************)
EXTENDS Naturals, SequencesExt

CONSTANT NoText   \* no description; also no node

Named(name) == [text |-> name, quotes |-> 0]   \* the name of a field as a text

Item == "[]"
Whole == <<>>
Masked == <<"description">>   \* a field with the path string of the whole schema

\* References, fields and items are nodes of the schema.
IsSchema(s) ==
  /\ NoText \notin DOMAIN s
  /\ s = [n \in DOMAIN s |->
             [type |-> s[n].type, description |-> s[n].description, ref |-> s[n].ref,
              named |-> s[n].named, props |-> s[n].props, items |-> s[n].items]]
  /\ \A n \in DOMAIN s :
       /\ {s[n].ref, s[n].items} \subseteq DOMAIN s \cup {NoText}
       /\ \A i \in DOMAIN s[n].props : s[n].props[i][2] \in DOMAIN s

\* _resolved_schema: a reference to a definition stands for the definition.
Resolve(s, n) ==
  IF n # NoText /\ s[n].ref # NoText THEN s[n].ref ELSE n

HasProperties(s, n) == n # NoText /\ s[Resolve(s, n)].named

Entry(path, text) == [path |-> path, text |-> text]

\* What is found below a node, in the words of the node above it
Under(segment, entries) ==
  [i \in DOMAIN entries |-> Entry(<<segment>> \o entries[i].path, entries[i].text)]

Described(s, n) ==
  IF s[n].description = NoText THEN <<>> ELSE <<Entry(Whole, s[n].description)>>

\* _iter_schema_descriptions: a tool's parameters, references not followed.
ToolDescriptions(s) ==
  LET below[n \in DOMAIN s] ==
        LET found(m) == Described(s, m) \o below[m] IN
        (IF s[n].type # "object" THEN <<>>
         ELSE FlattenSeq([i \in DOMAIN s[n].props |->
                Under(s[n].props[i][1], found(s[n].props[i][2]))]))
        \o (IF s[n].type # "array" \/ s[n].items = NoText THEN <<>>
            ELSE Under(Item, found(s[n].items)))
  IN below

\* _model_description_entries, the field itself: its description, or else its
\* name if it has no fields of its own; the name of a plain array is its items'.
OwnText(s, n, name, path, fallback) ==
  LET field == s[Resolve(s, n)] IN
  CASE s[n].description # NoText -> <<Entry(path, s[n].description)>>
    [] s[n].description = NoText /\ (~fallback \/ HasProperties(s, field.items)) -> <<>>
    [] s[n].description = NoText /\ fallback /\ ~HasProperties(s, field.items) ->
         IF field.type = "array" THEN <<Entry(Append(path, Item), Named(name))>>
         ELSE IF HasProperties(s, n) THEN <<>>
         ELSE <<Entry(path, Named(name))>>

\* _iter_model_descriptions: every field, and what is below it, references
\* followed.
ModelDescriptions(s, fallback) ==
  LET below[n \in DOMAIN s] ==
        FlattenSeq([i \in DOMAIN s[n].props |->
          LET name == s[n].props[i][1]
              field == s[n].props[i][2]
              items == Resolve(s, s[Resolve(s, field)].items) IN
          OwnText(s, field, name, <<name>>, fallback)
          \o (IF ~HasProperties(s, field) THEN <<>>
              ELSE Under(name, below[Resolve(s, field)]))
          \o (IF ~HasProperties(s, items) THEN <<>>
              ELSE Under(name, Under(Item, below[items])))])
  IN below

\* _next_schema_object: one segment of a path; it ends at a definition that is
\* referred to, not at the reference.
Step(s, n, segment) ==
  LET here == s[Resolve(s, n)]
      named == {i \in DOMAIN here.props : here.props[i][1] = segment} IN
  IF n = NoText THEN NoText
  ELSE IF segment = Item THEN Resolve(s, here.items)
  ELSE IF named = {} THEN NoText ELSE Resolve(s, here.props[CHOOSE i \in named : TRUE][2])

NodeAt(s, root, path) ==
  LET at[k \in 0..Len(path)] == IF k = 0 THEN root ELSE Step(s, at[k - 1], path[k])
  IN at[Len(path)]

\* set_schema_description: it says whether it has changed the schema.
Sets(s, root, path, text) ==
  LET n == NodeAt(s, root, path) IN n # NoText /\ s[n].description # text
SetDescription(s, root, path, text) ==
  IF Sets(s, root, path, text)
  THEN [s EXCEPT ![NodeAt(s, root, path)].description = text] ELSE s

\* collect_tool_components, collect_model_components.
ToolEntries(s, root) == Described(s, root) \o ToolDescriptions(s)[root]
ModelEntries(s, root, fallback) == Described(s, root) \o ModelDescriptions(s, fallback)[root]

\* apply_tool_schema_candidate, apply_model_schema_candidate: the candidate's
\* texts one after the other, and those that have changed the schema.
Applied(done, root, path, texts) ==
  IF path \notin DOMAIN texts \/ path \in {Whole, Masked} THEN done
  ELSE [schema |-> SetDescription(done.schema, root, path, texts[path]),
        overrides |-> IF Sets(done.schema, root, path, texts[path])
                      THEN done.overrides \cup {path} ELSE done.overrides]

ApplyTexts(s, root, components, texts) ==
  LET done[k \in 0..Len(components)] ==
        IF k = 0 THEN [schema |-> s, overrides |-> {}]
        ELSE Applied(done[k - 1], root, components[k], texts)
  IN done[Len(components)]

\* _candidate_field_definitions, _candidate_annotation: whether an override gets
\* to its field.  A field is looked up by its own name, which is not in the path
\* of an aliased one; only models and lists of models are gone into; the items
\* of a plain array are no field.
Reaches(s, root, path) ==
  LET field(k) ==
        LET props == s[Resolve(s, NodeAt(s, root, SubSeq(path, 1, k - 1)))].props IN
        props[CHOOSE i \in DOMAIN props : props[i][1] = path[k]][3] IN
  \/ path = Whole
  \/ /\ path[Len(path)] # Item
     /\ \A k \in DOMAIN path : path[k] # Item =>
          field(k) \in (IF k = Len(path) THEN {"model", "value"} ELSE {"model"})

\* _candidate_model_output_type: the descriptions the output type carries that
\* the original does not.
Shown(s, root, components, texts) ==
  LET overrides == ApplyTexts(s, root, components, texts).overrides IN
  [p \in {q \in overrides : Reaches(s, root, q)} |-> texts[p]]

PathsOf(entries) == [i \in DOMAIN entries |-> entries[i].path]
TextAt(entries, path) == entries[CHOOSE i \in DOMAIN entries : entries[i].path = path].text

\* The texts a reader of the output type finds: the whole one is replaced with
\* json_schema_extra, the fields' with their new definitions.
OutputTexts(s, root, entries, texts) ==
  LET shown == Shown(s, root, PathsOf(entries), texts) IN
  [path \in {entries[i].path : i \in DOMAIN entries} |->
     IF path = Whole /\ Whole \in DOMAIN texts THEN texts[Whole]
     ELSE IF path \in DOMAIN shown THEN shown[path]
     ELSE TextAt(entries, path)]

\* The texts in the schema apply_tool_schema_candidate returns.
ToolTexts(s, root, texts) ==
  LET entries == ToolEntries(s, root)
      result == ApplyTexts(s, root, PathsOf(entries), texts).schema IN
  [path \in {entries[i].path : i \in DOMAIN entries} |->
     IF path = Whole /\ Whole \in DOMAIN texts THEN texts[Whole]
     ELSE result[NodeAt(s, root, path)].description]

\* Two fields refer to one definition.
SharesNode(s, root, entries, path) ==
  \E i \in DOMAIN entries :
    entries[i].path # path /\ NodeAt(s, root, entries[i].path) = NodeAt(s, root, path)

\* A field has a text of its own beside its reference to a definition with another.
Overlays(s, root, entries, path) ==
  LET n == NodeAt(s, root, path) IN
  n # NoText /\ s[n].description \notin {NoText, TextAt(entries, path)}
=============================================================================
