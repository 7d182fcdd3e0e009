------------------------------ MODULE MCAdapter ------------------------------
(* Two engines that share a dispatcher: one evaluates a batch of two cases,  *)
(* which ends in a reflection, the other a candidate without what the last   *)
(* injection needs.  The output is an order with two addresses of one        *)
(* definition, one of them with a description of its own, and with fields    *)
(* that the output type does not reach.                                      *)
EXTENDS AdapterBatch, TLC
CONSTANTS main, e1, e2, l1, s1, c1, c2, c3

MCContexts == {main, e1, e2}
MCEngines == {e1, e2}
MCOneEngine == {e1}
MCTwoContexts == {main, e1}
MCLocals == <<l1>>
MCSubscribers == {s1}
MCPolicy == [o \in {l1, s1} |-> IF o = l1 THEN "raise" ELSE "ignore"]
MCFields == {"engine", "step_id"}

Instructions == <<"instructions">>
Plain(t) == [text |-> t, quotes |-> 0]
Node(type, text, ref, props, items) ==
  [type |-> type, description |-> text, ref |-> ref, named |-> type = "object",
   props |-> props, items |-> items]
String(text) == Node("string", text, NoText, <<>>, NoText)
Object(text, props) == Node("object", text, NoText, props, NoText)
Reference(text, ref) == Node("none", text, ref, <<>>, NoText)
Array(items) == Node("array", NoText, NoText, <<>>, items)

\* "lines" is a tuple of models, "extra" a model without fields, and "note" the
\* alias of a field "memo".
MCModel ==
  [root |-> "Order", fallback |-> TRUE,
   schema |->
     [n \in {"Order", "from", "to", "Address", "city", "tags", "tag", "remark", "note",
             "lines", "line", "Line", "qty", "extra", "Extra"} |->
        CASE n = "Order" -> Object(NoText,
               << <<"from", "from", "model">>, <<"to", "to", "model">>,
                  <<"tags", "tags", "value">>, <<"remark", "remark", "value">>,
                  <<"note", "note", "aliased">>, <<"lines", "lines", "value">>,
                  <<"extra", "extra", "model">> >>)
          [] n = "from" -> Reference(Plain("Origin"), "Address")
          [] n = "to" -> Reference(NoText, "Address")
          [] n = "Address" -> Object(Plain("Address"), << <<"city", "city", "value">> >>)
          [] n = "city" -> String(Plain("City"))
          [] n = "tags" -> Array("tag")
          [] n = "tag" -> String(NoText)
          [] n = "remark" -> String(Plain("Remark"))
          [] n = "note" -> String(Plain("Note"))
          [] n = "lines" -> Array("line")
          [] n = "line" -> Reference(NoText, "Line")
          [] n = "Line" -> Object(NoText, << <<"qty", "qty", "value">> >>)
          [] n = "qty" -> String(NoText)
          [] n = "extra" -> Reference(NoText, "Extra")
          [] n = "Extra" -> Object(NoText, <<>>)]]

MCTool ==
  [root |-> "Search", fallback |-> FALSE,
   schema |->
     [n \in {"Search", "query"} |->
        IF n = "Search" THEN Object(Plain("Search"), << <<"query", "query">> >>)
        ELSE String(Plain("Query"))]]

MCSerialization ==
  [n \in {Instructions, <<"tool", "query">>} \cup {<<"output">> \o p : p \in Paths} |->
     IF n = Instructions THEN "json_string" ELSE "raw"]

MCInjections ==
  <<[kind |-> "output", slot |-> "output"],
    [kind |-> "agent", slot |-> "agent", component |-> Instructions,
     serialization |-> "json_string"],
    [kind |-> "derived", slot |-> "tool", required |-> {<<"tool", "query">>}]>>

City(field) == <<"output", field, "city">>
Remark == <<"output", "remark">>
Note == <<"output", "note">>
Quantity == <<"output", "lines", Item, "qty">>
From == <<"output", "from">>
Complete == Instructions :> Quoted(Plain("b")) @@ <<"tool", "query">> :> Plain("Query")
            @@ Remark :> Plain("r") @@ Note :> Plain("n") @@ Quantity :> Plain("q")
            @@ From :> Plain("Address") @@ City("from") :> Plain("x") @@ City("to") :> Plain("x")
MCCandidatesOf ==
  [e \in {e1, e2} |->
     {IF e = e1 THEN Complete ELSE Instructions :> Plain("a") @@ Remark :> Plain("Remark")}]

MCBatchOf == [e \in {e1, e2} |-> IF e = e1 THEN <<c1, c2>> ELSE <<c3>>]
Outcome(failed, assertion, score) == [failed |-> failed, assertion |-> assertion, score |-> score]
MCOutcomesOf ==
  [e \in {e1, e2} |->
     IF e = e1 THEN {Outcome(TRUE, FALSE, NoScore), Outcome(FALSE, FALSE, NoScore),
                     Outcome(FALSE, TRUE, 1)}
     ELSE {Outcome(FALSE, FALSE, 1)}]

Case(size, selected, hints) == [size |-> size, selected |-> selected, hints |-> hints]
MCCaseOf == [c \in {c1, c2, c3} |->
  CASE c = c1 -> Case(2, NoScore, <<>>)
    [] c = c2 -> Case(1, <<Remark, Remark>>, <<Instructions>>)
    [] c = c3 -> Case(1, NoScore, <<Instructions>>)]
MCUpdates == <<Instructions, Remark>>

MCObjective == [direction |-> "maximize", failure_score |-> 0]
Builds(examples, chars, selection, unroutable) ==
  [max_examples |-> examples, max_encoded_chars |-> chars, sample_selection |-> selection,
   unroutable |-> unroutable]
MCBuilders ==
  {Builds(1, 1, "failure_first", "shared"), Builds(Unlimited, 2, "input_order", "shared"),
   Builds(-1, Unlimited, "lowest_score", "skip")}

Outer(parent) == [stage |-> "s", parent |-> parent, fields |-> [f \in MCFields |-> "o"]]
MCOuters == {Outer("producer"), Outer(None)}
MCRunFields == [f \in MCFields |-> None]
MCBridgeFields == [f \in MCFields |-> IF f = "engine" THEN "gepa" ELSE None]
=============================================================================
