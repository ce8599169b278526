---------------------------- MODULE MCTypeTable -----------------------------
(* Small programs over a few types, chosen so that the ways to write a type, *)
(* the places where its cycles are entered and the order of the sites all    *)
(* matter.                                                                   *)
EXTENDS TypeTable

Keyword(kind) == [is |-> "keyword", kind |-> kind]
Literal(of, value) == [is |-> "literal", of |-> of, value |-> value]
Array(child) == [is |-> "array", child |-> child]
Union(of, bare) == [is |-> "union", of |-> of, bare |-> bare]
Meet(of, merged) == [is |-> "intersection", of |-> of, merged |-> merged]
Row(slots) == [is |-> "tuple", slots |-> slots]
Slot(type, opt, rest, label) == [type |-> type, opt |-> opt, rest |-> rest, variadic |-> FALSE, label |-> label]
Prop(name, type) == [name |-> name, type |-> type, opt |-> FALSE, ro |-> FALSE, guarded |-> FALSE]
Optional(name, type) == [Prop(name, type) EXCEPT !.opt = TRUE]
Object(props) == [is |-> "object", class |-> "", props |-> props, index |-> <<>>, calls |-> <<>>]
Function(params, returns) == [Object(<<>>) EXCEPT !.calls = <<[params |-> params, returns |-> returns]>>]
Param(name, type, rest) == [name |-> name, type |-> type, opt |-> FALSE, rest |-> rest]
Format(family, params) == [is |-> "sentinel", of |-> "format", family |-> family, params |-> params]

Keywords == [k \in {"string", "number", "boolean", "undefined", "null", "unknown"} |-> Keyword(k)]

(* A node, its clone and a copy that is not on its own cycle: one type.      *)
Trees == [
  Tree  |-> Object(<<Prop("kids", "TreeArray"), Optional("up", "TreeOrNone")>>),
  Copy  |-> Object(<<Prop("kids", "TreeArray"), Optional("up", "TreeOrNone")>>),
  TreeArray |-> Array("Tree"),
  TreeOrNone |-> Union(<<"undefined", "null", "Tree">>, "TreeOrNull"),
  TreeOrNull |-> Union(<<"null", "Tree">>, "Tree"),
  Clone |-> Object(<<Optional("up", "CloneOrNone"), Prop("kids", "CloneArray")>>),
  CloneArray |-> Array("Clone"),
  CloneOrNone |-> Union(<<"Clone", "null", "undefined">>, "CloneOrNull"),
  CloneOrNull |-> Union(<<"Clone", "null">>, "Clone"),
  Forest |-> Object(<<Prop("first", "Tree"), Prop("last", "Clone"), Prop("ends", "TreeOrNull")>>)]

(* A generic that instantiates itself, alone and inside a type. *)
Endless == [
  Spiral |-> Object(<<Prop("tree", "Tree"), Prop("next", "Spiral")>>),
  Holder |-> Object(<<Prop("tree", "Tree"), Prop("spiral", "Spiral")>>)]

(* Tuples that meet, and a format on one of their slots. *)
Tuples == [
  Pair |-> Row(<<Slot("string", FALSE, FALSE, ""), Slot("number", TRUE, FALSE, "")>>),
  Positive |-> Meet(<<"number", "AtLeast1">>, "AtLeast1"),
  AtLeast1 |-> Format("number", [min |-> 1]),
  AtMost2 |-> Format("number", [max |-> 2]),
  Low |-> Meet(<<"number", "AtMost2">>, "AtMost2"),
  Tagged |-> Row(<<Slot("unknown", FALSE, FALSE, ""), Slot("Positive", FALSE, FALSE, "")>>),
  Lows |-> Row(<<Slot("string", FALSE, FALSE, ""), Slot("Low", FALSE, TRUE, "")>>),
  Both |-> Meet(<<"Pair", "Tagged">>, "Pair"),
  All |-> Meet(<<"Pair", "Tagged", "Lows">>, "Pair"),
  InRange |-> Meet(<<"number", "AtLeast1", "AtMost2">>, "AtLeast1"),
  Written |-> Row(<<Slot("string", FALSE, FALSE, ""), Slot("InRange", FALSE, FALSE, "")>>)]

Signatures == [
  Args |-> Row(<<Slot("string", FALSE, FALSE, "a"), Slot("Tree", FALSE, FALSE, "b")>>),
  Applied |-> Function(<<Param("args", "Args", TRUE)>>, "Tree"),
  Direct |-> Function(<<Param("a", "string", FALSE), Param("b", "Clone", FALSE)>>, "Clone"),
  Api |-> Object(<<Prop("get", "Direct"), Prop("other", "Either")>>),
  Point |-> Object(<<Prop("kind", "one"), Prop("at", "string")>>),
  Place |-> Object(<<Prop("kind", "two"), Prop("at", "string"), Optional("tree", "Tree")>>),
  one |-> Literal("string", "1"), two |-> Literal("string", "2"),
  Either |-> Union(<<"Point", "null", "Place">>, "Point")]

MCEnv == LET shapes == Keywords @@ Trees @@ Endless @@ Tuples @@ Signatures IN shapes
MCSpirals == {"Spiral"}

Over(type, fn, hash) == [type |-> type, fn |-> fn, hash |-> hash]
MCPrograms == {"trees", "calls", "tuples"}
MCProject ==
  LET programs == [
  trees  |-> [sites |-> {<<1, "Copy">>, <<1, "CloneArray">>, <<2, "Clone">>, <<2, "Forest">>}, raws |-> <<Over("Point", "val", "h1")>>],
  calls  |-> [sites |-> {<<1, "Applied">>, <<2, "Direct">>, <<1, "Api">>}, raws |-> <<Over("Clone", "val", "h2"), Over("Tree", "val", "h3"), Over("Api", "je", "h4")>>],
  tuples |-> [sites |-> {<<1, "All">>, <<2, "Written">>, <<1, "Holder">>, <<1, "Tree">>}, raws |-> <<Over("Pair", "val", "h5")>>]] IN programs
MCCheckers == {1, 2}
=============================================================================
