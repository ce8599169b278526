---------------------------- MODULE MCBuildCache ----------------------------
(***************************************************************************)
(* Builds of small projects.  An order holds a date, a symbol the JSON     *)
(* functions cannot carry and a pattern; a result is an order or a date; a *)
(* node holds nodes and an order.  The short hashes of the order and the   *)
(* node collide, so that which of them is interned first decides both      *)
(* hashes.  A page holds a list of results: too deep for the search from   *)
(* its call site to tell it of the order, of which a node's site is told.  *)
(***************************************************************************)
EXTENDS BuildCache

MCTypes == {"date", "symbol", "slug", "order", "result", "node", "list", "page"}

MCKids == [t \in MCTypes |->
    CASE t = "order"  -> {"date", "symbol", "slug"}
      [] t = "result" -> {"order", "date"}
      [] t = "node"   -> {"node", "order"}
      [] t = "list"   -> {"result"}
      [] t = "page"   -> {"list"}
      [] OTHER        -> {}]

MCDepthCap == 1
MCTold == [t \in MCTypes |-> {t} \cup MCKids[t] \cup UNION {MCKids[u] : u \in MCKids[t]}]

MCCompound == {"order", "result", "node", "list", "page"}
MCAbsorbing == MCCompound \ {"list"}
MCUnions == {"result"}
MCCircular == {"node"}
MCPlain == {"slug"}
MCPatterned == {"slug"}
MCRefused == {<<"pjs", "symbol">>, <<"val", "symbol">>}
MCWarned == {<<"val", "slug", "sample">>, <<"pjs", "node", "cyclic">>}
MCUsed == {<<"val", "date", "isDate">>}
MCBuiltins == {"isDate", "findCycle"}

MCShort(sid) == IF sid.type \in {"order", "node"} THEN "on" ELSE sid.type

Ranks(first) == [t \in MCTypes |->
    IF t = first THEN 0
    ELSE CASE t = "date" -> 1 [] t = "symbol" -> 2 [] t = "slug" -> 3
           [] t = "order" -> 4 [] t = "result" -> 5 [] t = "node" -> 6
           [] t = "list" -> 7 [] t = "page" -> 8]

Site(t, op, armed, at) == [type |-> t, op |-> op, armed |-> armed, at |-> at]

Program(named, over, sites, first, runtime, options) ==
    [named |-> named, over |-> over, sites |-> sites, rank |-> Ranks(first),
     runtime |-> runtime, options |-> options]

Over(t, op, body) == [type |-> t, op |-> op, body |-> body]

MCPrograms == {"orders", "nodes", "owned", "options"}

MCProject == [p \in MCPrograms |->
    \* Orders first.
    CASE p = "orders" ->
           Program({"order"}, {},
                   {Site("node", "val", FALSE, "a"), Site("page", "je", FALSE, "b")},
                   "order", TRUE, "code")
    \* Nodes first, and the order has no name; a guarded encoder.
      [] p = "nodes" ->
           Program({}, {},
                   {Site("page", "je", FALSE, "b"), Site("node", "je", TRUE, "c"),
                    Site("node", "val", FALSE, "a")},
                   "node", TRUE, "code")
    \* As before, with a validation of the project's own for the order.
      [] p = "owned" ->
           Program({}, {Over("order", "val", "mine")},
                   {Site("node", "val", FALSE, "a"), Site("page", "je", FALSE, "b"),
                    Site("order", "val", TRUE, "e")},
                   "node", TRUE, "code")
    \* Other options, an encoder of the project's own and no engine.
      [] p = "options" ->
           Program({}, {Over("result", "je", "own")},
                   {Site("result", "je", FALSE, "b"), Site("order", "val", FALSE, "f")},
                   "node", FALSE, "functions")]

\* What the theorems on calls and findings suppose is so of these projects.
ASSUME ProjectsStandAlone == EncodersStandAlone /\ BuiltinsAreServed /\ TypesAreTold
=============================================================================
