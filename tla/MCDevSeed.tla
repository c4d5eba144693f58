------------------------------ MODULE MCDevSeed -------------------------------
(***************************************************************************)
(* DevSeed on the whole dev universe, with commands that arrive before and *)
(* after it is loaded.                                                     *)
(***************************************************************************)
EXTENDS DevSeed, SequencesExt

DottedId(alias) == FoldLeft(LAMBDA path, word : path \o "." \o word, "", alias)

StartsWith(word, prefix) ==
    Len(word) >= Len(prefix) /\ SubSeq(word, 1, Len(prefix)) = prefix

DevIds == {DottedId(spec.alias) : spec \in _dev_universe_specs}

MCWord ==
    {"d1", "w1", "isone", "me", "versant", "keene", "time", "flo", "weather", "price", "ta", "scada", "sub"}
    \cup _HOMES
MCGNodeId == DevIds \cup {"isone", "keene", "sub", "dsub", "flo", "home"}
MCServiceClass == {"TimeCoordinator", "Flo", "WeatherForecastService", "PriceForecastService"}

Pends(id, alias, base, class) ==
    [g_node_id |-> id, alias |-> alias, prev_alias |-> NULL, base_class |-> base,
     g_node_class |-> class, status |-> "Pending", position_point_id |-> NULL]

Create(node) == [type_name |-> "g.node.create.cmd", new_node |-> node, proof |-> "proof"]
Reparent(node, moved) ==
    [type_name |-> "g.node.reparent.cmd", new_node |-> node,
     moved_child_g_node_ids |-> moved, proof |-> "proof"]

\* Another node at an alias of the dev universe, a node of no other use, and one
\* below a dev node; a substation above the Pending home, and above keene (refused:
\* its children are Active).
cFlo == Create(Pends("flo", <<"d1", "sub">>, "Logical", "Flo"))
DevCreates ==
    {Create(Pends("isone", ISONE, "MarketMaker", "MarketMaker")),
     Create(Pends("keene", Append(ISONE, "keene"), "ConnectivityNode", "ConnectivityNode")),
     Create(Pends("home", Append(KEENE, "sub"), "LeafTransactiveNode", "LeafTransactiveNode")),
     cFlo}
OneCreate == {cFlo}
DevReparents ==
    {Reparent(Pends("sub", Append(KEENE, "sub"), "ConnectivityNode", "ConnectivityNode"),
              <<DottedId(PENDING_HOME)>>),
     Reparent(Pends("dsub", Append(VERSANT, "sub"), "ConnectivityNode", "ConnectivityNode"),
              <<DottedId(KEENE)>>)}

None == {}
=============================================================================
