------------------------------ MODULE MCRabbit -------------------------------
(***************************************************************************)
(* Small instances of GnrRabbit for TLC: a Pending backbone of a root, a   *)
(* substation and two homes, and a handful of commands on it.              *)
(***************************************************************************)
EXTENDS GnrRabbit

Node(id, alias, base) ==
    [g_node_id |-> id, alias |-> alias, prev_alias |-> NULL, base_class |-> base,
     g_node_class |-> base, status |-> "Pending", position_point_id |-> NULL]

Create(node) == [type_name |-> "g.node.create.cmd", new_node |-> node, proof |-> NULL]

Reparent(node, moved) ==
    [type_name |-> "g.node.reparent.cmd", new_node |-> node,
     moved_child_g_node_ids |-> moved, proof |-> NULL]

isone  == <<"d1", "isone">>
keene  == Append(isone, "keene")
willow == Append(keene, "willow")
caiso  == <<"d1", "caiso">>

MCWord == {"d1", "isone", "keene", "willow", "elm", "sub", "caiso"}
MCGNodeId == {"isone", "keene", "willow", "elm", "sub", "caiso"}

Backbone ==
    {Node("isone", isone, "MarketMaker"), Node("keene", keene, "ConnectivityNode")}
TwoRoots ==
    Backbone \cup {Node("caiso", caiso, "MarketMaker"),
                   Node("elm", Append(caiso, "elm"), "LeafTransactiveNode")}

cWillow == Create(Node("willow", willow, "LeafTransactiveNode"))

\* A substation above keene; the same with a GNodeId that the registry holds, and
\* with the one willow asks for, which it then holds; a substation under isone for
\* a home that hangs from the other root.
sub    == Append(isone, "sub")
rSub   == Reparent(Node("sub", sub, "ConnectivityNode"), <<"keene">>)
rKnown == Reparent(Node("isone", sub, "ConnectivityNode"), <<"keene">>)
rSame  == Reparent(Node("willow", sub, "ConnectivityNode"), <<"keene">>)
rCross == Reparent(Node("sub", sub, "ConnectivityNode"), <<"elm">>)

None == {}
WillowOnly == {cWillow}
KnownOnly == {rKnown}
SubOnly == {rSub}
SameOnly == {rSame}
WillowAndSub == {cWillow, rSub}
CrossOnly == {rCross}
=============================================================================
