----------------------------- MODULE MCOperator ------------------------------
(***************************************************************************)
(* Small instances of OperatorCreate for TLC: two rivals for an alias      *)
(* below keene, a run that repeats the first one's command, one that       *)
(* enters a node below the first one's and one whose node breaks an axiom, *)
(* while a re-parent takes the alias away from the node that got it.       *)
(***************************************************************************)
EXTENDS OperatorCreate, MCRegistry

Ask(alias, class, id) == [alias |-> alias, g_node_class |-> class, g_node_id |-> id, proof |-> "proof"]

Asks ==
    [first |-> Ask(willow, "LeafTransactiveNode", "willow"),
     again |-> Ask(willow, "LeafTransactiveNode", "willow"),
     rival |-> Ask(willow, "LeafTransactiveNode", "ghost"),
     leaf  |-> Ask(Append(willow, "ta"), "TerminalAsset", "ta"),
     wrong |-> Ask(Append(keene, "ta"), "Scada", "ta")]

\* For commands in any order, see the README.
RivalAsks == [o \in {"first", "again", "rival"} |-> Asks[o]]
LeafAsks == [o \in {"first", "rival", "leaf", "wrong"} |-> Asks[o]]

OperatorCreates == {cWillow, cGhost, cTa}
Backbone == {Physical("isone", isone, "MarketMaker"), Physical("keene", keene, "ConnectivityNode")}
=============================================================================
