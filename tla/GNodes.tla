------------------------------- MODULE GNodes --------------------------------
(***************************************************************************)
(* The vocabulary: the g.node.gt record (which is also the row of the      *)
(* g_nodes table; from_gt and to_gt copy the fields one to one), its       *)
(* axioms, and the two write commands.  The display name and the creation  *)
(* time take part in no decision and are left out.                         *)
(***************************************************************************)
EXTENDS Aliases

CONSTANTS
    GNodeId,            \* identities (UUIDs)
    PositionPointId,    \* location identities
    ServiceClass,       \* g_node_class values of Logical nodes other than Scada
    Proof,              \* opaque write proofs
    NULL                \* the SQL NULL and the JSON null

BaseGNodeClass ==
    {"TerminalAsset", "LeafTransactiveNode", "ConnectivityNode", "MarketMaker", "Logical"}

GNodeStatus == {"Pending", "Active", "Suspended", "PermanentlyDeactivated"}

GNodeClass == BaseGNodeClass \cup {"Scada"} \cup ServiceClass

GNodeGt ==
    [g_node_id         : GNodeId,
     alias             : Alias,
     prev_alias        : Alias \cup {NULL},
     base_class        : BaseGNodeClass,
     g_node_class      : GNodeClass,
     status            : GNodeStatus,
     position_point_id : PositionPointId \cup {NULL}]

-----------------------------------------------------------------------------
(* The axioms of g.node.gt.  Axiom 4 (a non-empty class name without        *)
(* whitespace) is the choice of the set GNodeClass.                         *)

ClassConsistency(gt) ==
    IF gt.base_class # "Logical"
    THEN gt.g_node_class = gt.base_class
    ELSE gt.g_node_class \notin BaseGNodeClass \ {"Logical"}

PhysicalGNodeLocations(gt) ==
    gt.status = "Active" /\ gt.base_class # "Logical" => gt.position_point_id # NULL

AliasTransitionConsistency(gt) ==
    gt.prev_alias # NULL => gt.prev_alias # gt.alias

HasSuffix(alias, word) == Len(alias) >= 2 /\ LastWord(alias) = word

AliasSuffixSemantics(gt) ==
    /\ gt.g_node_class = "TerminalAsset" <=> HasSuffix(gt.alias, "ta")
    /\ gt.g_node_class = "Scada" <=> HasSuffix(gt.alias, "scada")

GNodeAliasHasBody(gt) ==
    /\ Len(gt.alias) >= 2
    /\ gt.prev_alias # NULL => Len(gt.prev_alias) >= 2

\* The pydantic decode of a record: it raises unless every axiom holds.
\* Reading a row (to_gt) performs it as well.
Decodes(gt) ==
    /\ ClassConsistency(gt)
    /\ PhysicalGNodeLocations(gt)
    /\ AliasTransitionConsistency(gt)
    /\ AliasSuffixSemantics(gt)
    /\ GNodeAliasHasBody(gt)

-----------------------------------------------------------------------------
(* The write commands as the codec hands them to the handlers.              *)

GNodeCreateCmd ==
    {c \in [type_name : {"g.node.create.cmd"}, new_node : GNodeGt, proof : Proof \cup {NULL}] :
        c.new_node.position_point_id = NULL}        \* LocationlessAtCreation

GNodeReparentCmd ==
    [type_name : {"g.node.reparent.cmd"}, new_node : GNodeGt,
     moved_child_g_node_ids : Seq(GNodeId), proof : Proof \cup {NULL}]
=============================================================================
