------------------------------ MODULE Validate -------------------------------
(***************************************************************************)
(* The whole-registry invariants that every write re-checks inside its     *)
(* transaction.  `nodes' is the g_nodes table as a function from GNodeId   *)
(* to row, `edges' the set of active connectivity edges, `positions' the   *)
(* keys of position_points.                                                *)
(***************************************************************************)
EXTENDS GNodes

COPPER_CLASSES == {"ConnectivityNode", "MarketMaker"}

\* nodes_by_alias.get(alias): the ids of the rows at an alias (at most one,
\* by the unique index).
AtAlias(nodes, alias) == {i \in DOMAIN nodes : nodes[i].alias = alias}

check_universe_scope(nodes, universe) ==
    \A i \in DOMAIN nodes : universe_of(nodes[i].alias) = universe

check_parent_closed_active(nodes) ==
    \A i \in DOMAIN nodes :
        nodes[i].status = "Active" /\ ~is_forest_root(nodes[i].alias) =>
            \E p \in AtAlias(nodes, parent_alias(nodes[i].alias)) :
                nodes[p].status = "Active"

check_edges_non_tree(nodes, edges) ==
    \A e \in edges :
        /\ e.from_g_node_id \in DOMAIN nodes
        /\ e.to_g_node_id \in DOMAIN nodes
        /\ LET from == nodes[e.from_g_node_id]
               to   == nodes[e.to_g_node_id]
           IN  /\ from.status = "Active"
               /\ to.status = "Active"
               /\ parent_alias(to.alias) # from.alias
               /\ parent_alias(from.alias) # to.alias

\* Who may sit at a forest top.
MayBeRoot(node) ==
    \/ node.base_class \in COPPER_CLASSES
    \/ node.base_class = "Logical" /\ node.g_node_class # "Scada"

\* Whose child a non-root node may be.
MayHaveParent(node, parent) ==
    CASE node.base_class \in COPPER_CLASSES \cup {"LeafTransactiveNode"} ->
            parent.base_class \in COPPER_CLASSES
      [] node.base_class = "TerminalAsset" \/ node.g_node_class = "Scada" ->
            parent.base_class = "LeafTransactiveNode"
      [] OTHER -> TRUE

\* A missing parent is skipped: its existence is the business of
\* check_parent_closed_active, which looks at Active nodes only.
check_class_hierarchy(nodes) ==
    \A i \in DOMAIN nodes :
        IF is_forest_root(nodes[i].alias)
        THEN MayBeRoot(nodes[i])
        ELSE \A p \in AtAlias(nodes, parent_alias(nodes[i].alias)) :
                MayHaveParent(nodes[i], nodes[p])

check_active_physical_have_position(nodes, positions) ==
    \A i \in DOMAIN nodes :
        nodes[i].status = "Active" /\ nodes[i].base_class # "Logical" =>
            nodes[i].position_point_id \in positions

\* Clean, i.e. the code's list of violations is empty.
validate_registry(nodes, edges, positions, universe) ==
    /\ check_universe_scope(nodes, universe)
    /\ check_parent_closed_active(nodes)
    /\ check_edges_non_tree(nodes, edges)
    /\ check_class_hierarchy(nodes)
    /\ check_active_physical_have_position(nodes, positions)
=============================================================================
