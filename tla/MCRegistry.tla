----------------------------- MODULE MCRegistry ------------------------------
(***************************************************************************)
(* Small instances of Registry for TLC.  The words, ids and commands are   *)
(* a scaled-down Keene fleet: a copper backbone d1.isone.keene, a home     *)
(* with its terminal asset, and re-parents that insert a substation or a   *)
(* feeder.  Each .cfg picks the seed and the commands that may arrive.     *)
(***************************************************************************)
EXTENDS Registry, FiniteSets

Gt(id, alias, base, class, status, position) ==
    [g_node_id |-> id, alias |-> alias, prev_alias |-> NULL, base_class |-> base,
     g_node_class |-> class, status |-> status, position_point_id |-> position]

Physical(id, alias, base) == Gt(id, alias, base, base, "Pending", NULL)

ActiveAt(id, alias, base, position) == Gt(id, alias, base, base, "Active", position)

Create(node) == [type_name |-> "g.node.create.cmd", new_node |-> node, proof |-> "proof"]

Reparent(node, moved) ==
    [type_name |-> "g.node.reparent.cmd", new_node |-> node,
     moved_child_g_node_ids |-> moved, proof |-> "proof"]

Unproven(c) == [c EXCEPT !.proof = NULL]

isone  == <<"d1", "isone">>
keene  == Append(isone, "keene")
willow == Append(keene, "willow")

MCWord ==
    {"d1", "w1", "isone", "keene", "willow", "ta", "sub", "feeder", "time",
     "caiso", "bay", "beech", "elm", "fir", "scada"}
MCGNodeId ==
    {"isone", "keene", "willow", "ta", "sub", "feeder", "time", "ghost", "take",
     "caiso", "bay", "beech", "elm", "fir", "scada"}
MCPositionPointId == {"at1", "at2", "at3", "at4", "at5", "at6"}

-----------------------------------------------------------------------------
(* The fleet bootstrap: everything enters Pending, parents first.           *)

cIsone  == Create(Physical("isone", isone, "MarketMaker"))
cKeene  == Create(Physical("keene", keene, "ConnectivityNode"))
cWillow == Create(Physical("willow", willow, "LeafTransactiveNode"))
cTa     == Create(Physical("ta", Append(willow, "ta"), "TerminalAsset"))

\* Another GNodeId that asks for willow's alias, before or after willow has it.
cGhost   == Create(Physical("ghost", willow, "LeafTransactiveNode"))
\* Another universe; an Active node below a Pending parent.
cForeign == Create(Physical("ghost", <<"w1", "isone">>, "MarketMaker"))
cEager   == Create(Gt("time", Append(keene, "time"), "Logical", "TimeCoordinator", "Active", NULL))

\* A substation between isone and keene; a feeder between keene and willow.
rSub    == Reparent(Physical("sub", Append(isone, "sub"), "ConnectivityNode"), <<"keene">>)
rFeeder == Reparent(Physical("feeder", Append(keene, "feeder"), "ConnectivityNode"), <<"willow">>)

\* Takes an alias that keene may have left, for a new node above a home.
rTake   == Reparent(Physical("take", keene, "ConnectivityNode"), <<"ghost">>)

\* Moves a node that the new node itself hangs from.
rAbove  == Reparent(Physical("feeder", Append(keene, "feeder"), "ConnectivityNode"), <<"keene">>)
rRoot   == Reparent(Physical("feeder", Append(keene, "feeder"), "ConnectivityNode"), <<"isone">>)
\* Names a node and its descendant; names a node twice.
rNested == Reparent(Physical("sub", Append(isone, "sub"), "ConnectivityNode"), <<"keene", "willow">>)
rTwice  == Reparent(Physical("sub", Append(isone, "sub"), "ConnectivityNode"), <<"keene", "keene">>)
\* Introduces a GNodeId the registry may hold already.
rKnown  == Reparent(Physical("ghost", Append(keene, "feeder"), "ConnectivityNode"), <<"willow">>)
\* Moves two children that have the same last word.
cTwin   == Create(Physical("ghost", Append(isone, "willow"), "LeafTransactiveNode"))
rClash  == Reparent(Physical("sub", Append(isone, "sub"), "ConnectivityNode"), <<"willow", "ghost">>)

FleetCreates ==
    {cIsone, cKeene, cWillow, cTa, cGhost, cTwin, cForeign, cEager, Unproven(cKeene)}
FleetReparents ==
    {rSub, rFeeder, rAbove, rRoot, rNested, rTwice, rKnown, rClash, rTake, Unproven(rSub)}

\* One misuse at a time, on a fleet that is otherwise orderly.
PlainCreates == {cIsone, cKeene, cWillow, cTwin}
AboveOnly == {rAbove}
NestedOnly == {rNested}
ClashOnly == {rClash}
SubOnly == {rSub}

\* A backbone that two re-parents leave with a gap (isone.feeder.keene.elm), and
\* a third that moves two homes into it, see the README.
Node(id, alias) == Physical(id, alias, "ConnectivityNode")
GapCreates ==
    {cIsone, Create(Node("keene", keene)), Create(Node("elm", Append(keene, "elm"))),
     Create(Node("beech", keene \o <<"elm", "beech">>)),
     Create(Node("willow", Append(isone, "beech"))), Create(Node("ta", isone \o <<"beech", "sub">>))}
GapReparents ==
    {Reparent(Node("sub", keene \o <<"elm", "beech", "sub">>), <<"elm">>),
     Reparent(Node("feeder", Append(isone, "feeder")), <<"keene">>),
     Reparent(Node("ghost", isone \o <<"feeder", "keene", "elm">>), <<"willow", "ta">>)}

NoNodes == {}

-----------------------------------------------------------------------------
(* A part of the forest that is in use when the fleet is bootstrapped beside *)
(* it: an Active backbone with two Active homes tied by a non-tree edge, a   *)
(* Pending home without a location, and one location (at5) that no node      *)
(* holds yet; at6 is in no table.                                            *)

caiso == <<"d1", "caiso">>
bay   == Append(caiso, "bay")

InUse ==
    {ActiveAt("caiso", caiso, "MarketMaker", "at1"),
     ActiveAt("bay", bay, "MarketMaker", "at2"),
     ActiveAt("beech", Append(bay, "beech"), "LeafTransactiveNode", "at3"),
     ActiveAt("elm", Append(bay, "elm"), "LeafTransactiveNode", "at4"),
     Physical("fir", Append(bay, "fir"), "LeafTransactiveNode")}

TieEdges == {[from_g_node_id |-> "beech", to_g_node_id |-> "elm"]}
Located == MCPositionPointId \ {"at6"}

\* An Active service below a home; a home and an asset at which they may not hang.
cScada(home) == Create(Gt("scada", bay \o <<home, "scada">>, "Logical", "Scada", "Active", NULL))
cStray == Create(Physical("ghost", Append(bay, "ta"), "TerminalAsset"))

sub(position)    == ActiveAt("sub", Append(caiso, "sub"), "ConnectivityNode", position)
feeder(position) == ActiveAt("feeder", Append(bay, "feeder"), "ConnectivityNode", position)

AllCreates == FleetCreates \cup {cScada("beech"), cScada("fir"), cStray}
AllReparents == FleetReparents \cup
    {Reparent(sub("at5"), <<"bay">>),
     Reparent(sub("at6"), <<"bay">>),
     Reparent(Physical("sub", Append(caiso, "sub"), "ConnectivityNode"), <<"bay">>),
     Reparent(feeder("at5"), <<"beech", "fir">>),
     Reparent(feeder("at5"), <<"bay">>),
     Reparent(feeder("at5"), <<"elm", "elm">>)}
=============================================================================
