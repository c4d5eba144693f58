------------------------------- MODULE DevSeed --------------------------------
(***************************************************************************)
(* The dev universe, as gnr seed-dev loads it, and re-loads it into a      *)
(* registry that has been in use since.                                    *)
(*                                                                         *)
(* The command is run between two commands of the write loop.  It leaves   *)
(* no edge rows and the location rows of its own nodes: Edges and          *)
(* Positions of Registry.                                                  *)
(***************************************************************************)
EXTENDS Registry

CONSTANTS
    DevId(_),           \* the deterministic id, of a node or a location, for an alias
    startswith(_, _)    \* whether a word begins with another

-----------------------------------------------------------------------------
(* The fleet *)

DEV_UNIVERSE == "d1"
ISONE == <<DEV_UNIVERSE, "isone">>
ME == Append(ISONE, "me")
VERSANT == Append(ME, "versant")
KEENE == Append(VERSANT, "keene")
_HOMES == {"beech", "elm", "fir", "maple", "oak", "spruce", "willow"}
PENDING_HOME == Append(KEENE, "willow")

Specs(alias, base_class, g_node_class) ==
    [alias |-> alias, base_class |-> base_class, g_node_class |-> g_node_class]

_dev_universe_specs ==
    {Specs(ISONE, "MarketMaker", "MarketMaker"),
     Specs(ME, "ConnectivityNode", "ConnectivityNode"),
     Specs(VERSANT, "ConnectivityNode", "ConnectivityNode"),
     Specs(KEENE, "MarketMaker", "MarketMaker"),
     Specs(<<DEV_UNIVERSE, "time">>, "Logical", "TimeCoordinator"),
     Specs(<<DEV_UNIVERSE, "flo">>, "Logical", "Flo"),
     Specs(Append(ME, "weather"), "Logical", "WeatherForecastService"),
     Specs(Append(ME, "price"), "Logical", "PriceForecastService")}
    \cup UNION {LET home == Append(KEENE, h)
                IN  {Specs(home, "LeafTransactiveNode", "LeafTransactiveNode"),
                     Specs(Append(home, "ta"), "TerminalAsset", "TerminalAsset"),
                     Specs(Append(home, "scada"), "Logical", "Scada")} : h \in _HOMES}

\* Mutant: only the home itself is Pending, not what hangs below it.
Pending_Home(alias) == alias = PENDING_HOME

\* The string test: a home whose name only begins as the Pending one's would
\* be Pending as well.
Pending(alias) ==
    LET n == Len(PENDING_HOME)
    IN  /\ Len(alias) >= n
        /\ \A k \in 1..(n - 1) : alias[k] = PENDING_HOME[k]
        /\ startswith(alias[n], PENDING_HOME[n])

\* Mutant: the location is left out, as in a create.
GNode_Nowhere(spec) ==
    [g_node_id |-> DevId(spec.alias), alias |-> spec.alias, prev_alias |-> NULL,
     base_class |-> spec.base_class, g_node_class |-> spec.g_node_class,
     status |-> IF Pending(spec.alias) THEN "Pending" ELSE "Active",
     position_point_id |-> NULL]

GNode(spec) ==
    [g_node_id |-> DevId(spec.alias), alias |-> spec.alias, prev_alias |-> NULL,
     base_class |-> spec.base_class, g_node_class |-> spec.g_node_class,
     status |-> IF Pending(spec.alias) THEN "Pending" ELSE "Active",
     position_point_id |->
        IF spec.base_class # "Logical" /\ ~Pending(spec.alias) THEN DevId(spec.alias) ELSE NULL]

build_dev_universe == {GNode(spec) : spec \in _dev_universe_specs}

DevPositionIds == {g.position_point_id : g \in build_dev_universe} \ {NULL}

\* The command is meant for an instance that serves d1 (it does not look).  Ids
\* are a hash of the alias: no two of the fleet's are taken to collide.
ASSUME DevAssumption ==
    /\ Universe = DEV_UNIVERSE
    /\ _dev_universe_specs \subseteq
            [alias : Alias, base_class : BaseGNodeClass, g_node_class : GNodeClass]
    /\ \A s \in _dev_universe_specs : DevId(s.alias) \in GNodeId \cap PositionPointId
    /\ \A s, t \in _dev_universe_specs : DevId(s.alias) = DevId(t.alias) => s = t
    /\ DevPositionIds \subseteq Positions
    /\ Edges = {}

-----------------------------------------------------------------------------
(* Loading it *)

ByAlias(id) == CHOOSE g \in build_dev_universe : g.g_node_id = id

\* Mutant: claims are made for the Active nodes only.
Claims_Active == [i \in {g.g_node_id : g \in {h \in build_dev_universe : h.status = "Active"}} |->
                    ByAlias(i).alias]

Claims == [i \in {g.g_node_id : g \in build_dev_universe} |-> ByAlias(i).alias]

\* The reset deletes the nodes and their claims, and leaves the command log.
seed_dev_universe(reset) ==
    LET owners == IF reset THEN <<>> ELSE ledger
    IN  /\ CanClaim(owners, Claims)
        /\ nodes' = [i \in {g.g_node_id : g \in build_dev_universe} |-> ByAlias(i)]
        /\ ledger' = claim_alias(owners, Claims)
        /\ UNCHANGED log
        /\ txNodes' = nodes' /\ txLedger' = ledger'
        /\ result' = NULL
        /\ UNCHANGED <<pc, cmd, todo, updated>>

Foreign == {i \in DOMAIN nodes : universe_of(nodes[i].alias) # DEV_UNIVERSE}

\* Refuses (and changes nothing) when a node is foreign, or when there are nodes
\* and no --wipe.
_run_seed_dev(wipe) ==
    /\ pc = "idle"
    /\ Foreign = {}
    /\ nodes = <<>> \/ wipe
    /\ seed_dev_universe(wipe)

-----------------------------------------------------------------------------
(* The specification: the write loop on an empty database, and the seeding. *)

DevNext == Next \/ \E wipe \in BOOLEAN : _run_seed_dev(wipe)

DevSpec == Init /\ [][DevNext]_vars

-----------------------------------------------------------------------------
(* Properties; with LedgerCoversLive, RowsDecode and ValidateClean of the     *)
(* registry, which must survive being seeded and seeded again.                *)

\* "A command already in the log was already applied, its effects are the current
\* state": the node that a logged command introduced is in the registry.
LoggedMeansThere == \A c \in log : c.new_node.g_node_id \in DOMAIN nodes
=============================================================================
