------------------------------ MODULE Registry -------------------------------
(***************************************************************************)
(* PostgresAuthority, the registry's core: the tables g_nodes,             *)
(* alias_assignment and command_log, and the two mutations on them,        *)
(* apply_create and apply_reparent.                                        *)
(*                                                                         *)
(* A create is one short transaction and one action here.  A re-parent     *)
(* opens a transaction (BeginReparent), rewrites one moved child's subtree *)
(* after the other (RewriteChild) and validates, decodes and commits       *)
(* (CommitReparent); until the commit its effects are in the working       *)
(* copies txNodes and txLedger, which readers of the committed tables do   *)
(* not see.  Commands are applied one at a time (one consumer thread).     *)
(*                                                                         *)
(* A handler returns a forest (the command was applied, or replayed: it    *)
(* was in the log already), raises CreateError / ReparentError (refused),  *)
(* or lets another exception through (escaped: a database error, an        *)
(* AliasAlreadyOwned, a pydantic ValidationError).                         *)
(***************************************************************************)
EXTENDS Validate

CONSTANTS
    Universe,           \* the universe this instance serves
    WriteProof,         \* the configured write proof, or NULL: no gate
    CreateCmd,          \* the create commands that may arrive
    ReparentCmd,        \* the re-parent commands that may arrive
    SeedNodes,          \* g_nodes rows present at the start (the dev seed, or none)
    Edges,              \* active connectivity edges: no handler writes them
    Positions           \* keys of position_points: no handler writes them

Cmd == CreateCmd \cup ReparentCmd

EdgeGt == [from_g_node_id : GNodeId, to_g_node_id : GNodeId]

ASSUME ProofAssumption == WriteProof \in Proof \cup {NULL}

\* The codec admits only commands whose node satisfies the axioms.
ASSUME CmdAssumption ==
    /\ CreateCmd \subseteq GNodeCreateCmd
    /\ ReparentCmd \subseteq GNodeReparentCmd
    /\ \A c \in Cmd : Decodes(c.new_node)

ASSUME TableAssumption ==
    /\ Edges \subseteq EdgeGt
    /\ Positions \subseteq PositionPointId
    /\ NULL \notin PositionPointId

VARIABLES
    nodes,      \* g_nodes: GNodeId -> row
    ledger,     \* alias_assignment: alias -> owner, for all time
    log,        \* command_log: the applied commands, by content
    pc,         \* "idle", or "rewriting" inside a re-parent transaction
    cmd,        \* the re-parent command of the open transaction
    txNodes,    \* g_nodes as the transaction sees it
    txLedger,   \* alias_assignment as the transaction sees it
    todo,       \* moved children still to rewrite
    updated,    \* ids of the rows the transaction has inserted or rewritten
    result      \* how the last command ended, NULL while one is in progress

tables == <<nodes, ledger, log>>
txn == <<pc, cmd, txNodes, txLedger, todo, updated>>
vars == <<nodes, ledger, log, pc, cmd, txNodes, txLedger, todo, updated, result>>

-----------------------------------------------------------------------------
(* Reads *)

\* Mutant: the LIKE pattern reaches the children only.
Subtree_Children(table, root) ==
    {i \in DOMAIN table : root \in {table[i].alias, parent_alias(table[i].alias)}}

Subtree(table, root) == {i \in DOMAIN table : in_subtree(table[i].alias, root)}

\* The forest message over a set of rows, with the active edges among them.
Forest(table, roots, ids) ==
    [roots |-> roots,
     nodes |-> {table[i] : i \in ids},
     edges |-> {e \in Edges : e.from_g_node_id \in ids /\ e.to_g_node_id \in ids}]

\* Mutant: only the Active rows are read.
get_forest_Active(roots) ==
    Forest(nodes, roots, {i \in UNION {Subtree(nodes, r) : r \in roots} : nodes[i].status = "Active"})

get_forest(roots) == Forest(nodes, roots, UNION {Subtree(nodes, r) : r \in roots})

forest_roots == {nodes[i].alias : i \in {j \in DOMAIN nodes : is_forest_root(nodes[j].alias)}}

-----------------------------------------------------------------------------
(* The ledger.  `want' maps ids to the aliases they are about to hold.      *)

\* Every claim succeeds: each wanted alias is unowned or already the claimant's.
CanClaim(owners, want) ==
    /\ \A i \in DOMAIN want : want[i] \in DOMAIN owners => owners[want[i]] = i
    /\ \A i, j \in DOMAIN want : want[i] = want[j] => i = j

\* Mutant: no claim is recorded.
claim_alias_Nothing(owners, want) == owners

\* Mutant: one row per claimant, so that a rename frees the old alias.
claim_alias_Frees(owners, want) ==
    [a \in {b \in DOMAIN owners : owners[b] \notin DOMAIN want} \cup {want[i] : i \in DOMAIN want} |->
        IF \E i \in DOMAIN want : want[i] = a THEN CHOOSE i \in DOMAIN want : want[i] = a
                                             ELSE owners[a]]

\* INSERT ... ON CONFLICT DO NOTHING for every wanted alias.
claim_alias(owners, want) ==
    [a \in DOMAIN owners \cup {want[i] : i \in DOMAIN want} |->
        IF a \in DOMAIN owners THEN owners[a]
                               ELSE CHOOSE i \in DOMAIN want : want[i] = a]

OwnedByOther(alias, id) == alias \in DOMAIN ledger /\ ledger[alias] # id

Wants(node) == [i \in {node.g_node_id} |-> node.alias]

\* A row added to a copy of g_nodes.
Insert(table, node) ==
    [i \in DOMAIN table \cup {node.g_node_id} |->
        IF i = node.g_node_id THEN node ELSE table[i]]

\* Adding and claiming raises something else than a refusal: primary key,
\* unique alias, foreign key to position_points, or AliasAlreadyOwned.
InsertFails(n) ==
    \/ n.g_node_id \in DOMAIN nodes
    \/ AtAlias(nodes, n.alias) # {}
    \/ n.position_point_id # NULL /\ n.position_point_id \notin Positions
    \/ OwnedByOther(n.alias, n.g_node_id)

\* Mutants: validation without one of its checks.
Clean_AnyClass(table) ==
    /\ check_universe_scope(table, Universe) /\ check_parent_closed_active(table)
    /\ check_edges_non_tree(table, Edges)
    /\ check_active_physical_have_position(table, Positions)
Clean_AnyParent(table) ==
    /\ check_universe_scope(table, Universe) /\ check_class_hierarchy(table)
    /\ check_edges_non_tree(table, Edges)
    /\ check_active_physical_have_position(table, Positions)

\* No violations.
Clean(table) == validate_registry(table, Edges, Positions, Universe)

-----------------------------------------------------------------------------
(* How a command ends *)

check_proof(c) == WriteProof = NULL \/ c.proof = WriteProof

Verdict == {"applied", "replayed", "refused", "escaped"}

End(c, verdict, forest) == result' = [cmd |-> c, verdict |-> verdict, forest |-> forest]

\* Mutant: the log is not consulted.
Logged_Never(c) == FALSE

\* The command's hash is in the log.
Logged(c) == c \in log

\* Idempotent replay: a command in the log answers with current state.
Replay(c) ==
    /\ pc = "idle"
    /\ check_proof(c) /\ Logged(c)
    /\ End(c, "replayed", get_forest({c.new_node.alias}))
    /\ UNCHANGED <<tables, txn>>

-----------------------------------------------------------------------------
(* apply_create *)

\* Mutant: the GNodeId is not looked up.
CreateRefusal_AnyId(c) ==
    LET n == c.new_node
    IN  \/ universe_of(n.alias) # Universe
        \/ OwnedByOther(n.alias, n.g_node_id)
        \/ ~is_forest_root(n.alias) /\ AtAlias(nodes, parent_alias(n.alias)) = {}
        \/ ~InsertFails(n) /\ ~Clean(Insert(nodes, n))

\* Mutant: the parent is not looked up.
CreateRefusal_AnyParent(c) ==
    LET n == c.new_node
    IN  \/ universe_of(n.alias) # Universe
        \/ n.g_node_id \in DOMAIN nodes
        \/ OwnedByOther(n.alias, n.g_node_id)
        \/ ~InsertFails(n) /\ ~Clean(Insert(nodes, n))

CreateRefusal(c) ==
    LET n == c.new_node
    IN  \/ universe_of(n.alias) # Universe
        \/ n.g_node_id \in DOMAIN nodes
        \/ OwnedByOther(n.alias, n.g_node_id)
        \/ /\ ~is_forest_root(n.alias)
           /\ ~\E p \in AtAlias(nodes, parent_alias(n.alias)) :
                    nodes[p].status \in {"Pending", "Active"}
        \/ ~InsertFails(n) /\ ~Clean(Insert(nodes, n))

RefuseCreate(c) ==
    /\ pc = "idle"
    /\ ~check_proof(c) \/ (~Logged(c) /\ CreateRefusal(c))
    /\ End(c, "refused", NULL)
    /\ UNCHANGED <<tables, txn>>

CommitCreate(c) ==
    /\ pc = "idle"
    /\ check_proof(c) /\ ~Logged(c) /\ ~CreateRefusal(c)
    /\ IF InsertFails(c.new_node)
       THEN /\ End(c, "escaped", NULL)
            /\ UNCHANGED <<tables, txn>>
       ELSE /\ nodes' = Insert(nodes, c.new_node)
            /\ ledger' = claim_alias(ledger, Wants(c.new_node))
            /\ log' = log \cup {c}
            /\ txNodes' = nodes' /\ txLedger' = ledger'
            /\ End(c, "applied", [roots |-> {c.new_node.alias}, nodes |-> {c.new_node}, edges |-> {}])
            /\ UNCHANGED <<pc, cmd, todo, updated>>

apply_create(c) == RefuseCreate(c) \/ CommitCreate(c) \/ Replay(c)

-----------------------------------------------------------------------------
(* apply_reparent *)

\* The pre-check's dict of intended aliases, as it is filled: one entry per
\* moved child k found and row i of its (committed) subtree.
Intended(c) ==
    LET moved == c.moved_child_g_node_ids
        entry(k, i) ==
            LET old == nodes[moved[k]].alias
            IN  [at    |-> k,
                 alias |-> rewrite_alias(nodes[i].alias, old,
                                moved_child_new_prefix(c.new_node.alias, old)),
                 id    |-> i]
    IN  UNION {{entry(k, i) : i \in Subtree(nodes, nodes[moved[k]].alias)} :
                    k \in {j \in DOMAIN moved : moved[j] \in DOMAIN nodes}}

\* Mutant: no pre-check; the ledger is the only defence.
AliasCollision_Unchecked(c) == FALSE

\* A later entry for the same alias overwrites an earlier one, so a clash
\* between two moved children is not seen here.
AliasCollision(c) ==
    \/ OwnedByOther(c.new_node.alias, c.new_node.g_node_id)
    \/ \E t \in Intended(c) :
        /\ OwnedByOther(t.alias, t.id)
        /\ ~\E u \in Intended(c) : u.alias = t.alias /\ u.at > t.at

ReparentRefusal(c) ==
    LET n == c.new_node
    IN  \/ universe_of(n.alias) # Universe
        \/ is_forest_root(n.alias)
        \/ AtAlias(nodes, parent_alias(n.alias)) = {}
        \/ \E k \in DOMAIN c.moved_child_g_node_ids :
                c.moved_child_g_node_ids[k] \notin DOMAIN nodes
        \/ AliasCollision(c)

RefuseReparent(c) ==
    /\ pc = "idle"
    /\ ~check_proof(c) \/ (~Logged(c) /\ ReparentRefusal(c))
    /\ End(c, "refused", NULL)
    /\ UNCHANGED <<tables, txn>>

FailReparent(c) ==
    /\ pc = "idle"
    /\ check_proof(c) /\ ~Logged(c) /\ ~ReparentRefusal(c) /\ InsertFails(c.new_node)
    /\ End(c, "escaped", NULL)
    /\ UNCHANGED <<tables, txn>>

BeginReparent(c) ==
    /\ pc = "idle"
    /\ check_proof(c) /\ ~Logged(c) /\ ~ReparentRefusal(c) /\ ~InsertFails(c.new_node)
    /\ pc' = "rewriting"
    /\ cmd' = c
    /\ txNodes' = Insert(nodes, c.new_node)
    /\ txLedger' = claim_alias(ledger, Wants(c.new_node))
    /\ todo' = c.moved_child_g_node_ids
    /\ updated' = {c.new_node.g_node_id}
    /\ result' = NULL
    /\ UNCHANGED tables

\* Mutant: the session keeps its working copies.
Close_Keeps ==
    pc' = "idle" /\ cmd' = NULL /\ UNCHANGED <<txNodes, txLedger>> /\ todo' = <<>> /\ updated' = {}

\* Leave the session: with the working copies committed, or rolled back.
Close ==
    /\ pc' = "idle"
    /\ cmd' = NULL
    /\ txNodes' = nodes' /\ txLedger' = ledger'
    /\ todo' = <<>>
    /\ updated' = {}

\* Mutant: the log entry is written outside the transaction.
Rollback_Logs(verdict) ==
    /\ UNCHANGED <<nodes, ledger>> /\ log' = log \cup {cmd}
    /\ Close
    /\ End(cmd, verdict, NULL)

Rollback(verdict) ==
    /\ UNCHANGED tables
    /\ Close
    /\ End(cmd, verdict, NULL)

\* The aliases that rewriting a child's subtree gives: _rewrite_prefix's
\* rows and their new values.  N is among them when it lies below the child.
Rewritten(child) ==
    LET old_prefix == txNodes[child].alias
        new_prefix == moved_child_new_prefix(cmd.new_node.alias, old_prefix)
    IN  [i \in Subtree(txNodes, old_prefix) |->
            rewrite_alias(txNodes[i].alias, old_prefix, new_prefix)]

\* Mutant: prev_alias keeps the first alias.
RenamedRow_First(row, alias) ==
    [row EXCEPT !.prev_alias = IF @ = NULL THEN row.alias ELSE @, !.alias = alias]

RenamedRow(row, alias) == [row EXCEPT !.prev_alias = row.alias, !.alias = alias]

Rename(table, want) ==
    [i \in DOMAIN table |->
        IF i \in DOMAIN want THEN RenamedRow(table[i], want[i]) ELSE table[i]]

\* The rows are renamed and claimed one by one; the ledger owns every live
\* alias, so whether some row clashes does not depend on their order.
RewriteChild ==
    /\ pc = "rewriting" /\ todo # <<>>
    /\ LET want == Rewritten(Head(todo))
       IN  IF ~CanClaim(txLedger, want)
           THEN Rollback("escaped")
           ELSE /\ txNodes' = Rename(txNodes, want)
                /\ txLedger' = claim_alias(txLedger, want)
                /\ updated' = updated \cup DOMAIN want
                /\ todo' = Tail(todo)
                /\ UNCHANGED <<tables, pc, cmd, result>>

\* Mutant: only the new node is decoded.
BroadcastDecodes_New == Decodes(txNodes[cmd.new_node.g_node_id])

\* Building the broadcast decodes every updated row (to_gt) before the commit.
BroadcastDecodes == \A i \in updated : Decodes(txNodes[i])

CommitReparent ==
    /\ pc = "rewriting" /\ todo = <<>>
    /\ IF ~Clean(txNodes)
       THEN Rollback("refused")
       ELSE IF ~BroadcastDecodes
       THEN Rollback("escaped")
       ELSE /\ nodes' = txNodes
            /\ ledger' = txLedger
            /\ log' = log \cup {cmd}
            /\ Close
            /\ End(cmd, "applied", Forest(txNodes, {cmd.new_node.alias}, updated))

apply_reparent(c) ==
    RefuseReparent(c) \/ FailReparent(c) \/ BeginReparent(c) \/ Replay(c)

-----------------------------------------------------------------------------
(* The specification *)

SeedIds == {n.g_node_id : n \in SeedNodes}
SeedRow(i) == CHOOSE n \in SeedNodes : n.g_node_id = i

Init ==
    /\ nodes = [i \in SeedIds |-> SeedRow(i)]
    /\ ledger = [a \in {n.alias : n \in SeedNodes} |->
                    (CHOOSE n \in SeedNodes : n.alias = a).g_node_id]
    /\ log = {}
    /\ pc = "idle" /\ cmd = NULL
    /\ txNodes = nodes /\ txLedger = ledger
    /\ todo = <<>> /\ updated = {}
    /\ result = NULL

Next ==
    \/ \E c \in CreateCmd : apply_create(c)
    \/ \E c \in ReparentCmd : apply_reparent(c)
    \/ RewriteChild
    \/ CommitReparent

Spec == Init /\ [][Next]_vars

\* A re-parent as it is meant: it introduces a new node, at a location that is
\* there, and of the children it names none lies on the path to N or to another
\* of them (so none is named twice) and their last words differ.
Orderly(c) ==
    LET n == c.new_node
        moved == c.moved_child_g_node_ids
        old(k) == nodes[moved[k]].alias
    IN  /\ n.g_node_id \notin DOMAIN nodes /\ n.position_point_id \in Positions \cup {NULL}
        /\ \A k \in DOMAIN moved : ~in_subtree(n.alias, old(k))
        /\ \A j, k \in DOMAIN moved : j # k =>
                ~in_subtree(old(j), old(k)) /\ LastWord(old(j)) # LastWord(old(k))

\* The registry when those who send re-parents see to it that each one is
\* orderly, unless it is refused or replayed.  Nothing in the code sees to it.
OrderlyNext ==
    \/ \E c \in CreateCmd : apply_create(c)
    \/ \E c \in ReparentCmd :
        RefuseReparent(c) \/ Replay(c) \/ ((FailReparent(c) \/ BeginReparent(c)) /\ Orderly(c))
    \/ RewriteChild
    \/ CommitReparent

OrderlySpec == Init /\ [][OrderlyNext]_vars

\* The seed is what seed_dev_universe builds: distinct ids and aliases, rows
\* that decode, each below another or a forest root, and a clean registry.
ASSUME SeedAssumption ==
    /\ SeedNodes \subseteq GNodeGt
    /\ \A m, n \in SeedNodes : m.g_node_id = n.g_node_id \/ m.alias = n.alias => m = n
    /\ \A n \in SeedNodes :
        /\ Decodes(n)
        /\ is_forest_root(n.alias) \/ \E p \in SeedNodes : p.alias = parent_alias(n.alias)
    /\ validate_registry([i \in SeedIds |-> SeedRow(i)], Edges, Positions, Universe)

-----------------------------------------------------------------------------
(* Properties *)

GNodeForest == [roots : SUBSET Alias, nodes : SUBSET GNodeGt, edges : SUBSET Edges]

Result == [cmd : Cmd, verdict : Verdict, forest : {NULL} \cup GNodeForest]

NodeTable(table) ==
    /\ DOMAIN table \subseteq GNodeId
    /\ table \in [DOMAIN table -> GNodeGt]
    /\ \A i \in DOMAIN table : table[i].g_node_id = i

OwnerTable(owners) ==
    /\ DOMAIN owners \subseteq Alias
    /\ owners \in [DOMAIN owners -> GNodeId]

\* The tables, the transaction's working copies and the last verdict have
\* their types; outside a transaction the working copies are the tables.
TypeOK ==
    /\ NodeTable(nodes) /\ NodeTable(txNodes)
    /\ OwnerTable(ledger) /\ OwnerTable(txLedger)
    /\ log \subseteq Cmd
    /\ todo \in Seq(GNodeId)
    /\ updated \subseteq GNodeId
    /\ \/ pc = "idle" /\ cmd = NULL /\ txNodes = nodes /\ txLedger = ledger
       \/ pc = "rewriting" /\ cmd \in ReparentCmd
    /\ result \in {NULL} \cup Result

CoversLive(table, owners) ==
    \A i \in DOMAIN table :
        table[i].alias \in DOMAIN owners /\ owners[table[i].alias] = i

\* Every live alias is in the ledger and owned there by the node that holds
\* it, so no two nodes ever hold one alias (create, re-parent and the
\* claim_alias calls of both keep the two tables in step).
LedgerCoversLive == CoversLive(nodes, ledger)

\* Alias uniqueness through time: a committed step never drops an alias from
\* the ledger and never gives it to another GNodeId, a rename away from it
\* included (alias_assignment is append-only).
AliasOwnedForever ==
    [][\A a \in DOMAIN ledger : a \in DOMAIN ledger' /\ ledger'[a] = ledger[a]]_vars

\* The registry implements the abstract alias authority: names are permanent
\* and unique whatever sequence of creates, re-parents, replays and refusals
\* the handlers run through.
Authority == INSTANCE AliasAuthority
    WITH holder <- ledger, live <- [i \in DOMAIN nodes |-> nodes[i].alias]

ImplementsAliasAuthority == Authority!Spec

\* The command log accounts for the registry exactly: every logged command's
\* node is there and still owns the alias it was introduced with, no two
\* logged commands introduced the same node, and every node that was not
\* seeded was introduced by a logged command (at-least-once delivery applies
\* a command once).  The seeded nodes are all still there.
LogAccountsForNodes ==
    /\ SeedIds \subseteq DOMAIN nodes
    /\ \A c \in log :
        /\ c.new_node.g_node_id \in DOMAIN nodes \ SeedIds
        /\ c.new_node.alias \in DOMAIN ledger
        /\ ledger[c.new_node.alias] = c.new_node.g_node_id
    /\ \A c, d \in log : c.new_node.g_node_id = d.new_node.g_node_id => c = d
    /\ \A i \in DOMAIN nodes \ SeedIds : \E c \in log : c.new_node.g_node_id = i

\* Every committed row decodes: no write leaves a row that to_gt, and with it
\* every read that returns the row, would raise on.
RowsDecode == \A i \in DOMAIN nodes : Decodes(nodes[i])

\* The committed registry satisfies the five whole-registry invariants.
ValidateClean == validate_registry(nodes, Edges, Positions, Universe)

\* An Active node's whole ancestor path, up to its forest root, is present
\* and Active: the end-to-end meaning of check_parent_closed_active.
ActivePathToRoot ==
    \A i \in DOMAIN nodes : nodes[i].status = "Active" =>
        \A k \in 2..Len(nodes[i].alias) :
            \E p \in AtAlias(nodes, SubSeq(nodes[i].alias, 1, k)) : nodes[p].status = "Active"

\* A create always ends in a typed answer: its pre-checks and the ledger
\* leave no way for a database error to escape the handler.
CreateAnswered ==
    result # NULL /\ result.cmd \in CreateCmd => result.verdict # "escaped"

\* No command makes the handler raise anything but its typed refusal.
CommandAnswered == result # NULL => result.verdict # "escaped"

\* Every node hangs, parent by parent, from a forest root: the snapshots of
\* all the roots together show the whole registry and nobody is orphaned.
ForestComplete ==
    \A i \in DOMAIN nodes :
        /\ \E r \in forest_roots : in_subtree(nodes[i].alias, r)
        /\ is_forest_root(nodes[i].alias) \/ AtAlias(nodes, parent_alias(nodes[i].alias)) # {}

MovedBetween(c, d) ==
    \E k \in DOMAIN cmd.moved_child_g_node_ids :
        LET m == nodes[cmd.moved_child_g_node_ids[k]].alias
        IN  m # nodes[c].alias /\ in_subtree(m, nodes[c].alias) /\ in_subtree(nodes[d].alias, m)

\* Each node is at the same path as before below each of its ancestors, except
\* where the command names a node in between as a moved child of its own.
MovesWhole ==
    \A c, d \in DOMAIN nodes :
        in_subtree(nodes[d].alias, nodes[c].alias) /\ ~MovedBetween(c, d) =>
            nodes'[d].alias = rewrite_alias(nodes[d].alias, nodes[c].alias, nodes'[c].alias)

\* A committed re-parent that found nobody orphaned moves subtrees whole,
\* whatever it names, in whatever order (_rewrite_prefix).  Where a node stands
\* without its parent, a later child may land above it and take it along.
SubtreesMoveWhole ==
    [][ForestComplete /\ pc = "rewriting" /\ nodes' # nodes => MovesWhole]_vars

\* "Each old alias is stashed in prev_alias": a rename records the alias the
\* node had before the command.
PrevAliasIsPrevious ==
    [][\A i \in DOMAIN nodes :
        nodes'[i].alias # nodes[i].alias => nodes'[i].prev_alias = nodes[i].alias]_vars

\* "Introduce node N and re-parent the named children beneath it": when a
\* re-parent has just been applied, N is the alias-parent of each moved child.
ReparentsBeneathN ==
    result # NULL /\ result.verdict = "applied" /\ result.cmd \in ReparentCmd =>
        \A k \in DOMAIN result.cmd.moved_child_g_node_ids :
            parent_alias(nodes[result.cmd.moved_child_g_node_ids[k]].alias)
                = nodes[result.cmd.new_node.g_node_id].alias
=============================================================================
