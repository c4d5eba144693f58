--------------------------- MODULE RegistryProofs ----------------------------
(***************************************************************************)
(* Proofs about Registry, for every set of ids, words, commands and seeds  *)
(* that satisfies the assumptions of that module.                          *)
(***************************************************************************)
EXTENDS Registry, AliasProofs

-----------------------------------------------------------------------------
(* The inductive invariant *)

\* Every row has an alias with a body, so it has a last word and a parent.
LongAliases(table) == \A i \in DOMAIN table : Len(table[i].alias) >= 2

\* The ledger `new' keeps every entry of the ledger `old'.
Extends(new, old) == \A a \in DOMAIN old : a \in DOMAIN new /\ new[a] = old[a]

\* What an open re-parent transaction keeps true of its working copies.
TxInv ==
    LET n == cmd.new_node
    IN  /\ cmd \notin log
        /\ n.g_node_id \notin DOMAIN nodes
        /\ DOMAIN txNodes = DOMAIN nodes \cup {n.g_node_id}
        /\ LongAliases(txNodes)
        /\ CoversLive(txNodes, txLedger)
        /\ Extends(txLedger, ledger)
        /\ n.alias \in DOMAIN txLedger /\ txLedger[n.alias] = n.g_node_id
        /\ \A k \in 1..Len(todo) : todo[k] \in DOMAIN txNodes
        /\ n.g_node_id \in updated /\ updated \subseteq DOMAIN txNodes
        /\ \A i \in DOMAIN nodes \ updated : txNodes[i] = nodes[i]

\* What every step keeps of itself, whatever the log says.
SoundInv ==
    /\ TypeOK
    /\ LedgerCoversLive
    /\ RowsDecode
    /\ ValidateClean
    /\ CreateAnswered
    /\ pc = "rewriting" => TxInv

IInv == SoundInv /\ LogAccountsForNodes

\* A step keeps it, and the accounts of the log with it.
Keeps == SoundInv' /\ (LogAccountsForNodes => LogAccountsForNodes')

-----------------------------------------------------------------------------
(* The operators *)

\* Adding a row keeps a node table a node table and touches no other row.
LEMMA InsertType ==
    ASSUME NEW table, NodeTable(table), NEW n \in GNodeGt
    PROVE  /\ NodeTable(Insert(table, n))
           /\ DOMAIN Insert(table, n) = DOMAIN table \cup {n.g_node_id}
           /\ Insert(table, n)[n.g_node_id] = n
           /\ \A i \in DOMAIN table : i # n.g_node_id => Insert(table, n)[i] = table[i]
BY DEF NodeTable, Insert, GNodeGt

\* Claims that can all be made are made: afterwards each claimant owns the
\* alias it asked for, and no earlier owner has lost one (claim_alias).
LEMMA ClaimKeepsOwners ==
    ASSUME NEW owners, OwnerTable(owners),
           NEW D \in SUBSET GNodeId, NEW want \in [D -> Alias],
           CanClaim(owners, want)
    PROVE  /\ OwnerTable(claim_alias(owners, want))
           /\ Extends(claim_alias(owners, want), owners)
           /\ \A i \in D : /\ want[i] \in DOMAIN claim_alias(owners, want)
                           /\ claim_alias(owners, want)[want[i]] = i
<1> DEFINE new == claim_alias(owners, want)
<1>1. DOMAIN new = DOMAIN owners \cup {want[i] : i \in D}
  BY DEF claim_alias
<1>2. ASSUME NEW a \in DOMAIN owners PROVE new[a] = owners[a]
  BY DEF claim_alias
<1>3. ASSUME NEW i \in D PROVE new[want[i]] = i
  <2>1. CASE want[i] \in DOMAIN owners
    BY <2>1 DEF claim_alias, CanClaim
  <2>2. CASE want[i] \notin DOMAIN owners
    <3>1. new[want[i]] = CHOOSE j \in D : want[j] = want[i]
      BY <2>2 DEF claim_alias
    <3>2. \A j \in D : want[j] = want[i] => j = i
      BY DEF CanClaim
    <3> QED
      BY <3>1, <3>2
  <2> QED
    BY <2>1, <2>2
<1>4. OwnerTable(new)
  <2>1. DOMAIN new \subseteq Alias
    BY <1>1 DEF OwnerTable
  <2>2. \A a \in DOMAIN new : new[a] \in GNodeId
    BY <1>1, <1>2, <1>3 DEF OwnerTable
  <2>3. new = [a \in DOMAIN new |-> new[a]]
    BY DEF claim_alias
  <2> QED
    BY <2>1, <2>2, <2>3 DEF OwnerTable
<1> QED
  BY <1>1, <1>2, <1>3, <1>4 DEF Extends

\* A new node claims one alias, its own, for its own id.
LEMMA WantsType ==
    ASSUME NEW n \in GNodeGt
    PROVE  /\ Wants(n) \in [{n.g_node_id} -> Alias]
           /\ {n.g_node_id} \in SUBSET GNodeId
           /\ Wants(n)[n.g_node_id] = n.alias
BY DEF Wants, GNodeGt

\* A new node may claim its alias when no other GNodeId owns it.
LEMMA WantsClaim ==
    ASSUME NEW owners, NEW n \in GNodeGt,
           n.alias \in DOMAIN owners => owners[n.alias] = n.g_node_id
    PROVE  CanClaim(owners, Wants(n))
BY DEF Wants, GNodeGt, CanClaim

\* Rewriting a path whose child has a body gives a path with a body.
LEMMA RewriteType ==
    ASSUME NEW alias \in Alias, NEW old \in Alias, NEW n \in Alias,
           Len(old) >= 2, Len(n) >= 2, in_subtree(alias, old)
    PROVE  /\ rewrite_alias(alias, old, moved_child_new_prefix(n, old)) \in Alias
           /\ Len(rewrite_alias(alias, old, moved_child_new_prefix(n, old))) >= 2
<1> DEFINE p == moved_child_new_prefix(n, old)
           s == SubSeq(alias, Len(old) + 1, Len(alias))
<1>1. old[Len(old)] \in Word
  BY DEF Alias
<1>2. p \in Seq(Word) /\ Len(p) = Len(n) + 1
  BY <1>1 DEF Alias, moved_child_new_prefix, LastWord
<1>3. s \in Seq(Word)
  BY DEF Alias, in_subtree
<1> HIDE DEF p, s
<1>4. Len(p \o s) = Len(p) + Len(s) /\ p \o s \in Seq(Word)
  BY <1>2, <1>3
<1>5. Len(s) \in Nat /\ Len(n) \in Nat
  BY <1>3 DEF Alias
<1> QED
  BY <1>2, <1>4, <1>5 DEF rewrite_alias, Alias, p, s

\* What the codec guarantees of a command that reaches a handler.
LEMMA CmdFacts ==
    ASSUME NEW c \in Cmd
    PROVE  /\ c.new_node \in GNodeGt
           /\ c.new_node.g_node_id \in GNodeId /\ c.new_node.alias \in Alias
           /\ Decodes(c.new_node) /\ Len(c.new_node.alias) >= 2
           /\ c \in ReparentCmd => /\ c.moved_child_g_node_ids \in Seq(GNodeId)
                                   /\ c \notin CreateCmd
BY CmdAssumption DEF Cmd, GNodeCreateCmd, GNodeReparentCmd, GNodeGt, Decodes, GNodeAliasHasBody

\* A forest over rows of a table is a well-typed message.
LEMMA ForestType ==
    ASSUME NEW table, NodeTable(table), NEW roots \in SUBSET Alias,
           NEW ids \in SUBSET DOMAIN table
    PROVE  Forest(table, roots, ids) \in GNodeForest
<1>1. {table[i] : i \in ids} \in SUBSET GNodeGt
  BY DEF NodeTable
<1> QED
  BY <1>1 DEF Forest, GNodeForest

\* If each row of a set is a forest root or has its parent in the set, then
\* each has its whole path there (check_parent_closed_active, end to end).
LEMMA PathsThere ==
    ASSUME NEW table, NodeTable(table), LongAliases(table), NEW rows \in SUBSET DOMAIN table,
           \A i \in rows : \/ is_forest_root(table[i].alias)
                          \/ \E p \in rows : table[p].alias = parent_alias(table[i].alias)
    PROVE  \A i \in rows : \A k \in 2..Len(table[i].alias) :
                \E p \in rows : table[p].alias = SubSeq(table[i].alias, 1, k)
<1> SUFFICES ASSUME NEW i \in rows
             PROVE  \A k \in 2..Len(table[i].alias) :
                        \E p \in rows : table[p].alias = SubSeq(table[i].alias, 1, k)
  OBVIOUS
<1> DEFINE a == table[i].alias
           S == {k \in 2..Len(a) : \E p \in rows : table[p].alias = SubSeq(a, 1, k)}
<1>1. a \in Alias /\ Len(a) \in Nat /\ Len(a) >= 2
  BY DEF NodeTable, LongAliases, GNodeGt, Alias
<1> HIDE DEF a
<1>2. Len(a) \in S
  <2>1. SubSeq(a, 1, Len(a)) = a
    BY <1>1, SubSeqFull DEF Alias
  <2> QED
    BY <1>1, <2>1 DEF a
<1>3. ASSUME NEW k \in 2..Len(a), k + 1 \in S PROVE k \in S
  <2>1. PICK p \in rows : table[p].alias = SubSeq(a, 1, k + 1)
    BY <1>3
  <2>2. k \in 1..Len(a) /\ k + 1 \in 1..Len(a) /\ k < Len(a)
    BY <1>1, <1>3
  <2>3. Len(SubSeq(a, 1, k + 1)) = k + 1 /\ parent_alias(SubSeq(a, 1, k + 1)) = SubSeq(a, 1, k)
    BY <1>1, <2>2, PrefixFacts
  <2>4. ~is_forest_root(table[p].alias)
    BY <2>1, <2>3 DEF is_forest_root
  <2> QED
    BY <2>1, <2>3, <2>4
<1>4. \A k \in 2..Len(a) : k \in S
  <2> HIDE DEF S
  <2> QED
    BY <1>1, <1>2, <1>3, DownwardInduction
<1> QED
  BY <1>4 DEF a

-----------------------------------------------------------------------------
(* Preservation, action by action *)

\* A freshly seeded (or empty) registry satisfies the invariant.
LEMMA InitInv == Init => IInv
<1> SUFFICES ASSUME Init PROVE IInv
  OBVIOUS
<1>1. \A i \in SeedIds : SeedRow(i) \in SeedNodes /\ SeedRow(i).g_node_id = i
  BY DEF SeedIds, SeedRow
<1>2. nodes = [i \in SeedIds |-> SeedRow(i)] /\ DOMAIN nodes = SeedIds
  BY DEF Init
<1>3. NodeTable(nodes)
  <2>1. \A i \in SeedIds : nodes[i] \in GNodeGt /\ nodes[i].g_node_id = i /\ i \in GNodeId
    BY <1>1, <1>2, SeedAssumption DEF GNodeGt
  <2> QED
    BY <1>2, <2>1 DEF NodeTable
<1>4. ASSUME NEW n \in SeedNodes
      PROVE  n.alias \in DOMAIN ledger /\ ledger[n.alias] = n.g_node_id
  <2>1. \A m \in SeedNodes : m.alias = n.alias => m = n
    BY SeedAssumption
  <2>2. ledger[n.alias] = (CHOOSE m \in SeedNodes : m.alias = n.alias).g_node_id
    BY DEF Init
  <2> QED
    BY <2>1, <2>2 DEF Init
<1>5. OwnerTable(ledger)
  <2>1. DOMAIN ledger = {n.alias : n \in SeedNodes}
    BY DEF Init
  <2>2. \A n \in SeedNodes : n.alias \in Alias /\ n.g_node_id \in GNodeId
    BY SeedAssumption DEF GNodeGt
  <2>3. \A a \in DOMAIN ledger : a \in Alias /\ ledger[a] \in GNodeId
    BY <1>4, <2>1, <2>2
  <2>4. ledger = [a \in DOMAIN ledger |-> ledger[a]]
    BY DEF Init
  <2> QED
    BY <2>3, <2>4 DEF OwnerTable
<1>6. TypeOK
  BY <1>3, <1>5 DEF Init, TypeOK
<1>7. LedgerCoversLive
  BY <1>1, <1>2, <1>4 DEF LedgerCoversLive, CoversLive
<1>8. LogAccountsForNodes
  BY <1>2 DEF Init, LogAccountsForNodes
<1>9. RowsDecode
  BY <1>1, <1>2, SeedAssumption DEF RowsDecode
<1>10. ValidateClean
  BY <1>2, SeedAssumption DEF ValidateClean
<1>11. CreateAnswered /\ pc # "rewriting"
  BY DEF Init, CreateAnswered
<1> QED
  BY <1>6, <1>7, <1>8, <1>9, <1>10, <1>11 DEF IInv, SoundInv

\* A step that only ends a command without touching the database keeps the
\* invariant: refusals, replays, and errors before the transaction has begun.
LEMMA AnswerOnlyInv ==
    ASSUME SoundInv, UNCHANGED <<tables, txn>>, result' \in {NULL} \cup Result, CreateAnswered'
    PROVE  Keeps
<1> USE DEF tables, txn
<1>1. TypeOK'
  BY DEF SoundInv, TypeOK
<1>2. LedgerCoversLive' /\ (LogAccountsForNodes => LogAccountsForNodes') /\ RowsDecode' /\ ValidateClean'
  BY DEF SoundInv, LedgerCoversLive, LogAccountsForNodes, RowsDecode, ValidateClean
<1>3. (pc = "rewriting" => TxInv)'
  BY DEF SoundInv, TxInv
<1> QED
  BY <1>1, <1>2, <1>3 DEF SoundInv, Keeps

\* A replay answers with a well-typed forest of the current rows.
LEMMA ReplayInv ==
    ASSUME SoundInv, NEW c \in Cmd, Replay(c)
    PROVE  Keeps
<1>1. get_forest({c.new_node.alias}) \in GNodeForest
  <2>1. UNION {Subtree(nodes, r) : r \in {c.new_node.alias}} \in SUBSET DOMAIN nodes
    BY DEF Subtree
  <2>2. {c.new_node.alias} \in SUBSET Alias /\ NodeTable(nodes)
    BY CmdFacts DEF SoundInv, TypeOK
  <2> QED
    BY <2>1, <2>2, ForestType DEF get_forest
<1>2. result' \in Result
  BY <1>1 DEF Replay, End, Result, Verdict
<1>3. CreateAnswered'
  BY DEF Replay, End, CreateAnswered
<1> QED
  BY <1>2, <1>3, AnswerOnlyInv DEF Replay

\* The refusals, and the insert errors of a re-parent.
LEMMA RefusalInv ==
    ASSUME SoundInv, NEW c \in Cmd,
           RefuseCreate(c) \/ RefuseReparent(c) \/ (c \in ReparentCmd /\ FailReparent(c))
    PROVE  Keeps
<1>1. result' \in Result
  BY DEF RefuseCreate, RefuseReparent, FailReparent, End, Result, Verdict
<1>2. CreateAnswered'
  BY CmdFacts DEF RefuseCreate, RefuseReparent, FailReparent, End, CreateAnswered
<1>3. UNCHANGED <<tables, txn>>
  BY DEF RefuseCreate, RefuseReparent, FailReparent
<1> QED
  BY <1>1, <1>2, <1>3, AnswerOnlyInv

\* Adding a node under an alias that no other node owns keeps the ledger in
\* step with the live aliases.
LEMMA InsertCovers ==
    ASSUME NEW table, NodeTable(table), NEW owners, OwnerTable(owners),
           CoversLive(table, owners), NEW n \in GNodeGt, n.g_node_id \notin DOMAIN table,
           n.alias \in DOMAIN owners => owners[n.alias] = n.g_node_id
    PROVE  /\ OwnerTable(claim_alias(owners, Wants(n)))
           /\ Extends(claim_alias(owners, Wants(n)), owners)
           /\ n.alias \in DOMAIN claim_alias(owners, Wants(n))
           /\ claim_alias(owners, Wants(n))[n.alias] = n.g_node_id
           /\ CoversLive(Insert(table, n), claim_alias(owners, Wants(n)))
<1> DEFINE new == claim_alias(owners, Wants(n))
<1>1. CanClaim(owners, Wants(n))
  BY WantsClaim
<1>2. OwnerTable(new) /\ Extends(new, owners)
      /\ n.alias \in DOMAIN new /\ new[n.alias] = n.g_node_id
  <2>1. Wants(n) \in [{n.g_node_id} -> Alias] /\ {n.g_node_id} \in SUBSET GNodeId
    BY WantsType
  <2>2. OwnerTable(new) /\ Extends(new, owners)
    BY <1>1, <2>1, ClaimKeepsOwners
  <2>3. \A i \in {n.g_node_id} : Wants(n)[i] \in DOMAIN new /\ new[Wants(n)[i]] = i
    BY <1>1, <2>1, ClaimKeepsOwners
  <2> QED
    BY <2>2, <2>3, WantsType
<1>3. CoversLive(Insert(table, n), new)
  <2> HIDE DEF new
  <2>1. /\ DOMAIN Insert(table, n) = DOMAIN table \cup {n.g_node_id}
        /\ Insert(table, n)[n.g_node_id] = n
        /\ \A i \in DOMAIN table : Insert(table, n)[i] = table[i]
    BY InsertType
  <2> QED
    BY <1>2, <2>1 DEF CoversLive, Extends
<1> QED
  BY <1>2, <1>3

\* An applied create keeps the invariant, and its insert never meets the
\* unique index: a live alias of another node would be in the ledger.
LEMMA CommitCreateInv ==
    ASSUME SoundInv, NEW c \in CreateCmd, CommitCreate(c)
    PROVE  Keeps
<1> DEFINE n == c.new_node
<1>1. /\ c \in Cmd /\ n \in GNodeGt /\ n.alias \in Alias /\ n.g_node_id \in GNodeId
      /\ Decodes(n) /\ Len(n.alias) >= 2
  BY CmdFacts DEF Cmd
<1>2. /\ pc = "idle" /\ c \notin log
      /\ n.g_node_id \notin DOMAIN nodes
      /\ n.alias \in DOMAIN ledger => ledger[n.alias] = n.g_node_id
      /\ ~InsertFails(n) => Clean(Insert(nodes, n))
  BY DEF CommitCreate, CreateRefusal, OwnedByOther, Logged
<1>3. ~InsertFails(n)
  <2>1. AtAlias(nodes, n.alias) = {}
    BY <1>2 DEF AtAlias, SoundInv, LedgerCoversLive, CoversLive
  <2>2. n.position_point_id = NULL
    BY CmdAssumption DEF GNodeCreateCmd
  <2> QED
    BY <1>2, <2>1, <2>2 DEF InsertFails, OwnedByOther
<1>4. /\ nodes' = Insert(nodes, n)
      /\ ledger' = claim_alias(ledger, Wants(n))
      /\ log' = log \cup {c}
      /\ txNodes' = nodes' /\ txLedger' = ledger'
      /\ result' = [cmd |-> c, verdict |-> "applied",
                    forest |-> [roots |-> {n.alias}, nodes |-> {n}, edges |-> {}]]
      /\ UNCHANGED <<pc, cmd, todo, updated>>
  BY <1>3 DEF CommitCreate, End
<1>5. NodeTable(nodes) /\ OwnerTable(ledger) /\ CoversLive(nodes, ledger) /\ cmd = NULL
  BY <1>2 DEF SoundInv, TypeOK, LedgerCoversLive
<1>6. /\ NodeTable(nodes') /\ DOMAIN nodes' = DOMAIN nodes \cup {n.g_node_id}
      /\ nodes'[n.g_node_id] = n
      /\ \A i \in DOMAIN nodes : nodes'[i] = nodes[i]
  BY <1>1, <1>2, <1>4, <1>5, InsertType
<1>7. /\ OwnerTable(ledger') /\ Extends(ledger', ledger)
      /\ n.alias \in DOMAIN ledger' /\ ledger'[n.alias] = n.g_node_id
      /\ CoversLive(nodes', ledger')
  BY <1>1, <1>2, <1>4, <1>5, InsertCovers
<1> HIDE DEF n
<1>8. TypeOK'
  <2>1. result' \in Result
    BY <1>1, <1>4 DEF Result, Verdict, GNodeForest
  <2>2. log' \subseteq Cmd
    BY <1>1, <1>4 DEF SoundInv, TypeOK
  <2> QED
    BY <1>2, <1>4, <1>5, <1>6, <1>7, <2>1, <2>2 DEF SoundInv, TypeOK
<1>9. ASSUME LogAccountsForNodes PROVE LogAccountsForNodes'
  <2>1. n.g_node_id \notin SeedIds
    BY <1>2, <1>9 DEF n, LogAccountsForNodes, SeedIds
  <2> QED
    BY <1>2, <1>9, <1>4, <1>6, <1>7, <2>1 DEF n, LogAccountsForNodes, Extends
<1>10. RowsDecode'
  BY <1>1, <1>6 DEF SoundInv, RowsDecode
<1>11. ValidateClean'
  BY <1>2, <1>3, <1>4 DEF n, ValidateClean, Clean
<1>12. CreateAnswered' /\ pc' # "rewriting"
  BY <1>2, <1>4 DEF CreateAnswered
<1> QED
  BY <1>7, <1>8, <1>9, <1>10, <1>11, <1>12 DEF SoundInv, Keeps, LedgerCoversLive

\* Opening a re-parent transaction establishes the transaction invariant.
LEMMA BeginReparentInv ==
    ASSUME SoundInv, NEW c \in ReparentCmd, BeginReparent(c)
    PROVE  Keeps
<1> DEFINE n == c.new_node
<1>1. /\ c \in Cmd /\ n \in GNodeGt /\ n.alias \in Alias /\ n.g_node_id \in GNodeId
      /\ Len(n.alias) >= 2 /\ c.moved_child_g_node_ids \in Seq(GNodeId)
  BY CmdFacts DEF Cmd
<1>2. /\ pc = "idle" /\ c \notin log
      /\ n.g_node_id \notin DOMAIN nodes
      /\ n.alias \in DOMAIN ledger => ledger[n.alias] = n.g_node_id
      /\ \A k \in DOMAIN c.moved_child_g_node_ids : c.moved_child_g_node_ids[k] \in DOMAIN nodes
  BY DEF BeginReparent, ReparentRefusal, AliasCollision, OwnedByOther, InsertFails, Logged
<1>3. /\ pc' = "rewriting" /\ cmd' = c
      /\ txNodes' = Insert(nodes, n)
      /\ txLedger' = claim_alias(ledger, Wants(n))
      /\ todo' = c.moved_child_g_node_ids
      /\ updated' = {n.g_node_id}
      /\ result' = NULL
      /\ UNCHANGED <<nodes, ledger, log>>
  BY DEF BeginReparent, tables
<1>4. NodeTable(nodes) /\ OwnerTable(ledger) /\ CoversLive(nodes, ledger)
  BY DEF SoundInv, TypeOK, LedgerCoversLive
<1>5. /\ NodeTable(txNodes') /\ DOMAIN txNodes' = DOMAIN nodes \cup {n.g_node_id}
      /\ txNodes'[n.g_node_id] = n
      /\ \A i \in DOMAIN nodes : txNodes'[i] = nodes[i]
  <2> HIDE DEF n
  <2>1. /\ NodeTable(Insert(nodes, n)) /\ DOMAIN Insert(nodes, n) = DOMAIN nodes \cup {n.g_node_id}
        /\ Insert(nodes, n)[n.g_node_id] = n
        /\ \A i \in DOMAIN nodes : i # n.g_node_id => Insert(nodes, n)[i] = nodes[i]
    BY ONLY <1>1, <1>4, InsertType
  <2> QED
    BY ONLY <1>2, <1>3, <2>1
<1>6. /\ OwnerTable(txLedger') /\ Extends(txLedger', ledger)
      /\ n.alias \in DOMAIN txLedger' /\ txLedger'[n.alias] = n.g_node_id
      /\ CoversLive(txNodes', txLedger')
  BY <1>1, <1>2, <1>3, <1>4, InsertCovers
<1> HIDE DEF n
<1>7. TypeOK'
  BY <1>1, <1>3, <1>4, <1>5, <1>6 DEF SoundInv, TypeOK
<1>8. LongAliases(txNodes')
  <2>1. \A i \in DOMAIN nodes : Len(nodes[i].alias) >= 2
    BY DEF SoundInv, RowsDecode, Decodes, GNodeAliasHasBody
  <2> QED
    BY <1>1, <1>5, <2>1 DEF LongAliases
<1>9. \A k \in 1..Len(todo') : todo'[k] \in DOMAIN txNodes'
  BY <1>1, <1>2, <1>3, <1>5
<1>10. TxInv'
  BY <1>2, <1>3, <1>5, <1>6, <1>8, <1>9 DEF n, TxInv
<1>11. LedgerCoversLive' /\ (LogAccountsForNodes => LogAccountsForNodes') /\ RowsDecode' /\ ValidateClean'
  BY <1>3 DEF SoundInv, LedgerCoversLive, LogAccountsForNodes, RowsDecode, ValidateClean
<1>12. CreateAnswered'
  BY <1>3 DEF CreateAnswered
<1> QED
  BY <1>7, <1>10, <1>11, <1>12 DEF SoundInv, Keeps

\* A rolled back re-parent leaves the tables as they were.
LEMMA RollbackInv ==
    ASSUME SoundInv, pc = "rewriting", NEW v \in Verdict, Rollback(v)
    PROVE  Keeps
<1>1. cmd \in ReparentCmd /\ cmd \in Cmd /\ cmd \notin CreateCmd
  BY CmdFacts DEF SoundInv, TypeOK, Cmd
<1>2. /\ UNCHANGED <<nodes, ledger, log>>
      /\ pc' = "idle" /\ cmd' = NULL /\ txNodes' = nodes' /\ txLedger' = ledger'
      /\ todo' = <<>> /\ updated' = {}
      /\ result' = [cmd |-> cmd, verdict |-> v, forest |-> NULL]
  BY DEF Rollback, Close, End, tables
<1>3. result' \in Result
  BY <1>1, <1>2 DEF Result
<1>4. TypeOK'
  BY <1>2, <1>3 DEF SoundInv, TypeOK
<1>5. LedgerCoversLive' /\ (LogAccountsForNodes => LogAccountsForNodes') /\ RowsDecode' /\ ValidateClean'
  BY <1>2 DEF SoundInv, LedgerCoversLive, LogAccountsForNodes, RowsDecode, ValidateClean
<1>6. CreateAnswered' /\ pc' # "rewriting"
  BY <1>1, <1>2 DEF CreateAnswered
<1> QED
  BY <1>4, <1>5, <1>6 DEF SoundInv, Keeps

\* What rewriting one moved child asks for: well-formed aliases with a body,
\* for rows of the working copy.
LEMMA RewrittenType ==
    ASSUME SoundInv, pc = "rewriting", NEW child \in DOMAIN txNodes
    PROVE  LET D == Subtree(txNodes, txNodes[child].alias)
           IN  /\ D \subseteq DOMAIN txNodes /\ D \in SUBSET GNodeId
               /\ Rewritten(child) \in [D -> Alias]
               /\ \A i \in D : Len(Rewritten(child)[i]) >= 2
<1> DEFINE D == Subtree(txNodes, txNodes[child].alias)
           new(i) == rewrite_alias(txNodes[i].alias, txNodes[child].alias,
                        moved_child_new_prefix(cmd.new_node.alias, txNodes[child].alias))
<1>1. NodeTable(txNodes) /\ LongAliases(txNodes) /\ cmd \in Cmd
  BY DEF SoundInv, TypeOK, TxInv, Cmd
<1>2. cmd.new_node.alias \in Alias /\ Len(cmd.new_node.alias) >= 2
  BY <1>1, CmdFacts
<1>3. \A i \in DOMAIN txNodes : txNodes[i].alias \in Alias /\ Len(txNodes[i].alias) >= 2
  BY <1>1 DEF NodeTable, LongAliases, GNodeGt
<1>4. ASSUME NEW i \in D PROVE new(i) \in Alias /\ Len(new(i)) >= 2
  <2>1. i \in DOMAIN txNodes /\ in_subtree(txNodes[i].alias, txNodes[child].alias)
    BY DEF Subtree
  <2> QED
    BY <1>2, <1>3, <2>1, RewriteType
<1>5. Rewritten(child) = [i \in D |-> new(i)]
  BY DEF Rewritten
<1>6. D \subseteq DOMAIN txNodes /\ D \in SUBSET GNodeId
  BY <1>1 DEF Subtree, NodeTable
<1> HIDE DEF D, new
<1>7. Rewritten(child) \in [D -> Alias] /\ \A i \in D : Len(Rewritten(child)[i]) >= 2
  BY <1>4, <1>5
<1> QED
  BY <1>6, <1>7 DEF D

\* A renamed row is a row, of the same node, at the alias asked for.
LEMMA RenamedRowType ==
    ASSUME NEW row \in GNodeGt, NEW alias \in Alias
    PROVE  /\ RenamedRow(row, alias) \in GNodeGt
           /\ RenamedRow(row, alias).g_node_id = row.g_node_id
           /\ RenamedRow(row, alias).alias = alias
<1> DEFINE old == row.alias
           new == [row EXCEPT !.prev_alias = old, !.alias = alias]
<1>1. old \in Alias
  BY DEF GNodeGt
<1>2. RenamedRow(row, alias) = new
  BY DEF RenamedRow
<1> HIDE DEF old
<1>3. new \in GNodeGt
  BY <1>1 DEF GNodeGt
<1>4. new.g_node_id = row.g_node_id /\ new.alias = alias
  BY DEF GNodeGt
<1> QED
  BY <1>2, <1>3, <1>4

\* Renaming rows of a table keeps it a node table, gives each renamed row the
\* alias asked for and leaves the others alone.
LEMMA RenameType ==
    ASSUME NEW table, NodeTable(table), NEW D \in SUBSET DOMAIN table, NEW want \in [D -> Alias]
    PROVE  /\ NodeTable(Rename(table, want))
           /\ DOMAIN Rename(table, want) = DOMAIN table
           /\ \A i \in D : Rename(table, want)[i].alias = want[i]
           /\ \A i \in DOMAIN table \ D : Rename(table, want)[i] = table[i]
<1> DEFINE new == Rename(table, want)
<1>1. \A i \in DOMAIN table : table[i] \in GNodeGt /\ table[i].g_node_id = i
  BY DEF NodeTable
<1>2. DOMAIN want = D
  OBVIOUS
<1>3. ASSUME NEW i \in D
      PROVE  new[i] \in GNodeGt /\ new[i].g_node_id = i /\ new[i].alias = want[i]
  <2>1. new[i] = RenamedRow(table[i], want[i])
    BY <1>2 DEF Rename
  <2>2. table[i] \in GNodeGt /\ table[i].g_node_id = i /\ want[i] \in Alias
    BY <1>1
  <2> HIDE DEF new
  <2> QED
    BY <2>1, <2>2, RenamedRowType
<1>4. \A i \in DOMAIN table \ D : new[i] = table[i]
  BY <1>2 DEF Rename
<1>5. DOMAIN new = DOMAIN table /\ new = [i \in DOMAIN table |-> new[i]]
  BY DEF Rename
<1> HIDE DEF new
<1>6. NodeTable(new)
  BY <1>1, <1>3, <1>4, <1>5 DEF NodeTable
<1> QED
  BY <1>3, <1>4, <1>5, <1>6 DEF new

\* Rewriting a child's subtree renames and claims in the working copies only,
\* and keeps the transaction's ledger in step with its rows.
LEMMA RewriteChildInv ==
    ASSUME SoundInv, RewriteChild
    PROVE  Keeps
<1> DEFINE child == Head(todo)
           want == Rewritten(child)
           D == Subtree(txNodes, txNodes[child].alias)
<1>1. pc = "rewriting" /\ todo # <<>>
  BY DEF RewriteChild
<1>2. /\ NodeTable(nodes) /\ NodeTable(txNodes) /\ OwnerTable(ledger) /\ OwnerTable(txLedger)
      /\ todo \in Seq(GNodeId) /\ cmd \in ReparentCmd /\ updated \subseteq GNodeId /\ TxInv
  BY <1>1 DEF SoundInv, TypeOK
<1>3. CASE ~CanClaim(txLedger, want)
  <2>1. Rollback("escaped") /\ "escaped" \in Verdict
    BY <1>3 DEF RewriteChild, Verdict
  <2> QED
    BY <1>1, <2>1, RollbackInv
<1>4. CASE CanClaim(txLedger, want)
  <2>1. /\ txNodes' = Rename(txNodes, want)
        /\ txLedger' = claim_alias(txLedger, want)
        /\ updated' = updated \cup DOMAIN want
        /\ todo' = Tail(todo)
        /\ UNCHANGED <<nodes, ledger, log, pc, cmd, result>>
    BY <1>4 DEF RewriteChild, tables
  <2>2. child \in DOMAIN txNodes
    BY <1>1, <1>2 DEF TxInv
  <2>3. /\ D \in SUBSET DOMAIN txNodes /\ D \in SUBSET GNodeId
        /\ want \in [D -> Alias]
        /\ \A i \in D : Len(want[i]) >= 2
    BY <1>1, <2>2, RewrittenType
  <2> HIDE DEF D, want, child
  <2>4. /\ NodeTable(txNodes') /\ DOMAIN txNodes' = DOMAIN txNodes
        /\ \A i \in D : txNodes'[i].alias = want[i]
        /\ \A i \in DOMAIN txNodes \ D : txNodes'[i] = txNodes[i]
    <3>1. NodeTable(txNodes) /\ D \in SUBSET DOMAIN txNodes /\ want \in [D -> Alias]
      BY <1>2, <2>3
    <3>2. /\ NodeTable(Rename(txNodes, want)) /\ DOMAIN Rename(txNodes, want) = DOMAIN txNodes
          /\ \A i \in D : Rename(txNodes, want)[i].alias = want[i]
          /\ \A i \in DOMAIN txNodes \ D : Rename(txNodes, want)[i] = txNodes[i]
      BY <3>1, RenameType
    <3> QED
      BY <2>1, <3>2
  <2>5. /\ OwnerTable(txLedger') /\ Extends(txLedger', txLedger)
        /\ \A i \in D : want[i] \in DOMAIN txLedger' /\ txLedger'[want[i]] = i
    BY <1>2, <1>4, <2>1, <2>3, ClaimKeepsOwners
  <2>6. CoversLive(txNodes', txLedger')
    BY <1>2, <2>4, <2>5 DEF CoversLive, Extends, TxInv
  <2>7. LongAliases(txNodes')
    BY <1>2, <2>3, <2>4 DEF LongAliases, TxInv
  <2>8. todo' \in Seq(GNodeId) /\ \A k \in 1..Len(todo') : todo'[k] \in DOMAIN txNodes'
    BY <1>1, <1>2, <2>1, <2>4 DEF TxInv
  <2>9. TypeOK'
    BY <1>1, <1>2, <2>1, <2>3, <2>4, <2>5, <2>8 DEF SoundInv, TypeOK
  <2>10. TxInv'
    <3>1. Extends(txLedger', ledger)
      BY <1>2, <2>5 DEF Extends, TxInv
    <3>2. \A i \in DOMAIN nodes \ updated' : txNodes'[i] = nodes[i]
      BY <1>2, <2>1, <2>3, <2>4 DEF TxInv
    <3>3. LET n == cmd.new_node
          IN  n.alias \in DOMAIN txLedger' /\ txLedger'[n.alias] = n.g_node_id
      BY <1>2, <2>5 DEF Extends, TxInv
    <3>4. cmd.new_node.g_node_id \in updated' /\ updated' \subseteq DOMAIN txNodes'
      BY <1>2, <2>1, <2>3, <2>4 DEF TxInv
    <3> QED
      BY <1>2, <2>1, <2>4, <2>6, <2>7, <2>8, <3>1, <3>2, <3>3, <3>4 DEF TxInv
  <2>11. LedgerCoversLive' /\ (LogAccountsForNodes => LogAccountsForNodes') /\ RowsDecode' /\ ValidateClean'
    BY <2>1 DEF SoundInv, LedgerCoversLive, LogAccountsForNodes, RowsDecode, ValidateClean
  <2>12. CreateAnswered'
    BY <2>1 DEF SoundInv, CreateAnswered
  <2> QED
    BY <2>9, <2>10, <2>11, <2>12 DEF SoundInv, Keeps
<1> QED
  BY <1>3, <1>4

\* A committed re-parent: what the transaction invariant says of the working
\* copies, with the validation and the decoding before the commit, is the
\* invariant of the new tables.
LEMMA CommitReparentInv ==
    ASSUME SoundInv, CommitReparent
    PROVE  Keeps
<1> DEFINE n == cmd.new_node
           valid == Clean(txNodes)
           decodes == BroadcastDecodes
<1>1. pc = "rewriting"
  BY DEF CommitReparent
<1>2. CASE ~valid
  <2>1. Rollback("refused") /\ "refused" \in Verdict
    BY <1>2 DEF CommitReparent, Verdict
  <2> QED
    BY <1>1, <2>1, RollbackInv
<1>3. CASE valid /\ ~decodes
  <2>1. Rollback("escaped") /\ "escaped" \in Verdict
    BY <1>3 DEF CommitReparent, Verdict
  <2> QED
    BY <1>1, <2>1, RollbackInv
<1>4. CASE valid /\ decodes
  <2>1. /\ nodes' = txNodes /\ ledger' = txLedger /\ log' = log \cup {cmd}
        /\ pc' = "idle" /\ cmd' = NULL /\ txNodes' = nodes' /\ txLedger' = ledger'
        /\ todo' = <<>> /\ updated' = {}
        /\ result' = [cmd |-> cmd, verdict |-> "applied",
                      forest |-> Forest(txNodes, {n.alias}, updated)]
    BY <1>4 DEF CommitReparent, Close, End
  <2>2. /\ NodeTable(txNodes) /\ OwnerTable(txLedger) /\ TxInv
        /\ log \subseteq Cmd /\ updated \subseteq GNodeId
    BY <1>1 DEF SoundInv, TypeOK
  <2>3. /\ cmd \in Cmd /\ cmd \notin CreateCmd /\ n.alias \in Alias
    BY <1>1, CmdFacts DEF SoundInv, TypeOK, Cmd
  <2>4. TypeOK'
    <3>1. updated \in SUBSET DOMAIN txNodes
      BY <1>1 DEF SoundInv, TxInv
    <3>2. Forest(txNodes, {n.alias}, updated) \in GNodeForest
      BY <2>2, <2>3, <3>1, ForestType
    <3>3. result' \in Result
      BY <2>1, <2>3, <3>2 DEF Result, Verdict
    <3> QED
      BY <2>1, <2>2, <2>3, <3>3 DEF TypeOK
  <2>5. LedgerCoversLive'
    BY <2>1, <2>2 DEF TxInv, LedgerCoversLive, CoversLive
  <2>6. ASSUME LogAccountsForNodes PROVE LogAccountsForNodes'
    BY <2>1, <2>2, <2>6 DEF TxInv, LogAccountsForNodes, Extends
  <2>7. RowsDecode'
    <3>1. \A i \in DOMAIN txNodes \ updated : i \in DOMAIN nodes /\ txNodes[i] = nodes[i]
      BY <2>2 DEF TxInv
    <3> QED
      BY <1>4, <2>1, <3>1 DEF SoundInv, RowsDecode, BroadcastDecodes
  <2>8. ValidateClean'
    BY <1>4, <2>1 DEF ValidateClean, Clean
  <2>9. CreateAnswered' /\ pc' # "rewriting"
    BY <2>1, <2>3 DEF CreateAnswered
  <2> QED
    BY <2>4, <2>5, <2>6, <2>7, <2>8, <2>9 DEF SoundInv, Keeps
<1> QED
  BY <1>2, <1>3, <1>4

\* Every step keeps the sound part by itself, and the accounts of the log
\* with it.
LEMMA NextSound == SoundInv /\ [Next]_vars => Keeps
<1> SUFFICES ASSUME SoundInv, [Next]_vars PROVE Keeps
  OBVIOUS
<1>1. ASSUME NEW c \in CreateCmd, apply_create(c) PROVE Keeps
  <2>1. c \in Cmd
    BY DEF Cmd
  <2> QED
    BY <1>1, <2>1, RefusalInv, ReplayInv, CommitCreateInv DEF apply_create
<1>2. ASSUME NEW c \in ReparentCmd, apply_reparent(c) PROVE Keeps
  <2>1. c \in Cmd
    BY DEF Cmd
  <2> QED
    BY <1>2, <2>1, RefusalInv, ReplayInv, BeginReparentInv DEF apply_reparent
<1>3. CASE RewriteChild
  BY <1>3, RewriteChildInv
<1>4. CASE CommitReparent
  BY <1>4, CommitReparentInv
<1>5. CASE UNCHANGED vars
  <2>1. UNCHANGED <<tables, txn>> /\ result' = result
    BY <1>5 DEF vars, tables, txn
  <2>2. result' \in {NULL} \cup Result /\ CreateAnswered'
    BY <2>1 DEF SoundInv, TypeOK, CreateAnswered
  <2> QED
    BY <2>1, <2>2, AnswerOnlyInv
<1> QED
  BY <1>1, <1>2, <1>3, <1>4, <1>5 DEF Next

\* Every step keeps the invariant.
LEMMA NextInv == IInv /\ [Next]_vars => IInv'
BY NextSound DEF IInv, Keeps

\* The inductive invariant holds throughout.
THEOREM Invariance == Spec => []IInv
<1>1. Init => IInv
  BY InitInv
<1>2. IInv /\ [Next]_vars => IInv'
  BY NextInv
<1> QED
  BY <1>1, <1>2, PTL DEF Spec

-----------------------------------------------------------------------------
(* What it says *)

\* The tables, the working copies and the verdicts keep their types.
THEOREM TypeCorrect == Spec => []TypeOK
<1>1. IInv => TypeOK
  BY DEF IInv, SoundInv
<1> QED
  BY <1>1, Invariance, PTL

\* No two nodes ever share a live alias, and each node owns its own in the
\* ledger: claim_alias on every create and rename is enough.
THEOREM AliasOwnership == Spec => []LedgerCoversLive
<1>1. IInv => LedgerCoversLive
  BY DEF IInv, SoundInv
<1> QED
  BY <1>1, Invariance, PTL

\* Each command takes effect at most once, and the log together with the seed
\* accounts for every node of the registry.
THEOREM ExactlyOnce == Spec => []LogAccountsForNodes
<1>1. IInv => LogAccountsForNodes
  BY DEF IInv, SoundInv
<1> QED
  BY <1>1, Invariance, PTL

\* Reads never meet a row that fails to decode.
THEOREM RowsAlwaysDecode == Spec => []RowsDecode
<1>1. IInv => RowsDecode
  BY DEF IInv, SoundInv
<1> QED
  BY <1>1, Invariance, PTL

\* Every committed state passes validate_registry.
THEOREM AlwaysClean == Spec => []ValidateClean
<1>1. IInv => ValidateClean
  BY DEF IInv, SoundInv
<1> QED
  BY <1>1, Invariance, PTL

\* No Active node ever hangs from a gap: all of its path, up to the forest
\* root, is there and Active in every committed state.
THEOREM ActivePaths == Spec => []ActivePathToRoot
<1>1. ASSUME IInv PROVE ActivePathToRoot
  <2> DEFINE rows == {i \in DOMAIN nodes : nodes[i].status = "Active"}
  <2>1. NodeTable(nodes) /\ LongAliases(nodes)
    BY <1>1 DEF IInv, SoundInv, TypeOK, RowsDecode, Decodes, GNodeAliasHasBody, LongAliases
  <2>2. \A i \in rows : \/ is_forest_root(nodes[i].alias)
                         \/ \E p \in rows : nodes[p].alias = parent_alias(nodes[i].alias)
    BY <1>1 DEF IInv, SoundInv, ValidateClean, validate_registry, check_parent_closed_active, AtAlias
  <2>3. \A i \in rows : \A k \in 2..Len(nodes[i].alias) :
            \E p \in rows : nodes[p].alias = SubSeq(nodes[i].alias, 1, k)
    <3>1. rows \in SUBSET DOMAIN nodes
      OBVIOUS
    <3> HIDE DEF rows
    <3> QED
      BY <2>1, <2>2, <3>1, PathsThere
  <2> QED
    BY <2>3 DEF ActivePathToRoot, AtAlias
<1> QED
  BY <1>1, Invariance, PTL

\* A create never lets a database error escape.
THEOREM CreatesAnswered == Spec => []CreateAnswered
<1>1. IInv => CreateAnswered
  BY DEF IInv, SoundInv
<1> QED
  BY <1>1, Invariance, PTL

\* A step changes the tables only by committing, and a commit keeps every
\* node and every ledger entry.
LEMMA StepKeeps ==
    ASSUME IInv, [Next]_vars
    PROVE  /\ Extends(ledger', ledger)
           /\ DOMAIN nodes \subseteq DOMAIN nodes'
<1>1. ASSUME NEW c \in CreateCmd, CommitCreate(c)
      PROVE  Extends(ledger', ledger) /\ DOMAIN nodes \subseteq DOMAIN nodes'
  <2> DEFINE n == c.new_node
  <2>1. /\ n \in GNodeGt
        /\ n.g_node_id \notin DOMAIN nodes
        /\ n.alias \in DOMAIN ledger => ledger[n.alias] = n.g_node_id
    BY <1>1, CmdFacts DEF Cmd, CommitCreate, CreateRefusal, OwnedByOther
  <2>2. NodeTable(nodes) /\ OwnerTable(ledger) /\ CoversLive(nodes, ledger)
    BY DEF IInv, SoundInv, TypeOK, LedgerCoversLive
  <2>3. \/ UNCHANGED tables
        \/ nodes' = Insert(nodes, n) /\ ledger' = claim_alias(ledger, Wants(n))
    BY <1>1 DEF CommitCreate
  <2>4. CASE UNCHANGED tables
    BY <2>4 DEF tables, Extends
  <2>5. CASE nodes' = Insert(nodes, n) /\ ledger' = claim_alias(ledger, Wants(n))
    <3>1. Extends(claim_alias(ledger, Wants(n)), ledger)
      BY <2>1, <2>2, InsertCovers
    <3>2. DOMAIN nodes \subseteq DOMAIN Insert(nodes, n)
      BY DEF Insert
    <3> QED
      BY <2>5, <3>1, <3>2
  <2> QED
    BY <2>3, <2>4, <2>5
<1>2. CASE CommitReparent
  <2>1. UNCHANGED tables \/ (nodes' = txNodes /\ ledger' = txLedger)
    BY <1>2 DEF CommitReparent, Rollback
  <2>2. Extends(txLedger, ledger) /\ DOMAIN nodes \subseteq DOMAIN txNodes
    BY <1>2 DEF IInv, SoundInv, TxInv, CommitReparent
  <2> QED
    BY <2>1, <2>2 DEF tables, Extends
<1>3. CASE UNCHANGED tables
  BY <1>3 DEF tables, Extends
<1>4. \/ \E c \in CreateCmd : CommitCreate(c)
      \/ CommitReparent
      \/ UNCHANGED tables
  BY DEF Next, vars, tables, apply_create, apply_reparent, RefuseCreate, Replay,
         RefuseReparent, FailReparent, BeginReparent, RewriteChild, Rollback
<1> QED
  BY <1>1, <1>2, <1>3, <1>4

\* Alias uniqueness through time, for every sequence of commands.
THEOREM AliasPermanence == Spec => AliasOwnedForever
<1>1. IInv /\ [Next]_vars =>
        [\A a \in DOMAIN ledger : a \in DOMAIN ledger' /\ ledger'[a] = ledger[a]]_vars
  BY StepKeeps DEF Extends
<1> QED
  BY <1>1, Invariance, PTL DEF Spec, AliasOwnedForever

\* The registry refines the abstract alias authority: the committed tables,
\* seen as names and owners, only ever take its steps.
THEOREM Refinement == Spec => ImplementsAliasAuthority
<1> DEFINE live == [i \in DOMAIN nodes |-> nodes[i].alias]
<1>1. Init => Authority!Init
  <2>1. IInv => Authority!Init
    BY DEF IInv, SoundInv, LedgerCoversLive, CoversLive, Authority!Init, Authority!Owned
  <2> QED
    BY <2>1, InitInv
<1>2. IInv /\ IInv' /\ [Next]_vars => [Authority!Assign]_<<ledger, live>>
  <2> SUFFICES ASSUME IInv, IInv', [Next]_vars PROVE Authority!Assign
    OBVIOUS
  <2>1. Extends(ledger', ledger) /\ DOMAIN nodes \subseteq DOMAIN nodes'
    BY StepKeeps
  <2>2. Authority!Owned(live', ledger')
    BY DEF IInv, SoundInv, LedgerCoversLive, CoversLive, Authority!Owned
  <2> QED
    BY <2>1, <2>2 DEF Authority!Assign, Extends
<1> QED
  BY <1>1, <1>2, Invariance, PTL DEF Spec, ImplementsAliasAuthority, Authority!Spec
=============================================================================
