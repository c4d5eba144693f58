---------------------------- MODULE RebuildProofs ----------------------------
(***************************************************************************)
(* Proofs about Rebuild: a registry that is rebuilt from everything that   *)
(* was published is the registry there was, whatever was repeated,         *)
(* refused, redelivered after a crash or replayed twice.                   *)
(*                                                                         *)
(* They are about a registry that nobody seeded, so that it has no edges   *)
(* and no positions (no handler writes them), and about commands that all  *)
(* carry the proof: the rebuild has no gate, and it applies what the       *)
(* service refused for want of one.                                        *)
(*                                                                         *)
(* At the end: what is rebuilt is a sound registry at every point of the   *)
(* replay, and the report of a rebuild from everything that a steady       *)
(* service published names no mismatch.                                    *)
(***************************************************************************)
EXTENDS Rebuild, RegistryProofs, FiniteSetTheorems, SequenceTheorems

-----------------------------------------------------------------------------
(* The second instance of the registry, which the rebuild calls             *)

\* The second registry reads a table as the first does.
LEMMA SameReads ==
    ASSUME NEW table, NEW alias
    PROVE  /\ Restored!Subtree(table, alias) = Subtree(table, alias)
           /\ Restored!AtAlias(table, alias) = AtAlias(table, alias)
BY DEF Subtree, Restored!Subtree, in_subtree, Restored!in_subtree, AtAlias, Restored!AtAlias

\* It knows the same alias algebra,
LEMMA SameAliases ==
    ASSUME NEW a, NEW b, NEW c
    PROVE  /\ Restored!universe_of(a) = universe_of(a)
           /\ Restored!is_forest_root(a) <=> is_forest_root(a)
           /\ Restored!parent_alias(a) = parent_alias(a)
           /\ Restored!rewrite_alias(a, b, c) = rewrite_alias(a, b, c)
           /\ Restored!moved_child_new_prefix(a, b) = moved_child_new_prefix(a, b)
BY DEF universe_of, Restored!universe_of, is_forest_root, Restored!is_forest_root,
    parent_alias, Restored!parent_alias, rewrite_alias, Restored!rewrite_alias,
    moved_child_new_prefix, Restored!moved_child_new_prefix, LastWord, Restored!LastWord

\* the same axioms,
LEMMA SameDecodes == ASSUME NEW gt PROVE Restored!Decodes(gt) <=> Decodes(gt)
BY DEF Decodes, Restored!Decodes, ClassConsistency, Restored!ClassConsistency,
   PhysicalGNodeLocations, Restored!PhysicalGNodeLocations,
   AliasTransitionConsistency, Restored!AliasTransitionConsistency,
   AliasSuffixSemantics, Restored!AliasSuffixSemantics, HasSuffix, Restored!HasSuffix,
   LastWord, Restored!LastWord, GNodeAliasHasBody, Restored!GNodeAliasHasBody,
   BaseGNodeClass, Restored!BaseGNodeClass

\* the same writes to a table and to a ledger,
LEMMA SameWrites ==
    ASSUME NEW table, NEW owners, NEW want, NEW n
    PROVE  /\ Restored!Rename(table, want) = Rename(table, want)
           /\ Restored!claim_alias(owners, want) = claim_alias(owners, want)
           /\ Restored!CanClaim(owners, want) <=> CanClaim(owners, want)
           /\ Restored!Insert(table, n) = Insert(table, n)
           /\ Restored!Wants(n) = Wants(n)
<1>1. Restored!Rename(table, want) = Rename(table, want)
  BY Zenon DEF Rename, Restored!Rename, RenamedRow, Restored!RenamedRow
<1>2. Restored!claim_alias(owners, want) = claim_alias(owners, want)
  BY DEF claim_alias, Restored!claim_alias
<1>3. Restored!CanClaim(owners, want) <=> CanClaim(owners, want)
  BY DEF CanClaim, Restored!CanClaim
<1>4. Restored!Insert(table, n) = Insert(table, n) /\ Restored!Wants(n) = Wants(n)
  BY DEF Insert, Restored!Insert, Wants, Restored!Wants
<1> QED
  BY <1>1, <1>2, <1>3, <1>4

\* the same validation, where there are no edges and no positions,
LEMMA SameClean == ASSUME Plain, NEW table PROVE Restored!Clean(table) <=> Clean(table)
<1>1. Restored!check_universe_scope(table, Universe) <=> check_universe_scope(table, Universe)
  BY DEF check_universe_scope, Restored!check_universe_scope, universe_of, Restored!universe_of
<1>2. Restored!check_parent_closed_active(table) <=> check_parent_closed_active(table)
  BY SameReads, SameAliases DEF check_parent_closed_active, Restored!check_parent_closed_active
<1>3. Restored!check_edges_non_tree(table, {}) <=> check_edges_non_tree(table, {})
  BY DEF check_edges_non_tree, Restored!check_edges_non_tree
<1>4. Restored!check_class_hierarchy(table) <=> check_class_hierarchy(table)
  BY SameReads, SameAliases
  DEF check_class_hierarchy, Restored!check_class_hierarchy, MayBeRoot, Restored!MayBeRoot,
      MayHaveParent, Restored!MayHaveParent, COPPER_CLASSES, Restored!COPPER_CLASSES
<1>5. Restored!check_active_physical_have_position(table, {}) <=> check_active_physical_have_position(table, {})
  BY DEF check_active_physical_have_position, Restored!check_active_physical_have_position
<1> QED
  BY <1>1, <1>2, <1>3, <1>4, <1>5
  DEF Plain, Clean, Restored!Clean, validate_registry, Restored!validate_registry

\* and the same checks of a command.
LEMMA SameChecks ==
    ASSUME Plain, NEW c \in Cmd
    PROVE  /\ Restored!check_proof(c) /\ check_proof(c)
           /\ Restored!Logged(c) <=> Logged(c)
           /\ Restored!InsertFails(c.new_node) <=> InsertFails(c.new_node)
           /\ Restored!CreateRefusal(c) <=> CreateRefusal(c)
           /\ Restored!ReparentRefusal(c) <=> ReparentRefusal(c)
           /\ Restored!get_forest({c.new_node.alias}) = get_forest({c.new_node.alias})
<1> DEFINE n == c.new_node
<1>1. Restored!check_proof(c) /\ check_proof(c) /\ (Restored!Logged(c) <=> Logged(c))
  BY DEF Plain, Restored!check_proof, Logged, Restored!Logged
<1>2. \A a, i : Restored!OwnedByOther(a, i) <=> OwnedByOther(a, i)
  BY DEF OwnedByOther, Restored!OwnedByOther
<1>3. Restored!InsertFails(n) <=> InsertFails(n)
  BY <1>2, SameReads DEF Plain, InsertFails, Restored!InsertFails
<1>4. Restored!CreateRefusal(c) <=> CreateRefusal(c)
  BY <1>2, <1>3, SameReads, SameAliases, SameWrites, SameClean
  DEF CreateRefusal, Restored!CreateRefusal
<1>5. Restored!Intended(c) = Intended(c)
  BY DEF Intended, Restored!Intended, Subtree, Restored!Subtree, in_subtree, Restored!in_subtree,
     rewrite_alias, Restored!rewrite_alias, moved_child_new_prefix, Restored!moved_child_new_prefix,
     LastWord, Restored!LastWord
<1>6. Restored!AliasCollision(c) <=> AliasCollision(c)
  BY <1>2, <1>5 DEF AliasCollision, Restored!AliasCollision
<1>7. Restored!ReparentRefusal(c) <=> ReparentRefusal(c)
  BY <1>6, SameReads, SameAliases DEF ReparentRefusal, Restored!ReparentRefusal
<1>8. Restored!get_forest({n.alias}) = get_forest({n.alias})
  <2>1. \A ids, roots : Restored!Forest(nodes, roots, ids) = Forest(nodes, roots, ids)
    BY DEF Plain, Forest, Restored!Forest
  <2>2. UNION {Restored!Subtree(nodes, r) : r \in {n.alias}} = UNION {Subtree(nodes, r) : r \in {n.alias}}
    BY SameReads
  <2> QED
    BY <2>1, <2>2 DEF get_forest, Restored!get_forest
<1> QED
  BY <1>1, <1>3, <1>4, <1>7, <1>8

\* So a call of its handlers is a call of the registry's,
LEMMA SameCalls ==
    ASSUME Plain, NEW c \in Cmd
    PROVE  /\ Restored!apply_create(c) => apply_create(c)
           /\ Restored!apply_reparent(c) => apply_reparent(c)
<1>1. /\ \A v, f : Restored!End(c, v, f) <=> End(c, v, f)
      /\ Restored!tables = tables /\ Restored!txn = txn
  BY DEF End, Restored!End, tables, Restored!tables, txn, Restored!txn
<1>2. Restored!RefuseCreate(c) => RefuseCreate(c)
  BY <1>1, SameChecks
  DEF RefuseCreate, Restored!RefuseCreate, tables, Restored!tables, txn, Restored!txn
<1>3. Restored!Replay(c) => Replay(c)
  BY <1>1, SameChecks
  DEF Replay, Restored!Replay, tables, Restored!tables, txn, Restored!txn
<1>4. Restored!CommitCreate(c) => CommitCreate(c)
  BY <1>1, SameChecks, SameWrites
  DEF CommitCreate, Restored!CommitCreate, tables, Restored!tables, txn, Restored!txn
<1>5. Restored!RefuseReparent(c) => RefuseReparent(c)
  BY <1>1, SameChecks
  DEF RefuseReparent, Restored!RefuseReparent, tables, Restored!tables, txn, Restored!txn
<1>6. Restored!FailReparent(c) => FailReparent(c)
  BY <1>1, SameChecks
  DEF FailReparent, Restored!FailReparent, tables, Restored!tables, txn, Restored!txn
<1>7. Restored!BeginReparent(c) => BeginReparent(c)
  BY <1>1, SameChecks, SameWrites DEF BeginReparent, Restored!BeginReparent, tables, Restored!tables
<1> QED
  BY <1>2, <1>3, <1>4, <1>5, <1>6, <1>7
  DEF apply_create, Restored!apply_create, apply_reparent, Restored!apply_reparent

\* and so is a round of a re-parent, and its end.
LEMMA SameRounds ==
    ASSUME Plain
    PROVE  /\ Restored!RewriteChild => RewriteChild
           /\ Restored!CommitReparent => CommitReparent
<1>1. \A child : Restored!Rewritten(child) = Rewritten(child)
  BY Zenon
  DEF Rewritten, Restored!Rewritten, Subtree, Restored!Subtree, in_subtree, Restored!in_subtree,
     rewrite_alias, Restored!rewrite_alias, moved_child_new_prefix, Restored!moved_child_new_prefix,
     LastWord, Restored!LastWord
<1>2. /\ Restored!tables = tables /\ Restored!vars = vars
      /\ Restored!Close <=> Close
      /\ \A c, v, f : Restored!End(c, v, f) <=> End(c, v, f)
  BY DEF tables, Restored!tables, vars, Restored!vars, Close, Restored!Close, End, Restored!End
<1>3. \A v : Restored!Rollback(v) <=> Rollback(v)
  BY <1>2 DEF Rollback, Restored!Rollback, tables, Restored!tables
<1>4. Restored!BroadcastDecodes <=> BroadcastDecodes
  BY SameDecodes DEF BroadcastDecodes, Restored!BroadcastDecodes
<1>5. \A table, roots, ids : Restored!Forest(table, roots, ids) = Forest(table, roots, ids)
  BY DEF Plain, Forest, Restored!Forest
<1>6. Restored!RewriteChild => RewriteChild
  BY <1>1, <1>2, <1>3, SameWrites DEF RewriteChild, Restored!RewriteChild, tables, Restored!tables
<1>7. Restored!CommitReparent => CommitReparent
  BY <1>2, <1>3, <1>4, <1>5, SameClean DEF CommitReparent, Restored!CommitReparent
<1> QED
  BY <1>6, <1>7

-----------------------------------------------------------------------------
(* One command, from its call to its end, as a relation of the tables       *)
(* t = <<nodes, ledger, log>> before and u after.  The checks again, with   *)
(* the tables they read as arguments:                                       *)

Taken(owners, alias, id) == alias \in DOMAIN owners /\ owners[alias] # id

NoInsert(table, owners, n) ==
    \/ n.g_node_id \in DOMAIN table
    \/ AtAlias(table, n.alias) # {}
    \/ n.position_point_id # NULL /\ n.position_point_id \notin Positions
    \/ Taken(owners, n.alias, n.g_node_id)

NoCreate(table, owners, c) ==
    LET n == c.new_node
    IN  \/ universe_of(n.alias) # Universe
        \/ n.g_node_id \in DOMAIN table
        \/ Taken(owners, n.alias, n.g_node_id)
        \/ /\ ~is_forest_root(n.alias)
           /\ ~\E p \in AtAlias(table, parent_alias(n.alias)) :
                    table[p].status \in {"Pending", "Active"}
        \/ ~NoInsert(table, owners, n) /\ ~Clean(Insert(table, n))

Intents(table, c) ==
    LET moved == c.moved_child_g_node_ids
        entry(k, i) ==
            LET old == table[moved[k]].alias
            IN  [at    |-> k,
                 alias |-> rewrite_alias(table[i].alias, old,
                                moved_child_new_prefix(c.new_node.alias, old)),
                 id    |-> i]
    IN  UNION {{entry(k, i) : i \in Subtree(table, table[moved[k]].alias)} :
                    k \in {j \in DOMAIN moved : moved[j] \in DOMAIN table}}

Collides(table, owners, c) ==
    \/ Taken(owners, c.new_node.alias, c.new_node.g_node_id)
    \/ \E t \in Intents(table, c) :
        /\ Taken(owners, t.alias, t.id)
        /\ ~\E u \in Intents(table, c) : u.alias = t.alias /\ u.at > t.at

NoReparent(table, owners, c) ==
    LET n == c.new_node
    IN  \/ universe_of(n.alias) # Universe
        \/ is_forest_root(n.alias)
        \/ AtAlias(table, parent_alias(n.alias)) = {}
        \/ \E k \in DOMAIN c.moved_child_g_node_ids :
                c.moved_child_g_node_ids[k] \notin DOMAIN table
        \/ Collides(table, owners, c)

NewAliases(table, c, child) ==
    LET old_prefix == table[child].alias
        new_prefix == moved_child_new_prefix(c.new_node.alias, old_prefix)
    IN  [i \in Subtree(table, old_prefix) |->
            rewrite_alias(table[i].alias, old_prefix, new_prefix)]

AllDecode(table, ids) == \A i \in ids : Decodes(table[i])

\* They are the checks.
LEMMA ChecksByTables ==
    ASSUME NEW c
    PROVE  /\ InsertFails(c.new_node) <=> NoInsert(nodes, ledger, c.new_node)
           /\ CreateRefusal(c) <=> NoCreate(nodes, ledger, c)
           /\ ReparentRefusal(c) <=> NoReparent(nodes, ledger, c)
           /\ \A child : Rewritten(child) = NewAliases(txNodes, cmd, child)
           /\ BroadcastDecodes <=> AllDecode(txNodes, updated)
<1>1. InsertFails(c.new_node) <=> NoInsert(nodes, ledger, c.new_node)
  BY DEF InsertFails, NoInsert, OwnedByOther, Taken
<1>2. CreateRefusal(c) <=> NoCreate(nodes, ledger, c)
  BY <1>1 DEF CreateRefusal, NoCreate, OwnedByOther, Taken
<1>3. Intended(c) = Intents(nodes, c)
  BY DEF Intended, Intents
<1>4. AliasCollision(c) <=> Collides(nodes, ledger, c)
  BY <1>3 DEF AliasCollision, Collides, OwnedByOther, Taken
<1>5. ReparentRefusal(c) <=> NoReparent(nodes, ledger, c)
  BY <1>4 DEF ReparentRefusal, NoReparent
<1>6. \A child : Rewritten(child) = NewAliases(txNodes, cmd, child)
  BY DEF Rewritten, NewAliases
<1>7. BroadcastDecodes <=> AllDecode(txNodes, updated)
  BY DEF BroadcastDecodes, AllDecode
<1> QED
  BY <1>1, <1>2, <1>5, <1>6, <1>7

\* The transaction's copies w = <<txNodes, txLedger, updated>>: as it begins,
\* and after one more child.
Begun(t, c) ==
    <<Insert(t[1], c.new_node), claim_alias(t[2], Wants(c.new_node)), {c.new_node.g_node_id}>>

Claims(w, c, child) == CanClaim(w[2], NewAliases(w[1], c, child))

Moved(w, c, child) ==
    <<Rename(w[1], NewAliases(w[1], c, child)),
      claim_alias(w[2], NewAliases(w[1], c, child)),
      w[3] \cup DOMAIN NewAliases(w[1], c, child)>>

\* The copies of an open transaction, child by child, up to k children.
Walk(f, t, c, k) ==
    /\ f[0] = Begun(t, c)
    /\ \A j \in 1..k :
        /\ Claims(f[j - 1], c, c.moved_child_g_node_ids[j])
        /\ f[j] = Moved(f[j - 1], c, c.moved_child_g_node_ids[j])

Reaches(t, c, k, w) == k \in 0..Len(c.moved_child_g_node_ids) /\ \E f : Walk(f, t, c, k) /\ w = f[k]

\* The checks a re-parent passes before its transaction.
Opens(t, c) ==
    /\ c \in ReparentCmd /\ c \notin t[3]
    /\ ~NoReparent(t[1], t[2], c) /\ ~NoInsert(t[1], t[2], c.new_node)

\* How a transaction ends after k children.
Closes(t, c, k, w, u, v) ==
    LET moved == c.moved_child_g_node_ids
    IN  \/ k < Len(moved) /\ ~Claims(w, c, moved[k + 1]) /\ u = t /\ v = "escaped"
        \/ k = Len(moved) /\ ~Clean(w[1]) /\ u = t /\ v = "refused"
        \/ k = Len(moved) /\ Clean(w[1]) /\ ~AllDecode(w[1], w[3]) /\ u = t /\ v = "escaped"
        \/ /\ k = Len(moved) /\ Clean(w[1]) /\ AllDecode(w[1], w[3])
           /\ u = <<w[1], w[2], t[3] \cup {c}>> /\ v = "applied"

\* What a proven command does to the tables, and its verdict.
CreateSettles(t, c, u, v) ==
    /\ c \in CreateCmd /\ c \notin t[3]
    /\ \/ NoCreate(t[1], t[2], c) /\ u = t /\ v = "refused"
       \/ /\ ~NoCreate(t[1], t[2], c) /\ NoInsert(t[1], t[2], c.new_node)
          /\ u = t /\ v = "escaped"
       \/ /\ ~NoCreate(t[1], t[2], c) /\ ~NoInsert(t[1], t[2], c.new_node)
          /\ u = <<Insert(t[1], c.new_node), claim_alias(t[2], Wants(c.new_node)), t[3] \cup {c}>>
          /\ v = "applied"

ReparentSettles(t, c, u, v) ==
    /\ c \in ReparentCmd /\ c \notin t[3]
    /\ \/ NoReparent(t[1], t[2], c) /\ u = t /\ v = "refused"
       \/ /\ ~NoReparent(t[1], t[2], c) /\ NoInsert(t[1], t[2], c.new_node)
          /\ u = t /\ v = "escaped"
       \/ Opens(t, c) /\ \E k, w : Reaches(t, c, k, w) /\ Closes(t, c, k, w, u, v)

Settles(t, c, u, v) ==
    \/ c \in t[3] /\ u = t /\ v = "replayed"
    \/ CreateSettles(t, c, u, v)
    \/ ReparentSettles(t, c, u, v)

\* Two walks from one start go the same way.
LEMMA WalksAgree ==
    ASSUME NEW t, NEW c, NEW f, NEW g, NEW k \in Nat, Walk(f, t, c, k), Walk(g, t, c, k)
    PROVE  f[k] = g[k]
<1> DEFINE S == {j \in Nat : j <= k /\ f[j] # g[j]}
<1>1. SUFFICES ASSUME S # {} PROVE FALSE
  OBVIOUS
<1>2. PICK j \in S : \A i \in S : j <= i
  <2> HIDE DEF S
  <2>1. S \subseteq Nat
    BY DEF S
  <2> QED
    BY <1>1, <2>1, LeastNumber
<1>3. j # 0
  BY DEF Walk
<1>4. j - 1 \in Nat /\ j - 1 <= k /\ j - 1 < j /\ j \in 1..k
  BY <1>3
<1>5. f[j - 1] = g[j - 1]
  BY <1>2, <1>4
<1> QED
  BY <1>4, <1>5 DEF Walk

\* The first steps of a walk are a walk.
LEMMA WalkPrefix ==
    ASSUME NEW t, NEW c, NEW f, NEW k \in Nat, NEW j \in 0..k, Walk(f, t, c, k)
    PROVE  Walk(f, t, c, j)
BY DEF Walk

\* One more child is one more step.
LEMMA WalkOn ==
    ASSUME NEW t, NEW c \in ReparentCmd, NEW k, NEW w, Reaches(t, c, k, w),
           k < Len(c.moved_child_g_node_ids), Claims(w, c, c.moved_child_g_node_ids[k + 1])
    PROVE  Reaches(t, c, k + 1, Moved(w, c, c.moved_child_g_node_ids[k + 1]))
<1> DEFINE moved == c.moved_child_g_node_ids
           w2 == Moved(w, c, moved[k + 1])
<1>1. PICK f : Walk(f, t, c, k) /\ w = f[k]
  BY DEF Reaches
<1>2. moved \in Seq(GNodeId) /\ Len(moved) \in Nat /\ k \in 0..Len(moved)
  BY CmdFacts DEF Cmd, Reaches
<1> HIDE DEF moved
<1> DEFINE g == [j \in 0..(k + 1) |-> IF j = k + 1 THEN w2 ELSE f[j]]
<1>3. g[0] = f[0] /\ g[k + 1] = w2 /\ \A j \in 0..k : g[j] = f[j]
  BY <1>2
<1> HIDE DEF g
<1>4. Walk(g, t, c, k + 1)
  <2>1. ASSUME NEW j \in 1..(k + 1)
        PROVE  Claims(g[j - 1], c, moved[j]) /\ g[j] = Moved(g[j - 1], c, moved[j])
    <3>1. CASE j = k + 1
      BY <1>1, <1>2, <1>3, <3>1 DEF moved
    <3>2. CASE j \in 1..k
      BY <1>1, <1>2, <1>3, <3>2 DEF Walk, moved
    <3> QED
      BY <1>2, <3>1, <3>2
  <2> QED
    BY <1>1, <1>3, <2>1 DEF Walk, moved
<1>5. k + 1 \in 0..Len(moved)
  BY <1>2 DEF moved
<1> QED
  BY <1>3, <1>4, <1>5 DEF Reaches, moved

\* An open transaction can only end in one way.
LEMMA ClosesOnce ==
    ASSUME NEW t, NEW c \in ReparentCmd,
           NEW k1, NEW w1, NEW u1, NEW v1, Reaches(t, c, k1, w1), Closes(t, c, k1, w1, u1, v1),
           NEW k2, NEW w2, NEW u2, NEW v2, Reaches(t, c, k2, w2), Closes(t, c, k2, w2, u2, v2)
    PROVE  u1 = u2 /\ v1 = v2
<1> DEFINE moved == c.moved_child_g_node_ids
<1>1. Len(moved) \in Nat
  BY CmdFacts DEF Cmd
<1> HIDE DEF moved
<1>2. ASSUME NEW k, NEW w, NEW u, NEW v, Reaches(t, c, k, w), Closes(t, c, k, w, u, v),
             NEW j, NEW x, Reaches(t, c, j, x), j > k
      PROVE  FALSE
  <2>1. k \in Nat /\ j \in Nat /\ k < Len(moved) /\ k + 1 \in 1..j /\ (k + 1) - 1 = k /\ k \in 0..j
    BY <1>1, <1>2 DEF Reaches, moved
  <2>2. ~Claims(w, c, moved[k + 1])
    BY <1>1, <1>2, <2>1 DEF Closes, moved
  <2>3. PICK f : Walk(f, t, c, k) /\ w = f[k]
    BY <1>2 DEF Reaches
  <2>4. PICK g : Walk(g, t, c, j)
    BY <1>2 DEF Reaches
  <2>5. Claims(g[k], c, moved[k + 1])
    <3>1. Claims(g[(k + 1) - 1], c, c.moved_child_g_node_ids[k + 1])
      BY <2>1, <2>4 DEF Walk
    <3> QED
      BY <2>1, <3>1 DEF moved
  <2>6. f[k] = g[k]
    BY <2>1, <2>3, <2>4, WalkPrefix, WalksAgree
  <2> QED
    BY <2>2, <2>3, <2>5, <2>6
<1>3. k1 \in Nat /\ k2 \in Nat
  BY <1>1 DEF Reaches, moved
<1>4. k1 = k2
  <2>1. ~(k2 > k1)
    BY <1>2
  <2>2. ~(k1 > k2)
    BY <1>2
  <2> QED
    BY <1>3, <2>1, <2>2
<1>5. w1 = w2
  <2>1. PICK f : Walk(f, t, c, k1) /\ w1 = f[k1]
    BY DEF Reaches
  <2>2. PICK g : Walk(g, t, c, k1) /\ w2 = g[k1]
    BY <1>4 DEF Reaches
  <2> QED
    BY <1>3, <2>1, <2>2, WalksAgree
<1>6. CASE k1 < Len(moved)
  <2>1. k1 # Len(moved)
    BY <1>1, <1>3, <1>6
  <2>2. u1 = t /\ v1 = "escaped"
    BY <2>1 DEF Closes, moved
  <2>3. u2 = t /\ v2 = "escaped"
    BY <1>4, <2>1 DEF Closes, moved
  <2> QED
    BY <2>2, <2>3
<1>7. CASE ~(k1 < Len(moved))
  BY <1>4, <1>5, <1>7 DEF Closes, moved
<1> QED
  BY <1>6, <1>7

\* A proven command does one thing to given tables (deterministic apply).
LEMMA SettlesOnce ==
    ASSUME NEW t, NEW c \in Cmd, NEW u1, NEW v1, Settles(t, c, u1, v1),
           NEW u2, NEW v2, Settles(t, c, u2, v2)
    PROVE  u1 = u2 /\ v1 = v2
<1>1. CASE c \in t[3]
  BY <1>1 DEF Settles, CreateSettles, ReparentSettles
<1>2. CASE c \notin t[3] /\ c \in CreateCmd
  <2>1. c \notin ReparentCmd
    BY <1>2, CmdFacts
  <2> QED
    BY <1>2, <2>1 DEF Settles, CreateSettles, ReparentSettles
<1>3. CASE c \notin t[3] /\ c \in ReparentCmd
  <2>1. c \notin CreateCmd
    BY <1>3, CmdFacts
  <2>2. ReparentSettles(t, c, u1, v1) /\ ReparentSettles(t, c, u2, v2)
    BY <1>3, <2>1 DEF Settles, CreateSettles
  <2>3. CASE ~Opens(t, c)
    BY <2>2, <2>3 DEF ReparentSettles
  <2>4. CASE Opens(t, c)
    <3>1. PICK k1, w1 : Reaches(t, c, k1, w1) /\ Closes(t, c, k1, w1, u1, v1)
      BY <2>2, <2>4 DEF ReparentSettles, Opens
    <3>2. PICK k2, w2 : Reaches(t, c, k2, w2) /\ Closes(t, c, k2, w2, u2, v2)
      BY <2>2, <2>4 DEF ReparentSettles, Opens
    <3> QED
      BY <1>3, <3>1, <3>2, ClosesOnce
  <2> QED
    BY <2>3, <2>4
<1> QED
  BY <1>1, <1>2, <1>3 DEF Cmd

\* What is written is logged.
LEMMA SettledIsLogged ==
    ASSUME NEW t, NEW c, NEW u, NEW v, Settles(t, c, u, v)
    PROVE  u = t \/ (v = "applied" /\ c \in u[3])
<1>1. ASSUME ReparentSettles(t, c, u, v) PROVE u = t \/ (v = "applied" /\ c \in u[3])
  <2>1. CASE \E k, w : Closes(t, c, k, w, u, v)
    BY <2>1 DEF Closes
  <2>2. CASE ~\E k, w : Closes(t, c, k, w, u, v)
    BY <1>1, <2>2 DEF ReparentSettles
  <2> QED
    BY <2>1, <2>2
<1>2. ASSUME CreateSettles(t, c, u, v) PROVE u = t \/ (v = "applied" /\ c \in u[3])
  BY <1>2 DEF CreateSettles
<1> QED
  BY <1>1, <1>2 DEF Settles

-----------------------------------------------------------------------------
(* The handlers settle their commands                                       *)

\* Nothing is lost, and a registry without rows is one that nobody wrote to.
Grows(t, u) == Extends(u[2], t[2]) /\ (DOMAIN u[1] = {} => u = t)

\* An open transaction of c with children td still to rewrite.
OpenAt(t, c, w, td) ==
    /\ Opens(t, c) /\ td \in Seq(GNodeId)
    /\ \E k : /\ Reaches(t, c, k, w) /\ Len(td) = Len(c.moved_child_g_node_ids) - k
              /\ \A j \in 1..Len(td) : td[j] = c.moved_child_g_node_ids[k + j]
    /\ Extends(w[2], t[2]) /\ DOMAIN w[1] # {}

\* Where a step on behalf of c leads from the tables t: into a transaction
\* (p = "rewriting"), or to tables u and a verdict v.
Goes(t, c, u, p, d, w, td, v) ==
    \/ p = "rewriting" /\ u = t /\ d = c /\ OpenAt(t, c, w, td)
    \/ p = "idle" /\ Settles(t, c, u, v) /\ Grows(t, u)

Steps(c) ==
    Goes(tables, c, tables', pc', cmd', <<txNodes', txLedger', updated'>>, todo', result'.verdict)

\* A claim adds entries and changes none.
LEMMA ClaimExtends == ASSUME NEW owners, NEW want PROVE Extends(claim_alias(owners, want), owners)
BY DEF Extends, claim_alias

\* A registry that is as it was has lost nothing.
LEMMA SameGrows == ASSUME NEW t PROVE Grows(t, t)
BY DEF Grows, Extends

\* A create settles its command,
LEMMA CreateGoes ==
    ASSUME Plain, NEW c \in CreateCmd, apply_create(c)
    PROVE  Steps(c)
<1> DEFINE v == result'.verdict
<1>1. check_proof(c) /\ c \notin ReparentCmd /\ c \in Cmd
  BY CmdFacts DEF Plain, Cmd
<1>2. /\ InsertFails(c.new_node) <=> NoInsert(nodes, ledger, c.new_node)
      /\ CreateRefusal(c) <=> NoCreate(nodes, ledger, c)
  BY ChecksByTables
<1>3. pc' = "idle"
  BY DEF apply_create, RefuseCreate, CommitCreate, Replay, txn
<1>4. CASE RefuseCreate(c)
  <2>1. tables' = tables /\ v = "refused" /\ c \notin log /\ NoCreate(nodes, ledger, c)
    BY <1>1, <1>2, <1>4 DEF RefuseCreate, End, Logged
  <2>2. Settles(tables, c, tables', v)
    BY <2>1 DEF Settles, CreateSettles, tables
  <2> QED
    BY <1>3, <2>1, <2>2, SameGrows DEF Steps, Goes
<1>5. CASE Replay(c)
  <2>1. tables' = tables /\ v = "replayed" /\ c \in log
    BY <1>5 DEF Replay, End, Logged
  <2>2. Settles(tables, c, tables', v)
    BY <2>1 DEF Settles, tables
  <2> QED
    BY <1>3, <2>1, <2>2, SameGrows DEF Steps, Goes
<1>6. CASE CommitCreate(c) /\ InsertFails(c.new_node)
  <2>1. /\ tables' = tables /\ v = "escaped" /\ c \notin log
        /\ ~NoCreate(nodes, ledger, c) /\ NoInsert(nodes, ledger, c.new_node)
    BY <1>1, <1>2, <1>6 DEF CommitCreate, End, Logged
  <2>2. Settles(tables, c, tables', v)
    BY <2>1 DEF Settles, CreateSettles, tables
  <2> QED
    BY <1>3, <2>1, <2>2, SameGrows DEF Steps, Goes
<1>7. CASE CommitCreate(c) /\ ~InsertFails(c.new_node)
  <2>1. /\ v = "applied" /\ c \notin log
        /\ ~NoCreate(nodes, ledger, c) /\ ~NoInsert(nodes, ledger, c.new_node)
        /\ nodes' = Insert(nodes, c.new_node)
        /\ ledger' = claim_alias(ledger, Wants(c.new_node))
        /\ log' = log \cup {c}
    BY <1>1, <1>2, <1>7 DEF CommitCreate, End, Logged
  <2>2. Settles(tables, c, tables', v)
    BY <2>1 DEF Settles, CreateSettles, tables
  <2>3. DOMAIN nodes' # {}
    BY <2>1 DEF Insert
  <2>4. Grows(tables, tables')
    BY <2>1, <2>3, ClaimExtends DEF Grows, tables
  <2> QED
    BY <1>3, <2>2, <2>4 DEF Steps, Goes
<1> QED
  BY <1>4, <1>5, <1>6, <1>7 DEF apply_create

\* a re-parent settles it or opens a transaction,
LEMMA ReparentGoes ==
    ASSUME Plain, NEW c \in ReparentCmd, apply_reparent(c)
    PROVE  Steps(c)
<1> DEFINE v == result'.verdict
<1>1. check_proof(c) /\ c \notin CreateCmd /\ c \in Cmd /\ c.moved_child_g_node_ids \in Seq(GNodeId)
  BY CmdFacts DEF Plain, Cmd
<1>2. /\ InsertFails(c.new_node) <=> NoInsert(nodes, ledger, c.new_node)
      /\ ReparentRefusal(c) <=> NoReparent(nodes, ledger, c)
  BY ChecksByTables
<1>3. CASE RefuseReparent(c)
  <2>1. pc' = "idle" /\ tables' = tables /\ v = "refused" /\ c \notin log /\ NoReparent(nodes, ledger, c)
    BY <1>1, <1>2, <1>3 DEF RefuseReparent, End, Logged, txn
  <2>2. Settles(tables, c, tables', v)
    BY <2>1 DEF Settles, ReparentSettles, tables
  <2> QED
    BY <2>1, <2>2, SameGrows DEF Steps, Goes
<1>4. CASE Replay(c)
  <2>1. pc' = "idle" /\ tables' = tables /\ v = "replayed" /\ c \in log
    BY <1>4 DEF Replay, End, Logged, txn
  <2>2. Settles(tables, c, tables', v)
    BY <2>1 DEF Settles, tables
  <2> QED
    BY <2>1, <2>2, SameGrows DEF Steps, Goes
<1>5. CASE FailReparent(c)
  <2>1. /\ pc' = "idle" /\ tables' = tables /\ v = "escaped" /\ c \notin log
        /\ ~NoReparent(nodes, ledger, c) /\ NoInsert(nodes, ledger, c.new_node)
    BY <1>1, <1>2, <1>5 DEF FailReparent, End, Logged, txn
  <2>2. Settles(tables, c, tables', v)
    BY <2>1 DEF Settles, ReparentSettles, tables
  <2> QED
    BY <2>1, <2>2, SameGrows DEF Steps, Goes
<1>6. CASE BeginReparent(c)
  <2> DEFINE w == <<txNodes', txLedger', updated'>>
  <2>1. /\ pc' = "rewriting" /\ tables' = tables /\ cmd' = c /\ c \notin log
        /\ ~NoReparent(nodes, ledger, c) /\ ~NoInsert(nodes, ledger, c.new_node)
        /\ todo' = c.moved_child_g_node_ids
    BY <1>1, <1>2, <1>6 DEF BeginReparent, Logged
  <2>2. w = Begun(tables, c)
    BY <1>6 DEF BeginReparent, Begun, tables
  <2>3. Opens(tables, c)
    BY <2>1 DEF Opens, tables
  <2>4. Reaches(tables, c, 0, w)
    <3>1. Walk([j \in {0} |-> w], tables, c, 0)
      BY <2>2 DEF Walk
    <3>2. 0 \in 0..Len(c.moved_child_g_node_ids)
      BY <1>1
    <3>3. [j \in {0} |-> w][0] = w
      OBVIOUS
    <3> QED
      BY <3>1, <3>2, <3>3 DEF Reaches
  <2>5. /\ Len(todo') = Len(c.moved_child_g_node_ids) - 0
        /\ \A j \in 1..Len(todo') : todo'[j] = c.moved_child_g_node_ids[0 + j]
    BY <1>1, <2>1
  <2>6. Extends(w[2], tables[2]) /\ DOMAIN w[1] # {}
    BY <2>2, ClaimExtends DEF Begun, Insert, tables
  <2> HIDE DEF w
  <2>7. OpenAt(tables, c, w, todo')
    BY <1>1, <2>1, <2>3, <2>4, <2>5, <2>6 DEF OpenAt
  <2> QED
    BY <2>1, <2>7 DEF Steps, Goes, w
<1> QED
  BY <1>3, <1>4, <1>5, <1>6 DEF apply_reparent

\* a round rewrites one more child or rolls the transaction back,
LEMMA RoundGoes ==
    ASSUME NEW c, cmd = c, OpenAt(tables, c, <<txNodes, txLedger, updated>>, todo), RewriteChild
    PROVE  Steps(c)
<1> DEFINE w == <<txNodes, txLedger, updated>>
           moved == c.moved_child_g_node_ids
           L == Len(moved)
           v == result'.verdict
<1>1. c \in ReparentCmd /\ Opens(tables, c) /\ todo \in Seq(GNodeId)
  BY DEF OpenAt, Opens
<1>2. moved \in Seq(GNodeId) /\ L \in Nat
  BY <1>1, CmdFacts DEF Cmd
<1>3. Extends(w[2], tables[2]) /\ DOMAIN w[1] # {}
  BY DEF OpenAt
<1>4. PICK k : /\ Reaches(tables, c, k, w) /\ Len(todo) = L - k
               /\ \A j \in 1..Len(todo) : todo[j] = moved[k + j]
  BY DEF OpenAt
<1>5. k \in Nat /\ k <= L
  BY <1>2, <1>4 DEF Reaches
<1>6. todo # <<>> /\ Head(todo) = todo[1] /\ Len(todo) \in Nat \ {0}
  BY <1>1 DEF RewriteChild
<1> DEFINE n == Len(todo)
<1>7. n \in Nat \ {0} /\ n = L - k
  BY <1>4, <1>6
<1>8. k < L /\ Head(todo) = moved[k + 1]
  <2>1. 1 \in 1..n
    <3> HIDE DEF n
    <3> QED
      BY <1>7
  <2>2. todo[1] = moved[k + 1]
    BY <1>4, <2>1
  <2>3. k < L
    <3> HIDE DEF n, L
    <3> QED
      BY <1>2, <1>5, <1>7
  <2> QED
    BY <1>6, <2>2, <2>3
<1> DEFINE want == NewAliases(txNodes, c, Head(todo))
<1>9. Rewritten(Head(todo)) = want
  BY ChecksByTables
<1>10. CASE ~CanClaim(txLedger, want)
  <2>1. Rollback("escaped")
    BY <1>9, <1>10 DEF RewriteChild
  <2>2. pc' = "idle" /\ tables' = tables /\ v = "escaped"
    BY <2>1 DEF Rollback, Close, End, tables
  <2>3. ~Claims(w, c, moved[k + 1])
    BY <1>8, <1>10 DEF Claims
  <2>4. Closes(tables, c, k, w, tables', v)
    BY <1>8, <2>2, <2>3 DEF Closes
  <2> HIDE DEF w, v
  <2>5. Settles(tables, c, tables', v)
    BY <1>1, <1>4, <2>4 DEF Settles, ReparentSettles, Opens
  <2> QED
    BY <2>2, <2>5, SameGrows DEF Steps, Goes, v
<1>11. CASE CanClaim(txLedger, want)
  <2> DEFINE x == <<txNodes', txLedger', updated'>>
  <2>1. /\ txNodes' = Rename(txNodes, want) /\ txLedger' = claim_alias(txLedger, want)
        /\ updated' = updated \cup DOMAIN want /\ todo' = Tail(todo)
        /\ pc' = "rewriting" /\ tables' = tables /\ cmd' = c
    BY <1>9, <1>11 DEF RewriteChild
  <2>2. Claims(w, c, moved[k + 1]) /\ x = Moved(w, c, moved[k + 1])
    BY <1>8, <1>11, <2>1 DEF Claims, Moved
  <2>3. Reaches(tables, c, k + 1, x)
    <3>1. Reaches(tables, c, k + 1, Moved(w, c, moved[k + 1]))
      <4> HIDE DEF w
      <4> QED
        BY <1>1, <1>4, <1>8, <2>2, WalkOn
    <3> QED
      BY <2>2, <3>1
  <2>4. Extends(x[2], tables[2])
    BY <1>3, <2>1, ClaimExtends DEF Extends
  <2>5. DOMAIN x[1] # {}
    BY <1>3, <2>1 DEF Rename
  <2>6. todo' \in Seq(GNodeId) /\ Len(todo') = n - 1 /\ \A j \in 1..Len(todo') : todo'[j] = todo[j + 1]
    BY <1>1, <1>6, <2>1, HeadTailProperties
  <2>7. Len(todo') = L - (k + 1)
    <3> HIDE DEF n, L
    <3> QED
      BY <1>2, <1>5, <1>7, <2>6
  <2>8. ASSUME NEW j \in 1..Len(todo') PROVE todo'[j] = moved[(k + 1) + j]
    <3>1. j \in Nat /\ j + 1 \in 1..n /\ k + (j + 1) = (k + 1) + j
      <4> HIDE DEF n
      <4> QED
        BY <1>5, <1>7, <2>6, <2>8
    <3>2. todo[j + 1] = moved[k + (j + 1)]
      BY <1>4, <3>1
    <3> QED
      BY <2>6, <2>8, <3>1, <3>2
  <2> HIDE DEF x
  <2>9. OpenAt(tables, c, x, todo')
    BY <1>1, <2>3, <2>4, <2>5, <2>6, <2>7, <2>8 DEF OpenAt
  <2> QED
    BY <2>1, <2>9 DEF Steps, Goes, x
<1> QED
  BY <1>10, <1>11

\* and its end validates, decodes and commits, or rolls it back.
LEMMA CommitGoes ==
    ASSUME NEW c, cmd = c, OpenAt(tables, c, <<txNodes, txLedger, updated>>, todo), CommitReparent
    PROVE  Steps(c)
<1> DEFINE w == <<txNodes, txLedger, updated>>
           moved == c.moved_child_g_node_ids
           L == Len(moved)
           v == result'.verdict
<1>1. c \in ReparentCmd /\ Opens(tables, c)
  BY DEF OpenAt, Opens
<1>2. L \in Nat
  BY <1>1, CmdFacts DEF Cmd
<1>3. Extends(w[2], tables[2]) /\ DOMAIN w[1] # {}
  BY DEF OpenAt
<1>4. PICK k : Reaches(tables, c, k, w) /\ Len(todo) = L - k
  BY DEF OpenAt
<1>5. k = L
  <2>1. k \in Nat /\ Len(todo) = 0
    BY <1>2, <1>4 DEF Reaches, CommitReparent
  <2> HIDE DEF L
  <2> QED
    BY <1>2, <1>4, <2>1
<1>6. BroadcastDecodes <=> AllDecode(txNodes, updated)
  BY ChecksByTables
<1>7. ASSUME Closes(tables, c, k, w, tables', v), Grows(tables, tables'), pc' = "idle" PROVE Steps(c)
  <2> HIDE DEF w, v
  <2>1. Settles(tables, c, tables', v)
    BY <1>1, <1>4, <1>7 DEF Settles, ReparentSettles, Opens
  <2> QED
    BY <1>7, <2>1 DEF Steps, Goes, v
<1>8. CASE ~Clean(txNodes)
  <2>1. Rollback("refused")
    BY <1>8 DEF CommitReparent
  <2>2. pc' = "idle" /\ tables' = tables /\ v = "refused"
    BY <2>1 DEF Rollback, Close, End, tables
  <2>3. Closes(tables, c, k, w, tables', v)
    BY <1>5, <1>8, <2>2 DEF Closes
  <2> QED
    BY <1>7, <2>2, <2>3, SameGrows
<1>9. CASE Clean(txNodes) /\ ~BroadcastDecodes
  <2>1. Rollback("escaped")
    BY <1>9 DEF CommitReparent
  <2>2. pc' = "idle" /\ tables' = tables /\ v = "escaped"
    BY <2>1 DEF Rollback, Close, End, tables
  <2>3. Closes(tables, c, k, w, tables', v)
    BY <1>5, <1>6, <1>9, <2>2 DEF Closes
  <2> QED
    BY <1>7, <2>2, <2>3, SameGrows
<1>10. CASE Clean(txNodes) /\ BroadcastDecodes
  <2>1. /\ nodes' = txNodes /\ ledger' = txLedger /\ log' = log \cup {c}
        /\ pc' = "idle" /\ v = "applied"
    BY <1>10 DEF CommitReparent, Close, End
  <2>2. tables' = <<w[1], w[2], tables[3] \cup {c}>>
    BY <2>1 DEF tables
  <2>3. Closes(tables, c, k, w, tables', v)
    BY <1>5, <1>6, <1>10, <2>1, <2>2 DEF Closes
  <2>4. Grows(tables, tables')
    BY <1>3, <2>1 DEF Grows, tables
  <2> QED
    BY <1>7, <2>1, <2>3, <2>4
<1> QED
  BY <1>8, <1>9, <1>10

-----------------------------------------------------------------------------
(* What the ear hears                                                       *)

IsCommand(o) == o.type_name \in {CREATE_CMD, REPARENT_CMD}

\* The name of the n-th object of the store, and the object, as Stored makes it.
Slot(n) == [persisted_ms |-> n \div PerMs, seq |-> (n % PerMs) + 1]

Heard(n, type_name, body) ==
    [persisted_ms |-> Slot(n).persisted_ms, seq |-> Slot(n).seq,
     type_name |-> type_name, body |-> body]

\* The objects of a store are in the order of their arrival, and the next one
\* comes after them all.
InOrder(store) ==
    /\ IsFiniteSet(store)
    /\ \A o \in store : o.persisted_ms \in Nat /\ o.seq \in Nat
    /\ \A o, p \in store : o = p \/ Before(o, p) \/ Before(p, o)
    /\ \A o \in store : Before(o, Slot(Cardinality(store)))

\* name says which object each command of Q is in.
Names(name, Q, store) ==
    /\ \A i \in 1..Len(Q) :
        name[i] \in store /\ name[i].type_name = Q[i].type_name /\ name[i].body = Q[i]
    /\ \A i, j \in 1..Len(Q) : i < j => Before(name[i], name[j])
    /\ \A o \in store : IsCommand(o) => \E i \in 1..Len(Q) : o = name[i]

\* The store holds the commands Q in their order, and no other command.
Recorded(Q, store) == InOrder(store) /\ \E name : Names(name, Q, store)

\* The quotient and the remainder of a count, and of the next one.
LEMMA NextCount ==
    ASSUME NEW n \in Nat
    PROVE  /\ n \div PerMs \in Nat
           /\ n % PerMs \in 0..(PerMs - 1) /\ (n + 1) % PerMs \in 0..(PerMs - 1)
           /\ \/ n \div PerMs < (n + 1) \div PerMs
              \/ (n \div PerMs = (n + 1) \div PerMs /\ n % PerMs < (n + 1) % PerMs)
<1>1. PerMs \in Nat \ {0}
  BY RebuildAssumption
<1> DEFINE d(k) == k \div PerMs
           m(k) == k % PerMs
<1>2. \A k \in Nat : d(k) \in Nat /\ m(k) \in 0..(PerMs - 1)
  BY SMT, <1>1
<1>3. \A k \in Nat : k = PerMs * d(k) + m(k)
  BY SMT, <1>1
<1>4. \A e, g \in Nat : \A r, s \in 0..(PerMs - 1) :
        n = PerMs * e + r /\ n + 1 = PerMs * g + s => e < g \/ (e = g /\ r < s)
  BY SMT, <1>1
<1> HIDE DEF d, m
<1>5. d(n) \in Nat /\ d(n + 1) \in Nat /\ m(n) \in 0..(PerMs - 1) /\ m(n + 1) \in 0..(PerMs - 1)
  BY SMT, <1>2
<1>6. n = PerMs * d(n) + m(n) /\ n + 1 = PerMs * d(n + 1) + m(n + 1)
  BY SMT, <1>3
<1>7. d(n) < d(n + 1) \/ (d(n) = d(n + 1) /\ m(n) < m(n + 1))
  BY SMT, <1>4, <1>5, <1>6
<1> QED
  BY SMT, <1>5, <1>7 DEF d, m

\* The names of the objects follow their arrival: the counter starts again
\* with every millisecond.
LEMMA NextName ==
    ASSUME NEW n \in Nat
    PROVE  Slot(n).persisted_ms \in Nat /\ Slot(n).seq \in Nat /\ Before(Slot(n), Slot(n + 1))
<1> DEFINE d(k) == k \div PerMs
           m(k) == k % PerMs
<1>1. PerMs \in Nat \ {0}
  BY RebuildAssumption
<1>2. /\ d(n) \in Nat /\ m(n) \in 0..(PerMs - 1) /\ m(n + 1) \in 0..(PerMs - 1)
      /\ d(n) < d(n + 1) \/ (d(n) = d(n + 1) /\ m(n) < m(n + 1))
  BY SMT, NextCount
<1>3. /\ Slot(n).persisted_ms = d(n) /\ Slot(n).seq = m(n) + 1
      /\ Slot(n + 1).persisted_ms = d(n + 1) /\ Slot(n + 1).seq = m(n + 1) + 1
  BY SMT DEF Slot
<1> HIDE DEF d, m
<1> QED
  BY SMT, <1>1, <1>2, <1>3 DEF Before

\* The object o is what the ear adds to a store.
Arrives(store, type_name, body, o) ==
    /\ Stored(store, type_name, body) = store \cup {o}
    /\ o.type_name = type_name /\ o.body = body
    /\ \A p \in store : Before(p, o)
    /\ InOrder(store \cup {o})

\* An object that arrives comes after all that are there.
LEMMA StoredInOrder ==
    ASSUME NEW store, NEW type_name, NEW body, InOrder(store)
    PROVE  Arrives(store, type_name, body, Heard(Cardinality(store), type_name, body))
<1> DEFINE N == Cardinality(store)
           o == Heard(N, type_name, body)
           new == store \cup {o}
<1>1. N \in Nat /\ IsFiniteSet(store)
  BY FS_CardinalityType DEF InOrder
<1>2. o.type_name = type_name /\ o.body = body
  BY DEF Heard
<1>3. o.persisted_ms = Slot(N).persisted_ms /\ o.seq = Slot(N).seq
  BY DEF Heard
<1>4. Stored(store, type_name, body) = new
  BY DEF Stored, Heard, Slot
<1> HIDE DEF o
<1>5. Slot(N).persisted_ms \in Nat /\ Slot(N).seq \in Nat /\ Before(Slot(N), Slot(N + 1))
  BY <1>1, NextName
<1>6. /\ \A p \in store : Before(p, Slot(N)) /\ p.persisted_ms \in Nat /\ p.seq \in Nat
      /\ \A p, q \in store : p = q \/ Before(p, q) \/ Before(q, p)
  BY DEF InOrder
<1>7. \A p \in store : Before(p, o)
  BY <1>3, <1>6 DEF Before
<1>8. o.persisted_ms \in Nat /\ o.seq \in Nat /\ ~Before(o, o)
  BY <1>3, <1>5 DEF Before
<1>9. o \notin store
  BY <1>7, <1>8
<1>10. IsFiniteSet(new) /\ Cardinality(new) = N + 1
  BY <1>1, <1>9, FS_AddElement
<1>11. Slot(N + 1).persisted_ms \in Nat /\ Slot(N + 1).seq \in Nat
  BY <1>1, NextName
<1>12. \A p \in new : Before(p, Slot(N + 1))
  BY <1>3, <1>5, <1>6, <1>11 DEF Before
<1>13. InOrder(new)
  BY <1>6, <1>7, <1>8, <1>10, <1>12 DEF InOrder
<1> QED
  BY <1>2, <1>4, <1>7, <1>13 DEF o, Arrives

\* A sequence of the story, or a map of its places, with x in one more place.
Prolonged(f, n, x) == [j \in 0..n |-> IF j = n THEN x ELSE f[j]]

\* The new place has x and the others are as they were.
LEMMA ProlongedFacts ==
    ASSUME NEW f, NEW x, NEW n \in Nat
    PROVE  /\ Prolonged(f, n + 1, x)[n + 1] = x
           /\ \A j \in 0..n : Prolonged(f, n + 1, x)[j] = f[j]
BY DEF Prolonged

\* A broadcast or a verdict that the ear stores is no command.
LEMMA OtherHeard ==
    ASSUME NEW Q, NEW store, Recorded(Q, store), NEW type_name, NEW body,
           type_name \notin {CREATE_CMD, REPARENT_CMD}
    PROVE  Recorded(Q, Stored(store, type_name, body))
<1> DEFINE o == Heard(Cardinality(store), type_name, body)
<1>1. /\ Stored(store, type_name, body) = store \cup {o}
      /\ o.type_name = type_name /\ InOrder(store \cup {o})
  <2>1. InOrder(store)
    BY DEF Recorded
  <2>2. Arrives(store, type_name, body, o)
    BY <2>1, StoredInOrder
  <2> QED
    BY <2>2 DEF Arrives
<1> HIDE DEF o
<1> QED
  BY <1>1 DEF Recorded, Names, IsCommand

\* A command that the ear stores gets the name after those that are there.
LEMMA CommandNamed ==
    ASSUME NEW Q \in Seq(Cmd), NEW store, InOrder(store), NEW name, Names(name, Q, store),
           NEW c \in Cmd, NEW o, Arrives(store, c.type_name, c, o)
    PROVE  Names(Prolonged(name, Len(Q) + 1, o), Append(Q, c), store \cup {o})
<1> DEFINE n == Len(Q)
           Q2 == Append(Q, c)
           name2 == Prolonged(name, n + 1, o)
<1>1. o.type_name = c.type_name /\ o.body = c /\ \A p \in store : Before(p, o)
  BY DEF Arrives
<1>3. n \in Nat /\ Len(Q2) = n + 1 /\ Q2[n + 1] = c /\ \A i \in 1..n : Q2[i] = Q[i]
  OBVIOUS
<1>4. name2[n + 1] = o /\ \A i \in 1..n : name2[i] = name[i]
  BY <1>3, ProlongedFacts
<1>5. /\ \A i \in 1..n : name[i] \in store /\ name[i].type_name = Q[i].type_name /\ name[i].body = Q[i]
      /\ \A i, j \in 1..n : i < j => Before(name[i], name[j])
      /\ \A p \in store : IsCommand(p) => \E i \in 1..n : p = name[i]
  BY DEF Names
<1> HIDE DEF n, Q2, name2
<1>6. \A i \in 1..(n + 1) : i = n + 1 \/ i \in 1..n
  BY <1>3
<1>7. n + 1 \in 1..(n + 1) /\ \A i \in 1..n : i \in 1..(n + 1)
  BY <1>3
<1>8. \A i \in 1..(n + 1) : /\ name2[i] \in store \cup {o}
                            /\ name2[i].type_name = Q2[i].type_name /\ name2[i].body = Q2[i]
  BY <1>1, <1>3, <1>4, <1>5, <1>6
<1>9. \A i, j \in 1..(n + 1) : i < j => Before(name2[i], name2[j])
  <2> SUFFICES ASSUME NEW i \in 1..(n + 1), NEW j \in 1..(n + 1), i < j
               PROVE  Before(name2[i], name2[j])
    OBVIOUS
  <2>1. i \in 1..n
    BY <1>3
  <2>2. CASE j = n + 1
    BY <1>1, <1>4, <1>5, <2>1, <2>2
  <2>3. CASE j \in 1..n
    BY <1>4, <1>5, <2>1, <2>3
  <2> QED
    BY <1>6, <2>2, <2>3
<1>10. \A p \in store \cup {o} : IsCommand(p) => \E i \in 1..(n + 1) : p = name2[i]
  BY <1>4, <1>5, <1>7
<1>11. Names(name2, Q2, store \cup {o})
  BY <1>3, <1>8, <1>9, <1>10 DEF Names
<1> QED
  BY <1>11 DEF Q2, n, name2

\* It is the last one of those the ear has.
LEMMA CommandHeard ==
    ASSUME NEW Q \in Seq(Cmd), NEW store, Recorded(Q, store), NEW c \in Cmd
    PROVE  Recorded(Append(Q, c), Stored(store, c.type_name, c))
<1> DEFINE o == Heard(Cardinality(store), c.type_name, c)
<1>1. Arrives(store, c.type_name, c, o)
  BY StoredInOrder DEF Recorded
<1> HIDE DEF o
<1>2. PICK name : Names(name, Q, store)
  BY DEF Recorded
<1>3. Names(Prolonged(name, Len(Q) + 1, o), Append(Q, c), store \cup {o})
  BY <1>1, <1>2, CommandNamed DEF Recorded
<1> QED
  BY <1>1, <1>3 DEF Recorded, Arrives

\* The objects S in their order: the rank of an object is the number of those
\* before it.
Rank(o, S) == Cardinality({p \in S : Before(p, o)})

Sorted(S) == [k \in 1..Cardinality(S) |-> CHOOSE o \in S : Rank(o, S) = k - 1]

\* Distinct objects of a finite set, of which one is the earlier.
Comparable(S) ==
    /\ IsFiniteSet(S)
    /\ \A o \in S : o.persisted_ms \in Nat /\ o.seq \in Nat
    /\ \A o, p \in S : o = p \/ Before(o, p) \/ Before(p, o)

\* An earlier object has a smaller rank, and no rank reaches their number.
LEMMA RanksRise ==
    ASSUME NEW S, Comparable(S)
    PROVE  /\ Cardinality(S) \in Nat
           /\ \A o \in S : Rank(o, S) \in Nat /\ Rank(o, S) < Cardinality(S)
           /\ \A o, p \in S : Before(o, p) => Rank(o, S) < Rank(p, S)
<1> DEFINE Preds(o) == {p \in S : Before(p, o)}
<1>1. IsFiniteSet(S) /\ Cardinality(S) \in Nat
  BY FS_CardinalityType DEF Comparable
<1>2. ASSUME NEW T \in SUBSET S, NEW R \in SUBSET T, R # T
      PROVE  Cardinality(R) \in Nat /\ Cardinality(T) \in Nat /\ Cardinality(R) < Cardinality(T)
  <2>1. IsFiniteSet(T)
    BY <1>1, FS_Subset
  <2>2. IsFiniteSet(R) /\ Cardinality(R) <= Cardinality(T) /\ Cardinality(R) # Cardinality(T)
    BY <1>2, <2>1, FS_Subset
  <2>3. Cardinality(R) \in Nat /\ Cardinality(T) \in Nat
    BY <2>1, <2>2, FS_CardinalityType
  <2> QED
    BY <2>2, <2>3
<1>3. \A o \in S : ~Before(o, o)
  BY DEF Comparable, Before
<1>4. ASSUME NEW o \in S
      PROVE  Rank(o, S) \in Nat /\ Rank(o, S) < Cardinality(S)
  <2>1. Preds(o) \in SUBSET S /\ Preds(o) # S
    BY <1>3
  <2> QED
    BY <1>2, <2>1 DEF Rank
<1>5. ASSUME NEW o \in S, NEW p \in S, Before(o, p)
      PROVE  Rank(o, S) < Rank(p, S)
  <2>1. \A q \in S : Before(q, o) => Before(q, p)
    BY <1>5 DEF Comparable, Before
  <2>2. Preds(o) \in SUBSET Preds(p) /\ Preds(o) # Preds(p) /\ Preds(p) \in SUBSET S
    BY <1>3, <1>5, <2>1
  <2> QED
    BY <1>2, <2>2 DEF Rank
<1> QED
  BY <1>1, <1>4, <1>5

\* Every rank is taken, so the sorted list has all the objects, in order.
LEMMA SortedFacts ==
    ASSUME NEW S, Comparable(S)
    PROVE  /\ Cardinality(S) \in Nat /\ Len(Sorted(S)) = Cardinality(S)
           /\ \A k \in 1..Cardinality(S) : Sorted(S)[k] \in S
           /\ \A o \in S : \E k \in 1..Cardinality(S) : Sorted(S)[k] = o
           /\ \A i, j \in 1..Cardinality(S) : Sorted(S)[i] = Sorted(S)[j] => i = j
           /\ \A i, j \in 1..Cardinality(S) : Before(Sorted(S)[i], Sorted(S)[j]) => i < j
<1> DEFINE N == Cardinality(S)
           R == [o \in S |-> Rank(o, S)]
           list == Sorted(S)
<1>1. /\ N \in Nat
      /\ \A o \in S : Rank(o, S) \in Nat /\ Rank(o, S) < N
      /\ \A o, p \in S : Before(o, p) => Rank(o, S) < Rank(p, S)
  BY RanksRise
<1>2. \A o, p \in S : Rank(o, S) = Rank(p, S) => o = p
  BY <1>1 DEF Comparable
<1> HIDE DEF N
<1>3. R \in Injection(S, 0..(N - 1))
  <2>1. R \in [S -> 0..(N - 1)]
    BY <1>1
  <2> QED
    BY <1>2, <2>1 DEF Injection, IsInjective
<1>4. IsFiniteSet(0..(N - 1)) /\ Cardinality(0..(N - 1)) = N
  BY <1>1, FS_Interval
<1>5. R \in Surjection(S, 0..(N - 1))
  BY <1>3, <1>4, FS_Injection DEF N
<1>6. ASSUME NEW k \in 1..N PROVE list[k] \in S /\ Rank(list[k], S) = k - 1
  <2>1. k - 1 \in 0..(N - 1)
    BY <1>1
  <2>2. \E o \in S : Rank(o, S) = k - 1
    BY <1>5, <2>1 DEF Surjection
  <2>3. list[k] = CHOOSE o \in S : Rank(o, S) = k - 1
    BY DEF Sorted, N
  <2> QED
    BY <2>2, <2>3
<1>7. Len(list) = N
  BY <1>1 DEF Sorted, N
<1>8. ASSUME NEW o \in S PROVE \E k \in 1..N : list[k] = o
  <2>1. Rank(o, S) + 1 \in 1..N /\ (Rank(o, S) + 1) - 1 = Rank(o, S)
    BY <1>1
  <2>2. list[Rank(o, S) + 1] = o
    BY <1>2, <1>6, <2>1
  <2> QED
    BY <2>1, <2>2
<1>9. ASSUME NEW i \in 1..N, NEW j \in 1..N, Before(list[i], list[j]) PROVE i < j
  BY <1>1, <1>6, <1>9
<1>10. ASSUME NEW i \in 1..N, NEW j \in 1..N, list[i] = list[j] PROVE i = j
  BY <1>1, <1>6, <1>10
<1> QED
  BY <1>1, <1>6, <1>7, <1>8, <1>9, <1>10 DEF N

\* idx says where the commands Q are in a list of objects.
Lists(idx, Q, objs) ==
    /\ Len(objs) \in Nat
    /\ \A i \in 1..Len(Q) :
        idx[i] \in 1..Len(objs) /\ IsCommand(objs[idx[i]]) /\ objs[idx[i]].body = Q[i]
    /\ \A i, j \in 1..Len(Q) : i < j => idx[i] < idx[j]
    /\ \A k \in 1..Len(objs) : IsCommand(objs[k]) => \E i \in 1..Len(Q) : k = idx[i]

\* A command is captured under its type name.
LEMMA CommandTypes == \A c \in Cmd : IsCommand(c)
BY CmdAssumption DEF Cmd, GNodeCreateCmd, GNodeReparentCmd, IsCommand, CREATE_CMD, REPARENT_CMD

\* The objects that a rebuild replays, and where they are in its list.
Replayable == {o \in capture : o.type_name \in REPLAY_TYPE_NAMES}

Places(place) ==
    /\ Len(capture_objects) \in Nat
    /\ \A o \in Replayable :
        place[o] \in 1..Len(capture_objects) /\ capture_objects[place[o]] = o
    /\ \A k \in 1..Len(capture_objects) :
        capture_objects[k] \in Replayable /\ place[capture_objects[k]] = k
    /\ \A o, p \in Replayable : Before(o, p) => place[o] < place[p]

\* Each is in the list once, in the order of their arrival.
LEMMA ListedInOrder == ASSUME InOrder(capture) PROVE \E place : Places(place)
<1> DEFINE S == Replayable
           N == Cardinality(S)
           list == Sorted(S)
<1>1. capture_objects = list
  BY DEF capture_objects, Sorted, Rank, Replayable
<1>2. Comparable(S)
  <2>1. S \in SUBSET capture /\ IsFiniteSet(capture)
    BY DEF InOrder, Replayable
  <2>2. IsFiniteSet(S)
    BY <2>1, FS_Subset
  <2> QED
    BY <2>1, <2>2 DEF InOrder, Comparable
<1> HIDE DEF S
<1>4. /\ N \in Nat /\ Len(list) = N
      /\ \A k \in 1..N : list[k] \in S
      /\ \A o \in S : \E k \in 1..N : list[k] = o
      /\ \A i, j \in 1..N : list[i] = list[j] => i = j
      /\ \A i, j \in 1..N : Before(list[i], list[j]) => i < j
  BY <1>2, SortedFacts
<1> HIDE DEF N, list
<1> DEFINE place == [o \in S |-> CHOOSE k \in 1..N : list[k] = o]
<1>5. \A o \in S : place[o] \in 1..N /\ list[place[o]] = o
  BY <1>4
<1> HIDE DEF place
<1>6. \A k \in 1..N : list[k] \in S /\ place[list[k]] = k
  BY <1>4, <1>5
<1>7. \A o, p \in S : Before(o, p) => place[o] < place[p]
  BY <1>4, <1>5
<1>8. Places(place)
  BY <1>1, <1>4, <1>5, <1>6, <1>7 DEF Places, S
<1> QED
  BY <1>8

\* So the commands are there in the order they were published in.
LEMMA CommandsListed ==
    ASSUME NEW Q \in Seq(Cmd), NEW name, Names(name, Q, capture), NEW place, Places(place),
           NEW idx, \A i \in 1..Len(Q) : idx[i] = place[name[i]]
    PROVE  Lists(idx, Q, capture_objects)
<1>n. PICK n, N, list : n = Len(Q) /\ N = Len(capture_objects) /\ list = capture_objects
  OBVIOUS
<1>1. \A i \in 1..n : name[i] \in Replayable /\ IsCommand(name[i]) /\ name[i].body = Q[i]
  BY <1>n, CommandTypes DEF Names, IsCommand, Replayable, REPLAY_TYPE_NAMES
<1>2. /\ N \in Nat
      /\ \A o \in Replayable : place[o] \in 1..N /\ list[place[o]] = o
      /\ \A k \in 1..N : list[k] \in Replayable /\ place[list[k]] = k
      /\ \A o, p \in Replayable : Before(o, p) => place[o] < place[p]
  BY <1>n DEF Places
<1>3. \A i \in 1..n : idx[i] = place[name[i]]
  BY <1>n
<1>4. \A i \in 1..n : idx[i] \in 1..N /\ IsCommand(list[idx[i]]) /\ list[idx[i]].body = Q[i]
  BY <1>1, <1>2, <1>3
<1>5. ASSUME NEW i \in 1..n, NEW j \in 1..n, i < j PROVE idx[i] < idx[j]
  <2>1. Before(name[i], name[j])
    BY <1>5, <1>n DEF Names
  <2> QED
    BY <1>1, <1>2, <1>3, <2>1
<1>6. ASSUME NEW k \in 1..N, IsCommand(list[k]) PROVE \E i \in 1..n : k = idx[i]
  <2>1. list[k] \in capture
    BY <1>2 DEF Replayable
  <2>2. PICK i \in 1..n : list[k] = name[i]
    BY <1>6, <1>n, <2>1 DEF Names
  <2> QED
    BY <1>2, <1>3, <2>2
<1> QED
  BY <1>2, <1>4, <1>5, <1>6, <1>n DEF Lists

\* The rebuild's list has the commands in the order they were published in.
LEMMA ReplayOrder ==
    ASSUME NEW Q \in Seq(Cmd), Recorded(Q, capture)
    PROVE  \E idx : Lists(idx, Q, capture_objects)
<1>1. PICK name : Names(name, Q, capture)
  BY DEF Recorded
<1>2. PICK place : Places(place)
  BY ListedInOrder DEF Recorded
<1> DEFINE idx == [i \in 1..Len(Q) |-> place[name[i]]]
<1>3. \A i \in 1..Len(Q) : idx[i] = place[name[i]]
  OBVIOUS
<1> HIDE DEF idx
<1>4. Lists(idx, Q, capture_objects)
  BY <1>1, <1>2, <1>3, CommandsListed
<1> QED
  BY <1>4

-----------------------------------------------------------------------------
(* The story behind a state: the commands Q in the order they were published *)
(* in, and the tables h[i] that the service had after the first i of them.   *)

Wiped == <<<<>>, <<>>, {}>>

\* Command by command, with the refusals that S says.
Ran(h, Q, S) ==
    /\ h[0] = Wiped
    /\ \A i \in 1..Len(S) :
        \E v : Settles(h[i - 1], Q[i], h[i], v) /\ (v = "refused" <=> S[i] = "refused")
    /\ \A i, j \in 0..Len(S) : i <= j => Extends(h[j][2], h[i][2])
    /\ \A i \in 0..Len(S) : DOMAIN h[i][1] = {} => h[i] = Wiped

\* The inbox holds the commands not answered yet.
Waits(Q) ==
    /\ inbox \in Seq(Cmd) /\ Len(Q) = Len(served) + Len(inbox)
    /\ \A j \in 1..Len(inbox) : Q[Len(served) + j] = inbox[j]

\* The service with the oldest one, which finds the tables t: not begun, or
\* committed by a process that died before it answered; being applied; ended.
Taking(t) ==
    /\ step = "waiting" /\ pc = "idle"
    /\ \/ tables = t
       \/ /\ inbox # <<>> /\ Head(inbox) \in log
          /\ Settles(t, Head(inbox), tables, "applied") /\ Grows(t, tables)

Applying(t) ==
    /\ step = "inTransaction" /\ pc = "rewriting" /\ inbox # <<>>
    /\ tables = t /\ cmd = Head(inbox)
    /\ OpenAt(tables, Head(inbox), <<txNodes, txLedger, updated>>, todo)

Answering(t) ==
    /\ step = "answered" /\ pc = "idle" /\ inbox # <<>> /\ result.verdict \in Verdict
    /\ \E v : Settles(t, Head(inbox), tables, v) /\ (v = "refused" <=> result.verdict = "refused")
    /\ Grows(t, tables)

InHand(t) == Taking(t) \/ Applying(t) \/ Answering(t)

\* The rebuild has settled the commands before `at' as the service did.
Progress(idx, Q, h) ==
    /\ at \in Nat \ {0} /\ outcomes \in Seq(Verdict) /\ Len(outcomes) <= Len(Q)
    /\ \A i \in 1..Len(Q) : idx[i] < at <=> i <= Len(outcomes)
    /\ \A i \in 1..Len(outcomes) : outcomes[i] = "refused" <=> served[i] = "refused"
    /\ tables = h[Len(outcomes)]
    /\ \/ pc = "idle"
       \/ /\ pc = "rewriting" /\ Len(outcomes) < Len(Q)
          /\ at = idx[Len(outcomes) + 1] /\ cmd = Q[Len(outcomes) + 1]
          /\ OpenAt(tables, cmd, <<txNodes, txLedger, updated>>, todo)

Rebuilding(Q, h) ==
    \/ phase \in {"down", "aborted"} /\ \E q \in 0..Len(Q) : tables = h[q]
    \/ phase = "replaying" /\ \E idx : Lists(idx, Q, stream) /\ Progress(idx, Q, h)
    \/ /\ phase = "ended" /\ tables = live
       /\ outcomes \in Seq(Verdict) /\ Len(outcomes) = Len(Q)
       /\ \A i \in 1..Len(Q) : outcomes[i] = "refused" <=> served[i] = "refused"

Story(Q, h) ==
    /\ Q \in Seq(Cmd) /\ served \in Seq(Verdict)
    /\ Recorded(Q, capture) /\ Ran(h, Q, served)
    /\ \/ phase = "serving" /\ Waits(Q) /\ \E t : t = h[Len(served)] /\ InHand(t)
       \/ phase # "serving" /\ Len(Q) = Len(served) /\ live = h[Len(served)] /\ Rebuilding(Q, h)

\* The names of the counts, and what they say of commands under way to the ear.
Counted == {"published", "missed", "late", "snapshots", "deaf", "crashes", "requeued", "lost"}

Counts == bounds \in [Counted -> Nat] /\ (late # {} => bounds.late > 0)

StoryInv == Counts /\ (CommandsKept => \E Q, h : Story(Q, h))

\* The handlers end with one of the four verdicts.
LEMMA SettlesVerdict ==
    ASSUME NEW t, NEW c, NEW u, NEW v, Settles(t, c, u, v)
    PROVE  v \in Verdict
BY DEF Settles, CreateSettles, ReparentSettles, Closes, Verdict

\* The next command leads to the tables u and is answered with w.
Answered(h, Q, S, u, w) ==
    /\ \E v : Settles(h[Len(S)], Q[Len(S) + 1], u, v) /\ (v = "refused" <=> w = "refused")
    /\ Grows(h[Len(S)], u)

\* One more command is answered.
LEMMA RanOn ==
    ASSUME NEW h, NEW Q, NEW S \in Seq(Verdict), NEW u, NEW w \in Verdict,
           Ran(h, Q, S), Answered(h, Q, S, u, w)
    PROVE  Ran(Prolonged(h, Len(S) + 1, u), Q, Append(S, w))
<1> DEFINE n == Len(S)
           S2 == Append(S, w)
           g == Prolonged(h, n + 1, u)
<1>1. n \in Nat /\ Len(S2) = n + 1 /\ S2[n + 1] = w /\ \A i \in 1..n : S2[i] = S[i]
  OBVIOUS
<1>2. PICK v : Settles(h[n], Q[n + 1], u, v) /\ Grows(h[n], u) /\ (v = "refused" <=> w = "refused")
  BY DEF Answered
<1>3. /\ h[0] = Wiped
      /\ \A i \in 1..n : \E x : Settles(h[i - 1], Q[i], h[i], x) /\ (x = "refused" <=> S[i] = "refused")
      /\ \A i, j \in 0..n : i <= j => Extends(h[j][2], h[i][2])
      /\ \A i \in 0..n : DOMAIN h[i][1] = {} => h[i] = Wiped
  BY DEF Ran
<1>4. g[n + 1] = u /\ \A j \in 0..n : g[j] = h[j]
  BY <1>1, ProlongedFacts
<1> HIDE DEF n, S2, g
<1>z. g[0] = Wiped
  BY <1>1, <1>3, <1>4
<1>5. ASSUME NEW i \in 1..(n + 1)
      PROVE  \E x : Settles(g[i - 1], Q[i], g[i], x) /\ (x = "refused" <=> S2[i] = "refused")
  <2>1. CASE i = n + 1
    <3>1. g[i - 1] = h[n] /\ g[i] = u /\ S2[i] = w
      BY <1>1, <1>4, <2>1
    <3> QED
      BY <1>2, <2>1, <3>1
  <2>2. CASE i \in 1..n
    <3>1. g[i - 1] = h[i - 1] /\ g[i] = h[i] /\ S2[i] = S[i]
      BY <1>1, <1>4, <2>2
    <3> QED
      BY <1>3, <2>2, <3>1
  <2> QED
    BY <1>1, <2>1, <2>2
<1>6. ASSUME NEW i \in 0..(n + 1), NEW j \in 0..(n + 1), i <= j
      PROVE  Extends(g[j][2], g[i][2])
  <2>1. CASE j \in 0..n
    <3>1. i \in 0..n
      BY <1>1, <1>6, <2>1
    <3> QED
      BY <1>3, <1>4, <1>6, <2>1, <3>1
  <2>2. CASE j = n + 1 /\ i \in 0..n
    <3>1. Extends(h[n][2], h[i][2]) /\ Extends(u[2], h[n][2])
      BY <1>1, <1>2, <1>3, <2>2 DEF Grows
    <3>2. Extends(u[2], h[i][2])
      BY <3>1 DEF Extends
    <3> QED
      BY <1>4, <2>2, <3>2
  <2>3. CASE j = n + 1 /\ i = n + 1
    BY <2>3 DEF Extends
  <2> QED
    BY <1>1, <2>1, <2>2, <2>3
<1>7. ASSUME NEW i \in 0..(n + 1), DOMAIN g[i][1] = {} PROVE g[i] = Wiped
  <2>1. CASE i \in 0..n
    BY <1>3, <1>4, <1>7, <2>1
  <2>2. CASE i = n + 1
    <3>1. u = h[n]
      BY <1>2, <1>4, <1>7, <2>2 DEF Grows
    <3> QED
      BY <1>1, <1>3, <1>4, <1>7, <2>2, <3>1
  <2> QED
    BY <1>1, <2>1, <2>2
<1>8. Ran(g, Q, S2)
  BY <1>1, <1>z, <1>5, <1>6, <1>7 DEF Ran
<1> QED
  BY <1>8 DEF n, S2, g

-----------------------------------------------------------------------------
(* The service goes on with the story                                       *)

\* A command that the ear hears is the story's last one.
LEMMA PublishGoesOn ==
    ASSUME NEW Q, NEW h, Story(Q, h), NEW c \in Cmd, Publish(c),
           capture' = Stored(capture, c.type_name, c)
    PROVE  Story(Append(Q, c), h)'
<1> DEFINE Q2 == Append(Q, c)
<1>n. PICK n, m : n = Len(served) /\ m = Len(inbox)
  OBVIOUS
<1>1. /\ phase = "serving" /\ phase' = phase /\ served' = served /\ inbox' = Append(inbox, c)
      /\ step' = step /\ pc' = pc /\ tables' = tables /\ log' = log /\ cmd' = cmd /\ txNodes' = txNodes
      /\ txLedger' = txLedger /\ updated' = updated /\ todo' = todo /\ result' = result
  BY DEF Publish, vars, tables
<1>2. /\ Q \in Seq(Cmd) /\ served \in Seq(Verdict) /\ Recorded(Q, capture) /\ Ran(h, Q, served)
      /\ inbox \in Seq(Cmd) /\ Len(Q) = n + m /\ \A j \in 1..m : Q[n + j] = inbox[j]
  BY <1>1, <1>n DEF Story, Waits
<1>t. PICK t : t = h[Len(served)] /\ InHand(t)
  BY <1>1 DEF Story
<1>3. Recorded(Q2, capture')
  BY <1>2, CommandHeard
<1>4. /\ n \in Nat /\ m \in Nat /\ Q2 \in Seq(Cmd) /\ inbox' \in Seq(Cmd) /\ Len(inbox') = m + 1
      /\ Len(Q2) = Len(Q) + 1 /\ Q2[Len(Q) + 1] = c /\ \A i \in 1..Len(Q) : Q2[i] = Q[i]
      /\ inbox'[m + 1] = c /\ \A i \in 1..m : inbox'[i] = inbox[i]
  <2>1. n \in Nat /\ m \in Nat
    BY <1>2, <1>n
  <2>2. /\ Q2 \in Seq(Cmd) /\ Len(Q2) = Len(Q) + 1 /\ Q2[Len(Q) + 1] = c
        /\ \A i \in 1..Len(Q) : Q2[i] = Q[i]
    BY <1>2
  <2>3. /\ inbox' \in Seq(Cmd) /\ Len(inbox') = Len(inbox) + 1 /\ inbox'[Len(inbox) + 1] = c
        /\ \A i \in 1..Len(inbox) : inbox'[i] = inbox[i]
    BY <1>1, <1>2
  <2> QED
    BY <1>n, <2>1, <2>2, <2>3
<1>5. inbox # <<>> => inbox' # <<>> /\ Head(inbox') = Head(inbox)
  BY <1>1, <1>2
<1> HIDE DEF Q2
<1>6. Ran(h, Q2, served)
  <2>1. \A i \in 1..n : Q2[i] = Q[i]
    BY <1>2, <1>4
  <2> QED
    BY <1>2, <1>n, <2>1 DEF Ran
<1>7. Len(Q2) = n + (m + 1)
  BY <1>2, <1>4
<1>8. ASSUME NEW j \in 1..(m + 1) PROVE Q2[n + j] = inbox'[j]
  <2>1. CASE j = m + 1
    BY <1>2, <1>4, <2>1
  <2>2. CASE j \in 1..m
    <3>1. n + j \in 1..Len(Q)
      BY <1>2, <1>4, <2>2
    <3> QED
      BY <1>2, <1>4, <2>2, <3>1
  <2> QED
    BY <1>4, <2>1, <2>2
<1>9. Waits(Q2)'
  BY <1>1, <1>4, <1>7, <1>8, <1>n DEF Waits
<1>10. InHand(t)'
  BY <1>1, <1>5, <1>t DEF InHand, Taking, Applying, Answering
<1> QED
  BY <1>1, <1>2, <1>3, <1>4, <1>6, <1>9, <1>10, <1>t DEF Story, Q2

\* A call or a round goes on with the command in hand.
LEMMA HandleGoesOn ==
    ASSUME Plain, NEW Q, NEW h, Story(Q, h), Handle
    PROVE  Story(Q, h)'
<1>c. PICK c : c = Head(inbox)
  OBVIOUS
<1>1. /\ phase = "serving" /\ phase' = phase /\ served' = served /\ inbox' = inbox
      /\ capture' = capture /\ inbox # <<>>
      /\ step' = IF pc' = "idle" THEN "answered" ELSE "inTransaction"
  BY DEF Handle
<1>2. /\ Q \in Seq(Cmd) /\ served \in Seq(Verdict) /\ Recorded(Q, capture) /\ Ran(h, Q, served)
      /\ Waits(Q)
  BY <1>1 DEF Story
<1>t. PICK t : t = h[Len(served)] /\ InHand(t)
  BY <1>1 DEF Story
<1>3. c \in Cmd
  BY <1>1, <1>2, <1>c DEF Waits
<1>4. tables[3] = log
  BY DEF tables
<1>5. /\ Steps(c)
      /\ \/ tables = t
         \/ step = "waiting" /\ c \in log /\ Settles(t, c, tables, "applied") /\ Grows(t, tables)
  <2>1. CASE step = "waiting" /\ apply(c)
    <3>1. Steps(c)
      BY <1>3, <1>c, <2>1, CreateGoes, ReparentGoes DEF apply
    <3> QED
      BY <1>c, <1>t, <2>1, <3>1 DEF InHand, Taking, Applying, Answering
  <2>2. CASE step = "inTransaction" /\ (RewriteChild \/ CommitReparent)
    <3>1. tables = t /\ cmd = c /\ OpenAt(tables, c, <<txNodes, txLedger, updated>>, todo)
      BY <1>c, <1>t, <2>2 DEF InHand, Taking, Applying, Answering
    <3>2. Steps(c)
      BY <2>2, <3>1, RoundGoes, CommitGoes
    <3> QED
      BY <3>1, <3>2
  <2> QED
    BY <1>c, <2>1, <2>2 DEF Handle
<1>6. InHand(t)'
  <2>1. CASE pc' = "rewriting"
    <3>1. /\ tables' = tables /\ cmd' = c /\ OpenAt(tables, c, <<txNodes', txLedger', updated'>>, todo')
      BY <1>5, <2>1 DEF Steps, Goes
    <3>2. tables = t
      BY <1>4, <1>5, <3>1 DEF OpenAt, Opens
    <3> QED
      BY <1>1, <1>c, <2>1, <3>1, <3>2 DEF InHand, Applying
  <2>2. CASE pc' = "idle"
    <3>1. Settles(tables, c, tables', result'.verdict) /\ Grows(tables, tables')
      BY <1>5, <2>2 DEF Steps, Goes
    <3>2. result'.verdict \in Verdict
      BY <3>1, SettlesVerdict
    <3>3. \E v : /\ Settles(t, c, tables', v) /\ (v = "refused" <=> result'.verdict = "refused")
                 /\ Grows(t, tables')
      <4>1. CASE tables = t
        BY <3>1, <4>1
      <4>2. CASE c \in log /\ Settles(t, c, tables, "applied") /\ Grows(t, tables)
        <5>1. tables' = tables /\ result'.verdict = "replayed"
          BY <1>4, <3>1, <4>2 DEF Settles, CreateSettles, ReparentSettles
        <5> QED
          BY <4>2, <5>1
      <4> QED
        BY <1>5, <4>1, <4>2
    <3> QED
      BY <1>1, <1>c, <2>2, <3>2, <3>3 DEF InHand, Answering
  <2> QED
    BY <1>5, <2>1, <2>2 DEF Steps, Goes
<1>7. Waits(Q)'
  BY <1>1, <1>2 DEF Waits
<1> QED
  BY <1>1, <1>2, <1>6, <1>7, <1>t DEF Story

\* An answer ends with the command, and the ear hears it.
LEMMA AnswerGoesOn ==
    ASSUME NEW Q, NEW h, Story(Q, h), Answer,
           NEW n, n = Len(served), NEW u, u = tables
    PROVE  Story(Q, Prolonged(h, n + 1, u))'
<1>n. PICK m, w : m = Len(inbox) /\ w = result.verdict
  OBVIOUS
<1>1. /\ phase = "serving" /\ step = "answered" /\ phase' = phase
      /\ served' = Append(served, w) /\ inbox' = Tail(inbox) /\ step' = "waiting"
      /\ pc' = pc /\ tables' = tables
  BY <1>n DEF Answer, vars, tables
<1>2. /\ Q \in Seq(Cmd) /\ served \in Seq(Verdict) /\ Recorded(Q, capture) /\ Ran(h, Q, served)
      /\ inbox \in Seq(Cmd) /\ Len(Q) = n + m /\ \A j \in 1..m : Q[n + j] = inbox[j]
  BY <1>1, <1>n DEF Story, Waits
<1>t. PICK t : t = h[n] /\ Answering(t)
  BY <1>1, <1>n DEF Story, InHand, Taking, Applying
<1>3. pc = "idle" /\ inbox # <<>> /\ w \in Verdict
  BY <1>n, <1>t DEF Answering
<1>4. Recorded(Q, capture')
  <2>1. FOREST \notin {CREATE_CMD, REPARENT_CMD} /\ "g.node.cmd.ack" \notin {CREATE_CMD, REPARENT_CMD}
        /\ "g.node.cmd.nack" \notin {CREATE_CMD, REPARENT_CMD}
    BY DEF FOREST, CREATE_CMD, REPARENT_CMD
  <2>2. ASSUME NEW order,
               capture' = Stored(Stored(capture, FOREST, Message(result.forest, order)),
                                 "g.node.cmd.ack", NULL)
        PROVE  Recorded(Q, capture')
    <3>1. Recorded(Q, Stored(capture, FOREST, Message(result.forest, order)))
      BY <1>2, <2>1, OtherHeard
    <3> QED
      BY <2>1, <2>2, <3>1, OtherHeard
  <2>3. CASE \/ capture' = Stored(capture, "g.node.cmd.ack", NULL)
             \/ capture' = Stored(capture, "g.node.cmd.nack", NULL) \/ capture' = capture
    BY <1>2, <2>1, <2>3, OtherHeard
  <2> QED
    BY <2>2, <2>3 DEF Answer
<1>5. /\ n \in Nat /\ m \in Nat \ {0} /\ Head(inbox) = inbox[1]
      /\ inbox' \in Seq(Cmd) /\ Len(inbox') = m - 1 /\ \A j \in 1..(m - 1) : inbox'[j] = inbox[j + 1]
      /\ served' \in Seq(Verdict) /\ Len(served') = n + 1
  <2>1. /\ Len(inbox) \in Nat \ {0} /\ Head(inbox) = inbox[1] /\ inbox' \in Seq(Cmd)
        /\ Len(inbox') = Len(inbox) - 1 /\ \A j \in 1..Len(inbox') : inbox'[j] = inbox[j + 1]
    BY <1>1, <1>2, <1>3, HeadTailProperties
  <2>2. n \in Nat /\ served' \in Seq(Verdict) /\ Len(served') = n + 1
    BY <1>1, <1>2, <1>3, <1>n
  <2> QED
    BY <1>n, <2>1, <2>2
<1>6. Head(inbox) = Q[n + 1]
  <2>1. 1 \in 1..m
    BY ONLY <1>5
  <2>2. \A j \in 1..m : Q[n + j] = inbox[j]
    BY <1>2
  <2> QED
    BY ONLY <1>5, <2>1, <2>2
<1>7. PICK v : Settles(h[n], Q[n + 1], u, v) /\ (v = "refused" <=> w = "refused") /\ Grows(h[n], u)
  BY <1>6, <1>n, <1>t DEF Answering
<1> DEFINE g == Prolonged(h, n + 1, u)
<1>8. Ran(g, Q, Append(served, w)) /\ g[n + 1] = u
  <2>1. PICK S : S = served
    OBVIOUS
  <2>2. S \in Seq(Verdict) /\ Ran(h, Q, S)
    BY <1>2, <2>1
  <2>3. Answered(h, Q, S, u, w)
    BY <1>7, <1>n, <2>1 DEF Answered
  <2>4. Ran(Prolonged(h, Len(S) + 1, u), Q, Append(S, w))
    BY <1>3, <2>2, <2>3, RanOn
  <2>5. g[n + 1] = u
    BY <1>5, ProlongedFacts
  <2> QED
    BY <1>n, <2>1, <2>4, <2>5
<1> HIDE DEF g
<1>9. Waits(Q)'
  <2>1. Len(Q) = (n + 1) + (m - 1)
    BY <1>2, <1>5
  <2>2. ASSUME NEW j \in 1..(m - 1) PROVE Q[(n + 1) + j] = inbox'[j]
    <3>1. j + 1 \in 1..m /\ (n + 1) + j = n + (j + 1)
      BY ONLY <1>5, j \in 1..(m - 1)
    <3> QED
      BY <1>2, <1>5, <3>1
  <2> QED
    BY <1>5, <2>1, <2>2 DEF Waits
<1>10. InHand(u)'
  BY <1>1, <1>3 DEF InHand, Taking
<1>11. Story(Q, g)'
  BY <1>1, <1>2, <1>4, <1>5, <1>8, <1>9, <1>10 DEF Story
<1> QED
  BY <1>11 DEF g

\* A death leaves the tables with all of the command in hand, or with none; an
\* escape leaves them with none.  It is delivered again.
LEMMA CrashGoesOn ==
    ASSUME NEW Q, NEW h, Story(Q, h), (Crash /\ inbox' = inbox) \/ Requeue
    PROVE  Story(Q, h)'
<1>1. /\ phase = "serving" /\ phase' = phase /\ served' = served /\ inbox' = inbox
      /\ capture' = capture /\ step # "waiting" /\ step' = "waiting" /\ tables' = tables
      /\ pc' = "idle" \/ (step = "answered" /\ pc' = pc)
  BY DEF Crash, Requeue, Dies, Close, tables, vars
<1>2. /\ Q \in Seq(Cmd) /\ served \in Seq(Verdict) /\ Recorded(Q, capture) /\ Ran(h, Q, served)
      /\ Waits(Q)
  BY <1>1 DEF Story
<1>t. PICK t : t = h[Len(served)] /\ InHand(t)
  BY <1>1 DEF Story
<1>3. inbox # <<>> /\ Grows(t, tables) /\ pc' = "idle"
  BY <1>1, <1>t, SameGrows DEF InHand, Taking, Applying, Answering
<1>4. tables = t \/ (Settles(t, Head(inbox), tables, "applied") /\ Head(inbox) \in tables[3])
  BY <1>1, <1>t, SettledIsLogged DEF InHand, Taking, Applying, Answering
<1>5. log' = tables[3]
  BY <1>1 DEF tables
<1>6. InHand(t)'
  BY <1>1, <1>3, <1>4, <1>5 DEF InHand, Taking
<1>7. Waits(Q)'
  BY <1>1, <1>2 DEF Waits
<1> QED
  BY <1>1, <1>2, <1>6, <1>7, <1>t DEF Story

\* A snapshot takes no part in it.
LEMMA SnapshotGoesOn ==
    ASSUME NEW Q, NEW h, Story(Q, h), NEW root, broadcast_snapshot(root)
    PROVE  Story(Q, h)'
<1>1. /\ phase = "serving" /\ phase' = phase /\ served' = served /\ inbox' = inbox
      /\ step' = step /\ pc' = pc /\ tables' = tables /\ log' = log /\ cmd' = cmd /\ txNodes' = txNodes
      /\ txLedger' = txLedger /\ updated' = updated /\ todo' = todo /\ result' = result
      /\ \/ capture' = Stored(capture, FOREST, Message(get_forest({root}), "by alias"))
         \/ capture' = capture
  BY DEF broadcast_snapshot, vars, tables
<1>2. /\ Q \in Seq(Cmd) /\ served \in Seq(Verdict) /\ Recorded(Q, capture) /\ Ran(h, Q, served)
      /\ Waits(Q)
  BY <1>1 DEF Story
<1>t. PICK t : t = h[Len(served)] /\ InHand(t)
  BY <1>1 DEF Story
<1>3. FOREST \notin {CREATE_CMD, REPARENT_CMD}
  BY DEF FOREST, CREATE_CMD, REPARENT_CMD
<1>4. Recorded(Q, capture')
  BY <1>1, <1>2, <1>3, OtherHeard
<1>5. InHand(t)'
  BY <1>1, <1>t DEF InHand, Taking, Applying, Answering
<1>6. Waits(Q)'
  BY <1>1, <1>2 DEF Waits
<1> QED
  BY <1>1, <1>2, <1>4, <1>5, <1>6, <1>t DEF Story

\* The service stops when every command is answered.
LEMMA StopGoesOn ==
    ASSUME NEW Q, NEW h, Story(Q, h), Stop
    PROVE  Story(Q, h)'
<1>1. /\ phase = "serving" /\ phase' = "down" /\ inbox = <<>> /\ live' = tables
      /\ served' = served /\ capture' = capture /\ tables' = tables
  BY DEF Stop, vars, tables
<1>2. /\ Q \in Seq(Cmd) /\ served \in Seq(Verdict) /\ Recorded(Q, capture) /\ Ran(h, Q, served)
      /\ Waits(Q)
  BY <1>1 DEF Story
<1>t. PICK t : t = h[Len(served)] /\ InHand(t)
  BY <1>1 DEF Story
<1>3. tables = t
  BY <1>1, <1>t DEF InHand, Taking, Applying, Answering
<1>4. Len(Q) = Len(served) /\ Len(Q) \in 0..Len(Q)
  BY <1>1, <1>2 DEF Waits
<1>5. Rebuilding(Q, h)'
  BY <1>1, <1>3, <1>4, <1>t DEF Rebuilding
<1> QED
  BY <1>1, <1>2, <1>3, <1>4, <1>5, <1>t DEF Story

-----------------------------------------------------------------------------
(* The rebuild goes through it again                                        *)

\* It begins with empty tables, wiped or never written to.
LEMMA RunGoesOn ==
    ASSUME NEW Q, NEW h, Story(Q, h), NEW wipe \in BOOLEAN, _run_rebuild(wipe)
    PROVE  Story(Q, h)'
<1>1. /\ phase \in {"down", "aborted"} /\ phase' = "replaying" /\ served' = served
      /\ capture' = capture /\ live' = live /\ pc' = "idle"
      /\ stream' = capture_objects /\ at' = 1 /\ outcomes' = <<>>
  BY DEF _run_rebuild, service, Close
<1>2. /\ Q \in Seq(Cmd) /\ served \in Seq(Verdict) /\ Recorded(Q, capture) /\ Ran(h, Q, served)
      /\ Len(Q) = Len(served) /\ live = h[Len(served)] /\ Rebuilding(Q, h)
  BY <1>1 DEF Story
<1>3. tables' = h[0]
  <2>1. CASE wipe
    BY <1>2, <2>1 DEF _run_rebuild, Wipe, tables, Ran, Wiped
  <2>2. CASE ~wipe
    <3>1. tables' = tables /\ DOMAIN tables[1] = {}
      BY <2>2 DEF _run_rebuild, tables
    <3>2. PICK q \in 0..Len(Q) : tables = h[q]
      BY <1>1, <1>2 DEF Rebuilding
    <3> QED
      BY <1>2, <3>1, <3>2 DEF Ran
  <2> QED
    BY <2>1, <2>2
<1>4. PICK idx : Lists(idx, Q, stream')
  BY <1>1, <1>2, ReplayOrder
<1>5. Len(Q) \in Nat /\ \A i \in 1..Len(Q) : idx[i] \in Nat /\ idx[i] >= 1
  BY <1>2, <1>4 DEF Lists
<1>6. outcomes' \in Seq(Verdict) /\ Len(outcomes') = 0
  BY <1>1
<1>7. Progress(idx, Q, h)'
  BY <1>1, <1>3, <1>5, <1>6 DEF Progress
<1>8. Rebuilding(Q, h)'
  BY <1>1, <1>4, <1>7 DEF Rebuilding
<1> QED
  BY <1>1, <1>2, <1>8 DEF Story

\* A death of the rebuild leaves it between two commands.
LEMMA InterruptGoesOn ==
    ASSUME NEW Q, NEW h, Story(Q, h), Interrupt
    PROVE  Story(Q, h)'
<1>1. /\ phase = "replaying" /\ phase' = "down" /\ served' = served
      /\ capture' = capture /\ live' = live /\ tables' = tables
  BY DEF Interrupt, Dies, service, tables
<1>2. /\ Q \in Seq(Cmd) /\ served \in Seq(Verdict) /\ Recorded(Q, capture) /\ Ran(h, Q, served)
      /\ Len(Q) = Len(served) /\ live = h[Len(served)] /\ Rebuilding(Q, h)
  BY <1>1 DEF Story
<1>3. PICK idx : Progress(idx, Q, h)
  BY <1>1, <1>2 DEF Rebuilding
<1>4. Len(outcomes) \in 0..Len(Q) /\ tables = h[Len(outcomes)]
  BY <1>2, <1>3 DEF Progress
<1>5. Rebuilding(Q, h)'
  BY <1>1, <1>4 DEF Rebuilding
<1> QED
  BY <1>1, <1>2, <1>5 DEF Story

\* At the end of its list it has settled every command.
LEMMA FinishGoesOn ==
    ASSUME NEW Q, NEW h, Story(Q, h), Finish
    PROVE  Story(Q, h)'
<1>1. /\ phase = "replaying" /\ phase' = "ended" /\ at > Len(stream) /\ served' = served
      /\ capture' = capture /\ live' = live /\ tables' = tables /\ outcomes' = outcomes
  BY DEF Finish, service, vars, report, tables
<1>2. /\ Q \in Seq(Cmd) /\ served \in Seq(Verdict) /\ Recorded(Q, capture) /\ Ran(h, Q, served)
      /\ Len(Q) = Len(served) /\ live = h[Len(served)] /\ Rebuilding(Q, h)
  BY <1>1 DEF Story
<1>3. PICK idx : Lists(idx, Q, stream) /\ Progress(idx, Q, h)
  BY <1>1, <1>2 DEF Rebuilding
<1>n. PICK n, q : n = Len(Q) /\ q = Len(outcomes)
  OBVIOUS
<1>4. n \in Nat /\ q \in Nat /\ q <= n /\ outcomes \in Seq(Verdict)
  BY <1>2, <1>3, <1>n DEF Progress
<1>5. \A i \in 1..n : idx[i] < at
  BY <1>1, <1>3, <1>n DEF Lists, Progress
<1>6. \A i \in 1..n : i <= q
  BY <1>3, <1>5, <1>n DEF Progress
<1>7. q = n
  BY <1>4, <1>6
<1>8. tables = live /\ \A i \in 1..n : outcomes[i] = "refused" <=> served[i] = "refused"
  BY <1>2, <1>3, <1>7, <1>n DEF Progress
<1>9. Rebuilding(Q, h)'
  BY <1>1, <1>4, <1>7, <1>8, <1>n DEF Rebuilding
<1> QED
  BY <1>1, <1>2, <1>9 DEF Story

\* A broadcast in the list changes nothing of the registry.
LEMMA CheckpointGoesOn ==
    ASSUME NEW Q, NEW h, Story(Q, h), Checkpoint
    PROVE  Story(Q, h)'
<1>1. /\ phase = "replaying" /\ phase' = phase /\ at <= Len(stream) /\ stream[at].type_name = FOREST
      /\ served' = served /\ capture' = capture /\ live' = live /\ tables' = tables /\ outcomes' = outcomes
      /\ pc' = pc /\ at' = at + 1 /\ stream' = stream
  BY DEF Checkpoint, Replaying, Object, service, vars, tables
<1>2. /\ Q \in Seq(Cmd) /\ served \in Seq(Verdict) /\ Recorded(Q, capture) /\ Ran(h, Q, served)
      /\ Len(Q) = Len(served) /\ live = h[Len(served)] /\ Rebuilding(Q, h)
  BY <1>1 DEF Story
<1>3. PICK idx : Lists(idx, Q, stream) /\ Progress(idx, Q, h)
  BY <1>1, <1>2 DEF Rebuilding
<1>4. ~IsCommand(stream[at])
  BY <1>1 DEF IsCommand, FOREST, CREATE_CMD, REPARENT_CMD
<1>5. \A i \in 1..Len(Q) : idx[i] # at /\ idx[i] \in Nat
  BY <1>3, <1>4 DEF Lists
<1>6. at \in Nat \ {0} /\ \A i \in 1..Len(Q) : idx[i] < at + 1 <=> idx[i] < at
  BY <1>3, <1>5 DEF Progress
<1>7. pc = "idle"
  <2>1. ASSUME Len(outcomes) < Len(Q), at = idx[Len(outcomes) + 1] PROVE FALSE
    <3>1. Len(outcomes) + 1 \in 1..Len(Q)
      BY <1>2, <1>3, <2>1 DEF Progress
    <3> QED
      BY <1>5, <2>1, <3>1
  <2> QED
    BY <1>3, <2>1 DEF Progress
<1>8. Progress(idx, Q, h)'
  BY <1>1, <1>3, <1>6, <1>7 DEF Progress
<1>9. Rebuilding(Q, h)'
  BY <1>1, <1>3, <1>8 DEF Rebuilding
<1> QED
  BY <1>1, <1>2, <1>9 DEF Story

\* The command the rebuild is at is the next one of the story.
LEMMA NextReplayed ==
    ASSUME NEW Q \in Seq(Cmd), NEW h, NEW idx, Lists(idx, Q, stream), Progress(idx, Q, h),
           at <= Len(stream), IsCommand(stream[at])
    PROVE  /\ Len(outcomes) < Len(Q) /\ at = idx[Len(outcomes) + 1]
           /\ stream[at].body = Q[Len(outcomes) + 1]
<1>n. PICK n, q, a : n = Len(Q) /\ q = Len(outcomes) /\ a = at
  OBVIOUS
<1>1. n \in Nat /\ q \in Nat /\ q <= n /\ a \in 1..Len(stream)
  BY <1>n DEF Progress, Lists
<1>2. PICK i \in 1..n : a = idx[i]
  BY <1>1, <1>n DEF Lists
<1>3. \A j \in 1..n : idx[j] < a <=> j <= q
  BY <1>n DEF Progress
<1>4. \A j \in 1..n : idx[j] \in Nat
  BY <1>n DEF Lists
<1>5. i > q
  BY <1>1, <1>2, <1>3, <1>4
<1>6. q + 1 \in 1..n
  BY <1>1, <1>5
<1>7. ~(idx[q + 1] < a)
  BY <1>1, <1>3, <1>6
<1>8. i = q + 1
  <2>1. CASE q + 1 < i
    <3>1. idx[q + 1] < idx[i]
      BY <1>6, <1>n, <2>1 DEF Lists
    <3> QED
      BY <1>2, <1>7, <3>1
  <2> QED
    BY <1>1, <1>5, <2>1
<1>9. stream[a].body = Q[i]
  BY <1>2, <1>n DEF Lists
<1> QED
  BY <1>1, <1>2, <1>6, <1>8, <1>9, <1>n

\* A replayed command is settled as the service settled it.
LEMMA ReplayGoesOn ==
    ASSUME Plain, NEW Q, NEW h, Story(Q, h), ReplayCommand
    PROVE  Story(Q, h)'
<1>1. /\ phase = "replaying" /\ at <= Len(stream) /\ IsCommand(stream[at])
      /\ served' = served /\ capture' = capture /\ live' = live
  BY DEF ReplayCommand, Replaying, Object, service, IsCommand
<1>2. /\ Q \in Seq(Cmd) /\ served \in Seq(Verdict) /\ Recorded(Q, capture) /\ Ran(h, Q, served)
      /\ Len(Q) = Len(served) /\ live = h[Len(served)] /\ Rebuilding(Q, h)
  BY <1>1 DEF Story
<1>3. PICK idx : Lists(idx, Q, stream) /\ Progress(idx, Q, h)
  BY <1>1, <1>2 DEF Rebuilding
<1>n. PICK n, q, a, c, S : n = Len(Q) /\ q = Len(outcomes) /\ a = at /\ c = stream[at].body /\ S = served
  OBVIOUS
<1>4. q < n /\ a = idx[q + 1] /\ c = Q[q + 1]
  BY <1>1, <1>2, <1>3, <1>n, NextReplayed
<1>5. /\ n \in Nat /\ q \in Nat /\ a \in Nat \ {0} /\ c \in Cmd /\ outcomes \in Seq(Verdict)
      /\ \A i \in 1..n : idx[i] < a <=> i <= q
      /\ \A i \in 1..q : outcomes[i] = "refused" <=> S[i] = "refused"
      /\ tables = h[q]
  <2>1. /\ n \in Nat /\ q \in Nat /\ a \in Nat \ {0} /\ outcomes \in Seq(Verdict)
        /\ \A i \in 1..n : idx[i] < a <=> i <= q
        /\ \A i \in 1..q : outcomes[i] = "refused" <=> S[i] = "refused"
        /\ tables = h[q]
    BY <1>2, <1>3, <1>n DEF Progress
  <2> QED
    BY <1>2, <1>4, <1>n, <2>1
<1>6. Steps(c)
  <2>1. CASE pc = "idle" /\ c \in CreateCmd /\ Restored!apply_create(c)
    BY <1>5, <2>1, SameCalls, CreateGoes
  <2>2. CASE pc = "idle" /\ c \in ReparentCmd /\ Restored!apply_reparent(c)
    BY <1>5, <2>2, SameCalls, ReparentGoes
  <2>3. CASE pc = "rewriting" /\ (Restored!RewriteChild \/ Restored!CommitReparent)
    <3>1. cmd = c /\ OpenAt(tables, c, <<txNodes, txLedger, updated>>, todo)
      BY <1>3, <1>4, <1>n, <2>3 DEF Progress
    <3>2. RewriteChild \/ CommitReparent
      BY <2>3, SameRounds
    <3> QED
      BY <3>1, <3>2, RoundGoes, CommitGoes
  <2> QED
    BY <1>n, <2>1, <2>2, <2>3 DEF ReplayCommand, Object
<1>7. CASE pc' = "rewriting"
  <2>1. /\ tables' = tables /\ cmd' = c /\ OpenAt(tables, c, <<txNodes', txLedger', updated'>>, todo')
    BY <1>6, <1>7 DEF Steps, Goes
  <2>2. phase' = phase /\ stream' = stream /\ at' = at /\ outcomes' = outcomes
    BY <1>7 DEF ReplayCommand, report
  <2>3. Progress(idx, Q, h)'
    BY <1>1, <1>3, <1>4, <1>7, <1>n, <2>1, <2>2 DEF Progress
  <2>4. Rebuilding(Q, h)'
    BY <1>1, <1>3, <2>2, <2>3 DEF Rebuilding
  <2> QED
    BY <1>1, <1>2, <2>2, <2>4 DEF Story
<1>8. CASE pc' = "idle"
  <2>w. PICK u, w : u = tables' /\ w = result'.verdict
    OBVIOUS
  <2>1. Settles(h[q], c, u, w)
    BY <1>5, <1>6, <1>8, <2>w DEF Steps, Goes
  <2>2. w \in Verdict
    BY <2>1, SettlesVerdict
  <2>3. PICK v : Settles(h[q], c, h[q + 1], v) /\ (v = "refused" <=> S[q + 1] = "refused")
    <3>1. q + 1 \in 1..Len(served) /\ (q + 1) - 1 = q
      BY <1>2, <1>4, <1>5, <1>n
    <3> QED
      BY <1>2, <1>4, <1>n, <3>1 DEF Ran
  <2>4. u = h[q + 1] /\ w = v
    BY <1>5, <2>1, <2>3, SettlesOnce
  <2>5. /\ outcomes' = Append(outcomes, w) /\ at' = a + 1 /\ stream' = stream
        /\ phase' \in {"replaying", "aborted"}
    BY <1>1, <1>8, <1>n, <2>w DEF ReplayCommand
  <2>6. /\ outcomes' \in Seq(Verdict) /\ Len(outcomes') = q + 1 /\ outcomes'[q + 1] = w
        /\ \A i \in 1..q : outcomes'[i] = outcomes[i]
    BY <1>5, <1>n, <2>2, <2>5
  <2>7. CASE phase' = "aborted"
    <3>1. q + 1 \in 0..Len(Q)
      BY <1>4, <1>5, <1>n
    <3>2. Rebuilding(Q, h)'
      BY <2>4, <2>7, <2>w, <3>1 DEF Rebuilding
    <3> QED
      BY <1>1, <1>2, <2>7, <3>2 DEF Story
  <2>8. CASE phase' = "replaying"
    <3>1. \A i \in 1..n : idx[i] < a + 1 <=> i <= q + 1
      <4>1. \A i \in 1..n : idx[i] \in Nat
        BY <1>3, <1>n DEF Lists
      <4>2. \A i \in 1..n : i > q + 1 => idx[i] > a
        <5>1. q + 1 \in 1..n
          BY <1>4, <1>5
        <5>2. \A i, j \in 1..n : i < j => idx[i] < idx[j]
          BY <1>3, <1>n DEF Lists
        <5> QED
          BY <1>4, <1>5, <4>1, <5>1, <5>2
      <4> QED
        BY <1>4, <1>5, <4>1, <4>2
    <3>2. \A i \in 1..(q + 1) : outcomes'[i] = "refused" <=> S[i] = "refused"
      BY <1>5, <2>3, <2>4, <2>6
    <3>3. q + 1 <= n
      BY <1>4, <1>5
    <3>4. Progress(idx, Q, h)'
      BY <1>1, <1>5, <1>8, <1>n, <2>4, <2>5, <2>6, <2>w, <3>1, <3>2, <3>3 DEF Progress
    <3>5. Rebuilding(Q, h)'
      BY <1>3, <2>5, <2>8, <3>4 DEF Rebuilding
    <3> QED
      BY <1>1, <1>2, <2>8, <3>5 DEF Story
  <2> QED
    BY <2>5, <2>7, <2>8
<1> QED
  BY <1>6, <1>7, <1>8 DEF Steps, Goes

-----------------------------------------------------------------------------
(* Every behaviour tells such a story                                       *)

\* Nothing has been published at the start.
LEMMA StoryBegins == RebuildInit => StoryInv
<1> SUFFICES ASSUME RebuildInit PROVE StoryInv
  OBVIOUS
<1> DEFINE h == [i \in {0} |-> Wiped]
           N == <<>>
<1>1. /\ Init /\ nodes = <<>> /\ phase = "serving" /\ inbox = <<>> /\ step = "waiting"
      /\ capture = {} /\ served = <<>> /\ late = {} /\ bounds = [b \in Counted |-> 0]
  BY DEF RebuildInit, Counted
<1>2. Counts
  BY <1>1 DEF Counts
<1>3. pc = "idle" /\ tables = Wiped
  <2>1. SeedIds = {}
    BY <1>1 DEF Init
  <2>2. {n.alias : n \in SeedNodes} = {}
    BY <2>1 DEF SeedIds
  <2>3. ledger = <<>>
    <3> DEFINE owner(a) == (CHOOSE n \in SeedNodes : n.alias = a).g_node_id
    <3>1. ledger = [a \in {} |-> owner(a)]
      BY <1>1, <2>2 DEF Init
    <3> HIDE DEF owner
    <3> QED
      BY <3>1
  <2> QED
    BY <1>1, <2>3 DEF Init, tables, Wiped
<1>4. N \in Seq(Cmd) /\ N \in Seq(Verdict) /\ Len(N) = 0
  OBVIOUS
<1>5. h[0] = Wiped
  OBVIOUS
<1> HIDE DEF h, N
<1>6. Ran(h, N, N)
  BY <1>4, <1>5 DEF Ran, Extends
<1>7. Recorded(N, capture)
  <2>1. InOrder({})
    BY FS_EmptySet DEF InOrder
  <2>2. Names(N, N, {})
    BY <1>4 DEF Names
  <2> QED
    BY <1>1, <2>1, <2>2 DEF Recorded
<1>8. Waits(N)
  BY <1>1, <1>4 DEF Waits, N
<1>9. InHand(Wiped)
  BY <1>1, <1>3 DEF InHand, Taking
<1>10. Story(N, h)
  BY <1>1, <1>4, <1>5, <1>6, <1>7, <1>8, <1>9 DEF Story, N
<1> QED
  BY <1>2, <1>10 DEF StoryInv

\* Counts only go up.
LEMMA CountUp ==
    ASSUME Counts, NEW what, Count(what)
    PROVE  /\ bounds' \in [Counted -> Nat]
           /\ \A b \in Counted : bounds[b] <= bounds'[b] /\ (b \in what => bounds'[b] > 0)
<1>1. DOMAIN bounds = Counted /\ \A b \in Counted : bounds[b] \in Nat
  BY DEF Counts
<1>2. bounds' = [b \in Counted |-> IF b \in what THEN bounds[b] + 1 ELSE bounds[b]]
  BY <1>1 DEF Count
<1> QED
  BY <1>1, <1>2

\* Who has heard all after a step has heard all before it, and the step was no
\* fault of the ear or the broker.
Heedful ==
    /\ CommandsKept' => CommandsKept
    /\ HeardAll' => HeardAll

LEMMA KeptBefore ==
    ASSUME bounds \in [Counted -> Nat], bounds' \in [Counted -> Nat],
           \A b \in Counted : bounds[b] <= bounds'[b]
    PROVE  Heedful
<1>1. \A b \in Counted : bounds'[b] = 0 => bounds[b] = 0
  OBVIOUS
<1> QED
  BY <1>1 DEF Heedful, CommandsKept, HeardAll, Counted

\* Every step counts, or leaves the counts alone; a command that becomes late is
\* counted.
LEMMA StepsCount ==
    ASSUME Counts, [RebuildNext]_allVars
    PROVE  /\ UNCHANGED bounds \/ \E what : Count(what)
           /\ late' \subseteq late \/ \E what : Count(what) /\ "late" \in what
<1>1. ASSUME NEW c \in Cmd, Publish(c)
      PROVE  (\E what : Count(what)) /\ (late' = late \/ \E what : Count(what) /\ "late" \in what)
  BY <1>1 DEF Publish
<1>2. ASSUME NEW c \in Cmd, Overhear(c) PROVE UNCHANGED bounds /\ late' \subseteq late
  BY <1>2 DEF Overhear
<1>3. ASSUME NEW root, broadcast_snapshot(root) PROVE (\E what : Count(what)) /\ late' = late
  BY <1>3 DEF broadcast_snapshot
<1>4. Crash \/ Interrupt => (\E what : Count(what)) /\ late' = late
  BY DEF Crash, Interrupt, service
<1>5. Answer => (UNCHANGED bounds \/ \E what : Count(what)) /\ late' = late
  BY DEF Answer
<1>6. Handle \/ Requeue \/ Stop \/ ReplayStep => UNCHANGED bounds /\ late' = late
  BY DEF Handle, Requeue, Stop, ReplayStep, ReplayCommand, Checkpoint, Finish, service
<1>7. ASSUME NEW wipe \in BOOLEAN, _run_rebuild(wipe) PROVE UNCHANGED bounds /\ late' = late
  BY <1>7 DEF _run_rebuild, service
<1>8. UNCHANGED allVars => UNCHANGED bounds /\ late' = late
  BY DEF allVars, service
<1> QED
  BY <1>1, <1>2, <1>3, <1>4, <1>5, <1>6, <1>7, <1>8 DEF RebuildNext

\* The ear does not get back what it missed.
LEMMA HeardBefore ==
    ASSUME Counts, [RebuildNext]_allVars
    PROVE  Counts' /\ Heedful
<1>1. bounds \in [Counted -> Nat] /\ (late # {} => bounds["late"] > 0) /\ "late" \in Counted
  BY DEF Counts, Counted
<1>2. /\ bounds' \in [Counted -> Nat]
      /\ \A b \in Counted : bounds[b] <= bounds'[b]
  <2>1. CASE UNCHANGED bounds
    <3>1. \A b \in Counted : bounds[b] \in Nat
      BY <1>1
    <3> QED
      BY <1>1, <2>1, <3>1
  <2>2. ASSUME NEW what, Count(what)
        PROVE  bounds' \in [Counted -> Nat] /\ \A b \in Counted : bounds[b] <= bounds'[b]
    BY <2>2, CountUp
  <2> QED
    BY <2>1, <2>2, StepsCount
<1>3. late' # {} => bounds'["late"] > 0
  <2>1. CASE late' \subseteq late
    <3>1. bounds["late"] \in Nat /\ bounds'["late"] \in Nat /\ bounds["late"] <= bounds'["late"]
      BY <1>1, <1>2
    <3> QED
      BY <1>1, <2>1, <3>1
  <2>2. ASSUME NEW what, Count(what), "late" \in what PROVE bounds'["late"] > 0
    BY <1>1, <2>2, CountUp
  <2> QED
    BY <2>1, <2>2, StepsCount
<1>4. Counts'
  BY <1>2, <1>3 DEF Counts
<1> QED
  BY <1>1, <1>2, <1>4, KeptBefore

\* What no step does that the ear and the broker keep up with.
LEMMA NoFault ==
    ASSUME Counts, Counts', NEW what, Count(what)
    PROVE  /\ CommandsKept' => what \cap {"missed", "late", "requeued", "lost"} = {}
           /\ HeardAll' => "deaf" \notin what
<1>1. \A b \in what \cap Counted : bounds'[b] # 0
  BY CountUp DEF Counts
<1> QED
  BY <1>1 DEF CommandsKept, HeardAll, Counted

\* Nothing is under way to an ear that keeps up.
LEMMA NoneLate ==
    ASSUME Counts, CommandsKept
    PROVE  late = {}
<1>1. bounds.late = 0
  BY DEF CommandsKept
<1> QED
  BY <1>1 DEF Counts

\* Nothing happens.
LEMMA StutterGoesOn ==
    ASSUME NEW Q, NEW h, Story(Q, h), UNCHANGED allVars
    PROVE  Story(Q, h)'
<1>1. /\ phase' = phase /\ inbox' = inbox /\ step' = step /\ capture' = capture /\ served' = served
      /\ live' = live /\ stream' = stream /\ at' = at /\ outcomes' = outcomes
      /\ tables' = tables /\ log' = log /\ pc' = pc /\ cmd' = cmd /\ txNodes' = txNodes
      /\ txLedger' = txLedger /\ todo' = todo /\ updated' = updated /\ result' = result
  BY DEF allVars, vars, service, report, tables
<1> QED
  BY <1>1 DEF Story, Waits, InHand, Taking, Applying, Answering, Rebuilding, Progress

\* One step of any of them goes on with the story, which the answers prolong.
LEMMA StoryNext ==
    ASSUME Plain, StoryInv, [RebuildNext]_allVars
    PROVE  StoryInv'
<1>1. Counts /\ Counts' /\ Heedful
  BY HeardBefore DEF StoryInv
<1> SUFFICES ASSUME CommandsKept' PROVE \E R, g : Story(R, g)'
  BY <1>1 DEF StoryInv
<1>2. PICK Q, h : Story(Q, h)
  BY <1>1 DEF StoryInv, Heedful
<1>3. ASSUME NEW c \in Cmd, Publish(c) PROVE \E R, g : Story(R, g)'
  <2>1. ~Count({"published", "missed"}) /\ ~Count({"published", "late"})
    BY <1>1, NoFault
  <2>2. capture' = Stored(capture, c.type_name, c)
    BY <1>3, <2>1 DEF Publish
  <2>3. Story(Append(Q, c), h)'
    BY <1>2, <1>3, <2>2, PublishGoesOn
  <2> QED
    BY <2>3
<1>4. CASE Handle
  BY <1>2, <1>4, HandleGoesOn
<1>5. CASE Answer
  <2>1. PICK n, u : n = Len(served) /\ u = tables
    OBVIOUS
  <2> QED
    BY <1>2, <1>5, <2>1, AnswerGoesOn
<1>6. CASE Crash \/ Requeue
  <2>1. ~Count({"crashes", "requeued"}) /\ ~Count({"crashes", "lost"})
    BY <1>1, NoFault
  <2>2. (Crash /\ inbox' = inbox) \/ Requeue
    BY <1>6, <2>1 DEF Crash
  <2> QED
    BY <1>2, <2>2, CrashGoesOn
<1>7. CASE Stop
  BY <1>2, <1>7, StopGoesOn
<1>8. ASSUME NEW root \in forest_roots, broadcast_snapshot(root) PROVE \E R, g : Story(R, g)'
  BY <1>2, <1>8, SnapshotGoesOn
<1>9. ASSUME NEW wipe \in BOOLEAN, _run_rebuild(wipe) PROVE \E R, g : Story(R, g)'
  BY <1>2, <1>9, RunGoesOn
<1>10. CASE ReplayCommand
  BY <1>2, <1>10, ReplayGoesOn
<1>11. CASE Checkpoint
  BY <1>2, <1>11, CheckpointGoesOn
<1>12. CASE Finish
  BY <1>2, <1>12, FinishGoesOn
<1>13. CASE Interrupt
  BY <1>2, <1>13, InterruptGoesOn
<1>14. CASE UNCHANGED allVars
  BY <1>2, <1>14, StutterGoesOn
<1>15. ASSUME NEW c \in Cmd PROVE ~Overhear(c)
  BY <1>1, NoneLate DEF Overhear, Heedful
<1> QED
  BY <1>3, <1>4, <1>5, <1>6, <1>7, <1>8, <1>9, <1>10, <1>11, <1>12, <1>13, <1>14, <1>15
  DEF RebuildNext, ReplayStep

\* The registry, its inbox, the ear's store and the rebuild always tell one
\* story of the published commands, in every order of publishing, handling,
\* answering, dying and rebuilding.
THEOREM StoryInvariance == ASSUME Plain PROVE RebuildSpec => []StoryInv
<1>1. RebuildInit => StoryInv
  BY StoryBegins
<1>2. StoryInv /\ [RebuildNext]_allVars => StoryInv'
  BY StoryNext
<1> QED
  BY <1>1, <1>2, PTL DEF RebuildSpec

-----------------------------------------------------------------------------
(* What the story says of the rebuild                                       *)

\* A rebuild of everything that was published ends with the rows, the ledger
\* and the command log that the service had: the replay of replay() in
\* capture order is deterministic.
THEOREM RebuildIsFaithful == ASSUME Plain PROVE RebuildSpec => []RebuildReproduces
<1>1. StoryInv => RebuildReproduces
  <2> SUFFICES ASSUME StoryInv, phase = "ended", CommandsKept PROVE tables = live
    BY DEF RebuildReproduces
  <2>1. PICK Q, h : Story(Q, h)
    BY DEF StoryInv
  <2>2. Rebuilding(Q, h)
    BY <2>1 DEF Story
  <2> QED
    BY <2>2 DEF Rebuilding
<1> QED
  BY <1>1, StoryInvariance, PTL

\* A half rebuilt registry, also one whose rebuild died or gave up, binds an
\* alias only to the node that the service bound it to.
THEOREM NoWrongNames == ASSUME Plain PROVE RebuildSpec => []NoWrongNameMidway
<1>1. StoryInv => NoWrongNameMidway
  <2> SUFFICES ASSUME StoryInv, CommandsKept,
                      phase \in {"replaying", "ended"} \/ (phase = "down" /\ stream # <<>>)
               PROVE  Extends(live[2], ledger)
    BY DEF NoWrongNameMidway, Extends
  <2>1. PICK Q, h : Story(Q, h)
    BY DEF StoryInv
  <2>2. /\ Q \in Seq(Cmd) /\ Ran(h, Q, served) /\ Len(Q) = Len(served)
        /\ live = h[Len(served)] /\ Rebuilding(Q, h)
    BY <2>1 DEF Story
  <2>3. PICK q \in 0..Len(served) : tables = h[q]
    BY <2>2 DEF Rebuilding, Progress
  <2>4. Extends(h[Len(served)][2], h[q][2])
    BY <2>2, <2>3 DEF Ran
  <2>5. tables[2] = ledger
    BY DEF tables
  <2> QED
    BY <2>2, <2>3, <2>4, <2>5
<1> QED
  BY <1>1, StoryInvariance, PTL

\* A captured refusal refuses again, and nothing else does: the tables that a
\* replayed command finds are those that the service's found.
THEOREM RefusalsAgain == ASSUME Plain PROVE RebuildSpec => []RefusalsRefuse
<1>1. StoryInv => RefusalsRefuse
  <2> SUFFICES ASSUME StoryInv, phase = "ended", CommandsKept
               PROVE  /\ Len(outcomes) = Len(served)
                      /\ \A i \in DOMAIN outcomes : outcomes[i] = "refused" <=> served[i] = "refused"
    BY DEF RefusalsRefuse
  <2>1. PICK Q, h : Story(Q, h)
    BY DEF StoryInv
  <2>2. Len(Q) = Len(served) /\ Rebuilding(Q, h)
    BY <2>1 DEF Story
  <2>3. /\ outcomes \in Seq(Verdict) /\ Len(outcomes) = Len(Q)
        /\ \A i \in 1..Len(Q) : outcomes[i] = "refused" <=> served[i] = "refused"
    BY <2>2 DEF Rebuilding
  <2>4. DOMAIN outcomes = 1..Len(outcomes)
    BY <2>3
  <2> QED
    BY <2>2, <2>3, <2>4
<1> QED
  BY <1>1, StoryInvariance, PTL

-----------------------------------------------------------------------------
(* The registry inside the rebuild *)

\* A session that ends with its process, or with an operation that only reads,
\* leaves the registry as a rolled back transaction does.
LEMMA ClosedKeeps ==
    ASSUME IInv, UNCHANGED tables, Close, result' = NULL
    PROVE  IInv'
<1>1. /\ UNCHANGED <<nodes, ledger, log>>
      /\ pc' = "idle" /\ cmd' = NULL /\ txNodes' = nodes' /\ txLedger' = ledger'
      /\ todo' = <<>> /\ updated' = {} /\ result' = NULL
  BY DEF Close, tables
<1>2. TypeOK'
  BY <1>1 DEF IInv, SoundInv, TypeOK
<1>3. LedgerCoversLive' /\ LogAccountsForNodes' /\ RowsDecode' /\ ValidateClean'
  BY <1>1 DEF IInv, SoundInv, LedgerCoversLive, LogAccountsForNodes, RowsDecode, ValidateClean
<1>4. CreateAnswered' /\ pc' # "rewriting"
  BY <1>1 DEF CreateAnswered
<1> QED
  BY <1>2, <1>3, <1>4 DEF IInv, SoundInv

\* The wiped registry satisfies the invariant.
LEMMA WipedInv ==
    ASSUME Plain, SeedIds = {}, Wipe, Close, result' = NULL
    PROVE  IInv'
<1>1. /\ nodes' = <<>> /\ ledger' = <<>> /\ log' = {}
      /\ pc' = "idle" /\ cmd' = NULL /\ txNodes' = nodes' /\ txLedger' = ledger'
      /\ todo' = <<>> /\ updated' = {} /\ result' = NULL
  BY DEF Wipe, Close
<1>2. DOMAIN nodes' = {} /\ DOMAIN ledger' = {}
  BY <1>1
<1>3. NodeTable(nodes') /\ OwnerTable(ledger')
  BY <1>1 DEF NodeTable, OwnerTable
<1>4. TypeOK'
  BY <1>1, <1>3 DEF TypeOK
<1>5. LedgerCoversLive' /\ LogAccountsForNodes' /\ RowsDecode'
  BY <1>1, <1>2 DEF LedgerCoversLive, CoversLive, LogAccountsForNodes, RowsDecode
<1>6. ValidateClean'
  BY <1>2 DEF Plain, ValidateClean, validate_registry, check_universe_scope,
      check_parent_closed_active, check_edges_non_tree, check_class_hierarchy,
      check_active_physical_have_position
<1>7. CreateAnswered' /\ pc' # "rewriting"
  BY <1>1 DEF CreateAnswered
<1> QED
  BY <1>4, <1>5, <1>6, <1>7 DEF IInv, SoundInv

\* Seen from the registry, the service and the rebuild take its steps, die, or
\* begin a rebuild, which may wipe it first.
LEMMA RebuildSteps ==
    ASSUME Plain, [RebuildNext]_allVars
    PROVE  \/ [Next]_vars
           \/ (Wipe \/ UNCHANGED tables) /\ Close /\ result' = NULL
<1>1. ASSUME NEW c \in Cmd, Publish(c) \/ Overhear(c) PROVE UNCHANGED vars
  BY <1>1 DEF Publish, Overhear
<1>2. CASE Handle
  <2>1. CASE apply(Head(inbox))
    BY <2>1 DEF apply, Next
  <2>2. CASE RewriteChild \/ CommitReparent
    BY <2>2 DEF Next
  <2> QED
    BY <1>2, <2>1, <2>2 DEF Handle
<1>3. CASE Crash \/ Interrupt
  BY <1>3 DEF Crash, Interrupt, Dies
<1>4. ASSUME NEW wipe \in BOOLEAN, _run_rebuild(wipe)
      PROVE  (Wipe \/ UNCHANGED tables) /\ Close /\ result' = NULL
  BY <1>4 DEF _run_rebuild
<1>5. CASE ReplayCommand
  <2>1. CASE Object.body \in CreateCmd /\ Restored!apply_create(Object.body)
    BY <2>1, SameCalls DEF Cmd, Next
  <2>2. CASE Object.body \in ReparentCmd /\ Restored!apply_reparent(Object.body)
    BY <2>2, SameCalls DEF Cmd, Next
  <2>3. CASE Restored!RewriteChild \/ Restored!CommitReparent
    BY <2>3, SameRounds DEF Next
  <2> QED
    BY <1>5, <2>1, <2>2, <2>3 DEF ReplayCommand
<1>6. CASE Answer \/ Requeue \/ Stop \/ Checkpoint \/ Finish
  BY <1>6 DEF Answer, Requeue, Stop, Checkpoint, Finish
<1>7. ASSUME NEW root \in forest_roots, broadcast_snapshot(root) PROVE UNCHANGED vars
  BY <1>7 DEF broadcast_snapshot
<1>8. CASE UNCHANGED allVars
  BY <1>8 DEF allVars
<1> QED
  BY <1>1, <1>2, <1>3, <1>4, <1>5, <1>6, <1>7, <1>8 DEF RebuildNext, ReplayStep

\* "The end state must be validate_registry-clean" (rebuild.py:15): the service
\* that is captured and the rebuild, at every point of the replay, after a death
\* and after a wipe, keep every invariant of the registry, whatever the ear
\* missed.
THEOREM RebuildKeepsRegistry ==
    ASSUME Plain
    PROVE  RebuildSpec => [](TypeOK /\ LedgerCoversLive /\ LogAccountsForNodes /\ RowsDecode
                             /\ ValidateClean /\ CreateAnswered)
<1> DEFINE Inv == IInv /\ SeedIds = {}
<1>1. RebuildInit => Inv
  <2>1. RebuildInit => SeedIds = {}
    BY DEF RebuildInit, Init
  <2>2. RebuildInit => IInv
    BY InitInv DEF RebuildInit
  <2> QED
    BY <2>1, <2>2
<1>2. Inv /\ [RebuildNext]_allVars => Inv'
  <2> SUFFICES ASSUME IInv, SeedIds = {}, [RebuildNext]_allVars PROVE IInv'
    BY DEF SeedIds
  <2>1. CASE [Next]_vars
    BY <2>1, NextInv
  <2>2. CASE UNCHANGED tables /\ Close /\ result' = NULL
    BY <2>2, ClosedKeeps
  <2>3. CASE Wipe /\ Close /\ result' = NULL
    BY <2>3, WipedInv
  <2> QED
    BY <2>1, <2>2, <2>3, RebuildSteps
<1>3. Inv => TypeOK /\ LedgerCoversLive /\ LogAccountsForNodes /\ RowsDecode
                /\ ValidateClean /\ CreateAnswered
  BY DEF IInv, SoundInv
<1> QED
  BY <1>1, <1>2, <1>3, PTL DEF RebuildSpec
-----------------------------------------------------------------------------
(* What the service says, and whether the rebuild says the same             *)

\* Three things that keep a rebuild's own broadcasts from those it was given: the
\* database may list the rows of the answer in more than one order; the service
\* dies after a commit, before it has broadcast the change; a snapshot falls while
\* commands wait that the ear has heard already.
Unsettling ==
    \/ Answer /\ ~\E order : Orders(result) = {order}
    \/ Crash /\ step = "answered" /\ result.verdict = "applied"
    \/ inbox # <<>> /\ \E root \in forest_roots : broadcast_snapshot(root)

SteadySpec == RebuildSpec /\ [][~Unsettling]_allVars

\* A forest of a table, as get_forest reads it.
Shown(table, roots) == Forest(table, roots, UNION {Subtree(table, r) : r \in roots})

\* The forest in the ending r of a command c that found the tables t.
Tells(t, c, r) ==
    LET n == c.new_node
    IN  /\ r.verdict = "replayed" => r.forest = Shown(t[1], {n.alias})
        /\ r.verdict = "applied" /\ c \in CreateCmd =>
                r.forest = [roots |-> {n.alias}, nodes |-> {n}, edges |-> {}]
        /\ r.verdict = "applied" /\ c \in ReparentCmd =>
                \E w : /\ Reaches(t, c, Len(c.moved_child_g_node_ids), w)
                       /\ r.forest = Forest(w[1], {n.alias}, w[3])

\* It ends a command with the tables u and with its forest.
Ends(t, c, u, r) == Settles(t, c, u, r.verdict) /\ Tells(t, c, r)

\* A command is told of in one way, as it does one thing.
LEMMA EndsOnce ==
    ASSUME NEW t, NEW c \in Cmd, NEW u1, NEW u2, NEW r1, NEW r2,
           Ends(t, c, u1, r1), Ends(t, c, u2, r2)
    PROVE  /\ u1 = u2 /\ r1.verdict = r2.verdict
           /\ Broadcast(r1) => r1.forest = r2.forest
<1>1. u1 = u2 /\ r1.verdict = r2.verdict
  BY SettlesOnce DEF Ends
<1>2. CASE r1.verdict = "replayed"
  BY <1>1, <1>2 DEF Ends, Tells
<1>3. CASE r1.verdict = "applied" /\ c \in CreateCmd
  BY <1>1, <1>3 DEF Ends, Tells
<1>4. CASE r1.verdict = "applied" /\ c \in ReparentCmd
  <2> DEFINE L == Len(c.moved_child_g_node_ids)
  <2>1. L \in Nat
    BY <1>4, CmdFacts DEF Cmd
  <2>2. PICK w1 : Reaches(t, c, L, w1) /\ r1.forest = Forest(w1[1], {c.new_node.alias}, w1[3])
    BY <1>4 DEF Ends, Tells
  <2>3. PICK w2 : Reaches(t, c, L, w2) /\ r2.forest = Forest(w2[1], {c.new_node.alias}, w2[3])
    BY <1>1, <1>4 DEF Ends, Tells
  <2> HIDE DEF L
  <2>4. w1 = w2
    BY <2>1, <2>2, <2>3, WalksAgree DEF Reaches
  <2> QED
    BY <1>1, <2>2, <2>3, <2>4
<1> QED
  BY <1>1, <1>2, <1>3, <1>4 DEF Broadcast, Cmd

\* A step of a handler on behalf of c.
Serves(c) ==
    \/ c \in CreateCmd /\ apply_create(c)
    \/ c \in ReparentCmd /\ apply_reparent(c)
    \/ /\ cmd = c /\ OpenAt(tables, c, <<txNodes, txLedger, updated>>, todo)
       /\ RewriteChild \/ CommitReparent

\* The handlers end their commands so.
LEMMA HandlersTell ==
    ASSUME Plain, NEW c \in Cmd, Serves(c), pc' = "idle"
    PROVE  Ends(tables, c, tables', result')
<1>1. Steps(c)
  BY CreateGoes, ReparentGoes, RoundGoes, CommitGoes DEF Serves
<1>2. Settles(tables, c, tables', result'.verdict)
  BY <1>1 DEF Steps, Goes
<1>3. \A a : get_forest({a}) = Shown(nodes, {a})
  BY DEF get_forest, Shown
<1>4. ASSUME Replay(c) PROVE Tells(tables, c, result')
  <2>1. result'.verdict = "replayed" /\ result'.forest = Shown(nodes, {c.new_node.alias})
    BY <1>3, <1>4 DEF Replay, End
  <2> QED
    BY <2>1 DEF Tells, tables
<1>5. ASSUME result'.verdict \in {"refused", "escaped"} PROVE Tells(tables, c, result')
  BY <1>5 DEF Tells
<1>6. CASE c \in CreateCmd /\ apply_create(c)
  <2>1. c \notin ReparentCmd
    BY <1>6, CmdFacts
  <2>2. CASE CommitCreate(c) /\ ~InsertFails(c.new_node)
    <3>1. /\ result'.verdict = "applied"
          /\ result'.forest = [roots |-> {c.new_node.alias}, nodes |-> {c.new_node}, edges |-> {}]
      BY <2>2 DEF CommitCreate, End
    <3> QED
      BY <1>2, <2>1, <3>1 DEF Ends, Tells
  <2>3. CASE RefuseCreate(c) \/ (CommitCreate(c) /\ InsertFails(c.new_node))
    <3>1. result'.verdict \in {"refused", "escaped"}
      BY <2>3 DEF RefuseCreate, CommitCreate, End
    <3> QED
      BY <1>2, <1>5, <3>1 DEF Ends
  <2> QED
    BY <1>2, <1>4, <1>6, <2>2, <2>3 DEF apply_create, Ends
<1>7. CASE c \in ReparentCmd /\ apply_reparent(c)
  <2>1. CASE RefuseReparent(c) \/ FailReparent(c)
    <3>1. result'.verdict \in {"refused", "escaped"}
      BY <2>1 DEF RefuseReparent, FailReparent, End
    <3> QED
      BY <1>2, <1>5, <3>1 DEF Ends
  <2>2. ~BeginReparent(c)
    BY DEF BeginReparent
  <2> QED
    BY <1>2, <1>4, <1>7, <2>1, <2>2 DEF apply_reparent, Ends
<1>8. CASE RewriteChild
  <2>1. result'.verdict = "escaped"
    BY <1>8 DEF RewriteChild, Rollback, End
  <2> QED
    BY <1>2, <1>5, <2>1 DEF Ends
<1>9. CASE /\ cmd = c /\ OpenAt(tables, c, <<txNodes, txLedger, updated>>, todo)
           /\ CommitReparent
  <2>1. CASE Clean(txNodes) /\ BroadcastDecodes
    <3> DEFINE w == <<txNodes, txLedger, updated>>
               L == Len(c.moved_child_g_node_ids)
    <3>1. /\ result'.verdict = "applied"
          /\ result'.forest = Forest(w[1], {c.new_node.alias}, w[3])
      BY <1>9, <2>1 DEF CommitReparent, End
    <3>2. c \in ReparentCmd /\ c \notin CreateCmd
      BY <1>9, CmdFacts DEF OpenAt, Opens
    <3>3. PICK k : Reaches(tables, c, k, w) /\ Len(todo) = L - k
      BY <1>9 DEF OpenAt
    <3>4. k = L
      <4>1. L \in Nat
        BY <3>2, CmdFacts DEF Cmd
      <4>2. k \in Nat /\ Len(todo) = 0
        BY <1>9, <3>3, <4>1 DEF Reaches, CommitReparent
      <4> HIDE DEF L
      <4> QED
        BY <3>3, <4>1, <4>2
    <3>5. Tells(tables, c, result')
      <4> HIDE DEF w
      <4> QED
        BY <3>1, <3>2, <3>3, <3>4 DEF Tells
    <3> QED
      BY <1>2, <3>5 DEF Ends
  <2>2. CASE ~(Clean(txNodes) /\ BroadcastDecodes)
    <3>1. result'.verdict \in {"refused", "escaped"}
      BY <1>9, <2>2 DEF CommitReparent, Rollback, End
    <3> QED
      BY <1>2, <1>5, <3>1 DEF Ends
  <2> QED
    BY <2>1, <2>2
<1> QED
  BY <1>6, <1>7, <1>8, <1>9 DEF Serves

\* The forest message by which the ending r is broadcast.
Said(r) == Message(r.forest, CHOOSE order : Orders(r) = {order})

\* The commands among the first n that were broadcast, e being how they ended.
Loud(e, n) == {i \in 1..n : Broadcast(e[i])}

\* The object o is a snapshot of the tables after m commands; name and spk say
\* where the commands and the broadcasts of them are.
Snapped(Q, h, e, name, spk, m, o) ==
    /\ \E root : o.body = Message(Shown(h[m][1], {root}), "by alias")
    /\ \A i \in 1..Len(Q) : IF i <= m THEN Before(name[i], o) ELSE Before(o, name[i])
    /\ \A i \in Loud(e, m) : Before(spk[i], o)

\* A store holds the broadcasts of the first n commands, after their commands and
\* in their order, and no other forests but snapshots.
Voiced(Q, h, e, name, spk, n, store) ==
    /\ \A i \in Loud(e, n) :
        spk[i] \in store /\ spk[i].type_name = FOREST /\ spk[i].body = Said(e[i])
        /\ Before(name[i], spk[i])
    /\ \A i, j \in Loud(e, n) : i < j => Before(spk[i], spk[j])
    /\ \A o \in store : o.type_name = FOREST =>
        \/ \E i \in Loud(e, n) : o = spk[i]
        \/ \E m \in 0..n : Snapped(Q, h, e, name, spk, m, o)

\* The same of a list of objects, where idx and pos are places in the list.
Glimpsed(Q, h, e, idx, pos, m, k, body) ==
    /\ \E root : body = Message(Shown(h[m][1], {root}), "by alias")
    /\ \A i \in 1..Len(Q) : idx[i] < k <=> i <= m
    /\ \A i \in Loud(e, m) : pos[i] < k

Script(Q, h, e, idx, pos, objs) ==
    /\ Lists(idx, Q, objs)
    /\ \A i \in Loud(e, Len(Q)) :
        pos[i] \in 1..Len(objs) /\ objs[pos[i]].type_name = FOREST
        /\ objs[pos[i]].body = Said(e[i]) /\ idx[i] < pos[i]
    /\ \A i, j \in Loud(e, Len(Q)) : i < j => pos[i] < pos[j]
    /\ \A k \in 1..Len(objs) : objs[k].type_name = FOREST =>
        \/ \E i \in Loud(e, Len(Q)) : k = pos[i]
        \/ \E m \in 0..Len(Q) : Glimpsed(Q, h, e, idx, pos, m, k, objs[k].body)

\* The rebuild's list has the broadcasts where they were spoken.
LEMMA ScriptListed ==
    ASSUME NEW Q \in Seq(Cmd), NEW h, NEW e, NEW name, NEW spk, InOrder(capture),
           Names(name, Q, capture), Voiced(Q, h, e, name, spk, Len(Q), capture)
    PROVE  \E idx, pos : Script(Q, h, e, idx, pos, capture_objects)
<1>n. PICK n, N, list : n = Len(Q) /\ N = Len(capture_objects) /\ list = capture_objects
  OBVIOUS
<1>1. PICK place : Places(place)
  BY ListedInOrder
<1> DEFINE idx == [i \in 1..n |-> place[name[i]]]
           pos == [i \in 1..n |-> place[spk[i]]]
<1>2. \A i \in 1..n : idx[i] = place[name[i]] /\ pos[i] = place[spk[i]]
  OBVIOUS
<1> HIDE DEF idx, pos
<1>3. Lists(idx, Q, capture_objects)
  BY <1>1, <1>2, <1>n, CommandsListed
<1>4. /\ N \in Nat
      /\ \A o \in Replayable : place[o] \in 1..N /\ list[place[o]] = o
      /\ \A k \in 1..N : list[k] \in Replayable /\ place[list[k]] = k
      /\ \A o, p \in Replayable : Before(o, p) => place[o] < place[p]
  BY <1>1, <1>n DEF Places
<1>5. n \in Nat /\ \A m \in 0..n : \A i \in Loud(e, m) : i \in 1..m /\ i \in 1..n /\ i \in Loud(e, n)
  BY <1>n DEF Loud
<1>6. \A i \in 1..n : name[i] \in Replayable
  BY <1>n, CommandTypes DEF Names, IsCommand, Replayable, REPLAY_TYPE_NAMES
<1>7. \A i \in Loud(e, n) : /\ spk[i] \in Replayable /\ spk[i].type_name = FOREST
                            /\ spk[i].body = Said(e[i]) /\ Before(name[i], spk[i])
  BY <1>n DEF Voiced, Replayable, REPLAY_TYPE_NAMES
<1>8. \A i \in Loud(e, n) :
        pos[i] \in 1..N /\ list[pos[i]].type_name = FOREST
        /\ list[pos[i]].body = Said(e[i]) /\ idx[i] < pos[i]
  <2> SUFFICES ASSUME NEW i \in Loud(e, n)
               PROVE  /\ pos[i] \in 1..N /\ list[pos[i]].type_name = FOREST
                      /\ list[pos[i]].body = Said(e[i]) /\ idx[i] < pos[i]
    OBVIOUS
  <2>1. i \in 1..n
    BY DEF Loud
  <2>2. pos[i] = place[spk[i]] /\ idx[i] = place[name[i]]
    BY <1>2, <2>1
  <2> QED
    BY <1>4, <1>6, <1>7, <2>1, <2>2
<1>9. ASSUME NEW i \in Loud(e, n), NEW j \in Loud(e, n), i < j PROVE pos[i] < pos[j]
  <2>1. Before(spk[i], spk[j])
    BY <1>9, <1>n DEF Voiced
  <2>2. pos[i] = place[spk[i]] /\ pos[j] = place[spk[j]]
    BY <1>2 DEF Loud
  <2> QED
    BY <1>4, <1>7, <2>1, <2>2
<1>10. ASSUME NEW k \in 1..N, list[k].type_name = FOREST
       PROVE  \/ \E i \in Loud(e, n) : k = pos[i]
              \/ \E m \in 0..n : Glimpsed(Q, h, e, idx, pos, m, k, list[k].body)
  <2>o. PICK o : o = list[k]
    OBVIOUS
  <2>1. o \in Replayable /\ o \in capture /\ place[o] = k
    BY <1>4, <2>o DEF Replayable
  <2>2. \/ \E i \in Loud(e, n) : o = spk[i]
        \/ \E m \in 0..n : Snapped(Q, h, e, name, spk, m, o)
    BY <1>10, <1>n, <2>1, <2>o DEF Voiced
  <2>3. CASE \E i \in Loud(e, n) : o = spk[i]
    BY <1>2, <2>1, <2>3 DEF Loud
  <2>4. ASSUME NEW m \in 0..n, Snapped(Q, h, e, name, spk, m, o)
        PROVE  Glimpsed(Q, h, e, idx, pos, m, k, o.body)
    <3>1. ASSUME NEW i \in 1..n PROVE idx[i] < k <=> i <= m
      <4>1. idx[i] = place[name[i]] /\ name[i] \in Replayable
        BY <1>2, <1>6
      <4>2. idx[i] \in Nat /\ k \in Nat
        BY <1>4, <4>1
      <4>3. CASE i <= m
        <5>1. Before(name[i], o)
          BY <1>n, <2>4, <4>3 DEF Snapped
        <5> QED
          BY <1>4, <2>1, <4>1, <4>3, <5>1
      <4>4. CASE ~(i <= m)
        <5>1. Before(o, name[i])
          BY <1>n, <2>4, <4>4 DEF Snapped
        <5>2. k < idx[i]
          BY <1>4, <2>1, <4>1, <5>1
        <5> QED
          BY <4>2, <4>4, <5>2
      <4> QED
        BY <4>3, <4>4
    <3>2. ASSUME NEW i \in Loud(e, m) PROVE pos[i] < k
      <4>1. i \in 1..n /\ i \in Loud(e, n)
        BY <1>5
      <4>2. Before(spk[i], o)
        BY <2>4 DEF Snapped
      <4> QED
        BY <1>2, <1>4, <1>7, <2>1, <4>1, <4>2
    <3>3. \E root : o.body = Message(Shown(h[m][1], {root}), "by alias")
      BY <2>4 DEF Snapped
    <3> QED
      BY <1>n, <3>1, <3>2, <3>3 DEF Glimpsed
  <2> QED
    BY <2>2, <2>3, <2>4, <2>o
<1>11. Script(Q, h, e, idx, pos, capture_objects)
  BY <1>3, <1>8, <1>9, <1>10, <1>n DEF Script
<1> QED
  BY <1>11

\* There is one way to find the commands in a list.
LEMMA ListsOnce ==
    ASSUME NEW Q \in Seq(Cmd), NEW objs, NEW idx, Lists(idx, Q, objs),
           NEW jdx, Lists(jdx, Q, objs)
    PROVE  \A i \in 1..Len(Q) : idx[i] = jdx[i]
<1>n. PICK n : n = Len(Q)
  OBVIOUS
<1> DEFINE S == {i \in 1..n : idx[i] # jdx[i]}
<1>1. SUFFICES ASSUME S # {} PROVE FALSE
  BY <1>n
<1>2. n \in Nat /\ S \subseteq Nat
  BY <1>n
<1>3. PICK i \in S : \A j \in S : i <= j
  <2> HIDE DEF S
  <2> QED
    BY <1>1, <1>2, LeastNumber
<1>4. i \in 1..n /\ idx[i] # jdx[i] /\ \A j \in 1..n : j < i => idx[j] = jdx[j]
  BY <1>3
<1>5. ASSUME NEW f, NEW g, Lists(f, Q, objs), Lists(g, Q, objs),
             \A j \in 1..n : j < i => f[j] = g[j], f[i] < g[i]
      PROVE  FALSE
  <2>1. /\ \A j \in 1..n : f[j] \in 1..Len(objs) /\ IsCommand(objs[f[j]]) /\ g[j] \in Nat
        /\ \A j, k \in 1..n : j < k => f[j] < f[k] /\ g[j] < g[k]
    BY <1>5, <1>n DEF Lists
  <2>2. PICK k \in 1..n : f[i] = g[k]
    <3>1. f[i] \in 1..Len(objs) /\ IsCommand(objs[f[i]])
      BY <1>4, <2>1
    <3> QED
      BY <1>5, <1>n, <3>1 DEF Lists
  <2>3. CASE k < i
    BY <1>4, <1>5, <2>1, <2>2, <2>3
  <2>4. CASE ~(k < i)
    <3>1. g[i] <= g[k]
      BY <1>4, <2>1, <2>4
    <3> QED
      BY <1>4, <1>5, <2>1, <2>2, <3>1
  <2> QED
    BY <2>3, <2>4
<1>6. idx[i] \in Nat /\ jdx[i] \in Nat
  BY <1>4, <1>n DEF Lists
<1>7. ~(idx[i] < jdx[i])
  BY <1>4, <1>5
<1>8. ~(jdx[i] < idx[i])
  BY <1>4, <1>5
<1> QED
  BY <1>4, <1>6, <1>7, <1>8

\* A publish of another kind leaves the commands and the broadcasts where they are.
LEMMA OtherVoiced ==
    ASSUME NEW Q, NEW h, NEW e, NEW name, NEW spk, NEW n, NEW store,
           NEW type_name, NEW body, NEW o, Arrives(store, type_name, body, o)
    PROVE  /\ Names(name, Q, store) /\ type_name \notin {CREATE_CMD, REPARENT_CMD} =>
                Names(name, Q, store \cup {o})
           /\ Voiced(Q, h, e, name, spk, n, store) /\ type_name # FOREST =>
                Voiced(Q, h, e, name, spk, n, store \cup {o})
BY DEF Arrives, Names, IsCommand, Voiced

\* So does a command,
LEMMA CommandVoiced ==
    ASSUME NEW Q \in Seq(Cmd), NEW h, NEW e, NEW name, NEW spk, NEW n \in 0..Len(Q), NEW store,
           Voiced(Q, h, e, name, spk, n, store),
           NEW c \in Cmd, NEW o, Arrives(store, c.type_name, c, o)
    PROVE  Voiced(Append(Q, c), h, e, Prolonged(name, Len(Q) + 1, o), spk, n, store \cup {o})
<1> DEFINE L == Len(Q)
           Q2 == Append(Q, c)
           name2 == Prolonged(name, L + 1, o)
<1>1. L \in Nat /\ Len(Q2) = L + 1
  OBVIOUS
<1>2. name2[L + 1] = o /\ \A i \in 1..L : name2[i] = name[i]
  BY <1>1, ProlongedFacts
<1>3. n \in 0..L
  OBVIOUS
<1> HIDE DEF L, Q2, name2
<1>4. o.type_name # FOREST /\ \A p \in store : Before(p, o)
  BY CommandTypes DEF Arrives, IsCommand, FOREST, CREATE_CMD, REPARENT_CMD
<1>5. \A i \in Loud(e, n) : i \in 1..L
  BY <1>1, <1>3 DEF Loud
<1>6. ASSUME NEW p \in store, p.type_name = FOREST
      PROVE  \/ \E i \in Loud(e, n) : p = spk[i]
             \/ \E m \in 0..n : Snapped(Q2, h, e, name2, spk, m, p)
  <2>1. ASSUME NEW m \in 0..n, Snapped(Q, h, e, name, spk, m, p)
        PROVE  Snapped(Q2, h, e, name2, spk, m, p)
    <3>1. ASSUME NEW i \in 1..(L + 1)
          PROVE  IF i <= m THEN Before(name2[i], p) ELSE Before(p, name2[i])
      <4>1. CASE i = L + 1
        <5>1. ~(i <= m)
          BY <1>1, <1>3, <4>1
        <5> QED
          BY <1>2, <1>4, <4>1, <5>1
      <4>2. CASE i \in 1..L
        <5>1. IF i <= m THEN Before(name[i], p) ELSE Before(p, name[i])
          BY <2>1, <4>2 DEF Snapped, L
        <5> QED
          BY <1>2, <4>2, <5>1
      <4> QED
        BY <1>1, <4>1, <4>2
    <3> QED
      BY <1>1, <2>1, <3>1 DEF Snapped
  <2>2. \/ \E i \in Loud(e, n) : p = spk[i]
        \/ \E m \in 0..n : Snapped(Q, h, e, name, spk, m, p)
    BY <1>6 DEF Voiced
  <2> QED
    BY <2>1, <2>2
<1>7. \A i \in Loud(e, n) :
        spk[i] \in store /\ spk[i].type_name = FOREST /\ spk[i].body = Said(e[i])
        /\ Before(name2[i], spk[i])
  BY <1>2, <1>5 DEF Voiced
<1>8. \A i, j \in Loud(e, n) : i < j => Before(spk[i], spk[j])
  BY DEF Voiced
<1>9. Voiced(Q2, h, e, name2, spk, n, store \cup {o})
  BY <1>4, <1>6, <1>7, <1>8 DEF Voiced
<1> QED
  BY <1>9 DEF Q2, name2, L

\* and a snapshot that falls when every command is answered is one of the tables
\* after them all.
LEMMA SnapshotVoiced ==
    ASSUME NEW Q, NEW h, NEW e, NEW name, NEW spk, NEW store, NEW n \in Nat, n = Len(Q),
           Voiced(Q, h, e, name, spk, n, store), Names(name, Q, store), NEW root, NEW o,
           Arrives(store, FOREST, Message(Shown(h[n][1], {root}), "by alias"), o)
    PROVE  Voiced(Q, h, e, name, spk, n, store \cup {o})
<1>1. /\ o.body = Message(Shown(h[n][1], {root}), "by alias")
      /\ \A p \in store : Before(p, o)
  BY DEF Arrives
<1>2. \A i \in 1..n : Before(name[i], o)
  BY <1>1 DEF Names
<1>3. \A i \in 1..n : i <= n
  BY ONLY n \in Nat
<1>4. \A i \in Loud(e, n) : Before(spk[i], o)
  BY <1>1 DEF Voiced
<1>5. Snapped(Q, h, e, name, spk, n, o)
  BY <1>1, <1>2, <1>3, <1>4 DEF Snapped
<1>6. n \in 0..n
  BY ONLY n \in Nat
<1>7. \A p \in store \cup {o} : p.type_name = FOREST =>
        \/ \E i \in Loud(e, n) : p = spk[i]
        \/ \E m \in 0..n : Snapped(Q, h, e, name, spk, m, p)
  BY <1>5, <1>6 DEF Voiced
<1> QED
  BY <1>7 DEF Voiced

\* What the next answer adds to a store.
Speaks(r, store, o, store2) ==
    IF Broadcast(r) THEN Arrives(store, FOREST, Said(r), o) /\ store2 = store \cup {o}
                    ELSE store2 = store

\* An answer is broadcast after its command and after all earlier ones.
LEMMA AnswerVoiced ==
    ASSUME NEW Q \in Seq(Cmd), NEW h, NEW e, NEW name, NEW spk, NEW n \in Nat, n < Len(Q), NEW store,
           Voiced(Q, h, e, name, spk, n, store), Names(name, Q, store),
           NEW u, NEW r, NEW o, NEW store2, Speaks(r, store, o, store2)
    PROVE  Voiced(Q, Prolonged(h, n + 1, u), Prolonged(e, n + 1, r), name,
                  Prolonged(spk, n + 1, o), n + 1, store2)
<1> DEFINE g == Prolonged(h, n + 1, u)
           d == Prolonged(e, n + 1, r)
           s == Prolonged(spk, n + 1, o)
<1>1. /\ \A j \in 0..n : g[j] = h[j] /\ d[j] = e[j] /\ s[j] = spk[j]
      /\ d[n + 1] = r /\ s[n + 1] = o
  BY ProlongedFacts
<1>L. PICK L : L = Len(Q)
  OBVIOUS
<1>2. L \in Nat /\ n + 1 \in 1..L
  BY <1>L
<1> HIDE DEF g, d, s
<1>3. ASSUME NEW m \in 0..n PROVE Loud(d, m) = Loud(e, m)
  <2>1. \A i \in 1..m : d[i] = e[i]
    BY <1>1
  <2> QED
    BY <2>1 DEF Loud
<1>4. /\ \A i \in Loud(e, n) : i \in 1..n /\ i \in 0..n
      /\ \A i \in Loud(d, n + 1) : i \in Loud(e, n) \/ (i = n + 1 /\ Broadcast(r))
      /\ Loud(e, n) \subseteq Loud(d, n + 1)
      /\ Broadcast(r) => n + 1 \in Loud(d, n + 1)
  BY <1>1 DEF Loud
<1>5. /\ store \subseteq store2
      /\ Broadcast(r) => /\ o \in store2 /\ o.type_name = FOREST /\ o.body = Said(r)
                         /\ \A p \in store : Before(p, o)
      /\ \A p \in store2 : p \in store \/ (p = o /\ Broadcast(r))
  BY DEF Speaks, Arrives
<1>6. \A i \in Loud(e, n) :
        spk[i] \in store /\ spk[i].type_name = FOREST /\ spk[i].body = Said(e[i])
        /\ Before(name[i], spk[i])
  BY DEF Voiced
<1>7. name[n + 1] \in store
  BY <1>2, <1>L DEF Names
<1>8. ASSUME NEW i \in Loud(d, n + 1)
      PROVE  /\ s[i] \in store2 /\ s[i].type_name = FOREST /\ s[i].body = Said(d[i])
             /\ Before(name[i], s[i])
  <2>1. CASE i \in Loud(e, n)
    BY <1>1, <1>4, <1>5, <1>6, <2>1
  <2>2. CASE i = n + 1 /\ Broadcast(r)
    BY <1>1, <1>5, <1>7, <2>2
  <2> QED
    BY <1>4, <2>1, <2>2
<1>9. ASSUME NEW i \in Loud(d, n + 1), NEW j \in Loud(d, n + 1), i < j
      PROVE  Before(s[i], s[j])
  <2>1. CASE j \in Loud(e, n)
    <3>1. i \in Loud(e, n)
      BY <1>4, <1>9, <2>1
    <3>2. Before(spk[i], spk[j])
      BY <1>9, <2>1, <3>1 DEF Voiced
    <3> QED
      BY <1>1, <1>4, <2>1, <3>1, <3>2
  <2>2. CASE j = n + 1 /\ Broadcast(r)
    <3>1. i \in Loud(e, n)
      BY <1>4, <1>9, <2>2
    <3> QED
      BY <1>1, <1>4, <1>5, <1>6, <2>2, <3>1
  <2> QED
    BY <1>4, <2>1, <2>2
<1>10. ASSUME NEW p \in store2, p.type_name = FOREST
       PROVE  \/ \E i \in Loud(d, n + 1) : p = s[i]
              \/ \E m \in 0..(n + 1) : Snapped(Q, g, d, name, s, m, p)
  <2>1. CASE p = o /\ Broadcast(r)
    BY <1>1, <1>4, <2>1
  <2>2. CASE p \in store
    <3>1. CASE \E i \in Loud(e, n) : p = spk[i]
      BY <1>1, <1>4, <3>1
    <3>2. ASSUME NEW m \in 0..n, Snapped(Q, h, e, name, spk, m, p)
          PROVE  Snapped(Q, g, d, name, s, m, p)
      <4>1. g[m] = h[m] /\ Loud(d, m) = Loud(e, m)
        BY <1>1, <1>3
      <4>2. \A i \in Loud(e, m) : s[i] = spk[i]
        BY <1>1 DEF Loud
      <4> QED
        BY <3>2, <4>1, <4>2 DEF Snapped
    <3>3. \/ \E i \in Loud(e, n) : p = spk[i]
          \/ \E m \in 0..n : Snapped(Q, h, e, name, spk, m, p)
      BY <1>10, <2>2 DEF Voiced
    <3>4. \A m \in 0..n : m \in 0..(n + 1)
      OBVIOUS
    <3> QED
      BY <3>1, <3>2, <3>3, <3>4
  <2> QED
    BY <1>5, <2>1, <2>2
<1>11. Voiced(Q, g, d, name, s, n + 1, store2)
  BY <1>8, <1>9, <1>10 DEF Voiced
<1> QED
  BY <1>11 DEF g, d, s

-----------------------------------------------------------------------------
(* The tale: the story, with how each command ended and was spoken of       *)

\* The service ended the commands as e says, and has one way to broadcast it.
Told(Q, h, e, S) ==
    \A i \in 1..Len(S) :
        /\ S[i] = e[i].verdict /\ Ends(h[i - 1], Q[i], h[i], e[i])
        /\ Broadcast(e[i]) => \E order : Orders(e[i]) = {order}

\* The command in hand is not begun, or ended and not answered.
Handling(t) ==
    /\ step = "waiting" => tables = t
    /\ step = "answered" => Ends(t, Head(inbox), tables, result)

\* What the rebuild has produced, after q commands and at the object a, is what
\* the service broadcast of them that is still to come; ix says which commands.
Sayings(e, n) == {Said(e[i]) : i \in Loud(e, n)}

Owed(e, n, pos, ix, q, a, p) ==
    /\ p \in Seq(Sayings(e, n))
    /\ \A k \in 1..Len(p) : ix[k] \in Loud(e, q) /\ pos[ix[k]] >= a /\ p[k] = Said(e[ix[k]])
    /\ \A j, k \in 1..Len(p) : j < k => ix[j] < ix[k]
    /\ \A i \in Loud(e, q) : pos[i] >= a => \E k \in 1..Len(p) : i = ix[k]

Matching(Q, h, e) ==
    /\ mismatches = {}
    /\ \E idx, pos, ix :
        /\ Script(Q, h, e, idx, pos, stream) /\ Progress(idx, Q, h)
        /\ Owed(e, Len(Q), pos, ix, Len(outcomes), at, produced)

Tale(Q, h, e, name, spk) ==
    /\ Story(Q, h) /\ Names(name, Q, capture)
    /\ Told(Q, h, e, served) /\ Voiced(Q, h, e, name, spk, Len(served), capture)
    /\ phase = "serving" => \E t : t = h[Len(served)] /\ Handling(t)
    /\ phase = "replaying" => Matching(Q, h, e)
    /\ phase = "ended" => mismatches = {}

TaleInv == Counts /\ (HeardAll => \E Q, h, e, name, spk : Tale(Q, h, e, name, spk))

\* What the story says of a service at work.
LEMMA Serving ==
    ASSUME NEW Q, NEW h, Story(Q, h), phase = "serving", NEW n, n = Len(served)
    PROVE  /\ n \in Nat /\ Q \in Seq(Cmd) /\ inbox \in Seq(Cmd) /\ Len(Q) \in Nat
           /\ Len(Q) = n + Len(inbox) /\ n \in 0..Len(Q) /\ InOrder(capture)
           /\ inbox # <<>> => n < Len(Q) /\ Q[n + 1] = Head(inbox) /\ Head(inbox) \in Cmd
           /\ step = "inTransaction" =>
                /\ tables = h[n] /\ cmd = Head(inbox)
                /\ OpenAt(tables, Head(inbox), <<txNodes, txLedger, updated>>, todo)
           /\ step = "answered" => inbox # <<>>
<1>1. /\ Q \in Seq(Cmd) /\ served \in Seq(Verdict) /\ Recorded(Q, capture)
      /\ inbox \in Seq(Cmd) /\ Len(Q) = Len(served) + Len(inbox)
      /\ \A j \in 1..Len(inbox) : Q[Len(served) + j] = inbox[j]
  BY DEF Story, Waits
<1>2. PICK t : t = h[Len(served)] /\ InHand(t)
  BY DEF Story
<1>3. Len(served) \in Nat /\ Len(inbox) \in Nat /\ Len(Q) \in Nat
  BY <1>1
<1>4. n \in Nat /\ Len(Q) = n + Len(inbox) /\ n \in 0..Len(Q)
  BY <1>1, <1>3
<1>5. ASSUME inbox # <<>> PROVE n < Len(Q) /\ Q[n + 1] = Head(inbox) /\ Head(inbox) \in Cmd
  <2>1. Len(inbox) \in Nat \ {0} /\ Head(inbox) = inbox[1] /\ Head(inbox) \in Cmd
    BY <1>1, <1>5
  <2> QED
    BY <1>1, <1>3, <1>4, <2>1
<1> QED
  BY <1>1, <1>2, <1>3, <1>4, <1>5 DEF InHand, Taking, Applying, Answering, Recorded

\* A command that is published is told of when it is answered.
LEMMA PublishTold ==
    ASSUME NEW Q, NEW h, NEW e, NEW name, NEW spk, Tale(Q, h, e, name, spk),
           NEW c \in Cmd, Publish(c), capture' = Stored(capture, c.type_name, c)
    PROVE  \E R, d : Tale(R, h, e, d, spk)'
<1>1. /\ phase = "serving" /\ phase' = phase /\ served' = served /\ inbox' = Append(inbox, c)
      /\ step' = step /\ tables' = tables /\ result' = result
  BY DEF Publish, vars, tables
<1>2. /\ Story(Q, h) /\ Names(name, Q, capture) /\ Told(Q, h, e, served)
      /\ Voiced(Q, h, e, name, spk, Len(served), capture)
  BY DEF Tale
<1>n. PICK n : n = Len(served)
  OBVIOUS
<1>3. /\ n \in Nat /\ Q \in Seq(Cmd) /\ inbox \in Seq(Cmd) /\ Len(Q) \in Nat
      /\ n \in 0..Len(Q) /\ InOrder(capture)
      /\ step = "answered" => inbox # <<>>
  BY <1>1, <1>2, <1>n, Serving
<1> DEFINE ear == Cardinality(capture)
<1>o. PICK o : o = Heard(ear, c.type_name, c)
  OBVIOUS
<1>4. Arrives(capture, c.type_name, c, o) /\ capture' = capture \cup {o}
  <2>1. Arrives(capture, c.type_name, c, o)
    BY <1>3, <1>o, StoredInOrder
  <2> QED
    BY <2>1 DEF Arrives
<1> DEFINE R == Append(Q, c)
           d == Prolonged(name, Len(Q) + 1, o)
<1>5. Story(R, h)'
  BY <1>2, PublishGoesOn
<1>6. Names(d, R, capture')
  BY <1>2, <1>3, <1>4, CommandNamed
<1>7. Voiced(R, h, e, d, spk, n, capture')
  BY <1>2, <1>3, <1>4, <1>n, CommandVoiced
<1>8. Told(R, h, e, served)
  <2>1. \A i \in 1..n : R[i] = Q[i]
    BY <1>3
  <2> HIDE DEF R
  <2> QED
    BY <1>2, <1>n, <2>1 DEF Told
<1>9. PICK t : t = h[n] /\ Handling(t)
  BY <1>1, <1>n DEF Tale
<1>10. Handling(t)'
  <2>1. inbox # <<>> => Head(inbox') = Head(inbox)
    BY <1>1, <1>3
  <2> QED
    BY <1>1, <1>3, <1>9, <2>1 DEF Handling
<1> HIDE DEF R, d
<1>11. Tale(R, h, e, d, spk)'
  BY <1>1, <1>5, <1>6, <1>7, <1>8, <1>9, <1>10, <1>n DEF Tale
<1> QED
  BY <1>11

\* A handler that ends it says what there is to be told.
LEMMA HandleTold ==
    ASSUME Plain, NEW Q, NEW h, NEW e, NEW name, NEW spk, Tale(Q, h, e, name, spk), Handle
    PROVE  Tale(Q, h, e, name, spk)'
<1>1. /\ phase = "serving" /\ phase' = phase /\ served' = served /\ inbox' = inbox
      /\ capture' = capture /\ inbox # <<>>
      /\ step' = IF pc' = "idle" THEN "answered" ELSE "inTransaction"
  BY DEF Handle
<1>2. /\ Story(Q, h) /\ Names(name, Q, capture) /\ Told(Q, h, e, served)
      /\ Voiced(Q, h, e, name, spk, Len(served), capture)
  BY DEF Tale
<1>n. PICK n, c : n = Len(served) /\ c = Head(inbox)
  OBVIOUS
<1>3. /\ c \in Cmd
      /\ step = "inTransaction" =>
            /\ tables = h[n] /\ cmd = c
            /\ OpenAt(tables, c, <<txNodes, txLedger, updated>>, todo)
  BY <1>1, <1>2, <1>n, Serving
<1>4. PICK t : t = h[n] /\ Handling(t)
  BY <1>1, <1>n DEF Tale
<1>5. tables = t /\ Serves(c)
  BY <1>3, <1>4, <1>n DEF Handle, apply, Handling, Serves
<1>6. pc' = "idle" => Ends(t, c, tables', result')
  BY <1>3, <1>5, HandlersTell
<1>7. Handling(t)'
  BY <1>1, <1>6, <1>n DEF Handling
<1>8. Story(Q, h)'
  BY <1>2, HandleGoesOn
<1> QED
  BY <1>1, <1>2, <1>4, <1>7, <1>8, <1>n DEF Tale

\* An answer is what is told, and is broadcast in one way.
LEMMA AnswerTold ==
    ASSUME NEW Q, NEW h, NEW e, NEW name, NEW spk, Tale(Q, h, e, name, spk), Answer, ~Unsettling,
           ~Count({"deaf"})
    PROVE  \E g, d, s : Tale(Q, g, d, name, s)'
<1>n. PICK n, u, r : n = Len(served) /\ u = tables /\ r = result
  OBVIOUS
<1>1. /\ phase = "serving" /\ step = "answered" /\ phase' = phase
      /\ served' = Append(served, r.verdict) /\ step' = "waiting" /\ tables' = u
  BY <1>n DEF Answer, vars, tables
<1>2. /\ Story(Q, h) /\ Names(name, Q, capture) /\ Told(Q, h, e, served)
      /\ Voiced(Q, h, e, name, spk, n, capture)
  BY <1>n DEF Tale
<1>3. /\ n \in Nat /\ Q \in Seq(Cmd) /\ InOrder(capture) /\ n < Len(Q) /\ Q[n + 1] = Head(inbox)
  BY <1>1, <1>2, <1>n, Serving
<1>4. PICK order : Orders(r) = {order}
  BY <1>n DEF Unsettling
<1>5. Said(r) = Message(r.forest, order) /\ \A x : x \in Orders(r) => x = order
  BY <1>4 DEF Said
<1>6. PICK o, S : Speaks(r, capture, o, S) /\ Names(name, Q, S) /\ Names(name, Q, capture')
                  /\ \A g, d, s : Voiced(Q, g, d, name, s, n + 1, S) =>
                                    Voiced(Q, g, d, name, s, n + 1, capture')
  <2>t. /\ FOREST \notin {CREATE_CMD, REPARENT_CMD}
        /\ "g.node.cmd.ack" \notin {CREATE_CMD, REPARENT_CMD, FOREST}
        /\ "g.node.cmd.nack" \notin {CREATE_CMD, REPARENT_CMD, FOREST}
    BY DEF FOREST, CREATE_CMD, REPARENT_CMD
  <2>1. CASE Broadcast(r)
    <3>1. capture' = Stored(Stored(capture, FOREST, Said(r)), "g.node.cmd.ack", NULL)
      BY <1>5, <1>n, <2>1 DEF Answer, Broadcast
    <3> DEFINE o == Heard(Cardinality(capture), FOREST, Said(r))
               S == capture \cup {o}
               a == Heard(Cardinality(S), "g.node.cmd.ack", NULL)
    <3>2. Arrives(capture, FOREST, Said(r), o)
      BY <1>3, StoredInOrder
    <3> HIDE DEF o
    <3>3. Stored(capture, FOREST, Said(r)) = S /\ InOrder(S)
      BY <3>2 DEF Arrives
    <3>4. Arrives(S, "g.node.cmd.ack", NULL, a)
      BY <3>3, StoredInOrder
    <3> HIDE DEF a
    <3>5. capture' = S \cup {a}
      BY <3>1, <3>3, <3>4 DEF Arrives
    <3>6. Names(name, Q, S)
      BY <1>2, <2>t, <3>2, OtherVoiced
    <3> HIDE DEF S
    <3>7. Names(name, Q, capture')
      BY <2>t, <3>4, <3>5, <3>6, OtherVoiced
    <3>8. \A g, d, s : Voiced(Q, g, d, name, s, n + 1, S) => Voiced(Q, g, d, name, s, n + 1, capture')
      BY <2>t, <3>4, <3>5, OtherVoiced
    <3>9. Speaks(r, capture, o, S)
      BY <2>1, <3>2 DEF Speaks, S
    <3> QED
      BY <3>6, <3>7, <3>8, <3>9
  <2>2. CASE ~Broadcast(r)
    <3>1. capture' = capture \/ capture' = Stored(capture, "g.node.cmd.nack", NULL)
      BY <1>n, <2>2 DEF Answer
    <3> DEFINE a == Heard(Cardinality(capture), "g.node.cmd.nack", NULL)
    <3>2. Arrives(capture, "g.node.cmd.nack", NULL, a)
      BY <1>3, StoredInOrder
    <3> HIDE DEF a
    <3>3. capture' = capture \/ capture' = capture \cup {a}
      BY <3>1, <3>2 DEF Arrives
    <3>4. Names(name, Q, capture')
      BY <1>2, <2>t, <3>2, <3>3, OtherVoiced
    <3>5. \A g, d, s : Voiced(Q, g, d, name, s, n + 1, capture) =>
                            Voiced(Q, g, d, name, s, n + 1, capture')
      BY <2>t, <3>2, <3>3, OtherVoiced
    <3>6. Speaks(r, capture, NULL, capture)
      BY <2>2 DEF Speaks
    <3> QED
      BY <1>2, <3>4, <3>5, <3>6
  <2> QED
    BY <2>1, <2>2
<1> DEFINE g == Prolonged(h, n + 1, u)
           d == Prolonged(e, n + 1, r)
           s == Prolonged(spk, n + 1, o)
<1>7. Voiced(Q, g, d, name, s, n + 1, capture')
  BY <1>2, <1>3, <1>6, AnswerVoiced
<1>8. Story(Q, g)'
  BY <1>2, <1>n, AnswerGoesOn
<1>9. /\ g[n + 1] = u /\ d[n + 1] = r /\ \A j \in 0..n : g[j] = h[j] /\ d[j] = e[j]
  BY <1>3, ProlongedFacts
<1> HIDE DEF g, d, s
<1>10. Ends(h[n], Q[n + 1], u, r)
  BY <1>1, <1>3, <1>n DEF Tale, Handling
<1>11. Len(served') = n + 1 /\ served'[n + 1] = r.verdict /\ \A i \in 1..n : served'[i] = served[i]
  <2>1. served \in Seq(Verdict)
    BY <1>2 DEF Story
  <2> QED
    BY <1>1, <1>n, <2>1
<1>12. Told(Q, g, d, served')
  <2> SUFFICES ASSUME NEW i \in 1..(n + 1)
               PROVE  /\ served'[i] = d[i].verdict /\ Ends(g[i - 1], Q[i], g[i], d[i])
                      /\ Broadcast(d[i]) => \E x : Orders(d[i]) = {x}
    BY <1>3, <1>11 DEF Told
  <2>1. CASE i = n + 1
    <3>1. g[i - 1] = h[n] /\ g[i] = u /\ d[i] = r /\ served'[i] = r.verdict
      BY <1>3, <1>9, <1>11, <2>1
    <3> QED
      BY <1>4, <1>10, <2>1, <3>1
  <2>2. CASE i \in 1..n
    <3>1. /\ g[i - 1] = h[i - 1] /\ g[i] = h[i] /\ d[i] = e[i] /\ served'[i] = served[i]
      BY <1>3, <1>9, <1>11, <2>2
    <3> QED
      BY <1>2, <1>n, <2>2, <3>1 DEF Told
  <2>3. i = n + 1 \/ i \in 1..n
    BY <1>3
  <2> QED
    BY <2>1, <2>2, <2>3
<1>13. Handling(u)'
  BY <1>1 DEF Handling
<1>14. Tale(Q, g, d, name, s)'
  BY <1>1, <1>6, <1>7, <1>8, <1>9, <1>11, <1>12, <1>13 DEF Tale
<1> QED
  BY <1>14

\* A service that dies before a commit, or with nothing to commit, has done nothing,
\* nor has a handler that escapes.
LEMMA CrashTold ==
    ASSUME NEW Q, NEW h, NEW e, NEW name, NEW spk, Tale(Q, h, e, name, spk),
           (Crash /\ inbox' = inbox) \/ Requeue, ~Unsettling
    PROVE  Tale(Q, h, e, name, spk)'
<1>1. /\ phase = "serving" /\ phase' = phase /\ served' = served /\ inbox' = inbox
      /\ capture' = capture /\ step # "waiting" /\ step' = "waiting" /\ tables' = tables
      /\ ~(step = "answered" /\ result.verdict = "applied")
  BY DEF Crash, Requeue, Dies, tables, vars, Unsettling
<1>2. /\ Story(Q, h) /\ Names(name, Q, capture) /\ Told(Q, h, e, served)
      /\ Voiced(Q, h, e, name, spk, Len(served), capture)
  BY DEF Tale
<1>n. PICK n : n = Len(served)
  OBVIOUS
<1>3. step = "inTransaction" => tables = h[n]
  BY <1>1, <1>2, <1>n, Serving
<1>4. PICK t : t = h[n] /\ Handling(t)
  BY <1>1, <1>n DEF Tale
<1>5. step \in {"inTransaction", "answered"}
  BY <1>1, <1>2 DEF Story, InHand, Taking, Applying, Answering
<1>6. tables = t
  <2>1. CASE step = "answered"
    BY <1>1, <1>4, <2>1, SettledIsLogged DEF Handling, Ends
  <2> QED
    BY <1>3, <1>4, <1>5, <2>1
<1>7. Handling(t)'
  BY <1>1, <1>6 DEF Handling
<1>8. Story(Q, h)'
  BY <1>2, CrashGoesOn
<1> QED
  BY <1>1, <1>2, <1>4, <1>7, <1>8, <1>n DEF Tale

\* A snapshot shows the tables after the commands published so far.
LEMMA SnapshotTold ==
    ASSUME NEW Q, NEW h, NEW e, NEW name, NEW spk, Tale(Q, h, e, name, spk),
           NEW root \in forest_roots, broadcast_snapshot(root), ~Unsettling,
           ~Count({"snapshots", "deaf"})
    PROVE  Tale(Q, h, e, name, spk)'
<1>1. /\ phase = "serving" /\ phase' = phase /\ served' = served /\ inbox' = inbox /\ inbox = <<>>
      /\ step = "waiting" /\ step' = step /\ tables' = tables /\ result' = result
      /\ capture' = Stored(capture, FOREST, Message(get_forest({root}), "by alias"))
  BY DEF broadcast_snapshot, vars, tables, Unsettling
<1>n. PICK n : n = Len(served)
  OBVIOUS
<1>2. /\ Story(Q, h) /\ Names(name, Q, capture) /\ Told(Q, h, e, served)
      /\ Voiced(Q, h, e, name, spk, n, capture)
  BY <1>n DEF Tale
<1>3. n \in Nat /\ n = Len(Q) /\ InOrder(capture)
  <2>1. n \in Nat /\ Len(Q) = n + Len(inbox) /\ InOrder(capture)
    BY <1>1, <1>2, <1>n, Serving
  <2>2. Len(inbox) = 0
    BY <1>1
  <2> QED
    BY <2>1, <2>2
<1>4. PICK t : t = h[n] /\ Handling(t)
  BY <1>1, <1>n DEF Tale
<1>5. get_forest({root}) = Shown(h[n][1], {root})
  <2>1. tables = h[n]
    BY <1>1, <1>4 DEF Handling
  <2>2. tables[1] = nodes
    BY DEF tables
  <2> QED
    BY <2>1, <2>2 DEF get_forest, Shown
<1>o. PICK o : o = Heard(Cardinality(capture), FOREST, Message(Shown(h[n][1], {root}), "by alias"))
  OBVIOUS
<1>6. Arrives(capture, FOREST, Message(Shown(h[n][1], {root}), "by alias"), o)
  BY <1>3, <1>o, StoredInOrder
<1>7. capture' = capture \cup {o}
  BY <1>1, <1>5, <1>6 DEF Arrives
<1>8. Voiced(Q, h, e, name, spk, n, capture')
  BY <1>2, <1>3, <1>6, <1>7, SnapshotVoiced
<1>9. Names(name, Q, capture')
  <2>1. FOREST \notin {CREATE_CMD, REPARENT_CMD}
    BY DEF FOREST, CREATE_CMD, REPARENT_CMD
  <2> QED
    BY <1>2, <1>6, <1>7, <2>1, OtherVoiced
<1>10. Handling(t)'
  BY <1>1, <1>4 DEF Handling
<1>11. Story(Q, h)'
  BY <1>2, SnapshotGoesOn
<1> QED
  BY <1>1, <1>2, <1>4, <1>8, <1>9, <1>10, <1>11, <1>n DEF Tale

\* The end of the service leaves all of it as it is.
LEMMA StopTold ==
    ASSUME NEW Q, NEW h, NEW e, NEW name, NEW spk, Tale(Q, h, e, name, spk), Stop
    PROVE  Tale(Q, h, e, name, spk)'
<1>1. /\ phase = "serving" /\ phase' = "down" /\ served' = served /\ capture' = capture
  BY DEF Stop
<1>2. Story(Q, h)'
  BY StopGoesOn DEF Tale
<1> QED
  BY <1>1, <1>2 DEF Tale

-----------------------------------------------------------------------------
(* The rebuild is told the same                                             *)

\* The progress of the story is that through the commands of the script.
LEMMA StillInPlace ==
    ASSUME NEW Q \in Seq(Cmd), NEW h, NEW idx, Story(Q, h)', phase' = "replaying",
           Lists(idx, Q, stream')
    PROVE  Progress(idx, Q, h)'
<1>1. PICK jdx : Lists(jdx, Q, stream') /\ Progress(jdx, Q, h)'
  BY DEF Story, Rebuilding
<1>2. \A i \in 1..Len(Q) : idx[i] = jdx[i]
  BY <1>1, ListsOnce
<1>3. Len(outcomes') < Len(Q) => Len(outcomes') + 1 \in 1..Len(Q)
  BY <1>1 DEF Progress
<1> QED
  BY <1>1, <1>2, <1>3 DEF Progress

\* It begins with nothing to compare.
LEMMA RunTold ==
    ASSUME NEW Q, NEW h, NEW e, NEW name, NEW spk, Tale(Q, h, e, name, spk),
           NEW wipe \in BOOLEAN, _run_rebuild(wipe)
    PROVE  Tale(Q, h, e, name, spk)'
<1>1. /\ phase \in {"down", "aborted"} /\ phase' = "replaying" /\ served' = served
      /\ capture' = capture /\ stream' = capture_objects /\ at' = 1 /\ outcomes' = <<>>
      /\ produced' = <<>> /\ mismatches' = {}
  BY DEF _run_rebuild, service
<1>2. /\ Story(Q, h) /\ Names(name, Q, capture) /\ Told(Q, h, e, served)
      /\ Voiced(Q, h, e, name, spk, Len(served), capture)
  BY DEF Tale
<1>3. Q \in Seq(Cmd) /\ Len(Q) = Len(served) /\ InOrder(capture)
  BY <1>1, <1>2 DEF Story, Recorded
<1>4. Story(Q, h)'
  BY <1>2, RunGoesOn
<1>5. PICK idx, pos : Script(Q, h, e, idx, pos, capture_objects)
  BY <1>2, <1>3, ScriptListed
<1>6. Progress(idx, Q, h)'
  BY <1>1, <1>3, <1>4, <1>5, StillInPlace DEF Script
<1>7. Owed(e, Len(Q), pos, <<>>, Len(outcomes'), at', produced')
  <2>1. Loud(e, 0) = {}
    BY DEF Loud
  <2>2. <<>> \in Seq(Sayings(e, Len(Q))) /\ Len(<<>>) = 0
    OBVIOUS
  <2> QED
    BY <1>1, <2>1, <2>2 DEF Owed
<1>8. Matching(Q, h, e)'
  BY <1>1, <1>5, <1>6, <1>7 DEF Matching
<1> QED
  BY <1>1, <1>2, <1>4, <1>8 DEF Tale

\* A death ends the comparison.
LEMMA InterruptTold ==
    ASSUME NEW Q, NEW h, NEW e, NEW name, NEW spk, Tale(Q, h, e, name, spk), Interrupt
    PROVE  Tale(Q, h, e, name, spk)'
<1>1. phase' = "down" /\ served' = served /\ capture' = capture
  BY DEF Interrupt, service
<1>2. Story(Q, h)'
  BY InterruptGoesOn DEF Tale
<1> QED
  BY <1>1, <1>2 DEF Tale

\* The report at the end is the one so far.
LEMMA FinishTold ==
    ASSUME NEW Q, NEW h, NEW e, NEW name, NEW spk, Tale(Q, h, e, name, spk), Finish
    PROVE  Tale(Q, h, e, name, spk)'
<1>1. /\ phase = "replaying" /\ phase' = "ended" /\ served' = served /\ capture' = capture
      /\ mismatches' = mismatches
  BY DEF Finish, service, report
<1>2. Story(Q, h)'
  BY FinishGoesOn DEF Tale
<1> QED
  BY <1>1, <1>2 DEF Tale, Matching

\* Nothing happens.
LEMMA StutterTold ==
    ASSUME NEW Q, NEW h, NEW e, NEW name, NEW spk, Tale(Q, h, e, name, spk), UNCHANGED allVars
    PROVE  Tale(Q, h, e, name, spk)'
<1>1. /\ phase' = phase /\ inbox' = inbox /\ step' = step /\ capture' = capture /\ served' = served
      /\ stream' = stream /\ at' = at /\ outcomes' = outcomes /\ produced' = produced
      /\ mismatches' = mismatches /\ tables' = tables /\ pc' = pc /\ cmd' = cmd /\ txNodes' = txNodes
      /\ txLedger' = txLedger /\ todo' = todo /\ updated' = updated /\ result' = result
  BY DEF allVars, vars, service, report, tables
<1>2. Story(Q, h)'
  BY StutterGoesOn DEF Tale
<1>3. Handling(h[Len(served)]) => Handling(h[Len(served)])'
  BY <1>1 DEF Handling
<1>4. Matching(Q, h, e) => Matching(Q, h, e)'
  BY <1>1 DEF Matching, Progress
<1> QED
  BY <1>1, <1>2, <1>3, <1>4 DEF Tale

-----------------------------------------------------------------------------
(* What the rebuild owes                                                    *)

\* The broadcasts are at places of a list, in the order of their commands.
Placed(e, n, pos) ==
    /\ \A i \in Loud(e, n) : pos[i] \in Nat
    /\ \A i, j \in Loud(e, n) : i < j => pos[i] < pos[j]

\* The broadcast of command i is the oldest one owed, and pairs.
Paid(e, n, pos, q, a, p, i) ==
    /\ p # <<>> /\ Head(p) = Said(e[i])
    /\ \E jx : Owed(e, n, pos, jx, q, a + 1, Tail(p))

\* At a broadcast that is to come, it is the oldest one owed.
LEMMA OwedPaid ==
    ASSUME NEW e, NEW n \in Nat, NEW pos, Placed(e, n, pos), NEW q \in 0..n,
           NEW ix, NEW a \in Nat, NEW p, Owed(e, n, pos, ix, q, a, p),
           NEW i \in Loud(e, q), a = pos[i]
    PROVE  Paid(e, n, pos, q, a, p, i)
<1>l. PICK L : L = Len(p)
  OBVIOUS
<1>1. /\ p \in Seq(Sayings(e, n)) /\ L \in Nat
      /\ \A k \in 1..L : ix[k] \in Loud(e, q) /\ pos[ix[k]] >= a /\ p[k] = Said(e[ix[k]])
      /\ \A j, k \in 1..L : j < k => ix[j] < ix[k]
      /\ \A j \in Loud(e, q) : pos[j] >= a => \E k \in 1..L : j = ix[k]
  BY <1>l DEF Owed
<1>2. /\ \A j \in Loud(e, q) : j \in Nat /\ pos[j] \in Nat
      /\ \A j, k \in Loud(e, q) : j < k => pos[j] < pos[k]
  BY DEF Placed, Loud
<1>3. PICK k \in 1..L : i = ix[k]
  BY <1>1, <1>2
<1>4. 1 \in 1..L
  BY <1>1, <1>3
<1>5. k = 1
  <2>1. ASSUME 1 < k PROVE FALSE
    <3>1. ix[1] < i /\ ix[1] \in Loud(e, q) /\ pos[ix[1]] >= a
      BY <1>1, <1>3, <1>4, <2>1
    <3> QED
      BY <1>2, <3>1
  <2> QED
    BY <1>1, <1>3, <2>1
<1>6. p # <<>> /\ Head(p) = Said(e[i])
  BY <1>1, <1>3, <1>4, <1>5, <1>l
<1>7. /\ Tail(p) \in Seq(Sayings(e, n)) /\ Len(Tail(p)) = L - 1
      /\ \A j \in 1..(L - 1) : Tail(p)[j] = p[j + 1]
  BY <1>1, <1>6, <1>l
<1> DEFINE jx == [j \in 1..L |-> ix[j + 1]]
<1>8. \A j \in 1..L : jx[j] = ix[j + 1]
  OBVIOUS
<1> HIDE DEF jx
<1>9. ASSUME NEW j \in 1..(L - 1)
      PROVE  jx[j] \in Loud(e, q) /\ pos[jx[j]] >= a + 1 /\ Tail(p)[j] = Said(e[jx[j]])
  <2>1. j + 1 \in 1..L /\ 1 < j + 1 /\ jx[j] = ix[j + 1]
    BY <1>1, <1>8
  <2>2. ix[j + 1] \in Loud(e, q) /\ i < ix[j + 1] /\ p[j + 1] = Said(e[ix[j + 1]])
    BY <1>1, <1>3, <1>4, <1>5, <2>1
  <2>3. pos[ix[j + 1]] > a /\ pos[ix[j + 1]] \in Nat
    BY <1>2, <2>2
  <2> QED
    BY <1>7, <2>1, <2>2, <2>3
<1>10. ASSUME NEW j \in 1..(L - 1), NEW m \in 1..(L - 1), j < m PROVE jx[j] < jx[m]
  <2>1. j + 1 \in 1..L /\ m + 1 \in 1..L /\ j + 1 < m + 1 /\ jx[j] = ix[j + 1] /\ jx[m] = ix[m + 1]
    BY <1>1, <1>8, <1>10
  <2> QED
    BY <1>1, <2>1
<1>11. ASSUME NEW j \in Loud(e, q), pos[j] >= a + 1 PROVE \E m \in 1..(L - 1) : j = jx[m]
  <2>1. PICK m \in 1..L : j = ix[m]
    BY <1>1, <1>2, <1>11
  <2>2. m # 1
    BY <1>2, <1>3, <1>5, <1>11, <2>1
  <2>3. m - 1 \in 1..(L - 1) /\ m - 1 \in 1..L /\ (m - 1) + 1 = m
    BY <1>1, <2>2
  <2> QED
    BY <1>8, <2>1, <2>3
<1>12. Owed(e, n, pos, jx, q, a + 1, Tail(p))
  BY <1>7, <1>9, <1>10, <1>11 DEF Owed
<1> QED
  BY <1>6, <1>12 DEF Paid

\* Where all of them are behind, nothing is owed.
LEMMA OwedNone ==
    ASSUME NEW e, NEW n \in Nat, NEW pos, Placed(e, n, pos), NEW q \in 0..n,
           NEW ix, NEW a \in Nat, NEW p, Owed(e, n, pos, ix, q, a, p),
           \A i \in Loud(e, q) : pos[i] < a
    PROVE  p = <<>> /\ Owed(e, n, pos, ix, q, a + 1, p)
<1>l. PICK L : L = Len(p)
  OBVIOUS
<1>1. /\ p \in Seq(Sayings(e, n)) /\ L \in Nat
      /\ \A k \in 1..L : ix[k] \in Loud(e, q) /\ pos[ix[k]] >= a
  BY <1>l DEF Owed
<1>2. \A j \in Loud(e, q) : pos[j] \in Nat
  BY DEF Placed, Loud
<1>3. L = 0
  <2>1. 1 \notin 1..L
    BY <1>1, <1>2
  <2> QED
    BY <1>1, <2>1
<1>4. p = <<>>
  BY <1>1, <1>3, <1>l
<1>5. \A i \in Loud(e, q) : ~(pos[i] >= a + 1)
  BY <1>2
<1> QED
  BY <1>1, <1>3, <1>4, <1>5, <1>l DEF Owed

\* A command that is replayed owes what the service broadcast of it.
LEMMA OwedMore ==
    ASSUME NEW e, NEW n \in Nat, NEW pos, Placed(e, n, pos), NEW q \in 0..n, q < n,
           NEW ix, NEW a \in Nat, NEW p, Owed(e, n, pos, ix, q, a, p),
           \A i \in Loud(e, n) : pos[i] # a,
           Broadcast(e[q + 1]) => pos[q + 1] > a,
           NEW p2, p2 = IF Broadcast(e[q + 1]) THEN Append(p, Said(e[q + 1])) ELSE p
    PROVE  \E jx : Owed(e, n, pos, jx, q + 1, a + 1, p2)
<1>l. PICK L : L = Len(p)
  OBVIOUS
<1>1. /\ p \in Seq(Sayings(e, n)) /\ L \in Nat
      /\ \A k \in 1..L : ix[k] \in Loud(e, q) /\ pos[ix[k]] >= a /\ p[k] = Said(e[ix[k]])
      /\ \A j, k \in 1..L : j < k => ix[j] < ix[k]
      /\ \A j \in Loud(e, q) : pos[j] >= a => \E k \in 1..L : j = ix[k]
  BY <1>l DEF Owed
<1>2. /\ \A j \in Loud(e, q) : j \in 1..q /\ j \in Loud(e, n) /\ j \in Loud(e, q + 1) /\ pos[j] \in Nat /\ pos[j] # a
      /\ \A j \in Loud(e, q + 1) : j \in Loud(e, q) \/ (j = q + 1 /\ Broadcast(e[q + 1]))
      /\ Broadcast(e[q + 1]) => q + 1 \in Loud(e, q + 1) /\ q + 1 \in Loud(e, n)
  BY DEF Placed, Loud
<1>3. \A j \in Loud(e, q) : pos[j] >= a <=> pos[j] >= a + 1
  BY <1>2
<1>4. CASE ~Broadcast(e[q + 1])
  <2>1. Loud(e, q + 1) = Loud(e, q)
    BY <1>2, <1>4
  <2>2. Owed(e, n, pos, ix, q + 1, a + 1, p)
    BY <1>1, <1>3, <1>l, <2>1 DEF Owed
  <2> QED
    BY <1>4, <2>2
<1>5. CASE Broadcast(e[q + 1])
  <2> DEFINE jx == [k \in 1..(L + 1) |-> IF k = L + 1 THEN q + 1 ELSE ix[k]]
  <2>1. /\ Len(p2) = L + 1 /\ p2[L + 1] = Said(e[q + 1])
        /\ \A k \in 1..L : p2[k] = p[k]
    BY <1>1, <1>5, <1>l
  <2>2. p2 \in Seq(Sayings(e, n))
    <3>1. Said(e[q + 1]) \in Sayings(e, n)
      BY <1>2, <1>5 DEF Sayings
    <3> QED
      BY <1>1, <1>5, <3>1
  <2>3. jx[L + 1] = q + 1 /\ \A k \in 1..L : jx[k] = ix[k] /\ k \in 1..(L + 1)
    BY <1>1
  <2> HIDE DEF jx
  <2>4. \A k \in 1..(L + 1) : k = L + 1 \/ k \in 1..L
    BY <1>1
  <2>5. pos[q + 1] \in Nat
    BY <1>2, <1>5 DEF Placed
  <2>6. ASSUME NEW k \in 1..(L + 1)
        PROVE  jx[k] \in Loud(e, q + 1) /\ pos[jx[k]] >= a + 1 /\ p2[k] = Said(e[jx[k]])
    <3>1. CASE k = L + 1
      BY <1>2, <1>5, <2>1, <2>3, <2>5, <3>1
    <3>2. CASE k \in 1..L
      BY <1>1, <1>2, <1>3, <2>1, <2>3, <3>2
    <3> QED
      BY <2>4, <3>1, <3>2
  <2>7. ASSUME NEW j \in 1..(L + 1), NEW k \in 1..(L + 1), j < k PROVE jx[j] < jx[k]
    <3>1. j \in 1..L
      BY <1>1, <2>7
    <3>2. ix[j] \in 1..q /\ jx[j] = ix[j]
      BY <1>1, <1>2, <2>3, <3>1
    <3>3. CASE k = L + 1
      BY <2>3, <3>2, <3>3
    <3>4. CASE k \in 1..L
      BY <1>1, <2>3, <2>7, <3>1, <3>2, <3>4
    <3> QED
      BY <2>4, <3>3, <3>4
  <2>8. ASSUME NEW j \in Loud(e, q + 1), pos[j] >= a + 1 PROVE \E k \in 1..(L + 1) : j = jx[k]
    <3>1. CASE j = q + 1
      <4>1. L + 1 \in 1..(L + 1)
        BY <1>1
      <4> QED
        BY <2>3, <3>1, <4>1
    <3>2. CASE j \in Loud(e, q)
      BY <1>1, <1>3, <2>3, <2>8, <3>2
    <3> QED
      BY <1>2, <3>1, <3>2
  <2>9. Owed(e, n, pos, jx, q + 1, a + 1, p2)
    BY <2>1, <2>2, <2>6, <2>7, <2>8 DEF Owed
  <2> QED
    BY <2>9
<1> QED
  BY <1>4, <1>5

\* What is matched at a state of the replay.
LEMMA MatchedSoFar ==
    ASSUME NEW Q, NEW h, NEW e, Story(Q, h), phase = "replaying",
           NEW idx, NEW pos, NEW ix, Script(Q, h, e, idx, pos, stream), Progress(idx, Q, h),
           Owed(e, Len(Q), pos, ix, Len(outcomes), at, produced),
           NEW n, n = Len(Q), NEW q, q = Len(outcomes), NEW a, a = at
    PROVE  /\ n \in Nat /\ Q \in Seq(Cmd) /\ n = Len(served) /\ q \in 0..n /\ a \in Nat
           /\ Placed(e, n, pos) /\ Owed(e, n, pos, ix, q, a, produced)
           /\ \A i \in 1..n : idx[i] < a <=> i <= q
           /\ tables = h[q]
<1>1. /\ Q \in Seq(Cmd) /\ n = Len(served)
      /\ outcomes \in Seq(Verdict) /\ q <= n /\ a \in Nat
      /\ \A i \in 1..n : idx[i] < a <=> i <= q
      /\ tables = h[q]
  BY DEF Story, Progress
<1>2. n \in Nat /\ q \in Nat
  BY <1>1
<1>3. /\ \A i \in Loud(e, n) : pos[i] \in 1..Len(stream)
      /\ \A i, j \in Loud(e, n) : i < j => pos[i] < pos[j]
      /\ Len(stream) \in Nat
  BY DEF Script, Lists
<1>4. Placed(e, n, pos)
  BY <1>3 DEF Placed
<1>5. q \in 0..n
  BY ONLY <1>1, <1>2
<1> QED
  BY <1>1, <1>2, <1>4, <1>5

\* A captured broadcast is the next one owed, or shows the tables as they are.
LEMMA CheckpointTold ==
    ASSUME Plain, NEW Q, NEW h, NEW e, NEW name, NEW spk, Tale(Q, h, e, name, spk), Checkpoint
    PROVE  Tale(Q, h, e, name, spk)'
<1>1. /\ phase = "replaying" /\ phase' = phase /\ at <= Len(stream) /\ stream[at].type_name = FOREST
      /\ served' = served /\ capture' = capture /\ outcomes' = outcomes
      /\ at' = at + 1 /\ stream' = stream
  BY DEF Checkpoint, Replaying, Object, service, vars
<1>2. Story(Q, h) /\ Story(Q, h)' /\ Matching(Q, h, e)
  BY <1>1, CheckpointGoesOn DEF Tale
<1>3. PICK idx, pos, ix : /\ Script(Q, h, e, idx, pos, stream) /\ Progress(idx, Q, h)
                          /\ Owed(e, Len(Q), pos, ix, Len(outcomes), at, produced)
  BY <1>2 DEF Matching
<1>n. PICK n, q, a, p, b :
        n = Len(Q) /\ q = Len(outcomes) /\ a = at /\ p = produced /\ b = stream[at].body
  OBVIOUS
<1>4. /\ n \in Nat /\ Q \in Seq(Cmd) /\ q \in 0..n /\ a \in Nat
      /\ Placed(e, n, pos) /\ Owed(e, n, pos, ix, q, a, p)
      /\ \A i \in 1..n : idx[i] < a <=> i <= q
      /\ tables = h[q]
  BY <1>1, <1>2, <1>3, <1>n, MatchedSoFar
<1>5. a \in 1..Len(stream)
  BY <1>1, <1>3, <1>n DEF Progress, Script, Lists
<1>6. Progress(idx, Q, h)'
  BY <1>1, <1>2, <1>3, <1>4, StillInPlace DEF Script
<1>7. \/ \E i \in Loud(e, n) : a = pos[i]
      \/ \E m \in 0..n : Glimpsed(Q, h, e, idx, pos, m, a, b)
  BY <1>1, <1>3, <1>5, <1>n DEF Script
<1>8. ASSUME NEW i \in Loud(e, n), a = pos[i]
      PROVE  mismatches' = {} /\ \E jx : Owed(e, n, pos, jx, q, a + 1, produced')
  <2>1. i \in 1..n /\ idx[i] < a /\ b = Said(e[i])
    BY <1>3, <1>8, <1>n DEF Script, Loud
  <2>2. i \in Loud(e, q)
    BY <1>4, <1>8, <2>1 DEF Loud
  <2>p. Paid(e, n, pos, q, a, p, i)
    BY <1>4, <1>8, <2>2, OwedPaid
  <2>3. p # <<>> /\ Head(p) = Said(e[i]) /\ \E jx : Owed(e, n, pos, jx, q, a + 1, Tail(p))
    BY <2>p DEF Paid
  <2>4. Pairs(stream[at].body)
    BY <1>n, <2>1, <2>3 DEF Pairs
  <2>5. produced' = Tail(p) /\ mismatches' = mismatches
    BY <1>n, <2>4 DEF Checkpoint, Object
  <2> QED
    BY <1>2, <2>3, <2>5 DEF Matching
<1>9. ASSUME NEW m \in 0..n, Glimpsed(Q, h, e, idx, pos, m, a, b)
      PROVE  mismatches' = {} /\ \E jx : Owed(e, n, pos, jx, q, a + 1, produced')
  <2>1. PICK root : b = Message(Shown(h[m][1], {root}), "by alias")
    BY <1>9 DEF Glimpsed
  <2>2. m = q
    <3>1. \A i \in 1..n : i <= m <=> i <= q
      BY <1>4, <1>9, <1>n DEF Glimpsed
    <3>2. ASSUME m < q PROVE FALSE
      <4>1. q \in 1..n /\ ~(q <= m)
        BY ONLY <1>4, <3>2, m \in 0..n
      <4> QED
        BY <1>4, <3>1, <4>1
    <3>3. ASSUME q < m PROVE FALSE
      <4>1. m \in 1..n /\ ~(m <= q)
        BY ONLY <1>4, <3>3, m \in 0..n
      <4> QED
        BY <1>4, <3>1, <4>1
    <3> QED
      BY <1>4, <3>2, <3>3
  <2>3. \A i \in Loud(e, q) : pos[i] < a
    BY <1>9, <2>2 DEF Glimpsed
  <2>4. p = <<>> /\ Owed(e, n, pos, ix, q, a + 1, p)
    BY <1>4, <2>3, OwedNone
  <2>5. nodes = h[q][1]
    <3>1. tables[1] = nodes
      BY DEF tables
    <3> QED
      BY <1>4, <3>1
  <2>6. b.forest.roots = {root}
    BY <2>1 DEF Message, Shown, Forest
  <2>7. Restored!get_forest({root}) = Shown(nodes, {root})
    <3>1. \A ids, roots : Restored!Forest(nodes, roots, ids) = Forest(nodes, roots, ids)
      BY DEF Plain, Forest, Restored!Forest
    <3>2. UNION {Restored!Subtree(nodes, r) : r \in {root}} = UNION {Subtree(nodes, r) : r \in {root}}
      BY SameReads
    <3> QED
      BY <3>1, <3>2 DEF Shown, Restored!get_forest
  <2>8. Current(b)
    BY <2>1, <2>2, <2>5, <2>6, <2>7 DEF Current
  <2>9. ~Pairs(b)
    BY <1>n, <2>4 DEF Pairs
  <2>10. produced' = p /\ mismatches' = mismatches
    BY <1>n, <2>8, <2>9 DEF Checkpoint, Object
  <2> QED
    BY <1>2, <2>4, <2>10 DEF Matching
<1>10. mismatches' = {} /\ \E jx : Owed(e, n, pos, jx, q, a + 1, produced')
  BY <1>7, <1>8, <1>9
<1>11. Matching(Q, h, e)'
  BY <1>1, <1>3, <1>6, <1>10, <1>n DEF Matching
<1> QED
  BY <1>1, <1>2, <1>11 DEF Tale

\* A replayed command is broadcast as the service broadcast it.
LEMMA ReplayTold ==
    ASSUME Plain, NEW Q, NEW h, NEW e, NEW name, NEW spk, Tale(Q, h, e, name, spk), ReplayCommand
    PROVE  Tale(Q, h, e, name, spk)'
<1>1. /\ phase = "replaying" /\ at <= Len(stream) /\ IsCommand(stream[at])
      /\ phase' \in {"replaying", "aborted"}
      /\ served' = served /\ capture' = capture /\ stream' = stream /\ mismatches' = mismatches
  BY DEF ReplayCommand, Replaying, Object, service, report, IsCommand
<1>2. /\ Story(Q, h) /\ Story(Q, h)' /\ Matching(Q, h, e) /\ Told(Q, h, e, served)
  BY <1>1, ReplayGoesOn DEF Tale
<1>3. PICK idx, pos, ix : /\ Script(Q, h, e, idx, pos, stream) /\ Progress(idx, Q, h)
                          /\ Owed(e, Len(Q), pos, ix, Len(outcomes), at, produced)
  BY <1>2 DEF Matching
<1>n. PICK n, q, a, p, c :
        n = Len(Q) /\ q = Len(outcomes) /\ a = at /\ p = produced /\ c = stream[at].body
  OBVIOUS
<1>4. /\ n \in Nat /\ Q \in Seq(Cmd) /\ n = Len(served) /\ q \in 0..n /\ a \in Nat
      /\ Placed(e, n, pos) /\ Owed(e, n, pos, ix, q, a, p)
      /\ tables = h[q]
  BY <1>1, <1>2, <1>3, <1>n, MatchedSoFar
<1>5. q < n /\ a = idx[q + 1] /\ c = Q[q + 1] /\ Lists(idx, Q, stream)
  BY <1>1, <1>3, <1>4, <1>n, NextReplayed DEF Script
<1>6. q + 1 \in 1..n /\ c \in Cmd
  BY <1>4, <1>5, <1>n
<1>7. Serves(c)
  <2>1. CASE pc = "idle" /\ c \in CreateCmd /\ Restored!apply_create(c)
    BY <1>6, <2>1, SameCalls DEF Serves
  <2>2. CASE pc = "idle" /\ c \in ReparentCmd /\ Restored!apply_reparent(c)
    BY <1>6, <2>2, SameCalls DEF Serves
  <2>3. CASE pc = "rewriting" /\ (Restored!RewriteChild \/ Restored!CommitReparent)
    <3>1. cmd = c /\ OpenAt(tables, c, <<txNodes, txLedger, updated>>, todo)
      BY <1>3, <1>5, <1>n, <2>3 DEF Progress
    <3>2. RewriteChild \/ CommitReparent
      BY <2>3, SameRounds
    <3> QED
      BY <3>1, <3>2 DEF Serves
  <2> QED
    BY <1>n, <2>1, <2>2, <2>3 DEF ReplayCommand, Object
<1>8. phase' = "replaying" => Progress(idx, Q, h)'
  BY <1>1, <1>2, <1>4, <1>5, StillInPlace
<1>9. CASE pc' = "rewriting"
  <2>1. phase' = phase /\ at' = at /\ outcomes' = outcomes /\ produced' = produced
    BY <1>9 DEF ReplayCommand, report
  <2>2. Matching(Q, h, e)'
    BY <1>1, <1>2, <1>3, <1>8, <2>1 DEF Matching
  <2> QED
    BY <1>1, <1>2, <2>1, <2>2 DEF Tale
<1>10. CASE pc' = "idle"
  <2>r. PICK r, u, d : r = result' /\ u = tables' /\ d = e[q + 1]
    OBVIOUS
  <2>1. Ends(h[q], c, u, r)
    BY <1>4, <1>6, <1>7, <1>10, <2>r, HandlersTell
  <2>2. Ends(h[q], c, h[q + 1], d) /\ (Broadcast(d) => \E order : Orders(d) = {order})
    <3>1. q + 1 \in 1..Len(served) /\ (q + 1) - 1 = q
      BY <1>4, <1>6
    <3> QED
      BY <1>2, <1>5, <2>r, <3>1 DEF Told
  <2>3. r.verdict = d.verdict /\ (Broadcast(r) => r.forest = d.forest)
    BY <1>6, <2>1, <2>2, EndsOnce
  <2>4. (Broadcast(r) <=> Broadcast(d)) /\ (Broadcast(r) => Orders(r) = Orders(d))
    BY <2>3 DEF Broadcast, Orders
  <2>5. /\ outcomes' = Append(outcomes, r.verdict) /\ at' = a + 1
        /\ \E order \in Orders(r) :
                produced' = IF Broadcast(r) THEN Append(p, Message(r.forest, order)) ELSE p
    BY <1>10, <1>n, <2>r DEF ReplayCommand
  <2>6. produced' = IF Broadcast(d) THEN Append(p, Said(d)) ELSE p
    <3>1. CASE Broadcast(d)
      <4>1. PICK order : Orders(d) = {order}
        BY <2>2, <3>1
      <4>2. Said(d) = Message(r.forest, order)
        BY <2>3, <2>4, <3>1, <4>1 DEF Said
      <4> QED
        BY <2>4, <2>5, <3>1, <4>1, <4>2
    <3> QED
      BY <2>4, <2>5, <3>1
  <2>7. Len(outcomes') = q + 1
    BY <1>3, <1>n, <2>5 DEF Progress
  <2>8. \A i \in Loud(e, n) : pos[i] # a
    <3>1. \A i \in Loud(e, n) : stream[pos[i]].type_name = FOREST
      BY <1>3, <1>n DEF Script
    <3> QED
      BY <1>1, <1>n, <3>1 DEF IsCommand, FOREST, CREATE_CMD, REPARENT_CMD
  <2>9. Broadcast(d) => pos[q + 1] > a
    <3>1. ASSUME Broadcast(d) PROVE q + 1 \in Loud(e, n)
      BY <1>6, <2>r, <3>1 DEF Loud
    <3>2. ASSUME Broadcast(d) PROVE idx[q + 1] < pos[q + 1] /\ pos[q + 1] \in Nat
      BY <1>3, <1>4, <1>n, <3>1, <3>2 DEF Script, Placed
    <3> QED
      BY <1>4, <1>5, <3>2
  <2>10. \E jx : Owed(e, n, pos, jx, q + 1, a + 1, produced')
    <3>1. PICK p2 : p2 = produced'
      OBVIOUS
    <3>2. p2 = IF Broadcast(e[q + 1]) THEN Append(p, Said(e[q + 1])) ELSE p
      BY <2>6, <2>r, <3>1
    <3>3. Broadcast(e[q + 1]) => pos[q + 1] > a
      BY <2>9, <2>r
    <3>4. \E jx : Owed(e, n, pos, jx, q + 1, a + 1, p2)
      BY <1>4, <1>5, <2>8, <3>2, <3>3, OwedMore
    <3> QED
      BY <3>1, <3>4
  <2>11. phase' = "replaying" => Matching(Q, h, e)'
    BY <1>1, <1>2, <1>3, <1>8, <1>n, <2>5, <2>7, <2>10 DEF Matching
  <2> QED
    BY <1>1, <1>2, <2>11 DEF Tale
<1>11. pc' \in {"idle", "rewriting"}
  <2>1. Steps(c)
    BY <1>6, <1>7, CreateGoes, ReparentGoes, RoundGoes, CommitGoes DEF Serves
  <2> QED
    BY <2>1 DEF Steps, Goes
<1> QED
  BY <1>9, <1>10, <1>11

-----------------------------------------------------------------------------
(* Every steady behaviour tells such a tale                                 *)

LEMMA TaleBegins == RebuildInit => TaleInv
<1> SUFFICES ASSUME RebuildInit PROVE TaleInv
  OBVIOUS
<1>1. Counts /\ CommandsKept
  BY StoryBegins DEF StoryInv, RebuildInit, CommandsKept
<1>2. PICK Q, h : Story(Q, h)
  BY <1>1, StoryBegins DEF StoryInv
<1>3. /\ phase = "serving" /\ step = "waiting" /\ pc = "idle" /\ inbox = <<>>
      /\ capture = {} /\ served = <<>>
  BY DEF RebuildInit, Init
<1>4. Len(served) = 0 /\ Len(inbox) = 0
  BY <1>3
<1>5. Len(Q) = 0
  BY <1>2, <1>3, <1>4, Serving
<1>6. Handling(h[0])
  BY <1>2, <1>3, <1>4 DEF Story, InHand, Taking, Applying, Answering, Handling
<1>7. Names(<<>>, Q, capture) /\ Told(Q, h, <<>>, served)
  BY <1>3, <1>4, <1>5 DEF Names, Told
<1>8. Voiced(Q, h, <<>>, <<>>, <<>>, Len(served), capture)
  <2>1. Loud(<<>>, 0) = {}
    BY DEF Loud
  <2> QED
    BY <1>3, <1>4, <2>1 DEF Voiced
<1>9. Tale(Q, h, <<>>, <<>>, <<>>)
  BY <1>2, <1>3, <1>4, <1>6, <1>7, <1>8 DEF Tale
<1> QED
  BY <1>1, <1>9 DEF TaleInv

\* A step goes on with it.
LEMMA TaleNext ==
    ASSUME Plain, TaleInv, [RebuildNext]_allVars, [~Unsettling]_allVars
    PROVE  TaleInv'
<1>1. Counts /\ Counts' /\ Heedful
  BY HeardBefore DEF TaleInv
<1> SUFFICES ASSUME HeardAll' PROVE \E R, g, d, b, s : Tale(R, g, d, b, s)'
  BY <1>1 DEF TaleInv
<1>k. CommandsKept' /\ CommandsKept
  BY <1>1 DEF HeardAll, Heedful
<1>2. PICK Q, h, e, name, spk : Tale(Q, h, e, name, spk)
  BY <1>1 DEF TaleInv, Heedful
<1>3. CASE UNCHANGED allVars
  BY <1>2, <1>3, StutterTold
<1>4. CASE ~Unsettling /\ RebuildNext
  <2>1. ASSUME NEW c \in Cmd, Publish(c) PROVE \E R, g, d, b, s : Tale(R, g, d, b, s)'
    <3>1. ~Count({"published", "missed"}) /\ ~Count({"published", "late"})
      BY <1>1, <1>k, NoFault
    <3>2. capture' = Stored(capture, c.type_name, c)
      BY <2>1, <3>1 DEF Publish
    <3> QED
      BY <1>2, <2>1, <3>2, PublishTold
  <2>2. CASE Handle
    BY <1>2, <2>2, HandleTold
  <2>3. CASE Answer
    <3>1. ~Count({"deaf"})
      BY <1>1, NoFault
    <3> QED
      BY <1>2, <1>4, <2>3, <3>1, AnswerTold
  <2>4. CASE Crash \/ Requeue
    <3>1. ~Count({"crashes", "requeued"}) /\ ~Count({"crashes", "lost"})
      BY <1>1, <1>k, NoFault
    <3>2. (Crash /\ inbox' = inbox) \/ Requeue
      BY <2>4, <3>1 DEF Crash
    <3> QED
      BY <1>2, <1>4, <3>2, CrashTold
  <2>5. CASE Stop
    BY <1>2, <2>5, StopTold
  <2>6. ASSUME NEW root \in forest_roots, broadcast_snapshot(root)
        PROVE  \E R, g, d, b, s : Tale(R, g, d, b, s)'
    <3>1. ~Count({"snapshots", "deaf"})
      BY <1>1, NoFault
    <3> QED
      BY <1>2, <1>4, <2>6, <3>1, SnapshotTold
  <2>7. ASSUME NEW wipe \in BOOLEAN, _run_rebuild(wipe)
        PROVE  \E R, g, d, b, s : Tale(R, g, d, b, s)'
    BY <1>2, <2>7, RunTold
  <2>8. CASE ReplayCommand
    BY <1>2, <2>8, ReplayTold
  <2>9. CASE Checkpoint
    BY <1>2, <2>9, CheckpointTold
  <2>10. CASE Finish
    BY <1>2, <2>10, FinishTold
  <2>11. CASE Interrupt
    BY <1>2, <2>11, InterruptTold
  <2>12. ASSUME NEW c \in Cmd PROVE ~Overhear(c)
    BY <1>1, <1>k, NoneLate DEF Overhear
  <2> QED
    BY <1>4, <2>1, <2>2, <2>3, <2>4, <2>5, <2>6, <2>7, <2>8, <2>9, <2>10, <2>11, <2>12
    DEF RebuildNext, ReplayStep
<1> QED
  BY <1>3, <1>4

\* Where the rows of an answer come in one order, no process dies between a commit
\* and its broadcast, and no snapshot falls while commands wait, the checkpoints
\* of replay() raise no false alarm: a rebuild of everything that was published
\* reports no mismatch, whatever was repeated, refused, redelivered or interrupted.
THEOREM NoFalseAlarm == ASSUME Plain PROVE SteadySpec => []MismatchIsDivergence
<1>1. RebuildInit => TaleInv
  BY TaleBegins
<1>2. TaleInv /\ [RebuildNext]_allVars /\ [~Unsettling]_allVars => TaleInv'
  BY TaleNext
<1>3. TaleInv => MismatchIsDivergence
  BY DEF TaleInv, Tale, MismatchIsDivergence
<1> QED
  BY <1>1, <1>2, <1>3, PTL DEF SteadySpec, RebuildSpec
=============================================================================
