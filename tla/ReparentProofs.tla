--------------------------- MODULE ReparentProofs ----------------------------
(***************************************************************************)
(* What orderly re-parents do to the forest, for any forest and any fleet  *)
(* of commands: the moved children land beneath the new node with all that *)
(* is below them, nobody is orphaned, each old alias is stashed and no     *)
(* handler ends with anything but its typed answer.                        *)
(*                                                                         *)
(* First what the transaction does to the table that it began with,        *)
(* child after child; then the specification OrderlySpec.  At the end, of  *)
(* re-parents that name what they like: that subtrees move whole.          *)
(***************************************************************************)
EXTENDS RegistryProofs

-----------------------------------------------------------------------------
(* A command against a table                                                *)

\* Child k of the command: where it is, where it lands, what is under it and
\* where that lands.
OldAlias(table, c, k) == table[c.moved_child_g_node_ids[k]].alias

NewAlias(table, c, k) == moved_child_new_prefix(c.new_node.alias, OldAlias(table, c, k))

Beneath(table, c, k, i) == in_subtree(table[i].alias, OldAlias(table, c, k))

Landing(table, c, k, i) ==
    rewrite_alias(table[i].alias, OldAlias(table, c, k), NewAlias(table, c, k))

Children(c) == DOMAIN c.moved_child_g_node_ids

ParentsThere(table) ==
    \A i \in DOMAIN table :
        is_forest_root(table[i].alias) \/ AtAlias(table, parent_alias(table[i].alias)) # {}

\* Where every row has its parent, it has its whole path.
LEMMA WholePaths ==
    ASSUME NEW table, NodeTable(table), LongAliases(table), ParentsThere(table)
    PROVE  \A i \in DOMAIN table : \A k \in 2..Len(table[i].alias) :
                \E p \in DOMAIN table : table[p].alias = SubSeq(table[i].alias, 1, k)
<1> DEFINE ids == DOMAIN table
<1>1. \A i \in ids : \/ is_forest_root(table[i].alias)
                    \/ \E p \in ids : table[p].alias = parent_alias(table[i].alias)
  BY DEF ParentsThere, AtAlias
<1>2. ids \in SUBSET DOMAIN table
  OBVIOUS
<1> HIDE DEF ids
<1>3. \A i \in ids : \A k \in 2..Len(table[i].alias) :
            \E p \in ids : table[p].alias = SubSeq(table[i].alias, 1, k)
  BY <1>1, <1>2, PathsThere
<1> QED
  BY <1>3 DEF ids

\* Orderly, of any table.
OrderlyOn(table, c) ==
    /\ \A k \in Children(c) : ~in_subtree(c.new_node.alias, OldAlias(table, c, k))
    /\ \A j, k \in Children(c) : j # k =>
            /\ ~in_subtree(OldAlias(table, c, j), OldAlias(table, c, k))
            /\ LastWord(OldAlias(table, c, j)) # LastWord(OldAlias(table, c, k))

\* What the checks before the transaction and the orderliness of the command
\* say of the table that it begins with: its children are there, and so is the
\* new node's parent, but nothing is at or beneath the new node.
Fits(table, c) ==
    LET n == c.new_node
    IN  /\ NodeTable(table) /\ LongAliases(table)
        /\ n \in GNodeGt /\ Decodes(n) /\ Len(n.alias) >= 3
        /\ c.moved_child_g_node_ids \in Seq(GNodeId)
        /\ \A k \in Children(c) : c.moved_child_g_node_ids[k] \in DOMAIN table
        /\ OrderlyOn(table, c)
        /\ n.g_node_id \notin DOMAIN table
        /\ AtAlias(table, parent_alias(n.alias)) # {}
        /\ \A i \in DOMAIN table : ~in_subtree(table[i].alias, n.alias)

\* Nothing lands on an alias that another node owns.
Free(table, owners, c) ==
    /\ CoversLive(table, owners)
    /\ \A k \in Children(c) : \A i \in DOMAIN table :
          Beneath(table, c, k, i) /\ Landing(table, c, k, i) \in DOMAIN owners =>
                owners[Landing(table, c, k, i)] = i

\* The working copy after the first m children: the new node is there, what is
\* beneath one of them has landed, the rest is as it was.
Landed(tx, table, c, m) ==
    /\ DOMAIN tx = DOMAIN table \cup {c.new_node.g_node_id}
    /\ tx[c.new_node.g_node_id] = c.new_node
    /\ \A k \in 1..m : \A i \in DOMAIN table :
          Beneath(table, c, k, i) => tx[i] = RenamedRow(table[i], Landing(table, c, k, i))
    /\ \A i \in DOMAIN table : (\A k \in 1..m : ~Beneath(table, c, k, i)) => tx[i] = table[i]

\* The working ledger by then has nothing new but the aliases they landed on.
Claimed(txOwners, owners, table, c, m) ==
    /\ Extends(txOwners, owners)
    /\ \A a \in DOMAIN txOwners :
          \/ a \in DOMAIN owners
          \/ a = c.new_node.alias
          \/ \E k \in 1..m : in_subtree(a, NewAlias(table, c, k))

\* The types of a child's aliases.
LEMMA ChildFacts ==
    ASSUME NEW table, NEW c, Fits(table, c), NEW k \in Children(c)
    PROVE  /\ OldAlias(table, c, k) \in Alias /\ Len(OldAlias(table, c, k)) >= 2
           /\ NewAlias(table, c, k) \in Alias /\ Len(NewAlias(table, c, k)) = Len(c.new_node.alias) + 1
           /\ parent_alias(NewAlias(table, c, k)) = c.new_node.alias
           /\ in_subtree(NewAlias(table, c, k), c.new_node.alias)
           /\ LastWord(NewAlias(table, c, k)) = LastWord(OldAlias(table, c, k))
           /\ c.new_node.alias \in Alias
           /\ c.moved_child_g_node_ids[k] \in DOMAIN table
<1>1. c.moved_child_g_node_ids[k] \in DOMAIN table /\ c.new_node.alias \in Alias
  BY DEF Fits, GNodeGt
<1>2. OldAlias(table, c, k) \in Alias /\ Len(OldAlias(table, c, k)) >= 2
  BY <1>1 DEF Fits, NodeTable, LongAliases, GNodeGt, OldAlias
<1>3. Len(OldAlias(table, c, k)) \in Nat
  BY <1>2 DEF Alias
<1> QED
  BY <1>1, <1>2, <1>3, LandingFacts DEF NewAlias

\* The children before the next one.
LEMMA EarlierChildren ==
    ASSUME NEW table, NEW c, Fits(table, c), NEW m \in Nat,
           m + 1 \in Children(c)
    PROVE  \A k \in 1..m : k \in Children(c) /\ k # m + 1
<1>1. Children(c) = 1..Len(c.moved_child_g_node_ids) /\ Len(c.moved_child_g_node_ids) \in Nat
  BY DEF Fits, Children
<1> QED
  BY <1>1

\* Nothing is beneath two children.
LEMMA OneChild ==
    ASSUME NEW table, NEW c, Fits(table, c), NEW i \in DOMAIN table,
           NEW j \in Children(c), NEW k \in Children(c),
           Beneath(table, c, j, i), Beneath(table, c, k, i)
    PROVE  j = k
<1>1. table[i].alias \in Alias
  BY DEF Fits, NodeTable, GNodeGt
<1>2. OldAlias(table, c, j) \in Alias /\ OldAlias(table, c, k) \in Alias
  BY ChildFacts
<1>3. \/ in_subtree(OldAlias(table, c, j), OldAlias(table, c, k))
      \/ in_subtree(OldAlias(table, c, k), OldAlias(table, c, j))
  BY <1>1, <1>2, SubtreesNest DEF Beneath
<1> QED
  BY <1>3 DEF Fits, OrderlyOn

\* Where a row lands: beneath the new node, where it was not before, under the
\* same last word.
LEMMA LandsBelow ==
    ASSUME NEW table, NEW c, Fits(table, c), NEW i \in DOMAIN table,
           NEW k \in Children(c), Beneath(table, c, k, i)
    PROVE  /\ Landing(table, c, k, i) \in Alias /\ Len(Landing(table, c, k, i)) >= 2
           /\ in_subtree(Landing(table, c, k, i), NewAlias(table, c, k))
           /\ in_subtree(Landing(table, c, k, i), c.new_node.alias)
           /\ Landing(table, c, k, i) # table[i].alias
           /\ LastWord(Landing(table, c, k, i)) = LastWord(table[i].alias)
<1> DEFINE a == table[i].alias
           old == OldAlias(table, c, k)
           new == NewAlias(table, c, k)
           r == Landing(table, c, k, i)
           n == c.new_node.alias
<1>1. a \in Alias /\ Len(a) \in Nat /\ ~in_subtree(a, n) /\ n \in Alias
  BY DEF Fits, NodeTable, GNodeGt, Alias
<1>2. /\ old \in Alias /\ Len(old) >= 2 /\ Len(old) \in Nat
      /\ new \in Alias /\ Len(new) = Len(n) + 1 /\ Len(n) \in Nat
      /\ in_subtree(new, n) /\ LastWord(new) = LastWord(old)
  BY <1>1, ChildFacts DEF Alias
<1>3. in_subtree(a, old) /\ r = rewrite_alias(a, old, new)
  BY DEF Beneath, Landing
<1> HIDE DEF a, old, new, r, n
<1>4. Swapped(r, a, old, new)
  BY <1>1, <1>2, <1>3, RewriteByWords
<1>5. /\ in_subtree(r, new) /\ (a = old => r = new)
      /\ (Len(a) > Len(old) => LastWord(r) = LastWord(a))
  BY <1>1, <1>2, <1>3, RewriteFacts
<1>6. r \in Alias /\ Len(r) \in Nat
  BY <1>4 DEF Swapped, Alias
<1>7. Len(new) <= Len(r)
  BY <1>5 DEF in_subtree
<1>8. Len(n) >= 3
  BY DEF Fits, n
<1>9. in_subtree(r, n)
  BY <1>1, <1>2, <1>5, <1>6, SubtreeTransitive
<1>10. LastWord(r) = LastWord(a)
  <2>1. CASE a = old
    BY <1>2, <1>5, <2>1
  <2>2. CASE a # old
    <3>1. Len(a) > Len(old)
      BY <1>1, <1>2, <1>3, <2>2, ParentInSubtree
    <3> QED
      BY <1>5, <3>1
  <2> QED
    BY <2>1, <2>2
<1>11. Len(r) >= 2
  BY <1>2, <1>6, <1>7, <1>8
<1> QED
  BY <1>1, <1>5, <1>6, <1>9, <1>10, <1>11 DEF a, old, new, r, n

\* Two children land in different subtrees.
LEMMA LandApart ==
    ASSUME NEW table, NEW c, Fits(table, c), NEW j \in Children(c), NEW k \in Children(c),
           NEW alias \in Alias,
           in_subtree(alias, NewAlias(table, c, j)), in_subtree(alias, NewAlias(table, c, k))
    PROVE  j = k
<1> DEFINE a == NewAlias(table, c, j)
           b == NewAlias(table, c, k)
<1>1. /\ a \in Alias /\ Len(a) = Len(c.new_node.alias) + 1
      /\ LastWord(a) = LastWord(OldAlias(table, c, j))
      /\ b \in Alias /\ Len(b) = Len(c.new_node.alias) + 1
      /\ LastWord(b) = LastWord(OldAlias(table, c, k))
  BY ChildFacts
<1>2. j # k => LastWord(a) # LastWord(b)
  BY <1>1 DEF Fits, OrderlyOn
<1> HIDE DEF a, b
<1>3. SubSeq(alias, 1, Len(a)) = a /\ SubSeq(alias, 1, Len(b)) = b
  BY DEF in_subtree, a, b
<1> QED
  BY <1>1, <1>2, <1>3

\* A row that has landed still decodes: its last word is the same, and its
\* previous alias is another.
LEMMA LandedDecodes ==
    ASSUME NEW table, NEW c, Fits(table, c), NEW i \in DOMAIN table,
           NEW k \in Children(c), Beneath(table, c, k, i), Decodes(table[i])
    PROVE  Decodes(RenamedRow(table[i], Landing(table, c, k, i)))
<1> DEFINE row == table[i]
           r == Landing(table, c, k, i)
           new == RenamedRow(row, r)
<1>1. row \in GNodeGt /\ row.alias \in Alias /\ Len(row.alias) >= 2
  BY DEF Fits, NodeTable, LongAliases, GNodeGt
<1>2. r \in Alias /\ Len(r) >= 2 /\ r # row.alias /\ LastWord(r) = LastWord(row.alias)
  BY LandsBelow
<1> HIDE DEF r, row
<1>3. /\ new.base_class = row.base_class /\ new.g_node_class = row.g_node_class
      /\ new.status = row.status /\ new.position_point_id = row.position_point_id
      /\ new.alias = r /\ new.prev_alias = row.alias
  BY <1>1 DEF RenamedRow, GNodeGt
<1> HIDE DEF new
<1>4. Decodes(row)
  BY DEF row
<1>5. ClassConsistency(new) /\ PhysicalGNodeLocations(new)
  BY <1>3, <1>4 DEF Decodes, ClassConsistency, PhysicalGNodeLocations
<1>6. AliasTransitionConsistency(new) /\ GNodeAliasHasBody(new)
  BY <1>1, <1>2, <1>3 DEF AliasTransitionConsistency, GNodeAliasHasBody
<1>7. AliasSuffixSemantics(new)
  BY <1>1, <1>2, <1>3, <1>4 DEF Decodes, AliasSuffixSemantics, HasSuffix
<1>8. Decodes(new)
  BY <1>5, <1>6, <1>7 DEF Decodes
<1> QED
  BY <1>8 DEF new, row, r

-----------------------------------------------------------------------------
(* One child after the other                                                *)

\* What has landed is not beneath a child that is still to be moved: that child
\* would be beneath the new node.
LEMMA LandedElsewhere ==
    ASSUME NEW table, NEW c, Fits(table, c), NEW i \in DOMAIN table,
           NEW j \in Children(c), NEW k \in Children(c), Beneath(table, c, j, i)
    PROVE  ~in_subtree(Landing(table, c, j, i), OldAlias(table, c, k))
<1> DEFINE n == c.new_node.alias
           r == Landing(table, c, j, i)
           old == OldAlias(table, c, k)
<1>1. r \in Alias /\ n \in Alias /\ old \in Alias /\ in_subtree(r, n)
  BY LandsBelow, ChildFacts
<1>2. ~in_subtree(n, old)
  BY DEF Fits, OrderlyOn
<1>3. ~in_subtree(old, n)
  BY ChildFacts DEF Fits, OldAlias
<1> HIDE DEF r, n, old
<1>4. ~in_subtree(r, old)
  BY <1>1, <1>2, <1>3, SubtreesNest
<1> QED
  BY <1>4 DEF r, old

\* The subtree of the next child in the working copy is the one it had at the
\* start, every row as it was.
LEMMA SubtreeStands ==
    ASSUME NEW table, NEW c, Fits(table, c), NEW m \in Nat,
           m + 1 \in Children(c), NEW tx, Landed(tx, table, c, m)
    PROVE  /\ Subtree(tx, OldAlias(table, c, m + 1)) =
                {i \in DOMAIN table : Beneath(table, c, m + 1, i)}
           /\ \A i \in DOMAIN table : Beneath(table, c, m + 1, i) => tx[i] = table[i]
<1> DEFINE old == OldAlias(table, c, m + 1)
<1>1. 1..m \subseteq Children(c) /\ \A j \in 1..m : j # m + 1
  BY EarlierChildren
<1>2. ASSUME NEW i \in DOMAIN table, Beneath(table, c, m + 1, i)
      PROVE  tx[i] = table[i]
  <2>1. \A k \in 1..m : ~Beneath(table, c, k, i)
    BY <1>1, <1>2, OneChild
  <2> QED
    BY <2>1 DEF Landed
<1>3. ASSUME NEW i \in DOMAIN table PROVE in_subtree(tx[i].alias, old) <=> Beneath(table, c, m + 1, i)
  <2>1. CASE \A k \in 1..m : ~Beneath(table, c, k, i)
    BY <2>1 DEF Landed, Beneath
  <2>2. ASSUME NEW k \in 1..m, Beneath(table, c, k, i)
        PROVE  in_subtree(tx[i].alias, old) <=> Beneath(table, c, m + 1, i)
    <3>1. tx[i] = RenamedRow(table[i], Landing(table, c, k, i))
      BY <2>2 DEF Landed
    <3>2. tx[i].alias = Landing(table, c, k, i)
      <4>1. table[i] \in GNodeGt
        BY DEF Fits, NodeTable
      <4> QED
        BY <3>1, <4>1 DEF RenamedRow, GNodeGt
    <3>3. ~in_subtree(tx[i].alias, old)
      BY <1>1, <2>2, <3>2, LandedElsewhere
    <3>4. ~Beneath(table, c, m + 1, i)
      BY <1>1, <2>2, OneChild
    <3> QED
      BY <3>3, <3>4
  <2> QED
    BY <2>1, <2>2
<1>4. ~in_subtree(tx[c.new_node.g_node_id].alias, old)
  BY DEF Landed, Fits, OrderlyOn
<1> HIDE DEF old
<1>5. Subtree(tx, old) = {i \in DOMAIN table : Beneath(table, c, m + 1, i)}
  BY <1>3, <1>4 DEF Subtree, Landed
<1> QED
  BY <1>2, <1>5 DEF old

\* The aliases that rewriting the next child's subtree gives, in terms of the
\* table at the start.
Wanted(table, c, k) ==
    [i \in {j \in DOMAIN table : Beneath(table, c, k, j)} |-> Landing(table, c, k, i)]

\* Renaming them moves the next child and nothing else.
LEMMA NextChild ==
    ASSUME NEW table, NEW c, Fits(table, c), NEW m \in Nat,
           m + 1 \in Children(c), NEW tx, Landed(tx, table, c, m)
    PROVE  Landed(Rename(tx, Wanted(table, c, m + 1)), table, c, m + 1)
<1> DEFINE n == c.new_node
           want == Wanted(table, c, m + 1)
           new == Rename(tx, want)
<1>1. DOMAIN want = {i \in DOMAIN table : Beneath(table, c, m + 1, i)}
      /\ \A i \in DOMAIN want : want[i] = Landing(table, c, m + 1, i)
  BY DEF Wanted
<1>2. /\ DOMAIN new = DOMAIN tx
      /\ \A i \in DOMAIN tx : new[i] = IF i \in DOMAIN want THEN RenamedRow(tx[i], want[i]) ELSE tx[i]
  BY DEF Rename
<1> HIDE DEF want, new
<1>3. n.g_node_id \notin DOMAIN want /\ DOMAIN want \subseteq DOMAIN tx
  BY <1>1 DEF Fits, Landed
<1>4. DOMAIN new = DOMAIN table \cup {n.g_node_id} /\ new[n.g_node_id] = n
  BY <1>2, <1>3 DEF Landed
<1>5. ASSUME NEW k \in 1..m + 1, NEW i \in DOMAIN table, Beneath(table, c, k, i)
      PROVE  new[i] = RenamedRow(table[i], Landing(table, c, k, i))
  <2>1. i \in DOMAIN tx
    BY DEF Landed
  <2>2. CASE k = m + 1
    BY <1>1, <1>2, <1>5, <2>1, <2>2, SubtreeStands
  <2>3. CASE k \in 1..m
    <3>1. k \in Children(c) /\ k # m + 1
      BY <2>3, EarlierChildren
    <3>2. i \notin DOMAIN want
      BY <1>1, <1>5, <3>1, OneChild
    <3> QED
      BY <1>2, <1>5, <2>1, <2>3, <3>2 DEF Landed
  <2> QED
    BY <2>2, <2>3
<1>6. ASSUME NEW i \in DOMAIN table, \A k \in 1..m + 1 : ~Beneath(table, c, k, i)
      PROVE  new[i] = table[i]
  <2>1. m + 1 \in 1..m + 1 /\ 1..m \subseteq 1..m + 1
    OBVIOUS
  <2>2. i \notin DOMAIN want /\ i \in DOMAIN tx /\ tx[i] = table[i]
    BY <1>1, <1>6, <2>1 DEF Landed
  <2> QED
    BY <1>2, <2>2
<1>7. Landed(new, table, c, m + 1)
  BY <1>4, <1>5, <1>6 DEF Landed
<1> QED
  BY <1>7 DEF new, want

\* Every alias of the next child's subtree can be claimed: who owns it at the
\* start owns it rightly, the new node is higher up, and the other children
\* land under other words.
LEMMA NextClaims ==
    ASSUME NEW table, NEW c, Fits(table, c), NEW m \in Nat,
           m + 1 \in Children(c), NEW owners, Free(table, owners, c),
           NEW txOwners, Claimed(txOwners, owners, table, c, m)
    PROVE  /\ CanClaim(txOwners, Wanted(table, c, m + 1))
           /\ Claimed(claim_alias(txOwners, Wanted(table, c, m + 1)), owners, table, c, m + 1)
<1> DEFINE n == c.new_node
           want == Wanted(table, c, m + 1)
           D == {i \in DOMAIN table : Beneath(table, c, m + 1, i)}
<1>1. DOMAIN want = D /\ \A i \in D : want[i] = Landing(table, c, m + 1, i)
  BY DEF Wanted
<1> HIDE DEF want
<1>2. ASSUME NEW i \in D, want[i] \in DOMAIN txOwners PROVE txOwners[want[i]] = i
  <2>1. i \in DOMAIN table /\ Beneath(table, c, m + 1, i) /\ want[i] = Landing(table, c, m + 1, i)
    BY <1>1
  <2>2. CASE want[i] \in DOMAIN owners
    <3>1. owners[want[i]] = i
      BY <2>1, <2>2 DEF Free
    <3> QED
      BY <2>2, <3>1 DEF Claimed, Extends
  <2>3. CASE want[i] = n.alias
    <3>1. in_subtree(n.alias, NewAlias(table, c, m + 1)) /\ n.alias \in Alias /\ Len(n.alias) \in Nat
      BY <2>1, <2>3, LandsBelow DEF Alias
    <3>2. Len(NewAlias(table, c, m + 1)) = Len(n.alias) + 1
      BY ChildFacts
    <3> QED
      BY <3>1, <3>2 DEF in_subtree
  <2>4. ASSUME NEW k \in 1..m, in_subtree(want[i], NewAlias(table, c, k)) PROVE FALSE
    <3>1. k \in Children(c) /\ k # m + 1
      BY EarlierChildren
    <3>2. want[i] \in Alias /\ in_subtree(want[i], NewAlias(table, c, m + 1))
      BY <2>1, LandsBelow
    <3> QED
      BY <2>4, <3>1, <3>2, LandApart
  <2> QED
    BY <1>2, <2>2, <2>3, <2>4 DEF Claimed
<1>3. ASSUME NEW i \in D, NEW j \in D, want[i] = want[j] PROVE i = j
  <2> DEFINE old == OldAlias(table, c, m + 1)
             new == NewAlias(table, c, m + 1)
  <2>1. table[i].alias \in Alias /\ table[j].alias \in Alias /\ old \in Alias /\ new \in Alias
    BY ChildFacts DEF Fits, NodeTable, GNodeGt
  <2>2. /\ in_subtree(table[i].alias, old) /\ in_subtree(table[j].alias, old)
        /\ rewrite_alias(table[j].alias, old, new) = rewrite_alias(table[i].alias, old, new)
    BY <1>1, <1>3 DEF Beneath, Landing
  <2> HIDE DEF old, new
  <2>3. table[j].alias = table[i].alias
    BY <2>1, <2>2, RewriteFacts
  <2> QED
    BY <2>3 DEF Free, CoversLive
<1>4. CanClaim(txOwners, want)
  BY <1>1, <1>2, <1>3 DEF CanClaim
<1>5. Claimed(claim_alias(txOwners, want), owners, table, c, m + 1)
  <2>1. DOMAIN claim_alias(txOwners, want) = DOMAIN txOwners \cup {want[i] : i \in D}
        /\ \A a \in DOMAIN txOwners : claim_alias(txOwners, want)[a] = txOwners[a]
    BY <1>1 DEF claim_alias
  <2>2. \A i \in D : in_subtree(want[i], NewAlias(table, c, m + 1))
    BY <1>1, LandsBelow
  <2>3. m + 1 \in 1..m + 1 /\ 1..m \subseteq 1..m + 1
    OBVIOUS
  <2> HIDE DEF D
  <2> QED
    BY <2>1, <2>2, <2>3 DEF Claimed, Extends
<1> QED
  BY <1>4, <1>5 DEF want

-----------------------------------------------------------------------------
(* When all children have landed                                            *)

AllLanded(tx, table, c) == Landed(tx, table, c, Len(c.moved_child_g_node_ids))

\* A row has moved along with child k, or stands as it was.
MovedWith(tx, table, c, k, i) ==
    /\ Beneath(table, c, k, i)
    /\ tx[i] = RenamedRow(table[i], Landing(table, c, k, i))
    /\ tx[i].alias = Landing(table, c, k, i) /\ tx[i].prev_alias = table[i].alias

Stands(tx, table, c, i) ==
    /\ \A k \in Children(c) : ~Beneath(table, c, k, i)
    /\ tx[i] = table[i]

\* One of the two is the case.
LEMMA MovedOrStands ==
    ASSUME NEW table, NEW c, Fits(table, c),
           NEW tx, AllLanded(tx, table, c), NEW i \in DOMAIN table
    PROVE  \/ \E k \in Children(c) : MovedWith(tx, table, c, k, i)
           \/ Stands(tx, table, c, i)
<1>1. Children(c) = 1..Len(c.moved_child_g_node_ids)
  BY DEF Fits, Children
<1>2. table[i] \in GNodeGt
  BY DEF Fits, NodeTable
<1>3. ASSUME NEW k \in Children(c), Beneath(table, c, k, i) PROVE MovedWith(tx, table, c, k, i)
  <2>1. tx[i] = RenamedRow(table[i], Landing(table, c, k, i))
    BY <1>1, <1>3 DEF AllLanded, Landed
  <2> QED
    BY <1>2, <1>3, <2>1 DEF MovedWith, RenamedRow, GNodeGt
<1>4. ASSUME \A k \in Children(c) : ~Beneath(table, c, k, i) PROVE Stands(tx, table, c, i)
  BY <1>1, <1>4 DEF AllLanded, Landed, Stands
<1> QED
  BY <1>3, <1>4

\* A row that moves takes along whatever is below it.
LEMMA BelowMoves ==
    ASSUME NEW table, NEW c, Fits(table, c),
           NEW tx, AllLanded(tx, table, c), NEW i \in DOMAIN table, NEW d \in DOMAIN table,
           in_subtree(table[d].alias, table[i].alias),
           NEW k \in Children(c), MovedWith(tx, table, c, k, i)
    PROVE  MovedWith(tx, table, c, k, d)
<1>1. table[i].alias \in Alias /\ table[d].alias \in Alias /\ OldAlias(table, c, k) \in Alias
  BY ChildFacts DEF Fits, NodeTable, GNodeGt
<1>2. Beneath(table, c, k, d)
  BY <1>1, SubtreeTransitive DEF MovedWith, Beneath
<1>3. \A j \in Children(c) : Beneath(table, c, j, d) => j = k
  BY <1>2, OneChild
<1> QED
  BY <1>2, <1>3, MovedOrStands DEF MovedWith, Stands

\* All rows decode.
LEMMA EndDecodes ==
    ASSUME NEW table, NEW c, Fits(table, c),
           NEW tx, AllLanded(tx, table, c), \A i \in DOMAIN table : Decodes(table[i])
    PROVE  \A i \in DOMAIN tx : Decodes(tx[i])
<1>1. ASSUME NEW i \in DOMAIN table PROVE Decodes(tx[i])
  <2>1. ASSUME NEW k \in Children(c), MovedWith(tx, table, c, k, i) PROVE Decodes(tx[i])
    BY <2>1, LandedDecodes DEF MovedWith
  <2> QED
    BY <2>1, MovedOrStands DEF Stands
<1> QED
  BY <1>1 DEF AllLanded, Landed, Fits

\* The new node is the alias-parent of every moved child.
LEMMA EndChildren ==
    ASSUME NEW table, NEW c, Fits(table, c),
           NEW tx, AllLanded(tx, table, c), NEW k \in Children(c)
    PROVE  parent_alias(tx[c.moved_child_g_node_ids[k]].alias) = tx[c.new_node.g_node_id].alias
<1> DEFINE i == c.moved_child_g_node_ids[k]
<1>1. /\ i \in DOMAIN table /\ table[i].alias = OldAlias(table, c, k) /\ OldAlias(table, c, k) \in Alias
      /\ NewAlias(table, c, k) \in Alias /\ parent_alias(NewAlias(table, c, k)) = c.new_node.alias
  BY ChildFacts DEF OldAlias
<1> HIDE DEF i
<1>2. in_subtree(table[i].alias, OldAlias(table, c, k))
  BY <1>1, SubtreeOwn
<1>3. Landing(table, c, k, i) = NewAlias(table, c, k)
  BY <1>1, <1>2, RewriteFacts DEF Landing
<1>4. MovedWith(tx, table, c, k, i)
  <2>1. Beneath(table, c, k, i)
    BY <1>2 DEF Beneath
  <2>2. \A j \in Children(c) : Beneath(table, c, j, i) => j = k
    BY <1>1, <2>1, OneChild
  <2> QED
    BY <1>1, <2>1, <2>2, MovedOrStands DEF MovedWith, Stands
<1> QED
  BY <1>1, <1>3, <1>4 DEF MovedWith, AllLanded, Landed, i

\* A path longer than another one with a body is no forest root.
LEMMA LongerIsNoRoot ==
    ASSUME NEW a \in Alias, NEW b \in Alias, Len(b) >= 2, Len(a) > Len(b)
    PROVE  ~is_forest_root(a)
BY DEF Alias, is_forest_root

\* Every row hangs from a parent still: the new node from the one it had been
\* shown to have, a moved child from the new node, the rest from the parents
\* that they had, which moved when they did.
LEMMA EndParents ==
    ASSUME NEW table, NEW c, Fits(table, c), ParentsThere(table),
           NEW tx, AllLanded(tx, table, c)
    PROVE  ParentsThere(tx)
<1> DEFINE n == c.new_node
<1>1. /\ DOMAIN tx = DOMAIN table \cup {n.g_node_id} /\ tx[n.g_node_id] = n
      /\ n.alias \in Alias /\ Len(n.alias) >= 3
  BY DEF AllLanded, Landed, Fits, GNodeGt
<1>2. AtAlias(tx, parent_alias(n.alias)) # {}
  <2>1. PICK p \in DOMAIN table : table[p].alias = parent_alias(n.alias)
    BY DEF Fits, AtAlias
  <2>2. Stands(tx, table, c, p)
    <3>1. ASSUME NEW k \in Children(c), Beneath(table, c, k, p) PROVE FALSE
      <4>1. OldAlias(table, c, k) \in Alias /\ in_subtree(parent_alias(n.alias), OldAlias(table, c, k))
        BY <2>1, <3>1, ChildFacts DEF Beneath
      <4>2. parent_alias(n.alias) \in Alias /\ in_subtree(n.alias, parent_alias(n.alias))
        BY <1>1, ParentFacts DEF Alias
      <4>3. in_subtree(n.alias, OldAlias(table, c, k))
        BY <1>1, <4>1, <4>2, SubtreeTransitive
      <4> QED
        BY <4>3 DEF Fits, OrderlyOn
    <3> QED
      BY <3>1, MovedOrStands DEF MovedWith
  <2> QED
    BY <1>1, <2>1, <2>2 DEF Stands, AtAlias
<1>3. ASSUME NEW i \in DOMAIN table, ~is_forest_root(table[i].alias)
      PROVE  \E p \in DOMAIN table : table[p].alias = parent_alias(table[i].alias)
  BY <1>3 DEF ParentsThere, AtAlias
<1>4. ASSUME NEW i \in DOMAIN table
      PROVE  is_forest_root(tx[i].alias) \/ AtAlias(tx, parent_alias(tx[i].alias)) # {}
  <2>1. table[i].alias \in Alias /\ Len(table[i].alias) >= 2
    BY DEF Fits, NodeTable, LongAliases, GNodeGt
  <2>2. CASE Stands(tx, table, c, i) /\ ~is_forest_root(tx[i].alias)
    <3>1. PICK p \in DOMAIN table : table[p].alias = parent_alias(table[i].alias)
      BY <1>3, <2>2 DEF Stands
    <3>2. in_subtree(table[i].alias, table[p].alias)
      BY <2>1, <3>1, ParentFacts
    <3>3. Stands(tx, table, c, p)
      <4>1. ASSUME NEW k \in Children(c), MovedWith(tx, table, c, k, p) PROVE FALSE
        BY <2>2, <3>2, <4>1, BelowMoves DEF Stands, MovedWith
      <4> QED
        BY <4>1, MovedOrStands
    <3> QED
      BY <1>1, <2>2, <3>1, <3>3 DEF Stands, AtAlias
  <2>3. ASSUME NEW k \in Children(c), MovedWith(tx, table, c, k, i)
        PROVE  AtAlias(tx, parent_alias(tx[i].alias)) # {}
    <3> DEFINE a == table[i].alias
               old == OldAlias(table, c, k)
               new == NewAlias(table, c, k)
    <3>1. /\ old \in Alias /\ Len(old) >= 2 /\ Len(old) \in Nat /\ new \in Alias /\ Len(new) >= 2
          /\ parent_alias(new) = n.alias /\ Len(a) \in Nat
      BY <1>1, <2>1, ChildFacts DEF Alias
    <3>2. in_subtree(a, old) /\ tx[i].alias = rewrite_alias(a, old, new)
      BY <2>3 DEF MovedWith, Beneath, Landing
    <3>3. CASE a = old
      <4>1. tx[i].alias = new
        BY <2>1, <3>1, <3>2, <3>3, RewriteFacts
      <4> QED
        BY <1>1, <3>1, <4>1 DEF AtAlias
    <3>4. CASE a # old
      <4>1. Len(a) > Len(old) /\ in_subtree(parent_alias(a), old)
        BY <2>1, <3>1, <3>2, <3>4, ParentInSubtree
      <4>2. ~is_forest_root(a)
        BY <2>1, <3>1, <4>1, LongerIsNoRoot
      <4>3. PICK p \in DOMAIN table : table[p].alias = parent_alias(a)
        BY <1>3, <4>2
      <4>4. MovedWith(tx, table, c, k, p)
        <5>1. Beneath(table, c, k, p)
          BY <4>1, <4>3 DEF Beneath
        <5>2. \A j \in Children(c) : Beneath(table, c, j, p) => j = k
          BY <5>1, OneChild
        <5> QED
          BY <5>1, <5>2, MovedOrStands DEF MovedWith, Stands
      <4>5. tx[p].alias = rewrite_alias(parent_alias(a), old, new)
        BY <4>3, <4>4 DEF MovedWith, Landing
      <4>6. parent_alias(rewrite_alias(a, old, new)) = rewrite_alias(parent_alias(a), old, new)
        BY <2>1, <3>1, <3>2, <3>4, RewriteParent
      <4> QED
        BY <1>1, <3>2, <4>5, <4>6 DEF AtAlias
    <3> QED
      BY <3>3, <3>4
  <2> QED
    BY <2>2, <2>3, MovedOrStands
<1> QED
  BY <1>1, <1>2, <1>4 DEF ParentsThere

-----------------------------------------------------------------------------
(* The specification                                                        *)

\* Where an orderly transaction is: so many children have landed.
OrderlyTx ==
    LET moved == cmd.moved_child_g_node_ids
        m     == Len(moved) - Len(todo)
    IN  /\ result = NULL
        /\ Fits(nodes, cmd) /\ Free(nodes, ledger, cmd)
        /\ Len(todo) \in 0..Len(moved)
        /\ todo = SubSeq(moved, m + 1, Len(moved))
        /\ Landed(txNodes, nodes, cmd, m)
        /\ Claimed(txLedger, ledger, nodes, cmd, m)

OrderlyInv ==
    /\ IInv
    /\ CommandAnswered
    /\ ReparentsBeneathN
    /\ ParentsThere(nodes)
    /\ pc = "rewriting" => OrderlyTx

\* Orderly steps are steps of the registry.
LEMMA OrderlyIsNext ==
    ASSUME [OrderlyNext]_vars
    PROVE  [Next]_vars
BY DEF OrderlyNext, Next, apply_reparent

\* Every row has a body.
LEMMA RowsLong ==
    ASSUME IInv
    PROVE  NodeTable(nodes) /\ LongAliases(nodes)
BY DEF IInv, SoundInv, TypeOK, RowsDecode, Decodes, GNodeAliasHasBody, LongAliases

\* An orderly command that passes the checks fits the tables: whatever were
\* beneath the new node would have a parent at its alias.
LEMMA BeginFits ==
    ASSUME IInv, ParentsThere(nodes), NEW c \in ReparentCmd, BeginReparent(c), Orderly(c)
    PROVE  Fits(nodes, c)
<1> DEFINE n == c.new_node
<1>1. /\ n \in GNodeGt /\ Decodes(n) /\ n.alias \in Alias /\ Len(n.alias) >= 2
      /\ c.moved_child_g_node_ids \in Seq(GNodeId)
  BY CmdFacts DEF Cmd
<1>2. /\ n.g_node_id \notin DOMAIN nodes /\ AtAlias(nodes, n.alias) = {}
      /\ ~is_forest_root(n.alias) /\ AtAlias(nodes, parent_alias(n.alias)) # {}
      /\ \A k \in Children(c) : c.moved_child_g_node_ids[k] \in DOMAIN nodes
  BY DEF BeginReparent, InsertFails, ReparentRefusal, Children
<1>3. Len(n.alias) >= 3 /\ Len(n.alias) \in Nat
  <2> DEFINE length == Len(n.alias)
  <2>1. length \in Nat /\ length >= 2 /\ length # 2
    BY <1>1, <1>2 DEF is_forest_root, Alias
  <2> HIDE DEF length
  <2>2. length >= 3
    BY <2>1
  <2> QED
    BY <2>1, <2>2 DEF length
<1>4. NodeTable(nodes) /\ LongAliases(nodes)
  BY RowsLong
<1>5. ASSUME NEW i \in DOMAIN nodes, in_subtree(nodes[i].alias, n.alias) PROVE FALSE
  <2>1. Len(n.alias) \in 2..Len(nodes[i].alias)
    <3>1. nodes[i].alias \in Alias
      BY <1>4 DEF NodeTable, GNodeGt
    <3>2. Len(nodes[i].alias) \in Nat
      BY <3>1 DEF Alias
    <3> QED
      BY <1>3, <1>5, <3>2 DEF in_subtree
  <2>2. \E p \in DOMAIN nodes : nodes[p].alias = SubSeq(nodes[i].alias, 1, Len(n.alias))
    <3>1. \A k \in 2..Len(nodes[i].alias) :
                \E p \in DOMAIN nodes : nodes[p].alias = SubSeq(nodes[i].alias, 1, k)
      BY <1>4, WholePaths
    <3> QED
      BY <2>1, <3>1
  <2>3. SubSeq(nodes[i].alias, 1, Len(n.alias)) = n.alias
    BY <1>5 DEF in_subtree
  <2> QED
    BY <1>2, <2>2, <2>3 DEF AtAlias
<1>6. OrderlyOn(nodes, c)
  BY DEF Orderly, OrderlyOn, OldAlias, Children
<1> QED
  BY <1>1, <1>2, <1>3, <1>4, <1>5, <1>6 DEF Fits

\* The check against the intended aliases is complete for an orderly command:
\* no later entry hides an earlier one.
LEMMA BeginFree ==
    ASSUME IInv, NEW c \in ReparentCmd, BeginReparent(c), Fits(nodes, c)
    PROVE  Free(nodes, ledger, c)
<1>1. ~AliasCollision(c)
  BY DEF BeginReparent, ReparentRefusal
<1> DEFINE entry(k, i) == [at |-> k, alias |-> Landing(nodes, c, k, i), id |-> i]
<1>2. \A t : t \in Intended(c) <=>
          \E k \in Children(c) : \E i \in DOMAIN nodes : Beneath(nodes, c, k, i) /\ t = entry(k, i)
  BY DEF Intended, Subtree, Beneath, Landing, OldAlias, NewAlias, Children, Fits
<1>3. ASSUME NEW k \in Children(c), NEW i \in DOMAIN nodes, Beneath(nodes, c, k, i)
      PROVE  ~OwnedByOther(Landing(nodes, c, k, i), i)
  <2> DEFINE t == entry(k, i)
  <2>1. t \in Intended(c)
    BY <1>2, <1>3
  <2>2. ASSUME NEW u \in Intended(c), u.alias = t.alias PROVE u.at = t.at
    <3>1. PICK j \in Children(c), d \in DOMAIN nodes : Beneath(nodes, c, j, d) /\ u = entry(j, d)
      BY <1>2
    <3>2. Landing(nodes, c, j, d) = Landing(nodes, c, k, i)
      BY <2>2, <3>1
    <3>3. j = k
      BY <1>3, <3>1, <3>2, LandsBelow, LandApart
    <3> QED
      BY <3>1, <3>3
  <2>3. ~\E u \in Intended(c) : u.alias = t.alias /\ u.at > t.at
    <3>1. t.at \in Nat
      BY <1>3 DEF Fits, Children
    <3> QED
      BY <2>2, <3>1
  <2> QED
    BY <1>1, <2>1, <2>3 DEF AliasCollision
<1> QED
  BY <1>3 DEF Free, OwnedByOther, IInv, SoundInv, LedgerCoversLive

\* The transaction begins with no child landed.
LEMMA BeginOrderly ==
    ASSUME OrderlyInv, NEW c \in ReparentCmd, BeginReparent(c), Orderly(c)
    PROVE  OrderlyInv'
<1> DEFINE moved == c.moved_child_g_node_ids
<1>1. IInv /\ ParentsThere(nodes)
  BY DEF OrderlyInv
<1>2. /\ IInv' /\ Fits(nodes, c) /\ Free(nodes, ledger, c)
      /\ c.new_node \in GNodeGt /\ moved \in Seq(GNodeId)
  BY <1>1, BeginReparentInv, BeginFits, BeginFree, CmdFacts DEF Cmd, IInv, Keeps
<1>3. /\ cmd' = c /\ result' = NULL /\ todo' = moved /\ UNCHANGED <<nodes, ledger>>
      /\ txNodes' = Insert(nodes, c.new_node)
      /\ txLedger' = claim_alias(ledger, Wants(c.new_node))
  BY DEF BeginReparent, tables
<1>4. Landed(Insert(nodes, c.new_node), nodes, c, 0)
  BY <1>2 DEF Insert, Landed, Fits
<1>5. Claimed(claim_alias(ledger, Wants(c.new_node)), ledger, nodes, c, 0)
  BY DEF claim_alias, Wants, Claimed, Extends
<1>6. Len(moved) \in Nat /\ SubSeq(moved, 1, Len(moved)) = moved /\ Len(moved) - Len(moved) = 0
  BY <1>2, SubSeqFull
<1>7. OrderlyTx'
  <2> HIDE DEF moved
  <2>1. /\ Len(moved) \in 0..Len(moved)
        /\ moved = SubSeq(moved, (Len(moved) - Len(moved)) + 1, Len(moved))
    BY <1>6
  <2> QED
    BY <1>2, <1>3, <1>4, <1>5, <1>6, <2>1 DEF OrderlyTx, moved
<1> QED
  BY <1>1, <1>2, <1>3, <1>7 DEF OrderlyInv, CommandAnswered, ReparentsBeneathN, ParentsThere

\* The aliases that the next child's rewrite asks for are those it had at the
\* start, moved.
LEMMA NextIsWanted ==
    ASSUME NEW m \in Nat, m + 1 \in Children(cmd), Fits(nodes, cmd),
           Landed(txNodes, nodes, cmd, m)
    PROVE  Rewritten(cmd.moved_child_g_node_ids[m + 1]) = Wanted(nodes, cmd, m + 1)
<1> DEFINE child == cmd.moved_child_g_node_ids[m + 1]
           old == OldAlias(nodes, cmd, m + 1)
           D == {i \in DOMAIN nodes : Beneath(nodes, cmd, m + 1, i)}
<1>1. Subtree(txNodes, old) = D /\ \A i \in D : txNodes[i] = nodes[i]
  BY SubtreeStands
<1>2. txNodes[child].alias = old
  <2>1. child \in DOMAIN nodes /\ nodes[child].alias = old /\ old \in Alias
    BY ChildFacts DEF OldAlias
  <2>2. child \in D
    BY <2>1, SubtreeOwn DEF Beneath
  <2> QED
    BY <1>1, <2>1, <2>2
<1> HIDE DEF D, old, child
<1>3. Rewritten(child) = [i \in D |-> rewrite_alias(nodes[i].alias, old,
                                        moved_child_new_prefix(cmd.new_node.alias, old))]
  BY <1>1, <1>2 DEF Rewritten
<1> QED
  BY <1>3 DEF Wanted, Landing, NewAlias, D, old, child

\* Rewriting the next child succeeds and lands it.
LEMMA RewriteOrderly ==
    ASSUME OrderlyInv, RewriteChild
    PROVE  OrderlyInv'
<1> DEFINE moved == cmd.moved_child_g_node_ids
           m == Len(moved) - Len(todo)
           want == Wanted(nodes, cmd, m + 1)
<1>1. pc = "rewriting" /\ todo # <<>> /\ IInv /\ OrderlyTx
  BY DEF RewriteChild, OrderlyInv
<1>2. /\ Fits(nodes, cmd) /\ Free(nodes, ledger, cmd) /\ result = NULL
      /\ Landed(txNodes, nodes, cmd, m) /\ Claimed(txLedger, ledger, nodes, cmd, m)
      /\ Len(todo) \in 0..Len(moved) /\ todo = SubSeq(moved, m + 1, Len(moved))
  BY <1>1 DEF OrderlyTx
<1>3. moved \in Seq(GNodeId) /\ Len(moved) \in Nat /\ todo \in Seq(GNodeId)
  BY <1>1, <1>2 DEF Fits, IInv, SoundInv, TypeOK
<1>4. /\ Len(todo) # 0 /\ Tail(todo) \in Seq(GNodeId) /\ Len(Tail(todo)) = Len(todo) - 1
      /\ m \in Nat /\ m + 1 \in 1..Len(moved) /\ m + 1 \in Children(cmd)
  <2>1. Len(todo) # 0 /\ Tail(todo) \in Seq(GNodeId) /\ Len(Tail(todo)) = Len(todo) - 1
    BY <1>1, <1>3, HeadTailProperties, EmptySeq
  <2>2. m \in Nat /\ m + 1 \in 1..Len(moved)
    <3>1. m = Len(moved) - Len(todo)
      OBVIOUS
    <3> HIDE DEF m, moved
    <3>2. PICK a \in Nat : a = Len(moved)
      BY ONLY <1>3
    <3>3. PICK b \in 0..a : b = Len(todo)
      BY ONLY <1>2, <3>2
    <3>4. b # 0 /\ m = a - b
      BY ONLY <2>1, <3>1, <3>2, <3>3
    <3>5. m \in Nat /\ m + 1 \in 1..a
      BY ONLY a \in Nat, b \in 0..a, <3>4
    <3> QED
      BY ONLY <3>2, <3>5
  <2> QED
    BY <1>3, <2>1, <2>2 DEF Children
<1>5. Head(todo) = moved[m + 1] /\ Tail(todo) = SubSeq(moved, (m + 1) + 1, Len(moved))
  <2> HIDE DEF m, moved
  <2>1. m + 1 \in 1..Len(moved) /\ Len(moved) \in (m + 1)..Len(moved)
    BY ONLY <1>3, <1>4
  <2>2. /\ Head(SubSeq(moved, m + 1, Len(moved))) = moved[m + 1]
        /\ Tail(SubSeq(moved, m + 1, Len(moved))) = SubSeq(moved, (m + 1) + 1, Len(moved))
    BY ONLY <1>3, <2>1, HeadTailOfSubSeq
  <2> QED
    BY ONLY <1>2, <2>2
<1>6. Rewritten(Head(todo)) = want
  BY <1>2, <1>4, <1>5, NextIsWanted
<1>7. CanClaim(txLedger, want) /\ Claimed(claim_alias(txLedger, want), ledger, nodes, cmd, m + 1)
  <2> HIDE DEF m
  <2> QED
    BY <1>2, <1>4, NextClaims
<1>8. Landed(Rename(txNodes, want), nodes, cmd, m + 1)
  <2> HIDE DEF m
  <2> QED
    BY <1>2, <1>4, NextChild
<1> HIDE DEF want
<1>9. /\ txNodes' = Rename(txNodes, want) /\ txLedger' = claim_alias(txLedger, want)
      /\ todo' = Tail(todo) /\ UNCHANGED <<nodes, ledger, log, pc, cmd, result>>
  BY <1>6, <1>7 DEF RewriteChild, tables
<1>10. Len(moved) - Len(todo') = m + 1 /\ Len(todo') \in 0..Len(moved)
  BY <1>2, <1>3, <1>4, <1>9
<1>11. OrderlyTx'
  <2>1. moved' = moved
    BY <1>9
  <2> HIDE DEF m, moved
  <2>2. todo' = SubSeq(moved, (m + 1) + 1, Len(moved))
    BY <1>5, <1>9
  <2> QED
    BY <1>2, <1>7, <1>8, <1>9, <1>10, <2>1, <2>2 DEF OrderlyTx, moved
<1>12. IInv'
  BY <1>1, RewriteChildInv DEF IInv, Keeps
<1> QED
  BY <1>2, <1>9, <1>11, <1>12 DEF OrderlyInv, CommandAnswered, ReparentsBeneathN, ParentsThere

\* At the end every child has landed.
LEMMA EndOfTx ==
    ASSUME OrderlyInv, pc = "rewriting", todo = <<>>
    PROVE  AllLanded(txNodes, nodes, cmd) /\ Fits(nodes, cmd)
<1>1. OrderlyTx /\ Len(todo) = 0
  BY DEF OrderlyInv
<1>2. cmd.moved_child_g_node_ids \in Seq(GNodeId)
  BY <1>1 DEF OrderlyTx, Fits
<1>3. Len(cmd.moved_child_g_node_ids) - Len(todo) = Len(cmd.moved_child_g_node_ids)
  BY <1>1, <1>2
<1> QED
  BY <1>1, <1>3 DEF OrderlyTx, AllLanded

\* A validated transaction commits, for every row decodes.
LEMMA CommitOrderly ==
    ASSUME OrderlyInv, CommitReparent
    PROVE  OrderlyInv'
<1>1. pc = "rewriting" /\ todo = <<>> /\ IInv
  BY DEF CommitReparent, OrderlyInv
<1>2. AllLanded(txNodes, nodes, cmd) /\ Fits(nodes, cmd) /\ ParentsThere(nodes)
  BY <1>1, EndOfTx DEF OrderlyInv
<1>3. IInv'
  BY <1>1, CommitReparentInv DEF IInv, Keeps
<1>4. BroadcastDecodes
  <2>1. \A i \in DOMAIN txNodes : Decodes(txNodes[i])
    BY <1>1, <1>2, EndDecodes DEF IInv, SoundInv, RowsDecode
  <2>2. updated \subseteq DOMAIN txNodes
    BY <1>1 DEF IInv, SoundInv, TxInv
  <2> QED
    BY <2>1, <2>2 DEF BroadcastDecodes
<1>5. CASE Rollback("refused")
  BY <1>2, <1>3, <1>5 DEF Rollback, Close, End, tables, OrderlyInv, CommandAnswered,
                         ReparentsBeneathN, ParentsThere
<1>6. CASE Clean(txNodes)
  <2>1. /\ nodes' = txNodes /\ pc' = "idle"
        /\ result'.verdict = "applied" /\ result'.cmd = cmd
    BY <1>4, <1>6 DEF CommitReparent, Close, End
  <2>2. CommandAnswered'
    BY <2>1 DEF CommandAnswered
  <2>3. ParentsThere(nodes)'
    <3>1. ParentsThere(txNodes)
      BY <1>2, EndParents
    <3> QED
      BY <2>1, <3>1 DEF ParentsThere
  <2>4. ReparentsBeneathN'
    BY <1>2, <2>1, EndChildren DEF ReparentsBeneathN, Children
  <2> QED
    BY <1>3, <2>1, <2>2, <2>3, <2>4 DEF OrderlyInv
<1> QED
  BY <1>5, <1>6 DEF CommitReparent

\* A create adds a row whose parent is there.
LEMMA CreateOrderly ==
    ASSUME OrderlyInv, NEW c \in CreateCmd, apply_create(c)
    PROVE  OrderlyInv'
<1>1. IInv' /\ pc = "idle"
  <2>1. [Next]_vars
    BY DEF Next
  <2> QED
    BY <2>1, NextInv DEF OrderlyInv, apply_create, RefuseCreate, CommitCreate, Replay
<1>2. c \notin ReparentCmd
  BY CmdFacts DEF Cmd
<1>3. result'.cmd = c /\ pc' = "idle"
  BY <1>1 DEF apply_create, RefuseCreate, CommitCreate, Replay, End, txn
<1>4. CommandAnswered' /\ ReparentsBeneathN'
  BY <1>1, <1>2, <1>3 DEF IInv, SoundInv, CreateAnswered, CommandAnswered, ReparentsBeneathN
<1>5. ParentsThere(nodes)'
  <2>1. CASE nodes' = nodes
    BY <2>1 DEF OrderlyInv, ParentsThere
  <2>2. CASE nodes' # nodes
    <3> DEFINE n == c.new_node
    <3>1. /\ nodes' = Insert(nodes, n) /\ n.g_node_id \notin DOMAIN nodes
          /\ is_forest_root(n.alias) \/ AtAlias(nodes, parent_alias(n.alias)) # {}
      BY <2>2 DEF apply_create, RefuseCreate, CommitCreate, Replay, tables, CreateRefusal
    <3>2. /\ DOMAIN nodes' = DOMAIN nodes \cup {n.g_node_id} /\ nodes'[n.g_node_id] = n
          /\ \A i \in DOMAIN nodes : nodes'[i] = nodes[i]
      BY <3>1 DEF Insert
    <3>3. \A a : AtAlias(nodes, a) \subseteq AtAlias(nodes', a)
      BY <3>2 DEF AtAlias
    <3>4. \A i \in DOMAIN nodes' : is_forest_root(nodes'[i].alias)
                                  \/ AtAlias(nodes', parent_alias(nodes'[i].alias)) # {}
      BY <3>1, <3>2, <3>3 DEF OrderlyInv, ParentsThere
    <3> QED
      BY <3>4 DEF ParentsThere
  <2> QED
    BY <2>1, <2>2
<1> QED
  BY <1>1, <1>3, <1>4, <1>5 DEF OrderlyInv

\* The insert of an orderly command that is not refused does not fail: the
\* ledger, which was looked at, owns every live alias.
LEMMA OrderlyInserts ==
    ASSUME IInv, NEW c \in ReparentCmd, Orderly(c), FailReparent(c)
    PROVE  FALSE
<1> DEFINE n == c.new_node
<1>1. /\ n.g_node_id \notin DOMAIN nodes /\ n.position_point_id \in Positions \cup {NULL}
      /\ ~OwnedByOther(n.alias, n.g_node_id) /\ InsertFails(n)
  BY DEF Orderly, FailReparent, ReparentRefusal, AliasCollision
<1>2. PICK i \in DOMAIN nodes : nodes[i].alias = n.alias
  BY <1>1 DEF InsertFails, AtAlias
<1>3. n.alias \in DOMAIN ledger /\ ledger[n.alias] = i
  BY <1>2 DEF IInv, SoundInv, LedgerCoversLive, CoversLive
<1> QED
  BY <1>1, <1>3 DEF OwnedByOther

\* Every orderly step keeps the invariant.
LEMMA OrderlyStepInv == OrderlyInv /\ [OrderlyNext]_vars => OrderlyInv'
<1> SUFFICES ASSUME OrderlyInv, [OrderlyNext]_vars PROVE OrderlyInv'
  OBVIOUS
<1>1. IInv'
  BY OrderlyIsNext, NextInv DEF OrderlyInv
<1>2. ASSUME NEW c \in ReparentCmd, RefuseReparent(c) \/ Replay(c) PROVE OrderlyInv'
  <2>1. UNCHANGED <<tables, txn>> /\ pc = "idle"
        /\ (result'.verdict = "refused" \/ result'.verdict = "replayed")
    BY <1>2 DEF RefuseReparent, Replay, End
  <2> QED
    BY <1>1, <2>1 DEF tables, txn, OrderlyInv, CommandAnswered, ReparentsBeneathN, ParentsThere
<1>3. CASE UNCHANGED vars
  BY <1>1, <1>3 DEF vars, OrderlyInv, CommandAnswered, ReparentsBeneathN, ParentsThere, OrderlyTx
<1> QED
  BY <1>2, <1>3, CreateOrderly, OrderlyInserts, BeginOrderly, RewriteOrderly, CommitOrderly
  DEF OrderlyNext, OrderlyInv

\* The seed hangs together.
LEMMA OrderlyInit == Init => OrderlyInv
<1> SUFFICES ASSUME Init PROVE OrderlyInv
  OBVIOUS
<1>1. IInv
  BY InitInv
<1>2. ParentsThere(nodes)
  <2>1. \A i \in SeedIds : SeedRow(i) \in SeedNodes /\ SeedRow(i).g_node_id = i
    BY DEF SeedIds, SeedRow
  <2>2. \A n \in SeedNodes : n.g_node_id \in SeedIds /\ SeedRow(n.g_node_id) = n
    BY <2>1, SeedAssumption DEF SeedIds
  <2>3. DOMAIN nodes = SeedIds /\ \A i \in SeedIds : nodes[i] = SeedRow(i)
    BY DEF Init
  <2>4. ASSUME NEW i \in SeedIds, ~is_forest_root(nodes[i].alias)
        PROVE  AtAlias(nodes, parent_alias(nodes[i].alias)) # {}
    <3>1. PICK p \in SeedNodes : p.alias = parent_alias(nodes[i].alias)
      BY <2>1, <2>3, <2>4, SeedAssumption
    <3> QED
      BY <2>2, <2>3, <3>1 DEF AtAlias
  <2> QED
    BY <2>3, <2>4 DEF ParentsThere
<1> QED
  BY <1>1, <1>2 DEF Init, OrderlyInv, CommandAnswered, ReparentsBeneathN

-----------------------------------------------------------------------------
(* Theorems                                                                 *)

\* The invariant of orderly re-parents.
THEOREM OrderlyInvariance == OrderlySpec => []OrderlyInv
BY OrderlyInit, OrderlyStepInv, PTL DEF OrderlySpec

\* No command ends with anything but its typed answer: a checked, orderly
\* re-parent always claims what it lands on and always broadcasts.
THEOREM CommandsAnswered == OrderlySpec => []CommandAnswered
<1>1. OrderlyInv => CommandAnswered
  BY DEF OrderlyInv
<1> QED
  BY <1>1, OrderlyInvariance, PTL

\* The new node is the alias-parent of each moved child when a re-parent has
\* been applied (apply_reparent).
THEOREM ChildrenLandBeneathN == OrderlySpec => []ReparentsBeneathN
<1>1. OrderlyInv => ReparentsBeneathN
  BY DEF OrderlyInv
<1> QED
  BY <1>1, OrderlyInvariance, PTL

\* Every node hangs, parent by parent, from a forest root, whatever has been
\* created and moved: no re-parent leaves an orphan.
THEOREM ForestStaysComplete == OrderlySpec => []ForestComplete
<1>1. OrderlyInv => ForestComplete
  <2> SUFFICES ASSUME OrderlyInv, NEW i \in DOMAIN nodes
               PROVE  /\ \E r \in forest_roots : in_subtree(nodes[i].alias, r)
                      /\ is_forest_root(nodes[i].alias)
                         \/ AtAlias(nodes, parent_alias(nodes[i].alias)) # {}
    BY DEF ForestComplete
  <2>1. NodeTable(nodes) /\ LongAliases(nodes) /\ ParentsThere(nodes)
    BY RowsLong DEF OrderlyInv
  <2>2. nodes[i].alias \in Alias /\ Len(nodes[i].alias) \in Nat /\ Len(nodes[i].alias) >= 2
    BY <2>1 DEF NodeTable, LongAliases, GNodeGt, Alias
  <2>3. 2 \in 2..Len(nodes[i].alias) /\ 2 \in 1..Len(nodes[i].alias)
    BY <2>2
  <2>4. PICK p \in DOMAIN nodes : nodes[p].alias = SubSeq(nodes[i].alias, 1, 2)
    BY <2>1, <2>3, WholePaths
  <2>5. Len(nodes[p].alias) = 2 /\ in_subtree(nodes[i].alias, nodes[p].alias)
    BY <2>2, <2>3, <2>4, PrefixFacts
  <2>6. nodes[p].alias \in forest_roots
    BY <2>5 DEF forest_roots, is_forest_root
  <2> QED
    BY <2>1, <2>5, <2>6 DEF ParentsThere
<1> QED
  BY <1>1, OrderlyInvariance, PTL

\* A step that renames is the commit of an orderly transaction.
LEMMA RenamesCommit ==
    ASSUME OrderlyInv, [OrderlyNext]_vars, NEW i \in DOMAIN nodes, nodes'[i] # nodes[i]
    PROVE  /\ nodes' = txNodes
           /\ Fits(nodes, cmd) /\ AllLanded(txNodes, nodes, cmd)
<1>1. CASE UNCHANGED nodes
  BY <1>1
<1>2. ASSUME NEW c \in CreateCmd, apply_create(c) PROVE FALSE
  BY <1>2 DEF apply_create, RefuseCreate, CommitCreate, Replay, tables, CreateRefusal, Insert
<1>3. CASE CommitReparent
  BY <1>1, <1>3, EndOfTx DEF CommitReparent, Rollback, tables
<1>4. OrderlyNext => UNCHANGED nodes \/ CommitReparent \/ \E c \in CreateCmd : apply_create(c)
  BY DEF OrderlyNext, RefuseReparent, Replay, FailReparent, BeginReparent, RewriteChild, Rollback,
         tables
<1> QED
  BY <1>1, <1>2, <1>3, <1>4 DEF vars

\* A rename stashes the alias that the node had before the command, for no node
\* is renamed twice by one (_rewrite_prefix).
THEOREM OldAliasStashed == OrderlySpec => PrevAliasIsPrevious
<1>1. OrderlyInv /\ [OrderlyNext]_vars =>
        [\A i \in DOMAIN nodes :
            nodes'[i].alias # nodes[i].alias => nodes'[i].prev_alias = nodes[i].alias]_vars
  <2> SUFFICES ASSUME OrderlyInv, [OrderlyNext]_vars, NEW i \in DOMAIN nodes,
                      nodes'[i].alias # nodes[i].alias
               PROVE  nodes'[i].prev_alias = nodes[i].alias
    OBVIOUS
  <2>1. nodes' = txNodes /\ Fits(nodes, cmd) /\ AllLanded(txNodes, nodes, cmd)
    BY RenamesCommit
  <2>2. ~Stands(txNodes, nodes, cmd, i)
    BY <2>1 DEF Stands
  <2> QED
    BY <2>1, <2>2, MovedOrStands DEF MovedWith
<1> QED
  BY <1>1, OrderlyInvariance, PTL DEF OrderlySpec, PrevAliasIsPrevious

-----------------------------------------------------------------------------
(* Re-parents that are not orderly: a child may be on the path to N or to   *)
(* another child, or be named twice.  What a transaction finds complete it  *)
(* still moves whole; only a node that an earlier re-parent left without a  *)
(* parent can be taken along by chance.                                     *)

\* The children the command names.
Named(c) == {c.moved_child_g_node_ids[k] : k \in Children(c)}

\* One of `moved' is between c and d, or d itself.
Apart(table, moved, c, d) ==
    \E m \in moved :
        /\ table[m].alias # table[c].alias
        /\ in_subtree(table[m].alias, table[c].alias)
        /\ in_subtree(table[d].alias, table[m].alias)

\* Whoever is below another is at the same path below it still, unless one of
\* `moved' was in between.
Together(tx, table, moved) ==
    \A c, d \in DOMAIN table :
        in_subtree(table[d].alias, table[c].alias) /\ ~Apart(table, moved, c, d) =>
            tx[d].alias = rewrite_alias(table[d].alias, table[c].alias, tx[c].alias)

\* Everyone goes by an alias of its own.
Distinct(table) == \A i, j \in DOMAIN table : table[i].alias = table[j].alias => i = j

\* The rows of `tx', with the subtree of y moved to `new'.
Moves(tx2, tx, y, new) ==
    /\ DOMAIN tx2 = DOMAIN tx
    /\ \A i \in DOMAIN tx :
          tx2[i].alias = IF in_subtree(tx[i].alias, tx[y].alias)
                         THEN rewrite_alias(tx[i].alias, tx[y].alias, new)
                         ELSE tx[i].alias

\* Where the table began complete, a child that is now between c's place and
\* d's was named from between them.
LEMMA NamedBetween ==
    ASSUME NEW table, NodeTable(table), LongAliases(table), ParentsThere(table),
           NEW tx, NodeTable(tx), DOMAIN table \subseteq DOMAIN tx, Distinct(tx),
           NEW moved \in SUBSET DOMAIN table, Together(tx, table, moved),
           NEW c \in DOMAIN table, NEW d \in DOMAIN table,
           in_subtree(table[d].alias, table[c].alias), ~Apart(table, moved, c, d),
           NEW y \in moved,
           in_subtree(tx[d].alias, tx[y].alias)
    PROVE  in_subtree(tx[c].alias, tx[y].alias)
<1> SUFFICES ASSUME ~in_subtree(tx[c].alias, tx[y].alias) PROVE FALSE
  OBVIOUS
<1> DEFINE C == table[c].alias
           D == table[d].alias
           C1 == tx[c].alias
           D1 == tx[d].alias
           P == tx[y].alias
           k == Len(C) + (Len(P) - Len(C1))
           E == SubSeq(D, 1, k)
<1>1. C \in Alias /\ D \in Alias /\ C1 \in Alias /\ D1 \in Alias /\ P \in Alias
  BY DEF NodeTable, GNodeGt
<1>2. /\ Len(C) \in Nat /\ Len(D) \in Nat /\ Len(C1) \in Nat /\ Len(D1) \in Nat /\ Len(P) \in Nat
      /\ Len(C) >= 2 /\ Len(C) <= Len(D)
  BY <1>1 DEF Alias, LongAliases, in_subtree
<1>3. D1 = rewrite_alias(D, C, C1)
  BY DEF Together
<1>4. Swapped(D1, D, C, C1) /\ in_subtree(D1, C1)
  BY <1>1, <1>3, RewriteByWords, RewriteFacts
<1>5. in_subtree(P, C1)
  BY <1>1, <1>4, SubtreesNest
<1>6. P # C1
  BY <1>1, SubtreeOwn
<1>7. Len(P) > Len(C1) /\ Len(P) <= Len(D1)
  <2>1. Len(P) # Len(C1)
    BY <1>1, <1>5, <1>6, SubSeqFull DEF in_subtree, Alias
  <2>2. Len(C1) <= Len(P) /\ Len(P) <= Len(D1)
    BY <1>5 DEF in_subtree
  <2> HIDE DEF P, C1, D1
  <2> QED
    BY <1>2, <2>1, <2>2
<1>8. k \in 2..Len(D) /\ k \in 1..Len(D) /\ k > Len(C) /\ k - Len(C) = Len(P) - Len(C1)
  <2>1. Len(D1) = Len(C1) + (Len(D) - Len(C))
    BY <1>4 DEF Swapped
  <2> HIDE DEF C, D, C1, D1, P
  <2> QED
    BY <1>2, <1>7, <2>1
<1>9. PICK e \in DOMAIN table : table[e].alias = E
  <2> HIDE DEF k
  <2>1. \A j \in 2..Len(D) : \E p \in DOMAIN table : table[p].alias = SubSeq(D, 1, j)
    BY WholePaths
  <2> QED
    BY <1>8, <2>1
<1>10. E \in Alias /\ Len(E) = k /\ in_subtree(D, E)
  <2> HIDE DEF k, D
  <2> QED
    BY <1>1, <1>8, PrefixFacts
<1> HIDE DEF k, E
<1>11. \A i \in 1..k : E[i] = D[i]
  BY <1>1, <1>10, SubtreeByWords
<1>12. in_subtree(E, C) /\ E # C
  <2>1. \A i \in 1..Len(C) : D[i] = C[i]
    BY <1>1, SubtreeByWords
  <2>2. \A i \in 1..Len(C) : E[i] = C[i]
    BY <1>2, <1>8, <1>11, <2>1
  <2>3. Len(C) <= Len(E) /\ Len(C) # Len(E)
    BY <1>2, <1>8, <1>10
  <2> QED
    BY <1>1, <1>10, <2>2, <2>3, SubtreeByWords
<1>13. ~Apart(table, moved, c, e)
  <2> SUFFICES ASSUME NEW m \in moved, table[m].alias # C, in_subtree(table[m].alias, C),
                      in_subtree(E, table[m].alias)
               PROVE  FALSE
    BY <1>9 DEF Apart
  <2>1. table[m].alias \in Alias
    BY DEF NodeTable, GNodeGt
  <2>2. in_subtree(D, table[m].alias)
    BY <1>1, <1>10, <2>1, SubtreeTransitive
  <2> QED
    BY <2>2 DEF Apart
<1>14. Swapped(tx[e].alias, E, C, C1)
  <2>1. tx[e].alias = rewrite_alias(E, C, C1)
    BY <1>9, <1>12, <1>13 DEF Together
  <2> QED
    BY <1>1, <1>10, <1>12, <2>1, RewriteByWords
<1>15. tx[e].alias = P
  <2> DEFINE Q == tx[e].alias
  <2> HIDE DEF C, D, C1, D1, P, Q
  <2>1. Len(Q) = Len(P)
    BY <1>2, <1>8, <1>10, <1>14 DEF Swapped, Q
  <2>2. \A i \in 1..Len(P) : D1[i] = P[i]
    <3>1. in_subtree(D1, P)
      BY DEF D1, P
    <3> QED
      BY <1>1, <3>1, SubtreeByWords
  <2>3. ASSUME NEW i \in 1..Len(P) PROVE Q[i] = D1[i]
    <3>1. CASE i <= Len(C1)
      <4>1. i \in 1..Len(C1)
        BY <1>2, <3>1
      <4> QED
        BY <1>4, <1>14, <4>1 DEF Swapped, Q
    <3>2. CASE i > Len(C1)
      <4> DEFINE j == Len(C) + (i - Len(C1))
      <4>1. /\ j \in Len(C) + 1..k /\ j \in Len(C) + 1..Len(D) /\ j \in 1..k
            /\ i = Len(C1) + (j - Len(C))
        BY <1>2, <1>8, <3>2
      <4> HIDE DEF j
      <4>2. Q[i] = E[j]
        BY <1>10, <1>14, <4>1 DEF Swapped, Q
      <4>3. D1[i] = D[j]
        BY <1>4, <4>1 DEF Swapped
      <4> QED
        BY <1>11, <4>1, <4>2, <4>3
    <3> QED
      BY <1>2, <3>1, <3>2
  <2>4. Q \in Alias
    BY <1>14 DEF Swapped, Q
  <2>5. Q = P
    BY <1>1, <2>1, <2>2, <2>3, <2>4, SeqEqual DEF Alias
  <2> QED
    BY <2>5 DEF Q
<1>16. e = y
  BY <1>15 DEF Distinct
<1> QED
  BY <1>9, <1>10, <1>12, <1>16 DEF Apart

\* Moving one more of them keeps the rest together.
LEMMA MoveTogether ==
    ASSUME NEW table, NodeTable(table), LongAliases(table), ParentsThere(table),
           NEW tx, NodeTable(tx), DOMAIN table \subseteq DOMAIN tx, Distinct(tx),
           NEW moved \in SUBSET DOMAIN table, Together(tx, table, moved),
           NEW y \in moved, NEW new \in Alias,
           NEW tx2, Moves(tx2, tx, y, new)
    PROVE  Together(tx2, table, moved)
<1> SUFFICES ASSUME NEW c \in DOMAIN table, NEW d \in DOMAIN table,
                    in_subtree(table[d].alias, table[c].alias), ~Apart(table, moved, c, d)
             PROVE  tx2[d].alias = rewrite_alias(table[d].alias, table[c].alias, tx2[c].alias)
  BY DEF Together
<1> DEFINE C == table[c].alias
           D == table[d].alias
           C1 == tx[c].alias
           D1 == tx[d].alias
           P == tx[y].alias
<1>1. C \in Alias /\ D \in Alias /\ C1 \in Alias /\ D1 \in Alias /\ P \in Alias
  BY DEF NodeTable, GNodeGt
<1>2. D1 = rewrite_alias(D, C, C1)
  BY DEF Together
<1>3. in_subtree(D1, C1)
  BY <1>1, <1>2, RewriteFacts
<1>4. CASE in_subtree(C1, P)
  <2>1. in_subtree(D1, P)
    BY <1>1, <1>3, <1>4, SubtreeTransitive
  <2>2. /\ tx2[c].alias = rewrite_alias(C1, P, new)
        /\ tx2[d].alias = rewrite_alias(D1, P, new)
    BY <1>4, <2>1 DEF Moves
  <2> DEFINE C2 == rewrite_alias(C1, P, new)
  <2>3. C2 \in Alias
    BY <1>1, <1>4, RewriteByWords DEF Swapped
  <2>4. rewrite_alias(D1, P, new) = rewrite_alias(D1, C1, C2)
    BY <1>1, <1>3, <1>4, RewriteAlong
  <2> HIDE DEF C2
  <2>5. rewrite_alias(rewrite_alias(D, C, C1), C1, C2) = rewrite_alias(D, C, C2)
    <3> HIDE DEF C, D, C1
    <3>1. in_subtree(D, C)
      BY DEF C, D
    <3> QED
      BY <1>1, <2>3, <3>1, RewriteTwice
  <2> QED
    BY <1>2, <2>2, <2>4, <2>5 DEF C2
<1>5. CASE ~in_subtree(C1, P)
  <2>1. ~in_subtree(D1, P)
    BY <1>5, NamedBetween
  <2> QED
    BY <1>2, <1>5, <2>1 DEF Moves
<1> QED
  BY <1>4, <1>5

\* An open transaction: the children left are children named, they were there
\* when it began, and if everyone had a parent then, what is below them is there.
WholeTx ==
    /\ Named(cmd) \subseteq DOMAIN nodes
    /\ \A k \in 1..Len(todo) : todo[k] \in Named(cmd)
    /\ ParentsThere(nodes) => Together(txNodes, nodes, Named(cmd))

WholeInv == IInv /\ (pc = "rewriting" => WholeTx)

\* A transaction begins with everyone in place.
LEMMA BeginWhole ==
    ASSUME IInv, NEW c \in ReparentCmd, BeginReparent(c)
    PROVE  WholeTx'
<1> DEFINE moved == c.moved_child_g_node_ids
           n == c.new_node
<1>1. moved \in Seq(GNodeId) /\ NodeTable(nodes)
  BY CmdFacts, RowsLong DEF Cmd
<1>2. /\ cmd' = c /\ todo' = moved /\ nodes' = nodes /\ txNodes' = Insert(nodes, n)
      /\ n.g_node_id \notin DOMAIN nodes
      /\ \A k \in DOMAIN moved : moved[k] \in DOMAIN nodes
  BY DEF BeginReparent, ReparentRefusal, InsertFails, tables
<1>3. \A i \in DOMAIN nodes : Insert(nodes, n)[i] = nodes[i]
  BY <1>2 DEF Insert
<1>4. Together(Insert(nodes, n), nodes, Named(c))
  <2> SUFFICES ASSUME NEW x \in DOMAIN nodes, NEW d \in DOMAIN nodes,
                      in_subtree(nodes[d].alias, nodes[x].alias)
               PROVE  nodes[d].alias = rewrite_alias(nodes[d].alias, nodes[x].alias, nodes[x].alias)
    BY <1>3 DEF Together
  <2>1. nodes[d].alias \in Alias /\ nodes[x].alias \in Alias
    BY <1>1 DEF NodeTable, GNodeGt
  <2> QED
    BY <2>1, SubtreeOwn, RewriteAlong
<1>5. Named(c) \subseteq DOMAIN nodes /\ \A k \in 1..Len(moved) : moved[k] \in Named(c)
  BY <1>1, <1>2 DEF Named, Children
<1> QED
  BY <1>2, <1>4, <1>5 DEF WholeTx

\* A rewrite moves the subtree of one of the children left.
LEMMA RewriteMoves ==
    ASSUME IInv, RewriteChild, pc' = "rewriting"
    PROVE  \E new \in Alias : Moves(txNodes', txNodes, Head(todo), new)
<1> DEFINE y == Head(todo)
           want == Rewritten(y)
           D == Subtree(txNodes, txNodes[y].alias)
           new == moved_child_new_prefix(cmd.new_node.alias, txNodes[y].alias)
<1>1. /\ pc = "rewriting" /\ todo # <<>> /\ todo \in Seq(GNodeId)
      /\ NodeTable(txNodes) /\ LongAliases(txNodes) /\ cmd \in Cmd
      /\ \A k \in 1..Len(todo) : todo[k] \in DOMAIN txNodes
  BY DEF RewriteChild, IInv, SoundInv, TypeOK, TxInv, Cmd
<1>2. y \in DOMAIN txNodes
  BY <1>1, HeadTailProperties, EmptySeq
<1>3. txNodes' = Rename(txNodes, want)
  BY DEF RewriteChild, Rollback, Close
<1>4. /\ D \in SUBSET DOMAIN txNodes /\ want \in [D -> Alias]
      /\ \A i \in D : want[i] = rewrite_alias(txNodes[i].alias, txNodes[y].alias, new)
  <2>1. D \subseteq DOMAIN txNodes /\ want \in [D -> Alias]
    BY <1>1, <1>2, RewrittenType DEF IInv
  <2> QED
    BY <2>1 DEF Rewritten
<1>5. new \in Alias
  <2>1. cmd.new_node.alias \in Alias
    BY <1>1, CmdFacts
  <2>2. txNodes[y].alias \in Alias /\ Len(txNodes[y].alias) >= 2 /\ Len(txNodes[y].alias) \in Nat
    BY <1>1, <1>2 DEF NodeTable, LongAliases, GNodeGt, Alias
  <2> QED
    BY <2>1, <2>2, LandingFacts
<1>6. \A i \in DOMAIN txNodes : i \in D <=> in_subtree(txNodes[i].alias, txNodes[y].alias)
  BY DEF Subtree
<1> HIDE DEF D, want, new, y
<1>7. /\ DOMAIN txNodes' = DOMAIN txNodes
      /\ \A i \in D : txNodes'[i].alias = want[i]
      /\ \A i \in DOMAIN txNodes \ D : txNodes'[i] = txNodes[i]
  BY <1>1, <1>3, <1>4, RenameType
<1>8. Moves(txNodes', txNodes, y, new)
  BY <1>4, <1>6, <1>7 DEF Moves
<1> QED
  BY <1>5, <1>8 DEF y

\* It keeps the rest together.
LEMMA RewriteWhole ==
    ASSUME WholeInv, RewriteChild, pc' = "rewriting"
    PROVE  WholeTx'
<1>1. /\ IInv /\ WholeTx /\ todo # <<>> /\ todo \in Seq(GNodeId)
      /\ NodeTable(nodes) /\ LongAliases(nodes) /\ NodeTable(txNodes)
      /\ DOMAIN nodes \subseteq DOMAIN txNodes /\ CoversLive(txNodes, txLedger)
  <2>1. IInv /\ WholeTx /\ todo # <<>> /\ pc = "rewriting"
    BY DEF WholeInv, RewriteChild
  <2> QED
    BY <2>1, RowsLong DEF IInv, SoundInv, TypeOK, TxInv
<1>2. todo' = Tail(todo) /\ UNCHANGED <<nodes, cmd>>
  BY DEF RewriteChild, Rollback, Close, tables
<1>3. /\ Tail(todo) \in Seq(GNodeId) /\ Len(Tail(todo)) = Len(todo) - 1
      /\ \A k \in 1..Len(Tail(todo)) : Tail(todo)[k] = todo[k + 1]
      /\ Len(todo) \in Nat /\ Len(todo) >= 1 /\ Head(todo) = todo[1]
  BY <1>1, HeadTailProperties, EmptySeq
<1>4. Head(todo) \in Named(cmd) /\ \A k \in 1..Len(Tail(todo)) : Tail(todo)[k] \in Named(cmd)
  BY <1>1, <1>3 DEF WholeTx
<1>5. Distinct(txNodes)
  BY <1>1 DEF CoversLive, Distinct
<1>6. PICK new \in Alias : Moves(txNodes', txNodes, Head(todo), new)
  BY <1>1, RewriteMoves
<1>7. ASSUME ParentsThere(nodes) PROVE Together(txNodes', nodes, Named(cmd))
  <2>1. Together(txNodes, nodes, Named(cmd)) /\ Named(cmd) \in SUBSET DOMAIN nodes
    BY <1>1, <1>7 DEF WholeTx
  <2> QED
    BY <1>1, <1>4, <1>5, <1>6, <1>7, <2>1, MoveTogether
<1>8. ParentsThere(nodes)' = ParentsThere(nodes)
  BY <1>2 DEF ParentsThere, AtAlias
<1> QED
  BY <1>1, <1>2, <1>4, <1>7, <1>8 DEF WholeTx

\* Every step keeps it.
LEMMA WholeStep == WholeInv /\ [Next]_vars => WholeInv'
<1> SUFFICES ASSUME WholeInv, [Next]_vars, pc' = "rewriting" PROVE WholeTx'
  BY NextInv DEF WholeInv
<1>1. CASE UNCHANGED <<nodes, pc, cmd, txNodes, todo>>
  BY <1>1 DEF WholeInv, WholeTx, ParentsThere, AtAlias
<1>2. ASSUME NEW c \in ReparentCmd, BeginReparent(c) PROVE WholeTx'
  BY <1>2, BeginWhole DEF WholeInv
<1>3. CASE RewriteChild
  BY <1>3, RewriteWhole
<1>4. CASE CommitReparent
  BY <1>4 DEF CommitReparent, Rollback, Close
<1>5. ASSUME NEW c \in CreateCmd, CommitCreate(c) PROVE WholeTx'
  BY <1>5 DEF CommitCreate, txn
<1>6. \/ UNCHANGED <<nodes, pc, cmd, txNodes, todo>>
      \/ \E c \in ReparentCmd : BeginReparent(c)
      \/ RewriteChild \/ CommitReparent
      \/ \E c \in CreateCmd : CommitCreate(c)
  BY DEF Next, vars, tables, txn, apply_create, apply_reparent, RefuseCreate, Replay,
         RefuseReparent, FailReparent
<1> QED
  BY <1>1, <1>2, <1>3, <1>4, <1>5, <1>6

\* Whatever a re-parent names, orderly or not: one that found every node's
\* parent there moves subtrees whole, that is, a node stays at the same path
\* below each of its ancestors but those above a child named in between
\* (_rewrite_prefix, child after child, on rows that it has moved already).
THEOREM SubtreesStayWhole == Spec => SubtreesMoveWhole
<1>1. Init => WholeInv
  BY InitInv DEF WholeInv, Init
<1>2. WholeInv /\ [Next]_vars =>
        [ForestComplete /\ pc = "rewriting" /\ nodes' # nodes => MovesWhole]_vars
  <2> SUFFICES ASSUME WholeInv, [Next]_vars, ForestComplete, pc = "rewriting", nodes' # nodes
               PROVE  MovesWhole
    OBVIOUS
  <2>1. CommitReparent
    BY DEF Next, apply_create, RefuseCreate, CommitCreate, Replay, apply_reparent, RefuseReparent,
           FailReparent, BeginReparent, RewriteChild, Rollback, tables, vars
  <2>2. nodes' = txNodes
    BY <2>1 DEF CommitReparent, Rollback, tables
  <2>3. Together(txNodes, nodes, Named(cmd))
    BY DEF ForestComplete, ParentsThere, WholeInv, WholeTx
  <2>4. \A c, d : MovedBetween(c, d) <=> Apart(nodes, Named(cmd), c, d)
    BY DEF MovedBetween, Apart, Named, Children
  <2> QED
    BY <2>2, <2>3, <2>4 DEF Together, MovesWhole
<1> QED
  BY <1>1, <1>2, WholeStep, PTL DEF Spec, SubtreesMoveWhole

\* Where all re-parents are orderly nobody is orphaned, so that every one of
\* them moves subtrees whole.
COROLLARY OrderlyMovesWhole ==
    OrderlySpec => [][pc = "rewriting" /\ nodes' # nodes => MovesWhole]_vars
<1>1. OrderlySpec => Spec
  BY OrderlyIsNext, PTL DEF OrderlySpec, Spec
<1>2. ForestComplete /\ [ForestComplete /\ pc = "rewriting" /\ nodes' # nodes => MovesWhole]_vars =>
            [pc = "rewriting" /\ nodes' # nodes => MovesWhole]_vars
  OBVIOUS
<1> QED
  BY <1>1, <1>2, SubtreesStayWhole, ForestStaysComplete, PTL DEF SubtreesMoveWhole
=============================================================================
