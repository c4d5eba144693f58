-------------------------- MODULE ReadFacadeProofs ---------------------------
(***************************************************************************)
(* Proofs about ReadFacade: a lookup of several statements answers as one  *)
(* atomic lookup would have at some instant of the request, whatever the   *)
(* write loop commits in between.                                          *)
(***************************************************************************)
EXTENDS ReadFacade, RegistryProofs

\* Whoever owns a name is there: no owner of the ledger is without a row.
OwnersIn(table, owners) == \A a \in DOMAIN owners : owners[a] \in DOMAIN table

OwnersInv == OwnersIn(nodes, ledger) /\ OwnersIn(txNodes, txLedger)

\* Where a lookup is with the alias it was asked for.
LookupInv ==
    /\ at # "none" => tables \in during /\ answer = NULL
    /\ at = "owner" /\ asked # NULL => asked \in DOMAIN ledger /\ ledger[asked] = owner
    /\ at = "subtrees" => asked = NULL

FInv == IInv /\ OwnersInv /\ LookupInv /\ AliasResolvesAtOneInstant

-----------------------------------------------------------------------------
(* Owners are never without a row *)

\* A claim adds claimants to the owners and nobody else (claim_alias).
LEMMA ClaimOwners ==
    ASSUME NEW table, NEW owners, OwnersIn(table, owners),
           NEW want, DOMAIN want \subseteq DOMAIN table
    PROVE  OwnersIn(table, claim_alias(owners, want))
<1> SUFFICES ASSUME NEW a \in DOMAIN claim_alias(owners, want)
             PROVE  claim_alias(owners, want)[a] \in DOMAIN table
  BY DEF OwnersIn
<1>1. CASE a \in DOMAIN owners
  BY <1>1 DEF claim_alias, OwnersIn
<1>2. CASE a \notin DOMAIN owners
  <2>1. \E i \in DOMAIN want : want[i] = a
    BY <1>2 DEF claim_alias
  <2>2. claim_alias(owners, want)[a] \in DOMAIN want
    BY <1>2, <2>1 DEF claim_alias
  <2> QED
    BY <2>2
<1> QED
  BY <1>1, <1>2

\* A node added together with its claim is there to own it (apply_create, and
\* the first writes of apply_reparent).
LEMMA InsertOwners ==
    ASSUME NEW table, NEW owners, OwnersIn(table, owners), NEW n
    PROVE  OwnersIn(Insert(table, n), claim_alias(owners, Wants(n)))
<1>1. OwnersIn(Insert(table, n), owners) /\ DOMAIN Wants(n) \subseteq DOMAIN Insert(table, n)
  BY DEF OwnersIn, Insert, Wants
<1> QED
  BY <1>1, ClaimOwners

\* Renaming rows and claiming their aliases keeps every owner's row.
LEMMA RenameOwners ==
    ASSUME NEW table, NEW owners, OwnersIn(table, owners),
           NEW want, DOMAIN want \subseteq DOMAIN table
    PROVE  OwnersIn(Rename(table, want), claim_alias(owners, want))
<1>1. DOMAIN Rename(table, want) = DOMAIN table
  BY DEF Rename
<1>2. OwnersIn(table, claim_alias(owners, want))
  BY ClaimOwners
<1> QED
  BY <1>1, <1>2 DEF OwnersIn

\* No step of the registry leaves an owner without a row.
LEMMA OwnersStep ==
    ASSUME IInv, OwnersInv, [Next]_vars
    PROVE  OwnersInv'
<1>1. ASSUME NEW c \in CreateCmd, apply_create(c) PROVE OwnersInv'
  <2>1. CASE RefuseCreate(c) \/ Replay(c)
    BY <2>1 DEF RefuseCreate, Replay, tables, txn, OwnersInv
  <2>2. CASE CommitCreate(c)
    <3>1. CASE InsertFails(c.new_node)
      BY <2>2, <3>1 DEF CommitCreate, tables, txn, OwnersInv
    <3>2. CASE ~InsertFails(c.new_node)
      <4>1. /\ nodes' = Insert(nodes, c.new_node) /\ ledger' = claim_alias(ledger, Wants(c.new_node))
            /\ txNodes' = nodes' /\ txLedger' = ledger'
        BY <2>2, <3>2 DEF CommitCreate
      <4>2. OwnersIn(Insert(nodes, c.new_node), claim_alias(ledger, Wants(c.new_node)))
        BY InsertOwners DEF OwnersInv
      <4> QED
        BY <4>1, <4>2 DEF OwnersInv
    <3> QED
      BY <3>1, <3>2
  <2> QED
    BY <1>1, <2>1, <2>2 DEF apply_create
<1>2. ASSUME NEW c \in ReparentCmd, apply_reparent(c) PROVE OwnersInv'
  <2>1. CASE RefuseReparent(c) \/ FailReparent(c) \/ Replay(c)
    BY <2>1 DEF RefuseReparent, FailReparent, Replay, tables, txn, OwnersInv
  <2>2. CASE BeginReparent(c)
    <3>1. OwnersIn(Insert(nodes, c.new_node), claim_alias(ledger, Wants(c.new_node)))
      BY InsertOwners DEF OwnersInv
    <3> QED
      BY <2>2, <3>1 DEF BeginReparent, tables, OwnersInv
  <2> QED
    BY <1>2, <2>1, <2>2 DEF apply_reparent
<1>3. ASSUME NEW v, Rollback(v) PROVE OwnersInv'
  BY <1>3 DEF Rollback, Close, tables, OwnersInv
<1>4. CASE RewriteChild
  <2> DEFINE want == Rewritten(Head(todo))
  <2>1. DOMAIN want \subseteq DOMAIN txNodes
    BY DEF Rewritten, Subtree
  <2>2. \/ Rollback("escaped")
        \/ /\ txNodes' = Rename(txNodes, want) /\ txLedger' = claim_alias(txLedger, want)
           /\ UNCHANGED tables
    BY <1>4 DEF RewriteChild
  <2>3. OwnersIn(Rename(txNodes, want), claim_alias(txLedger, want))
    BY <2>1, RenameOwners DEF OwnersInv
  <2> QED
    BY <1>3, <2>2, <2>3 DEF OwnersInv, tables
<1>5. CASE CommitReparent
  BY <1>3, <1>5 DEF CommitReparent, Close, OwnersInv
<1>6. CASE UNCHANGED vars
  BY <1>6 DEF vars, OwnersInv
<1> QED
  BY <1>1, <1>2, <1>4, <1>5, <1>6 DEF Next

-----------------------------------------------------------------------------
(* The statements of a lookup *)

\* A row that holds an alias is the one that its owner's lookup gives: the
\* first statement of resolve_alias and its last never disagree.
LEMMA LiveRowResolves ==
    ASSUME IInv, NEW alias, NEW row \in HolderOf(nodes, alias)
    PROVE  row = Resolution(tables, alias)
<1>1. PICK i \in DOMAIN nodes : nodes[i].alias = alias /\ row = nodes[i]
  BY DEF HolderOf, AtAlias
<1>2. alias \in DOMAIN ledger /\ ledger[alias] = i
  BY <1>1 DEF IInv, SoundInv, LedgerCoversLive, CoversLive
<1> QED
  BY <1>1, <1>2 DEF Resolution, tables

\* Each statement keeps the invariant, and the one that answers answers as
\* the tables that it sees would.
LEMMA StatementInv ==
    ASSUME FInv, Statement
    PROVE  FInv'
<1>1. UNCHANGED vars /\ UNCHANGED <<asked, during>>
  BY DEF Statement, ReadLiveRow, ReadLedger, ReadOwner, ReadSubtree, ReadEdges
<1>2. IInv' /\ OwnersInv'
  <2>1. IInv'
    BY <1>1, NextInv DEF FInv
  <2>2. OwnersInv'
    BY <1>1 DEF vars, OwnersInv, FInv
  <2> QED
    BY <2>1, <2>2
<1> SUFFICES LookupInv' /\ AliasResolvesAtOneInstant'
  BY <1>2 DEF FInv
<1>3. tables' = tables /\ ledger' = ledger
  BY <1>1 DEF vars, tables
<1>4. at # "none" /\ tables \in during /\ answer = NULL
  BY DEF Statement, ReadLiveRow, ReadLedger, ReadOwner, ReadSubtree, ReadEdges, FInv, LookupInv
<1>5. ASSUME NEW reply, Return(reply), asked # NULL => reply = Resolution(tables, asked)
      PROVE  LookupInv' /\ AliasResolvesAtOneInstant'
  BY <1>1, <1>4, <1>5 DEF Return, LookupInv, AliasResolvesAtOneInstant
<1>6. ASSUME UNCHANGED answer, at' # "none",
             at' = "owner" /\ asked # NULL => asked \in DOMAIN ledger /\ ledger[asked] = owner',
             at' = "subtrees" => asked = NULL
      PROVE  LookupInv' /\ AliasResolvesAtOneInstant'
  BY <1>1, <1>3, <1>4, <1>6 DEF LookupInv, AliasResolvesAtOneInstant
<1>7. CASE ReadLiveRow
  <2>1. CASE \E row \in HolderOf(nodes, asked) : Return(row)
    BY <1>5, <2>1, LiveRowResolves DEF FInv
  <2>2. CASE at' = "ledger" /\ UNCHANGED answer
    BY <1>6, <2>2
  <2> QED
    BY <1>7, <2>1, <2>2 DEF ReadLiveRow
<1>8. CASE ReadLedger
  <2>1. CASE asked \in DOMAIN ledger /\ owner' = ledger[asked] /\ at' = "owner" /\ UNCHANGED answer
    BY <1>6, <2>1
  <2>2. CASE asked \notin DOMAIN ledger /\ Return(NotFound)
    BY <1>5, <2>2 DEF Resolution, tables
  <2> QED
    BY <1>8, <2>1, <2>2 DEF ReadLedger
<1>9. CASE ReadOwner
  <2>1. asked # NULL => /\ asked \in DOMAIN ledger /\ ledger[asked] = owner
                        /\ owner \in DOMAIN nodes
    BY <1>9 DEF ReadOwner, FInv, LookupInv, OwnersInv, OwnersIn
  <2>2. CASE Return(nodes[owner])
    BY <1>5, <2>1, <2>2 DEF Resolution, tables
  <2>3. CASE owner \notin DOMAIN nodes /\ Return(NotFound)
    BY <1>5, <2>1, <2>3
  <2> QED
    BY <1>9, <2>2, <2>3 DEF ReadOwner
<1>10. CASE ReadSubtree \/ ReadEdges
  <2>1. at = "subtrees" /\ asked = NULL
    BY <1>10 DEF ReadSubtree, ReadEdges, FInv, LookupInv
  <2> QED
    BY <1>1, <1>3, <1>4, <1>10, <2>1
       DEF ReadSubtree, ReadEdges, Return, LookupInv, AliasResolvesAtOneInstant
<1> QED
  BY <1>7, <1>8, <1>9, <1>10 DEF Statement

\* A commit in the middle of a lookup takes nothing from it that it has read:
\* the owner it found owns the alias still.
LEMMA WriteInv ==
    ASSUME FInv, Write
    PROVE  FInv'
<1>1. [Next]_vars /\ UNCHANGED <<at, asked, roots, owner, unread, rows, answer>>
  BY DEF Write
<1>2. IInv' /\ OwnersInv'
  BY <1>1, NextInv, OwnersStep DEF FInv
<1>3. Extends(ledger', ledger)
  BY <1>1, StepKeeps DEF FInv
<1>4. during \subseteq during' /\ (at # "none" => tables' \in during')
  BY DEF Write
<1>5. LookupInv'
  BY <1>1, <1>3, <1>4 DEF FInv, LookupInv, Extends
<1>6. AliasResolvesAtOneInstant'
  BY <1>1, <1>4 DEF FInv, AliasResolvesAtOneInstant
<1> QED
  BY <1>2, <1>5, <1>6 DEF FInv

\* A request comes in and finds the tables as they are.
LEMMA ReceiveInv ==
    ASSUME FInv, NEW statement, NEW alias, NEW list, NEW id,
           Receive(statement, alias, list, id),
           statement = "owner" => alias = NULL,
           statement = "subtrees" => alias = NULL
    PROVE  FInv'
<1>1. UNCHANGED vars
  BY DEF Receive
<1>2. IInv'
  BY <1>1, NextInv DEF FInv
<1>3. OwnersInv' /\ tables' = tables
  BY <1>1 DEF vars, tables, OwnersInv, FInv
<1>4. LookupInv' /\ AliasResolvesAtOneInstant'
  BY <1>3 DEF Receive, LookupInv, AliasResolvesAtOneInstant
<1> QED
  BY <1>2, <1>3, <1>4 DEF FInv

\* The invariant holds of every step of the facade.
LEMMA FacadeStepInv == FInv /\ [FacadeNext]_facadeVars => FInv'
<1> SUFFICES ASSUME FInv, [FacadeNext]_facadeVars PROVE FInv'
  OBVIOUS
<1>1. CASE Write \/ Statement
  BY <1>1, WriteInv, StatementInv
<1>2. CASE \E alias \in AskedAlias : g_node_by_alias(alias)
  BY <1>2, ReceiveInv DEF g_node_by_alias
<1>3. CASE \E id \in AskedId : g_node_by_id(id)
  BY <1>3, ReceiveInv DEF g_node_by_id
<1>4. CASE \E list \in AskedRoots : g_node_forest_request(list)
  BY <1>4, ReceiveInv DEF g_node_forest_request
<1>5. CASE UNCHANGED facadeVars
  <2>1. UNCHANGED vars /\ UNCHANGED request
    BY <1>5 DEF facadeVars
  <2>2. IInv'
    BY <2>1, NextInv DEF FInv
  <2> QED
    BY <2>1, <2>2 DEF vars, request, tables, FInv, OwnersInv, LookupInv, AliasResolvesAtOneInstant
<1> QED
  BY <1>1, <1>2, <1>3, <1>4, <1>5 DEF FacadeNext

\* It holds at the start: the seed claims its aliases for the rows it adds.
LEMMA FacadeInitInv == FacadeInit => FInv
<1> SUFFICES ASSUME FacadeInit PROVE FInv
  OBVIOUS
<1>1. IInv
  BY InitInv DEF FacadeInit
<1>2. OwnersInv
  <2>1. ASSUME NEW a \in DOMAIN ledger PROVE ledger[a] \in SeedIds
    <3>1. ledger[a] = (CHOOSE n \in SeedNodes : n.alias = a).g_node_id
      BY DEF FacadeInit, Init
    <3>2. \E n \in SeedNodes : n.alias = a
      BY DEF FacadeInit, Init
    <3> QED
      BY <3>1, <3>2 DEF SeedIds
  <2>2. DOMAIN nodes = SeedIds /\ txNodes = nodes /\ txLedger = ledger
    BY DEF FacadeInit, Init
  <2> QED
    BY <2>1, <2>2 DEF OwnersInv, OwnersIn
<1>3. LookupInv /\ AliasResolvesAtOneInstant
  BY DEF FacadeInit, LookupInv, AliasResolvesAtOneInstant
<1> QED
  BY <1>1, <1>2, <1>3 DEF FInv

-----------------------------------------------------------------------------
(* Theorems *)

\* The invariant of the facade: nobody who owns a name is without a row, and a
\* lookup in progress has read nothing that has become untrue since.
THEOREM FacadeInvariance == FacadeSpec => []FInv
BY FacadeInitInv, FacadeStepInv, PTL DEF FacadeSpec

\* Every lookup by alias answers as one atomic lookup at some instant between
\* request and answer (resolve_alias against a concurrent write loop).
THEOREM LookupsAtomic == FacadeSpec => []AliasResolvesAtOneInstant
<1>1. FInv => AliasResolvesAtOneInstant
  BY DEF FInv
<1> QED
  BY <1>1, FacadeInvariance, PTL

-----------------------------------------------------------------------------
(* Forest requests                                                          *)
(*                                                                          *)
(* get_forest reads one subtree per root, so a commit between two of them   *)
(* can leave an answer that was never the forest (TLC's counterexample).    *)
(* What is left of the promise, for every list of roots and whatever is     *)
(* committed meanwhile: every row shown was under a root at an instant, and *)
(* a node that stays under a root is shown.                                 *)

\* How many of the roots have been read.
Read == Len(roots) - Len(unread)

\* A row that was under one of the first m roots of the list at an instant.
ShownUnder(row, instants, list, m) ==
    \E g \in instants : \E i \in DOMAIN g[1] :
        row = g[1][i] /\ \E k \in 1..m : in_subtree(g[1][i].alias, list[k])

\* A node that has been under the root at every instant.
Stays(i, instants, root) == \A g \in instants : i \in Subtree(g[1], root)

\* Of every node that has stayed under one of the first m roots there is a row.
StayersRead(kept, instants, list, m) ==
    \A k \in 1..m : \A i \in GNodeId : Stays(i, instants, list[k]) => i \in DOMAIN kept

\* Every row was the one of its node, and under a root that has been read.
KeptShown(kept, instants, list, m) ==
    \A i \in DOMAIN kept :
        /\ \E g \in instants : kept[i] = g[1][i]
        /\ ShownUnder(kept[i], instants, list, m)

\* Where a forest request is: what is unread is the end of its list.
UnderWay ==
    /\ roots \in Seq(Alias) /\ roots # NULL
    /\ Len(unread) \in 0..Len(roots)
    /\ unread = SubSeq(roots, Read + 1, Len(roots))
    /\ KeptShown(rows, during, roots, Read)
    /\ StayersRead(rows, during, roots, Read)

ForestInv ==
    /\ at # "none" => tables \in during /\ answer = NULL
    /\ at \notin {"none", "subtrees"} => roots = NULL
    /\ at = "subtrees" => UnderWay
    /\ ForestShowsSettled

\* Instants that are added take nothing from what was shown, and leave fewer
\* nodes that have stayed.
LEMMA InstantsAdded ==
    ASSUME NEW kept, NEW before, NEW after, before \subseteq after, NEW list, NEW m,
           KeptShown(kept, before, list, m), StayersRead(kept, before, list, m)
    PROVE  KeptShown(kept, after, list, m) /\ StayersRead(kept, after, list, m)
<1>1. KeptShown(kept, after, list, m)
  BY DEF KeptShown, ShownUnder
<1>2. StayersRead(kept, after, list, m)
  BY DEF StayersRead, Stays
<1> QED
  BY <1>1, <1>2

\* Reading one root more out of the tables of an instant.
LEMMA OneRootMore ==
    ASSUME NEW instants, NEW g \in instants, NEW m \in Nat, NEW list,
           NEW kept, KeptShown(kept, instants, list, m), StayersRead(kept, instants, list, m),
           NEW kept1, DOMAIN kept1 = DOMAIN kept \cup Subtree(g[1], list[m + 1]),
           \A i \in DOMAIN kept1 : kept1[i] = IF i \in DOMAIN kept THEN kept[i] ELSE g[1][i]
    PROVE  KeptShown(kept1, instants, list, m + 1) /\ StayersRead(kept1, instants, list, m + 1)
<1>1. 1..(m + 1) = 1..m \cup {m + 1}
  OBVIOUS
<1>2. KeptShown(kept1, instants, list, m + 1)
  <2>1. ASSUME NEW i \in DOMAIN kept
        PROVE  /\ \E h \in instants : kept1[i] = h[1][i]
               /\ ShownUnder(kept1[i], instants, list, m + 1)
    <3>1. kept1[i] = kept[i] /\ \E h \in instants : kept[i] = h[1][i]
      BY DEF KeptShown
    <3>2. ShownUnder(kept[i], instants, list, m)
      BY DEF KeptShown
    <3>3. ShownUnder(kept[i], instants, list, m + 1)
      BY <1>1, <3>2 DEF ShownUnder
    <3> QED
      BY <3>1, <3>3
  <2>2. ASSUME NEW i \in Subtree(g[1], list[m + 1]), i \notin DOMAIN kept
        PROVE  /\ \E h \in instants : kept1[i] = h[1][i]
               /\ ShownUnder(kept1[i], instants, list, m + 1)
    <3>1. kept1[i] = g[1][i]
      BY <2>2
    <3>2. i \in DOMAIN g[1] /\ in_subtree(g[1][i].alias, list[m + 1]) /\ m + 1 \in 1..(m + 1)
      BY DEF Subtree
    <3>3. ShownUnder(g[1][i], instants, list, m + 1)
      BY <3>2 DEF ShownUnder
    <3> QED
      BY <3>1, <3>3
  <2> QED
    BY <2>1, <2>2 DEF KeptShown
<1>3. StayersRead(kept1, instants, list, m + 1)
  <2> SUFFICES ASSUME NEW k \in 1..(m + 1), NEW i \in GNodeId, Stays(i, instants, list[k])
               PROVE  i \in DOMAIN kept1
    BY DEF StayersRead
  <2>1. CASE k \in 1..m
    BY <2>1 DEF StayersRead
  <2>2. CASE k = m + 1
    BY <2>2 DEF Stays
  <2> QED
    BY <1>1, <2>1, <2>2
<1> QED
  BY <1>2, <1>3

\* Before the first root is read nothing is shown and nothing is owed.
LEMMA NothingRead ==
    ASSUME NEW kept, DOMAIN kept = {}, NEW instants, NEW list
    PROVE  KeptShown(kept, instants, list, 0) /\ StayersRead(kept, instants, list, 0)
BY DEF KeptShown, StayersRead

\* A statement for one root reads it out of the tables of its own instant.
LEMMA ReadSubtreeInv ==
    ASSUME ForestInv, ReadSubtree
    PROVE  ForestInv'
<1>1. /\ at = "subtrees" /\ at' = at /\ roots' = roots /\ during' = during /\ answer' = answer
      /\ tables' = tables /\ unread' = Tail(unread) /\ unread # <<>>
      /\ rows' = Seen(nodes, Subtree(nodes, Head(unread)))
  BY DEF ReadSubtree, vars, tables
<1>2. UnderWay /\ tables \in during /\ answer = NULL
  BY <1>1 DEF ForestInv
<1> DEFINE n == Len(roots)
           m == n - Len(unread)
<1>3. roots \in Seq(Alias) /\ n \in Nat /\ unread = SubSeq(roots, m + 1, n) /\ Read = m
      /\ Len(unread) \in 0..n
  BY <1>2 DEF UnderWay, Read
<1>4. Len(unread) \in 1..n /\ m \in Nat /\ m + 1 \in 1..n /\ Len(unread') = Len(unread) - 1
  <2>1. unread \in Seq(Alias)
    <3>1. m + 1 \in Int /\ n \in Int /\ \A i \in (m + 1)..n : roots[i] \in Alias
      BY <1>3
    <3> HIDE DEF m, n
    <3> QED
      BY <1>3, <3>1, SubSeqProperties
  <2>2. Len(unread) # 0 /\ Len(Tail(unread)) = Len(unread) - 1
    BY <1>1, <2>1, HeadTailProperties, EmptySeq
  <2> QED
    BY <1>1, <1>3, <2>2
<1>5. Head(unread) = roots[m + 1] /\ unread' = SubSeq(roots, m + 2, n)
  <2> HIDE DEF m, n
  <2>1. m + 1 \in 1..Len(roots) /\ n \in (m + 1)..Len(roots)
    BY <1>3, <1>4 DEF n
  <2> QED
    BY <1>1, <1>3, <1>4, <2>1, HeadTailOfSubSeq
<1>6. Read' = m + 1
  BY <1>1, <1>3, <1>4 DEF Read
<1> HIDE DEF m
<1>7. KeptShown(rows', during, roots, m + 1) /\ StayersRead(rows', during, roots, m + 1)
  <2>1. PICK g \in during : g = tables /\ g[1] = nodes
    BY <1>2 DEF tables
  <2>2. /\ DOMAIN rows' = DOMAIN rows \cup Subtree(g[1], roots[m + 1])
        /\ \A i \in DOMAIN rows' : rows'[i] = IF i \in DOMAIN rows THEN rows[i] ELSE g[1][i]
    BY <1>1, <1>5, <2>1 DEF Seen
  <2>3. KeptShown(rows, during, roots, m) /\ StayersRead(rows, during, roots, m)
    BY <1>2, <1>3 DEF UnderWay
  <2> QED
    BY <1>4, <2>2, <2>3, OneRootMore
<1>8. UnderWay'
  <2>1. (m + 1) + 1 = m + 2 /\ Len(unread') \in 0..Len(roots')
    BY <1>1, <1>3, <1>4
  <2> QED
    BY <1>1, <1>2, <1>3, <1>5, <1>6, <1>7, <2>1 DEF UnderWay
<1> QED
  BY <1>1, <1>2, <1>8 DEF ForestInv, ForestShowsSettled

\* The answer is built from what has been read, and that is every root.
LEMMA ReadEdgesInv ==
    ASSUME ForestInv, ReadEdges
    PROVE  ForestInv'
<1>1. /\ at = "subtrees" /\ at' = "none" /\ roots' = roots /\ during' = during
      /\ answer'.nodes = {rows[i] : i \in DOMAIN rows} /\ unread = <<>>
  BY DEF ReadEdges, Return
<1>2. UnderWay
  BY <1>1 DEF ForestInv
<1>3. Read = Len(roots) /\ DOMAIN roots = 1..Read
  <2>1. Len(unread) = 0
    BY <1>1
  <2> QED
    BY <1>2, <2>1 DEF UnderWay, Read
<1>4. KeptShown(rows, during, roots, Read) /\ StayersRead(rows, during, roots, Read)
  BY <1>2 DEF UnderWay
<1>5. ASSUME NEW row \in answer'.nodes PROVE \E g \in during : row \in Under(g[1], roots)
  <2>1. ShownUnder(row, during, roots, Read)
    BY <1>1, <1>4 DEF KeptShown
  <2> QED
    BY <1>3, <2>1 DEF ShownUnder, Under
<1>6. ASSUME NEW k \in DOMAIN roots, NEW i \in GNodeId,
             \A g \in during : i \in Subtree(g[1], roots[k])
      PROVE  \E g \in during : g[1][i] \in answer'.nodes
  <2>1. i \in DOMAIN rows
    BY <1>3, <1>4, <1>6 DEF StayersRead, Stays
  <2> QED
    BY <1>1, <1>4, <2>1 DEF KeptShown
<1> QED
  BY <1>1, <1>5, <1>6 DEF ForestInv, ForestShowsSettled

\* Every step keeps the invariant of forest requests.
LEMMA ForestStepInv == ForestInv /\ [FacadeNext]_facadeVars => ForestInv'
<1> SUFFICES ASSUME ForestInv, [FacadeNext]_facadeVars PROVE ForestInv'
  OBVIOUS
<1>1. CASE Write
  <2>1. UNCHANGED <<at, asked, roots, owner, unread, rows, answer>> /\ during \subseteq during'
        /\ (at # "none" => tables' \in during') /\ (at = "none" => during' = during)
    BY <1>1 DEF Write
  <2>2. Read' = Read
    BY <2>1 DEF Read
  <2>3. UnderWay => UnderWay'
    BY <2>1, <2>2, InstantsAdded DEF UnderWay
  <2>4. ForestShowsSettled'
    <3>1. CASE at = "none"
      BY <2>1, <3>1 DEF ForestInv, ForestShowsSettled
    <3>2. CASE at # "none"
      BY <2>1, <3>2 DEF ForestInv, ForestShowsSettled
    <3> QED
      BY <3>1, <3>2
  <2> QED
    BY <2>1, <2>3, <2>4 DEF ForestInv
<1>2. CASE ReadLiveRow \/ ReadLedger \/ ReadOwner
  <2>1. /\ at \notin {"none", "subtrees"} /\ at' # "subtrees" /\ tables' = tables
        /\ UNCHANGED <<roots, during>> /\ (at' = "none" \/ answer' = answer)
    BY <1>2 DEF ReadLiveRow, ReadLedger, ReadOwner, Return, vars, tables
  <2> QED
    BY <2>1 DEF ForestInv, ForestShowsSettled
<1>3. ASSUME NEW statement, NEW alias, NEW id, Receive(statement, alias, NULL, id),
             statement # "subtrees"
      PROVE  ForestInv'
  BY <1>3 DEF Receive, ForestInv, ForestShowsSettled, tables, vars
<1>4. ASSUME NEW list \in AskedRoots, g_node_forest_request(list) PROVE ForestInv'
  <2>1. /\ at' = "subtrees" /\ roots' = list /\ unread' = list /\ DOMAIN rows' = {}
        /\ answer' = NULL /\ during' = {tables} /\ tables' = tables /\ list # NULL
    BY <1>4, FacadeAssumption DEF g_node_forest_request, Receive, tables, vars
  <2>2. list \in Seq(Alias) /\ Len(list) \in Nat /\ SubSeq(list, 1, Len(list)) = list
    BY FacadeAssumption, SubSeqFull
  <2>3. Read' = 0
    BY <2>1, <2>2 DEF Read
  <2>4. KeptShown(rows', during', list, 0) /\ StayersRead(rows', during', list, 0)
    BY <2>1, NothingRead
  <2>5. UnderWay'
    BY <2>1, <2>2, <2>3, <2>4 DEF UnderWay
  <2> QED
    BY <2>1, <2>5 DEF ForestInv, ForestShowsSettled
<1>5. CASE UNCHANGED facadeVars
  BY <1>5 DEF facadeVars, vars, request, ForestInv, UnderWay, Read, ForestShowsSettled, tables
<1>6. CASE \E alias \in AskedAlias : g_node_by_alias(alias)
  BY <1>3, <1>6 DEF g_node_by_alias
<1>7. CASE \E id \in AskedId : g_node_by_id(id)
  BY <1>3, <1>7 DEF g_node_by_id
<1> QED
  BY <1>1, <1>2, <1>4, <1>5, <1>6, <1>7, ReadSubtreeInv, ReadEdgesInv DEF FacadeNext, Statement

\* The invariant of forest requests.
THEOREM ForestInvariance == FacadeSpec => []ForestInv
<1>1. FacadeInit => ForestInv
  BY DEF FacadeInit, ForestInv, ForestShowsSettled
<1> QED
  BY <1>1, ForestStepInv, PTL DEF FacadeSpec

\* The answer to a forest request with any number of roots shows only rows that
\* a node under a root had at an instant of the request, and leaves out no node
\* that was under a root throughout it, whatever is committed between its
\* statements (get_forest against the write loop).
THEOREM ForestsShowSettled == FacadeSpec => []ForestShowsSettled
<1>1. ForestInv => ForestShowsSettled
  BY DEF ForestInv
<1> QED
  BY <1>1, ForestInvariance, PTL
=============================================================================
