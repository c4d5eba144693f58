---------------------------- MODULE DevSeedProofs ----------------------------
(***************************************************************************)
(* Proofs about DevSeed: the registry stays sound when the dev universe is *)
(* loaded into it, and loaded again over whatever it has become since.     *)
(*                                                                         *)
(* The log's accounts (LogAccountsForNodes) are not among what is kept: a  *)
(* seeding leaves the log and replaces the nodes.                          *)
(***************************************************************************)
EXTENDS DevSeed, RegistryProofs

-----------------------------------------------------------------------------
(* The fleet's aliases *)

\* The words the fleet's aliases are made of.
DevWord ==
    {DEV_UNIVERSE, "isone", "me", "versant", "keene", "time", "flo", "weather", "price", "ta", "scada"}
    \cup _HOMES

\* A path that has grown by a word.
LEMMA Grown ==
    ASSUME NEW a \in Seq(DevWord), NEW w \in DevWord
    PROVE  /\ Append(a, w) \in Seq(DevWord)
           /\ Len(Append(a, w)) = Len(a) + 1
           /\ \A i \in 1..Len(a) : Append(a, w)[i] = a[i]
           /\ LastWord(Append(a, w)) = w
           /\ Len(a) >= 1 => universe_of(Append(a, w)) = universe_of(a)
           /\ parent_alias(Append(a, w)) = a
<1>1. /\ Append(a, w) \in Seq(DevWord) /\ Len(Append(a, w)) = Len(a) + 1 /\ Len(a) \in Nat
      /\ \A i \in 1..Len(a) : Append(a, w)[i] = a[i]
      /\ Append(a, w)[Len(a) + 1] = w
  BY AppendProperties
<1>2. SubSeq(Append(a, w), 1, Len(a)) = a
  <2> DEFINE b == Append(a, w)
  <2>1. \A i \in 1..Len(a) : b[i] = a[i]
    BY <1>1
  <2>2. Len(a) <= Len(b) /\ b \in Seq(DevWord)
    BY <1>1
  <2> HIDE DEF b
  <2>3. SubSeq(b, 1, Len(a)) \in Seq(DevWord) /\ Len(SubSeq(b, 1, Len(a))) = Len(a)
    BY <1>1, <2>2
  <2>4. \A i \in 1..Len(a) : SubSeq(b, 1, Len(a))[i] = a[i]
    BY <1>1, <2>1, <2>2
  <2> QED
    BY <2>3, <2>4, SeqEqual DEF b
<1> QED
  BY <1>1, <1>2 DEF LastWord, universe_of, parent_alias

\* Depth, last word and parent of every alias of the fleet.
At(alias, depth, word, parent) ==
    /\ alias \in Seq(DevWord) /\ Len(alias) = depth
    /\ LastWord(alias) = word /\ universe_of(alias) = DEV_UNIVERSE
    /\ parent_alias(alias) = parent

\* One word further down.
LEMMA Further ==
    ASSUME NEW a, NEW d \in Nat \ {0}, NEW v, NEW p, At(a, d, v, p), NEW w \in DevWord
    PROVE  At(Append(a, w), d + 1, w, a)
BY Grown DEF At

\* A forest root of the dev universe.
LEMMA Root ==
    ASSUME NEW w \in DevWord
    PROVE  At(<<DEV_UNIVERSE, w>>, 2, w, <<DEV_UNIVERSE>>)
<1> DEFINE u == DEV_UNIVERSE
           a == <<u, w>>
<1>1. u \in DevWord
  BY DEF DevWord
<1> HIDE DEF u
<1>2. a \in Seq(DevWord) /\ Len(a) = 2 /\ a[1] = u /\ a[2] = w
  BY <1>1
<1>3. SubSeq(a, 1, 1) = <<u>>
  <2>1. <<u>> \in Seq(DevWord) /\ Len(<<u>>) = 1 /\ <<u>>[1] = u
    BY <1>1
  <2> HIDE DEF a
  <2>2. SubSeq(a, 1, 1) \in Seq(DevWord) /\ Len(SubSeq(a, 1, 1)) = 1 /\ SubSeq(a, 1, 1)[1] = u
    BY <1>2
  <2>3. \A k \in 1..1 : SubSeq(a, 1, 1)[k] = <<u>>[k]
    BY <2>1, <2>2
  <2> QED
    BY <2>1, <2>2, <2>3, SeqEqual
<1> HIDE DEF a
<1>4. At(a, 2, w, <<u>>)
  BY <1>2, <1>3 DEF At, LastWord, universe_of, parent_alias, u
<1> QED
  BY <1>4 DEF a, u

\* The copper backbone.
LEMMA Backbone ==
    /\ At(ISONE, 2, "isone", <<DEV_UNIVERSE>>) /\ At(ME, 3, "me", ISONE)
    /\ At(VERSANT, 4, "versant", ME) /\ At(KEENE, 5, "keene", VERSANT)
<1> {"isone", "me", "versant", "keene"} \subseteq DevWord
  BY DEF DevWord
<1>1. At(ISONE, 2, "isone", <<DEV_UNIVERSE>>)
  BY Root DEF ISONE
<1>2. At(ME, 2 + 1, "me", ISONE)
  BY <1>1, Further DEF ME
<1>3. At(VERSANT, 3 + 1, "versant", ME)
  BY <1>2, Further DEF VERSANT
<1>4. At(KEENE, 4 + 1, "keene", VERSANT)
  BY <1>3, Further DEF KEENE
<1> QED
  BY <1>1, <1>2, <1>3, <1>4

\* What the fleet is made of: copper, services, and homes with what they hold.
Classed(s, base_class, g_node_class) == s.base_class = base_class /\ s.g_node_class = g_node_class

Copper(s) ==
    \/ At(s.alias, 2, "isone", <<DEV_UNIVERSE>>) /\ Classed(s, "MarketMaker", "MarketMaker")
    \/ At(s.alias, 3, "me", ISONE) /\ Classed(s, "ConnectivityNode", "ConnectivityNode")
    \/ At(s.alias, 4, "versant", ME) /\ Classed(s, "ConnectivityNode", "ConnectivityNode")
    \/ At(s.alias, 5, "keene", VERSANT) /\ Classed(s, "MarketMaker", "MarketMaker")

Service(s) ==
    /\ \/ At(s.alias, 2, "time", <<DEV_UNIVERSE>>)
       \/ At(s.alias, 2, "flo", <<DEV_UNIVERSE>>)
       \/ At(s.alias, 4, "weather", ME)
       \/ At(s.alias, 4, "price", ME)
    /\ s.base_class = "Logical"
    /\ s.g_node_class \in {"TimeCoordinator", "Flo", "WeatherForecastService", "PriceForecastService"}

Home(s) ==
    /\ \E h \in _HOMES : At(s.alias, 6, h, KEENE)
    /\ Classed(s, "LeafTransactiveNode", "LeafTransactiveNode")

InHome(s) ==
    \E h \in _HOMES :
        \/ At(s.alias, 7, "ta", Append(KEENE, h)) /\ Classed(s, "TerminalAsset", "TerminalAsset")
        \/ At(s.alias, 7, "scada", Append(KEENE, h)) /\ Classed(s, "Logical", "Scada")

\* Every GNode of the fleet is one of them.
LEMMA Fleet ==
    ASSUME NEW s \in _dev_universe_specs
    PROVE  Copper(s) \/ Service(s) \/ Home(s) \/ InHome(s)
<1>1. \A a, b, g : Specs(a, b, g).alias = a /\ Classed(Specs(a, b, g), b, g)
  BY DEF Specs, Classed
<1>2. CASE \/ s = Specs(ISONE, "MarketMaker", "MarketMaker")
           \/ s = Specs(ME, "ConnectivityNode", "ConnectivityNode")
           \/ s = Specs(VERSANT, "ConnectivityNode", "ConnectivityNode")
           \/ s = Specs(KEENE, "MarketMaker", "MarketMaker")
  BY <1>1, <1>2, Backbone DEF Copper
<1>3. CASE \/ s = Specs(<<DEV_UNIVERSE, "time">>, "Logical", "TimeCoordinator")
           \/ s = Specs(<<DEV_UNIVERSE, "flo">>, "Logical", "Flo")
  <2>1. /\ At(<<DEV_UNIVERSE, "time">>, 2, "time", <<DEV_UNIVERSE>>)
        /\ At(<<DEV_UNIVERSE, "flo">>, 2, "flo", <<DEV_UNIVERSE>>)
    BY Root DEF DevWord
  <2> QED
    BY <1>1, <1>3, <2>1 DEF Service, Classed
<1>4. CASE \/ s = Specs(Append(ME, "weather"), "Logical", "WeatherForecastService")
           \/ s = Specs(Append(ME, "price"), "Logical", "PriceForecastService")
  <2>1. At(Append(ME, "weather"), 4, "weather", ME) /\ At(Append(ME, "price"), 4, "price", ME)
    <3>1. At(ME, 3, "me", ISONE) /\ "weather" \in DevWord /\ "price" \in DevWord
      BY Backbone DEF DevWord
    <3>2. At(Append(ME, "weather"), 3 + 1, "weather", ME) /\ At(Append(ME, "price"), 3 + 1, "price", ME)
      BY <3>1, Further
    <3> QED
      BY <3>2
  <2> QED
    BY <1>1, <1>4, <2>1 DEF Service, Classed
<1>5. ASSUME NEW h \in _HOMES,
             \/ s = Specs(Append(KEENE, h), "LeafTransactiveNode", "LeafTransactiveNode")
             \/ s = Specs(Append(Append(KEENE, h), "ta"), "TerminalAsset", "TerminalAsset")
             \/ s = Specs(Append(Append(KEENE, h), "scada"), "Logical", "Scada")
      PROVE  Home(s) \/ InHome(s)
  <2>1. {h, "ta", "scada"} \subseteq DevWord
    BY DEF DevWord
  <2>2. At(Append(KEENE, h), 6, h, KEENE)
    <3>1. At(KEENE, 5, "keene", VERSANT) /\ h \in DevWord
      BY <2>1, Backbone
    <3>2. At(Append(KEENE, h), 5 + 1, h, KEENE)
      BY <3>1, Further
    <3> QED
      BY <3>2
  <2>3. /\ At(Append(Append(KEENE, h), "ta"), 7, "ta", Append(KEENE, h))
        /\ At(Append(Append(KEENE, h), "scada"), 7, "scada", Append(KEENE, h))
    BY <2>1, <2>2, Further
  <2> QED
    BY <1>1, <1>5, <2>2, <2>3 DEF Home, InHome
<1> QED
  BY <1>2, <1>3, <1>4, <1>5 DEF _dev_universe_specs

\* Each of the fleet's rows is a row, and decodes.
LEMMA RowFacts ==
    ASSUME NEW s \in _dev_universe_specs
    PROVE  /\ GNode(s) \in GNodeGt /\ GNode(s).g_node_id = DevId(s.alias)
           /\ Decodes(GNode(s))
<1> DEFINE g == GNode(s)
<1>1. /\ s.alias \in Alias /\ s.base_class \in BaseGNodeClass /\ s.g_node_class \in GNodeClass
      /\ DevId(s.alias) \in GNodeId
  BY DevAssumption
<1>2. DevId(s.alias) \in PositionPointId /\ DevId(s.alias) # NULL
  BY DevAssumption, TableAssumption
<1>3. /\ g.g_node_id = DevId(s.alias) /\ g.alias = s.alias /\ g.prev_alias = NULL
      /\ Classed(g, s.base_class, s.g_node_class)
      /\ g.status \in {"Pending", "Active"}
      /\ g.status = "Active" /\ s.base_class # "Logical" => g.position_point_id = DevId(s.alias)
  BY DEF GNode, Classed
<1>4. g \in GNodeGt
  BY <1>1, <1>2, <1>3 DEF GNode, GNodeGt, GNodeStatus, Classed
<1>5. ClassConsistency(g) /\ AliasSuffixSemantics(g) /\ GNodeAliasHasBody(g)
  <2>1. /\ Len(s.alias) >= 2
        /\ LastWord(s.alias) = "ta" <=> s.g_node_class = "TerminalAsset"
        /\ LastWord(s.alias) = "scada" <=> s.g_node_class = "Scada"
        /\ \/ s.base_class # "Logical" /\ s.g_node_class = s.base_class
           \/ s.base_class = "Logical" /\ s.g_node_class \notin BaseGNodeClass
    <3> USE DEF Classed, BaseGNodeClass
    <3>0. \A d, w, p : At(s.alias, d, w, p) => Len(s.alias) = d /\ LastWord(s.alias) = w
      BY DEF At
    <3>1. CASE Copper(s)
      BY <3>0, <3>1 DEF Copper
    <3>2. CASE Service(s)
      BY <3>0, <3>2 DEF Service
    <3>3. CASE Home(s)
      BY <3>0, <3>3 DEF Home, _HOMES
    <3>4. CASE InHome(s)
      BY <3>0, <3>4 DEF InHome
    <3> QED
      BY <3>1, <3>2, <3>3, <3>4, Fleet
  <2> HIDE DEF g
  <2> QED
    BY <1>3, <2>1 DEF ClassConsistency, AliasSuffixSemantics, HasSuffix, GNodeAliasHasBody, Classed
<1>6. PhysicalGNodeLocations(g) /\ AliasTransitionConsistency(g)
  BY <1>2, <1>3 DEF PhysicalGNodeLocations, AliasTransitionConsistency, Classed
<1> QED
  BY <1>3, <1>4, <1>5, <1>6 DEF Decodes

HomeAliases == {Append(KEENE, h) : h \in _HOMES}

\* How deep each kind is, and what it hangs from.
Placed(s, depths, parents) ==
    /\ Len(s.alias) \in depths /\ universe_of(s.alias) = DEV_UNIVERSE
    /\ Len(s.alias) = 2 \/ parent_alias(s.alias) \in parents

LEMMA Depths ==
    ASSUME NEW s \in _dev_universe_specs
    PROVE  /\ Copper(s) => Placed(s, {2, 3, 4, 5}, {ISONE, ME, VERSANT})
           /\ Service(s) => Placed(s, {2, 4}, {ME})
           /\ Home(s) => Placed(s, {6}, {KEENE})
           /\ InHome(s) => Placed(s, {7}, HomeAliases)
<1>1. ASSUME NEW d, NEW w, NEW q, At(s.alias, d, w, q), NEW D, d \in D, NEW P, d = 2 \/ q \in P
      PROVE  Placed(s, D, P)
  BY <1>1 DEF At, Placed
<1>2. ASSUME Copper(s) PROVE Placed(s, {2, 3, 4, 5}, {ISONE, ME, VERSANT})
  BY <1>1, <1>2 DEF Copper
<1>3. ASSUME Service(s) PROVE Placed(s, {2, 4}, {ME})
  BY <1>1, <1>3 DEF Service
<1>4. ASSUME Home(s) PROVE Placed(s, {6}, {KEENE})
  BY <1>1, <1>4 DEF Home
<1>5. ASSUME InHome(s) PROVE Placed(s, {7}, HomeAliases)
  <2>1. PICK h \in _HOMES, w \in {"ta", "scada"} : At(s.alias, 7, w, Append(KEENE, h))
    BY <1>5 DEF InHome
  <2>2. 7 \in {7} /\ Append(KEENE, h) \in HomeAliases
    BY DEF HomeAliases
  <2> QED
    BY <1>1, <2>1, <2>2
<1> QED
  BY <1>2, <1>3, <1>4, <1>5

\* Whoever hangs from the backbone hangs from copper.
LEMMA BackboneIsCopper ==
    ASSUME NEW p \in _dev_universe_specs, p.alias \in {ISONE, ME, VERSANT, KEENE}
    PROVE  p.base_class \in COPPER_CLASSES
<1>2. \/ Len(p.alias) = 2 /\ LastWord(p.alias) = "isone"
      \/ Len(p.alias) = 3 /\ LastWord(p.alias) = "me"
      \/ Len(p.alias) = 4 /\ LastWord(p.alias) = "versant"
      \/ Len(p.alias) = 5 /\ LastWord(p.alias) = "keene"
  BY Backbone DEF At
<1>3. CASE Copper(p)
  BY <1>3 DEF Copper, Classed, COPPER_CLASSES
<1>4. ~Home(p) /\ ~InHome(p)
  BY <1>2, Depths DEF Placed
<1>5. ~Service(p)
  <2>1. \A d, w, q : At(p.alias, d, w, q) => LastWord(p.alias) = w
    BY DEF At
  <2> QED
    BY <1>2, <2>1 DEF Service
<1> QED
  BY <1>3, <1>4, <1>5, Fleet

\* Each alias of the fleet is a forest root of d1, or its parent is there too.
LEMMA Parented ==
    ASSUME NEW s \in _dev_universe_specs
    PROVE  /\ Len(s.alias) >= 2 /\ universe_of(s.alias) = DEV_UNIVERSE
           /\ is_forest_root(s.alias) \/ \E p \in _dev_universe_specs : p.alias = parent_alias(s.alias)
<1>2. \A a \in {ISONE, ME, VERSANT, KEENE} : \E p \in _dev_universe_specs : p.alias = a
  <2>1. \A a, b, c : Specs(a, b, c).alias = a
    BY DEF Specs
  <2> QED
    BY <2>1 DEF _dev_universe_specs
<1>3. \A a \in HomeAliases : \E p \in _dev_universe_specs : p.alias = a
  <2>1. ASSUME NEW h \in _HOMES
        PROVE  Specs(Append(KEENE, h), "LeafTransactiveNode", "LeafTransactiveNode") \in _dev_universe_specs
    BY DEF _dev_universe_specs
  <2>2. \A a, b, c : Specs(a, b, c).alias = a
    BY DEF Specs
  <2> QED
    BY <2>1, <2>2 DEF HomeAliases
<1>4. CASE Copper(s) \/ Service(s)
  <2>1. /\ Len(s.alias) \in {2, 3, 4, 5} /\ universe_of(s.alias) = DEV_UNIVERSE
        /\ Len(s.alias) = 2 \/ parent_alias(s.alias) \in {ISONE, ME, VERSANT}
    <3>1. Copper(s) => Placed(s, {2, 3, 4, 5}, {ISONE, ME, VERSANT})
      BY Depths
    <3>2. Service(s) => Placed(s, {2, 4}, {ME})
      BY Depths
    <3> QED
      BY <1>4, <3>1, <3>2 DEF Placed
  <2>2. Len(s.alias) >= 2
    <3>1. PICK k \in {2, 3, 4, 5} : k = Len(s.alias)
      BY ONLY <2>1
    <3>2. k >= 2
      OBVIOUS
    <3> QED
      BY ONLY <3>1, <3>2
  <2>3. CASE Len(s.alias) = 2
    BY <2>1, <2>2, <2>3 DEF is_forest_root
  <2>4. CASE parent_alias(s.alias) \in {ISONE, ME, VERSANT}
    <3>1. \E p \in _dev_universe_specs : p.alias = parent_alias(s.alias)
      BY <1>2, <2>4
    <3> QED
      BY <2>1, <2>2, <3>1
  <2> QED
    BY <2>1, <2>3, <2>4
<1>5. CASE Home(s) \/ InHome(s)
  <2>1. CASE Home(s)
    <3>1. Len(s.alias) = 6 /\ universe_of(s.alias) = DEV_UNIVERSE /\ parent_alias(s.alias) = KEENE
      BY <2>1, Depths DEF Placed
    <3> QED
      BY <1>2, <3>1
  <2>2. CASE InHome(s)
    <3>1. /\ Len(s.alias) = 7 /\ universe_of(s.alias) = DEV_UNIVERSE
          /\ parent_alias(s.alias) \in HomeAliases
      BY <2>2, Depths DEF Placed
    <3> QED
      BY <1>3, <3>1
  <2> QED
    BY <1>5, <2>1, <2>2
<1> QED
  BY <1>4, <1>5, Fleet

\* and has a parent of a class that it may have.
LEMMA WellParented ==
    ASSUME NEW s \in _dev_universe_specs, NEW p \in _dev_universe_specs,
           p.alias = parent_alias(s.alias), ~is_forest_root(s.alias)
    PROVE  MayHaveParent(GNode(s), GNode(p))
<1>1. \A r : /\ GNode(r).base_class = r.base_class
             /\ GNode(r).g_node_class = r.g_node_class
  BY DEF GNode
<1>3. CASE Copper(s) \/ Home(s)
  <2>1. p.alias \in {ISONE, ME, VERSANT, KEENE}
    BY <1>3, Depths DEF is_forest_root, Placed
  <2>2. p.base_class \in COPPER_CLASSES
    BY <2>1, BackboneIsCopper
  <2>3. s.base_class \in COPPER_CLASSES \cup {"LeafTransactiveNode"}
    BY <1>3 DEF Copper, Home, Classed, COPPER_CLASSES
  <2>4. s.base_class # "TerminalAsset" /\ s.g_node_class # "Scada"
    BY <1>3 DEF Copper, Home, Classed
  <2> QED
    BY <1>1, <2>2, <2>3, <2>4 DEF MayHaveParent
<1>4. CASE Service(s)
  BY <1>1, <1>4 DEF Service, MayHaveParent, COPPER_CLASSES
<1>5. CASE InHome(s)
  <2>0. p.alias \in HomeAliases
    BY <1>5, Depths DEF Placed
  <2>1. PICK h \in _HOMES : p.alias = Append(KEENE, h)
    BY <2>0 DEF HomeAliases
  <2>2. Len(p.alias) = 6
    <3>1. At(KEENE, 5, "keene", VERSANT) /\ h \in DevWord
      BY Backbone DEF DevWord
    <3>2. At(Append(KEENE, h), 5 + 1, h, KEENE)
      BY <3>1, Further
    <3> QED
      BY <2>1, <3>2 DEF At
  <2>3. ~Copper(p) /\ ~Service(p) /\ ~InHome(p)
    BY <2>2, Depths DEF Placed
  <2>4. p.base_class = "LeafTransactiveNode"
    BY <2>3, Fleet DEF Home, Classed
  <2>5. /\ s.base_class \notin COPPER_CLASSES \cup {"LeafTransactiveNode"}
        /\ s.base_class = "TerminalAsset" \/ s.g_node_class = "Scada"
    BY <1>5 DEF InHome, Classed, COPPER_CLASSES
  <2> QED
    BY <1>1, <2>4, <2>5 DEF MayHaveParent
<1> QED
  BY <1>3, <1>4, <1>5, Fleet

-----------------------------------------------------------------------------
(* The fleet's table *)

DevTable == [i \in {g.g_node_id : g \in build_dev_universe} |-> ByAlias(i)]

\* Each GNode of the fleet has its row, under its id.
LEMMA DevRows ==
    /\ DOMAIN DevTable = {DevId(s.alias) : s \in _dev_universe_specs}
    /\ \A s \in _dev_universe_specs : DevTable[DevId(s.alias)] = GNode(s)
<1>1. \A s \in _dev_universe_specs : GNode(s).g_node_id = DevId(s.alias)
  BY RowFacts
<1>2. DOMAIN DevTable = {DevId(s.alias) : s \in _dev_universe_specs}
  BY <1>1 DEF DevTable, build_dev_universe
<1>3. ASSUME NEW s \in _dev_universe_specs PROVE DevTable[DevId(s.alias)] = GNode(s)
  <2>1. DevTable[DevId(s.alias)] = ByAlias(DevId(s.alias))
    BY <1>2 DEF DevTable
  <2>2. GNode(s) \in build_dev_universe /\ GNode(s).g_node_id = DevId(s.alias)
    BY <1>1 DEF build_dev_universe
  <2>3. \A g \in build_dev_universe : g.g_node_id = DevId(s.alias) => g = GNode(s)
    BY <1>1, DevAssumption DEF build_dev_universe
  <2> QED
    BY <2>1, <2>2, <2>3 DEF ByAlias
<1> QED
  BY <1>2, <1>3

\* It is a table of rows that decode.
LEMMA DevTableType == NodeTable(DevTable) /\ \A i \in DOMAIN DevTable : Decodes(DevTable[i])
<1>1. ASSUME NEW i \in DOMAIN DevTable
      PROVE  /\ i \in GNodeId /\ DevTable[i] \in GNodeGt /\ DevTable[i].g_node_id = i
             /\ Decodes(DevTable[i])
  <2>1. PICK s \in _dev_universe_specs : i = DevId(s.alias) /\ DevTable[i] = GNode(s)
    BY DevRows
  <2> QED
    BY <2>1, RowFacts, DevAssumption
<1>2. DevTable = [i \in DOMAIN DevTable |-> DevTable[i]]
  BY DEF DevTable
<1> QED
  BY <1>1, <1>2 DEF NodeTable

\* "A Pending home": what hangs from a node that is not Active is not Active.
LEMMA PendingBelow ==
    ASSUME NEW s \in _dev_universe_specs, NEW p \in _dev_universe_specs,
           p.alias = parent_alias(s.alias), GNode(s).status = "Active"
    PROVE  GNode(p).status = "Active"
<1>1. s.alias \in Seq(Word) /\ p.alias \in Seq(Word) /\ Len(s.alias) >= 2
  BY Parented, DevAssumption DEF Alias
<1>2. Len(s.alias) = Len(p.alias) + 1 /\ \A k \in 1..Len(p.alias) : s.alias[k] = p.alias[k]
  <2>1. p.alias = SubSeq(s.alias, 1, Len(s.alias) - 1)
    BY DEF parent_alias
  <2> QED
    BY <1>1, <2>1
<1>3. Len(PENDING_HOME) = 6
  <2>1. KEENE \in Seq(DevWord) /\ Len(KEENE) = 5
    BY Backbone DEF At
  <2>2. "willow" \in DevWord
    BY DEF DevWord, _HOMES
  <2>3. Len(Append(KEENE, "willow")) = 5 + 1
    BY <2>1, <2>2, Grown
  <2> QED
    BY <2>3 DEF PENDING_HOME
<1>4. ASSUME Pending(p.alias) PROVE Pending(s.alias)
  <2>1. Len(p.alias) >= 6 /\ Len(p.alias) \in Nat
    BY <1>1, <1>3, <1>4 DEF Pending
  <2>2. /\ \A k \in 1..5 : p.alias[k] = PENDING_HOME[k]
        /\ startswith(p.alias[6], PENDING_HOME[6])
    BY <1>3, <1>4 DEF Pending
  <2>3. Len(s.alias) >= 6 /\ \A k \in 1..6 : s.alias[k] = p.alias[k]
    BY <1>2, <2>1
  <2>4. /\ \A k \in 1..5 : s.alias[k] = PENDING_HOME[k]
        /\ startswith(s.alias[6], PENDING_HOME[6])
    BY <2>2, <2>3
  <2> QED
    BY <1>3, <2>3, <2>4 DEF Pending
<1> QED
  BY <1>4 DEF GNode

\* The dev universe is a clean registry.
LEMMA DevClean == Clean(DevTable)
<1>1. ASSUME NEW i \in DOMAIN DevTable
      PROVE  \E s \in _dev_universe_specs : i = DevId(s.alias) /\ DevTable[i] = GNode(s)
  BY DevRows
<1>2. \A s \in _dev_universe_specs : GNode(s).alias = s.alias
  BY DEF GNode
<1>3. check_universe_scope(DevTable, Universe)
  BY <1>1, <1>2, Parented, DevAssumption DEF check_universe_scope
<1>4. check_parent_closed_active(DevTable)
  <2> SUFFICES ASSUME NEW i \in DOMAIN DevTable,
                      DevTable[i].status = "Active", ~is_forest_root(DevTable[i].alias)
               PROVE  \E q \in AtAlias(DevTable, parent_alias(DevTable[i].alias)) :
                            DevTable[q].status = "Active"
    BY DEF check_parent_closed_active
  <2>1. PICK s \in _dev_universe_specs : i = DevId(s.alias) /\ DevTable[i] = GNode(s)
    BY <1>1
  <2>2. PICK p \in _dev_universe_specs : p.alias = parent_alias(s.alias)
    BY <1>2, <2>1, Parented
  <2>3. GNode(p).status = "Active"
    BY <2>1, <2>2, PendingBelow
  <2>4. /\ DevId(p.alias) \in DOMAIN DevTable /\ DevTable[DevId(p.alias)] = GNode(p)
    BY DevRows
  <2> QED
    BY <1>2, <2>1, <2>2, <2>3, <2>4 DEF AtAlias
<1>5. check_edges_non_tree(DevTable, Edges)
  BY DevAssumption DEF check_edges_non_tree
<1>6. check_class_hierarchy(DevTable)
  <2> SUFFICES ASSUME NEW i \in DOMAIN DevTable
               PROVE  IF is_forest_root(DevTable[i].alias)
                      THEN MayBeRoot(DevTable[i])
                      ELSE \A q \in AtAlias(DevTable, parent_alias(DevTable[i].alias)) :
                                MayHaveParent(DevTable[i], DevTable[q])
    BY DEF check_class_hierarchy
  <2>1. PICK s \in _dev_universe_specs : DevTable[i] = GNode(s)
    BY <1>1
  <2>2. CASE is_forest_root(s.alias)
    <3>2. ~Home(s) /\ ~InHome(s)
      BY <2>2, Depths DEF is_forest_root, Placed
    <3>3. s.base_class \in COPPER_CLASSES \/ (s.base_class = "Logical" /\ s.g_node_class # "Scada")
      BY <3>2, Fleet DEF Copper, Service, Classed, COPPER_CLASSES
    <3> QED
      BY <1>2, <2>1, <2>2, <3>3 DEF MayBeRoot, GNode
  <2>3. CASE ~is_forest_root(s.alias)
    <3> SUFFICES ASSUME NEW q \in AtAlias(DevTable, parent_alias(s.alias))
                 PROVE  MayHaveParent(GNode(s), DevTable[q])
      BY <1>2, <2>1, <2>3
    <3>1. q \in DOMAIN DevTable /\ DevTable[q].alias = parent_alias(s.alias)
      BY DEF AtAlias
    <3>2. PICK p \in _dev_universe_specs : DevTable[q] = GNode(p)
      BY <1>1, <3>1
    <3> QED
      BY <1>2, <2>3, <3>1, <3>2, WellParented
  <2> QED
    BY <2>2, <2>3
<1>7. check_active_physical_have_position(DevTable, Positions)
  <2>1. ASSUME NEW s \in _dev_universe_specs, GNode(s).status = "Active", GNode(s).base_class # "Logical"
        PROVE  GNode(s).position_point_id \in Positions
    <3>1. GNode(s).position_point_id = DevId(s.alias) /\ DevId(s.alias) # NULL
      BY <2>1, DevAssumption, TableAssumption DEF GNode
    <3>2. GNode(s).position_point_id \in DevPositionIds
      BY <3>1 DEF DevPositionIds, build_dev_universe
    <3> QED
      BY <3>2, DevAssumption
  <2> QED
    BY <1>1, <2>1 DEF check_active_physical_have_position
<1> QED
  BY <1>3, <1>4, <1>5, <1>6, <1>7 DEF Clean, validate_registry

-----------------------------------------------------------------------------
(* Loading it *)

\* The fleet claims its own aliases, each for its own id.
LEMMA ClaimsType ==
    /\ DOMAIN DevTable \in SUBSET GNodeId
    /\ Claims \in [DOMAIN DevTable -> Alias]
    /\ \A i \in DOMAIN DevTable : Claims[i] = DevTable[i].alias
<1>1. DOMAIN DevTable = {g.g_node_id : g \in build_dev_universe}
  BY DEF DevTable
<1>2. \A i \in DOMAIN DevTable : DevTable[i] \in GNodeGt /\ i \in GNodeId
  BY DevTableType DEF NodeTable
<1>3. \A i \in DOMAIN DevTable : DevTable[i].alias \in Alias
  BY <1>2 DEF GNodeGt
<1>4. Claims = [i \in DOMAIN DevTable |-> DevTable[i].alias]
  BY <1>1 DEF Claims, DevTable
<1> HIDE DEF DevTable
<1> QED
  BY <1>2, <1>3, <1>4

\* Loading the fleet makes the registry sound, whatever it was.
LEMMA SeedingSound ==
    ASSUME SoundInv, NEW wipe \in BOOLEAN, _run_seed_dev(wipe)
    PROVE  SoundInv'
<1> DEFINE owners == IF wipe THEN <<>> ELSE ledger
<1>1. /\ pc = "idle" /\ CanClaim(owners, Claims)
      /\ nodes' = DevTable /\ ledger' = claim_alias(owners, Claims)
      /\ txNodes' = nodes' /\ txLedger' = ledger' /\ result' = NULL
      /\ UNCHANGED <<log, pc, cmd, todo, updated>>
  BY DEF _run_seed_dev, seed_dev_universe, DevTable
<1>2. OwnerTable(owners)
  <2>1. OwnerTable(<<>>)
    BY DEF OwnerTable
  <2> QED
    BY <2>1 DEF SoundInv, TypeOK
<1> HIDE DEF owners
<1>3. /\ OwnerTable(ledger')
      /\ \A i \in DOMAIN DevTable : Claims[i] \in DOMAIN ledger' /\ ledger'[Claims[i]] = i
  <2>1. DOMAIN DevTable \in SUBSET GNodeId /\ Claims \in [DOMAIN DevTable -> Alias]
    BY ClaimsType
  <2> QED
    BY <1>1, <1>2, <2>1, ClaimKeepsOwners
<1>4. TypeOK'
  BY <1>1, <1>3, DevTableType DEF SoundInv, TypeOK
<1>5. LedgerCoversLive'
  BY <1>1, <1>3, ClaimsType DEF LedgerCoversLive, CoversLive
<1>6. RowsDecode'
  BY <1>1, DevTableType DEF RowsDecode
<1>7. ValidateClean'
  BY <1>1, DevClean DEF ValidateClean, Clean
<1>8. CreateAnswered' /\ pc' # "rewriting"
  BY <1>1 DEF CreateAnswered
<1> QED
  BY <1>4, <1>5, <1>6, <1>7, <1>8 DEF SoundInv

\* The invariant of the registry that is seeded between its commands.
THEOREM DevInvariance == DevSpec => []SoundInv
<1>1. Init => SoundInv
  BY InitInv DEF IInv
<1>2. SoundInv /\ [DevNext]_vars => SoundInv'
  <2> SUFFICES ASSUME SoundInv, [DevNext]_vars PROVE SoundInv'
    OBVIOUS
  <2>1. CASE [Next]_vars
    BY <2>1, NextSound DEF Keeps
  <2>2. ASSUME NEW wipe \in BOOLEAN, _run_seed_dev(wipe) PROVE SoundInv'
    BY <2>2, SeedingSound
  <2> QED
    BY <2>1, <2>2 DEF DevNext
<1> QED
  BY <1>1, <1>2, PTL DEF DevSpec

\* Loading and re-loading the dev universe keeps every live alias owned by the
\* node that holds it, though --wipe forgets who owned what.
THEOREM SeededOwnership == DevSpec => []LedgerCoversLive
<1>1. SoundInv => LedgerCoversLive
  BY DEF SoundInv
<1> QED
  BY <1>1, DevInvariance, PTL

\* Reads never meet a row that fails to decode: of the fleet, of a command, or
\* of a re-parent that has renamed some of the fleet.
THEOREM SeededRowsDecode == DevSpec => []RowsDecode
<1>1. SoundInv => RowsDecode
  BY DEF SoundInv
<1> QED
  BY <1>1, DevInvariance, PTL

\* The dev universe is a clean registry, and stays one under every command.
THEOREM SeededClean == DevSpec => []ValidateClean
<1>1. SoundInv => ValidateClean
  BY DEF SoundInv
<1> QED
  BY <1>1, DevInvariance, PTL
=============================================================================
