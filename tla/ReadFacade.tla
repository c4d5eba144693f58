----------------------------- MODULE ReadFacade ------------------------------
(***************************************************************************)
(* The HTTP read facade: requests that the authority answers in several    *)
(* statements, each of which sees what is committed when it runs, while    *)
(* the write loop, another process, goes on committing.                    *)
(*                                                                         *)
(* One request is under way at a time; requests share nothing but the      *)
(* tables, so what holds of one holds of each.                             *)
(***************************************************************************)
EXTENDS Registry

CONSTANTS
    AskedAlias,     \* aliases that clients ask for
    AskedId,        \* ids that clients ask for
    AskedRoots,     \* root lists of forest requests, as sequences
    NotFound        \* the 404 answer

ASSUME FacadeAssumption ==
    /\ AskedAlias \subseteq Alias /\ AskedId \subseteq GNodeId
    /\ \A list \in AskedRoots : list \in Seq(Alias)
    /\ NULL \notin AskedAlias \cup AskedRoots
    /\ NotFound # NULL

VARIABLES
    at,         \* the statement the request is at: "none" between requests
    asked,      \* the alias it asks for, or NULL
    roots,      \* the root list it asks for, or NULL
    owner,      \* the id it looks up, as given or out of the ledger
    unread,     \* roots whose subtree it has not read yet
    rows,       \* the rows it has read, by id
    answer,     \* what it returned, NULL before
    during      \* the tables as they were committed since the request came in

request == <<at, asked, roots, owner, unread, rows, answer, during>>
facadeVars == <<vars, request>>

-----------------------------------------------------------------------------
(* What one statement sees *)

\* SELECT ... WHERE alias = :alias
HolderOf(table, alias) == {table[i] : i \in AtAlias(table, alias)}

Receive(statement, alias, list, id) ==
    /\ at = "none"
    /\ at' = statement
    /\ asked' = alias /\ roots' = list /\ owner' = id
    /\ unread' = IF list = NULL THEN <<>> ELSE list
    /\ rows' = <<>> /\ answer' = NULL
    /\ during' = {tables}
    /\ UNCHANGED vars

Return(reply) == at' = "none" /\ answer' = reply

-----------------------------------------------------------------------------
(* GET /gnr/g-node-by-alias: resolve_alias; GET /gnr/g-node-by-id: its last  *)
(* statement alone.                                                          *)

g_node_by_alias(alias) == Receive("live row", alias, NULL, NULL)

g_node_by_id(id) == Receive("owner", NULL, NULL, id)

\* Mutant: the ledger is not asked.
ReadLiveRow_Only ==
    /\ at = "live row"
    /\ \/ \E row \in HolderOf(nodes, asked) : Return(row)
       \/ HolderOf(nodes, asked) = {} /\ Return(NotFound)
    /\ UNCHANGED <<vars, asked, roots, owner, unread, rows, during>>

ReadLiveRow ==
    /\ at = "live row"
    /\ \/ \E row \in HolderOf(nodes, asked) : Return(row)
       \/ HolderOf(nodes, asked) = {} /\ at' = "ledger" /\ UNCHANGED answer
    /\ UNCHANGED <<vars, asked, roots, owner, unread, rows, during>>

ReadLedger ==
    /\ at = "ledger"
    /\ \/ asked \in DOMAIN ledger /\ owner' = ledger[asked] /\ at' = "owner" /\ UNCHANGED answer
       \/ asked \notin DOMAIN ledger /\ Return(NotFound) /\ UNCHANGED owner
    /\ UNCHANGED <<vars, asked, roots, unread, rows, during>>

\* The permanent owner, in its current form.
ReadOwner ==
    /\ at = "owner"
    /\ \/ owner \in DOMAIN nodes /\ Return(nodes[owner])
       \/ owner \notin DOMAIN nodes /\ Return(NotFound)
    /\ UNCHANGED <<vars, asked, roots, owner, unread, rows, during>>

-----------------------------------------------------------------------------
(* POST /gnr/g-node-forest-request: get_forest, one statement per root *)

g_node_forest_request(list) == Receive("subtrees", NULL, list, NULL)

\* A row that an earlier statement returned is kept as it was then.
Seen(table, ids) ==
    [i \in DOMAIN rows \cup ids |-> IF i \in DOMAIN rows THEN rows[i] ELSE table[i]]

\* Mutant: the rows are collected anew for every root.
ReadSubtree_Anew ==
    /\ at = "subtrees" /\ unread # <<>>
    /\ rows' = [i \in Subtree(nodes, Head(unread)) |-> nodes[i]]
    /\ unread' = Tail(unread)
    /\ UNCHANGED <<vars, at, asked, roots, owner, answer, during>>

ReadSubtree ==
    /\ at = "subtrees" /\ unread # <<>>
    /\ rows' = Seen(nodes, Subtree(nodes, Head(unread)))
    /\ unread' = Tail(unread)
    /\ UNCHANGED <<vars, at, asked, roots, owner, answer, during>>

ReadEdges ==
    /\ at = "subtrees" /\ unread = <<>>
    /\ Return([roots |-> {roots[k] : k \in DOMAIN roots},
               nodes |-> {rows[i] : i \in DOMAIN rows},
               edges |-> {e \in Edges : e.from_g_node_id \in DOMAIN rows
                                        /\ e.to_g_node_id \in DOMAIN rows}])
    /\ UNCHANGED <<vars, asked, roots, owner, unread, rows, during>>

-----------------------------------------------------------------------------
(* The specification *)

\* The write loop commits as it does without readers.
Write ==
    /\ Next
    /\ during' = IF at = "none" THEN during ELSE during \cup {tables'}
    /\ UNCHANGED <<at, asked, roots, owner, unread, rows, answer>>

FacadeInit ==
    /\ Init
    /\ at = "none" /\ asked = NULL /\ roots = NULL /\ owner = NULL
    /\ unread = <<>> /\ rows = <<>> /\ answer = NULL /\ during = {tables}

Statement == ReadLiveRow \/ ReadLedger \/ ReadOwner \/ ReadSubtree \/ ReadEdges

FacadeNext ==
    \/ Write
    \/ \E alias \in AskedAlias : g_node_by_alias(alias)
    \/ \E id \in AskedId : g_node_by_id(id)
    \/ \E list \in AskedRoots : g_node_forest_request(list)
    \/ Statement

FacadeSpec == FacadeInit /\ [][FacadeNext]_facadeVars

-----------------------------------------------------------------------------
(* Properties *)

\* What resolve_alias promises of one state of the tables: the GNode that
\* owns the alias, in its current form; not found if it was never assigned.
Resolution(g, alias) == IF alias \in DOMAIN g[2] THEN g[1][g[2][alias]] ELSE NotFound

\* An answer to an alias lookup is the one that the promise gives for a state
\* of the tables committed between request and answer, although its statements
\* saw up to three different ones: a node that is renamed in the middle is not
\* reported missing, nor is another node returned.
AliasResolvesAtOneInstant ==
    asked # NULL /\ answer # NULL => \E g \in during : answer = Resolution(g, asked)

Under(table, list) ==
    {table[i] : i \in {j \in DOMAIN table : \E k \in DOMAIN list : in_subtree(table[j].alias, list[k])}}

\* "The forest under the requested root aliases", of a request with several
\* roots: each row shown is one that a node under a root had at an instant
\* between request and answer, and no node that was under one of the roots all
\* the time is left out, whatever it and the others were renamed to meanwhile.
ForestShowsSettled ==
    roots # NULL /\ answer # NULL =>
        /\ \A row \in answer.nodes : \E g \in during : row \in Under(g[1], roots)
        /\ \A k \in DOMAIN roots : \A i \in GNodeId :
                (\A g \in during : i \in Subtree(g[1], roots[k])) =>
                    \E g \in during : g[1][i] \in answer.nodes

\* "The forest under the requested root aliases": the answer to a forest request
\* is the forest as it was at some instant between request and answer.
ForestOfOneInstant ==
    roots # NULL /\ answer # NULL => \E g \in during : answer.nodes = Under(g[1], roots)
=============================================================================
