---------------------------- MODULE OperatorCreate ----------------------------
(***************************************************************************)
(* `gnr create': operators who enter one GNode each.  A run asks the read  *)
(* API whether the alias is taken, publishes a create, waits ten seconds   *)
(* for the registry's verdict and then polls the read API by alias.        *)
(*                                                                         *)
(* All runs of a universe listen under one alias, so each of them hears    *)
(* the verdicts of all.  The broker is external: a verdict reaches a run   *)
(* some time after it is sent, or never; commands reach the registry in    *)
(* any order, and one whose consumer dies does so again.  A lookup by      *)
(* alias is one step (ReadFacadeProofs: LookupsAtomic), and may find the   *)
(* API down.                                                               *)
(***************************************************************************)
EXTENDS Registry

CONSTANTS
    Operator,   \* runs of gnr create
    Args        \* what each was asked for: alias, g_node_class, g_node_id, proof

VARIABLES
    stage,      \* where each run is
    heard,      \* the verdict it has taken, NULL before
    told,       \* what it has told its operator at the end, NULL before
    verdicts,   \* the verdicts sent to it while it waits for its own
    inbox       \* commands that wait for the registry, in the order they came

operatorVars == <<vars, stage, heard, told, verdicts, inbox>>

-----------------------------------------------------------------------------
(* The command a run builds *)

_PHYSICAL == BaseGNodeClass \ {"Logical"}

\* g.node.gt axiom 1, mechanically.
_infer_base(g_node_class) == IF g_node_class \in _PHYSICAL THEN g_node_class ELSE "Logical"

NewNode(o) ==
    [g_node_id |-> Args[o].g_node_id, alias |-> Args[o].alias, prev_alias |-> NULL,
     base_class |-> _infer_base(Args[o].g_node_class), g_node_class |-> Args[o].g_node_class,
     status |-> "Pending", position_point_id |-> NULL]

Order(o) == [type_name |-> "g.node.create.cmd", new_node |-> NewNode(o), proof |-> Args[o].proof]

\* What can be asked for is in the vocabulary; a node that decodes is among
\* the create commands that may arrive.
ASSUME OperatorAssumption ==
  /\ NULL \notin {"ack", "nack", "exists", "visible", "refused"}
  /\ \A o \in Operator :
        /\ Args[o] \in [alias : Alias, g_node_class : GNodeClass,
                        g_node_id : GNodeId, proof : Proof \cup {NULL}]
        /\ Decodes(NewNode(o)) => Order(o) \in CreateCmd

-----------------------------------------------------------------------------
(* The run *)

\* What a lookup may answer: any failure counts as absence.
_api_get(alias) == {FALSE, (alias \in DOMAIN ledger)}

\* The verdicts that arrive outside the wait are not looked at.
Goto(o, s) ==
    /\ stage' = [stage EXCEPT ![o] = s]
    /\ verdicts' = [verdicts EXCEPT ![o] = {}]

Continue(o, s) == Goto(o, s) /\ UNCHANGED told

Exit(o, message) == Goto(o, "ended") /\ told' = [told EXCEPT ![o] = message]

\* Look the alias up and build the node, which raises when an axiom fails.
LookUp(o) ==
    /\ stage[o] = "start"
    /\ \/ TRUE \in _api_get(Args[o].alias) /\ Exit(o, "exists")
       \/ Decodes(NewNode(o)) /\ Continue(o, "confirming")
       \/ ~Decodes(NewNode(o)) /\ Exit(o, "invalid")
    /\ UNCHANGED <<vars, heard, inbox>>

\* The operator aborts, or the broker cannot be reached, or the command goes to
\* the registry of the universe its alias names.
Publish(o) ==
    /\ stage[o] = "confirming"
    /\ \/ /\ \E message \in {"aborted", "no broker"} : Exit(o, message)
          /\ UNCHANGED inbox
       \/ /\ Continue(o, "waiting")
          /\ inbox' = IF universe_of(Args[o].alias) = Universe THEN Append(inbox, Order(o)) ELSE inbox
    /\ UNCHANGED <<vars, heard>>

Take(o, v) ==
    /\ heard' = [heard EXCEPT ![o] = v.verdict]
    /\ IF v.verdict = "nack" THEN Exit(o, "refused") ELSE Continue(o, "polling")

\* Mutant: whatever verdict arrives is taken for the run's own.
TakeVerdict_Any(o) ==
    /\ stage[o] = "waiting"
    /\ \E v \in verdicts[o] : Take(o, v)
    /\ UNCHANGED <<vars, inbox>>

\* Verdicts are filed by the hash of the command they answer.
TakeVerdict(o) ==
    /\ stage[o] = "waiting"
    /\ \E v \in verdicts[o] : v.cmd = Order(o) /\ Take(o, v)
    /\ UNCHANGED <<vars, inbox>>

\* Ten seconds are over.
TimeOut(o) ==
    /\ stage[o] = "waiting"
    /\ Continue(o, "polling")
    /\ UNCHANGED <<vars, heard, inbox>>

Poll(o) ==
    /\ stage[o] = "polling"
    /\ \/ TRUE \in _api_get(Args[o].alias) /\ Exit(o, "visible")
       \/ FALSE \in _api_get(Args[o].alias) /\ Exit(o, "not visible")
    /\ UNCHANGED <<vars, heard, inbox>>

-----------------------------------------------------------------------------
(* The registry's side.  It is given any of the commands that wait, answers *)
(* everyone who listens under the sender's alias, and may die before the    *)
(* answer or before it acknowledges; deaths inside a transaction are        *)
(* GnrRabbit's.                                                             *)

\* Somebody else asks for a re-parent, until it has been applied.
Reparented(c) ==
    /\ c \notin log /\ \A k \in DOMAIN inbox : inbox[k] # c
    /\ inbox' = Append(inbox, c)
    /\ UNCHANGED <<vars, stage, heard, told, verdicts>>

Waiting == {o \in Operator : stage[o] = "waiting" /\ universe_of(Args[o].alias) = Universe}

Sent(c) == [cmd |-> c, verdict |-> IF result'.verdict = "refused" THEN "nack" ELSE "ack"]

_reply(c) ==
    verdicts' = [o \in Operator |->
                    IF o \in Waiting /\ c \in CreateCmd /\ result'.verdict # "escaped"
                    THEN verdicts[o] \cup {Sent(c)} ELSE verdicts[o]]

Apply(c) ==
    \/ c \in CreateCmd /\ apply_create(c)
    \/ c \in ReparentCmd /\ (apply_reparent(c) \/ RewriteChild \/ CommitReparent)

\* The queue without its k-th command.
Without(k) == [j \in 1..(Len(inbox) - 1) |-> IF j < k THEN inbox[j] ELSE inbox[j + 1]]

Handle(k) ==
    /\ pc = "rewriting" => inbox[k] = cmd
    /\ Apply(inbox[k])
    /\ \/ result' = NULL /\ UNCHANGED <<inbox, verdicts>>
       \/ result' # NULL /\ inbox' = Without(k) /\ _reply(inbox[k])
       \/ result' # NULL /\ inbox' = inbox /\ (_reply(inbox[k]) \/ UNCHANGED verdicts)
    /\ UNCHANGED <<stage, heard, told>>

-----------------------------------------------------------------------------
(* The specification *)

OperatorInit ==
    /\ Init
    /\ stage = [o \in Operator |-> "start"]
    /\ heard = [o \in Operator |-> NULL] /\ told = [o \in Operator |-> NULL]
    /\ verdicts = [o \in Operator |-> {}]
    /\ inbox = <<>>

_run_create(o) ==
    LookUp(o) \/ Publish(o) \/ TakeVerdict(o) \/ TimeOut(o) \/ Poll(o)

OtherSteps ==
    \/ \E o \in Operator : _run_create(o)
    \/ \E c \in ReparentCmd : Reparented(c)

OperatorNext == OtherSteps \/ \E k \in DOMAIN inbox : Handle(k)

OperatorSpec == OperatorInit /\ [][OperatorNext]_operatorVars

\* The registry is given the oldest command, and again if it died with it.
FifoNext == OtherSteps \/ (inbox # <<>> /\ Handle(1))

FifoSpec == OperatorInit /\ [][FifoNext]_operatorVars

-----------------------------------------------------------------------------
(* Properties *)

\* "Applied (ack ...)": a run that took an ack for its verdict has its node in
\* the registry under the GNodeId it prints, although every run hears the
\* verdicts of all and deliveries are repeated.
AckMeansThere ==
    \A o \in Operator : heard[o] = "ack" => Args[o].g_node_id \in DOMAIN nodes

\* "Applied (ack ...)": the alias that such a run entered is its own for good,
\* under the GNodeId it prints, although rivals enter the same alias, and the
\* node may be renamed before the run has taken its verdict.
AckedNameIsOwn ==
    \A o \in Operator : heard[o] = "ack" =>
        /\ Args[o].alias \in DOMAIN ledger
        /\ ledger[Args[o].alias] = Args[o].g_node_id

\* "Refused": when a run has said so, its command has not been applied and
\* never will be, unless another run published the very same command.
RefusedMeansNotApplied ==
    \A o \in Operator : told[o] = "refused" /\ Order(o) \in log =>
        \E p \in Operator \ {o} : Order(p) = Order(o)

\* "Visibility proof either way": a run that says its alias is in the registry,
\* with the GNodeId it entered, has that GNode there.
VisibleMeansThere ==
    \A o \in Operator : told[o] = "visible" => Args[o].g_node_id \in DOMAIN nodes
=============================================================================
