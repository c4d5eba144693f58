------------------------------- MODULE Rebuild -------------------------------
(***************************************************************************)
(* The durability path: a registry serves commands while an ear stores     *)
(* every publish it hears; then the registry is wiped and rebuilt from the *)
(* ear's objects (gnr rebuild --wipe), which replays the captured commands *)
(* through the same handlers and holds every captured forest broadcast     *)
(* against what it has rebuilt.                                            *)
(*                                                                         *)
(* The serving half is the adapter of GnrRabbit at the grain of what the   *)
(* ear can hear: a command is captured when it is published, which may be  *)
(* long before it is handled, or later, when its own queue comes to it; a  *)
(* broadcast when it is spoken.  The ear may miss either.  The ear, the    *)
(* broker and the senders are external.                                    *)
(***************************************************************************)
EXTENDS Registry, FiniteSets

CONSTANTS
    RowOrders,      \* orders in which a SELECT without ORDER BY may return rows
    Busy,           \* whether snapshots fall while commands are waiting
    PerMs,          \* publishes the ear hears in one millisecond
    MaxPublished,   \* publishes of commands, repeated ones included
    MaxWaiting,     \* commands that wait for the service
    MaxSnapshots,   \* snapshots broadcast while serving
    MaxFaults       \* deaths of the service or of the rebuild, and publishes
                    \* the ear misses or stores late, together

ASSUME RebuildAssumption ==
    /\ Busy \in BOOLEAN
    /\ {PerMs, MaxPublished, MaxWaiting} \subseteq Nat \ {0}
    /\ {MaxSnapshots, MaxFaults} \subseteq Nat

VARIABLES
    phase,      \* "serving", "down", "replaying", "ended" or "aborted"
    inbox,      \* commands published and not yet answered, oldest first
    step,       \* where the service is with the oldest one
    capture,    \* the objects in the ear's store
    late,       \* commands that are still on their way to the ear
    served,     \* how the service answered the commands, in their order
    live,       \* the tables as the service left them
    bounds,     \* what the bounds count
    stream,     \* the rebuild's list of objects
    at,         \* the object it is at
    produced,   \* broadcasts of its own that no captured one has matched yet
    outcomes,   \* how it answered the commands
    mismatches  \* the objects it has reported as divergences

service == <<inbox, step, capture, late, served, live>>
report == <<stream, at, produced, outcomes, mismatches>>
allVars == <<vars, phase, service, bounds, report>>

CREATE_CMD == "g.node.create.cmd"
REPARENT_CMD == "g.node.reparent.cmd"
FOREST == "g.node.forest"
REPLAY_TYPE_NAMES == {CREATE_CMD, REPARENT_CMD, FOREST}

Faults == bounds.missed + bounds.late + bounds.deaf + bounds.crashes

Count(what) == bounds' = [b \in DOMAIN bounds |-> IF b \in what THEN bounds[b] + 1 ELSE bounds[b]]

-----------------------------------------------------------------------------
(* The ear (external): one object per publish, named by arrival.            *)

Stored(store, type_name, body) ==
    LET n == Cardinality(store)
    IN  store \cup {[persisted_ms |-> n \div PerMs, seq |-> (n % PerMs) + 1,
                     type_name |-> type_name, body |-> body]}

\* A forest as it is serialised: the order of its rows is part of it.
Message(forest, order) == [forest |-> forest, order |-> order]

\* get_forest sorts by alias.  A re-parent lists N and then the rows of each
\* moved subtree as an unordered SELECT returns them.
Orders(ending) ==
    IF ending.verdict = "applied" /\ Cardinality(ending.forest.nodes) > 2
    THEN RowOrders ELSE {"by alias"}

Broadcast(ending) == ending.verdict \in {"applied", "replayed"}

-----------------------------------------------------------------------------
(* The service *)

apply(c) == (c \in CreateCmd /\ apply_create(c)) \/ (c \in ReparentCmd /\ apply_reparent(c))

\* A sender publishes a command, or one that was published before again.  The
\* ear's queue is not the service's: it stores the command at once, never, or
\* after others, and what they led to.
Publish(c) ==
    /\ phase = "serving" /\ bounds.published < MaxPublished /\ Len(inbox) < MaxWaiting
    /\ inbox' = Append(inbox, c)
    /\ \/ capture' = Stored(capture, c.type_name, c) /\ Count({"published"}) /\ UNCHANGED late
       \/ Faults < MaxFaults /\ Count({"published", "missed"}) /\ UNCHANGED <<capture, late>>
       \/ /\ Faults < MaxFaults /\ Count({"published", "late"})
          /\ c \notin late /\ late' = late \cup {c} /\ UNCHANGED capture
    /\ UNCHANGED <<vars, phase, step, served, live, report>>

Overhear(c) ==
    /\ phase = "serving" /\ c \in late
    /\ capture' = Stored(capture, c.type_name, c)
    /\ late' = late \ {c}
    /\ UNCHANGED <<vars, phase, inbox, step, served, live, bounds, report>>

Handle ==
    /\ phase = "serving" /\ inbox # <<>>
    /\ \/ step = "waiting" /\ apply(Head(inbox))
       \/ step = "inTransaction" /\ (RewriteChild \/ CommitReparent)
    /\ step' = IF pc' = "idle" THEN "answered" ELSE "inTransaction"
    /\ UNCHANGED <<phase, inbox, capture, late, served, live, bounds, report>>

\* The change broadcast, which the ear may miss, and the typed verdict; an
\* escaping command has neither.
Answer ==
    /\ phase = "serving" /\ step = "answered"
    /\ \/ /\ Broadcast(result)
          /\ \E order \in Orders(result) :
                capture' = Stored(Stored(capture, FOREST, Message(result.forest, order)),
                                  "g.node.cmd.ack", NULL)
          /\ UNCHANGED bounds
       \/ /\ Broadcast(result)
          /\ Faults < MaxFaults /\ Count({"deaf"})
          /\ capture' = Stored(capture, "g.node.cmd.ack", NULL)
       \/ /\ result.verdict = "refused"
          /\ capture' = Stored(capture, "g.node.cmd.nack", NULL)
          /\ UNCHANGED bounds
       \/ result.verdict = "escaped" /\ UNCHANGED <<capture, bounds>>
    /\ served' = Append(served, result.verdict)
    /\ inbox' = Tail(inbox) /\ step' = "waiting"
    /\ UNCHANGED <<vars, phase, late, live, report>>

\* ... which the broker may deliver again.
Requeue ==
    /\ phase = "serving" /\ step = "answered" /\ result.verdict = "escaped"
    /\ step' = "waiting"
    /\ UNCHANGED <<vars, phase, inbox, capture, late, served, live, bounds, report>>

\* A snapshot is read and broadcast under the lock, between two commands.
broadcast_snapshot(root) ==
    /\ phase = "serving" /\ step = "waiting"
    /\ Busy \/ inbox = <<>>
    /\ bounds.snapshots < MaxSnapshots
    /\ \/ /\ Count({"snapshots"})
          /\ capture' = Stored(capture, FOREST, Message(get_forest({root}), "by alias"))
       \/ Faults < MaxFaults /\ Count({"snapshots", "deaf"}) /\ UNCHANGED capture
    /\ UNCHANGED <<vars, phase, inbox, step, late, served, live, report>>

\* What a process leaves behind that dies with a session open.
Dies == UNCHANGED tables /\ Close /\ result' = NULL

\* The service dies and comes back; the command in hand is delivered again
\* first, or after those that were waiting, or is lost.
Crash ==
    /\ phase = "serving" /\ step # "waiting"
    /\ Faults < MaxFaults
    /\ \/ UNCHANGED inbox /\ Count({"crashes"})
       \/ inbox' = Append(Tail(inbox), Head(inbox)) /\ Count({"crashes", "requeued"})
       \/ inbox' = Tail(inbox) /\ Count({"crashes", "lost"})
    /\ Dies /\ step' = "waiting"
    /\ UNCHANGED <<phase, capture, late, served, live, report>>

\* The service is stopped for good, with nothing left to answer.
Stop ==
    /\ phase = "serving" /\ inbox = <<>> /\ log # {}
    /\ phase' = "down"
    /\ live' = tables
    /\ UNCHANGED <<vars, inbox, step, capture, late, served, bounds, report>>

-----------------------------------------------------------------------------
(* The rebuild.  It has no write proof to check, and --wipe empties the      *)
(* tables of edges and positions too.                                        *)

Restored == INSTANCE Registry WITH WriteProof <- NULL, Edges <- {}, Positions <- {}

\* Mutant: the arrival counter is not read off the name.
Before_Name(o, p) ==
    o.persisted_ms < p.persisted_ms \/ (o.persisted_ms = p.persisted_ms /\ o.seq > p.seq)

\* Capture order.
Before(o, p) ==
    o.persisted_ms < p.persisted_ms \/ (o.persisted_ms = p.persisted_ms /\ o.seq < p.seq)

capture_objects ==
    LET selected == {o \in capture : o.type_name \in REPLAY_TYPE_NAMES}
    IN  [k \in 1..Cardinality(selected) |->
            CHOOSE o \in selected : Cardinality({p \in selected : Before(p, o)}) = k - 1]

\* Mutant: the command log survives the wipe.
Wipe_KeepsLog == nodes' = <<>> /\ ledger' = <<>> /\ UNCHANGED log

Wipe == nodes' = <<>> /\ ledger' = <<>> /\ log' = {}

\* gnr rebuild: an occupied registry needs --wipe, which commits before the
\* replay begins.
_run_rebuild(wipe) ==
    /\ phase \in {"down", "aborted"}
    /\ DOMAIN nodes = {} \/ wipe
    /\ IF wipe THEN Wipe ELSE UNCHANGED tables
    /\ Close /\ result' = NULL
    /\ phase' = "replaying"
    /\ stream' = capture_objects /\ at' = 1
    /\ produced' = <<>> /\ outcomes' = <<>> /\ mismatches' = {}
    /\ UNCHANGED <<service, bounds>>

Object == stream[at]

Replaying(types) == phase = "replaying" /\ at <= Len(stream) /\ Object.type_name \in types

\* Mutant: a refusal is not told from any other exception.
Raises_Refusal(ending) == ending.verdict # "applied" /\ ending.verdict # "replayed"

\* What replay lets through: everything but CreateError and ReparentError.
Raises(ending) == ending.verdict = "escaped"

ReplayCommand ==
    /\ Replaying({CREATE_CMD, REPARENT_CMD})
    /\ \/ /\ pc = "idle"
          /\ \/ Object.body \in CreateCmd /\ Restored!apply_create(Object.body)
             \/ Object.body \in ReparentCmd /\ Restored!apply_reparent(Object.body)
       \/ pc = "rewriting" /\ (Restored!RewriteChild \/ Restored!CommitReparent)
    /\ IF pc' = "rewriting"
       THEN UNCHANGED <<phase, report>>
       ELSE /\ outcomes' = Append(outcomes, result'.verdict)
            /\ \E order \in Orders(result') :
                    produced' = IF Broadcast(result')
                                THEN Append(produced, Message(result'.forest, order)) ELSE produced
            /\ phase' = IF Raises(result') THEN "aborted" ELSE phase
            /\ at' = at + 1
            /\ UNCHANGED <<stream, mismatches>>
    /\ UNCHANGED <<service, bounds>>

\* Mutant: a broadcast is only held against the current state.
Pairs_Never(captured) == FALSE

\* Mutant: the captured broadcast is not held against the one it pairs with.
Pairs_Any(captured) == produced # <<>>

\* The captured broadcast is the oldest of the rebuild's own.
Pairs(captured) == produced # <<>> /\ Head(produced) = captured


\* The captured broadcast shows the rebuilding registry as it is now.
Current(captured) ==
    Message(Restored!get_forest(captured.forest.roots), "by alias") = captured

Checkpoint ==
    /\ Replaying({FOREST})
    /\ IF Pairs(Object.body)
       THEN produced' = Tail(produced) /\ UNCHANGED mismatches
       ELSE /\ mismatches' = IF Current(Object.body) THEN mismatches ELSE mismatches \cup {at}
            /\ UNCHANGED produced
    /\ at' = at + 1
    /\ UNCHANGED <<vars, phase, service, bounds, stream, outcomes>>

\* The whole stream is replayed; the report says whether there were mismatches.
Finish ==
    /\ phase = "replaying" /\ at > Len(stream)
    /\ phase' = "ended"
    /\ UNCHANGED <<vars, service, bounds, report>>

\* The rebuild dies in the middle; what it has committed stays.
Interrupt ==
    /\ phase = "replaying"
    /\ Faults < MaxFaults /\ Count({"crashes"})
    /\ Dies /\ phase' = "down"
    /\ UNCHANGED <<service, report>>

-----------------------------------------------------------------------------
(* The specification *)

\* Every command comes over the broker: there is no seed.
RebuildInit ==
    /\ Init /\ nodes = <<>>
    /\ phase = "serving"
    /\ inbox = <<>> /\ step = "waiting" /\ served = <<>> /\ live = NULL
    /\ capture = {} /\ late = {}
    /\ bounds = [b \in {"published", "missed", "late", "snapshots", "deaf",
                       "crashes", "requeued", "lost"} |-> 0]
    /\ stream = <<>> /\ at = 1 /\ produced = <<>> /\ outcomes = <<>> /\ mismatches = {}

ReplayStep == ReplayCommand \/ Checkpoint \/ Finish

RebuildNext ==
    \/ \E c \in Cmd : Publish(c) \/ Overhear(c)
    \/ Handle \/ Answer \/ Requeue \/ Crash \/ Stop
    \/ \E root \in forest_roots : broadcast_snapshot(root)
    \/ \E wipe \in BOOLEAN : _run_rebuild(wipe)
    \/ ReplayStep \/ Interrupt

RebuildSpec == RebuildInit /\ [][RebuildNext]_allVars

\* The replay is a loop that nothing else holds up, and the operator runs a
\* rebuild, with --wipe, until one has ended.
LiveRebuildSpec ==
    RebuildSpec /\ WF_allVars(ReplayStep) /\ WF_allVars(_run_rebuild(TRUE))

-----------------------------------------------------------------------------
(* Properties *)

\* A registry that nobody seeded has no edges and no positions; and every command
\* carries the proof, which the rebuild does not ask for.
Plain == Edges = {} /\ Positions = {} /\ \A c \in Cmd : check_proof(c)

\* The service handled every command that the ear stored, and in that order.
CommandsKept == bounds.missed = 0 /\ bounds.late = 0 /\ bounds.requeued = 0 /\ bounds.lost = 0

\* The ear has stored every publish, in the order of what it led to.
HeardAll == CommandsKept /\ bounds.deaf = 0

\* "Postgres is a materialized view of the logged command stream": the rebuild
\* ends with the rows, the ledger and the log that the service had, whatever
\* was repeated, refused, redelivered after a crash or replayed twice.
RebuildReproduces == phase = "ended" /\ CommandsKept => tables = live

\* A rebuild never binds an alias to another GNodeId than the service had, at
\* no point of the replay and in no interrupted one: a reader of the half
\* rebuilt registry misses names and is never told a wrong one.
NoWrongNameMidway ==
    CommandsKept /\ (phase \in {"replaying", "ended"} \/ (phase = "down" /\ stream # <<>>)) =>
        \A a \in DOMAIN ledger : a \in DOMAIN live[2] /\ live[2][a] = ledger[a]

\* "A captured refusal re-refuses", and only those: the rebuild refuses
\* exactly the commands that the service refused.
RefusalsRefuse ==
    phase = "ended" /\ CommandsKept =>
        /\ Len(outcomes) = Len(served)
        /\ \A i \in DOMAIN outcomes : outcomes[i] = "refused" <=> served[i] = "refused"

\* "A broadcast matching neither the FIFO head nor current state is a real
\* divergence": a rebuild that reproduced the registry from everything that
\* was published reports no mismatch.
MismatchIsDivergence == phase = "ended" /\ HeardAll /\ tables = live => mismatches = {}


\* Whatever the ear missed or stored late, and whatever the broker lost: a
\* rebuild that reports no mismatch has bound every alias that a captured
\* broadcast ever told to the GNode it was told of.
OkKeepsNames ==
    phase = "ended" /\ mismatches = {} =>
        \A o \in capture : o.type_name = FOREST =>
            \A n \in o.body.forest.nodes :
                n.alias \in DOMAIN ledger /\ ledger[n.alias] = n.g_node_id

\* "This module is the restore mechanism": once the service is down, a rebuild
\* gets to the end of the stream.
RestoreCompletes == phase = "down" ~> phase = "ended"
=============================================================================
