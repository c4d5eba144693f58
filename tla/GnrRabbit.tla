------------------------------ MODULE GnrRabbit ------------------------------
(***************************************************************************)
(* The rabbit adapter around the registry: one process with a consumer     *)
(* thread that applies commands, broadcasts and replies, and a snapshot    *)
(* thread that re-broadcasts the forest under every root.  forest_lock     *)
(* guards read-then-broadcast on both paths.                               *)
(*                                                                         *)
(* Around the process, as the code relies on them (external): the broker's *)
(* command queue `inbox', which delivers in any order and may redeliver    *)
(* what a dead consumer held; senders that send a command again; what the  *)
(* process has queued onto the ioloop, the broadcasts `wire' and the       *)
(* verdicts `replies', each in the order it was queued, where a broadcast  *)
(* reaches any part of its audience (best effort) and a reply may be lost; *)
(* and listeners, one for every seeded GNode and one for a created GNode   *)
(* from when it joins, that are bound to the prefixes of the alias they    *)
(* know and learn their alias from the forests they hear.                  *)
(***************************************************************************)
EXTENDS Registry, FiniteSets

CONSTANTS
    Noise,          \* bodies of other message types: process_message ignores them
    Garbage,        \* bodies of the command types that the codec does not decode
    FromClass,      \* sender classes: a token, or NULL when it is unknown
    Joiners,        \* commands whose GNode starts a listener of its own
    MaxSends,       \* how often a command is sent
    MaxFaults,      \* deaths of the process and lost replies, together
    MaxWire         \* broadcasts under way at one time, and replies

ASSUME BoundAssumption == {MaxSends, MaxFaults, MaxWire} \subseteq Nat \ {0}

Body == Cmd \cup Noise \cup Garbage

VARIABLES
    inbox,          \* deliveries waiting in the command queue
    cpc,            \* where the consumer thread is
    cur,            \* the delivery it is processing
    lock,           \* forest_lock: NULL, "consumer" or "snapshot"
    spc,            \* where the snapshot thread is
    sroots,         \* roots it still has to broadcast in this tick
    snap,           \* the snapshot it has read
    wire,           \* broadcasts queued onto the ioloop
    replies,        \* verdicts queued onto the ioloop, for their senders
    consuming,      \* the consume loop is alive
    known,          \* the alias each GNode's listener goes by
    verdict,        \* the last reply about each command that reached its sender
    sends,          \* how often each body has been sent
    faults          \* deaths of the process and lost replies so far

rabbit == <<inbox, cpc, cur, lock, spc, sroots, snap, wire, replies, consuming, known,
            verdict, sends, faults>>
consumer == <<cpc, cur>>
snapshots == <<spc, sroots, snap>>
outside == <<known, verdict, sends, faults>>
allVars == <<vars, rabbit>>

-----------------------------------------------------------------------------
(* The consumer thread *)

Take(d) ==
    /\ cpc = "waiting" /\ consuming /\ d \in inbox
    /\ inbox' = inbox \ {d}

\* An envelope of another type: return at once.
IgnoreOther(d) ==
    /\ Take(d) /\ d.body \in Noise
    /\ UNCHANGED <<vars, consumer, lock, snapshots, wire, replies, consuming, outside>>

process_message(d) ==
    /\ Take(d) /\ d.body \in Cmd
    /\ cpc' = "decoded" /\ cur' = d
    /\ UNCHANGED <<vars, lock, snapshots, wire, replies, consuming, outside>>

\* What becomes of a delivery whose handler raised is the library's choice.
RequeueOrDrop(d, queue) == inbox' \in {queue, queue \cup {d}}

\* from_dict raises before the lock is taken.
FailDecode(d) ==
    /\ cpc = "waiting" /\ consuming /\ d \in inbox /\ d.body \in Garbage
    /\ RequeueOrDrop(d, inbox \ {d})
    /\ consuming' = FALSE
    /\ UNCHANGED <<vars, consumer, lock, snapshots, wire, replies, outside>>

AcquireLock ==
    /\ cpc = "decoded" /\ lock = NULL
    /\ lock' = "consumer" /\ cpc' = "locked"
    /\ UNCHANGED <<vars, inbox, cur, snapshots, wire, replies, consuming, outside>>

\* The call into the authority, and its transaction when it opens one.
Apply ==
    /\ \/ /\ cpc = "locked"
          /\ \/ cur.body \in CreateCmd /\ apply_create(cur.body)
             \/ cur.body \in ReparentCmd /\ apply_reparent(cur.body)
       \/ /\ cpc = "inTransaction"
          /\ RewriteChild \/ CommitReparent
    /\ cpc' = IF pc' = "idle" THEN "answered" ELSE "inTransaction"
    /\ UNCHANGED <<inbox, cur, lock, snapshots, wire, replies, consuming, outside>>

\* Mutant: a re-parent is announced on N's new alias.
Channel_New(c) ==
    IF c.type_name = "g.node.create.cmd" THEN parent_alias(c.new_node.alias) ELSE c.new_node.alias

\* The channel rule: a create is announced on the parent's alias (a root's on
\* its own), a re-parent on the alias of N's parent E.
Channel(c) ==
    IF c.type_name = "g.node.create.cmd" /\ is_forest_root(c.new_node.alias)
    THEN c.new_node.alias
    ELSE parent_alias(c.new_node.alias)

\* `shows' counts the commands whose effect the forest includes; it stands
\* for the order that SendTimeMs and the content carry.
Publish(channel, forest, shows) ==
    /\ Len(wire) < MaxWire
    /\ wire' = Append(wire, [channel |-> channel, nodes |-> forest.nodes, shows |-> shows])

broadcast_topology ==
    /\ cpc = "answered" /\ result.verdict \in {"applied", "replayed"}
    /\ Publish(Channel(cur.body), result.forest, Cardinality(log))
    /\ cpc' = "published"
    /\ UNCHANGED <<vars, inbox, cur, lock, snapshots, replies, consuming, outside>>

\* Mutant: the lock is not given back.
Release_Keeps == UNCHANGED lock /\ cpc' = "waiting" /\ cur' = NULL

Release == lock' = NULL /\ cpc' = "waiting" /\ cur' = NULL

\* Mutant: the sender gets the handler's own word for the outcome.
reply_Raw(v) == replies' = Append(replies, [cmd |-> cur.body, verdict |-> result.verdict])

\* Mutant: a command that was applied before gets no answer.
reply_First(v) ==
    /\ Len(replies) < MaxWire
    /\ replies' = IF result.verdict = "replayed" THEN replies
                  ELSE Append(replies, [cmd |-> cur.body, verdict |-> v])

\* The typed verdict, queued like a broadcast, unless the sender's class is unknown.
reply(v) ==
    /\ Len(replies) < MaxWire
    /\ replies' = IF cur.from_class = NULL THEN replies
                  ELSE Append(replies, [cmd |-> cur.body, verdict |-> v])

\* Mutant: every delivery is acknowledged once it has been handled.
Reply_Always ==
    /\ cpc = "published" \/ (cpc = "answered" /\ result.verdict = "refused")
    /\ reply("ack")
    /\ Release
    /\ UNCHANGED <<vars, inbox, snapshots, wire, consuming, outside>>

Reply ==
    /\ \/ cpc = "published" /\ reply("ack")
       \/ cpc = "answered" /\ result.verdict = "refused" /\ reply("nack")
    /\ Release
    /\ UNCHANGED <<vars, inbox, snapshots, wire, consuming, outside>>

\* An exception that is not a refusal leaves the handler and its lock and
\* tears down the channel.
EscapeHandler ==
    /\ cpc = "answered" /\ result.verdict = "escaped"
    /\ RequeueOrDrop(cur, inbox)
    /\ Release
    /\ consuming' = FALSE
    /\ UNCHANGED <<vars, snapshots, wire, replies, outside>>

-----------------------------------------------------------------------------
(* The snapshot thread *)

\* A tick of run_snapshots: the list of roots is read without the lock.
run_snapshots ==
    /\ spc = "sleeping" /\ consuming /\ forest_roots # {}
    /\ sroots' = forest_roots
    /\ spc' = "looping"
    /\ UNCHANGED <<vars, inbox, consumer, lock, snap, wire, replies, consuming, outside>>

\* Mutant: the snapshot thread does not wait for the lock.
SnapshotLock_None ==
    /\ spc = "looping"
    /\ spc' = "locked"
    /\ UNCHANGED <<vars, inbox, consumer, lock, sroots, snap, wire, replies, consuming, outside>>

SnapshotLock ==
    /\ spc = "looping" /\ lock = NULL
    /\ lock' = "snapshot" /\ spc' = "locked"
    /\ UNCHANGED <<vars, inbox, consumer, sroots, snap, wire, replies, consuming, outside>>

SnapshotRead(root) ==
    /\ spc = "locked"
    /\ root \in sroots
    /\ snap' = [root |-> root, forest |-> get_forest({root}), shows |-> Cardinality(log)]
    /\ spc' = "read"
    /\ UNCHANGED <<vars, inbox, consumer, lock, sroots, wire, replies, consuming, outside>>

broadcast_snapshot ==
    /\ spc = "read"
    /\ Publish(snap.root, snap.forest, snap.shows)
    /\ lock' = NULL
    /\ sroots' = sroots \ {snap.root}
    /\ snap' = NULL
    /\ spc' = IF sroots' = {} THEN "sleeping" ELSE "looping"
    /\ UNCHANGED <<vars, inbox, consumer, replies, consuming, outside>>

-----------------------------------------------------------------------------
(* The world outside the process (external) *)

\* A body of another kind is sent once.
SendsOf(body) == IF body \in Cmd THEN MaxSends ELSE 1

Send(d) ==
    /\ d \notin inbox /\ d # cur /\ sends[d.body] < SendsOf(d.body)
    /\ inbox' = inbox \cup {d}
    /\ sends' = [sends EXCEPT ![d.body] = @ + 1]
    /\ UNCHANGED <<vars, consumer, lock, snapshots, wire, replies, consuming, known, verdict, faults>>

\* A GNode that a command made starts to listen, under the alias it was made under.
Join(c) ==
    /\ c \in log /\ c.new_node.g_node_id \notin DOMAIN known
    /\ known' = [i \in DOMAIN known \cup {c.new_node.g_node_id} |->
                    IF i \in DOMAIN known THEN known[i] ELSE c.new_node.alias]
    /\ UNCHANGED <<vars, inbox, consumer, lock, snapshots, wire, replies, consuming,
                   verdict, sends, faults>>

\* Who is bound to a channel: the listeners whose alias lies below it.
Audience(channel) == {i \in DOMAIN known : in_subtree(known[i], channel)}

Names(forest_nodes, i) == {n.alias : n \in {m \in forest_nodes : m.g_node_id = i}}

\* The oldest publish reaches `heard'; who finds itself in the forest, learns.
Deliver(channel, heard) ==
    /\ wire # <<>> /\ Head(wire).channel = channel
    /\ heard \subseteq Audience(channel)
    /\ known' = [i \in DOMAIN known |->
                    IF i \in heard /\ Names(Head(wire).nodes, i) # {}
                    THEN CHOOSE a \in Names(Head(wire).nodes, i) : TRUE
                    ELSE known[i]]
    /\ wire' = Tail(wire)
    /\ UNCHANGED <<vars, inbox, consumer, lock, snapshots, replies, consuming, verdict,
                   sends, faults>>

DeliverAll(channel) == Deliver(channel, Audience(channel))

\* The oldest reply reaches its sender ...
HearReply ==
    /\ replies # <<>>
    /\ replies' = Tail(replies)
    /\ verdict' = [verdict EXCEPT ![Head(replies).cmd] = Head(replies).verdict]
    /\ UNCHANGED <<vars, inbox, consumer, lock, snapshots, wire, consuming, known, sends, faults>>

\* ... or is lost on the way.
LoseReply ==
    /\ replies # <<>> /\ faults < MaxFaults
    /\ replies' = Tail(replies)
    /\ faults' = faults + 1
    /\ UNCHANGED <<vars, inbox, consumer, lock, snapshots, wire, consuming, known, verdict, sends>>

\* The library reconnects and the consume loop starts again.
Reconnect ==
    /\ ~consuming
    /\ consuming' = TRUE
    /\ UNCHANGED <<vars, inbox, consumer, lock, snapshots, wire, replies, outside>>

\* The process dies and is started again: an open transaction rolls back, what
\* was queued onto the ioloop is gone, and the delivery in hand is redelivered
\* or lost.
Crash ==
    /\ faults < MaxFaults
    /\ faults' = faults + 1
    /\ UNCHANGED tables /\ Close /\ result' = NULL
    /\ IF cur = NULL THEN UNCHANGED inbox ELSE RequeueOrDrop(cur, inbox)
    /\ Release
    /\ spc' = "sleeping" /\ sroots' = {} /\ snap' = NULL
    /\ wire' = <<>> /\ replies' = <<>>
    /\ consuming' = TRUE
    /\ UNCHANGED <<verdict, known, sends>>

-----------------------------------------------------------------------------
(* The specification *)

Delivery == [body : Body, from_class : FromClass]

\* NULL stands for nothing: it is no thread and no delivery.
ASSUME NullAssumption == NULL \notin {"consumer", "snapshot"} /\ NULL \notin Delivery

RabbitInit ==
    /\ Init
    /\ inbox = {} /\ cpc = "waiting" /\ cur = NULL
    /\ lock = NULL
    /\ spc = "sleeping" /\ sroots = {} /\ snap = NULL
    /\ wire = <<>> /\ replies = <<>>
    /\ consuming = TRUE
    /\ known = [i \in DOMAIN nodes |-> nodes[i].alias]
    /\ verdict = [c \in Cmd |-> "none"]
    /\ sends = [b \in Body |-> 0]
    /\ faults = 0

Consume ==
    \/ \E d \in Delivery : IgnoreOther(d) \/ process_message(d) \/ FailDecode(d)
    \/ AcquireLock \/ Apply \/ broadcast_topology \/ Reply \/ EscapeHandler

Snapshot ==
    \/ run_snapshots \/ SnapshotLock \/ broadcast_snapshot
    \/ \E root \in sroots : SnapshotRead(root)

Channels == {m.channel : m \in {wire[k] : k \in DOMAIN wire}}

RabbitNext ==
    \/ Consume
    \/ Snapshot
    \/ \E d \in Delivery : Send(d)
    \/ \E c \in Joiners : Join(c)
    \/ \E channel \in Channels : \E heard \in SUBSET Audience(channel) : Deliver(channel, heard)
    \/ HearReply
    \/ LoseReply
    \/ Reconnect
    \/ Crash

RabbitSpec == RabbitInit /\ [][RabbitNext]_allVars

\* The threads run; the broker comes to every delivery, also beside one that
\* is delivered again and again; the lock is fair enough, because the snapshot
\* thread sleeps between ticks; the library reconnects; a sender repeats an
\* unanswered command; broadcasts and replies drain, and a root's channel does
\* not lose its broadcasts for ever.
Fairness ==
    /\ WF_allVars(Consume) /\ SF_allVars(AcquireLock)
    /\ \A d \in Delivery : SF_allVars(process_message(d))
    /\ WF_allVars(Snapshot) /\ SF_allVars(SnapshotLock)
    /\ WF_allVars(Reconnect)
    /\ \A c \in Cmd : WF_allVars(verdict[c] = "none" /\ \E d \in Delivery : d.body = c /\ Send(d))
    /\ WF_allVars(HearReply)
    /\ WF_allVars(\E channel \in Channels : DeliverAll(channel))
    /\ \A n \in SeedNodes \cup {c.new_node : c \in CreateCmd} :
            SF_allVars(is_forest_root(n.alias) /\ DeliverAll(n.alias))

FairRabbitSpec == RabbitSpec /\ Fairness

-----------------------------------------------------------------------------
(* Properties *)

Snap == [root : Alias, forest : GNodeForest, shows : Nat]

\* The adapter's own state has its type.
RabbitTypeOK ==
    /\ inbox \subseteq Delivery
    /\ cur \in {NULL} \cup Delivery
    /\ cpc \in {"waiting", "decoded", "locked", "inTransaction", "answered", "published"}
    /\ lock \in {NULL} \cup {"consumer", "snapshot"}
    /\ spc \in {"sleeping", "looping", "locked", "read"}
    /\ sroots \subseteq Alias
    /\ snap \in {NULL} \cup Snap
    /\ wire \in Seq([channel : Alias, nodes : SUBSET GNodeGt, shows : Nat])
    /\ replies \in Seq([cmd : Cmd, verdict : {"ack", "nack"}])
    /\ consuming \in BOOLEAN
    /\ known \in [DOMAIN known -> Alias]
    /\ verdict \in [Cmd -> {"none", "ack", "nack"}]
    /\ sends \in [Body -> 0..MaxSends]
    /\ faults \in 0..MaxFaults

\* Each thread owns forest_lock exactly while it is in its read-then-broadcast
\* section, through refusals, escaping errors and crashes; and a re-parent
\* transaction is open only inside the consumer's section.
LockDiscipline ==
    /\ lock = "consumer" <=> cpc \in {"locked", "inTransaction", "answered", "published"}
    /\ lock = "snapshot" <=> spc \in {"locked", "read"}
    /\ pc = "rewriting" <=> cpc = "inTransaction"
    /\ cur = NULL <=> cpc = "waiting"

\* A snapshot that has been read still shows the committed registry when it is
\* published: no command commits in between.
SnapshotCurrent ==
    spc = "read" => snap.forest = get_forest({snap.root}) /\ snap.shows = Cardinality(log)

\* "A snapshot read before a write commits is never published after that
\* write's change broadcast": publishes leave in the order of what they show.
WireInOrder ==
    \A j, k \in DOMAIN wire : j < k => wire[j].shows <= wire[k].shows

\* An ack is a promise: the command is durably in the log.
AckMeansLogged == \A c \in Cmd : verdict[c] = "ack" => c \in log

\* From the first ack on, no redelivery or retry of a command is ever answered
\* with a nack.
AckIsFinal == [][\A c \in Cmd : verdict[c] = "ack" => verdict'[c] = "ack"]_allVars

\* A nack says that the command did nothing, even when a first delivery died
\* with the process after its commit and a second one is being answered.
NackMeansNotApplied ==
    [][\A c \in Cmd :
        replies' = Append(replies, [cmd |-> c, verdict |-> "nack"]) => c \notin log']_allVars

\* The re-parent's channel is "a proper prefix of every moved node's OLD
\* alias", so every affected listener is bound to it.
ChannelCoversMoved ==
    [][nodes' # nodes /\ pc = "rewriting" =>
        \A i \in DOMAIN nodes : nodes'[i].alias # nodes[i].alias =>
            /\ in_subtree(nodes[i].alias, Channel(cmd))
            /\ nodes[i].alias # Channel(cmd)]_allVars

\* The command's handler is about to leave by an exception.
Escaped(c) == cpc = "answered" /\ cur.body = c /\ result.verdict = "escaped"

\* "A refusal is an ANSWER": every command that is sent until it is answered
\* gets its verdict, though the process dies, deliveries are lost or repeated
\* and replies are lost, except one whose own handling escapes: that one is
\* never replied to, and it takes no other command's verdict with it.
EveryCommandAnswered == \A c \in Cmd : <>(verdict[c] # "none" \/ Escaped(c))

\* Change broadcasts may be missed and are lost with the process, yet every
\* GNode's listener ends up knowing its node's alias, one that joins late
\* included: the snapshots repair it.
ListenersLearn == <>[](\A i \in DOMAIN known : known[i] = nodes[i].alias)
=============================================================================
