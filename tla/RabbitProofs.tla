---------------------------- MODULE RabbitProofs -----------------------------
(***************************************************************************)
(* Proofs about GnrRabbit: the lock, the verdicts and the snapshots, for   *)
(* every set of commands, seeds and bounds, and any interleaving of the    *)
(* threads with crashes, retries and lost messages.                        *)
(***************************************************************************)
EXTENDS GnrRabbit, RegistryProofs, FiniteSetTheorems, SequenceTheorems

-----------------------------------------------------------------------------
(* The inductive invariant *)

\* Where the consumer is, and what it is working on.
ConsumerInv ==
    /\ cur \in {NULL} \cup Delivery
    /\ cpc # "waiting" => cur.body \in Cmd

\* Only proven commands are in the log, and the command of an open transaction
\* is the one in hand, proven and not yet logged.
LogInv ==
    /\ \A c \in log : check_proof(c)
    /\ pc = "rewriting" => cmd = cur.body /\ check_proof(cmd) /\ cmd \notin log

\* What the handler's outcome says about the log, until the reply is out.
OutcomeInv ==
    /\ cpc = "answered" =>
        /\ result.verdict \in {"applied", "replayed"} => cur.body \in log
        /\ result.verdict = "refused" => cur.body \notin log
    /\ cpc = "published" => cur.body \in log

\* Verdicts on their way and verdicts received: an ack is of a logged command,
\* and after it comes no nack of the same command.
RepliesInv ==
    /\ replies \in Seq([cmd : Cmd, verdict : {"ack", "nack"}])
    /\ verdict \in [Cmd -> {"none", "ack", "nack"}]
    /\ \A k \in DOMAIN replies : replies[k].verdict = "ack" => replies[k].cmd \in log
    /\ \A c \in Cmd : verdict[c] = "ack" => c \in log
    /\ \A j, k \in DOMAIN replies :
        j < k /\ replies[j].cmd = replies[k].cmd /\ replies[j].verdict = "ack"
            => replies[k].verdict = "ack"
    /\ \A k \in DOMAIN replies :
        verdict[replies[k].cmd] = "ack" => replies[k].verdict = "ack"

RInv ==
    /\ ConsumerInv
    /\ LogInv
    /\ OutcomeInv
    /\ LockDiscipline
    /\ RepliesInv
    /\ SnapshotCurrent

-----------------------------------------------------------------------------
(* The call into the registry *)

\* Whatever the handler does, it adds at most the command in hand to the log,
\* and its outcome tells whether the command is there.
LEMMA ApplyOutcome ==
    ASSUME RInv, Apply
    PROVE  /\ cpc \in {"locked", "inTransaction"}
           /\ log' = log \/ log' = log \cup {cur.body}
           /\ \A c \in log' : check_proof(c)
           /\ pc' \in {"idle", "rewriting"}
           /\ pc' = "idle" =>
                /\ result'.verdict \in {"applied", "replayed"} => cur.body \in log'
                /\ result'.verdict = "refused" => cur.body \notin log'
           /\ pc' = "rewriting" => cmd' = cur.body /\ check_proof(cmd') /\ cmd' \notin log'
<1> DEFINE c == cur.body
<1>1. /\ \A d \in log : check_proof(d)
      /\ pc = "rewriting" => cmd = c /\ check_proof(c) /\ c \notin log
  BY DEF RInv, LogInv
<1>2. CASE cpc = "locked" /\ (apply_create(c) \/ apply_reparent(c))
  <2>1. CASE RefuseCreate(c) \/ RefuseReparent(c)
    BY <1>1, <1>2, <2>1 DEF RefuseCreate, RefuseReparent, End, tables, txn, Logged
  <2>2. CASE CommitCreate(c)
    BY <1>1, <1>2, <2>2 DEF CommitCreate, End, tables, txn, Logged
  <2>3. CASE Replay(c)
    BY <1>1, <1>2, <2>3 DEF Replay, End, tables, txn, Logged
  <2>4. CASE FailReparent(c)
    BY <1>1, <1>2, <2>4 DEF FailReparent, End, tables, txn, Logged
  <2>5. CASE BeginReparent(c)
    BY <1>1, <1>2, <2>5 DEF BeginReparent, tables, Logged
  <2> QED
    BY <1>2, <2>1, <2>2, <2>3, <2>4, <2>5 DEF apply_create, apply_reparent
<1>3. CASE cpc = "inTransaction" /\ RewriteChild
  BY <1>1, <1>3 DEF RewriteChild, Rollback, Close, End, tables
<1>4. CASE cpc = "inTransaction" /\ CommitReparent
  BY <1>1, <1>4 DEF CommitReparent, Rollback, Close, End, tables
<1> QED
  BY <1>2, <1>3, <1>4 DEF Apply

-----------------------------------------------------------------------------
(* Every step keeps the invariant *)

\* A step that leaves the registry alone keeps what is said of its log, if the
\* delivery in hand stays in hand while a transaction is open.
LEMMA LogKept ==
    ASSUME LogInv, UNCHANGED vars, pc = "rewriting" => cur' = cur
    PROVE  LogInv'
BY DEF LogInv, vars, check_proof

\* A step that forgets no command and sends and hears no verdict keeps every
\* promise.
LEMMA RepliesKept ==
    ASSUME RepliesInv, log \subseteq log', UNCHANGED <<replies, verdict>>
    PROVE  RepliesInv'
BY DEF RepliesInv

\* So does a verdict that says what the log says.
LEMMA ReplyQueued ==
    ASSUME RepliesInv, UNCHANGED <<log, verdict>>, NEW c \in Cmd, NEW v \in {"ack", "nack"},
           v = "ack" <=> c \in log,
           replies' = Append(replies, [cmd |-> c, verdict |-> v])
    PROVE  RepliesInv'
<1> DEFINE S == [cmd : Cmd, verdict : {"ack", "nack"}]
           m == [cmd |-> c, verdict |-> v]
<1>1. replies \in Seq(S) /\ m \in S
  BY DEF RepliesInv
<1> HIDE DEF S
<1>2. /\ replies' \in Seq(S)
      /\ DOMAIN replies' = 1..(Len(replies) + 1) /\ DOMAIN replies = 1..Len(replies)
      /\ Len(replies) \in Nat
      /\ \A k \in 1..Len(replies) : replies'[k] = replies[k]
      /\ replies'[Len(replies) + 1] = m
  BY <1>1
<1>3. m.cmd = c /\ m.verdict = v
  OBVIOUS
<1> HIDE DEF m
<1>4. \A k \in DOMAIN replies' : k \in DOMAIN replies \/ (k = Len(replies) + 1 /\ replies'[k] = m)
  BY <1>2
<1>5. \A k \in DOMAIN replies' : replies'[k].verdict = "ack" => replies'[k].cmd \in log
  BY <1>2, <1>3, <1>4 DEF RepliesInv
<1>6. ASSUME NEW j \in DOMAIN replies', NEW k \in DOMAIN replies', j < k,
             replies'[j].cmd = replies'[k].cmd, replies'[j].verdict = "ack"
      PROVE  replies'[k].verdict = "ack"
  <2>1. j \in DOMAIN replies /\ replies'[j] = replies[j]
    BY <1>2, <1>4, <1>6
  <2>2. CASE k \in DOMAIN replies
    BY <1>2, <1>6, <2>1, <2>2 DEF RepliesInv
  <2>3. CASE replies'[k] = m
    BY <1>3, <1>6, <2>1, <2>3 DEF RepliesInv
  <2> QED
    BY <1>4, <2>2, <2>3
<1>7. \A k \in DOMAIN replies' :
        verdict[replies'[k].cmd] = "ack" => replies'[k].verdict = "ack"
  BY <1>2, <1>3, <1>4 DEF RepliesInv
<1> QED
  BY <1>2, <1>5, <1>6, <1>7 DEF RepliesInv, S

\* A verdict that leaves the queue was the oldest one of its command.
LEMMA ReplyTaken ==
    ASSUME RepliesInv, log' = log, HearReply \/ LoseReply
    PROVE  RepliesInv'
<1> DEFINE S == [cmd : Cmd, verdict : {"ack", "nack"}]
<1>1. replies \in Seq(S) /\ replies # <<>> /\ replies' = Tail(replies)
  BY DEF RepliesInv, HearReply, LoseReply
<1>2. \A m \in S : m.cmd \in Cmd /\ m.verdict \in {"ack", "nack"}
  OBVIOUS
<1> HIDE DEF S
<1>3. /\ replies' \in Seq(S)
      /\ Len(replies) \in Nat \ {0}
      /\ DOMAIN replies = 1..Len(replies) /\ DOMAIN replies' = 1..(Len(replies) - 1)
      /\ \A k \in DOMAIN replies' : replies'[k] = replies[k + 1]
      /\ Head(replies) = replies[1] /\ replies[1] \in S
      /\ \A k \in DOMAIN replies' : replies'[k] \in S
  BY <1>1
<1>4. \A k \in DOMAIN replies' : k + 1 \in DOMAIN replies /\ 1 < k + 1
  BY <1>3
<1>5. \A k \in DOMAIN replies' : replies'[k].verdict = "ack" => replies'[k].cmd \in log
  BY <1>3, <1>4 DEF RepliesInv
<1>6. ASSUME NEW j \in DOMAIN replies', NEW k \in DOMAIN replies', j < k,
             replies'[j].cmd = replies'[k].cmd, replies'[j].verdict = "ack"
      PROVE  replies'[k].verdict = "ack"
  <2>1. j + 1 < k + 1
    BY <1>3, <1>6
  <2> QED
    BY <1>3, <1>4, <1>6, <2>1 DEF RepliesInv
<1>7. CASE LoseReply
  <2>1. verdict' = verdict
    BY <1>7 DEF LoseReply
  <2>2. \A k \in DOMAIN replies' :
            verdict'[replies'[k].cmd] = "ack" => replies'[k].verdict = "ack"
    BY <1>3, <1>4, <2>1 DEF RepliesInv
  <2> QED
    BY <1>3, <1>5, <1>6, <2>1, <2>2 DEF RepliesInv, S
<1>8. CASE HearReply
  <2>1. /\ verdict \in [Cmd -> {"none", "ack", "nack"}]
        /\ verdict' = [verdict EXCEPT ![Head(replies).cmd] = Head(replies).verdict]
    BY <1>8 DEF HearReply, RepliesInv
  <2>2. /\ verdict' \in [Cmd -> {"none", "ack", "nack"}]
        /\ \A c \in Cmd : verdict'[c] = "ack" => verdict[c] = "ack"
                \/ (c = replies[1].cmd /\ replies[1].verdict = "ack")
    BY <1>2, <1>3, <2>1
  <2>3. \A c \in Cmd : verdict'[c] = "ack" => c \in log
    BY <1>3, <2>2 DEF RepliesInv
  <2>4. ASSUME NEW k \in DOMAIN replies', verdict'[replies'[k].cmd] = "ack"
        PROVE  replies'[k].verdict = "ack"
    <3>1. replies'[k] = replies[k + 1] /\ k + 1 \in DOMAIN replies /\ 1 < k + 1 /\ 1 \in DOMAIN replies
      BY <1>3, <1>4
    <3>2. replies'[k].cmd \in Cmd
      BY <1>2, <1>3, <2>4
    <3>3. \/ verdict[replies[k + 1].cmd] = "ack"
          \/ replies[1].cmd = replies[k + 1].cmd /\ replies[1].verdict = "ack"
      BY <2>2, <2>4, <3>1, <3>2
    <3> QED
      BY <3>1, <3>3 DEF RepliesInv
  <2> QED
    BY <1>3, <1>5, <1>6, <2>2, <2>3, <2>4 DEF RepliesInv, S
<1> QED
  BY <1>7, <1>8

\* A snapshot stays current while the registry stands still.
LEMMA SnapshotKept ==
    ASSUME SnapshotCurrent, UNCHANGED <<vars, snap>>, spc' = "read" => spc = "read"
    PROVE  SnapshotCurrent'
BY DEF SnapshotCurrent, vars, get_forest

\* The invariant holds when the process first starts.
LEMMA RabbitInitInv == RabbitInit => RInv
<1> SUFFICES ASSUME RabbitInit PROVE RInv
  OBVIOUS
<1> QED
  BY NullAssumption DEF RabbitInit, Init, RInv, ConsumerInv, LogInv, OutcomeInv, LockDiscipline,
     RepliesInv, SnapshotCurrent

\* What the steps outside the registry leave alone.
LEMMA QuietInv ==
    ASSUME RInv, UNCHANGED <<vars, consumer, replies, verdict>>,
           UNCHANGED <<lock, snapshots>>
    PROVE  RInv'
<1> USE DEF consumer, snapshots
<1>1. LogInv' /\ SnapshotCurrent' /\ RepliesInv'
  BY LogKept, SnapshotKept, RepliesKept DEF RInv, vars
<1>2. ConsumerInv' /\ OutcomeInv' /\ LockDiscipline'
  BY DEF RInv, ConsumerInv, OutcomeInv, LockDiscipline, vars
<1> QED
  BY <1>1, <1>2 DEF RInv

\* The consumer takes its delivery to the handler.
LEMMA TakeInv ==
    ASSUME RInv, (\E d \in Delivery : process_message(d)) \/ AcquireLock
    PROVE  RInv'
<1> USE DEF snapshots
<1>1. LogInv' /\ SnapshotCurrent' /\ RepliesInv'
  <2>1. pc = "rewriting" => cur' = cur
    BY DEF process_message, Take, AcquireLock, RInv, LockDiscipline
  <2>2. UNCHANGED <<vars, snap, spc, replies, verdict>>
    BY DEF process_message, AcquireLock, outside
  <2> QED
    BY <2>1, <2>2, LogKept, SnapshotKept, RepliesKept DEF RInv, vars
<1>2. ConsumerInv' /\ OutcomeInv' /\ LockDiscipline'
  <2>1. CASE AcquireLock
    BY <2>1, NullAssumption
    DEF AcquireLock, RInv, ConsumerInv, OutcomeInv, LockDiscipline, vars
  <2>2. ASSUME NEW d \in Delivery, process_message(d) PROVE ConsumerInv' /\ OutcomeInv' /\ LockDiscipline'
    BY <2>2, NullAssumption
    DEF process_message, Take, RInv, ConsumerInv, OutcomeInv, LockDiscipline, vars
  <2> QED
    BY <2>1, <2>2
<1> QED
  BY <1>1, <1>2 DEF RInv

\* The call into the registry: the lock keeps the snapshot thread out.
LEMMA ApplyInv ==
    ASSUME RInv, Apply
    PROVE  RInv'
<1>1. /\ cpc \in {"locked", "inTransaction"}
      /\ cpc' = IF pc' = "idle" THEN "answered" ELSE "inTransaction"
      /\ UNCHANGED <<cur, lock, spc, snap, replies, verdict>>
  BY ApplyOutcome DEF Apply, snapshots, outside
<1>2. lock = "consumer" /\ spc # "read"
  BY <1>1 DEF RInv, LockDiscipline
<1>3. log \subseteq log' /\ pc' \in {"idle", "rewriting"}
  BY ApplyOutcome
<1>4. SnapshotCurrent' /\ RepliesInv'
  BY <1>1, <1>2, <1>3, RepliesKept DEF RInv, SnapshotCurrent
<1>5. ConsumerInv' /\ LockDiscipline'
  BY <1>1, <1>2, <1>3 DEF RInv, ConsumerInv, LockDiscipline
<1>6. LogInv'
  BY <1>1, ApplyOutcome DEF LogInv
<1>7. OutcomeInv'
  BY <1>1, <1>3, ApplyOutcome DEF OutcomeInv
<1> QED
  BY <1>4, <1>5, <1>6, <1>7 DEF RInv

\* The outcome becomes a broadcast and a verdict, or escapes.
LEMMA AnswerInv ==
    ASSUME RInv, broadcast_topology \/ Reply \/ EscapeHandler
    PROVE  RInv'
<1> USE DEF snapshots
<1>1. UNCHANGED <<vars, spc, snap, verdict>>
  BY DEF broadcast_topology, Reply, EscapeHandler, outside
<1>2. cpc \in {"answered", "published"} /\ pc # "rewriting" /\ spc \notin {"locked", "read"}
  BY DEF broadcast_topology, Reply, EscapeHandler, RInv, LockDiscipline
<1>3. LogInv' /\ SnapshotCurrent'
  BY <1>1, <1>2, LogKept, SnapshotKept DEF RInv
<1>4. CASE broadcast_topology
  <2>1. RepliesInv'
    BY <1>1, <1>4, RepliesKept DEF broadcast_topology, RInv, vars
  <2>2. ConsumerInv' /\ OutcomeInv' /\ LockDiscipline'
    BY <1>4 DEF broadcast_topology, RInv, ConsumerInv, OutcomeInv, LockDiscipline, vars
  <2> QED
    BY <1>3, <2>1, <2>2 DEF RInv
<1>5. CASE Reply
  <2>1. /\ cpc = "published" => cur.body \in log
        /\ cpc = "answered" /\ result.verdict = "refused" => cur.body \notin log
        /\ cur.body \in Cmd
    BY <1>2 DEF RInv, OutcomeInv, ConsumerInv
  <2>2. UNCHANGED <<log, verdict>>
    BY <1>1 DEF vars
  <2>3. RepliesInv'
    <3>1. CASE UNCHANGED replies
      BY <2>2, <3>1, RepliesKept DEF RInv
    <3>2. ASSUME NEW v \in {"ack", "nack"}, v = "ack" <=> cur.body \in log,
                 replies' = Append(replies, [cmd |-> cur.body, verdict |-> v])
          PROVE  RepliesInv'
      BY <2>1, <2>2, <3>2, ReplyQueued DEF RInv
    <3> QED
      BY <1>5, <2>1, <3>1, <3>2 DEF Reply, reply
  <2>4. ConsumerInv' /\ OutcomeInv' /\ LockDiscipline'
    BY <1>2, <1>5, NullAssumption
    DEF Reply, reply, Release, RInv, ConsumerInv, OutcomeInv, LockDiscipline, vars
  <2> QED
    BY <1>3, <2>3, <2>4 DEF RInv
<1>6. CASE EscapeHandler
  <2>1. RepliesInv'
    BY <1>1, <1>6, RepliesKept DEF EscapeHandler, RInv, vars
  <2>2. ConsumerInv' /\ OutcomeInv' /\ LockDiscipline'
    BY <1>2, <1>6, NullAssumption
    DEF EscapeHandler, Release, RInv, ConsumerInv, OutcomeInv, LockDiscipline, vars
  <2> QED
    BY <1>3, <2>1, <2>2 DEF RInv
<1> QED
  BY <1>4, <1>5, <1>6

\* A tick of the snapshot thread: it reads and publishes while it has the lock.
LEMMA SnapshotInv ==
    ASSUME RInv, Snapshot
    PROVE  RInv'
<1> USE DEF consumer
<1>1. UNCHANGED <<vars, consumer, replies, verdict>>
  BY DEF outside, Snapshot, run_snapshots, SnapshotLock, SnapshotRead, broadcast_snapshot
<1>2. LogInv' /\ RepliesInv'
  BY <1>1, LogKept, RepliesKept DEF RInv, vars
<1>3. ConsumerInv' /\ OutcomeInv'
  BY <1>1 DEF RInv, ConsumerInv, OutcomeInv, vars
<1>4. CASE run_snapshots
  <2>1. SnapshotCurrent'
    BY <1>4, SnapshotKept DEF RInv, run_snapshots
  <2>2. LockDiscipline'
    BY <1>1, <1>4 DEF run_snapshots, RInv, LockDiscipline, vars
  <2> QED
    BY <1>2, <1>3, <2>1, <2>2 DEF RInv
<1>5. CASE SnapshotLock
  <2>1. SnapshotCurrent'
    BY <1>5, SnapshotKept DEF RInv, SnapshotLock
  <2>2. LockDiscipline'
    BY <1>1, <1>5, NullAssumption DEF SnapshotLock, RInv, LockDiscipline, vars
  <2> QED
    BY <1>2, <1>3, <2>1, <2>2 DEF RInv
<1>6. ASSUME NEW root \in sroots, SnapshotRead(root) PROVE RInv'
  <2>1. SnapshotCurrent'
    BY <1>1, <1>6 DEF SnapshotRead, SnapshotCurrent, get_forest, vars
  <2>2. LockDiscipline'
    BY <1>1, <1>6 DEF SnapshotRead, RInv, LockDiscipline, vars
  <2> QED
    BY <1>2, <1>3, <2>1, <2>2 DEF RInv
<1>7. CASE broadcast_snapshot
  <2>1. spc' # "read" /\ spc' # "locked" /\ lock' = NULL /\ spc = "read"
    BY <1>7 DEF broadcast_snapshot
  <2>2. SnapshotCurrent'
    BY <2>1 DEF SnapshotCurrent
  <2>3. LockDiscipline'
    BY <1>1, <2>1, NullAssumption DEF RInv, LockDiscipline, vars
  <2> QED
    BY <1>2, <1>3, <2>2, <2>3 DEF RInv
<1> QED
  BY <1>4, <1>5, <1>6, <1>7 DEF Snapshot

\* The restarted process holds no lock, no delivery and no transaction.
LEMMA CrashInv ==
    ASSUME RInv, Crash
    PROVE  RInv'
<1>1. /\ UNCHANGED <<tables, verdict>> /\ replies' = <<>>
      /\ pc' = "idle" /\ cpc' = "waiting" /\ cur' = NULL /\ lock' = NULL /\ spc' = "sleeping"
  BY DEF Crash, Close, Release
<1>2. LogInv' /\ RepliesInv'
  BY <1>1 DEF RInv, RepliesInv, LogInv, tables, check_proof
<1>3. ConsumerInv' /\ OutcomeInv' /\ SnapshotCurrent'
  BY <1>1 DEF RInv, ConsumerInv, OutcomeInv, SnapshotCurrent
<1>4. LockDiscipline'
  BY <1>1, NullAssumption DEF LockDiscipline
<1> QED
  BY <1>2, <1>3, <1>4 DEF RInv

\* The adapter's invariant is inductive.
LEMMA RabbitNextInv == RInv /\ [RabbitNext]_allVars => RInv'
<1> SUFFICES ASSUME RInv, [RabbitNext]_allVars PROVE RInv'
  OBVIOUS
<1>1. ASSUME NEW d \in Delivery, IgnoreOther(d) \/ FailDecode(d) \/ Send(d) PROVE RInv'
  BY <1>1, QuietInv DEF IgnoreOther, FailDecode, Send, outside
<1>2. CASE (\E d \in Delivery : process_message(d)) \/ AcquireLock
  BY <1>2, TakeInv
<1>3. CASE Apply
  BY <1>3, ApplyInv
<1>4. CASE broadcast_topology \/ Reply \/ EscapeHandler
  BY <1>4, AnswerInv
<1>5. CASE Snapshot
  BY <1>5, SnapshotInv
<1>6. ASSUME NEW channel \in Channels, NEW heard \in SUBSET Audience(channel),
             Deliver(channel, heard)
      PROVE  RInv'
  BY <1>6, QuietInv DEF Deliver
<1>7. CASE Reconnect
  BY <1>7, QuietInv DEF Reconnect, outside
<1>8. CASE Crash
  BY <1>8, CrashInv
<1>9. ASSUME NEW c \in Joiners, Join(c) PROVE RInv'
  BY <1>9, QuietInv DEF Join
<1>10. CASE HearReply \/ LoseReply
  <2>1. UNCHANGED <<vars, consumer, lock, snapshots>>
    BY <1>10 DEF HearReply, LoseReply
  <2>2. RepliesInv'
    BY <1>10, <2>1, ReplyTaken DEF RInv, vars
  <2>3. LogInv' /\ SnapshotCurrent'
    BY <2>1, LogKept, SnapshotKept DEF RInv, consumer, snapshots
  <2>4. ConsumerInv' /\ OutcomeInv' /\ LockDiscipline'
    BY <2>1 DEF RInv, ConsumerInv, OutcomeInv, LockDiscipline, vars, consumer, snapshots
  <2> QED
    BY <2>2, <2>3, <2>4 DEF RInv
<1>11. CASE UNCHANGED allVars
  BY <1>11, QuietInv DEF allVars, rabbit, consumer, snapshots
<1> QED
  BY <1>1, <1>2, <1>3, <1>4, <1>5, <1>6, <1>7, <1>8, <1>9, <1>10, <1>11 DEF RabbitNext, Consume

\* The adapter's invariant holds throughout.
THEOREM RabbitInvariance == RabbitSpec => []RInv
<1> QED
  BY RabbitInitInv, RabbitNextInv, PTL DEF RabbitSpec

-----------------------------------------------------------------------------
(* What it says *)

\* forest_lock is held exactly inside the two read-then-broadcast sections.
THEOREM LockIsHeldInSections == RabbitSpec => []LockDiscipline
<1>1. RInv => LockDiscipline
  BY DEF RInv
<1> QED
  BY <1>1, RabbitInvariance, PTL

\* Whoever is told "ack" finds the command in the log, whatever crashes.
THEOREM AckIsDurable == RabbitSpec => []AckMeansLogged
<1>1. RInv => AckMeansLogged
  BY DEF RInv, RepliesInv, AckMeansLogged
<1> QED
  BY <1>1, RabbitInvariance, PTL

\* The forest a snapshot publishes is the committed one.
THEOREM SnapshotsAreCurrent == RabbitSpec => []SnapshotCurrent
<1>1. RInv => SnapshotCurrent
  BY DEF RInv
<1> QED
  BY <1>1, RabbitInvariance, PTL

\* A verdict is heard in the order it was sent, and none that follows an ack of
\* the same command is a nack: an ack is never taken back.
THEOREM AcksAreFinal == RabbitSpec => AckIsFinal
<1>1. ASSUME RInv, [RabbitNext]_allVars
      PROVE  [\A c \in Cmd : verdict[c] = "ack" => verdict'[c] = "ack"]_allVars
  <2>1. CASE UNCHANGED verdict
    BY <2>1
  <2>2. CASE HearReply
    <3>1. replies # <<>> /\ replies \in Seq([cmd : Cmd, verdict : {"ack", "nack"}])
      BY <1>1, <2>2 DEF HearReply, RInv, RepliesInv
    <3>2. Head(replies) = replies[1] /\ 1 \in DOMAIN replies
      BY <3>1
    <3>3. verdict[Head(replies).cmd] = "ack" => Head(replies).verdict = "ack"
      BY <1>1, <3>2 DEF RInv, RepliesInv
    <3> QED
      BY <1>1, <2>2, <3>3 DEF HearReply, RInv, RepliesInv
  <2>3. HearReply \/ UNCHANGED verdict
    BY <1>1 DEF RabbitNext, Consume, IgnoreOther, process_message, FailDecode, AcquireLock, Apply,
       broadcast_topology, Reply, EscapeHandler, Snapshot, run_snapshots, SnapshotLock, SnapshotRead,
       broadcast_snapshot, Send, Join, Deliver, LoseReply, Reconnect, Crash, allVars, rabbit, outside
  <2> QED
    BY <2>1, <2>2, <2>3
<1> QED
  BY <1>1, RabbitInvariance, PTL DEF RabbitSpec, AckIsFinal

\* A verdict can only join the queue at its end, and only by Reply.
LEMMA OnlyReplyQueues ==
    ASSUME RInv, [RabbitNext]_allVars, NEW m, replies' = Append(replies, m)
    PROVE  Reply
<1>1. replies \in Seq([cmd : Cmd, verdict : {"ack", "nack"}])
  BY DEF RInv, RepliesInv
<1>2. Len(replies') = Len(replies) + 1 /\ Len(replies) \in Nat
  BY <1>1
<1>3. replies' # replies /\ replies' # <<>>
  BY <1>2
<1>4. ~HearReply /\ ~LoseReply
  <2>1. replies # <<>> => Len(Tail(replies)) = Len(replies) - 1
    BY <1>1
  <2> QED
    BY <1>2, <2>1 DEF HearReply, LoseReply
<1>5. Reply \/ HearReply \/ LoseReply \/ replies' = <<>> \/ UNCHANGED replies
  BY DEF RabbitNext, Consume, IgnoreOther, process_message, FailDecode, AcquireLock, Apply,
     broadcast_topology, EscapeHandler, Snapshot, run_snapshots, SnapshotLock, SnapshotRead,
     broadcast_snapshot, Send, Join, Deliver, Reconnect, Crash, allVars, rabbit
<1> QED
  BY <1>3, <1>4, <1>5

\* A nack is only sent for a command that has changed nothing.
THEOREM NacksChangeNothing == RabbitSpec => NackMeansNotApplied
<1>1. ASSUME RInv, [RabbitNext]_allVars
      PROVE  [\A c \in Cmd :
                replies' = Append(replies, [cmd |-> c, verdict |-> "nack"]) => c \notin log']_allVars
  <2>1. SUFFICES ASSUME NEW c \in Cmd, replies' = Append(replies, [cmd |-> c, verdict |-> "nack"])
                 PROVE  c \notin log'
    OBVIOUS
  <2>2. Reply
    BY <1>1, <2>1, OnlyReplyQueues
  <2>3. replies \in Seq([cmd : Cmd, verdict : {"ack", "nack"}])
    BY <1>1 DEF RInv, RepliesInv
  <2>4. /\ replies'[Len(replies) + 1] = [cmd |-> c, verdict |-> "nack"]
        /\ replies' # replies
    BY <2>1, <2>3
  <2>5. \A v \in {"ack", "nack"} : reply(v) => c = cur.body /\ v = "nack"
    <3>1. SUFFICES ASSUME NEW v \in {"ack", "nack"}, reply(v) PROVE c = cur.body /\ v = "nack"
      OBVIOUS
    <3>2. replies' = Append(replies, [cmd |-> cur.body, verdict |-> v])
      BY <2>4, <3>1 DEF reply
    <3>3. replies'[Len(replies) + 1] = [cmd |-> cur.body, verdict |-> v]
      BY <2>3, <3>2
    <3>4. [cmd |-> cur.body, verdict |-> v] = [cmd |-> c, verdict |-> "nack"]
      BY <2>4, <3>3
    <3> QED
      BY ONLY <3>4
  <2>6. c = cur.body /\ cpc = "answered" /\ result.verdict = "refused" /\ log' = log
    BY <2>2, <2>5 DEF Reply, vars
  <2> QED
    BY <1>1, <2>6 DEF RInv, OutcomeInv
<1> QED
  BY <1>1, RabbitInvariance, PTL DEF RabbitSpec, NackMeansNotApplied

-----------------------------------------------------------------------------
(* The registry inside the process *)

\* A crash leaves the registry as a rolled back transaction does.
LEMMA CrashRegistryInv ==
    ASSUME IInv, Crash
    PROVE  IInv'
<1>1. /\ UNCHANGED <<nodes, ledger, log>>
      /\ pc' = "idle" /\ cmd' = NULL /\ txNodes' = nodes' /\ txLedger' = ledger'
      /\ todo' = <<>> /\ updated' = {}
      /\ result' = NULL
  BY DEF Crash, Close, tables
<1>2. TypeOK'
  BY <1>1 DEF IInv, SoundInv, TypeOK
<1>3. LedgerCoversLive' /\ LogAccountsForNodes' /\ RowsDecode' /\ ValidateClean'
  BY <1>1 DEF IInv, SoundInv, LedgerCoversLive, LogAccountsForNodes, RowsDecode, ValidateClean
<1>4. CreateAnswered' /\ pc' # "rewriting"
  BY <1>1 DEF CreateAnswered
<1> QED
  BY <1>2, <1>3, <1>4 DEF IInv, SoundInv

\* Seen from the registry, the process takes registry steps and dies.
LEMMA RegistrySteps ==
    ASSUME [RabbitNext]_allVars
    PROVE  [Next]_vars \/ Crash
<1>1. CASE Apply
  BY <1>1 DEF Apply, Next
<1>2. CASE UNCHANGED allVars
  BY <1>2 DEF allVars
<1>3. Crash \/ Apply \/ UNCHANGED allVars \/ UNCHANGED vars
  BY DEF RabbitNext, Consume, IgnoreOther, process_message, FailDecode, AcquireLock,
     broadcast_topology, Reply, EscapeHandler, Snapshot, run_snapshots, SnapshotLock,
     SnapshotRead, broadcast_snapshot, Send, Join, Deliver, HearReply, LoseReply, Reconnect
<1> QED
  BY <1>1, <1>2, <1>3

\* The registry's invariants survive the process that runs it.
THEOREM RegistryCarried == RabbitSpec => []IInv
<1>1. RabbitInit => IInv
  BY InitInv DEF RabbitInit
<1>2. IInv /\ [RabbitNext]_allVars => IInv'
  BY NextInv, RegistrySteps, CrashRegistryInv
<1> QED
  BY <1>1, <1>2, PTL DEF RabbitSpec

\* With threads, crashes, retries and redeliveries around it, what the process
\* commits still follows the alias authority.
THEOREM RabbitRefinement == RabbitSpec => ImplementsAliasAuthority
<1> DEFINE live == [i \in DOMAIN nodes |-> nodes[i].alias]
<1>1. IInv => Authority!Init
  BY DEF IInv, SoundInv, LedgerCoversLive, CoversLive, Authority!Init, Authority!Owned
<1>2. IInv /\ IInv' /\ [RabbitNext]_allVars => [Authority!Assign]_<<ledger, live>>
  <2> SUFFICES ASSUME IInv, IInv', [RabbitNext]_allVars PROVE Authority!Assign
    OBVIOUS
  <2>1. Extends(ledger', ledger) /\ DOMAIN nodes \subseteq DOMAIN nodes'
    <3>1. CASE [Next]_vars
      BY <3>1, StepKeeps
    <3>2. CASE Crash
      BY <3>2 DEF Crash, tables, Extends
    <3> QED
      BY <3>1, <3>2, RegistrySteps
  <2>2. Authority!Owned(live', ledger')
    BY DEF IInv, SoundInv, LedgerCoversLive, CoversLive, Authority!Owned
  <2> QED
    BY <2>1, <2>2 DEF Authority!Assign, Extends
<1> QED
  BY <1>1, <1>2, RegistryCarried, PTL DEF RabbitSpec, ImplementsAliasAuthority, Authority!Spec

-----------------------------------------------------------------------------
(* The order of the broadcasts *)

IsSequence(s) == s \in Seq({s[k] : k \in DOMAIN s})

\* Dropping the oldest leaves a sequence of the others, in their order.
LEMMA TailFacts ==
    ASSUME NEW s, IsSequence(s), s # <<>>
    PROVE  /\ IsSequence(Tail(s))
           /\ \A k \in DOMAIN Tail(s) : k \in Nat /\ k + 1 \in DOMAIN s /\ Tail(s)[k] = s[k + 1]
<1> DEFINE t == Tail(s)
<1>1. PICK S : s \in Seq(S)
  BY DEF IsSequence
<1>2. t \in Seq(S) /\ DOMAIN t = 1..Len(t) /\ Len(t) \in Nat
  BY <1>1
<1>3. ASSUME NEW T, \A k \in 1..Len(t) : t[k] \in T
      PROVE  t \in Seq(T)
  <2>1. t \in [1..Len(t) -> S]
    BY <1>2, LenProperties
  <2>2. t \in [1..Len(t) -> T]
    BY <1>3, <2>1
  <2> QED
    <3> HIDE DEF t
    <3>1. PICK n \in Nat : n = Len(t)
      BY ONLY <1>2
    <3>2. t \in [1..n -> T]
      BY ONLY <2>2, <3>1
    <3>3. [1..n -> T] \in {[1..j -> T] : j \in Nat}
      BY ONLY n \in Nat
    <3> QED
      BY ONLY <3>2, <3>3, SeqDef, Zenon
<1>4. IsSequence(t)
  <2>1. \A k \in 1..Len(t) : t[k] \in {t[j] : j \in DOMAIN t}
    BY <1>2
  <2> QED
    BY <1>3, <2>1 DEF IsSequence
<1>5. \A k \in DOMAIN t : k \in Nat /\ k + 1 \in DOMAIN s /\ t[k] = s[k + 1]
  BY <1>1
<1> QED
  BY <1>4, <1>5

\* What is under way was read no later than now, and in its order.
WireInv ==
    /\ IsFiniteSet(log)
    /\ IsSequence(wire)
    /\ \A k \in DOMAIN wire : wire[k].shows \in Nat /\ wire[k].shows <= Cardinality(log)
    /\ WireInOrder

\* An element more keeps a set finite and makes it no smaller.
LEMMA GrownCardinality ==
    ASSUME NEW old, NEW new, NEW c, IsFiniteSet(old), new = old \/ new = old \cup {c}
    PROVE  /\ IsFiniteSet(new)
           /\ Cardinality(old) \in Nat /\ Cardinality(new) \in Nat
           /\ Cardinality(old) <= Cardinality(new)
<1>1. Cardinality(old) \in Nat
  BY FS_CardinalityType
<1>2. CASE new = old
  BY <1>1, <1>2
<1>3. CASE new = old \cup {c}
  <2>1. /\ IsFiniteSet(old \cup {c})
        /\ Cardinality(old \cup {c}) = IF c \in old THEN Cardinality(old) ELSE Cardinality(old) + 1
    BY FS_AddElement
  <2>2. Cardinality(old \cup {c}) \in Nat /\ Cardinality(old) <= Cardinality(old \cup {c})
    BY <1>1, <2>1
  <2> QED
    BY <1>1, <1>3, <2>1, <2>2
<1> QED
  BY <1>2, <1>3

\* While no publish is added, the log may grow and the oldest publish leave.
LEMMA WireKept ==
    ASSUME WireInv, NEW c, log' = log \/ log' = log \cup {c},
           \/ wire' = wire
           \/ wire # <<>> /\ wire' = Tail(wire)
           \/ wire' = <<>>
    PROVE  WireInv'
<1>1. /\ IsFiniteSet(log')
      /\ Cardinality(log) \in Nat /\ Cardinality(log') \in Nat
      /\ Cardinality(log) <= Cardinality(log')
  BY GrownCardinality DEF WireInv
<1>2. CASE wire' = wire
  <2>1. \A k \in DOMAIN wire' : wire'[k].shows \in Nat /\ wire'[k].shows <= Cardinality(log')
    BY <1>1, <1>2 DEF WireInv
  <2>2. IsSequence(wire') /\ WireInOrder'
    BY <1>2 DEF WireInv, WireInOrder
  <2> QED
    BY <1>1, <2>1, <2>2 DEF WireInv
<1>3. CASE wire # <<>> /\ wire' = Tail(wire)
  <2>1. /\ IsSequence(wire')
        /\ \A k \in DOMAIN wire' : k \in Nat /\ k + 1 \in DOMAIN wire /\ wire'[k] = wire[k + 1]
    BY <1>3, TailFacts DEF WireInv
  <2>2. \A k \in DOMAIN wire' : wire'[k].shows \in Nat /\ wire'[k].shows <= Cardinality(log')
    BY <1>1, <2>1 DEF WireInv
  <2>3. ASSUME NEW j \in DOMAIN wire', NEW k \in DOMAIN wire', j < k
        PROVE  wire'[j].shows <= wire'[k].shows
    <3>1. j + 1 < k + 1
      BY <2>1, <2>3
    <3> QED
      BY <2>1, <3>1 DEF WireInv, WireInOrder
  <2> QED
    BY <1>1, <2>1, <2>2, <2>3 DEF WireInv, WireInOrder
<1>4. CASE wire' = <<>>
  BY <1>1, <1>4 DEF WireInv, WireInOrder, IsSequence
<1> QED
  BY <1>2, <1>3, <1>4

\* A publish shows the registry as it is: it is at least as new as the others.
LEMMA PublishInv ==
    ASSUME WireInv, log' = log, NEW channel, NEW forest, Publish(channel, forest, Cardinality(log))
    PROVE  WireInv'
<1> DEFINE p == [channel |-> channel, nodes |-> forest.nodes, shows |-> Cardinality(log)]
<1>1. Cardinality(log) \in Nat
  BY FS_CardinalityType DEF WireInv
<1>2. /\ Len(wire) \in Nat /\ DOMAIN wire = 1..Len(wire)
      /\ DOMAIN wire' = 1..(Len(wire) + 1)
      /\ wire'[Len(wire) + 1] = p
      /\ \A k \in DOMAIN wire : wire'[k] = wire[k]
  BY DEF WireInv, IsSequence, Publish
<1>3. IsSequence(wire')
  BY <1>2 DEF WireInv, IsSequence, Publish
<1>4. ASSUME NEW k \in DOMAIN wire'
      PROVE  wire'[k].shows \in Nat /\ wire'[k].shows <= Cardinality(log)
  <2>1. CASE k = Len(wire) + 1
    BY <1>1, <1>2, <2>1
  <2>2. CASE k \in DOMAIN wire
    BY <1>2, <2>2 DEF WireInv
  <2> QED
    BY <1>2, <2>1, <2>2
<1>5. WireInOrder'
  <2> SUFFICES ASSUME NEW j \in DOMAIN wire', NEW k \in DOMAIN wire', j < k
               PROVE  wire'[j].shows <= wire'[k].shows
    BY DEF WireInOrder
  <2>1. CASE k = Len(wire) + 1
    <3>1. wire'[k].shows = Cardinality(log)
      BY <1>2, <2>1
    <3> QED
      BY <1>4, <3>1
  <2>2. CASE k \in DOMAIN wire
    <3>1. j \in DOMAIN wire
      BY <1>2, <2>2
    <3> QED
      BY <1>2, <2>2, <3>1 DEF WireInv, WireInOrder
  <2> QED
    BY <1>2, <2>1, <2>2
<1> QED
  BY <1>3, <1>4, <1>5 DEF WireInv

\* The wire holds publishes in the order of what they show, throughout.
THEOREM WireInvariance == RabbitSpec => []WireInv
<1>1. RabbitInit => WireInv
  BY FS_EmptySet DEF RabbitInit, Init, WireInv, WireInOrder, IsSequence
<1>2. ASSUME RInv, WireInv, [RabbitNext]_allVars PROVE WireInv'
  <2>1. CASE Apply
    <3>1. (log' = log \/ log' = log \cup {cur.body}) /\ wire' = wire
      BY <1>2, <2>1, ApplyOutcome DEF Apply
    <3> QED
      BY <1>2, <3>1, WireKept
  <2>2. CASE broadcast_topology
    BY <1>2, <2>2, PublishInv DEF broadcast_topology, vars
  <2>3. CASE broadcast_snapshot
    <3>1. snap.shows = Cardinality(log)
      BY <1>2, <2>3 DEF broadcast_snapshot, RInv, SnapshotCurrent
    <3> QED
      BY <1>2, <2>3, <3>1, PublishInv DEF broadcast_snapshot, vars
  <2>4. \/ Apply \/ broadcast_topology \/ broadcast_snapshot
        \/ log' = log /\ \/ wire' = wire
                         \/ wire # <<>> /\ wire' = Tail(wire)
                         \/ wire' = <<>>
    BY <1>2 DEF RabbitNext, Consume, IgnoreOther, process_message, FailDecode, AcquireLock,
       Reply, EscapeHandler, Snapshot, run_snapshots, SnapshotLock, SnapshotRead, Send, Deliver,
       Join, HearReply, LoseReply, Reconnect, Crash, allVars, rabbit, vars, tables
  <2> QED
    BY <1>2, <2>1, <2>2, <2>3, <2>4, WireKept
<1> QED
  BY <1>1, <1>2, RabbitInvariance, PTL DEF RabbitSpec

\* Publishes leave in the order of what they show: a snapshot read before a
\* commit is never published after that commit's broadcast.
THEOREM BroadcastsInOrder == RabbitSpec => []WireInOrder
<1>1. WireInv => WireInOrder
  BY DEF WireInv
<1> QED
  BY <1>1, WireInvariance, PTL

-----------------------------------------------------------------------------
(* The types of the adapter's own state *)

Message == [channel : Alias, nodes : SUBSET GNodeGt, shows : Nat]

\* What the type invariant needs besides: an outcome that is broadcast carries
\* a forest, and a snapshot that has been read is one.
AdapterInv ==
    /\ RabbitTypeOK
    /\ cpc = "answered" /\ result.verdict \in {"applied", "replayed"} =>
        result.forest \in GNodeForest
    /\ spc = "read" => snap \in Snap

\* Every command has a channel: the alias of N's parent, or of N itself.
LEMMA ChannelType ==
    ASSUME NEW c \in Cmd
    PROVE  Channel(c) \in Alias
<1> DEFINE a == c.new_node.alias
<1>1. a \in Alias /\ Len(a) >= 2
  BY CmdFacts
<1> HIDE DEF a
<1>2. parent_alias(a) \in Alias
  BY <1>1, ParentFacts
<1> QED
  BY <1>1, <1>2 DEF Channel, a

\* The roots that a tick finds are aliases of committed rows.
LEMMA ReadRoots == IInv => forest_roots \subseteq Alias
BY DEF IInv, SoundInv, TypeOK, forest_roots, NodeTable, GNodeGt

\* A forest that is read is a well-typed message about committed rows.
LEMMA ReadType ==
    ASSUME IInv, NEW root \in Alias
    PROVE  get_forest({root}) \in GNodeForest
<1>1. UNION {Subtree(nodes, r) : r \in {root}} \in SUBSET DOMAIN nodes
  BY DEF Subtree
<1>2. NodeTable(nodes) /\ {root} \in SUBSET Alias
  BY DEF IInv, SoundInv, TypeOK
<1> QED
  BY <1>1, <1>2, ForestType DEF get_forest

\* A publish puts a well-typed message at the end of the wire.
LEMMA PublishType ==
    ASSUME wire \in Seq(Message), NEW channel \in Alias, NEW forest \in GNodeForest,
           NEW shows \in Nat, Publish(channel, forest, shows)
    PROVE  wire' \in Seq(Message)
<1>1. [channel |-> channel, nodes |-> forest.nodes, shows |-> shows] \in Message
  BY DEF Message, GNodeForest
<1> QED
  BY <1>1 DEF Publish

\* A listener learns an alias from a well-typed message.
LEMMA NamesType ==
    ASSUME NEW rows \in SUBSET GNodeGt, NEW i
    PROVE  Names(rows, i) \subseteq Alias
BY DEF Names, GNodeGt

\* The handler that succeeds returns a forest.
LEMMA ApplyType ==
    ASSUME RInv, IInv, Apply, pc' = "idle", result'.verdict \in {"applied", "replayed"}
    PROVE  result'.forest \in GNodeForest
<1> DEFINE c == cur.body
<1>1. cpc = "locked" => c \in Cmd
  BY DEF RInv, ConsumerInv
<1>2. CASE cpc = "locked" /\ (apply_create(c) \/ apply_reparent(c))
  <2>1. c \in Cmd /\ c.new_node \in GNodeGt /\ c.new_node.alias \in Alias
    BY <1>1, <1>2, CmdFacts
  <2>2. CASE CommitCreate(c)
    <3>1. result'.forest = [roots |-> {c.new_node.alias}, nodes |-> {c.new_node}, edges |-> {}]
      BY <2>2 DEF CommitCreate, End
    <3> QED
      BY <2>1, <3>1 DEF GNodeForest
  <2>3. CASE Replay(c)
    <3>1. result'.forest = get_forest({c.new_node.alias})
      BY <2>3 DEF Replay, End
    <3> QED
      BY <2>1, <3>1, ReadType
  <2>4. RefuseCreate(c) \/ RefuseReparent(c) \/ FailReparent(c) =>
            result'.verdict \in {"refused", "escaped"}
    BY DEF RefuseCreate, RefuseReparent, FailReparent, End
  <2>5. ~BeginReparent(c)
    BY DEF BeginReparent
  <2> QED
    BY <1>2, <2>2, <2>3, <2>4, <2>5 DEF apply_create, apply_reparent
<1>3. CASE cpc = "inTransaction" /\ RewriteChild
  BY <1>3 DEF RewriteChild, Rollback, End, RInv, LockDiscipline
<1>4. CASE cpc = "inTransaction" /\ CommitReparent
  <2>1. result'.forest = Forest(txNodes, {cmd.new_node.alias}, updated)
    BY <1>4 DEF CommitReparent, Rollback, End
  <2>2. cmd \in Cmd /\ pc = "rewriting" /\ NodeTable(txNodes) /\ updated \in SUBSET DOMAIN txNodes
    BY <1>4 DEF CommitReparent, IInv, SoundInv, TypeOK, TxInv, Cmd
  <2>3. {cmd.new_node.alias} \in SUBSET Alias
    BY <2>2, CmdFacts
  <2> QED
    BY <2>1, <2>2, <2>3, ForestType
<1> QED
  BY <1>2, <1>3, <1>4 DEF Apply

\* What the consumer does up to its call into the registry.
LEMMA ConsumerTakesType ==
    ASSUME AdapterInv, RInv', NEW d \in Delivery,
           IgnoreOther(d) \/ process_message(d) \/ FailDecode(d) \/ AcquireLock
    PROVE  AdapterInv'
<1> USE DEF AdapterInv, RabbitTypeOK, RInv, ConsumerInv
<1>1. CASE IgnoreOther(d)
  BY <1>1 DEF IgnoreOther, Take, consumer, snapshots, outside, vars
<1>2. CASE process_message(d)
  BY <1>2 DEF process_message, Take, snapshots, outside, vars
<1>3. CASE FailDecode(d)
  BY <1>3 DEF FailDecode, RequeueOrDrop, consumer, snapshots, outside, vars
<1>4. CASE AcquireLock
  BY <1>4 DEF AcquireLock, snapshots, outside, vars
<1> QED
  BY <1>1, <1>2, <1>3, <1>4

\* The call itself: the answer to a success carries a forest.
LEMMA ApplyKeepsType ==
    ASSUME RInv, IInv, AdapterInv, RInv', Apply
    PROVE  AdapterInv'
<1>1. /\ cpc' = IF pc' = "idle" THEN "answered" ELSE "inTransaction"
      /\ UNCHANGED <<inbox, cur, lock, spc, sroots, snap, wire, replies, consuming, verdict, known,
                     sends, faults>>
  BY DEF Apply, snapshots, outside
<1>2. RabbitTypeOK' /\ (spc = "read" => snap \in Snap)'
  BY <1>1 DEF AdapterInv, RabbitTypeOK
<1>3. cpc' = "answered" /\ result'.verdict \in {"applied", "replayed"} =>
        result'.forest \in GNodeForest
  BY <1>1, ApplyType
<1> QED
  BY <1>2, <1>3 DEF AdapterInv

\* The consumer's publish, its replies and its failures.
LEMMA AnswerType ==
    ASSUME RInv, AdapterInv, RInv', Cardinality(log) \in Nat,
           broadcast_topology \/ Reply \/ EscapeHandler
    PROVE  AdapterInv'
<1>1. CASE broadcast_topology
  <2>1. Channel(cur.body) \in Alias /\ result.forest \in GNodeForest
    BY <1>1, ChannelType DEF broadcast_topology, RInv, ConsumerInv, AdapterInv
  <2>2. wire' \in Seq(Message)
    BY <1>1, <2>1, PublishType DEF broadcast_topology, AdapterInv, RabbitTypeOK, Message
  <2> QED
    BY <1>1, <2>2 DEF broadcast_topology, snapshots, outside, vars, AdapterInv, RabbitTypeOK, Message
<1>2. ASSUME Reply \/ EscapeHandler PROVE AdapterInv'
  <2>1. /\ cpc' = "waiting" /\ cur' = NULL /\ lock' = NULL
        /\ UNCHANGED <<spc, sroots, snap, wire, known, sends, faults>>
    BY <1>2 DEF Reply, EscapeHandler, Release, snapshots, outside
  <2>2. inbox' \subseteq Delivery /\ consuming' \in BOOLEAN
    BY <1>2 DEF Reply, EscapeHandler, RequeueOrDrop, AdapterInv, RabbitTypeOK, RInv, ConsumerInv,
       LockDiscipline
  <2>3. /\ verdict' \in [Cmd -> {"none", "ack", "nack"}]
        /\ replies' \in Seq([cmd : Cmd, verdict : {"ack", "nack"}])
    BY DEF RInv, RepliesInv
  <2> QED
    BY <2>1, <2>2, <2>3 DEF AdapterInv, RabbitTypeOK
<1> QED
  BY <1>1, <1>2

\* A tick of the snapshot thread reads and publishes well-typed forests.
LEMMA SnapshotType ==
    ASSUME IInv, AdapterInv, Cardinality(log) \in Nat, Snapshot
    PROVE  AdapterInv'
<1>1. CASE run_snapshots
  <2>1. forest_roots \subseteq Alias
    BY ReadRoots
  <2> QED
    BY <1>1, <2>1 DEF run_snapshots, consumer, outside, vars, AdapterInv, RabbitTypeOK
<1>2. CASE SnapshotLock
  BY <1>2 DEF SnapshotLock, consumer, outside, vars, AdapterInv, RabbitTypeOK
<1>3. ASSUME NEW root \in sroots, SnapshotRead(root) PROVE AdapterInv'
  <2>1. root \in Alias
    BY DEF AdapterInv, RabbitTypeOK
  <2>2. get_forest({root}) \in GNodeForest
    BY <2>1, ReadType
  <2>3. snap' \in Snap
    BY <1>3, <2>1, <2>2 DEF SnapshotRead, Snap
  <2> QED
    BY <1>3, <2>3 DEF SnapshotRead, consumer, outside, vars, AdapterInv, RabbitTypeOK
<1>4. CASE broadcast_snapshot
  <2>1. snap \in Snap
    BY <1>4 DEF broadcast_snapshot, AdapterInv
  <2>2. wire' \in Seq(Message)
    BY <1>4, <2>1, PublishType DEF broadcast_snapshot, Snap, AdapterInv, RabbitTypeOK, Message
  <2> QED
    BY <1>4, <2>2
    DEF broadcast_snapshot, consumer, outside, vars, AdapterInv, RabbitTypeOK, Message
<1> QED
  BY <1>1, <1>2, <1>3, <1>4 DEF Snapshot

\* A delivered publish teaches its hearers aliases.
LEMMA DeliverType ==
    ASSUME AdapterInv, NEW channel, NEW heard, Deliver(channel, heard)
    PROVE  AdapterInv'
<1>1. wire \in Seq(Message) /\ wire # <<>>
  BY DEF Deliver, AdapterInv, RabbitTypeOK, Message
<1>2. Head(wire).nodes \in SUBSET GNodeGt /\ wire' \in Seq(Message)
  <2>1. Head(wire) \in Message /\ Tail(wire) \in Seq(Message)
    BY <1>1, HeadTailProperties
  <2> QED
    BY <2>1 DEF Deliver, Message
<1>3. \A i \in DOMAIN known' : known'[i] \in Alias
  <2>1. \A i \in DOMAIN known : known[i] \in Alias
    BY DEF AdapterInv, RabbitTypeOK
  <2>2. \A i : Names(Head(wire).nodes, i) # {} =>
            (CHOOSE a \in Names(Head(wire).nodes, i) : TRUE) \in Alias
    BY <1>2, NamesType
  <2> QED
    BY <2>1, <2>2 DEF Deliver
<1>4. known' \in [DOMAIN known' -> Alias]
  BY <1>3 DEF Deliver
<1> QED
  BY <1>2, <1>4
  DEF Deliver, consumer, snapshots, vars, AdapterInv, RabbitTypeOK, Message

\* The senders and the library around the process, and its death.
LEMMA OutsideType ==
    ASSUME IInv, AdapterInv, RInv',
           \/ (\E d \in Delivery : Send(d)) \/ (\E c \in Joiners : Join(c))
           \/ HearReply \/ LoseReply \/ Reconnect \/ Crash
    PROVE  AdapterInv'
<1>1. MaxSends \in Nat \ {0} /\ MaxFaults \in Nat
  BY BoundAssumption
<1>2. ASSUME NEW d \in Delivery, Send(d) PROVE AdapterInv'
  <2>1. d.body \in Body /\ sends[d.body] \in 0..MaxSends
    BY DEF Delivery, AdapterInv, RabbitTypeOK
  <2>2. sends' \in [Body -> 0..MaxSends]
    BY <1>1, <1>2, <2>1 DEF Send, SendsOf, AdapterInv, RabbitTypeOK
  <2> QED
    BY <1>2, <2>2 DEF Send, consumer, snapshots, vars, AdapterInv, RabbitTypeOK
<1>3. CASE Reconnect
  BY <1>3 DEF Reconnect, consumer, snapshots, outside, vars, AdapterInv, RabbitTypeOK
<1>4. CASE Crash
  <2>1. faults' \in 0..MaxFaults
    BY <1>1, <1>4 DEF Crash, AdapterInv, RabbitTypeOK
  <2>2. inbox' \subseteq Delivery
    BY <1>4 DEF Crash, RequeueOrDrop, AdapterInv, RabbitTypeOK
  <2> QED
    BY <1>4, <2>1, <2>2 DEF Crash, Release, AdapterInv, RabbitTypeOK
<1>5. ASSUME NEW c \in Joiners, Join(c) PROVE AdapterInv'
  <2>1. c.new_node.alias \in Alias
    BY <1>5, CmdFacts DEF Join, IInv, SoundInv, TypeOK
  <2>2. known' \in [DOMAIN known' -> Alias]
    BY <1>5, <2>1 DEF Join, AdapterInv, RabbitTypeOK
  <2> QED
    BY <1>5, <2>2 DEF Join, consumer, snapshots, vars, AdapterInv, RabbitTypeOK
<1>6. CASE HearReply \/ LoseReply
  <2>1. /\ verdict' \in [Cmd -> {"none", "ack", "nack"}]
        /\ replies' \in Seq([cmd : Cmd, verdict : {"ack", "nack"}])
    BY DEF RInv, RepliesInv
  <2>2. faults' \in 0..MaxFaults
    BY <1>1, <1>6 DEF HearReply, LoseReply, AdapterInv, RabbitTypeOK
  <2>3. UNCHANGED <<vars, inbox, consumer, lock, snapshots, wire, consuming, known, sends>>
    BY <1>6 DEF HearReply, LoseReply
  <2> QED
    BY <2>1, <2>2, <2>3 DEF consumer, snapshots, vars, AdapterInv, RabbitTypeOK
<1> QED
  BY <1>2, <1>3, <1>4, <1>5, <1>6

\* The adapter starts with its state well typed.
LEMMA AdapterInit == RabbitInit => AdapterInv
<1> SUFFICES ASSUME RabbitInit PROVE AdapterInv
  OBVIOUS
<1>1. \A i \in DOMAIN nodes : nodes[i].alias \in Alias
  BY InitInv DEF RabbitInit, IInv, SoundInv, TypeOK, NodeTable, GNodeGt
<1>2. known \in [DOMAIN known -> Alias]
  BY <1>1 DEF RabbitInit
<1>3. sends \in [Body -> 0..MaxSends] /\ faults \in 0..MaxFaults
  BY BoundAssumption DEF RabbitInit
<1> QED
  BY <1>2, <1>3 DEF RabbitInit, AdapterInv, RabbitTypeOK

\* The adapter's own state is well typed, throughout.
THEOREM AdapterTypeCorrect == RabbitSpec => []RabbitTypeOK
<1>1. ASSUME RInv, RInv', IInv, WireInv, AdapterInv, [RabbitNext]_allVars PROVE AdapterInv'
  <2>1. Cardinality(log) \in Nat
    BY <1>1, FS_CardinalityType DEF WireInv
  <2>2. CASE UNCHANGED allVars
    BY <1>1, <2>2 DEF allVars, vars, rabbit, AdapterInv, RabbitTypeOK
  <2>3. CASE AcquireLock
    <3>1. cur \in Delivery
      BY <1>1, <2>3 DEF AcquireLock, RInv, ConsumerInv, LockDiscipline
    <3> QED
      BY <1>1, <2>3, <3>1, ConsumerTakesType
  <2> QED
    BY <1>1, <2>1, <2>2, <2>3, ConsumerTakesType, ApplyKeepsType, AnswerType, SnapshotType,
       DeliverType, OutsideType
    DEF RabbitNext, Consume
<1>2. AdapterInv => RabbitTypeOK
  BY DEF AdapterInv
<1> QED
  BY <1>1, <1>2, AdapterInit, RabbitInvariance, RegistryCarried, WireInvariance, PTL DEF RabbitSpec

-----------------------------------------------------------------------------
(* Who a re-parent is announced to *)

\* A path that continues `root' by at least one word.
Below(alias, root) == in_subtree(alias, root) /\ alias # root

\* Whose listener is moved: the children that hang, at any depth, below E.
MovesBelow(c) ==
    \A k \in DOMAIN c.moved_child_g_node_ids :
        Below(nodes[c.moved_child_g_node_ids[k]].alias, Channel(c))

\* Senders name children from below E only.  Nothing in the code sees to it.
MovesWithinE == [][\A c \in ReparentCmd : BeginReparent(c) => MovesBelow(c)]_allVars

\* In an open transaction only rows from below `root' have been renamed, what
\* was below it is still, and so are the children to come.
StaysBelow(table, tx, root) ==
    /\ DOMAIN table \subseteq DOMAIN tx
    /\ \A i \in DOMAIN table : tx[i].alias # table[i].alias => Below(table[i].alias, root)
    /\ \A i \in DOMAIN table : Below(table[i].alias, root) => Below(tx[i].alias, root)

ChannelInv ==
    pc = "rewriting" =>
        /\ StaysBelow(nodes, txNodes, Channel(cmd))
        /\ \A k \in 1..Len(todo) :
                todo[k] \in DOMAIN nodes /\ Below(nodes[todo[k]].alias, Channel(cmd))

\* Below is transitive.
LEMMA BelowTransitive ==
    ASSUME NEW a \in Alias, NEW b \in Alias, NEW c \in Alias, in_subtree(a, b), Below(b, c)
    PROVE  Below(a, c)
<1>1. in_subtree(a, c)
  BY SubtreeTransitive DEF Below
<1>2. a # c
  BY SubtreeOwn DEF Below
<1> QED
  BY <1>1, <1>2 DEF Below

\* The channel of a re-parent is the alias of E, one word above N.
LEMMA ReparentChannel ==
    ASSUME NEW c \in ReparentCmd
    PROVE  /\ Channel(c) = parent_alias(c.new_node.alias) /\ Channel(c) \in Alias
           /\ Below(c.new_node.alias, Channel(c))
<1> DEFINE a == c.new_node.alias
<1>1. c \in Cmd /\ c.type_name = "g.node.reparent.cmd"
  BY CmdAssumption DEF Cmd, GNodeReparentCmd
<1>2. a \in Alias /\ Len(a) >= 2
  BY <1>1, CmdFacts
<1> HIDE DEF a
<1>3. parent_alias(a) \in Alias /\ Len(parent_alias(a)) = Len(a) - 1 /\ in_subtree(a, parent_alias(a))
  BY <1>2, ParentFacts
<1>4. Len(a) \in Nat
  BY <1>2 DEF Alias
<1>5. a # parent_alias(a)
  BY <1>3, <1>4
<1> QED
  BY <1>1, <1>3, <1>5 DEF Channel, Below, a

\* Renaming the subtree of a row from below the root, to beneath a node below
\* the root, leaves all that below it.
LEMMA RenameStaysBelow ==
    ASSUME NEW table, NodeTable(table), NEW tx, NodeTable(tx), LongAliases(tx),
           NEW root \in Alias, StaysBelow(table, tx, root),
           NEW child \in DOMAIN tx, Below(tx[child].alias, root),
           NEW n \in Alias, Below(n, root),
           NEW new, DOMAIN new = DOMAIN tx,
           \A i \in DOMAIN tx :
                new[i].alias =
                    IF i \in Subtree(tx, tx[child].alias)
                    THEN rewrite_alias(tx[i].alias, tx[child].alias,
                                       moved_child_new_prefix(n, tx[child].alias))
                    ELSE tx[i].alias
    PROVE  StaysBelow(table, new, root)
<1> DEFINE old == tx[child].alias
           land == moved_child_new_prefix(n, old)
<1>1. /\ \A i \in DOMAIN tx : tx[i].alias \in Alias
      /\ \A i \in DOMAIN table : table[i].alias \in Alias
      /\ old \in Alias /\ Len(old) >= 1
  BY DEF NodeTable, GNodeGt, LongAliases
<1>2. land \in Alias /\ Below(land, root)
  <2>1. land \in Alias /\ in_subtree(land, n)
    BY <1>1, LandingFacts
  <2> QED
    BY <2>1, BelowTransitive
<1>3. ASSUME NEW i \in DOMAIN tx, i \in Subtree(tx, old)
      PROVE  Below(tx[i].alias, root) /\ Below(new[i].alias, root)
  <2> DEFINE a == tx[i].alias
             r == rewrite_alias(a, old, land)
  <2>1. a \in Alias /\ in_subtree(a, old) /\ new[i].alias = r
    BY <1>1, <1>3 DEF Subtree
  <2> HIDE DEF old, land, a
  <2>2. r \in Alias /\ in_subtree(r, land)
    <3>1. Swapped(r, a, old, land)
      BY <1>1, <1>2, <2>1, RewriteByWords
    <3> QED
      BY <1>1, <1>2, <2>1, <3>1, RewriteFacts DEF Swapped
  <2>3. Below(a, root) /\ Below(r, root)
    <3>1. Below(old, root)
      BY DEF old
    <3> QED
      BY <1>1, <1>2, <2>1, <2>2, <3>1, BelowTransitive
  <2> QED
    BY <2>1, <2>3 DEF a
<1>4. \A i \in DOMAIN tx : i \notin Subtree(tx, old) => new[i].alias = tx[i].alias
  OBVIOUS
<1> HIDE DEF old
<1>5. \A i \in DOMAIN table : new[i].alias # table[i].alias => Below(table[i].alias, root)
  BY <1>3, <1>4 DEF StaysBelow
<1>6. \A i \in DOMAIN table : Below(table[i].alias, root) => Below(new[i].alias, root)
  BY <1>3, <1>4 DEF StaysBelow
<1> QED
  BY <1>5, <1>6 DEF StaysBelow

\* While senders name children from below E, an open transaction moves nothing
\* else, whatever order the children come in.
LEMMA ChannelStep ==
    ASSUME IInv, ChannelInv, [RabbitNext]_allVars,
           \A c \in ReparentCmd : BeginReparent(c) => MovesBelow(c)
    PROVE  ChannelInv'
<1>1. ASSUME NEW c \in ReparentCmd, BeginReparent(c) PROVE ChannelInv'
  <2> DEFINE n == c.new_node
             moved == c.moved_child_g_node_ids
  <2>1. /\ nodes' = nodes /\ txNodes' = Insert(nodes, n) /\ todo' = moved /\ cmd' = c
        /\ n.g_node_id \notin DOMAIN nodes
        /\ \A k \in DOMAIN moved : moved[k] \in DOMAIN nodes
    BY <1>1 DEF BeginReparent, InsertFails, ReparentRefusal, tables
  <2>2. n \in GNodeGt /\ moved \in Seq(GNodeId) /\ NodeTable(nodes)
    BY CmdFacts DEF Cmd, IInv, SoundInv, TypeOK
  <2>3. DOMAIN moved = 1..Len(moved)
    BY <2>2
  <2>4. StaysBelow(nodes, Insert(nodes, n), Channel(c))
    <3>1. /\ DOMAIN nodes \subseteq DOMAIN Insert(nodes, n)
          /\ \A i \in DOMAIN nodes : Insert(nodes, n)[i] = nodes[i]
      BY <2>1 DEF Insert
    <3> HIDE DEF n
    <3> QED
      BY <3>1 DEF StaysBelow
  <2>5. \A k \in 1..Len(moved) : moved[k] \in DOMAIN nodes /\ Below(nodes[moved[k]].alias, Channel(c))
    BY <1>1, <2>1, <2>3 DEF MovesBelow
  <2> HIDE DEF n, moved
  <2> QED
    BY <2>1, <2>4, <2>5 DEF ChannelInv
<1>2. CASE RewriteChild
  <2> DEFINE child == Head(todo)
             want == Rewritten(child)
             D == Subtree(txNodes, txNodes[child].alias)
             n == cmd.new_node.alias
  <2>1. pc = "rewriting" /\ todo # <<>>
    BY <1>2 DEF RewriteChild
  <2>2. CASE ~CanClaim(txLedger, want)
    BY <1>2, <2>2 DEF RewriteChild, Rollback, Close, ChannelInv
  <2>3. CASE CanClaim(txLedger, want)
    <3>1. /\ txNodes' = Rename(txNodes, want) /\ todo' = Tail(todo)
          /\ nodes' = nodes /\ cmd' = cmd
      BY <1>2, <2>3 DEF RewriteChild, tables
    <3>2. /\ NodeTable(nodes) /\ NodeTable(txNodes) /\ todo \in Seq(GNodeId)
          /\ cmd \in ReparentCmd /\ LongAliases(txNodes)
      BY <2>1 DEF IInv, SoundInv, TypeOK, TxInv
    <3>3. n \in Alias /\ Channel(cmd) \in Alias /\ Below(n, Channel(cmd))
      BY <3>2, ReparentChannel, CmdFacts DEF Cmd
    <3>4. /\ StaysBelow(nodes, txNodes, Channel(cmd))
          /\ \A k \in 1..Len(todo) :
                todo[k] \in DOMAIN nodes /\ Below(nodes[todo[k]].alias, Channel(cmd))
      BY <2>1 DEF ChannelInv
    <3>5. /\ child = todo[1] /\ 1 \in 1..Len(todo)
          /\ \A k \in 1..Len(Tail(todo)) : k + 1 \in 1..Len(todo) /\ Tail(todo)[k] = todo[k + 1]
      BY <2>1, <3>2
    <3>6. child \in DOMAIN txNodes /\ Below(txNodes[child].alias, Channel(cmd))
      BY <3>4, <3>5 DEF StaysBelow
    <3>7. /\ D \in SUBSET DOMAIN txNodes /\ want \in [D -> Alias]
          /\ DOMAIN Rename(txNodes, want) = DOMAIN txNodes
          /\ \A i \in D : Rename(txNodes, want)[i].alias = want[i]
          /\ \A i \in DOMAIN txNodes \ D : Rename(txNodes, want)[i] = txNodes[i]
      <4>1. SoundInv /\ pc = "rewriting"
        BY <2>1 DEF IInv
      <4>2. D \in SUBSET DOMAIN txNodes /\ want \in [D -> Alias]
        BY <3>6, <4>1, RewrittenType
      <4>3. NodeTable(txNodes)
        BY <3>2
      <4> HIDE DEF D, want
      <4> QED
        BY ONLY <4>2, <4>3, RenameType
    <3>8. \A i \in D : want[i] = rewrite_alias(txNodes[i].alias, txNodes[child].alias,
                                     moved_child_new_prefix(n, txNodes[child].alias))
      BY DEF Rewritten
    <3> HIDE DEF child, want, n
    <3>9. StaysBelow(nodes, Rename(txNodes, want), Channel(cmd))
      BY <3>2, <3>3, <3>4, <3>6, <3>7, <3>8, RenameStaysBelow
    <3> QED
      BY <3>1, <3>4, <3>5, <3>9 DEF ChannelInv
  <2> QED
    BY <2>2, <2>3
<1>3. CASE pc' # "rewriting"
  BY <1>3 DEF ChannelInv
<1>4. CASE UNCHANGED vars
  BY <1>4 DEF ChannelInv, vars
<1>5. \/ UNCHANGED vars \/ pc' # "rewriting" \/ RewriteChild
      \/ \E c \in ReparentCmd : BeginReparent(c)
  <2>1. CASE Crash
    BY <2>1 DEF Crash, Close
  <2>2. ASSUME NEW c \in CreateCmd, apply_create(c) PROVE pc' # "rewriting"
    BY <2>2 DEF apply_create, RefuseCreate, CommitCreate, Replay, txn
  <2>3. ASSUME NEW c \in ReparentCmd, apply_reparent(c) PROVE pc' # "rewriting" \/ BeginReparent(c)
    BY <2>3 DEF apply_reparent, RefuseReparent, FailReparent, Replay, txn
  <2>4. CommitReparent => pc' # "rewriting"
    BY DEF CommitReparent, Rollback, Close
  <2> QED
    BY <2>1, <2>2, <2>3, <2>4, RegistrySteps DEF Next
<1> QED
  BY <1>1, <1>2, <1>3, <1>4, <1>5

\* "A proper prefix of every moved node's OLD alias": when the children that
\* re-parents name hang below E, everybody whom a re-parent renames was bound
\* to the channel it is announced on.
THEOREM ChannelReachesMoved == RabbitSpec /\ MovesWithinE => ChannelCoversMoved
<1>1. RabbitInit => ChannelInv
  BY DEF RabbitInit, Init, ChannelInv
<1>2. ASSUME IInv, ChannelInv, [RabbitNext]_allVars, nodes' # nodes, pc = "rewriting",
             NEW i \in DOMAIN nodes, nodes'[i].alias # nodes[i].alias
      PROVE  in_subtree(nodes[i].alias, Channel(cmd)) /\ nodes[i].alias # Channel(cmd)
  <2>1. CommitReparent
    <3>1. Crash => nodes' = nodes
      BY DEF Crash, tables
    <3>2. ~\E c \in CreateCmd : apply_create(c)
      BY <1>2 DEF apply_create, RefuseCreate, CommitCreate, Replay
    <3>3. ~\E c \in ReparentCmd : apply_reparent(c)
      BY <1>2 DEF apply_reparent, RefuseReparent, FailReparent, BeginReparent, Replay
    <3>4. RewriteChild => nodes' = nodes
      BY DEF RewriteChild, Rollback, tables
    <3> QED
      BY <1>2, <3>1, <3>2, <3>3, <3>4, RegistrySteps DEF Next, vars
  <2>2. nodes' = txNodes
    BY <1>2, <2>1 DEF CommitReparent, Rollback, tables
  <2> QED
    BY <1>2, <2>2 DEF ChannelInv, StaysBelow, Below
<1>3. IInv /\ ChannelInv /\ [RabbitNext]_allVars =>
        [nodes' # nodes /\ pc = "rewriting" =>
            \A i \in DOMAIN nodes : nodes'[i].alias # nodes[i].alias =>
                /\ in_subtree(nodes[i].alias, Channel(cmd))
                /\ nodes[i].alias # Channel(cmd)]_allVars
  BY <1>2
<1>4. IInv /\ ChannelInv /\ [RabbitNext]_allVars
        /\ [\A c \in ReparentCmd : BeginReparent(c) => MovesBelow(c)]_allVars => ChannelInv'
  <2> SUFFICES ASSUME IInv, ChannelInv, [RabbitNext]_allVars,
                      [\A c \in ReparentCmd : BeginReparent(c) => MovesBelow(c)]_allVars
               PROVE  ChannelInv'
    OBVIOUS
  <2>1. CASE UNCHANGED allVars
    BY <2>1 DEF allVars, vars, ChannelInv
  <2> QED
    BY <2>1, ChannelStep
<1> QED
  BY <1>1, <1>3, <1>4, RegistryCarried, PTL DEF RabbitSpec, MovesWithinE, ChannelCoversMoved
=============================================================================
