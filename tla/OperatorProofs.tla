--------------------------- MODULE OperatorProofs ----------------------------
(***************************************************************************)
(* What `gnr create' tells its operator, for any number of runs and any    *)
(* orders: an ack means that the node is there and owns the alias, and a   *)
(* refusal is final where commands are handled in their order.  The        *)
(* registry's invariant is carried along.                                  *)
(***************************************************************************)
EXTENDS OperatorCreate, RegistryProofs

\* What a run may tell.
Message == {"exists", "invalid", "aborted", "no broker", "refused", "visible", "not visible"}

\* The operators' variables are functions on the runs.
OperatorTypeOK ==
    /\ heard \in [Operator -> {NULL, "ack", "nack"}]
    /\ told \in [Operator -> Message \cup {NULL}]
    /\ verdicts \in [Operator -> SUBSET [cmd : Cmd, verdict : {"ack", "nack"}]]

\* An ack on its way answers a command that is in the log.
AcksLogged == \A o \in Operator : \A v \in verdicts[o] : v.verdict = "ack" => v.cmd \in log

\* A run that has taken an ack has its own command in the log.
HeardLogged == \A o \in Operator : heard[o] = "ack" => Order(o) \in log

\* A create that was applied gave its alias to its node, for good.
LoggedOwns(c) ==
    /\ c.new_node.alias \in DOMAIN ledger
    /\ ledger[c.new_node.alias] = c.new_node.g_node_id

NamesInv == \A c \in log \cap CreateCmd : LoggedOwns(c)

OInv == IInv /\ NamesInv /\ OperatorTypeOK /\ AcksLogged /\ HeardLogged

-----------------------------------------------------------------------------
(* The command a run builds *)

\* Whatever GNodeClass is asked for, the inferred base class satisfies the
\* class axiom of g.node.gt.
THEOREM InferredBaseConsistent == \A o \in Operator : ClassConsistency(NewNode(o))
<1> SUFFICES ASSUME NEW o \in Operator PROVE ClassConsistency(NewNode(o))
  OBVIOUS
<1>1. Args[o].g_node_class \in GNodeClass
  BY OperatorAssumption
<1>2. NewNode(o).base_class = _infer_base(Args[o].g_node_class)
      /\ NewNode(o).g_node_class = Args[o].g_node_class
  BY DEF NewNode
<1> QED
  BY <1>1, <1>2 DEF ClassConsistency, _infer_base, _PHYSICAL, BaseGNodeClass

-----------------------------------------------------------------------------
(* The registry under the runs *)

\* A create is not a re-parent.
LEMMA KindsApart == \A c \in CreateCmd : c \notin ReparentCmd
BY CmdAssumption DEF GNodeCreateCmd, GNodeReparentCmd

\* What a run publishes is not a re-parent.
LEMMA OrderIsCreate == \A o : Order(o) \notin ReparentCmd
BY CmdAssumption DEF GNodeReparentCmd, Order

\* What the registry does for a command is a step of the registry.
LEMMA ApplyIsNext ==
    ASSUME NEW c, Apply(c)
    PROVE  [Next]_vars
BY DEF Apply, Next

\* No step takes a command out of the log.
LEMMA LogGrows ==
    ASSUME [Next]_vars
    PROVE  log \subseteq log'
<1>1. CASE UNCHANGED vars
  BY <1>1 DEF vars
<1>2. ASSUME NEW c, apply_create(c) PROVE log \subseteq log'
  BY <1>2 DEF apply_create, RefuseCreate, CommitCreate, Replay, tables
<1>3. ASSUME NEW c, apply_reparent(c) PROVE log \subseteq log'
  BY <1>3 DEF apply_reparent, RefuseReparent, FailReparent, BeginReparent, Replay, tables
<1>4. CASE RewriteChild
  BY <1>4 DEF RewriteChild, Rollback, tables
<1>5. CASE CommitReparent
  BY <1>5 DEF CommitReparent, Rollback, tables
<1> QED
  BY <1>1, <1>2, <1>3, <1>4, <1>5 DEF Next

\* A create that is neither refused nor escapes is in the log.
LEMMA AnsweredCreateLogged ==
    ASSUME NEW c, apply_create(c), result'.verdict # "refused", result'.verdict # "escaped"
    PROVE  c \in log'
<1>1. ~RefuseCreate(c)
  BY DEF RefuseCreate, End
<1>2. CASE CommitCreate(c)
  BY <1>2 DEF CommitCreate, End
<1>3. CASE Replay(c)
  BY <1>3 DEF Replay, Logged, tables
<1> QED
  BY <1>1, <1>2, <1>3 DEF apply_create

\* A create that is committed claims its alias, or had it.
LEMMA CommitOwns ==
    ASSUME NEW c, CommitCreate(c), c \in log', c \notin log
    PROVE  LoggedOwns(c)'
<1>1. ~CreateRefusal(c) /\ ledger' = claim_alias(ledger, Wants(c.new_node))
  BY DEF CommitCreate, tables
<1> DEFINE a == c.new_node.alias
           i == c.new_node.g_node_id
<1>2. ~OwnedByOther(a, i)
  BY <1>1 DEF CreateRefusal
<1>3. DOMAIN Wants(c.new_node) = {i} /\ Wants(c.new_node)[i] = a
  BY DEF Wants
<1> HIDE DEF a, i
<1>4. a \in DOMAIN ledger' /\ ledger'[a] = i
  <2>1. CASE a \in DOMAIN ledger
    BY <1>1, <1>2, <2>1 DEF claim_alias, OwnedByOther
  <2>2. CASE a \notin DOMAIN ledger
    <3>1. a \in DOMAIN ledger' /\ ledger'[a] \in DOMAIN Wants(c.new_node)
      BY <1>1, <1>3, <2>2 DEF claim_alias
    <3> QED
      BY <1>3, <3>1
  <2> QED
    BY <2>1, <2>2
<1> QED
  BY <1>4 DEF LoggedOwns, a, i

\* An applied create owns its alias in every later state.
LEMMA NamesStep ==
    ASSUME OInv, [Next]_vars
    PROVE  NamesInv'
<1>1. Extends(ledger', ledger)
  BY StepKeeps DEF OInv
<1>2. ASSUME NEW c \in CreateCmd, c \in log PROVE LoggedOwns(c)'
  BY <1>1, <1>2 DEF OInv, NamesInv, LoggedOwns, Extends
<1>3. ASSUME NEW c \in CreateCmd, c \in log', c \notin log PROVE CommitCreate(c)
  <2>1. ASSUME NEW d, apply_create(d) PROVE CommitCreate(c)
    BY <1>3, <2>1 DEF apply_create, RefuseCreate, CommitCreate, Replay, tables
  <2>2. ASSUME NEW d \in ReparentCmd, apply_reparent(d) PROVE FALSE
    BY <1>3, <2>2 DEF apply_reparent, RefuseReparent, FailReparent, BeginReparent, Replay, tables
  <2>3. CASE RewriteChild
    BY <1>3, <2>3 DEF RewriteChild, Rollback, tables
  <2>4. CASE CommitReparent
    BY <1>3, <2>4, KindsApart DEF CommitReparent, Rollback, tables, OInv, IInv, SoundInv, TypeOK
  <2>5. CASE UNCHANGED vars
    BY <1>3, <2>5 DEF vars
  <2> QED
    BY <2>1, <2>2, <2>3, <2>4, <2>5 DEF Next
<1>4. ASSUME NEW c \in CreateCmd, c \in log', c \notin log PROVE LoggedOwns(c)'
  BY <1>3, <1>4, CommitOwns
<1> QED
  BY <1>2, <1>4 DEF NamesInv

\* What holds of the log and the verdicts stays true while the tables grow and
\* the runs themselves stand still.
LEMMA RunsStand ==
    ASSUME OInv, [Next]_vars, UNCHANGED heard
    PROVE  /\ IInv' /\ NamesInv' /\ HeardLogged'
           /\ \A o \in Operator : \A v \in verdicts[o] : v.verdict = "ack" => v.cmd \in log'
<1>1. IInv'
  BY NextInv DEF OInv
<1>2. log \subseteq log'
  BY LogGrows
<1> QED
  BY <1>1, <1>2, NamesStep DEF OInv, AcksLogged, HeardLogged

\* The registry handles a command and answers the runs that wait.
LEMMA HandleInv ==
    ASSUME OInv, NEW k, Handle(k)
    PROVE  OInv'
<1> DEFINE c == inbox[k]
<1>1. Apply(c) /\ UNCHANGED <<stage, heard, told>> /\ (_reply(c) \/ UNCHANGED verdicts)
  BY DEF Handle
<1> HIDE DEF c
<1>2. /\ IInv' /\ NamesInv' /\ HeardLogged'
      /\ \A o \in Operator : \A v \in verdicts[o] : v.verdict = "ack" => v.cmd \in log'
  BY <1>1, ApplyIsNext, RunsStand
<1>3. CASE UNCHANGED verdicts
  BY <1>1, <1>2, <1>3 DEF OInv, OperatorTypeOK, AcksLogged
<1>4. CASE _reply(c)
  <2>1. ASSUME c \in CreateCmd, result'.verdict # "escaped"
        PROVE  Sent(c).verdict = "ack" => c \in log'
    <3>1. apply_create(c)
      BY <1>1, <2>1, KindsApart DEF Apply
    <3> QED
      BY <2>1, <3>1, AnsweredCreateLogged DEF Sent
  <2>2. Sent(c).cmd = c /\ Sent(c) \in [cmd : Cmd, verdict : {"ack", "nack"}]
    BY <1>1 DEF Sent, Apply, Cmd
  <2>3. ASSUME NEW o \in Operator, NEW v \in verdicts'[o]
        PROVE  v.verdict = "ack" => v.cmd \in log'
    <3>1. CASE v \in verdicts[o]
      BY <1>2, <3>1
    <3>2. CASE v \notin verdicts[o]
      <4>1. v = Sent(c) /\ c \in CreateCmd /\ result'.verdict # "escaped"
        BY <1>4, <2>3, <3>2 DEF _reply
      <4> QED
        BY <2>1, <2>2, <4>1
    <3> QED
      BY <3>1, <3>2
  <2>4. OperatorTypeOK'
    BY <1>1, <1>4, <2>2 DEF OInv, OperatorTypeOK, _reply
  <2> QED
    BY <1>2, <2>3, <2>4 DEF OInv, AcksLogged
<1> QED
  BY <1>1, <1>3, <1>4

-----------------------------------------------------------------------------
(* The runs *)

\* A run that moves on without taking a verdict or telling anything.
LEMMA ContinueInv ==
    ASSUME OInv, NEW o \in Operator, NEW s, Continue(o, s),
           UNCHANGED vars, UNCHANGED heard
    PROVE  OInv'
<1>1. UNCHANGED <<log, ledger, nodes>>
  BY DEF vars
<1>2. IInv'
  BY NextInv DEF OInv
<1>3. OperatorTypeOK'
  BY DEF OInv, OperatorTypeOK, Continue, Goto
<1>4. AcksLogged' /\ HeardLogged' /\ NamesInv'
  BY <1>1 DEF OInv, OperatorTypeOK, AcksLogged, HeardLogged, NamesInv, LoggedOwns, Continue, Goto
<1> QED
  BY <1>2, <1>3, <1>4 DEF OInv

\* A run that ends without taking a verdict.
LEMMA ExitInv ==
    ASSUME OInv, NEW o \in Operator, NEW message, message \in Message, Exit(o, message),
           UNCHANGED vars, UNCHANGED heard
    PROVE  OInv'
<1>1. UNCHANGED <<log, ledger, nodes>>
  BY DEF vars
<1>2. IInv'
  BY NextInv DEF OInv
<1>3. /\ stage' = [stage EXCEPT ![o] = "ended"]
      /\ verdicts' = [verdicts EXCEPT ![o] = {}]
      /\ told' = [told EXCEPT ![o] = message]
  BY DEF Exit, Goto
<1>4. OperatorTypeOK'
  BY <1>3 DEF OInv, OperatorTypeOK, Message
<1>5. AcksLogged' /\ HeardLogged'
  BY <1>1, <1>3 DEF OInv, OperatorTypeOK, AcksLogged, HeardLogged
<1>6. NamesInv'
  BY <1>1 DEF OInv, NamesInv, LoggedOwns
<1> QED
  BY <1>2, <1>4, <1>5, <1>6 DEF OInv

\* A run takes the verdict on its own command.
LEMMA TakeVerdictInv ==
    ASSUME OInv, NEW o \in Operator, TakeVerdict(o)
    PROVE  OInv'
<1>1. PICK v \in verdicts[o] : v.cmd = Order(o) /\ Take(o, v)
  BY DEF TakeVerdict
<1>2. UNCHANGED vars /\ UNCHANGED <<log, ledger, nodes>>
  BY DEF TakeVerdict, vars
<1>3. IInv'
  BY <1>2, NextInv DEF OInv
<1>4. v.verdict \in {"ack", "nack"} /\ (v.verdict = "ack" => Order(o) \in log)
  BY <1>1 DEF OInv, OperatorTypeOK, AcksLogged
<1>5. /\ heard' = [heard EXCEPT ![o] = v.verdict]
      /\ verdicts' = [verdicts EXCEPT ![o] = {}]
      /\ \/ stage' = [stage EXCEPT ![o] = "ended"] /\ told' = [told EXCEPT ![o] = "refused"]
         \/ stage' = [stage EXCEPT ![o] = "polling"] /\ told' = told
  <2>1. CASE v.verdict = "nack"
    BY <1>1, <2>1 DEF Take, Exit, Goto
  <2>2. CASE v.verdict # "nack"
    BY <1>1, <2>2 DEF Take, Continue, Goto
  <2> QED
    BY <2>1, <2>2
<1>6. OperatorTypeOK'
  <2>1. heard' \in [Operator -> {NULL, "ack", "nack"}]
    BY <1>4, <1>5 DEF OInv, OperatorTypeOK
  <2>2. told' \in [Operator -> Message \cup {NULL}]
    BY <1>5 DEF OInv, OperatorTypeOK, Message
  <2>3. verdicts' \in [Operator -> SUBSET [cmd : Cmd, verdict : {"ack", "nack"}]]
    BY <1>5 DEF OInv, OperatorTypeOK
  <2> QED
    BY <2>1, <2>2, <2>3 DEF OperatorTypeOK
<1>7. AcksLogged' /\ HeardLogged'
  BY <1>2, <1>4, <1>5 DEF OInv, OperatorTypeOK, AcksLogged, HeardLogged
<1>8. NamesInv'
  BY <1>2 DEF OInv, NamesInv, LoggedOwns
<1> QED
  BY <1>3, <1>6, <1>7, <1>8 DEF OInv

\* Every step of a run.
LEMMA RunInv ==
    ASSUME OInv, NEW o \in Operator, _run_create(o)
    PROVE  OInv'
<1>2. CASE LookUp(o)
  <2>1. UNCHANGED vars /\ UNCHANGED heard
    BY <1>2 DEF LookUp
  <2>2. CASE Exit(o, "exists")
    BY <2>1, <2>2, ExitInv DEF Message
  <2>3. CASE Continue(o, "confirming")
    BY <2>1, <2>3, ContinueInv
  <2>4. CASE Exit(o, "invalid")
    BY <2>1, <2>4, ExitInv DEF Message
  <2> QED
    BY <1>2, <2>2, <2>3, <2>4 DEF LookUp
<1>3. CASE Publish(o)
  <2>1. UNCHANGED vars /\ UNCHANGED heard
    BY <1>3 DEF Publish
  <2>2. CASE Exit(o, "aborted")
    BY <2>1, <2>2, ExitInv DEF Message
  <2>3. CASE Exit(o, "no broker")
    BY <2>1, <2>3, ExitInv DEF Message
  <2>4. CASE Continue(o, "waiting")
    BY <2>1, <2>4, ContinueInv
  <2> QED
    BY <1>3, <2>2, <2>3, <2>4 DEF Publish
<1>4. CASE TakeVerdict(o)
  BY <1>4, TakeVerdictInv
<1>5. CASE TimeOut(o)
  <2>1. UNCHANGED vars /\ UNCHANGED heard /\ Continue(o, "polling")
    BY <1>5 DEF TimeOut
  <2> QED
    BY <2>1, ContinueInv
<1>6. CASE Poll(o)
  <2>1. UNCHANGED vars /\ UNCHANGED heard
    BY <1>6 DEF Poll
  <2>2. CASE Exit(o, "visible")
    BY <2>1, <2>2, ExitInv DEF Message
  <2>3. CASE Exit(o, "not visible")
    BY <2>1, <2>3, ExitInv DEF Message
  <2> QED
    BY <1>6, <2>2, <2>3 DEF Poll
<1> QED
  BY <1>2, <1>3, <1>4, <1>5, <1>6 DEF _run_create

\* The steps of the runs and of whoever asks for re-parents.
LEMMA OtherStepsInv == OInv /\ (OtherSteps \/ UNCHANGED operatorVars) => OInv'
<1> SUFFICES ASSUME OInv, OtherSteps \/ UNCHANGED operatorVars PROVE OInv'
  OBVIOUS
<1>1. CASE \E o \in Operator : _run_create(o)
  BY <1>1, RunInv
<1>2. CASE UNCHANGED <<vars, stage, heard, told, verdicts>>
  <2>1. [Next]_vars
    BY <1>2
  <2> QED
    BY <1>2, <2>1, RunsStand DEF OInv, OperatorTypeOK, AcksLogged
<1> QED
  BY <1>1, <1>2 DEF OtherSteps, Reparented, operatorVars

\* The invariant holds of every step.
LEMMA OperatorStepInv == OInv /\ [OperatorNext]_operatorVars => OInv'
BY OtherStepsInv, HandleInv DEF OperatorNext

\* It holds before any run has begun.
LEMMA OperatorInitInv == OperatorInit => OInv
<1> SUFFICES ASSUME OperatorInit PROVE OInv
  OBVIOUS
<1>1. IInv
  BY InitInv DEF OperatorInit
<1> QED
  BY <1>1, OperatorAssumption
     DEF OperatorInit, Init, OInv, OperatorTypeOK, AcksLogged, HeardLogged, NamesInv

-----------------------------------------------------------------------------
(* Theorems *)

\* The invariant of the runs and of the registry under them.
THEOREM OperatorInvariance == OperatorSpec => []OInv
BY OperatorInitInv, OperatorStepInv, PTL DEF OperatorSpec

\* A run that says its create was applied has its node in the registry, whoever
\* else's verdicts it hears and however often deliveries are repeated.
THEOREM AcksMeanThere == OperatorSpec => []AckMeansThere
<1>1. OInv => AckMeansThere
  <2> SUFFICES ASSUME OInv, NEW o \in Operator, heard[o] = "ack"
               PROVE  Args[o].g_node_id \in DOMAIN nodes
    BY DEF AckMeansThere
  <2>1. Order(o) \in log
    BY DEF OInv, HeardLogged
  <2>2. Order(o).new_node.g_node_id = Args[o].g_node_id
    BY DEF Order, NewNode
  <2> QED
    BY <2>1, <2>2 DEF OInv, IInv, SoundInv, LogAccountsForNodes
<1> QED
  BY <1>1, OperatorInvariance, PTL

\* A run that says its create was applied owns the alias it entered, under the
\* GNodeId it prints and for good, in whatever order commands are handled.
THEOREM AckedNamesAreOwn == OperatorSpec => []AckedNameIsOwn
<1>1. OInv => AckedNameIsOwn
  <2> SUFFICES ASSUME OInv, NEW o \in Operator, heard[o] = "ack"
               PROVE  /\ Args[o].alias \in DOMAIN ledger
                      /\ ledger[Args[o].alias] = Args[o].g_node_id
    BY DEF AckedNameIsOwn
  <2>1. Order(o) \in log
    BY DEF OInv, HeardLogged
  <2>2. /\ Order(o).new_node.g_node_id = Args[o].g_node_id
        /\ Order(o).new_node.alias = Args[o].alias
    BY DEF Order, NewNode
  <2>3. Order(o) \in CreateCmd
    BY <2>1, OrderIsCreate DEF OInv, IInv, SoundInv, TypeOK, Cmd
  <2> QED
    BY <2>1, <2>2, <2>3 DEF OInv, NamesInv, LoggedOwns
<1> QED
  BY <1>1, OperatorInvariance, PTL

-----------------------------------------------------------------------------
(* A refusal is final                                                       *)
(*                                                                          *)
(* The registry may die between the refusal and its acknowledgement, and    *)
(* then meets the command again.  Where commands are handled in their order *)
(* it is the first in the queue still, and nothing has been written         *)
(* meanwhile, so it is refused again.                                       *)

Stage == {"start", "confirming", "waiting", "polling", "ended"}

\* No other run enters the very same node.
Alone(o) == \A p \in Operator \ {o} : Order(p) # Order(o)

Unsent(o) == stage[o] = "start" \/ stage[o] = "confirming"

Queued(o) == {k \in DOMAIN inbox : inbox[k] = Order(o)}

\* A refusal of its command has reached the run, or is on its way.
Nacked(o) ==
    \/ heard[o] = "nack"
    \/ \E v \in verdicts[o] : v.cmd = Order(o) /\ v.verdict = "nack"

Refusable(c) == ~check_proof(c) \/ CreateRefusal(c)

StandsRefused(o) ==
    /\ Order(o) \notin log /\ ~Unsent(o)
    /\ \A k \in Queued(o) : k = 1 /\ Refusable(Order(o))

\* A run's command is queued at most once, and not before it is sent; one that
\* was refused would be refused again.
OrderInv(o) ==
    /\ Unsent(o) => Queued(o) = {}
    /\ \A j, k \in Queued(o) : j = k
    /\ Nacked(o) => StandsRefused(o)

FinalInv ==
    /\ stage \in [Operator -> Stage]
    /\ inbox \in Seq(Cmd \cup {Order(o) : o \in Operator})
    /\ \A c \in log \cap CreateCmd : check_proof(c)
    /\ \A o \in Operator : told[o] = "refused" => stage[o] = "ended" /\ heard[o] = "nack"
    /\ \A o \in Operator : Alone(o) => OrderInv(o)

\* Where the commands of a run are in the queue when something else is put at
\* its end or taken from its front.
LEMMA QueueMoves ==
    ASSUME NEW S, NEW q \in Seq(S), NEW e \in S, NEW x
    PROVE  /\ e # x => {k \in DOMAIN Append(q, e) : Append(q, e)[k] = x} = {k \in DOMAIN q : q[k] = x}
           /\ q # <<>> /\ Head(q) # x =>
                ({k \in DOMAIN q : q[k] = x} = {} => {k \in DOMAIN Tail(q) : Tail(q)[k] = x} = {})
           /\ q # <<>> /\ (\A k \in DOMAIN q : q[k] = x => k = 1) =>
                {k \in DOMAIN Tail(q) : Tail(q)[k] = x} = {}
           /\ q # <<>> /\ (\A j, k \in {i \in DOMAIN q : q[i] = x} : j = k) =>
                \A j, k \in {i \in DOMAIN Tail(q) : Tail(q)[i] = x} : j = k
<1>1. DOMAIN q = 1..Len(q) /\ DOMAIN Append(q, e) = 1..(Len(q) + 1) /\ Len(q) \in Nat
      /\ Append(q, e)[Len(q) + 1] = e /\ \A k \in 1..Len(q) : Append(q, e)[k] = q[k]
  OBVIOUS
<1>2. ASSUME q # <<>>
      PROVE  DOMAIN Tail(q) = 1..(Len(q) - 1) /\ \A k \in 1..(Len(q) - 1) : Tail(q)[k] = q[k + 1]
  <2>1. Tail(q) \in Seq(S) /\ Len(Tail(q)) = Len(q) - 1
        /\ \A k \in 1..Len(Tail(q)) : Tail(q)[k] = q[k + 1]
    BY <1>2, HeadTailProperties
  <2> QED
    BY <2>1
<1>3. e # x => {k \in DOMAIN Append(q, e) : Append(q, e)[k] = x} = {k \in DOMAIN q : q[k] = x}
  BY <1>1
<1>4. ASSUME q # <<>>, NEW k \in DOMAIN Tail(q), Tail(q)[k] = x
      PROVE  k + 1 \in DOMAIN q /\ q[k + 1] = x /\ k \in Nat /\ k # 0
  BY <1>1, <1>2, <1>4
<1>5. ASSUME q # <<>>, \A j, k \in {i \in DOMAIN q : q[i] = x} : j = k,
             NEW j \in DOMAIN Tail(q), NEW k \in DOMAIN Tail(q), Tail(q)[j] = x, Tail(q)[k] = x
      PROVE  j = k
  <2>1. j + 1 = k + 1 /\ j \in Nat /\ k \in Nat
    BY <1>4, <1>5
  <2> QED
    BY <2>1
<1>6. ASSUME q # <<>>, {k \in DOMAIN q : q[k] = x} = {}
      PROVE  {k \in DOMAIN Tail(q) : Tail(q)[k] = x} = {}
  BY <1>4, <1>6
<1>7. ASSUME q # <<>>, \A k \in DOMAIN q : q[k] = x => k = 1
      PROVE  {k \in DOMAIN Tail(q) : Tail(q)[k] = x} = {}
  <2> SUFFICES ASSUME NEW k \in DOMAIN Tail(q), Tail(q)[k] = x PROVE FALSE
    OBVIOUS
  <2>1. k + 1 = 1 /\ k \in Nat /\ k # 0
    BY <1>4, <1>7
  <2> QED
    BY <2>1
<1> QED
  BY <1>3, <1>5, <1>6, <1>7

\* A run's step, seen from itself or from another run: whoever stays unsent
\* has nothing queued, and no refusal appears that was not there.
LEMMA RunRefusalInv ==
    ASSUME OInv, FinalInv, NEW p \in Operator, _run_create(p)
    PROVE  FinalInv'
<1> DEFINE Orders == Cmd \cup {Order(o) : o \in Operator}
<1>1. UNCHANGED vars /\ UNCHANGED <<nodes, ledger, log>>
  BY DEF _run_create, LookUp, Publish, TakeVerdict, TimeOut, Poll, vars
<1>2. PICK s \in Stage : /\ stage' = [stage EXCEPT ![p] = s]
                         /\ verdicts' = [verdicts EXCEPT ![p] = {}]
                         /\ s # "start" /\ (s = "confirming" => stage[p] = "start")
  BY DEF _run_create, LookUp, Publish, TakeVerdict, TimeOut, Poll, Take, Exit, Continue, Goto, Stage
<1>3. \/ inbox' = inbox
      \/ inbox' = Append(inbox, Order(p)) /\ Unsent(p) /\ stage'[p] = "waiting"
  <2>1. CASE Publish(p)
    <3>1. stage[p] = "confirming" /\ stage' = [stage EXCEPT ![p] = s]
      BY <1>2, <2>1 DEF Publish
    <3>2. CASE inbox' # inbox
      <4>1. Continue(p, "waiting") /\ inbox' = Append(inbox, Order(p))
        BY <2>1, <3>2 DEF Publish
      <4>2. stage'[p] = "waiting"
        BY <4>1 DEF Continue, Goto, FinalInv
      <4> QED
        BY <3>1, <4>1, <4>2 DEF Unsent
    <3> QED
      BY <3>2
  <2> QED
    BY <2>1 DEF _run_create, LookUp, TakeVerdict, TimeOut, Poll
<1>4. \A o \in Operator : heard'[o] = "nack" => heard[o] = "nack" \/ (o = p /\ Nacked(p))
  <2>1. CASE TakeVerdict(p)
    <3>1. PICK v \in verdicts[p] : v.cmd = Order(p) /\ heard' = [heard EXCEPT ![p] = v.verdict]
      BY <2>1 DEF TakeVerdict, Take
    <3> QED
      BY <3>1 DEF Nacked, OInv, OperatorTypeOK
  <2>2. CASE heard' = heard
    BY <2>2
  <2> QED
    BY <2>1, <2>2 DEF _run_create, LookUp, Publish, TimeOut, Poll
<1>5. stage' \in [Operator -> Stage] /\ \A o \in Operator : Unsent(o)' => Unsent(o)
  BY <1>2 DEF FinalInv, Unsent
<1>6. inbox' \in Seq(Orders)
  BY <1>3 DEF FinalInv
<1>7. \A o \in Operator : told'[o] = "refused" => stage'[o] = "ended" /\ heard'[o] = "nack"
  <2>1. \A o \in Operator \ {p} : /\ heard'[o] = heard[o] /\ told'[o] = told[o]
                                  /\ stage'[o] = stage[o]
    BY <1>2 DEF _run_create, LookUp, Publish, TakeVerdict, TimeOut, Poll, Take, Exit, Continue,
                OInv, OperatorTypeOK, FinalInv
  <2>2. told[p] # "refused"
    BY DEF FinalInv, _run_create, LookUp, Publish, TakeVerdict, TimeOut, Poll
  <2>3. ASSUME told'[p] = "refused" PROVE stage'[p] = "ended" /\ heard'[p] = "nack"
    <3>1. CASE TakeVerdict(p)
      <4>1. PICK v \in verdicts[p] : Take(p, v)
        BY <3>1 DEF TakeVerdict
      <4>2. v.verdict = "nack"
        BY <2>2, <2>3, <4>1 DEF Take, Continue
      <4> QED
        BY <4>1, <4>2 DEF Take, Exit, Goto, OInv, OperatorTypeOK, FinalInv
    <3>2. CASE ~TakeVerdict(p)
      <4>1. \A message : Exit(p, message) => told'[p] = message
        BY DEF Exit, OInv, OperatorTypeOK
      <4>2. \A t : Continue(p, t) => told'[p] # "refused"
        BY <2>2 DEF Continue
      <4> QED
        BY <2>3, <3>2, <4>1, <4>2 DEF _run_create, LookUp, Publish, TimeOut, Poll
    <3> QED
      BY <3>1, <3>2
  <2> QED
    BY <2>1, <2>3 DEF FinalInv
<1>8. ASSUME NEW o \in Operator, Alone(o) PROVE OrderInv(o)'
  <2>1. OrderInv(o)
    BY <1>8 DEF FinalInv
  <2>2. Nacked(o)' => Nacked(o)
    BY <1>2, <1>4 DEF Nacked, OInv, OperatorTypeOK, Order, NewNode
  <2>3. Refusable(Order(o))' = Refusable(Order(o)) /\ log' = log /\ Order(o)' = Order(o)
    BY <1>1 DEF Refusable, check_proof, CreateRefusal, OwnedByOther, InsertFails
  <2>4. CASE inbox' = inbox
    BY <1>5, <2>1, <2>2, <2>3, <2>4 DEF OrderInv, StandsRefused, Queued
  <2>5. CASE inbox' = Append(inbox, Order(p)) /\ p # o
    <3>1. Order(p) # Order(o)
      BY <1>8, <2>5 DEF Alone
    <3>2. Queued(o)' = Queued(o)
      BY <2>3, <2>5, <3>1, QueueMoves DEF Queued, FinalInv
    <3> QED
      BY <1>5, <2>1, <2>2, <2>3, <3>2 DEF OrderInv, StandsRefused
  <2>6. CASE inbox' = Append(inbox, Order(p)) /\ p = o /\ Unsent(p) /\ stage'[p] = "waiting"
    <3>1. Queued(o) = {} /\ ~Nacked(o) /\ ~Unsent(o)'
      BY <2>1, <2>6 DEF OrderInv, StandsRefused, Unsent
    <3>2. \A k \in Queued(o)' : k = Len(inbox) + 1
      <4>1. inbox \in Seq(Orders)
        BY DEF FinalInv
      <4>2. DOMAIN inbox' = 1..(Len(inbox) + 1) /\ \A k \in 1..Len(inbox) : inbox'[k] = inbox[k]
        BY <2>6, <4>1
      <4>3. DOMAIN inbox = 1..Len(inbox) /\ Len(inbox) \in Nat
        BY <4>1
      <4> QED
        BY <2>3, <3>1, <4>2, <4>3 DEF Queued
    <3> QED
      BY <2>2, <3>1, <3>2 DEF OrderInv
  <2> QED
    BY <1>3, <2>4, <2>5, <2>6
<1>9. log' \cap CreateCmd = log \cap CreateCmd
  BY <1>1
<1> QED
  BY <1>5, <1>6, <1>7, <1>8, <1>9 DEF FinalInv, Alone, Order, NewNode, check_proof

\* Only the command at hand is added to the log, if it is a create.
LEMMA LogGrowsBy ==
    ASSUME OInv, NEW c, Apply(c)
    PROVE  \A d \in log' : d \in log \/ d = c \/ d \in ReparentCmd
<1>1. CASE c \in CreateCmd /\ apply_create(c)
  BY <1>1 DEF apply_create, RefuseCreate, CommitCreate, Replay, tables
<1>2. CASE apply_reparent(c)
  BY <1>2 DEF apply_reparent, RefuseReparent, FailReparent, BeginReparent, Replay, tables
<1>3. CASE RewriteChild
  BY <1>3 DEF RewriteChild, Rollback, tables
<1>4. CASE CommitReparent
  BY <1>4 DEF CommitReparent, Rollback, tables, OInv, IInv, SoundInv, TypeOK
<1> QED
  BY <1>1, <1>2, <1>3, <1>4 DEF Apply

\* The registry handles a create: one that was refused is refused again, and
\* one that is refused now has not been applied.
LEMMA HandleOrder ==
    ASSUME OInv, FinalInv, NEW c \in CreateCmd, apply_create(c),
           \/ Refusable(c) /\ c \notin log
           \/ result'.verdict = "refused"
    PROVE  /\ UNCHANGED <<nodes, ledger, log>> /\ c \notin log
           /\ Refusable(c)
<1>1. c \in log => check_proof(c)
  BY DEF FinalInv
<1>2. ~CommitCreate(c) /\ ~Replay(c)
  <2>1. CASE Refusable(c) /\ c \notin log
    BY <2>1 DEF Refusable, CommitCreate, Replay, Logged
  <2>2. CASE result'.verdict = "refused"
    BY <2>2 DEF CommitCreate, Replay, End
  <2> QED
    BY <2>1, <2>2
<1>3. RefuseCreate(c)
  BY <1>2 DEF apply_create
<1> QED
  BY <1>1, <1>3 DEF RefuseCreate, Refusable, Logged, tables

\* A queue without its first command is its tail.
LEMMA WithoutFirst ==
    ASSUME NEW S, inbox \in Seq(S), inbox # <<>>
    PROVE  Without(1) = Tail(inbox)
<1>1. /\ Tail(inbox) \in Seq(S) /\ Len(Tail(inbox)) = Len(inbox) - 1
      /\ \A j \in 1..Len(Tail(inbox)) : Tail(inbox)[j] = inbox[j + 1]
  BY HeadTailProperties
<1>2. Tail(inbox) = [j \in 1..(Len(inbox) - 1) |-> inbox[j + 1]]
  <2>1. PICK t \in Seq(S) : t = Tail(inbox)
    BY <1>1
  <2>2. t = [j \in 1..Len(t) |-> t[j]]
    BY ONLY t \in Seq(S)
  <2> QED
    BY <1>1, <2>1, <2>2
<1> QED
  BY <1>2 DEF Without

\* The registry handles the first command of the queue, and it stays there or
\* leaves it.
LEMMA HandleRefusalInv ==
    ASSUME OInv, FinalInv, inbox # <<>>, Handle(1)
    PROVE  FinalInv'
<1> DEFINE c == inbox[1]
           Orders == Cmd \cup {Order(o) : o \in Operator}
<1>1. /\ inbox # <<>> /\ Apply(c) /\ UNCHANGED <<stage, heard, told>>
      /\ inbox' = inbox \/ inbox' = Tail(inbox)
      /\ UNCHANGED verdicts \/ _reply(c)
  <2>1. inbox \in Seq(Orders)
    BY DEF FinalInv
  <2>2. Without(1) = Tail(inbox)
    BY <2>1, WithoutFirst
  <2> QED
    BY <2>2 DEF Handle
<1>2. inbox \in Seq(Orders) /\ c = inbox[1] /\ 1 \in DOMAIN inbox
  BY <1>1, EmptySeq DEF FinalInv
<1>3. inbox' \in Seq(Orders)
  BY <1>1, <1>2, HeadTailProperties
<1> HIDE DEF c
<1>4. \A d \in log' \cap CreateCmd : check_proof(d)
  <2>1. ASSUME c \in CreateCmd, c \in log', c \notin log PROVE check_proof(c)
    <3>1. apply_create(c)
      BY <1>1, <2>1, KindsApart DEF Apply
    <3> QED
      BY <2>1, <3>1 DEF apply_create, RefuseCreate, CommitCreate, Replay, tables
  <2> QED
    BY <1>1, <2>1, LogGrowsBy, KindsApart DEF FinalInv
<1>5. ASSUME NEW o \in Operator, Alone(o) PROVE OrderInv(o)'
  <2>1. OrderInv(o)
    BY <1>5 DEF FinalInv
  <2>2. Order(o)' = Order(o) /\ check_proof(Order(o))' = check_proof(Order(o))
        /\ Unsent(o)' = Unsent(o)
    BY <1>1 DEF Order, NewNode, check_proof, Unsent
  <2>3. /\ Queued(o) = {} => Queued(o)' = {}
        /\ \A j, k \in Queued(o)' : j = k
    BY <1>1, <1>2, <2>1, <2>2, QueueMoves DEF Queued, OrderInv
  <2>4. CASE c # Order(o)
    <3>1. Nacked(o)' => Nacked(o)
      BY <1>1, <2>2, <2>4 DEF Nacked, _reply, Sent
    <3>2. ASSUME Nacked(o) PROVE Queued(o) = {}
      BY <1>2, <2>1, <2>4, <3>2 DEF OrderInv, StandsRefused, Queued, c
    <3>3. Order(o) \notin log => Order(o) \notin log'
      BY <1>1, <2>4, LogGrowsBy, OrderIsCreate
    <3> QED
      BY <2>1, <2>2, <2>3, <3>1, <3>2, <3>3 DEF OrderInv, StandsRefused
  <2>5. CASE c = Order(o)
    <3>1. c \in CreateCmd /\ apply_create(c)
      BY <1>1, <2>5, OrderIsCreate DEF Apply
    <3>2. Queued(o) = {1} /\ ~Unsent(o)
      BY <1>2, <2>1, <2>5 DEF Queued, OrderInv, c
    <3>3. \A k \in Queued(o)' : k = 1
      <4>1. CASE inbox' = inbox
        BY <2>2, <3>2, <4>1 DEF Queued
      <4>2. CASE inbox' = Tail(inbox)
        <5>1. \A k \in DOMAIN inbox : inbox[k] = Order(o) => k = 1
          BY <3>2 DEF Queued
        <5>2. {k \in DOMAIN Tail(inbox) : Tail(inbox)[k] = Order(o)} = {}
          BY <1>1, <1>2, <5>1, QueueMoves
        <5> QED
          BY <2>2, <4>2, <5>2 DEF Queued
      <4> QED
        BY <1>1, <4>1, <4>2
    <3>4. ASSUME Nacked(o)' PROVE StandsRefused(o)'
      <4>1. (Refusable(c) /\ c \notin log) \/ result'.verdict = "refused"
        <5>1. CASE Nacked(o)
          BY <2>1, <2>5, <3>2, <5>1 DEF OrderInv, StandsRefused
        <5>2. CASE ~Nacked(o)
          BY <1>1, <2>2, <2>5, <3>4, <5>2 DEF Nacked, _reply, Sent
        <5> QED
          BY <5>1, <5>2
      <4>2. UNCHANGED <<nodes, ledger, log>> /\ c \notin log /\ Refusable(c)
        BY <3>1, <4>1, HandleOrder
      <4>3. Refusable(Order(o))'
        BY <2>2, <2>5, <4>2 DEF Refusable, CreateRefusal, OwnedByOther, InsertFails
      <4> QED
        BY <2>2, <2>5, <3>2, <3>3, <4>2, <4>3 DEF StandsRefused
    <3> QED
      BY <2>2, <2>3, <3>2, <3>4 DEF OrderInv
  <2> QED
    BY <2>4, <2>5
<1>6. \A o \in Operator : Alone(o)' => Alone(o)
  BY DEF Alone, Order, NewNode
<1> QED
  BY <1>1, <1>3, <1>4, <1>5, <1>6 DEF FinalInv, Order, NewNode, check_proof

\* The invariant of refusals holds of every step.
LEMMA RefusalStepInv == OInv /\ FinalInv /\ [FifoNext]_operatorVars => FinalInv'
<1> SUFFICES ASSUME OInv, FinalInv, [FifoNext]_operatorVars PROVE FinalInv'
  OBVIOUS
<1>1. CASE \E o \in Operator : _run_create(o)
  BY <1>1, RunRefusalInv
<1>2. CASE inbox # <<>> /\ Handle(1)
  BY <1>2, HandleRefusalInv
<1>3. ASSUME NEW c \in ReparentCmd, Reparented(c) PROVE FinalInv'
  <2>1. /\ inbox' = Append(inbox, c) /\ UNCHANGED <<stage, heard, told, verdicts>>
        /\ UNCHANGED <<nodes, ledger, log>>
    BY <1>3 DEF Reparented, vars
  <2>2. \A o \in Operator : Queued(o)' = Queued(o)
    BY <2>1, OrderIsCreate, QueueMoves DEF Queued, FinalInv, Cmd, Order, NewNode
  <2>3. \A o \in Operator : Alone(o)' = Alone(o) /\ (OrderInv(o) => OrderInv(o)')
    BY <2>1, <2>2 DEF Alone, OrderInv, StandsRefused, Nacked, Unsent, Refusable, Order, NewNode,
                      check_proof, CreateRefusal, OwnedByOther, InsertFails
  <2>4. inbox' \in Seq(Cmd \cup {Order(o) : o \in Operator})
    BY <2>1 DEF FinalInv, Cmd
  <2> QED
    BY <2>1, <2>3, <2>4 DEF FinalInv, Order, NewNode, check_proof
<1>4. CASE UNCHANGED operatorVars
  <2>1. UNCHANGED <<stage, heard, told, verdicts, inbox, nodes, ledger, log>>
    BY <1>4 DEF operatorVars, vars
  <2>2. \A o \in Operator : Alone(o)' = Alone(o) /\ (OrderInv(o) => OrderInv(o)')
    BY <2>1 DEF Alone, OrderInv, StandsRefused, Nacked, Unsent, Queued, Refusable, Order, NewNode,
                check_proof, CreateRefusal, OwnedByOther, InsertFails
  <2> QED
    BY <2>1, <2>2 DEF FinalInv, Order, NewNode, check_proof
<1> QED
  BY <1>1, <1>2, <1>3, <1>4 DEF FifoNext, OtherSteps

\* It holds before any run has begun.
LEMMA RefusalInitInv == OperatorInit => FinalInv
<1> SUFFICES ASSUME OperatorInit PROVE FinalInv
  OBVIOUS
<1>1. \A o \in Operator : heard[o] = NULL /\ told[o] = NULL /\ verdicts[o] = {} /\ Queued(o) = {}
  BY DEF OperatorInit, Queued
<1>2. "refused" # NULL /\ "nack" # NULL
  BY OperatorAssumption
<1> QED
  BY <1>1, <1>2 DEF OperatorInit, Init, FinalInv, Stage, OrderInv, Nacked

\* The invariant of refusals, beside that of every order.
THEOREM RefusalInvariance == FifoSpec => [](OInv /\ FinalInv)
<1>1. OperatorInit => OInv /\ FinalInv
  BY OperatorInitInv, RefusalInitInv
<1>2. OInv /\ FinalInv /\ [FifoNext]_operatorVars => OInv' /\ FinalInv'
  BY RefusalStepInv, OtherStepsInv, HandleInv DEF FifoNext
<1> QED
  BY <1>1, <1>2, PTL DEF FifoSpec

\* A run that has told its operator "refused" has not had its command applied
\* and never will, although the registry may die before it acknowledges the
\* refusal and meet the command again, which is then the next it handles.
THEOREM RefusalsAreFinal == FifoSpec => []RefusedMeansNotApplied
<1>1. FinalInv => RefusedMeansNotApplied
  BY DEF FinalInv, RefusedMeansNotApplied, Alone, OrderInv, Nacked, StandsRefused
<1> QED
  BY <1>1, RefusalInvariance, PTL
=============================================================================
