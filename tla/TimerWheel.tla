----------------------------- MODULE TimerWheel -----------------------------
(***************************************************************************)
(* JinTimer (base/jintimer.cpp): one thread, a wheel of slots, and in each *)
(* slot a list of nodes ordered by the turn of the wheel in which they are *)
(* due.  A node stores the turns between it and its predecessor, not its   *)
(* own: inserting, popping and erasing must keep the sums right.  The      *)
(* messages of a node are a set here: what their order is for, the order   *)
(* of the callbacks, is that of the ids in the map timeout_.               *)
(*                                                                         *)
(* A step is a call from the main loop (start, cancel, poll) or a step of  *)
(* poll's loop over the expired timers, whose callbacks may start and      *)
(* cancel any timer.  curTimespot_ is kept modulo granularity_, the only   *)
(* way the code uses it but for the difference of two readings, which is   *)
(* the parameter of Poll.  distance_ is 0 outside poll.                    *)
(***************************************************************************)
EXTENDS Integers, Sequences, FiniteSets, SequencesExt

CONSTANTS
  Granularity,    \* granularity_, in ms
  CycleNodes,     \* cycleNodes_, slots of the wheel
  Intervals,      \* intervals that timers are started with, in ms
  MaxTimers,      \* bound: timers started in a behaviour
  MaxElapsed,     \* bound: ms between two polls
  Watched         \* bound: the ids whose callbacks Fires follows

ASSUME TimerAssumption ==
  /\ Granularity \in Nat \ {0} /\ CycleNodes \in Nat \ {0}
  /\ Intervals \subseteq Nat /\ MaxTimers \in Nat /\ MaxElapsed \in Nat
  /\ Watched \subseteq 1 .. MaxTimers

Ids == 1 .. MaxTimers
Slots == 0 .. CycleNodes - 1
NotCalling == [id |-> 0, restarted |-> FALSE]

VARIABLES
  serial,     \* serial_, the last id handed out
  phase,      \* curTimespot_ modulo granularity_
  lastNode,   \* lastNode_
  nodes,      \* nodes_: the list of each slot
  msg,        \* the TriggerMsg records in use, by id
  timers,     \* keys of timers_
  timeout,    \* keys of timeout_
  calling     \* poll's loop: the timer that is called back, if any

vars == <<serial, phase, lastNode, nodes, msg, timers, timeout, calling>>

-----------------------------------------------------------------------------
\* Lists of nodes

\* The turn in which the k-th node of a list is due.  (A recursive function
\* and not a fold, for the prover: it cannot look into folds.)
Depth(list, k) ==
  LET sum[j \in 0 .. Len(list)] == IF j = 0 THEN 0 ELSE sum[j - 1] + list[j].interval
  IN sum[k]

MsgsOf(list) == UNION {list[k].msgs : k \in DOMAIN list}

NodeOf(list, id) == CHOOSE k \in DOMAIN list : id \in list[k].msgs

TurnOf(list, id) == Depth(list, NodeOf(list, id))

\* insert: walk past the nodes that are due in earlier turns, then join the
\* node of the same turn or put a new one in front of the next, whose
\* distance becomes shorter.
Shortened_Not(list, k, by) == list

Shortened(list, k, by) ==
  IF k \in DOMAIN list THEN [list EXCEPT ![k].interval = @ - by] ELSE list

Insert(list, layer, id) ==
  LET passed == Cardinality({k \in DOMAIN list : Depth(list, k) < layer})
      rest == layer - Depth(list, passed)
      next == passed + 1
  IN IF next \in DOMAIN list /\ list[next].interval = rest
     THEN [list EXCEPT ![next].msgs = @ \cup {id}]
     ELSE InsertAt(Shortened(list, next, rest), next, [interval |-> rest, msgs |-> {id}])

\* popExpire: take the nodes before turn layer, and at layer 0 also the one
\* that is due at once; the first that stays is that much nearer.
Expired(list, layer) ==
  {k \in DOMAIN list : \A j \in 1 .. k :
     LET rest == layer - Depth(list, j - 1)
     IN list[j].interval < rest \/ (rest = 0 /\ list[j].interval = 0)}

PopExpire(list, layer) ==
  LET popped == Cardinality(Expired(list, layer))
      rest == layer - Depth(list, popped)
  IN Shortened(SubSeq(list, popped + 1, Len(list)), 1, rest)

\* eraseTimer: a node whose last message goes is taken out, and the next
\* one takes over its turns.
Lengthened_Not(list, k, by) == list

Lengthened(list, k, by) ==
  IF k \in DOMAIN list THEN [list EXCEPT ![k].interval = @ + by] ELSE list

EraseTimer_Empty(list, id) ==
  LET k == NodeOf(list, id) IN [list EXCEPT ![k].msgs = @ \ {id}]

EraseTimer(list, id) ==
  LET k == NodeOf(list, id)
  IN IF list[k].msgs # {id}
     THEN [list EXCEPT ![k].msgs = @ \ {id}]
     ELSE Lengthened(RemoveAt(list, k), k, list[k].interval)

-----------------------------------------------------------------------------
Without(f, S) == [i \in DOMAIN f \ S |-> f[i]]

Min0(S) == CHOOSE i \in S : \A j \in S : i <= j

NodeInv(interval, ph) == (interval + ph) \div Granularity

Init ==
  /\ serial = 0 /\ phase \in 0 .. Granularity - 1 /\ lastNode = 0
  /\ nodes = [s \in Slots |-> <<>>]
  /\ msg = Without(<<>>, {}) /\ timers = {} /\ timeout = {}
  /\ calling = NotCalling

\* start(tmsg): into the slot and turn of the interval, counted from the
\* time of the last poll.
Scheduled(id, m) ==
  LET inv == NodeInv(m.interval, phase)
      slot == (lastNode + inv) % CycleNodes
  IN /\ nodes' = [nodes EXCEPT ![slot] = Insert(@, inv \div CycleNodes, id)]
     /\ msg' = [i \in DOMAIN msg \cup {id} |-> IF i = id THEN [m EXCEPT !.hindex = slot] ELSE msg[i]]
     /\ timers' = timers \cup {id}

\* The main loop, or a callback, has control.
InCaller == calling # NotCalling \/ timeout = {}

Start(interval, autoRestart) ==
  /\ InCaller /\ serial < MaxTimers
  /\ serial' = serial + 1
  /\ Scheduled(serial + 1, [interval |-> interval, autoRestart |-> autoRestart, hindex |-> 0])
  /\ UNCHANGED <<phase, lastNode, timeout, calling>>

CancelRunning(id) ==
  /\ id \in timers
  /\ timers' = timers \ {id}
  /\ nodes' = [nodes EXCEPT ![msg[id].hindex] = EraseTimer(@, id)]
  /\ UNCHANGED timeout

\* An expired timer that is still waiting for its callback.
CancelExpired(id) ==
  /\ id \in timeout /\ id \notin timers
  /\ timeout' = timeout \ {id}
  /\ UNCHANGED <<timers, nodes>>

Cancel(id) ==
  /\ InCaller
  /\ CancelRunning(id) \/ CancelExpired(id)
  /\ msg' = Without(msg, {id})
  /\ UNCHANGED <<serial, phase, lastNode, calling>>

\* Slots from the hand to this one.
Ahead(slot) == (slot + CycleNodes - lastNode) % CycleNodes

\* popAllExpire: the slots that the hand passed are one turn further than
\* the others; without a full turn only the slot it reached is looked at.
TurnsOf(slot, distance) ==
  LET layer == distance \div CycleNodes
  IN IF Ahead(slot) < distance % CycleNodes THEN layer + 1 ELSE layer

Reached(distance) ==
  {s \in Slots : distance >= CycleNodes \/ Ahead(s) <= distance % CycleNodes}

PopAllExpire(distance) ==
  LET popped(s) == IF s \in Reached(distance)
                   THEN PopExpire(nodes[s], TurnsOf(s, distance)) ELSE nodes[s]
      left == [s \in Slots |-> popped(s)]
  IN /\ nodes' = left
     /\ timeout' = UNION {MsgsOf(nodes[s]) \ MsgsOf(left[s]) : s \in Slots}
     /\ timers' = timers \ timeout'
     /\ lastNode' = (lastNode + distance) % CycleNodes

\* poll: refresh, then popAllExpire.  The loop over timeout_ begins if
\* anything expired.
Poll(elapsed) ==
  /\ timeout = {} /\ calling = NotCalling
  /\ phase' = (phase + elapsed) % Granularity
  /\ PopAllExpire(NodeInv(elapsed, phase))
  /\ UNCHANGED <<serial, msg, calling>>

\* The wall clock is behind the last poll: refresh takes its time over and
\* lets no tick pass.
PollSetBack ==
  /\ timeout = {} /\ calling = NotCalling
  /\ phase' \in 0 .. Granularity - 1
  /\ PopAllExpire(0)
  /\ UNCHANGED <<serial, msg, calling>>

\* The loop takes the timer with the least id, and starts it again first if
\* it restarts itself.
Fire ==
  /\ timeout # {} /\ calling = NotCalling
  /\ LET id == Min0(timeout)
     IN /\ timeout' = timeout \ {id}
        /\ calling' = [id |-> id, restarted |-> msg[id].autoRestart]
        /\ IF msg[id].autoRestart
           THEN Scheduled(id, msg[id])
           ELSE UNCHANGED <<nodes, msg, timers>>
  /\ UNCHANGED <<serial, phase, lastNode>>

\* The callback returns; the record goes unless it was started again.
ReleasedAfter_Always == {calling.id}

ReleasedAfter == IF calling.restarted THEN {} ELSE {calling.id}

Return ==
  /\ calling # NotCalling
  /\ msg' = Without(msg, ReleasedAfter)
  /\ calling' = NotCalling
  /\ UNCHANGED <<serial, phase, lastNode, nodes, timers, timeout>>

Next ==
  \/ \E interval \in Intervals, autoRestart \in BOOLEAN : Start(interval, autoRestart)
  \/ \E id \in Ids : Cancel(id)
  \/ \E elapsed \in 0 .. MaxElapsed : Poll(elapsed)
  \/ PollSetBack
  \/ Fire
  \/ Return

Spec == Init /\ [][Next]_vars

\* Callbacks return, and the main loop polls for ever while time passes.
FairSpec ==
  /\ Spec
  /\ WF_vars(Fire \/ Return)
  /\ SF_vars(\E elapsed \in Granularity .. MaxElapsed : Poll(elapsed))

-----------------------------------------------------------------------------
\* The list of a slot: no node is empty, no two are due in the same turn, and
\* no message is in two of them.
Node == [interval : Nat, msgs : (SUBSET Ids) \ {{}}]

Ordered(list) ==
  /\ list \in Seq(Node)
  /\ \A k \in DOMAIN list : k > 1 => list[k].interval > 0
  /\ \A j, k \in DOMAIN list : list[j].msgs \cap list[k].msgs # {} => j = k

TriggerMsg == [interval : Intervals, autoRestart : BOOLEAN, hindex : Slots]

\* Types, and the shape of the wheel: the messages of the nodes are the
\* running timers, each in the slot its record names.
IInv ==
  /\ serial \in 0 .. MaxTimers /\ phase \in 0 .. Granularity - 1 /\ lastNode \in Slots
  /\ msg \in [DOMAIN msg -> TriggerMsg] /\ DOMAIN msg \subseteq 1 .. serial
  /\ timers \subseteq DOMAIN msg /\ timeout \subseteq DOMAIN msg /\ timers \cap timeout = {}
  /\ calling = NotCalling \/ calling \in [id : 1 .. serial, restarted : BOOLEAN]
  /\ nodes \in [Slots -> Seq(Node)]
  /\ \A s \in Slots :
       /\ Ordered(nodes[s])
       /\ MsgsOf(nodes[s]) = {id \in timers : msg[id].hindex = s}

\* Every record of the pool is owned by exactly one place, whatever a
\* callback cancels or starts: none leaks, and none is released twice when
\* its own callback, or that of another, cancelled it.
PoolExact ==
  /\ DOMAIN msg = timers \cup timeout \cup
                  (IF calling # NotCalling /\ ~calling.restarted THEN {calling.id} ELSE {})
  /\ calling # NotCalling /\ ~calling.restarted =>
       calling.id \notin timers \cup timeout /\ ~msg[calling.id].autoRestart

\* A timer that runs is called back, again and again if it restarts itself,
\* unless it is cancelled, however the polls and the callbacks of others fall.
Fires == \A id \in Watched : id \in timers ~> calling.id = id \/ id \notin DOMAIN msg

\* Ticks until a timer is due.
LeftOf(id) == Ahead(msg[id].hindex) + CycleNodes * TurnOf(nodes[msg[id].hindex], id)

\* The ticks of an interval, and those between two polls.
Ticks == {NodeInv(t, ph) : t \in Intervals \cup 0 .. MaxElapsed, ph \in 0 .. Granularity - 1}

\* The wheel is a set of timers with ticks left (module Timers).
Abs == INSTANCE Timers WITH
  Cycle <- CycleNodes, left <- [id \in timers |-> LeftOf(id)],
  every <- [id \in DOMAIN msg |-> msg[id].interval],
  again <- {id \in DOMAIN msg : msg[id].autoRestart},
  ready <- timeout, calling <- calling.id

ImplementsTimers == Abs!AbsSpec
=============================================================================
